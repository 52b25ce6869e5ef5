------------------------------- MODULE Worker -------------------------------
(***************************************************************************)
(* The worker cluster: the main loop of cmd/worker.go, the worker service  *)
(* of internal/worker/service.go and its persister, against the task queue *)
(* of module TaskQueue.  A host runs one worker process; every message it  *)
(* receives is handled by a goroutine of its own, named by its receipt,    *)
(* beside the message's timeout timer, the other goroutines of the process *)
(* and the signal handler.                                                 *)
(*                                                                         *)
(* What the stages do to S3, the file system and Docker is reduced to the  *)
(* outcome the service sees; the outcome of every call is nondeterministic.*)
(***************************************************************************)
EXTENDS TaskQueue

CONSTANTS Host,             \* machines that run `chyme worker start`
          Task,             \* tasks, identified by Task.Hash()
          TaskOf,           \* the task a message carries
          Unhooked,         \* tasks whose Hooks are not in the registry
          Garbled,          \* messages whose body is not a JSON task
          NoHost,           \* host of a receipt without a goroutine
          EarlyRedelivery,  \* SQS may redeliver before message.Timeout
          Disruptions       \* what may go wrong in a behaviour

\* "signal": SIGINT or SIGTERM;  "crash": the process is killed;  "panic": the
\* executor returns an infrastructure error;  "sqs": a call to SQS fails.
Disruption == {"signal", "crash", "panic", "sqs"}

ASSUME WorkerAssumption ==
  /\ TaskOf \in [Message -> Task]
  /\ Unhooked \subseteq Task
  /\ Garbled \subseteq Message
  /\ NoHost \notin Host
  /\ EarlyRedelivery \in BOOLEAN
  /\ Disruptions \subseteq Disruption

VARIABLES main,       \* control of each process's main loop
          canceled,   \* the process's context is canceled
          drained,    \* its error goroutine has taken its one error
          inProcess,  \* service.inProcess: hashes of the tasks in process
          saved,      \* tasks with a .chstate.json in their workspace, by host
          host,       \* the host whose process received the receipt
          live,       \* receipts whose goroutine exists
          pc,         \* where the goroutine is, or was when it was killed
          stage,      \* the ProcessStage it has reached
          failed,     \* its errs is not empty
          deleted,    \* Task.isDeleted of the task unmarshalled for it
          due,        \* less than 10s remain to message.Timeout, or none
          timer       \* its time.AfterFunc timer

hostVars == <<main, canceled, drained>>
routineVars == <<host, live, pc, stage, failed, deleted, due, timer>>
workerVars == <<hostVars, inProcess, saved, routineVars>>
vars == <<queueVars, workerVars>>

ProcessStage ==
  {"start", "download", "execute", "metadata", "upload", "complete"}
PC == {"idle", "begin", "process", "persist", "clean", "failDelete",
       "failSend", "delete", "report", "clear", "done"}

TypeOK ==
  /\ QueueTypeOK
  /\ main \in [Host -> {"check", "poll", "down"}]
  /\ canceled \in [Host -> BOOLEAN]
  /\ drained \in [Host -> BOOLEAN]
  /\ inProcess \in [Host -> SUBSET Task]
  /\ saved \in [Host -> SUBSET Task]
  /\ host \in [Receipt -> Host \cup {NoHost}]
  /\ live \subseteq Receipt
  /\ pc \in [Receipt -> PC]
  /\ stage \in [Receipt -> ProcessStage]
  /\ failed \in [Receipt -> BOOLEAN]
  /\ deleted \in [Receipt -> BOOLEAN]
  /\ due \in [Receipt -> BOOLEAN]
  /\ timer \in [Receipt -> {"off", "armed", "firing", "fired"}]

Init ==
  /\ QueueInit
  /\ main = [h \in Host |-> "check"]
  /\ canceled = [h \in Host |-> FALSE]
  /\ drained = [h \in Host |-> FALSE]
  /\ inProcess = [h \in Host |-> {}]
  /\ saved = [h \in Host |-> {}]
  /\ host = [r \in Receipt |-> NoHost]
  /\ live = {}
  /\ pc = [r \in Receipt |-> "idle"]
  /\ stage = [r \in Receipt |-> "start"]
  /\ failed = [r \in Receipt |-> FALSE]
  /\ deleted = [r \in Receipt |-> FALSE]
  /\ due = [r \in Receipt |-> FALSE]
  /\ timer = [r \in Receipt |-> "off"]

TaskAt(r) == TaskOf[message[r]]
-----------------------------------------------------------------------------
(***************************************************************************)
(* The process: its main loop, its signal handler, its end and restart.    *)
(***************************************************************************)

\* os.Exit, an unrecovered panic or a kill: no goroutine and no timer of the
\* process survives; what the goroutines had reached stays in pc and stage.
Kill(h) ==
  /\ main' = [main EXCEPT ![h] = "down"]
  /\ canceled' = [canceled EXCEPT ![h] = FALSE]
  /\ drained' = [drained EXCEPT ![h] = FALSE]
  /\ inProcess' = [inProcess EXCEPT ![h] = {}]
  /\ live' = {r \in live : host[r] # h}
  /\ timer' = [r \in Receipt |->
                 IF host[r] = h /\ timer[r] \in {"armed", "firing"}
                   THEN "off" ELSE timer[r]]
  /\ UNCHANGED <<queueVars, saved, host, pc, stage, failed, deleted, due>>

\* SIGINT or SIGTERM: cancelOnSignal cancels the context all tasks run under.
Signal(h) ==
  /\ "signal" \in Disruptions
  /\ main[h] # "down"
  /\ canceled' = [canceled EXCEPT ![h] = TRUE]
  /\ UNCHANGED <<queueVars, main, drained, inProcess, saved, routineVars>>

\* The top of the loop finds the context canceled: os.Exit(0), whatever the
\* goroutines are doing.
Exit(h) == main[h] = "check" /\ canceled[h] /\ Kill(h)

Crash(h) == "crash" \in Disruptions /\ main[h] # "down" /\ Kill(h)

Restart(h) ==
  /\ main[h] = "down"
  /\ main' = [main EXCEPT ![h] = "check"]
  /\ UNCHANGED <<queueVars, canceled, drained, inProcess, saved, routineVars>>

\* The top of the loop calls svc.Poll, which long-polls the queue.
StartPoll(h) ==
  /\ main[h] = "check" /\ ~canceled[h]
  /\ main' = [main EXCEPT ![h] = "poll"]
  /\ UNCHANGED <<queueVars, canceled, drained, inProcess, saved, routineVars>>

\* Mutated form of PollEmpty: the loop reports on errCh, like a goroutine.
PollEmptyReports(h) ==
  /\ main[h] = "poll"
  /\ main' = [main EXCEPT ![h] = IF drained[h] THEN "blocked" ELSE "check"]
  /\ drained' = [drained EXCEPT ![h] = TRUE]
  /\ UNCHANGED <<queueVars, canceled, inProcess, saved, routineVars>>

\* Poll returns without a message: none arrived, or the call failed.
PollEmpty(h) ==
  /\ main[h] = "poll"
  /\ main' = [main EXCEPT ![h] = "check"]
  /\ UNCHANGED <<queueVars, canceled, drained, inProcess, saved, routineVars>>

\* Poll receives message m: it enters the task in inProcess, starts the
\* message's goroutine and returns.
Poll(h, m, r) ==
  /\ main[h] = "poll"
  /\ m \notin Garbled
  /\ Dequeue(m, r)
  /\ main' = [main EXCEPT ![h] = "check"]
  /\ inProcess' = [inProcess EXCEPT ![h] = @ \cup {TaskOf[m]}]
  /\ host' = [host EXCEPT ![r] = h]
  /\ live' = live \cup {r}
  /\ pc' = [pc EXCEPT ![r] = "begin"]
  /\ UNCHANGED <<canceled, drained, saved, stage, failed, deleted, due, timer>>

\* SQS hands message m out, but no goroutine starts for it: its body does not
\* unmarshal into a Task and is skipped, or the reply is lost.
PollDrops(h, m, r) ==
  /\ main[h] = "poll"
  /\ m \in Garbled \/ "sqs" \in Disruptions
  /\ Dequeue(m, r)
  /\ main' = [main EXCEPT ![h] = "check"]
  /\ UNCHANGED <<canceled, drained, inProcess, saved, routineVars>>

-----------------------------------------------------------------------------
(***************************************************************************)
(* A message's goroutine: processMessage and Process.  `At' guards each of *)
(* its steps; `Ends' is the return of Process, which stops the timer: one  *)
(* that is armed never fires, one that is firing is not waited for.        *)
(***************************************************************************)
At(r, p) == r \in live /\ pc[r] = p

AtStage(r, s) == At(r, "process") /\ stage[r] = s

Goto(r, p) == pc' = [pc EXCEPT ![r] = p]

\* The steps that only move goroutine r to p.
Moves(r, p) ==
  /\ Goto(r, p)
  /\ UNCHANGED <<hostVars, inProcess, saved, host, live, stage, failed,
                 deleted, due, timer>>

\* Mutated form of Begin: no check that time remains.
BeginUnchecked(r) ==
  /\ At(r, "begin")
  /\ TaskAt(r) \notin Unhooked
  /\ Goto(r, "process")
  /\ timer' = [timer EXCEPT ![r] = "armed"]
  /\ UNCHANGED <<queueVars, hostVars, inProcess, saved, host, live, stage,
                 failed, deleted, due>>

\* The hooks are resolved, the remaining time is checked, the timer starts.
Begin(r) ==
  /\ At(r, "begin")
  /\ \/ /\ TaskAt(r) \in Unhooked
        /\ Goto(r, "failDelete")
        /\ failed' = [failed EXCEPT ![r] = TRUE]
        /\ UNCHANGED timer
     \/ /\ TaskAt(r) \notin Unhooked /\ due[r]
        /\ Goto(r, "clear")
        /\ UNCHANGED <<failed, timer>>
     \/ /\ TaskAt(r) \notin Unhooked /\ ~due[r]
        /\ Goto(r, "process")
        /\ timer' = [timer EXCEPT ![r] = "armed"]
        /\ UNCHANGED failed
  /\ UNCHANGED <<queueVars, hostVars, inProcess, saved, host, live, stage,
                 deleted, due>>

\* The stage succeeds and falls through to the next one.
Advance(r, s) ==
  /\ stage' = [stage EXCEPT ![r] = s]
  /\ UNCHANGED <<queueVars, hostVars, inProcess, saved, host, live, pc,
                 failed, deleted, due, timer>>

\* Process returns stage s; the goroutine goes on at p, with error f or none.
Ends(r, s, p, f) ==
  /\ stage' = [stage EXCEPT ![r] = s]
  /\ Goto(r, p)
  /\ failed' = [failed EXCEPT ![r] = f]
  /\ timer' = [timer EXCEPT ![r] = IF @ = "armed" THEN "off" ELSE @]
  /\ UNCHANGED <<queueVars, hostVars, inProcess, saved, host, live, deleted,
                 due>>

Errs(r, s) == Ends(r, s, "clean", TRUE)

\* An error that says "context canceled" exists only once the context is.
IsCtxCanceled(r, s) == canceled[host[r]] /\ Ends(r, s, "persist", FALSE)

CreateWorkspace(r) ==
  /\ AtStage(r, "start")
  /\ Advance(r, "download") \/ Errs(r, "start")

Download(r) ==
  /\ AtStage(r, "download")
  /\ \/ Advance(r, "execute")
     \/ Errs(r, "download")
     \/ IsCtxCanceled(r, "download")

\* Mutated form of Execute: the error is returned with an unknown stage.
ExecuteUnknownStage(r) ==
  /\ AtStage(r, "execute")
  /\ Advance(r, "upload") \/ Errs(r, "error")

\* The container ran: it succeeded, or client code returned an error.
Execute(r) ==
  /\ AtStage(r, "execute")
  /\ \/ Advance(r, "upload")
     \/ Errs(r, "metadata")
     \/ IsCtxCanceled(r, "execute")

\* Docker itself failed: Execute returns a nil result and its error, and
\* reading result.Err panics, which ends the whole process.
ExecutePanics(r) ==
  /\ "panic" \in Disruptions
  /\ AtStage(r, "execute")
  /\ Kill(host[r])

Upload(r) ==
  /\ AtStage(r, "upload")
  /\ \/ Ends(r, "complete", "clean", FALSE)
     \/ Errs(r, "upload")
     \/ IsCtxCanceled(r, "upload")

\* The persister writes the state file, or cannot: its directory may be gone.
Persist(r) ==
  /\ At(r, "persist")
  /\ \/ /\ Goto(r, "clear")
        /\ saved' = [saved EXCEPT ![host[r]] = @ \cup {TaskAt(r)}]
     \/ Goto(r, "report") /\ UNCHANGED saved
  /\ UNCHANGED <<queueVars, hostVars, inProcess, host, live, stage, failed,
                 deleted, due, timer>>

\* Mutated form of Clean: its errors replace the error of Process.
CleanForgets(r) ==
  /\ At(r, "clean")
  /\ \E errs \in BOOLEAN :
       /\ failed' = [failed EXCEPT ![r] = errs]
       /\ Goto(r, IF errs THEN "failDelete" ELSE "delete")
  /\ saved' = [saved EXCEPT ![host[r]] = @ \ {TaskAt(r)}]
  /\ UNCHANGED <<queueVars, hostVars, inProcess, host, live, stage, deleted,
                 due, timer>>

\* Both Clean calls: the workspace is removed, state file included, and the
\* container; either may fail, and a failed one may have removed the file.
Clean(r) ==
  /\ At(r, "clean")
  /\ \E errs \in BOOLEAN, removed \in BOOLEAN :
       /\ removed \/ errs
       /\ failed' = [failed EXCEPT ![r] = @ \/ errs]
       /\ saved' = [saved EXCEPT ![host[r]] =
                      IF removed THEN @ \ {TaskAt(r)} ELSE @]
  /\ Goto(r, IF failed'[r] THEN "failDelete" ELSE "delete")
  /\ UNCHANGED <<queueVars, hostVars, inProcess, host, live, stage, deleted,
                 due, timer>>

\* A call to SQS fails: the request is lost, or only its reply.
CallFails(Effect) == "sqs" \in Disruptions /\ (Effect \/ UNCHANGED queueVars)

\* Mutated form of FailDelete: its error is ignored.
FailDeleteIgnored(r) ==
  /\ At(r, "failDelete")
  /\ DeleteMessage(r) \/ CallFails(DeleteMessage(r))
  /\ Moves(r, "failSend")

\* TaskQueue.Fail: the message is deleted first, the task sent to the dead
\* letter queue next.
FailDelete(r) ==
  /\ At(r, "failDelete")
  /\ \/ DeleteMessage(r) /\ Moves(r, "failSend")
     \/ CallFails(DeleteMessage(r)) /\ Moves(r, "report")

FailSend(r) ==
  /\ At(r, "failSend")
  /\ \/ EnqueueDead(r) /\ Moves(r, "clear")
     \/ CallFails(EnqueueDead(r)) /\ Moves(r, "report")

\* TaskQueue.Delete, by the goroutine (next step p) or by the timer: under the
\* task's lock, and idempotent once it succeeded.
DeleteOnce(r) ==
  \/ deleted[r] /\ UNCHANGED <<queueVars, deleted>>
  \/ /\ ~deleted[r]
     /\ DeleteMessage(r)
     /\ deleted' = [deleted EXCEPT ![r] = TRUE]

DeleteFails(r) ==
  ~deleted[r] /\ CallFails(DeleteMessage(r)) /\ UNCHANGED deleted

\* Mutated form of Delete: a timer whose call failed never unlocked the task.
DeleteLocked(r) ==
  /\ At(r, "delete")
  /\ timer[r] = "fired" => deleted[r]
  /\ DeleteOnce(r)
  /\ Goto(r, "clear")
  /\ UNCHANGED <<hostVars, inProcess, saved, host, live, stage, failed, due,
                 timer>>

Delete(r) ==
  /\ At(r, "delete")
  /\ \/ DeleteOnce(r) /\ Goto(r, "clear")
     \/ DeleteFails(r) /\ Goto(r, "report")
  /\ UNCHANGED <<hostVars, inProcess, saved, host, live, stage, failed, due,
                 timer>>

\* processErrCh <- err: the channel has no buffer and its reader takes one
\* error; every later sender waits for ever.
Report(r) ==
  /\ At(r, "report")
  /\ ~drained[host[r]]
  /\ drained' = [drained EXCEPT ![host[r]] = TRUE]
  /\ Goto(r, "clear")
  /\ UNCHANGED <<queueVars, main, canceled, inProcess, saved, host, live,
                 stage, failed, deleted, due, timer>>

\* Mutated form of Clear: the task stays in inProcess.
ClearKeepsEntry(r) ==
  /\ At(r, "clear")
  /\ live' = live \ {r}
  /\ Goto(r, "done")
  /\ UNCHANGED <<queueVars, hostVars, inProcess, saved, host, stage, failed,
                 deleted, due, timer>>

\* clearInProcess, and the end of the goroutine.
Clear(r) ==
  /\ At(r, "clear")
  /\ inProcess' = [inProcess EXCEPT ![host[r]] = @ \ {TaskAt(r)}]
  /\ live' = live \ {r}
  /\ Goto(r, "done")
  /\ UNCHANGED <<queueVars, hostVars, saved, host, stage, failed, deleted,
                 due, timer>>
-----------------------------------------------------------------------------
(***************************************************************************)
(* Time: the message's timeout, its timer and its visibility timeout.      *)
(***************************************************************************)

\* Less than ten seconds are left until message.Timeout.
Elapse(r) ==
  /\ message[r] # NoMessage
  /\ ~due[r]
  /\ due' = [due EXCEPT ![r] = TRUE]
  /\ UNCHANGED <<queueVars, hostVars, inProcess, saved, host, live, pc, stage,
                 failed, deleted, timer>>

\* message.Timeout passes: the timer starts a goroutine that deletes.
TimerFires(r) ==
  /\ timer[r] = "armed" /\ due[r]
  /\ timer' = [timer EXCEPT ![r] = "firing"]
  /\ UNCHANGED <<queueVars, hostVars, inProcess, saved, host, live, pc, stage,
                 failed, deleted, due>>

\* The timer's goroutine calls Delete; its error is ignored.
TimerDeletes(r) ==
  /\ timer[r] = "firing"
  /\ DeleteOnce(r) \/ DeleteFails(r)
  /\ timer' = [timer EXCEPT ![r] = "fired"]
  /\ UNCHANGED <<hostVars, inProcess, saved, host, live, pc, stage, failed,
                 due>>

\* SQS makes the message visible again.  message.Timeout assumes that this is
\* ten seconds after it, and so after the timer's delete; the queue's own
\* visibility timeout, which Dequeue does not override, may be shorter.
Expire(m) ==
  /\ ExpireVisibility(m)
  /\ \/ EarlyRedelivery
     \/ due[latest[m]] /\ timer[latest[m]] \notin {"armed", "firing"}
  /\ UNCHANGED workerVars

\* The tasker sends message m.
Arrive(m) == Enqueue(m) /\ UNCHANGED workerVars
-----------------------------------------------------------------------------
MainLoop(h) ==
  \/ Exit(h) \/ Restart(h) \/ StartPoll(h) \/ PollEmpty(h)
  \/ \E m \in Message, r \in Receipt : Poll(h, m, r) \/ PollDrops(h, m, r)

Goroutine(r) ==
  \/ Begin(r) \/ CreateWorkspace(r) \/ Download(r) \/ Execute(r) \/ Upload(r)
  \/ ExecutePanics(r) \/ Persist(r) \/ Clean(r) \/ FailDelete(r)
  \/ FailSend(r) \/ Delete(r) \/ Report(r) \/ Clear(r)

Clock(r) == Elapse(r) \/ TimerFires(r) \/ TimerDeletes(r)

\* What the hosts, their goroutines, the clocks and SQS do.
Cluster ==
  \/ \E h \in Host : MainLoop(h) \/ Signal(h) \/ Crash(h)
  \/ \E r \in Receipt : Goroutine(r) \/ Clock(r)
  \/ \E m \in Message : Expire(m)

Next == Cluster \/ \E m \in Message : Arrive(m)

Spec == Init /\ [][Next]_vars

(***************************************************************************)
(* Fairness: a long poll returns, the loop goes on, every call and every   *)
(* transfer of a goroutine ends (the container's by its timeout), clocks   *)
(* advance and timers fire.  SQS hands a message that stays available to   *)
(* some poller in the end, though not to each one: strong fairness.        *)
(***************************************************************************)
Fairness ==
  /\ \A h \in Host :
       /\ WF_vars(Exit(h) \/ StartPoll(h))
       /\ WF_vars(\/ PollEmpty(h)
                  \/ \E m \in Message, r \in Receipt :
                       Poll(h, m, r) \/ PollDrops(h, m, r))
  /\ \A m \in Message :
       /\ SF_vars(\E h \in Host, r \in Receipt : Poll(h, m, r))
       /\ WF_vars(Expire(m))
  /\ \A r \in Receipt :
       /\ WF_vars(Goroutine(r))
       /\ WF_vars(Elapse(r)) /\ WF_vars(TimerFires(r))
       /\ WF_vars(TimerDeletes(r))

LiveSpec == Spec /\ Fairness
-----------------------------------------------------------------------------
(***************************************************************************)
(* Properties.                                                             *)
(***************************************************************************)

\* Attempt r is between the delete and the dead letter queue of Fail.
Failing(r) == failed[r] /\ pc[r] \in {"failSend", "report", "clear", "done"}

\* Attempt r accounts for its message being gone: its output is uploaded, its
\* task is in the dead letter queue, its timeout gave it up, or Fail deleted
\* the message and had its send refused.
Accounts(r) ==
  \/ stage[r] = "complete" \/ r \in dlq \/ timer[r] = "fired" \/ Failing(r)

\* A message never leaves the queue unaccounted for: whatever fails or dies,
\* some attempt of it completed, dead-lettered it, timed out with it, or had
\* started to fail it.  In particular no cancel, stale receipt, lost reply or
\* restart makes service.go or task.go delete work that nobody did.
NoSilentLoss ==
  \A m \in Message :
    queue[m] = "gone" => \E r \in Receipt : message[r] = m /\ Accounts(r)

\* A task that is in the dead letter queue is still in the main queue only if
\* a later delivery of it has superseded the attempt that failed it.
DeadLetterExclusive ==
  \A r \in dlq : queue[message[r]] # "gone" => latest[message[r]] # r

\* Two attempts at one message are never in Process at the same time, on any
\* hosts: the timer of processMessage deletes a message before it could be
\* delivered again.  (Where SQS does not redeliver early and answers.)
NoOverlap ==
  \A r, s \in Receipt :
    /\ message[r] = message[s]
    /\ At(r, "process") /\ At(s, "process")
    => r = s

\* service.inProcess against the goroutines: an entry has a goroutine that
\* works on its task, and a working goroutine has its entry unless another
\* goroutine of the same task and process took it away when it ended.
InProcessTracksGoroutines ==
  \A h \in Host :
    /\ \A t \in inProcess[h] :
         \E r \in live : host[r] = h /\ TaskAt(r) = t
    /\ \A r \in live :
         \/ host[r] # h \/ TaskAt(r) \in inProcess[h]
         \/ \E s \in Receipt \ {r} :
              /\ pc[s] = "done" /\ host[s] = h
              /\ message[s] # NoMessage /\ TaskAt(s) = TaskAt(r)

\* The strict reading of "Marks a task as failed by moving it to the DLQ"
\* (task.go): a message that is gone was completed, timed out, or is in the
\* dead letter queue or still being moved there by a goroutine that lives.
NoTaskVanishes ==
  \A m \in Message :
    queue[m] = "gone" =>
      \E r \in Receipt :
        /\ message[r] = m
        /\ \/ stage[r] = "complete" \/ r \in dlq \/ timer[r] = "fired"
           \/ At(r, "failSend")

Exhausted == \A r \in Receipt : message[r] # NoMessage

\* Every task message that reaches the queue leaves it in the end: it is
\* delivered, and an attempt completes it, fails it or times out with it (or
\* the bound on deliveries is reached).
EventuallySettled ==
  \A m \in Message \ Garbled :
    queue[m] = "visible" ~> queue[m] = "gone" \/ Exhausted

\* Every attempt ends, or waits for ever to report an error that the process
\* stopped reading after the first.
AttemptsEnd ==
  \A r \in Receipt :
    r \in live ~> r \notin live \/ (pc[r] = "report" /\ drained[host[r]])
=============================================================================
