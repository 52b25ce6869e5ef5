------------------------------- MODULE Tasker -------------------------------
(***************************************************************************)
(* The taskers: the loop of cmd/tasker.go and the service of               *)
(* internal/tasker/service.go, which turn the resources of a Redis set     *)
(* into tasks on the task queue (internal/core/resource.go and task.go).   *)
(*                                                                         *)
(* The templates are selected by the extension of the resource, so that at *)
(* most one of them matches it; a task is named by its resource.           *)
(***************************************************************************)
EXTENDS Naturals, FiniteSets

CONSTANTS Tasker,      \* processes that run `chyme tasker start`
          Resource,    \* members of the resource set
          Templated,   \* those whose extension a template knows
          Malformed,   \* those that url.Parse rejects
          NoResource,  \* no task is being enqueued
          BatchSize,   \* TaskBatchSize of the configuration
          Repeated,    \* bound: those that are ingested more than once
          MaxIngests,  \* bound: how often they are ingested
          MaxFaults,   \* bound: calls that fail, over all taskers
          Faults       \* what may go wrong in a behaviour

\* "sqs": SendMessage fails;  "tasks": the task set's SADD fails;  "pop" and
\* "requeue": the resource set's SPOP and SADD fail;  "crash": a tasker dies.
Fault == {"sqs", "tasks", "pop", "requeue", "crash"}

ASSUME TaskerAssumption ==
  /\ IsFiniteSet(Tasker)
  /\ Templated \subseteq Resource
  /\ Malformed \subseteq Resource
  /\ NoResource \notin Resource
  /\ BatchSize \in Nat \ {0}
  /\ MaxIngests \in Nat
  /\ MaxFaults \in Nat
  /\ Faults \subseteq Fault

VARIABLES resources,  \* the resource set in Redis
          taskSet,    \* the task set in Redis: tasks that were recorded
          sent,       \* messages sent to the task queue for each resource
          ingested,   \* how often each resource was added by an ingest
          faults,     \* failed calls whose resources are requeued
          losses,     \* failures that may lose popped resources
          pc,         \* control of each tasker
          sources,    \* the slice CreateTasks works through
          source      \* the one whose task is being enqueued

stores == <<resources, taskSet, sent, ingested>>
failures == <<faults, losses>>
vars == <<stores, failures, pc, sources, source>>

PC == {"idle", "loop", "enqueue", "record", "requeue", "down"}

TypeOK ==
  /\ resources \subseteq Resource
  /\ taskSet \subseteq Resource
  /\ sent \in [Resource -> Nat]
  /\ ingested \in [Resource -> Nat]
  /\ faults \in Nat /\ losses \in Nat
  /\ pc \in [Tasker -> PC]
  /\ sources \in [Tasker -> SUBSET Resource]
  /\ source \in [Tasker -> Resource \cup {NoResource}]

Init ==
  /\ resources = {} /\ taskSet = {}
  /\ sent = [r \in Resource |-> 0]
  /\ ingested = [r \in Resource |-> 0]
  /\ faults = 0 /\ losses = 0
  /\ pc = [k \in Tasker |-> "idle"]
  /\ sources = [k \in Tasker |-> {}]
  /\ source = [k \in Tasker |-> NoResource]
-----------------------------------------------------------------------------
\* The ingest service adds r to the resource set.
Ingest(r) ==
  /\ ingested[r] < IF r \in Repeated THEN MaxIngests ELSE 1
  /\ ingested' = [ingested EXCEPT ![r] = @ + 1]
  /\ resources' = resources \cup {r}
  /\ UNCHANGED <<taskSet, sent, failures, pc, sources, source>>

\* A call of kind f fails; its effect may have taken place all the same.
Fails(f) ==
  /\ f \in Faults
  /\ faults + losses < MaxFaults
  /\ faults' = faults + 1
  /\ UNCHANGED losses

\* A call on which the resource set depends fails, or the tasker dies.
Loses(f) ==
  /\ f \in Faults
  /\ faults + losses < MaxFaults
  /\ losses' = losses + 1
  /\ UNCHANGED faults

\* SPOP of at most BatchSize members: all of a smaller set.
Batch(S) ==
  /\ S \subseteq resources
  /\ Cardinality(S) = IF Cardinality(resources) < BatchSize
                        THEN Cardinality(resources) ELSE BatchSize

\* Mutated form of Poll: the members are read and not removed.
PollPeeks(k) ==
  /\ pc[k] = "idle"
  /\ \E S \in SUBSET resources :
       Batch(S) /\ sources' = [sources EXCEPT ![k] = S \ Malformed]
  /\ pc' = [pc EXCEPT ![k] = "loop"]
  /\ UNCHANGED <<stores, failures, source>>

\* A tick: Poll calls CreateTasks, which pops its sources.
Poll(k) ==
  /\ pc[k] = "idle"
  /\ \E S \in SUBSET resources :
       /\ Batch(S)
       /\ resources' = resources \ S
       /\ sources' = [sources EXCEPT ![k] = S \ Malformed]
  /\ pc' = [pc EXCEPT ![k] = "loop"]
  /\ UNCHANGED <<taskSet, sent, ingested, failures, source>>

\* Pop fails: nothing was popped, or only the reply is lost.
PollFails(k) ==
  /\ pc[k] = "idle"
  /\ Loses("pop")
  /\ \/ UNCHANGED resources
     \/ \E S \in SUBSET resources : Batch(S) /\ resources' = resources \ S
  /\ UNCHANGED <<taskSet, sent, ingested, pc, sources, source>>

\* Mutated form of Create: a source is shifted off before its task is enqueued.
CreateShifts(k) ==
  /\ pc[k] = "loop"
  /\ \E r \in sources[k] :
       /\ sources' = [sources EXCEPT ![k] = @ \ {r}]
       /\ IF r \in Templated
            THEN /\ pc' = [pc EXCEPT ![k] = "enqueue"]
                 /\ source' = [source EXCEPT ![k] = r]
            ELSE UNCHANGED <<pc, source>>
  /\ UNCHANGED <<stores, failures>>

\* The head of the slice: its template's task is enqueued next, or no template
\* matches and it is shifted off.  SPOP's order is random.
Create(k) ==
  /\ pc[k] = "loop"
  /\ \E r \in sources[k] :
       \/ /\ r \in Templated
          /\ pc' = [pc EXCEPT ![k] = "enqueue"]
          /\ source' = [source EXCEPT ![k] = r]
          /\ UNCHANGED sources
       \/ /\ r \notin Templated
          /\ sources' = [sources EXCEPT ![k] = @ \ {r}]
          /\ UNCHANGED <<pc, source>>
  /\ UNCHANGED <<stores, failures>>

\* The slice is empty: CreateTasks returns, and the next tick is awaited.
Return(k) ==
  /\ pc[k] = "loop" /\ sources[k] = {}
  /\ pc' = [pc EXCEPT ![k] = "idle"]
  /\ UNCHANGED <<stores, failures, sources, source>>

Send(r) == sent' = [sent EXCEPT ![r] = @ + 1]

\* TaskQueue.Enqueue.
Enqueue(k) ==
  /\ pc[k] = "enqueue"
  /\ Send(source[k])
  /\ pc' = [pc EXCEPT ![k] = "record"]
  /\ UNCHANGED <<resources, taskSet, ingested, failures, sources, source>>

\* Mutated form of Fail: CreateTasks returns without its defer.
FailDrops(k) ==
  /\ pc' = [pc EXCEPT ![k] = "idle"]
  /\ source' = [source EXCEPT ![k] = NoResource]
  /\ sources' = [sources EXCEPT ![k] = {}]
  /\ UNCHANGED <<resources, ingested>>

\* enqueueTasks returns an error: CreateTasks does, and its defer runs.
Fail(k) ==
  /\ pc' = [pc EXCEPT ![k] = "requeue"]
  /\ source' = [source EXCEPT ![k] = NoResource]
  /\ UNCHANGED <<resources, ingested, sources>>

\* Mutated form of EnqueueFails: the error is ignored.
EnqueueFailsIgnored(k) ==
  /\ pc[k] = "enqueue"
  /\ Fails("sqs")
  /\ pc' = [pc EXCEPT ![k] = "record"]
  /\ UNCHANGED <<stores, sources, source>>

EnqueueFails(k) ==
  /\ pc[k] = "enqueue"
  /\ Fails("sqs")
  /\ Send(source[k]) \/ UNCHANGED sent
  /\ UNCHANGED taskSet
  /\ Fail(k)

\* Mutated form of Record: the source is shifted off before it is recorded.
RecordShifted(k) ==
  /\ pc[k] = "record"
  /\ sources' = [sources EXCEPT ![k] = @ \ {source[k]}]
  /\ source' = [source EXCEPT ![k] = NoResource]
  /\ taskSet' = taskSet \cup {source'[k]}
  /\ pc' = [pc EXCEPT ![k] = "loop"]
  /\ UNCHANGED <<resources, sent, ingested, failures>>

\* TaskRepository.Add; the source is shifted off the slice.
Record(k) ==
  /\ pc[k] = "record"
  /\ taskSet' = taskSet \cup {source[k]}
  /\ sources' = [sources EXCEPT ![k] = @ \ {source[k]}]
  /\ source' = [source EXCEPT ![k] = NoResource]
  /\ pc' = [pc EXCEPT ![k] = "loop"]
  /\ UNCHANGED <<resources, sent, ingested, failures>>

\* Mutated form of RecordFails: the error is ignored.
RecordFailsIgnored(k) ==
  /\ pc[k] = "record"
  /\ Fails("tasks")
  /\ sources' = [sources EXCEPT ![k] = @ \ {source[k]}]
  /\ source' = [source EXCEPT ![k] = NoResource]
  /\ pc' = [pc EXCEPT ![k] = "loop"]
  /\ UNCHANGED stores

RecordFails(k) ==
  /\ pc[k] = "record"
  /\ Fails("tasks")
  /\ taskSet' = taskSet \cup {source[k]} \/ UNCHANGED taskSet
  /\ UNCHANGED sent
  /\ Fail(k)

\* The defer: what was not shifted off goes back to the resource set, the
\* source that failed included.
Requeue(k) ==
  /\ pc[k] = "requeue"
  /\ resources' = resources \cup sources[k]
  /\ sources' = [sources EXCEPT ![k] = {}]
  /\ pc' = [pc EXCEPT ![k] = "idle"]
  /\ UNCHANGED <<taskSet, sent, ingested, failures, source>>

\* Its Add fails and the error is discarded.
RequeueFails(k) ==
  /\ pc[k] = "requeue"
  /\ Loses("requeue")
  /\ resources' = resources \cup sources[k] \/ UNCHANGED resources
  /\ sources' = [sources EXCEPT ![k] = {}]
  /\ pc' = [pc EXCEPT ![k] = "idle"]
  /\ UNCHANGED <<taskSet, sent, ingested, source>>

\* SIGINT or SIGTERM: the select takes doneCh, which it does between polls.
Stop(k) ==
  /\ pc[k] = "idle"
  /\ pc' = [pc EXCEPT ![k] = "down"]
  /\ UNCHANGED <<stores, failures, sources, source>>

Crash(k) ==
  /\ pc[k] # "down"
  /\ Loses("crash")
  /\ pc' = [pc EXCEPT ![k] = "down"]
  /\ sources' = [sources EXCEPT ![k] = {}]
  /\ source' = [source EXCEPT ![k] = NoResource]
  /\ UNCHANGED stores

Start(k) ==
  /\ pc[k] = "down"
  /\ pc' = [pc EXCEPT ![k] = "idle"]
  /\ UNCHANGED <<stores, failures, sources, source>>
-----------------------------------------------------------------------------
Work(k) ==
  \/ Poll(k) \/ Create(k) \/ Return(k) \/ Enqueue(k) \/ Record(k)
  \/ Requeue(k)

Trouble(k) ==
  \/ PollFails(k) \/ EnqueueFails(k) \/ RecordFails(k) \/ RequeueFails(k)
  \/ Crash(k)

Next ==
  \/ \E r \in Resource : Ingest(r)
  \/ \E k \in Tasker : Work(k) \/ Trouble(k) \/ Stop(k) \/ Start(k)

Spec == Init /\ [][Next]_vars

\* Fairness: ticks come and calls return.  Nobody restarts a stopped tasker.
LiveSpec == Spec /\ \A k \in Tasker : WF_vars(Work(k))
-----------------------------------------------------------------------------
(***************************************************************************)
(* Properties.                                                             *)
(***************************************************************************)

\* Resource r is still to be made a task: it is in the set or in some slice.
Pending(r) == r \in resources \/ \E k \in Tasker : r \in sources[k]

\* While the resource set answers and no tasker dies, an ingested resource that
\* a template knows is never lost between the set, the slice and the queue,
\* whatever SendMessage and the task set do (the defer of CreateTasks).
Conserved ==
  losses = 0 =>
    \A r \in Templated \ Malformed :
      ingested[r] > 0 => Pending(r) \/ sent[r] > 0

\* Under the same conditions the task set catches up with the queue: a task
\* that was sent is recorded or its resource comes round again.
SentIsRecorded ==
  losses = 0 =>
    \A r \in Resource : sent[r] > 0 => r \in taskSet \/ Pending(r)

\* The task set never names a task that was not sent: enqueueTasks records a
\* task after its Enqueue, and so Fail and Crash leave no hollow entry.
RecordedWasSent == \A r \in taskSet : sent[r] > 0

\* Tasker k will still enqueue a task for r from its slice.
Holds(k, r) == r \in sources[k] /\ ~(pc[k] = "record" /\ source[k] = r)

Holders(r) == {k \in Tasker : Holds(k, r)}

\* One ingest makes at most one message, except that each call that failed and
\* is retried may make one more: the taskers never take the same member twice,
\* and requeueing the rest of a slice brings back no source that was already
\* shifted off.  Lost replies of the resource set and crashes double nothing.
DuplicatesNeedFaults ==
  \A r \in Resource :
    sent[r] + (IF r \in resources THEN 1 ELSE 0)
            + Cardinality(Holders(r))
      <= ingested[r] + faults

\* Once some tasker stays up, every member of the resource set that a template
\* knows is made a message, each time it is ingested, however often the calls
\* on the way fail and whatever the other taskers' slices hold, unless a call
\* to the resource set fails or a tasker dies.
EveryIngestIsEnqueued ==
  \A k \in Tasker : <>[](pc[k] # "down") =>
    \A r \in Templated \ Malformed, n \in 0..(MaxIngests + MaxFaults) :
      (r \in resources /\ sent[r] = n) ~> sent[r] > n \/ losses > 0
=============================================================================
