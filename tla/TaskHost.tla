------------------------------ MODULE TaskHost ------------------------------
(***************************************************************************)
(* What the attempts at one task do to the host they run on: its workspace *)
(* (the task loader of internal/core/task.go), its container (the Docker   *)
(* executor of internal/core/executor_docker.go) and its output in S3      *)
(* (internal/core/loader.go, pkg/aws/s3.go).  Directory and container are  *)
(* named by Task.Hash(), so that every attempt at the task has the same.   *)
(*                                                                         *)
(* Module Worker reduces each of these calls to its outcome; here they are *)
(* the steps, and Worker's control is reduced to their order.  Attempts    *)
(* overlap when SQS redelivers early or the tasker has sent a task twice,  *)
(* and follow one another after a restart: the service never looks into    *)
(* inProcess before it starts one.                                         *)
(***************************************************************************)
EXTENDS Naturals

CONSTANTS Attempts,  \* bound: the attempts at the task on this host
          MaxFaults  \* bound: failing calls, failing containers, dead workers

ASSUME TaskHostAssumption == Attempts \in Nat /\ MaxFaults \in Nat

\* The goroutines that process a message of the task, in the order they begin.
Attempt == 1..Attempts
NoAttempt == 0

VARIABLES input,      \* the workspace's input directory
          output,     \* its output directory
          container,  \* status of the container that bears the task's hash
          maker,      \* the attempt that created it, which stands for its id
          code,       \* its status is 0
          whole,      \* it has read the whole input
          mounted,    \* its /out is the current output directory
          bucket,     \* how much of the task's output is in S3
          pc,         \* what each attempt is about to do
          failed,     \* it has met an error
          box,        \* the container it waits for
          fd,         \* the file it downloads to is in the current input
          listed,     \* the output it has listed for the upload
          faults,     \* faults so far
          crossed,    \* some attempt began beside another one
          shouldRemove  \* the worker's CH_WORKER_DOCKER_REMOVE, true by default

diskVars == <<input, output>>
containerVars == <<container, maker, code, whole, mounted>>
attemptVars == <<failed, box, fd, listed>>
runVars == <<crossed, shouldRemove>>
vars == <<diskVars, containerVars, bucket, pc, attemptVars, faults, runVars>>

Content == {"none", "empty", "part", "full"}

\* The output directory holds what the container last started on it has written:
\* nothing or some of it; or, once that has ended with its input read whole, all
\* of it ("full") or what failing tools left, be it nothing ("short").  Beside
\* that there may be stale files, of containers before it.
Made == {"short", "full"}
Output == [own : {"none", "empty", "part"} \cup Made, stale : BOOLEAN]
NoOutput == [own |-> "none", stale |-> FALSE]

MayHoldFiles(out) == out.stale \/ out.own \in {"part", "short", "full"}
MayBeEmpty(out) == ~out.stale /\ out.own \in {"empty", "short"}

Ended == {"complete", "failed", "dead"}
Step == {"workspace", "clear", "open", "fetch", "find", "make", "start",
         "wait", "result", "list", "send", "cleanDir", "cleanContainer"}
Active == {a \in Attempt : pc[a] \in Step}

TypeOK ==
  /\ input \in Content
  /\ output \in Output
  /\ container \in {"none", "created", "running", "exited"}
  /\ maker \in Attempt \cup {NoAttempt}
  /\ code \in BOOLEAN
  /\ whole \in BOOLEAN
  /\ mounted \in BOOLEAN
  /\ bucket \in {"none", "part", "full"}
  /\ pc \in [Attempt -> {"idle"} \cup Step \cup Ended]
  /\ failed \in [Attempt -> BOOLEAN]
  /\ box \in [Attempt -> Attempt \cup {NoAttempt}]
  /\ fd \in [Attempt -> BOOLEAN]
  /\ listed \in [Attempt -> Output]
  /\ faults \in 0..MaxFaults
  /\ crossed \in BOOLEAN
  /\ shouldRemove \in BOOLEAN

Init ==
  /\ input = "none" /\ output = NoOutput
  /\ container = "none" /\ maker = NoAttempt
  /\ code = FALSE /\ whole = FALSE /\ mounted = FALSE
  /\ bucket = "none"
  /\ pc = [a \in Attempt |-> "idle"]
  /\ failed = [a \in Attempt |-> FALSE]
  /\ box = [a \in Attempt |-> NoAttempt]
  /\ fd = [a \in Attempt |-> FALSE]
  /\ listed = [a \in Attempt |-> NoOutput]
  /\ faults = 0
  /\ crossed = FALSE
  /\ shouldRemove \in BOOLEAN
-----------------------------------------------------------------------------
Goto(a, step) == pc' = [pc EXCEPT ![a] = step]

\* Process has met an error: processMessage cleans up.
GiveUp(a) == Goto(a, "cleanDir") /\ failed' = [failed EXCEPT ![a] = TRUE]

\* Execute has returned a nil result, and the next line reads its Err: the
\* process ends, its containers do not.
Panic == pc' = [a \in Attempt |-> IF a \in Active THEN "dead" ELSE pc[a]]

Fault == faults < MaxFaults /\ faults' = faults + 1

\* The input's files are unlinked under a container that may have opened them.
InputVanishes ==
  /\ whole' \in IF container = "running" THEN {whole, FALSE} ELSE {whole}
  /\ fd' = [a \in Attempt |-> FALSE]

\* A message of the task is delivered to the worker.
Begin(a) ==
  /\ pc[a] = "idle"
  /\ \A b \in 1..a-1 : pc[b] # "idle"
  /\ Goto(a, "workspace")
  /\ crossed' = (crossed \/ Active # {})
  /\ UNCHANGED <<diskVars, containerVars, bucket, attemptVars, faults,
                 shouldRemove>>

\* MkdirAll leaves directories that are there as they are.
CreateWorkspace(a) ==
  /\ pc[a] = "workspace"
  /\ input' = IF input = "none" THEN "empty" ELSE input
  /\ output' = [output EXCEPT !.own = IF @ = "none" THEN "empty" ELSE @]
  /\ Goto(a, "clear")
  /\ UNCHANGED <<containerVars, bucket, attemptVars, faults, runVars>>

\* Mutated form of RemoveContents: the directory is not made again.
RemoveContentsOnly(a) ==
  /\ pc[a] = "clear"
  /\ input' = "none"
  /\ InputVanishes
  /\ Goto(a, "open")
  /\ UNCHANGED <<output, container, maker, code, mounted, bucket, failed, box,
                 listed, faults, runVars>>

\* removeContents: the input directory is removed and made anew, the output
\* directory is left alone.
RemoveContents(a) ==
  /\ pc[a] = "clear"
  /\ input' = "empty"
  /\ InputVanishes
  /\ Goto(a, "open")
  /\ UNCHANGED <<output, container, maker, code, mounted, bucket, failed, box,
                 listed, faults, runVars>>

\* s3ResourceLoader.Download creates the file, or opens the one that is there
\* without truncating it; there is no directory to hold it after a Clean.
DownloadOpens(a) ==
  /\ pc[a] = "open"
  /\ IF input = "none"
       THEN GiveUp(a) /\ UNCHANGED <<input, fd>>
       ELSE /\ input' = IF input = "empty" THEN "part" ELSE input
            /\ fd' = [fd EXCEPT ![a] = TRUE]
            /\ Goto(a, "fetch")
            /\ UNCHANGED failed
  /\ UNCHANGED <<output, containerVars, bucket, box, listed, faults, runVars>>

\* The object is written to that file, wherever it is by now.
DownloadFetches(a) ==
  /\ pc[a] = "fetch"
  /\ input' = IF fd[a] THEN "full" ELSE input
  /\ fd' = [fd EXCEPT ![a] = FALSE]
  /\ Goto(a, "find")
  /\ UNCHANGED <<output, containerVars, bucket, failed, box, listed, faults,
                 runVars>>

\* containerIDForTask: a container of that name is taken for this attempt's,
\* whoever made it and whatever became of it.
FindContainer(a) ==
  /\ pc[a] = "find"
  /\ IF container = "none"
       THEN Goto(a, "make") /\ UNCHANGED box
       ELSE Goto(a, "wait") /\ box' = [box EXCEPT ![a] = maker]
  /\ UNCHANGED <<diskVars, containerVars, bucket, failed, fd, listed, faults,
                 runVars>>

\* Docker refuses a name that is in use.
MakeContainer(a) ==
  /\ pc[a] = "make"
  /\ IF container = "none"
       THEN /\ container' = "created"
            /\ maker' = a
            /\ code' = TRUE
            /\ box' = [box EXCEPT ![a] = a]
            /\ Goto(a, "start")
       ELSE Panic /\ UNCHANGED <<container, maker, code, box>>
  /\ UNCHANGED <<diskVars, whole, mounted, bucket, failed, fd, listed,
                 faults, runVars>>

\* Its directories are bound as they are now; Docker makes those that are gone.
StartContainer(a) ==
  /\ pc[a] = "start"
  /\ IF container = "created" /\ maker = a
       THEN /\ container' = "running"
            /\ whole' = (input = "full")
            /\ mounted' = TRUE
            /\ input' = IF input = "none" THEN "empty" ELSE input
            /\ output' = [own |-> "empty", stale |-> MayHoldFiles(output)]
            /\ Goto(a, "wait")
       ELSE Panic /\ UNCHANGED <<diskVars, container, whole, mounted>>
  /\ UNCHANGED <<maker, code, bucket, attemptVars, faults, runVars>>

\* Until it ends a container writes its output piece by piece.
ContainerWrites ==
  /\ container = "running" /\ mounted
  /\ output' = [output EXCEPT !.own = "part"]
  /\ UNCHANGED <<input, containerVars, bucket, pc, attemptVars, faults,
                 runVars>>

\* It ends.  The images' scripts look at no tool's status and end with status 0,
\* whatever was made of their input, or of none.  Another image may fail.
ContainerExits ==
  /\ container = "running"
  /\ container' = "exited"
  /\ \/ /\ code' = TRUE
        /\ \/ ~(mounted /\ whole) /\ UNCHANGED output
           \/ /\ mounted /\ whole
              /\ \E own \in Made : output' = [output EXCEPT !.own = own]
        /\ UNCHANGED faults
     \/ /\ Fault
        /\ code' = FALSE
        /\ UNCHANGED output
  /\ UNCHANGED <<input, maker, whole, mounted, bucket, pc, attemptVars,
                 runVars>>

\* Execute's timer fires first: the container is killed, and the error comes
\* with a nil result.
TimeoutKills(a) ==
  /\ pc[a] = "wait"
  /\ container = "running" /\ maker = box[a]
  /\ Fault
  /\ container' = "exited"
  /\ code' = FALSE
  /\ Panic
  /\ UNCHANGED <<diskVars, maker, whole, mounted, bucket, attemptVars, runVars>>

\* Mutated form of WaitContainer: the wait is for an exit.
WaitForExit(a) ==
  /\ pc[a] = "wait"
  /\ container = "exited" /\ maker = box[a]
  /\ failed' = [failed EXCEPT ![a] = ~code]
  /\ Goto(a, "result")
  /\ UNCHANGED <<diskVars, containerVars, bucket, box, fd, listed, faults,
                 runVars>>

\* Mutated form of WaitContainer: it does not wait.
WaitBlindly(a) ==
  /\ pc[a] = "wait"
  /\ failed' = [failed EXCEPT ![a] = ~code]
  /\ Goto(a, "result")
  /\ UNCHANGED <<diskVars, containerVars, bucket, box, fd, listed, faults,
                 runVars>>

\* ContainerWait with WaitConditionNotRunning: a container that was created and
\* never started is not running either.
WaitContainer(a) ==
  /\ pc[a] = "wait"
  /\ IF container # "none" /\ maker = box[a]
       THEN /\ container # "running"
            /\ failed' = [failed EXCEPT ![a] = ~code]
            /\ Goto(a, "result")
       ELSE Panic /\ UNCHANGED failed
  /\ UNCHANGED <<diskVars, containerVars, bucket, box, fd, listed, faults,
                 runVars>>

\* makeResult looks the container up again, and Process looks at the errors.
MakeResult(a) ==
  /\ pc[a] = "result"
  /\ IF container = "none" THEN Panic
     ELSE Goto(a, IF failed[a] THEN "cleanDir" ELSE "list")
  /\ UNCHANGED <<diskVars, containerVars, bucket, attemptVars, faults, runVars>>

\* s3ResourceLoader.Upload: DeletePrefix lists to depth 0 and deletes nothing,
\* and the output directory is walked.
UploadLists(a) ==
  /\ pc[a] = "list"
  /\ IF output.own = "none"
       THEN GiveUp(a) /\ UNCHANGED listed
       ELSE /\ listed' = [listed EXCEPT ![a] = output]
            /\ Goto(a, "send")
            /\ UNCHANGED failed
  /\ UNCHANGED <<diskVars, containerVars, bucket, box, fd, faults, runVars>>

\* Mutated form of UploadSends: the listing replaces the output, file or not.
UploadReplaces(a) ==
  /\ pc[a] = "send"
  /\ bucket' = listed[a].own
  /\ Goto(a, "cleanDir")
  /\ UNCHANGED <<diskVars, containerVars, attemptVars, faults, runVars>>

\* UploadWithIterator: without a file there is nothing to do, and no error.
UploadSends(a) ==
  /\ pc[a] = "send"
  /\ \/ MayBeEmpty(listed[a]) /\ UNCHANGED bucket
     \/ /\ MayHoldFiles(listed[a])
        /\ bucket' = IF listed[a].own = "full" THEN "full" ELSE "part"
  /\ Goto(a, "cleanDir")
  /\ UNCHANGED <<diskVars, containerVars, attemptVars, faults, runVars>>

\* Attempt a comes to an early end: if it uploads, objects may be written.
SendsSome(a) ==
  \/ UNCHANGED bucket
  \/ pc[a] = "send" /\ MayHoldFiles(listed[a]) /\ bucket' = "part"

UploadFails(a) ==
  /\ pc[a] = "send"
  /\ Fault
  /\ SendsSome(a)
  /\ GiveUp(a)
  /\ UNCHANGED <<diskVars, containerVars, box, fd, listed, runVars>>

\* taskLoader.Clean
CleanWorkspace(a) ==
  /\ pc[a] = "cleanDir"
  /\ input' = "none" /\ output' = NoOutput
  /\ InputVanishes
  /\ mounted' = FALSE
  /\ Goto(a, "cleanContainer")
  /\ UNCHANGED <<container, maker, code, bucket, failed, box, listed, faults,
                 runVars>>

RemoveContainer ==
  /\ container' = "none" /\ maker' = NoAttempt
  /\ code' = FALSE /\ whole' = FALSE /\ mounted' = FALSE

\* Mutated form of CleanContainer: a failed task keeps its container.
CleanContainerIfOk(a) ==
  /\ pc[a] = "cleanContainer"
  /\ IF failed[a] \/ container \in {"none", "running"}
       THEN Goto(a, "failed") /\ UNCHANGED containerVars
       ELSE Goto(a, "complete") /\ RemoveContainer
  /\ UNCHANGED <<diskVars, bucket, attemptVars, faults, runVars>>

\* dockerTaskExecutor.Clean: if it is to remove the container, it is an error
\* when there is none, and Docker does not remove one that runs.  Then the
\* message is deleted, or its task failed.
CleanContainer(a) ==
  /\ pc[a] = "cleanContainer"
  /\ IF shouldRemove /\ container \in {"none", "running"}
       THEN /\ Goto(a, "failed")
            /\ failed' = [failed EXCEPT ![a] = TRUE]
            /\ UNCHANGED containerVars
       ELSE /\ Goto(a, IF failed[a] THEN "failed" ELSE "complete")
            /\ IF shouldRemove THEN RemoveContainer ELSE UNCHANGED containerVars
            /\ UNCHANGED failed
  /\ UNCHANGED <<diskVars, bucket, box, fd, listed, faults, runVars>>

\* A call of Process other than Execute's returns an error.
CallFails(a) ==
  /\ pc[a] \in {"workspace", "clear", "open", "fetch", "list"}
  /\ Fault
  /\ GiveUp(a)
  /\ UNCHANGED <<diskVars, containerVars, bucket, box, fd, listed, runVars>>

\* A call of Execute returns an error.  A container that Docker could not start
\* may have got a status for it.
ExecuteFails(a) ==
  /\ pc[a] \in {"find", "make", "start", "wait", "result"}
  /\ Fault
  /\ Panic
  /\ \/ UNCHANGED code
     \/ pc[a] = "start" /\ container = "created" /\ maker = a /\ code' = FALSE
  /\ UNCHANGED <<diskVars, container, maker, whole, mounted, bucket,
                 attemptVars, runVars>>

\* One of the Cleans returns an error, and the other is called all the same.
CleanFails(a) ==
  /\ pc[a] \in {"cleanDir", "cleanContainer"}
  /\ Fault
  /\ failed' = [failed EXCEPT ![a] = TRUE]
  /\ Goto(a, IF pc[a] = "cleanDir" THEN "cleanContainer" ELSE "failed")
  /\ UNCHANGED <<diskVars, containerVars, bucket, box, fd, listed, runVars>>

\* The context is canceled under a call that heeds it: the attempt ends, and
\* cleans up nothing.  Its container runs on.
Canceled(a) ==
  /\ pc[a] \in {"fetch", "wait", "send"}
  /\ Fault
  /\ SendsSome(a)
  /\ Goto(a, "dead")
  /\ UNCHANGED <<diskVars, containerVars, attemptVars, runVars>>

\* The worker process dies, or a signal ends it: nothing is cleaned up.
Die ==
  /\ Active # {}
  /\ Fault
  /\ Panic
  /\ UNCHANGED <<diskVars, containerVars, bucket, attemptVars, runVars>>
-----------------------------------------------------------------------------
Process(a) ==
  \/ CreateWorkspace(a) \/ RemoveContents(a) \/ DownloadOpens(a)
  \/ DownloadFetches(a) \/ FindContainer(a) \/ MakeContainer(a)
  \/ StartContainer(a) \/ WaitContainer(a) \/ MakeResult(a) \/ UploadLists(a)
  \/ UploadSends(a) \/ CleanWorkspace(a) \/ CleanContainer(a)

Disturbed(a) ==
  \/ CallFails(a) \/ ExecuteFails(a) \/ UploadFails(a) \/ CleanFails(a)
  \/ TimeoutKills(a) \/ Canceled(a)

Next ==
  \/ \E a \in Attempt : Begin(a) \/ Process(a) \/ Disturbed(a)
  \/ ContainerWrites
  \/ ContainerExits
  \/ Die

Spec == Init /\ [][Next]_vars

\* Fairness: calls return, and a container comes to its end.
LiveSpec ==
  Spec /\ WF_vars(ContainerExits) /\ \A a \in Attempt : WF_vars(Process(a))
-----------------------------------------------------------------------------
(***************************************************************************)
(* Properties.                                                             *)
(***************************************************************************)

\* Where attempts do not overlap, one that ran a container of its own and is
\* complete has uploaded all that this container made of the whole input,
\* whatever failed and whoever died before it: Execute waits for its end.
\* With it may go what an earlier container left in the output directory, which
\* Download does not clear, but only after an attempt that failed or died.
OwnRunIsUploaded ==
  \A a \in Attempt :
    pc[a] = "complete" /\ box[a] = a /\ ~crossed =>
      /\ listed[a].own \in Made
      /\ listed[a].stale => \E b \in Attempt : pc[b] \in {"failed", "dead"}

\* However attempts overlap: when all have ended without a fault and none has
\* died, they have left no workspace behind, and no container if these are to be
\* removed.
NothingIsLeft ==
  /\ faults = 0
  /\ \A a \in Attempt : pc[a] \in {"idle", "complete", "failed"}
  => /\ input = "none" /\ output = NoOutput
     /\ shouldRemove => container = "none"

\* Tools have failed in some container whose status was 0.
ToolsFailed == \E a \in Attempt : listed[a].own = "short"

\* Without a fault and without overlap every attempt completes, with no stale
\* file in its upload, and the output is in S3 unless tools have failed: the
\* clean-up of one attempt never stands in the way of the next, nor does a
\* container that is not removed.
TroubleHasCause ==
  faults = 0 /\ ~crossed =>
    \A a \in Attempt :
      pc[a] \in Ended =>
        /\ pc[a] = "complete"
        /\ ~listed[a].stale
        /\ bucket = "full" \/ ToolsFailed

\* "Processes a task using a Docker container" (executor_docker.go): where
\* attempts do not even overlap and containers are removed, a task that is
\* complete has had its input read by a container that ran to its end.
CompleteIsProcessed ==
  /\ ~crossed /\ shouldRemove
  /\ \E a \in Attempt : pc[a] = "complete"
  => \E a \in Attempt : listed[a].own \in Made

\* Every attempt comes to an end, whatever it finds on the host: time and again
\* none is active, and an attempt begins only once.
AttemptsEnd ==
  []<>(Active = {})
=============================================================================
