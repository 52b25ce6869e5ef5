--------------------------- MODULE TaskHostProofs ---------------------------
(***************************************************************************)
(* Proofs of the safety properties of TaskHost, for every number of        *)
(* attempts and of faults.                                                 *)
(*                                                                         *)
(* Each property speaks of the end of attempts; its invariant says what    *)
(* holds at every step on the way there.  Owned follows an attempt that is *)
(* alone: its file is in the input directory, then the input is whole, the *)
(* container it makes has read it and writes to the directory that will be *)
(* listed.  Tidy adds that this directory holds nothing older, as long as  *)
(* no attempt has failed or died.  Kept names the attempt that is still to *)
(* clean up for whatever is on the host, in every interleaving without a   *)
(* fault.  Smooth is Owned for a host on which nothing has gone wrong.     *)
(***************************************************************************)
EXTENDS TaskHost, TLAPS

BeforeMake == {"idle", "workspace", "clear", "open", "fetch", "find", "make"}

\* Where each attempt stands with the container of its own.
OwnedBy(a) ==
  /\ pc[a] \in BeforeMake => maker # a /\ box[a] # a
  /\ pc[a] = "open" => input = "empty"
  /\ pc[a] = "fetch" => fd[a]
  /\ pc[a] \in {"find", "make", "start"} => input = "full"
  /\ pc[a] = "make" => container = "none"
  /\ pc[a] = "start" => container = "created" /\ maker = a
  /\ pc[a] = "wait" /\ box[a] = a =>
       /\ container \in {"running", "exited"} /\ maker = a /\ mounted
       /\ container = "running" => whole
       /\ container = "exited" /\ code => output.own \in Made
  /\ pc[a] \in {"result", "list"} /\ box[a] = a =>
       container = "exited" /\ (failed[a] \/ output.own \in Made)
  /\ pc[a] = "list" => ~failed[a]
  /\ pc[a] \in {"send", "cleanDir", "cleanContainer"} /\ box[a] = a =>
       failed[a] \/ listed[a].own \in Made
  /\ pc[a] = "complete" /\ box[a] = a => listed[a].own \in Made

Alone == \A a, b \in Active : a = b

Owned == ~crossed => Alone /\ \A a \in Attempt : OwnedBy(a)

BeforeStart == {"clear", "open", "fetch", "find", "make", "start"}

\* Where each stands with the output directory.
TidyBy(a) ==
  /\ ~listed[a].stale
  /\ pc[a] = "workspace" => output.own = "none"
  /\ pc[a] \in BeforeStart => output.own = "empty"
  /\ pc[a] = "cleanContainer" => failed[a] \/ output.own = "none"

Untroubled == ~crossed /\ \A a \in Attempt : pc[a] \notin {"failed", "dead"}

Tidy ==
  Untroubled =>
    /\ ~output.stale
    /\ Active = {} => output.own = "none"
    /\ container = "running" => \E a \in Attempt : pc[a] = "wait"
    /\ \A a \in Attempt : TidyBy(a)

\* Steps of an attempt that has yet to remove the workspace.
Using == {"clear", "open", "fetch", "find", "make", "start", "wait", "result",
          "list", "send", "cleanDir"}
\* Steps of an attempt that has waited for its container, or is about to.
Waiting == {"wait", "result", "list", "send", "cleanDir", "cleanContainer"}

Undisturbed == faults = 0 /\ \A a \in Attempt : pc[a] # "dead"

Kept ==
  Undisturbed =>
    /\ input # "none" \/ output # NoOutput =>
         \E a \in Attempt : pc[a] \in Using
    /\ container # "none" => maker \in Attempt
    /\ container = "created" => pc[maker] = "start"
    /\ container = "running" => pc[maker] = "wait"
    /\ container = "exited" /\ shouldRemove => pc[maker] \in Waiting

\* The output is in S3, unless tools have failed.
Delivered == bucket = "full" \/ ToolsFailed

\* The container of an attempt that is complete, where none is removed.
Leftover == ~shouldRemove /\ container = "exited" /\ code /\ Delivered

Nothing == [own |-> "empty", stale |-> FALSE]

\* An attempt that nothing has ever stood in the way of; if it waits for a
\* container of another one, that is a leftover, and it uploads nothing.
SmoothBy(a) ==
  /\ pc[a] \notin {"failed", "dead"}
  /\ ~failed[a]
  /\ pc[a] \in BeforeMake \ {"idle"} => container = "none" \/ Leftover
  /\ pc[a] \in BeforeMake \cup {"start", "wait", "result", "list"} =>
       listed[a] = NoOutput
  /\ pc[a] = "start" => box[a] = a
  /\ pc[a] \in Waiting =>
       /\ container # "none" /\ box[a] = maker
       /\ container = "exited" => code
  /\ pc[a] \in Waiting \ {"wait"} => container = "exited"
  /\ pc[a] \in Waiting /\ box[a] # a => Leftover
  /\ pc[a] \in {"wait", "result", "list"} /\ box[a] # a => output = Nothing
  /\ pc[a] = "send" =>
       IF box[a] = a THEN listed[a].own \in Made ELSE listed[a] = Nothing
  /\ pc[a] \in {"cleanDir", "cleanContainer", "complete"} => Delivered

Smooth ==
  faults = 0 /\ ~crossed =>
    /\ \A a \in Attempt : SmoothBy(a)
    /\ Active = {} => container = "none" \/ Leftover
-----------------------------------------------------------------------------
LEMMA AttemptFacts == Attempt \subseteq Nat \ {0} /\ NoAttempt \notin Attempt
BY DEF Attempt, NoAttempt

PCType == pc \in [Attempt -> {"idle"} \cup Step \cup Ended]

LEMMA GotoType ==
  ASSUME TypeOK, NEW a \in Attempt, NEW s \in {"idle"} \cup Step \cup Ended,
         Goto(a, s)
  PROVE  PCType'
BY DEF TypeOK, PCType, Goto

LEMMA PanicType == ASSUME TypeOK, Panic PROVE PCType'
BY DEF TypeOK, PCType, Panic, Ended

LEMMA GiveUpType ==
  ASSUME TypeOK, NEW a \in Attempt, GiveUp(a)
  PROVE  PCType' /\ failed' \in [Attempt -> BOOLEAN]
BY GotoType DEF TypeOK, GiveUp, Step

LEMMA FaultType ==
  ASSUME TaskHostAssumption, TypeOK, Fault PROVE faults' \in 0..MaxFaults
BY DEF TaskHostAssumption, TypeOK, Fault

LEMMA TypeStep == ASSUME TaskHostAssumption, TypeOK, [Next]_vars PROVE TypeOK'
<1> USE DEF TypeOK, PCType, diskVars, containerVars, attemptVars, runVars,
            Content
<1>1. ASSUME NEW a \in Attempt, Begin(a) PROVE TypeOK'
  BY <1>1, GotoType DEF Begin, Step
<1>2. ASSUME NEW a \in Attempt,
             CreateWorkspace(a) \/ RemoveContents(a) \/ DownloadOpens(a)
               \/ DownloadFetches(a)
      PROVE  TypeOK'
  <2>1. CASE CreateWorkspace(a)
    <3>1. input' \in Content /\ output' \in Output
      BY <2>1 DEF CreateWorkspace, Output
    <3> QED BY <2>1, <3>1, GotoType DEF CreateWorkspace, Step
  <2>2. CASE RemoveContents(a)
    <3>1. PCType'
      BY <2>2, GotoType DEF RemoveContents, Step
    <3>2. whole' \in BOOLEAN /\ fd' \in [Attempt -> BOOLEAN]
      BY <2>2 DEF RemoveContents, InputVanishes
    <3> QED BY <2>2, <3>1, <3>2 DEF RemoveContents
  <2>3. CASE DownloadOpens(a)
    <3>1. CASE input = "none"
      BY <2>3, <3>1, GiveUpType DEF DownloadOpens
    <3>2. CASE input # "none"
      <4>1. PCType'
        BY <2>3, <3>2, GotoType DEF DownloadOpens, Step
      <4>2. input' \in Content /\ fd' \in [Attempt -> BOOLEAN]
        BY <2>3, <3>2 DEF DownloadOpens
      <4>3. UNCHANGED <<output, containerVars, bucket, failed, box, listed,
                        faults, runVars>>
        BY <2>3, <3>2 DEF DownloadOpens
      <4> QED BY <4>1, <4>2, <4>3
    <3> QED BY <3>1, <3>2
  <2>4. CASE DownloadFetches(a)
    BY <2>4, GotoType DEF DownloadFetches, Step
  <2> QED BY <1>2, <2>1, <2>2, <2>3, <2>4
<1>3. ASSUME NEW a \in Attempt, FindContainer(a) \/ WaitContainer(a)
      PROVE  TypeOK'
  <2>1. CASE FindContainer(a)
    BY <2>1, GotoType DEF FindContainer, Step
  <2>2. CASE WaitContainer(a)
    <3>1. CASE container # "none" /\ maker = box[a]
      <4>1. PCType'
        BY <2>2, <3>1, GotoType DEF WaitContainer, Step
      <4>2. failed' \in [Attempt -> BOOLEAN]
        BY <2>2, <3>1 DEF WaitContainer
      <4> QED BY <2>2, <4>1, <4>2 DEF WaitContainer
    <3>2. CASE ~(container # "none" /\ maker = box[a])
      BY <2>2, <3>2, PanicType DEF WaitContainer
    <3> QED BY <3>1, <3>2
  <2> QED BY <1>3, <2>1, <2>2
<1>4. ASSUME NEW a \in Attempt,
             MakeContainer(a) \/ StartContainer(a) \/ MakeResult(a)
      PROVE  TypeOK'
  <2>1. CASE MakeContainer(a)
    <3>1. PCType' /\ code' \in BOOLEAN
      BY <2>1, PanicType, GotoType DEF MakeContainer, Step
    <3> QED BY <2>1, <3>1 DEF MakeContainer
  <2>2. CASE StartContainer(a)
    <3>1. CASE container = "created" /\ maker = a
      <4>1. PCType'
        BY <2>2, <3>1, GotoType DEF StartContainer, Step
      <4>2. whole' \in BOOLEAN /\ input' \in Content
        BY <2>2, <3>1 DEF StartContainer
      <4>3. output' \in Output
        <5>1. output' = [own |-> "empty", stale |-> MayHoldFiles(output)]
          BY <2>2, <3>1 DEF StartContainer
        <5>2. MayHoldFiles(output) \in BOOLEAN
          BY DEF MayHoldFiles, Output
        <5> QED BY <5>1, <5>2 DEF Output
      <4> QED BY <2>2, <3>1, <4>1, <4>2, <4>3 DEF StartContainer
    <3>2. CASE ~(container = "created" /\ maker = a)
      BY <2>2, <3>2, PanicType DEF StartContainer
    <3> QED BY <3>1, <3>2
  <2>3. CASE MakeResult(a)
    BY <2>3, PanicType, GotoType DEF MakeResult, Step
  <2> QED BY <1>4, <2>1, <2>2, <2>3
<1>5. ASSUME NEW a \in Attempt, UploadLists(a) \/ UploadSends(a)
      PROVE  TypeOK'
  <2>1. CASE UploadLists(a)
    BY <2>1, GiveUpType, GotoType DEF UploadLists, Step
  <2>2. CASE UploadSends(a)
    <3>1. bucket' \in {"none", "part", "full"}
      BY <2>2 DEF UploadSends
    <3> QED BY <2>2, <3>1, GotoType DEF UploadSends, Step
  <2> QED BY <1>5, <2>1, <2>2
<1>6. ASSUME NEW a \in Attempt, CleanWorkspace(a) \/ CleanContainer(a)
      PROVE  TypeOK'
  <2>1. CASE CleanWorkspace(a)
    BY <2>1, GotoType DEF CleanWorkspace, InputVanishes, Step, NoOutput,
                              Output
  <2>2. CASE CleanContainer(a)
    <3>1. PCType'
      <4>1. CASE failed[a]
                   \/ (shouldRemove /\ container \in {"none", "running"})
        <5>1. Goto(a, "failed")
          BY <2>2, <4>1 DEF CleanContainer
        <5> QED BY <5>1, GotoType DEF Ended
      <4>2. CASE ~failed[a]
                   /\ ~(shouldRemove /\ container \in {"none", "running"})
        <5>1. Goto(a, "complete")
          BY <2>2, <4>2 DEF CleanContainer
        <5> QED BY <5>1, GotoType DEF Ended
      <4> QED BY <4>1, <4>2
    <3>2. failed' \in [Attempt -> BOOLEAN]
      BY <2>2 DEF CleanContainer
    <3>3. /\ container' \in {"none", container} /\ maker' \in {maker, NoAttempt}
          /\ code' \in BOOLEAN /\ whole' \in BOOLEAN /\ mounted' \in BOOLEAN
      BY <2>2 DEF CleanContainer, RemoveContainer
    <3>4. UNCHANGED <<diskVars, bucket, box, fd, listed, faults, runVars>>
      BY <2>2 DEF CleanContainer
    <3> QED BY <3>1, <3>2, <3>3, <3>4
  <2> QED BY <1>6, <2>1, <2>2
<1>7. ASSUME NEW a \in Attempt, CallFails(a) \/ UploadFails(a) \/ CleanFails(a)
      PROVE  TypeOK'
  <2>1. CASE CallFails(a)
    BY <2>1, GiveUpType, FaultType DEF CallFails
  <2>2. CASE UploadFails(a)
    BY <2>2, GiveUpType, FaultType DEF UploadFails, SendsSome
  <2>3. CASE CleanFails(a)
    BY <2>3, GotoType, FaultType DEF CleanFails, Step, Ended
  <2> QED BY <1>7, <2>1, <2>2, <2>3
<1>8. ASSUME NEW a \in Attempt, ExecuteFails(a) \/ TimeoutKills(a)
      PROVE  TypeOK'
  <2>1. PCType' /\ faults' \in 0..MaxFaults
    BY <1>8, PanicType, FaultType DEF ExecuteFails, TimeoutKills
  <2>2. CASE ExecuteFails(a)
    BY <2>1, <2>2 DEF ExecuteFails
  <2>3. CASE TimeoutKills(a)
    BY <2>1, <2>3 DEF TimeoutKills
  <2> QED BY <1>8, <2>2, <2>3
<1>9. CASE ContainerWrites \/ ContainerExits
  <2>1. CASE ContainerWrites
    <3>1. output' \in Output
      BY <2>1 DEF ContainerWrites, Output
    <3> QED BY <2>1, <3>1 DEF ContainerWrites
  <2>2. CASE ContainerExits
    <3>1. faults' \in 0..MaxFaults
      BY <2>2, FaultType DEF ContainerExits
    <3>2. output' \in Output
      BY <2>2 DEF ContainerExits, Output, Made
    <3>3. /\ container' = "exited" /\ code' \in BOOLEAN
          /\ UNCHANGED <<input, maker, whole, mounted, bucket, pc,
                         attemptVars, runVars>>
      BY <2>2 DEF ContainerExits
    <3> QED BY <3>1, <3>2, <3>3
  <2> QED BY <1>9, <2>1, <2>2
<1>10. CASE Die
  BY <1>10, PanicType, FaultType DEF Die
<1>11. CASE UNCHANGED vars
  BY <1>11 DEF vars
<1>12. ASSUME NEW a \in Attempt, Canceled(a) PROVE TypeOK'
  BY <1>12, GotoType, FaultType DEF Canceled, SendsSome, Ended
<1> QED BY <1>1, <1>2, <1>3, <1>4, <1>5, <1>6, <1>7, <1>8, <1>9, <1>10, <1>11,
           <1>12 DEF Next, Process, Disturbed
-----------------------------------------------------------------------------
\* What a step without a fault or a death cannot be.
LEMMA NoFault == ASSUME TypeOK, Undisturbed', Fault PROVE FALSE
BY DEF TypeOK, Undisturbed, Fault

LEMMA NoPanic ==
  ASSUME TypeOK, Undisturbed', NEW a \in Attempt, pc[a] \in Step, Panic
  PROVE  FALSE
<1>1. pc'[a] = "dead"
  BY DEF Panic, Active
<1> QED BY <1>1 DEF Undisturbed

\* Nor does it hide an earlier one.
LEMMA StaysUndisturbed ==
  ASSUME TaskHostAssumption, TypeOK, [Next]_vars, Undisturbed'
  PROVE  Undisturbed
<1>2. Fault => FALSE
  BY NoFault
<1>3. \A a \in Attempt : pc[a] \in Step => ~Panic
  BY NoPanic
<1> USE DEF Step, Undisturbed
<1>1. ASSUME NEW a \in Attempt, Begin(a) PROVE Undisturbed
  BY <1>1 DEF Begin, Goto, TypeOK
<1>4. ASSUME NEW a \in Attempt, Process(a) PROVE Undisturbed
  <2>1. faults' = faults /\ pc[a] \in Step
    BY <1>4 DEF Process, CreateWorkspace, RemoveContents, DownloadOpens,
                DownloadFetches, FindContainer, MakeContainer, StartContainer,
                WaitContainer, MakeResult, UploadLists, UploadSends,
                CleanWorkspace, CleanContainer
  <2>2. Panic \/ \A b \in Attempt \ {a} : pc'[b] = pc[b]
    <3>1. CASE CreateWorkspace(a) \/ RemoveContents(a) \/ DownloadOpens(a)
                 \/ DownloadFetches(a) \/ FindContainer(a)
      BY <3>1 DEF CreateWorkspace, RemoveContents, DownloadOpens,
                  DownloadFetches, FindContainer, GiveUp, Goto, TypeOK
    <3>2. CASE MakeContainer(a) \/ StartContainer(a) \/ WaitContainer(a)
                 \/ MakeResult(a)
      BY <3>2 DEF MakeContainer, StartContainer, WaitContainer, MakeResult,
                  Goto, TypeOK
    <3>3. CASE UploadLists(a) \/ UploadSends(a) \/ CleanWorkspace(a)
                 \/ CleanContainer(a)
      BY <3>3 DEF UploadLists, UploadSends, GiveUp, CleanWorkspace,
                  CleanContainer, Goto, TypeOK
    <3> QED BY <1>4, <3>1, <3>2, <3>3 DEF Process
  <2> QED BY <1>3, <2>1, <2>2
<1>5. ASSUME NEW a \in Attempt, Disturbed(a) PROVE FALSE
  BY <1>2, <1>5 DEF Disturbed, CallFails, ExecuteFails, UploadFails, CleanFails,
                    TimeoutKills, Canceled
<1>6. CASE ContainerWrites \/ ContainerExits \/ UNCHANGED vars
  BY <1>2, <1>6 DEF ContainerWrites, ContainerExits, vars
<1>7. ~Die
  BY <1>2 DEF Die
<1> QED BY <1>1, <1>4, <1>5, <1>6, <1>7 DEF Next

LEMMA KeptStep ==
  ASSUME TaskHostAssumption, TypeOK, Kept, [Next]_vars PROVE Kept'
<1>1. SUFFICES ASSUME Undisturbed' PROVE Kept'
  BY DEF Kept
<1>2. Undisturbed
  BY <1>1, StaysUndisturbed
<1>3. /\ input # "none" \/ output # NoOutput =>
           \E a \in Attempt : pc[a] \in Using
      /\ container # "none" => maker \in Attempt
      /\ container = "created" => pc[maker] = "start"
      /\ container = "running" => pc[maker] = "wait"
      /\ container = "exited" /\ shouldRemove => pc[maker] \in Waiting
  BY <1>2 DEF Kept
<1>4. ~Fault /\ \A a \in Attempt : pc[a] \in Step => ~Panic
  BY <1>1, NoFault, NoPanic
<1> USE DEF Using, Waiting, TypeOK, Goto, diskVars, containerVars, runVars
<1>5. ASSUME NEW a \in Attempt,
             Begin(a) \/ CreateWorkspace(a) \/ RemoveContents(a)
      PROVE  Kept'
  <2>1. CASE Begin(a)
    BY <1>3, <2>1 DEF Kept, Begin
  <2>2. CASE CreateWorkspace(a)
    <3>1. pc' = [pc EXCEPT ![a] = "clear"] /\ pc[a] = "workspace"
          /\ UNCHANGED <<container, maker, shouldRemove>>
      BY <2>2 DEF CreateWorkspace
    <3> QED BY <1>3, <3>1 DEF Kept
  <2>3. CASE RemoveContents(a)
    BY <1>3, <2>3 DEF Kept, RemoveContents
  <2> QED BY <1>5, <2>1, <2>2, <2>3
<1>6. ASSUME NEW a \in Attempt, DownloadOpens(a) \/ DownloadFetches(a)
      PROVE  Kept'
  BY <1>3, <1>6 DEF Kept, DownloadOpens, DownloadFetches, GiveUp
<1>7. ASSUME NEW a \in Attempt, FindContainer(a) PROVE Kept'
  BY <1>3, <1>7 DEF Kept, FindContainer
<1>8. ASSUME NEW a \in Attempt, MakeContainer(a) PROVE Kept'
  BY <1>3, <1>4, <1>8 DEF Kept, MakeContainer, Step
<1>9. ASSUME NEW a \in Attempt, StartContainer(a) PROVE Kept'
  BY <1>3, <1>4, <1>9 DEF Kept, StartContainer, Step
<1>10. ASSUME NEW a \in Attempt, WaitContainer(a) \/ MakeResult(a) PROVE Kept'
  BY <1>3, <1>4, <1>10 DEF Kept, WaitContainer, MakeResult, Step
<1>11. ASSUME NEW a \in Attempt, UploadLists(a) \/ UploadSends(a) PROVE Kept'
  BY <1>3, <1>11 DEF Kept, UploadLists, UploadSends, GiveUp
<1>12. ASSUME NEW a \in Attempt, CleanWorkspace(a) \/ CleanContainer(a)
       PROVE  Kept'
  <2>1. CASE CleanWorkspace(a)
    BY <1>3, <2>1 DEF Kept, CleanWorkspace
  <2>2. CASE CleanContainer(a)
    <3>1. /\ pc' = [pc EXCEPT ![a] = pc'[a]] /\ pc[a] = "cleanContainer"
          /\ UNCHANGED <<diskVars, shouldRemove>>
      BY <2>2 DEF CleanContainer
    <3>2. CASE UNCHANGED containerVars
      <4>1. container = "exited" => ~shouldRemove
        BY <2>2, <3>2 DEF CleanContainer, RemoveContainer
      <4> QED BY <1>3, <3>1, <3>2, <4>1 DEF Kept
    <3>3. CASE RemoveContainer
      BY <1>3, <3>1, <3>3 DEF Kept, RemoveContainer
    <3> QED BY <2>2, <3>2, <3>3 DEF CleanContainer
  <2> QED BY <1>12, <2>1, <2>2
<1>13. ASSUME NEW a \in Attempt, Disturbed(a) PROVE FALSE
  BY <1>4, <1>13 DEF Disturbed, CallFails, ExecuteFails, UploadFails,
                     CleanFails, TimeoutKills, Canceled
<1>14. CASE ContainerWrites \/ ContainerExits
  BY <1>3, <1>4, <1>14 DEF Kept, ContainerWrites, ContainerExits
<1>15. CASE UNCHANGED vars
  BY <1>3, <1>15 DEF Kept, vars
<1>16. ~Die
  BY <1>4 DEF Die
<1> QED BY <1>5, <1>6, <1>7, <1>8, <1>9, <1>10, <1>11, <1>12, <1>13, <1>14,
           <1>15, <1>16 DEF Next, Process
-----------------------------------------------------------------------------
\* An active attempt that is alone: nothing else takes a step that is its own.
LEMMA OthersRest ==
  ASSUME Alone, NEW a \in Attempt, pc[a] \in Step,
         NEW b \in Attempt, b # a
  PROVE  pc[b] \notin Step
BY DEF Alone, Active

\* A step of an attempt that is alone leaves the others as they were: they have
\* begun nothing, or are done.
LEMMA OneMoves ==
  ASSUME TypeOK, Alone, \A b \in Attempt : OwnedBy(b),
         NEW a \in Attempt, pc[a] \in Step,
         \A b \in Attempt \ {a} : /\ pc'[b] = pc[b]
                                  /\ box'[b] = box[b]
                                  /\ listed'[b] = listed[b],
         maker' \in {maker, a, NoAttempt},
         OwnedBy(a)'
  PROVE  Alone' /\ \A b \in Attempt : OwnedBy(b)'
<1>1. ASSUME NEW b \in Attempt, b # a PROVE pc'[b] \in {"idle"} \cup Ended
  BY <1>1, OthersRest DEF TypeOK
<1>2. Alone'
  BY <1>1 DEF Alone, Active, Step, Ended
<1>3. ASSUME NEW b \in Attempt, b # a PROVE OwnedBy(b)'
  <2>1. OwnedBy(b) /\ pc'[b] = pc[b] /\ box'[b] = box[b]
          /\ listed'[b] = listed[b]
    BY <1>3
  <2>2. pc[b] = "idle" => maker' # b
    BY <1>3, <2>1, AttemptFacts DEF OwnedBy, BeforeMake
  <2> QED BY <1>1, <1>3, <2>1, <2>2 DEF OwnedBy, BeforeMake, Ended
<1> QED BY <1>2, <1>3

\* After a panic nobody is active.
LEMMA PanicOwned ==
  ASSUME TypeOK, \A a \in Attempt : OwnedBy(a), Panic,
         UNCHANGED <<box, listed, maker>>
  PROVE  Alone' /\ \A a \in Attempt : OwnedBy(a)'
<1>1. ASSUME NEW a \in Attempt
      PROVE  \/ pc'[a] = "dead"
             \/ pc[a] \in {"idle"} \cup Ended /\ pc'[a] = pc[a]
  BY DEF Panic, Active, TypeOK
<1>2. Alone'
  BY <1>1 DEF Alone, Active, Step, Ended
<1>3. ASSUME NEW a \in Attempt PROVE OwnedBy(a)'
  <2>1. OwnedBy(a)
    OBVIOUS
  <2>2. /\ pc'[a] \in {"idle"} \cup Ended
        /\ pc'[a] \in {"idle", "complete"} => pc[a] = pc'[a]
    BY <1>1 DEF Ended
  <2> QED BY <2>1, <2>2 DEF OwnedBy, BeforeMake, Ended
<1> QED BY <1>2, <1>3

LEMMA OwnedStep == ASSUME TypeOK, Owned, [Next]_vars PROVE Owned'
<1>1. SUFFICES ASSUME ~crossed'
               PROVE  Alone' /\ \A a \in Attempt : OwnedBy(a)'
  BY DEF Owned
<1>2. ~crossed /\ ((\E a \in Attempt : Begin(a)) => Active = {})
  <2>1. ASSUME NEW a \in Attempt, Process(a) PROVE ~crossed
    BY <1>1, <2>1 DEF Process, CreateWorkspace, RemoveContents, DownloadOpens,
                DownloadFetches, FindContainer, MakeContainer, StartContainer,
                WaitContainer, MakeResult, UploadLists, UploadSends,
                CleanWorkspace, CleanContainer, runVars
  <2>2. ASSUME NEW a \in Attempt, Disturbed(a) PROVE ~crossed
    BY <1>1, <2>2 DEF Disturbed, CallFails, ExecuteFails, UploadFails,
                      CleanFails, TimeoutKills, Canceled, runVars
  <2>3. ASSUME NEW a \in Attempt, Begin(a) PROVE ~crossed /\ Active = {}
    BY <1>1, <2>3 DEF Begin
  <2>4. ASSUME ContainerWrites \/ ContainerExits \/ Die \/ UNCHANGED vars
        PROVE  ~crossed
    BY <1>1, <2>4 DEF ContainerWrites, ContainerExits, Die, vars, runVars
  <2>5. ~crossed
    BY <2>1, <2>2, <2>3, <2>4 DEF Next
  <2> QED BY <2>3, <2>5
<1>3. Alone /\ \A a \in Attempt : OwnedBy(a)
  BY <1>2 DEF Owned
<1> USE DEF TypeOK, Goto, diskVars, containerVars, attemptVars
<1>4. ASSUME NEW a \in Attempt, Begin(a)
      PROVE  Alone' /\ \A b \in Attempt : OwnedBy(b)'
  <2>1. Alone'
    BY <1>2, <1>4 DEF Begin, Alone, Active
  <2>2. ASSUME NEW b \in Attempt PROVE OwnedBy(b)'
    <3>1. OwnedBy(b) /\ pc'[b] = IF b = a THEN "workspace" ELSE pc[b]
      BY <1>3, <1>4 DEF Begin
    <3>2. pc[a] = "idle"
      BY <1>4 DEF Begin
    <3>3. UNCHANGED <<diskVars, containerVars, attemptVars>>
      BY <1>4 DEF Begin
    <3> QED BY <3>1, <3>2, <3>3 DEF OwnedBy, BeforeMake
  <2> QED BY <2>1, <2>2
<1>5. ASSUME NEW a \in Attempt, CreateWorkspace(a) \/ RemoveContents(a)
      PROVE  Alone' /\ \A b \in Attempt : OwnedBy(b)'
  <2>1. pc[a] \in Step /\ OwnedBy(a)
    BY <1>3, <1>5 DEF CreateWorkspace, RemoveContents, Step
  <2>2. OwnedBy(a)'
    BY <1>5, <2>1 DEF CreateWorkspace, RemoveContents, OwnedBy, BeforeMake
  <2>3. /\ \A b \in Attempt \ {a} : pc'[b] = pc[b]
        /\ UNCHANGED <<box, listed, maker>>
    BY <1>5 DEF CreateWorkspace, RemoveContents
  <2> QED BY <1>3, <2>1, <2>2, <2>3, OneMoves
<1>6. ASSUME NEW a \in Attempt, DownloadOpens(a) \/ DownloadFetches(a)
      PROVE  Alone' /\ \A b \in Attempt : OwnedBy(b)'
  <2>1. pc[a] \in Step /\ OwnedBy(a)
    BY <1>3, <1>6 DEF DownloadOpens, DownloadFetches, Step
  <2>2. OwnedBy(a)'
    BY <1>6, <2>1 DEF DownloadOpens, DownloadFetches, GiveUp, OwnedBy,
                      BeforeMake
  <2>3. /\ \A b \in Attempt \ {a} : pc'[b] = pc[b]
        /\ UNCHANGED <<box, listed, maker>>
    BY <1>6 DEF DownloadOpens, DownloadFetches, GiveUp
  <2> QED BY <1>3, <2>1, <2>2, <2>3, OneMoves
<1>7. ASSUME NEW a \in Attempt, FindContainer(a)
      PROVE  Alone' /\ \A b \in Attempt : OwnedBy(b)'
  <2>1. pc[a] \in Step /\ OwnedBy(a)
    BY <1>3, <1>7 DEF FindContainer, Step
  <2>2. OwnedBy(a)'
    BY <1>7, <2>1, AttemptFacts DEF FindContainer, OwnedBy, BeforeMake
  <2>3. /\ \A b \in Attempt \ {a} : pc'[b] = pc[b] /\ box'[b] = box[b]
        /\ UNCHANGED <<listed, maker>>
    BY <1>7 DEF FindContainer
  <2> QED BY <1>3, <2>1, <2>2, <2>3, OneMoves
<1>8. ASSUME NEW a \in Attempt, MakeContainer(a) \/ StartContainer(a)
      PROVE  Alone' /\ \A b \in Attempt : OwnedBy(b)'
  <2>1. pc[a] \in Step /\ OwnedBy(a)
    BY <1>3, <1>8 DEF MakeContainer, StartContainer, Step
  <2>2. OwnedBy(a)'
    <3>1. CASE MakeContainer(a)
      BY <2>1, <3>1 DEF MakeContainer, OwnedBy, BeforeMake
    <3>2. CASE StartContainer(a)
      BY <2>1, <3>2 DEF StartContainer, OwnedBy, BeforeMake
    <3> QED BY <1>8, <3>1, <3>2
  <2>3. /\ \A b \in Attempt \ {a} : pc'[b] = pc[b] /\ box'[b] = box[b]
        /\ listed' = listed /\ maker' \in {maker, a}
    BY <1>8, <2>1 DEF MakeContainer, StartContainer, OwnedBy
  <2> QED BY <1>3, <2>1, <2>2, <2>3, OneMoves
<1>9. ASSUME NEW a \in Attempt, WaitContainer(a) \/ MakeResult(a)
      PROVE  Alone' /\ \A b \in Attempt : OwnedBy(b)'
  <2>1. pc[a] \in Step /\ OwnedBy(a)
    BY <1>3, <1>9 DEF WaitContainer, MakeResult, Step
  <2>2. UNCHANGED <<box, listed, maker>>
    BY <1>9 DEF WaitContainer, MakeResult
  <2>3. CASE Panic
    BY <1>3, <2>2, <2>3, PanicOwned
  <2>4. CASE ~Panic
    <3>1. OwnedBy(a)'
      BY <1>9, <2>1, <2>4 DEF WaitContainer, MakeResult, OwnedBy, BeforeMake
    <3>2. \A b \in Attempt \ {a} : pc'[b] = pc[b]
      BY <1>9, <2>4 DEF WaitContainer, MakeResult
    <3> QED BY <1>3, <2>1, <2>2, <3>1, <3>2, OneMoves
  <2> QED BY <2>3, <2>4
<1>10. ASSUME NEW a \in Attempt,
              UploadLists(a) \/ UploadSends(a) \/ UploadFails(a)
       PROVE  Alone' /\ \A b \in Attempt : OwnedBy(b)'
  <2>1. pc[a] \in Step /\ OwnedBy(a)
    BY <1>3, <1>10 DEF UploadLists, UploadSends, UploadFails, Step
  <2>2. OwnedBy(a)'
    BY <1>10, <2>1 DEF UploadLists, UploadSends, UploadFails, GiveUp, OwnedBy,
                       BeforeMake
  <2>3. /\ \A b \in Attempt \ {a} : pc'[b] = pc[b] /\ listed'[b] = listed[b]
        /\ UNCHANGED <<box, maker>>
    BY <1>10 DEF UploadLists, UploadSends, UploadFails, GiveUp
  <2> QED BY <1>3, <2>1, <2>2, <2>3, OneMoves
<1>11. ASSUME NEW a \in Attempt, CleanWorkspace(a) \/ CleanContainer(a)
       PROVE  Alone' /\ \A b \in Attempt : OwnedBy(b)'
  <2>1. pc[a] \in Step /\ OwnedBy(a)
    BY <1>3, <1>11 DEF CleanWorkspace, CleanContainer, Step
  <2>2. OwnedBy(a)'
    BY <1>11, <2>1 DEF CleanWorkspace, CleanContainer, OwnedBy, BeforeMake
  <2>3. /\ \A b \in Attempt \ {a} : pc'[b] = pc[b]
        /\ UNCHANGED <<box, listed>> /\ maker' \in {maker, NoAttempt}
    BY <1>11 DEF CleanWorkspace, CleanContainer, RemoveContainer
  <2> QED BY <1>3, <2>1, <2>2, <2>3, OneMoves
<1>12. ASSUME NEW a \in Attempt, CallFails(a) \/ CleanFails(a)
       PROVE  Alone' /\ \A b \in Attempt : OwnedBy(b)'
  <2>1. pc[a] \in Step /\ OwnedBy(a)
    BY <1>3, <1>12 DEF CallFails, CleanFails, Step
  <2>2. OwnedBy(a)'
    BY <1>12, <2>1 DEF CallFails, CleanFails, GiveUp, OwnedBy, BeforeMake
  <2>3. /\ \A b \in Attempt \ {a} : pc'[b] = pc[b]
        /\ UNCHANGED <<box, listed, maker>>
    BY <1>12 DEF CallFails, CleanFails, GiveUp
  <2> QED BY <1>3, <2>1, <2>2, <2>3, OneMoves
<1>13. ASSUME NEW a \in Attempt, ExecuteFails(a) \/ TimeoutKills(a)
       PROVE  Alone' /\ \A b \in Attempt : OwnedBy(b)'
  BY <1>3, <1>13, PanicOwned DEF ExecuteFails, TimeoutKills
<1>14. CASE ContainerWrites \/ ContainerExits
  <2>1. Alone'
    BY <1>3, <1>14 DEF ContainerWrites, ContainerExits, Alone, Active
  <2>2. ASSUME NEW a \in Attempt PROVE OwnedBy(a)'
    <3>1. OwnedBy(a)
      BY <1>3
    <3>2. CASE ContainerWrites
      BY <3>1, <3>2 DEF ContainerWrites, OwnedBy, BeforeMake
    <3>3. CASE ContainerExits
      <4>1. mounted /\ whole /\ code' => output'.own \in Made
        BY <3>3 DEF ContainerExits, Output
      <4>2. /\ container = "running" /\ container' = "exited"
            /\ UNCHANGED <<input, maker, mounted, pc, attemptVars>>
        BY <3>3 DEF ContainerExits
      <4> QED BY <3>1, <4>1, <4>2 DEF OwnedBy, BeforeMake
    <3> QED BY <1>14, <3>2, <3>3
  <2> QED BY <2>1, <2>2
<1>15. CASE Die
  BY <1>3, <1>15, PanicOwned DEF Die
<1>16. CASE UNCHANGED vars
  BY <1>3, <1>16 DEF vars, Alone, Active, OwnedBy
<1>17. ASSUME NEW a \in Attempt, Canceled(a)
       PROVE  Alone' /\ \A b \in Attempt : OwnedBy(b)'
  <2>1. pc[a] \in Step /\ OwnedBy(a)
    BY <1>3, <1>17 DEF Canceled, Step
  <2>2. OwnedBy(a)'
    BY <1>17, <2>1 DEF Canceled, OwnedBy, BeforeMake
  <2>3. /\ \A b \in Attempt \ {a} : pc'[b] = pc[b]
        /\ UNCHANGED <<box, listed, maker>>
    BY <1>17 DEF Canceled
  <2> QED BY <1>3, <2>1, <2>2, <2>3, OneMoves
<1> QED BY <1>4, <1>5, <1>6, <1>7, <1>8, <1>9, <1>10, <1>11, <1>12, <1>13,
           <1>14, <1>15, <1>16, <1>17 DEF Next, Process, Disturbed
-----------------------------------------------------------------------------
\* A step of an attempt that is alone: what the others need for Tidy stays.
LEMMA OneMovesTidily ==
  ASSUME TypeOK, Alone, \A b \in Attempt : TidyBy(b),
         NEW a \in Attempt, pc[a] \in Step,
         \A b \in Attempt \ {a} : pc'[b] = pc[b] /\ listed'[b] = listed[b],
         TidyBy(a)', ~output'.stale,
         pc'[a] \in Step \/ output'.own = "none",
         container' = "running" => pc'[a] = "wait"
  PROVE  /\ ~output'.stale
         /\ Active' = {} => output'.own = "none"
         /\ container' = "running" => \E b \in Attempt : pc'[b] = "wait"
         /\ \A b \in Attempt : TidyBy(b)'
<1>1. ASSUME NEW b \in Attempt, b # a PROVE TidyBy(b)'
  <2>1. TidyBy(b) /\ pc'[b] = pc[b] /\ listed'[b] = listed[b]
    BY <1>1
  <2>2. pc[b] \in {"idle"} \cup Ended
    BY <1>1, OthersRest DEF TypeOK
  <2> QED BY <2>1, <2>2 DEF TidyBy, BeforeStart, Ended
<1>2. pc'[a] \in Step => Active' # {}
  BY DEF Active
<1> QED BY <1>1, <1>2

LEMMA TidyStep == ASSUME TypeOK, Owned, Tidy, [Next]_vars PROVE Tidy'
<1> DEFINE Goal == /\ ~output'.stale
                   /\ Active' = {} => output'.own = "none"
                   /\ container' = "running" =>
                        \E a \in Attempt : pc'[a] = "wait"
                   /\ \A a \in Attempt : TidyBy(a)'
<1>1. SUFFICES ASSUME Untroubled' PROVE Goal
  BY DEF Tidy
<1> USE DEF TypeOK, Goto, diskVars, containerVars, attemptVars, runVars
<1>2. \A a \in Attempt : pc[a] \in Step => ~Panic
  <2>1. ASSUME NEW a \in Attempt, pc[a] \in Step, Panic PROVE FALSE
    <3>1. pc'[a] = "dead"
      BY <2>1 DEF Panic, Active
    <3> QED BY <1>1, <3>1 DEF Untroubled
  <2> QED BY <2>1
<1>3. /\ \A a \in Attempt : pc'[a] \notin {"failed", "dead"}
      /\ ~crossed'
  BY <1>1 DEF Untroubled
<1>4. Untroubled /\ ((\E a \in Attempt : Begin(a)) => Active = {})
  <2>1. ASSUME NEW a \in Attempt, pc[a] \in {"failed", "dead"}
        PROVE  pc'[a] = pc[a]
    <3>1. pc[a] \notin {"idle"} \cup Step /\ a \notin Active
      BY <2>1 DEF Step, Active
    <3>2. ASSUME NEW b \in Attempt, Begin(b) \/ Process(b) \/ Disturbed(b)
          PROVE  pc'[a] = pc[a]
      <4>1. pc[b] \in {"idle"} \cup Step /\ a # b
        BY <3>1, <3>2
           DEF Begin, Process, CreateWorkspace, RemoveContents, DownloadOpens,
               DownloadFetches, FindContainer, MakeContainer, StartContainer,
               WaitContainer, MakeResult, UploadLists, UploadSends,
               CleanWorkspace, CleanContainer, Disturbed, CallFails,
               ExecuteFails, UploadFails, CleanFails, TimeoutKills, Canceled,
               Step
      <4>2. CASE Panic
        BY <3>1, <4>2 DEF Panic
      <4>3. CASE ~Panic /\ (Begin(b) \/ Process(b))
        BY <4>1, <4>3
           DEF Begin, Process, CreateWorkspace, RemoveContents, DownloadOpens,
               DownloadFetches, FindContainer, MakeContainer, StartContainer,
               WaitContainer, MakeResult, UploadLists, UploadSends,
               CleanWorkspace, CleanContainer, GiveUp
      <4>4. CASE ~Panic /\ Disturbed(b)
        BY <4>1, <4>4
           DEF Disturbed, CallFails, ExecuteFails, UploadFails, CleanFails,
               TimeoutKills, Canceled, GiveUp
      <4> QED BY <3>2, <4>2, <4>3, <4>4
    <3>3. ASSUME ContainerWrites \/ ContainerExits \/ Die \/ UNCHANGED vars
          PROVE  pc'[a] = pc[a]
      BY <3>1, <3>3 DEF ContainerWrites, ContainerExits, Die, Panic, vars
    <3> QED BY <3>2, <3>3 DEF Next
  <2>2. ASSUME NEW a \in Attempt, Begin(a) PROVE ~crossed /\ Active = {}
    BY <1>3, <2>2 DEF Begin
  <2>3. crossed' = crossed \/ \E a \in Attempt : Begin(a)
    BY DEF Next, Process, CreateWorkspace, RemoveContents, DownloadOpens,
           DownloadFetches, FindContainer, MakeContainer, StartContainer,
           WaitContainer, MakeResult, UploadLists, UploadSends,
           CleanWorkspace, CleanContainer, Disturbed, CallFails,
           ExecuteFails, UploadFails, CleanFails, TimeoutKills, Canceled,
           ContainerWrites, ContainerExits, Die, vars
  <2>4. ~crossed
    BY <1>3, <2>2, <2>3
  <2>5. \A a \in Attempt : pc[a] \notin {"failed", "dead"}
    BY <1>3, <2>1
  <2> QED BY <2>2, <2>4, <2>5 DEF Untroubled
<1>5. /\ Alone /\ \A a \in Attempt : OwnedBy(a)
      /\ ~output.stale
      /\ Active = {} => output.own = "none"
      /\ container = "running" => \E a \in Attempt : pc[a] = "wait"
      /\ \A a \in Attempt : TidyBy(a)
  BY <1>4 DEF Untroubled, Owned, Tidy
<1>6. ASSUME NEW a \in Attempt, pc[a] \in Step, pc[a] # "wait"
      PROVE  container # "running"
  BY <1>5, <1>6 DEF Alone, Active, Step
<1>7. ASSUME NEW a \in Attempt, Begin(a) PROVE Goal
  <2>1. output.own = "none" /\ \A b \in Attempt : pc[b] \notin Step
    BY <1>4, <1>5, <1>7 DEF Active
  <2>2. container # "running"
    BY <1>5, <2>1 DEF Step
  <2>3. ASSUME NEW b \in Attempt PROVE TidyBy(b)'
    <3>1. TidyBy(b) /\ pc'[b] = IF b = a THEN "workspace" ELSE pc[b]
      BY <1>5, <1>7 DEF Begin
    <3>2. UNCHANGED <<output, listed, failed>>
      BY <1>7 DEF Begin
    <3> QED BY <2>1, <3>1, <3>2 DEF TidyBy, BeforeStart
  <2> QED BY <1>5, <1>7, <2>1, <2>2, <2>3 DEF Begin
<1>8. ASSUME NEW a \in Attempt,
             CreateWorkspace(a) \/ RemoveContents(a) \/ DownloadOpens(a)
               \/ DownloadFetches(a) \/ FindContainer(a)
      PROVE  Goal
  <2>1. /\ pc[a] \in Step /\ pc[a] # "wait" /\ TidyBy(a)
        /\ pc[a] \in {"workspace"} \cup BeforeStart
    BY <1>5, <1>8 DEF CreateWorkspace, RemoveContents, DownloadOpens,
                      DownloadFetches, FindContainer, Step, BeforeStart
  <2>2. container # "running" /\ container' = container
    BY <1>6, <1>8, <2>1 DEF CreateWorkspace, RemoveContents, DownloadOpens,
                            DownloadFetches, FindContainer
  <2>3. /\ output'.own = "empty" /\ ~output'.stale
        /\ listed' = listed
    <3>1. CASE CreateWorkspace(a)
      BY <1>5, <2>1, <3>1 DEF CreateWorkspace, TidyBy, Output
    <3>2. CASE ~CreateWorkspace(a)
      <4>1. output' = output /\ listed' = listed /\ pc[a] \in BeforeStart
        BY <1>8, <3>2 DEF RemoveContents, DownloadOpens, DownloadFetches,
                          FindContainer, BeforeStart
      <4> QED BY <1>5, <2>1, <4>1 DEF TidyBy
    <3> QED BY <3>1, <3>2
  <2>4. /\ pc'[a] \in Step \ {"workspace", "cleanContainer"}
        /\ \A b \in Attempt \ {a} : pc'[b] = pc[b]
    BY <1>8, <2>1 DEF CreateWorkspace, RemoveContents, DownloadOpens,
                      DownloadFetches, FindContainer, GiveUp, Step
  <2>5. TidyBy(a)'
    BY <2>1, <2>3, <2>4 DEF TidyBy
  <2> QED BY <1>5, <2>1, <2>2, <2>3, <2>4, <2>5, OneMovesTidily
<1>9. ASSUME NEW a \in Attempt, MakeContainer(a) \/ StartContainer(a)
      PROVE  Goal
  <2>1. pc[a] \in Step /\ pc[a] # "wait" /\ pc[a] \in BeforeStart /\ TidyBy(a)
    BY <1>5, <1>9 DEF MakeContainer, StartContainer, Step, BeforeStart
  <2>2. output.own = "empty" /\ container # "running"
    BY <1>6, <2>1 DEF TidyBy
  <2>3. /\ \/ pc'[a] = "start" /\ container' = "created"
           \/ pc'[a] = "wait" /\ container' = "running"
        /\ listed' = listed
        /\ \A b \in Attempt \ {a} : pc'[b] = pc[b]
    BY <1>2, <1>9, <2>1 DEF MakeContainer, StartContainer
  <2>4. output'.own = "empty" /\ ~output'.stale
    <3>1. ~MayHoldFiles(output)
      BY <1>5, <2>2 DEF MayHoldFiles
    <3>2. CASE MakeContainer(a)
      BY <1>5, <2>2, <3>2 DEF MakeContainer
    <3>3. CASE StartContainer(a)
      <4>1. output' = [own |-> "empty", stale |-> MayHoldFiles(output)]
        BY <1>2, <2>1, <3>3 DEF StartContainer
      <4> QED BY <3>1, <4>1
    <3> QED BY <1>9, <3>2, <3>3
  <2>5. TidyBy(a)'
    BY <2>1, <2>3, <2>4 DEF TidyBy
  <2> QED BY <1>5, <2>1, <2>3, <2>4, <2>5, OneMovesTidily DEF Step
<1>10. ASSUME NEW a \in Attempt, WaitContainer(a) \/ MakeResult(a)
       PROVE  Goal
  <2>1. pc[a] \in Step /\ TidyBy(a) /\ container # "running"
    BY <1>2, <1>5, <1>6, <1>10 DEF WaitContainer, MakeResult, Step
  <2>2. /\ pc'[a] \in {"result", "cleanDir", "list"}
        /\ \A b \in Attempt \ {a} : pc'[b] = pc[b]
        /\ UNCHANGED <<output, listed, container>>
    BY <1>2, <1>10, <2>1 DEF WaitContainer, MakeResult
  <2>3. TidyBy(a)'
    BY <2>1, <2>2 DEF TidyBy, BeforeStart
  <2> QED BY <1>5, <2>1, <2>2, <2>3, OneMovesTidily DEF Step
<1>11. ASSUME NEW a \in Attempt,
              UploadLists(a) \/ UploadSends(a) \/ UploadFails(a)
       PROVE  Goal
  <2>1. pc[a] \in Step /\ TidyBy(a) /\ container # "running"
    BY <1>5, <1>6, <1>11 DEF UploadLists, UploadSends, UploadFails, Step
  <2>2. /\ pc'[a] \in {"send", "cleanDir"}
        /\ \A b \in Attempt \ {a} : pc'[b] = pc[b] /\ listed'[b] = listed[b]
        /\ listed'[a] \in {listed[a], output}
        /\ UNCHANGED <<output, container>>
    BY <1>11, <2>1 DEF UploadLists, UploadSends, UploadFails, GiveUp
  <2>3. TidyBy(a)'
    BY <1>5, <2>1, <2>2 DEF TidyBy, BeforeStart
  <2> QED BY <1>5, <2>1, <2>2, <2>3, OneMovesTidily DEF Step
<1>12. ASSUME NEW a \in Attempt, CleanWorkspace(a) PROVE Goal
  <2>1. pc[a] \in Step /\ TidyBy(a) /\ container # "running"
    BY <1>5, <1>6, <1>12 DEF CleanWorkspace, Step
  <2>2. /\ pc'[a] = "cleanContainer"
        /\ \A b \in Attempt \ {a} : pc'[b] = pc[b]
        /\ output' = NoOutput
        /\ UNCHANGED <<listed, container>>
    BY <1>12 DEF CleanWorkspace
  <2>3. TidyBy(a)' /\ ~output'.stale
    BY <2>1, <2>2 DEF TidyBy, BeforeStart, NoOutput
  <2> QED BY <1>5, <2>1, <2>2, <2>3, OneMovesTidily DEF Step
<1>13. ASSUME NEW a \in Attempt, CleanContainer(a) PROVE Goal
  <2>1. /\ pc[a] \in Step /\ pc[a] = "cleanContainer" /\ TidyBy(a)
        /\ container # "running"
    BY <1>5, <1>6, <1>13 DEF CleanContainer, Step
  <2>2. ~failed[a] /\ pc'[a] = "complete"
    <3>1. pc'[a] # "failed"
      BY <1>3
    <3> QED BY <1>13, <3>1 DEF CleanContainer
  <2>3. /\ \A b \in Attempt \ {a} : pc'[b] = pc[b]
        /\ UNCHANGED <<output, listed>> /\ container' # "running"
    BY <1>13, <2>1 DEF CleanContainer, RemoveContainer
  <2>4. TidyBy(a)' /\ output.own = "none"
    BY <2>1, <2>2, <2>3 DEF TidyBy, BeforeStart
  <2> QED BY <1>5, <2>1, <2>3, <2>4, OneMovesTidily
<1>14. ASSUME NEW a \in Attempt, CallFails(a) \/ CleanFails(a) PROVE Goal
  <2>1. pc[a] \in Step /\ TidyBy(a) /\ container # "running"
    BY <1>5, <1>6, <1>14 DEF CallFails, CleanFails, Step
  <2>2. /\ pc'[a] = "cleanDir" \/ (pc'[a] = "cleanContainer" /\ failed'[a])
        /\ \A b \in Attempt \ {a} : pc'[b] = pc[b]
        /\ UNCHANGED <<output, listed, container>>
    <3>1. pc'[a] # "failed"
      BY <1>3
    <3> QED BY <1>14, <3>1 DEF CallFails, CleanFails, GiveUp
  <2>3. TidyBy(a)'
    BY <2>1, <2>2 DEF TidyBy, BeforeStart
  <2> QED BY <1>5, <2>1, <2>2, <2>3, OneMovesTidily DEF Step
<1>15. ASSUME NEW a \in Attempt,
              ExecuteFails(a) \/ TimeoutKills(a) \/ Canceled(a)
       PROVE  FALSE
  BY <1>2, <1>3, <1>15 DEF ExecuteFails, TimeoutKills, Canceled, Step
<1>16. CASE ContainerWrites \/ ContainerExits
  <2>1. PICK a \in Attempt : pc[a] = "wait"
    BY <1>5, <1>16 DEF ContainerWrites, ContainerExits
  <2>2. UNCHANGED <<pc, listed, failed>> /\ ~output'.stale
    BY <1>5, <1>16 DEF ContainerWrites, ContainerExits, Output, Made
  <2>3. Active' # {}
    BY <2>1, <2>2 DEF Active, Step
  <2>4. ASSUME NEW b \in Attempt PROVE TidyBy(b)'
    <3>1. TidyBy(b) /\ pc[b] \in {"idle", "wait"} \cup Ended
      BY <1>5, <2>1, OthersRest DEF Step
    <3> QED BY <2>2, <3>1 DEF TidyBy, BeforeStart, Ended
  <2> QED BY <2>1, <2>2, <2>3, <2>4
<1>17. ~Die
  BY <1>2 DEF Die, Active
<1>18. CASE UNCHANGED vars
  BY <1>5, <1>18 DEF vars, TidyBy, Active
<1> QED BY <1>7, <1>8, <1>9, <1>10, <1>11, <1>12, <1>13, <1>14, <1>15, <1>16,
           <1>17, <1>18 DEF Next, Process, Disturbed
-----------------------------------------------------------------------------
\* The same for Smooth: an output in S3 stays there, and so does a leftover.
LEMMA OneMovesSmoothly ==
  ASSUME TypeOK, Alone, \A b \in Attempt : SmoothBy(b),
         NEW a \in Attempt, pc[a] \in Step,
         \A b \in Attempt \ {a} : /\ pc'[b] = pc[b]
                                  /\ failed'[b] = failed[b]
                                  /\ listed'[b] = listed[b],
         Delivered => Delivered',
         SmoothBy(a)',
         pc'[a] \in Step \/ container' = "none" \/ Leftover'
  PROVE  /\ \A b \in Attempt : SmoothBy(b)'
         /\ Active' = {} => container' = "none" \/ Leftover'
<1>1. ASSUME NEW b \in Attempt, b # a PROVE SmoothBy(b)'
  <2>1. SmoothBy(b) /\ pc'[b] = pc[b] /\ failed'[b] = failed[b]
          /\ listed'[b] = listed[b]
    BY <1>1
  <2>2. pc[b] \in {"idle", "complete"}
    BY <1>1, <2>1, OthersRest DEF TypeOK, SmoothBy, Ended
  <2> QED BY <2>1, <2>2 DEF SmoothBy, BeforeMake, Waiting
<1>2. pc'[a] \in Step => Active' # {}
  BY DEF Active
<1> QED BY <1>1, <1>2

LEMMA SmoothStep ==
  ASSUME TypeOK, Owned, Tidy, Smooth, [Next]_vars PROVE Smooth'
<1> DEFINE Goal == /\ \A a \in Attempt : SmoothBy(a)'
                   /\ Active' = {} => container' = "none" \/ Leftover'
<1>1. SUFFICES ASSUME faults' = 0, ~crossed' PROVE Goal
  BY DEF Smooth
<1>2. ~Fault
  BY <1>1 DEF Fault, TypeOK
<1>3. faults = 0 /\ ~crossed /\ ((\E a \in Attempt : Begin(a)) => Active = {})
  <2>1. ASSUME NEW a \in Attempt, Process(a) PROVE faults = 0 /\ ~crossed
    BY <1>1, <2>1
       DEF Process, CreateWorkspace, RemoveContents, DownloadOpens,
           DownloadFetches, FindContainer, MakeContainer, StartContainer,
           WaitContainer, MakeResult, UploadLists, UploadSends,
           CleanWorkspace, CleanContainer, runVars
  <2>2. ASSUME NEW a \in Attempt, Begin(a)
        PROVE  faults = 0 /\ ~crossed /\ Active = {}
    BY <1>1, <2>2 DEF Begin
  <2>3. ASSUME ContainerWrites \/ ContainerExits \/ UNCHANGED vars
        PROVE  faults = 0 /\ ~crossed
    BY <1>1, <1>2, <2>3 DEF ContainerWrites, ContainerExits, vars, runVars
  <2>4. ASSUME NEW a \in Attempt, Disturbed(a) PROVE FALSE
    BY <1>2, <2>4 DEF Disturbed, CallFails, ExecuteFails, UploadFails,
                      CleanFails, TimeoutKills, Canceled
  <2>5. ~Die
    BY <1>2 DEF Die
  <2>6. faults = 0 /\ ~crossed
    BY <2>1, <2>2, <2>3, <2>4, <2>5 DEF Next
  <2> QED BY <2>2, <2>6
<1>4. /\ Alone /\ \A a \in Attempt : OwnedBy(a)
      /\ \A a \in Attempt : SmoothBy(a)
      /\ Active = {} => container = "none" \/ Leftover
  BY <1>3 DEF Owned, Smooth
<1>5. ~output.stale /\ \A a \in Attempt : TidyBy(a)
  <2>1. Untroubled
    BY <1>3, <1>4 DEF Untroubled, SmoothBy
  <2> QED BY <2>1 DEF Tidy
<1> USE DEF TypeOK, Goto, diskVars, containerVars, attemptVars, runVars
<1>6. ASSUME NEW a \in Attempt, Begin(a) PROVE Goal
  <2>1. UNCHANGED <<diskVars, containerVars, attemptVars, bucket, shouldRemove>>
    BY <1>6 DEF Begin
  <2>2. container = "none" \/ Leftover
    BY <1>3, <1>4, <1>6
  <2>3. Leftover => Leftover'
    BY <2>1 DEF Leftover, Delivered, ToolsFailed
  <2>4. Delivered => Delivered'
    BY <2>1 DEF Delivered, ToolsFailed
  <2>5. ASSUME NEW b \in Attempt PROVE SmoothBy(b)'
    <3>1. CASE b = a
      <4>1. pc[a] = "idle" /\ pc'[a] = "workspace" /\ SmoothBy(a)
        BY <1>4, <1>6 DEF Begin
      <4> QED BY <2>1, <2>2, <2>3, <3>1, <4>1
              DEF SmoothBy, BeforeMake, Waiting
    <3>2. CASE b # a
      <4>1. SmoothBy(b) /\ pc'[b] = pc[b]
        BY <1>4, <1>6, <3>2 DEF Begin
      <4> QED BY <2>1, <2>3, <2>4, <4>1 DEF SmoothBy
    <3> QED BY <3>1, <3>2
  <2> QED BY <2>1, <2>2, <2>3, <2>5
<1>7. ASSUME NEW a \in Attempt,
             CreateWorkspace(a) \/ RemoveContents(a) \/ DownloadOpens(a)
               \/ DownloadFetches(a) \/ FindContainer(a)
      PROVE  Goal
  <2>1. pc[a] \in Step /\ pc[a] \in BeforeMake \ {"idle"} /\ OwnedBy(a)
          /\ SmoothBy(a) /\ TidyBy(a)
    BY <1>4, <1>5, <1>7 DEF CreateWorkspace, RemoveContents, DownloadOpens,
                            DownloadFetches, FindContainer, Step, BeforeMake
  <2>2. /\ failed' = failed
        /\ \A b \in Attempt \ {a} : pc'[b] = pc[b]
        /\ UNCHANGED <<bucket, container, maker, code, listed, shouldRemove>>
    BY <1>7, <2>1 DEF CreateWorkspace, RemoveContents, DownloadOpens,
                      DownloadFetches, FindContainer, OwnedBy, GiveUp
  <2>3. Delivered' = Delivered /\ Leftover' = Leftover
    BY <2>2 DEF Leftover, Delivered, ToolsFailed
  <2>4. \/ pc'[a] \in {"clear", "open", "fetch", "find", "make"}
              /\ (pc'[a] = "make" => container = "none")
        \/ /\ pc'[a] = "wait" /\ box'[a] = maker /\ container # "none"
           /\ output' = Nothing
    <3>1. CASE ~FindContainer(a)
      BY <1>7, <2>1, <3>1 DEF CreateWorkspace, RemoveContents, DownloadOpens,
                              DownloadFetches, OwnedBy
    <3>2. CASE FindContainer(a)
      <4>1. output' = output /\ output.own = "empty" /\ ~output.stale
        BY <1>5, <2>1, <3>2 DEF FindContainer, TidyBy, BeforeStart
      <4>2. output = Nothing
        BY <4>1 DEF Nothing, Output
      <4> QED BY <3>2, <4>1, <4>2 DEF FindContainer
    <3> QED BY <3>1, <3>2
  <2>5. SmoothBy(a)'
    <3>1. CASE pc'[a] = "wait"
      <4>1. Leftover /\ container = "exited" /\ code
        BY <2>1, <2>4, <3>1 DEF SmoothBy, Leftover
      <4> QED BY <2>1, <2>2, <2>3, <2>4, <3>1, <4>1
              DEF SmoothBy, BeforeMake, Waiting
    <3>2. CASE pc'[a] # "wait"
      BY <2>1, <2>2, <2>3, <2>4, <3>2 DEF SmoothBy, BeforeMake, Waiting
    <3> QED BY <3>1, <3>2
  <2>6. pc'[a] \in Step
    BY <2>4 DEF Step
  <2> QED BY <1>4, <2>1, <2>2, <2>3, <2>5, <2>6, OneMovesSmoothly
<1>8. ASSUME NEW a \in Attempt, MakeContainer(a) \/ StartContainer(a)
      PROVE  Goal
  <2>1. pc[a] \in Step /\ OwnedBy(a) /\ SmoothBy(a)
    BY <1>4, <1>8 DEF MakeContainer, StartContainer, Step
  <2>2. /\ \A b \in Attempt \ {a} : pc'[b] = pc[b]
        /\ UNCHANGED <<bucket, failed, listed>>
        /\ pc[a] \in {"make", "start"}
        /\ \/ pc'[a] = "start" /\ box'[a] = a
           \/ /\ pc'[a] = "wait" /\ container' = "running"
              /\ maker' = a /\ box'[a] = box[a] /\ pc[a] = "start"
    BY <1>8, <2>1 DEF MakeContainer, StartContainer, OwnedBy
  <2>3. Delivered' = Delivered
    BY <2>2 DEF Delivered, ToolsFailed
  <2>4. pc'[a] = "wait" => box[a] = a
    BY <2>1, <2>2 DEF SmoothBy
  <2>5. SmoothBy(a)'
    BY <2>1, <2>2, <2>4 DEF SmoothBy, BeforeMake, Waiting
  <2>6. pc'[a] \in Step
    BY <2>2 DEF Step
  <2> QED BY <1>4, <2>1, <2>2, <2>3, <2>5, <2>6, OneMovesSmoothly
<1>9. ASSUME NEW a \in Attempt, WaitContainer(a) \/ MakeResult(a)
      PROVE  Goal
  <2>1. pc[a] \in Step /\ pc[a] \in {"wait", "result"} /\ SmoothBy(a)
    BY <1>4, <1>9 DEF WaitContainer, MakeResult, Step
  <2>2. /\ container # "none" /\ box[a] = maker
        /\ container = "exited" => code
        /\ pc[a] = "result" => container = "exited"
        /\ box[a] # a => Leftover
    BY <2>1 DEF SmoothBy, Waiting
  <2>3. /\ \A b \in Attempt \ {a} : pc'[b] = pc[b] /\ failed'[b] = failed[b]
        /\ UNCHANGED <<diskVars, containerVars, box, bucket, listed,
                       shouldRemove>>
        /\ pc[a] = "wait" => pc'[a] = "result" /\ failed'[a] = ~code
        /\ pc[a] = "result" => pc'[a] = "list" /\ failed' = failed
    BY <1>9, <2>1, <2>2 DEF WaitContainer, MakeResult, SmoothBy
  <2>4. container = "exited"
    <3>1. CASE pc[a] = "wait"
      <4>1. container # "running"
        BY <1>9, <2>2, <3>1 DEF WaitContainer, MakeResult
      <4>2. box[a] = a => container # "created"
        BY <1>4, <3>1 DEF OwnedBy
      <4> QED BY <2>2, <4>1, <4>2 DEF Leftover
    <3> QED BY <2>1, <2>2, <3>1
  <2>5. Delivered' = Delivered /\ Leftover' = Leftover
    BY <2>3 DEF Leftover, Delivered, ToolsFailed
  <2>6. SmoothBy(a)'
    BY <2>1, <2>2, <2>3, <2>4, <2>5 DEF SmoothBy, BeforeMake, Waiting
  <2>7. pc'[a] \in Step
    BY <2>1, <2>3 DEF Step
  <2> QED BY <1>4, <2>1, <2>3, <2>5, <2>6, <2>7, OneMovesSmoothly
<1>10. ASSUME NEW a \in Attempt, UploadLists(a) PROVE Goal
  <2>1. pc[a] \in Step /\ pc[a] = "list" /\ OwnedBy(a) /\ SmoothBy(a)
    BY <1>4, <1>10 DEF UploadLists, Step
  <2>2. IF box[a] = a THEN output.own \in Made ELSE output = Nothing
    BY <2>1 DEF OwnedBy, SmoothBy
  <2>3. output.own # "none"
    BY <2>2 DEF Made, Nothing
  <2>4. /\ pc' = [pc EXCEPT ![a] = "send"]
        /\ listed' = [listed EXCEPT ![a] = output]
        /\ UNCHANGED <<diskVars, containerVars, bucket, box, failed,
                       shouldRemove>>
    BY <1>10, <2>3 DEF UploadLists
  <2>5. Delivered => Delivered'
    <3>1. listed[a].own # "short"
      BY <2>1 DEF SmoothBy, NoOutput
    <3> QED BY <2>4, <3>1 DEF Delivered, ToolsFailed
  <2>6. Leftover => Leftover'
    BY <2>4, <2>5 DEF Leftover
  <2>7. SmoothBy(a)'
    BY <2>1, <2>2, <2>4, <2>6 DEF SmoothBy, BeforeMake, Waiting
  <2>8. pc'[a] \in Step
    BY <2>4 DEF Step
  <2>9. \A b \in Attempt \ {a} : pc'[b] = pc[b] /\ listed'[b] = listed[b]
    BY <2>4
  <2> QED BY <1>4, <2>1, <2>4, <2>5, <2>7, <2>8, <2>9, OneMovesSmoothly
<1>11. ASSUME NEW a \in Attempt, UploadSends(a) \/ CleanWorkspace(a)
       PROVE  Goal
  <2>1. pc[a] \in Step /\ SmoothBy(a)
    BY <1>4, <1>11 DEF UploadSends, CleanWorkspace, Step
  <2>2. /\ pc'[a] \in {"cleanDir", "cleanContainer"}
        /\ pc[a] \in {"send", "cleanDir"}
        /\ \A b \in Attempt \ {a} : pc'[b] = pc[b]
        /\ UNCHANGED <<container, maker, code, box, failed, listed,
                       shouldRemove>>
    BY <1>11 DEF UploadSends, CleanWorkspace
  <2>3. Delivered'
    <3>1. CASE CleanWorkspace(a)
      <4>1. Delivered /\ UNCHANGED <<bucket, listed>>
        BY <2>1, <3>1 DEF CleanWorkspace, SmoothBy
      <4> QED BY <4>1 DEF Delivered, ToolsFailed
    <3>2. CASE UploadSends(a) /\ box[a] = a
      <4>1. listed[a].own \in Made /\ listed' = listed
        BY <2>1, <3>2 DEF UploadSends, SmoothBy
      <4>2. CASE listed[a].own = "short"
        BY <4>1, <4>2 DEF Delivered, ToolsFailed
      <4>3. CASE listed[a].own = "full"
        <5>1. bucket' = "full"
          BY <3>2, <4>3 DEF UploadSends, MayBeEmpty
        <5> QED BY <5>1 DEF Delivered
      <4> QED BY <4>1, <4>2, <4>3 DEF Made
    <3>3. CASE UploadSends(a) /\ box[a] # a
      <4>1. listed[a] = Nothing /\ Delivered /\ listed' = listed
        BY <2>1, <3>3 DEF UploadSends, SmoothBy, Waiting, Leftover
      <4>2. bucket' = bucket
        BY <3>3, <4>1 DEF UploadSends, MayHoldFiles, Nothing, Made
      <4> QED BY <4>1, <4>2 DEF Delivered, ToolsFailed
    <3> QED BY <1>11, <3>1, <3>2, <3>3
  <2>4. Leftover => Leftover'
    BY <2>2, <2>3 DEF Leftover
  <2>5. SmoothBy(a)'
    BY <2>1, <2>2, <2>3, <2>4 DEF SmoothBy, BeforeMake, Waiting
  <2>6. pc'[a] \in Step
    BY <2>2 DEF Step
  <2> QED BY <1>4, <2>1, <2>2, <2>3, <2>5, <2>6, OneMovesSmoothly
<1>12. ASSUME NEW a \in Attempt, CleanContainer(a) PROVE Goal
  <2>1. pc[a] \in Step /\ SmoothBy(a) /\ pc[a] = "cleanContainer"
    BY <1>4, <1>12 DEF CleanContainer, Step
  <2>2. container = "exited" /\ code /\ ~failed[a] /\ Delivered
    BY <2>1 DEF SmoothBy, Waiting
  <2>3. /\ pc' = [pc EXCEPT ![a] = "complete"]
        /\ UNCHANGED <<failed, bucket, listed, shouldRemove>>
        /\ IF shouldRemove THEN container' = "none"
           ELSE UNCHANGED containerVars
    BY <1>12, <2>2 DEF CleanContainer, RemoveContainer
  <2>4. Delivered'
    BY <2>2, <2>3 DEF Delivered, ToolsFailed
  <2>5. container' = "none" \/ Leftover'
    BY <2>2, <2>3, <2>4 DEF Leftover
  <2>6. SmoothBy(a)'
    BY <2>2, <2>3, <2>4 DEF SmoothBy, BeforeMake, Waiting
  <2> QED BY <1>4, <2>1, <2>3, <2>4, <2>5, <2>6, OneMovesSmoothly
<1>13. CASE ContainerWrites \/ ContainerExits
  <2>1. /\ container = "running" /\ container' # "none"
        /\ UNCHANGED <<pc, maker, attemptVars, bucket, shouldRemove>>
        /\ container' = "exited" => code'
    BY <1>2, <1>13 DEF ContainerWrites, ContainerExits
  <2>2. ~Leftover /\ Active # {}
    BY <1>4, <2>1 DEF Leftover
  <2>3. Delivered' = Delivered
    BY <2>1 DEF Delivered, ToolsFailed
  <2>4. ASSUME NEW a \in Attempt PROVE SmoothBy(a)'
    <3>1. SmoothBy(a)
      BY <1>4
    <3> QED BY <2>1, <2>2, <2>3, <3>1 DEF SmoothBy, BeforeMake, Waiting
  <2> QED BY <2>1, <2>2, <2>4 DEF Active
<1>14. CASE UNCHANGED vars
  <2>1. Leftover' = Leftover /\ Delivered' = Delivered
    BY <1>14 DEF vars, Leftover, Delivered, ToolsFailed
  <2> QED BY <1>4, <1>14, <2>1 DEF vars, SmoothBy, Active
<1>15. ASSUME NEW a \in Attempt, Disturbed(a) PROVE FALSE
  BY <1>2, <1>15 DEF Disturbed, CallFails, ExecuteFails, UploadFails,
                     CleanFails, TimeoutKills, Canceled
<1>16. ~Die
  BY <1>2 DEF Die
<1> QED BY <1>6, <1>7, <1>8, <1>9, <1>10, <1>11, <1>12, <1>13, <1>14, <1>15,
           <1>16 DEF Next, Process
-----------------------------------------------------------------------------
LEMMA InitFacts ==
  ASSUME TaskHostAssumption, Init
  PROVE  TypeOK /\ Owned /\ Tidy /\ Kept /\ Smooth
<1>1. TypeOK
  <2>1. /\ pc \in [Attempt -> {"idle"} \cup Step \cup Ended]
        /\ listed \in [Attempt -> Output] /\ output \in Output
    BY DEF Init, Output, NoOutput
  <2>2. /\ failed \in [Attempt -> BOOLEAN] /\ fd \in [Attempt -> BOOLEAN]
        /\ box \in [Attempt -> Attempt \cup {NoAttempt}]
    BY DEF Init
  <2>3. faults \in 0..MaxFaults
    BY DEF Init, TaskHostAssumption
  <2> QED BY <2>1, <2>2, <2>3 DEF Init, TypeOK, Content
<1>2. Owned
  BY AttemptFacts
     DEF Init, Owned, Alone, Active, Step, OwnedBy, BeforeMake
<1>3. Tidy
  BY DEF Init, Tidy, TidyBy, BeforeStart, NoOutput
<1>4. Kept
  BY DEF Init, Kept
<1>5. Smooth
  BY DEF Init, Smooth, SmoothBy, BeforeMake, Waiting
<1> QED BY <1>1, <1>2, <1>3, <1>4, <1>5

\* Every variable keeps its type, whatever fails or overlaps.
THEOREM TypeCorrect == Spec => []TypeOK
<1>1. Init => TypeOK
  BY InitFacts, TaskHostAssumption
<1>2. TypeOK /\ [Next]_vars => TypeOK'
  BY TypeStep, TaskHostAssumption
<1> QED BY <1>1, <1>2, PTL DEF Spec

\* An attempt that overlaps no other, runs a container of its own (Execute finds
\* none that bears the task's name) and completes has uploaded all that this
\* container made of the whole input, however many attempts failed, panicked or
\* died before it; and if none did, no file of an earlier container with it.
THEOREM OwnRuns == Spec => []OwnRunIsUploaded
<1>1. Init => Owned /\ Tidy
  BY InitFacts, TaskHostAssumption
<1>2. TypeOK /\ Owned /\ Tidy /\ [Next]_vars => Owned' /\ Tidy'
  BY OwnedStep, TidyStep
<1>3. Owned /\ Tidy => OwnRunIsUploaded
  BY DEF Owned, OwnedBy, Tidy, TidyBy, Untroubled, OwnRunIsUploaded
<1> QED BY <1>1, <1>2, <1>3, TypeCorrect, PTL DEF Spec

\* However attempts overlap, when all have ended without a fault and without a
\* panic of Process, processMessage's Cleans have left no workspace behind, and
\* no container unless the worker is told to keep them.
THEOREM NothingStays == Spec => []NothingIsLeft
<1>1. Init => Kept
  BY InitFacts, TaskHostAssumption
<1>2. TypeOK /\ Kept /\ [Next]_vars => Kept'
  BY KeptStep, TaskHostAssumption
<1>3. TypeOK /\ Kept => NothingIsLeft
  <2>1. SUFFICES ASSUME TypeOK, Kept, faults = 0,
                        \A a \in Attempt :
                          pc[a] \in {"idle", "complete", "failed"}
                 PROVE  /\ input = "none" /\ output = NoOutput
                        /\ shouldRemove => container = "none"
    BY DEF NothingIsLeft
  <2>2. Undisturbed
    BY <2>1 DEF Undisturbed
  <2>3. input = "none" /\ output = NoOutput
    BY <2>1, <2>2 DEF Kept, Using
  <2>4. shouldRemove => container = "none"
    BY <2>1, <2>2 DEF Kept, Waiting, TypeOK
  <2> QED BY <2>3, <2>4
<1> QED BY <1>1, <1>2, <1>3, TypeCorrect, PTL DEF Spec

\* Without a fault and without overlap every attempt that ends is complete, has
\* uploaded no stale file, and unless tools failed the output is in S3: neither
\* clean-up nor a kept container stands in the way of the attempt after it.
THEOREM OnlyTroubleFails == Spec => []TroubleHasCause
<1>1. Init => Owned /\ Tidy /\ Smooth
  BY InitFacts, TaskHostAssumption
<1>2. TypeOK /\ Owned /\ Tidy /\ Smooth /\ [Next]_vars =>
        Owned' /\ Tidy' /\ Smooth'
  BY OwnedStep, TidyStep, SmoothStep
<1>3. Tidy /\ Smooth => TroubleHasCause
  <2>1. ASSUME Tidy, Smooth, faults = 0, ~crossed, NEW a \in Attempt,
               pc[a] \in Ended
        PROVE  /\ pc[a] = "complete"
               /\ ~listed[a].stale
               /\ bucket = "full" \/ ToolsFailed
    <3>1. \A b \in Attempt : SmoothBy(b)
      BY <2>1 DEF Smooth
    <3>2. Untroubled
      BY <2>1, <3>1 DEF Untroubled, SmoothBy
    <3>3. ~listed[a].stale
      BY <2>1, <3>2 DEF Tidy, TidyBy
    <3> QED BY <2>1, <3>1, <3>3 DEF SmoothBy, Ended, Delivered
  <2> QED BY <2>1 DEF TroubleHasCause
<1> QED BY <1>1, <1>2, <1>3, TypeCorrect, PTL DEF Spec
=============================================================================
