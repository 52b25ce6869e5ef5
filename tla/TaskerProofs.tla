---------------------------- MODULE TaskerProofs ----------------------------
(***************************************************************************)
(* Proofs about module Tasker, for every number of taskers, resources,     *)
(* ingests and faults, and every batch size.                               *)
(***************************************************************************)
EXTENDS Tasker, FiniteSetTheorems, TLAPS

USE TaskerAssumption

(***************************************************************************)
(* What the control of CreateTasks says of its slice: it is empty between  *)
(* two polls, and holds the source whose task is enqueued or recorded.     *)
(***************************************************************************)
Slice(k) ==
  /\ pc[k] \in {"idle", "down"} => sources[k] = {}
  /\ sources[k] \cap Malformed = {}
  /\ pc[k] \in {"enqueue", "record"} => source[k] \in sources[k] \cap Templated
  /\ pc[k] = "record" => sent[source[k]] > 0

Control ==
  /\ \A k \in Tasker : Slice(k)
  /\ \A r \in Resource : sent[r] > 0 => r \in Templated \ Malformed

Typed == TypeOK /\ Control

LEMMA TypedStep == Typed /\ [Next]_vars => Typed'
<1> SUFFICES ASSUME Typed, [Next]_vars PROVE Typed'
  OBVIOUS
<1> USE DEF stores, failures
<1>1. ASSUME NEW q \in Resource, Ingest(q) PROVE Typed'
  <2>1. TypeOK'
    BY <1>1 DEF Typed, TypeOK, Control, Slice, PC, Ingest
  <2>2. Control'
    BY <1>1 DEF Typed, TypeOK, Control, Slice, Ingest
  <2> QED BY <2>1, <2>2 DEF Typed
<1>2. ASSUME NEW j \in Tasker, Poll(j) PROVE Typed'
  <2>1. TypeOK'
    BY <1>2 DEF Typed, TypeOK, Control, Slice, PC, Poll
  <2>2. Control'
    BY <1>2 DEF Typed, TypeOK, Control, Slice, Poll
  <2> QED BY <2>1, <2>2 DEF Typed
<1>3. ASSUME NEW j \in Tasker, PollFails(j) PROVE Typed'
  <2>1. TypeOK'
    BY <1>3 DEF Typed, TypeOK, Control, Slice, PC, PollFails, Loses
  <2>2. Control'
    BY <1>3 DEF Typed, TypeOK, Control, Slice, PollFails, Loses
  <2> QED BY <2>1, <2>2 DEF Typed
<1>4. ASSUME NEW j \in Tasker, Create(j) PROVE Typed'
  <2>1. TypeOK'
    BY <1>4 DEF Typed, TypeOK, Control, Slice, PC, Create
  <2>2. Control'
    BY <1>4 DEF Typed, TypeOK, Control, Slice, Create
  <2> QED BY <2>1, <2>2 DEF Typed
<1>5. ASSUME NEW j \in Tasker, Return(j) PROVE Typed'
  <2>1. TypeOK'
    BY <1>5 DEF Typed, TypeOK, Control, Slice, PC, Return
  <2>2. Control'
    BY <1>5 DEF Typed, TypeOK, Control, Slice, Return
  <2> QED BY <2>1, <2>2 DEF Typed
<1>6. ASSUME NEW j \in Tasker, Enqueue(j) PROVE Typed'
  <2>1. TypeOK'
    BY <1>6 DEF Typed, TypeOK, Control, Slice, PC, Enqueue, Send
  <2>2. Control'
    BY <1>6 DEF Typed, TypeOK, Control, Slice, Enqueue, Send
  <2> QED BY <2>1, <2>2 DEF Typed
<1>7. ASSUME NEW j \in Tasker, EnqueueFails(j) PROVE Typed'
  <2>1. TypeOK'
    BY <1>7 DEF Typed, TypeOK, Control, Slice, PC, EnqueueFails, Fails, Send,
      Fail
  <2>2. Control'
    BY <1>7 DEF Typed, TypeOK, Control, Slice, EnqueueFails, Fails, Send,
      Fail
  <2> QED BY <2>1, <2>2 DEF Typed
<1>8. ASSUME NEW j \in Tasker, Record(j) PROVE Typed'
  <2>1. TypeOK'
    BY <1>8 DEF Typed, TypeOK, Control, Slice, PC, Record
  <2>2. Control'
    BY <1>8 DEF Typed, TypeOK, Control, Slice, Record
  <2> QED BY <2>1, <2>2 DEF Typed
<1>9. ASSUME NEW j \in Tasker, RecordFails(j) PROVE Typed'
  <2>1. TypeOK'
    BY <1>9 DEF Typed, TypeOK, Control, Slice, PC, RecordFails, Fails, Fail
  <2>2. Control'
    BY <1>9 DEF Typed, TypeOK, Control, Slice, RecordFails, Fails, Fail
  <2> QED BY <2>1, <2>2 DEF Typed
<1>10. ASSUME NEW j \in Tasker, Requeue(j) PROVE Typed'
  <2>1. TypeOK'
    BY <1>10 DEF Typed, TypeOK, Control, Slice, PC, Requeue
  <2>2. Control'
    BY <1>10 DEF Typed, TypeOK, Control, Slice, Requeue
  <2> QED BY <2>1, <2>2 DEF Typed
<1>11. ASSUME NEW j \in Tasker, RequeueFails(j) PROVE Typed'
  <2>1. TypeOK'
    BY <1>11 DEF Typed, TypeOK, Control, Slice, PC, RequeueFails, Loses
  <2>2. Control'
    BY <1>11 DEF Typed, TypeOK, Control, Slice, RequeueFails, Loses
  <2> QED BY <2>1, <2>2 DEF Typed
<1>12. ASSUME NEW j \in Tasker, Stop(j) PROVE Typed'
  <2>1. TypeOK'
    BY <1>12 DEF Typed, TypeOK, Control, Slice, PC, Stop
  <2>2. Control'
    BY <1>12 DEF Typed, TypeOK, Control, Slice, Stop
  <2> QED BY <2>1, <2>2 DEF Typed
<1>13. ASSUME NEW j \in Tasker, Crash(j) PROVE Typed'
  <2>1. TypeOK'
    BY <1>13 DEF Typed, TypeOK, Control, Slice, PC, Crash, Loses
  <2>2. Control'
    BY <1>13 DEF Typed, TypeOK, Control, Slice, Crash, Loses
  <2> QED BY <2>1, <2>2 DEF Typed
<1>14. ASSUME NEW j \in Tasker, Start(j) PROVE Typed'
  <2>1. TypeOK'
    BY <1>14 DEF Typed, TypeOK, Control, Slice, PC, Start
  <2>2. Control'
    BY <1>14 DEF Typed, TypeOK, Control, Slice, Start
  <2> QED BY <2>1, <2>2 DEF Typed
<1>15. CASE UNCHANGED vars
  BY <1>15 DEF Typed, TypeOK, Control, Slice, vars
<1> QED BY <1>1, <1>2, <1>3, <1>4, <1>5, <1>6, <1>7, <1>8, <1>9, <1>10,
           <1>11, <1>12, <1>13, <1>14, <1>15
    DEF Next, Work, Trouble

THEOREM AlwaysTyped == Spec => []Typed
<1>1. Init => Typed
  BY DEF Init, Typed, TypeOK, PC, Control, Slice
<1> QED BY <1>1, TypedStep, PTL DEF Spec

\* Type correctness of the taskers and of the sets in Redis.
THEOREM TypeCorrect == Spec => []TypeOK
<1>1. Typed => TypeOK
  BY DEF Typed
<1> QED BY <1>1, AlwaysTyped, PTL
-----------------------------------------------------------------------------
\* The task set names only tasks that were sent, whatever fails or dies
\* (enqueueTasks, tasker/service.go).
THEOREM OnlySentIsRecorded == Spec => []RecordedWasSent
<1>1. Init => RecordedWasSent
  BY DEF Init, RecordedWasSent
<1>2. Typed /\ RecordedWasSent /\ [Next]_vars => RecordedWasSent'
  <2> SUFFICES ASSUME Typed, RecordedWasSent, [Next]_vars,
                      NEW r \in taskSet'
               PROVE  sent'[r] > 0
    BY DEF RecordedWasSent
  <2> USE DEF stores, failures
  <2>1. ASSUME NEW q \in Resource, Ingest(q) PROVE sent'[r] > 0
    BY <2>1 DEF RecordedWasSent, Typed, TypeOK, Control, Slice, Ingest
  <2>2. ASSUME NEW j \in Tasker, Poll(j) PROVE sent'[r] > 0
    BY <2>2 DEF RecordedWasSent, Typed, TypeOK, Control, Slice, Poll
  <2>3. ASSUME NEW j \in Tasker, PollFails(j) PROVE sent'[r] > 0
    BY <2>3 DEF RecordedWasSent, Typed, TypeOK, Control, Slice, PollFails,
      Loses
  <2>4. ASSUME NEW j \in Tasker, Create(j) PROVE sent'[r] > 0
    BY <2>4 DEF RecordedWasSent, Typed, TypeOK, Control, Slice, Create
  <2>5. ASSUME NEW j \in Tasker, Return(j) PROVE sent'[r] > 0
    BY <2>5 DEF RecordedWasSent, Typed, TypeOK, Control, Slice, Return
  <2>6. ASSUME NEW j \in Tasker, Enqueue(j) PROVE sent'[r] > 0
    BY <2>6 DEF RecordedWasSent, Typed, TypeOK, Control, Slice, Enqueue, Send
  <2>7. ASSUME NEW j \in Tasker, EnqueueFails(j) PROVE sent'[r] > 0
    BY <2>7 DEF RecordedWasSent, Typed, TypeOK, Control, Slice, EnqueueFails,
      Fails, Send, Fail
  <2>8. ASSUME NEW j \in Tasker, Record(j) PROVE sent'[r] > 0
    BY <2>8 DEF RecordedWasSent, Typed, TypeOK, Control, Slice, Record
  <2>9. ASSUME NEW j \in Tasker, RecordFails(j) PROVE sent'[r] > 0
    BY <2>9 DEF RecordedWasSent, Typed, TypeOK, Control, Slice, RecordFails,
      Fails, Fail
  <2>10. ASSUME NEW j \in Tasker, Requeue(j) PROVE sent'[r] > 0
    BY <2>10 DEF RecordedWasSent, Typed, TypeOK, Control, Slice, Requeue
  <2>11. ASSUME NEW j \in Tasker, RequeueFails(j) PROVE sent'[r] > 0
    BY <2>11 DEF RecordedWasSent, Typed, TypeOK, Control, Slice,
      RequeueFails, Loses
  <2>12. ASSUME NEW j \in Tasker, Stop(j) PROVE sent'[r] > 0
    BY <2>12 DEF RecordedWasSent, Typed, TypeOK, Control, Slice, Stop
  <2>13. ASSUME NEW j \in Tasker, Crash(j) PROVE sent'[r] > 0
    BY <2>13 DEF RecordedWasSent, Typed, TypeOK, Control, Slice, Crash, Loses
  <2>14. ASSUME NEW j \in Tasker, Start(j) PROVE sent'[r] > 0
    BY <2>14 DEF RecordedWasSent, Typed, TypeOK, Control, Slice, Start
  <2>15. CASE UNCHANGED vars
    BY <2>15 DEF RecordedWasSent, vars
  <2> QED BY <2>1, <2>2, <2>3, <2>4, <2>5, <2>6, <2>7, <2>8, <2>9, <2>10,
             <2>11, <2>12, <2>13, <2>14, <2>15
      DEF Next, Work, Trouble
<1> QED BY <1>1, <1>2, AlwaysTyped, PTL DEF Spec
-----------------------------------------------------------------------------
(***************************************************************************)
(* While the resource set answers and no tasker dies, a resource stays     *)
(* pending until its task is sent and recorded.                            *)
(***************************************************************************)

\* A step that ends the pending of r has sent and recorded its task.
LEMMA PendingStep ==
  ASSUME losses' = 0, Typed, Next, NEW r \in Templated \ Malformed, Pending(r)
  PROVE  Pending(r)' \/ (sent'[r] > 0 /\ r \in taskSet')
<1> DEFINE Kept == Pending(r)' \/ (sent'[r] > 0 /\ r \in taskSet')
<1> USE DEF stores, failures
<1>1. ASSUME NEW q \in Resource, Ingest(q) PROVE Kept
  BY <1>1 DEF Ingest, Pending, Typed, TypeOK, Control, Slice
<1>2. ASSUME NEW j \in Tasker, Poll(j) PROVE Kept
  BY <1>2 DEF Poll, Pending, Typed, TypeOK, Control, Slice
<1>3. ASSUME NEW j \in Tasker, PollFails(j) PROVE Kept
  BY <1>3 DEF PollFails, Loses, Pending, Typed, TypeOK, Control, Slice
<1>4. ASSUME NEW j \in Tasker, Create(j) PROVE Kept
  BY <1>4 DEF Create, Pending, Typed, TypeOK, Control, Slice
<1>5. ASSUME NEW j \in Tasker, Return(j) PROVE Kept
  BY <1>5 DEF Return, Pending, Typed, TypeOK, Control, Slice
<1>6. ASSUME NEW j \in Tasker, Enqueue(j) PROVE Kept
  BY <1>6 DEF Enqueue, Send, Pending, Typed, TypeOK, Control, Slice
<1>7. ASSUME NEW j \in Tasker, EnqueueFails(j) PROVE Kept
  BY <1>7 DEF EnqueueFails, Fails, Send, Fail, Pending, Typed, TypeOK,
    Control, Slice
<1>8. ASSUME NEW j \in Tasker, Record(j) PROVE Kept
  BY <1>8 DEF Record, Pending, Typed, TypeOK, Control, Slice
<1>9. ASSUME NEW j \in Tasker, RecordFails(j) PROVE Kept
  BY <1>9 DEF RecordFails, Fails, Fail, Pending, Typed, TypeOK, Control,
    Slice
<1>10. ASSUME NEW j \in Tasker, Requeue(j) PROVE Kept
  BY <1>10 DEF Requeue, Pending, Typed, TypeOK, Control, Slice
<1>11. ASSUME NEW j \in Tasker, RequeueFails(j) PROVE Kept
  BY <1>11 DEF RequeueFails, Loses, Pending, Typed, TypeOK, Control, Slice
<1>12. ASSUME NEW j \in Tasker, Stop(j) PROVE Kept
  BY <1>12 DEF Stop, Pending, Typed, TypeOK, Control, Slice
<1>13. ASSUME NEW j \in Tasker, Crash(j) PROVE Kept
  BY <1>13 DEF Crash, Loses, Pending, Typed, TypeOK, Control, Slice
<1>14. ASSUME NEW j \in Tasker, Start(j) PROVE Kept
  BY <1>14 DEF Start, Pending, Typed, TypeOK, Control, Slice
<1> QED BY <1>1, <1>2, <1>3, <1>4, <1>5, <1>6, <1>7, <1>8, <1>9, <1>10,
           <1>11, <1>12, <1>13, <1>14
    DEF Next, Work, Trouble

\* Sends and task set entries are never taken back; a resource is sent for the
\* first time, or ingested for the first time, only while it is pending; and
\* no loss is forgotten.
LEMMA StoresStep ==
  ASSUME Typed, Next, NEW r \in Resource
  PROVE  /\ sent'[r] >= sent[r]
         /\ taskSet \subseteq taskSet'
         /\ sent'[r] > sent[r] => Pending(r)'
         /\ ingested'[r] > ingested[r] => Pending(r)'
         /\ losses' = 0 => losses = 0
<1> DEFINE Grows ==
      /\ sent'[r] >= sent[r]
      /\ taskSet \subseteq taskSet'
      /\ sent'[r] > sent[r] => Pending(r)'
      /\ ingested'[r] > ingested[r] => Pending(r)'
      /\ losses' = 0 => losses = 0
<1> USE DEF stores, failures
<1>1. ASSUME NEW q \in Resource, Ingest(q) PROVE Grows
  BY <1>1 DEF Ingest, Pending, Typed, TypeOK, Control, Slice
<1>2. ASSUME NEW j \in Tasker, Poll(j) PROVE Grows
  BY <1>2 DEF Poll, Pending, Typed, TypeOK, Control, Slice
<1>3. ASSUME NEW j \in Tasker, PollFails(j) PROVE Grows
  BY <1>3 DEF PollFails, Loses, Pending, Typed, TypeOK, Control, Slice
<1>4. ASSUME NEW j \in Tasker, Create(j) PROVE Grows
  BY <1>4 DEF Create, Pending, Typed, TypeOK, Control, Slice
<1>5. ASSUME NEW j \in Tasker, Return(j) PROVE Grows
  BY <1>5 DEF Return, Pending, Typed, TypeOK, Control, Slice
<1>6. ASSUME NEW j \in Tasker, Enqueue(j) PROVE Grows
  BY <1>6 DEF Enqueue, Send, Pending, Typed, TypeOK, Control, Slice
<1>7. ASSUME NEW j \in Tasker, EnqueueFails(j) PROVE Grows
  BY <1>7 DEF EnqueueFails, Fails, Send, Fail, Pending, Typed, TypeOK,
    Control, Slice
<1>8. ASSUME NEW j \in Tasker, Record(j) PROVE Grows
  BY <1>8 DEF Record, Pending, Typed, TypeOK, Control, Slice
<1>9. ASSUME NEW j \in Tasker, RecordFails(j) PROVE Grows
  BY <1>9 DEF RecordFails, Fails, Fail, Pending, Typed, TypeOK, Control,
    Slice
<1>10. ASSUME NEW j \in Tasker, Requeue(j) PROVE Grows
  BY <1>10 DEF Requeue, Pending, Typed, TypeOK, Control, Slice
<1>11. ASSUME NEW j \in Tasker, RequeueFails(j) PROVE Grows
  BY <1>11 DEF RequeueFails, Loses, Pending, Typed, TypeOK, Control, Slice
<1>12. ASSUME NEW j \in Tasker, Stop(j) PROVE Grows
  BY <1>12 DEF Stop, Pending, Typed, TypeOK, Control, Slice
<1>13. ASSUME NEW j \in Tasker, Crash(j) PROVE Grows
  BY <1>13 DEF Crash, Loses, Pending, Typed, TypeOK, Control, Slice
<1>14. ASSUME NEW j \in Tasker, Start(j) PROVE Grows
  BY <1>14 DEF Start, Pending, Typed, TypeOK, Control, Slice
<1> QED BY <1>1, <1>2, <1>3, <1>4, <1>5, <1>6, <1>7, <1>8, <1>9, <1>10,
           <1>11, <1>12, <1>13, <1>14
    DEF Next, Work, Trouble

\* Between the resource set, the slices and the queue CreateTasks loses no
\* resource that a template knows, as long as its defer succeeds.
THEOREM NothingIsLost == Spec => []Conserved
<1>1. Init => Conserved
  BY DEF Init, Conserved
<1>2. Typed /\ Conserved /\ [Next]_vars => Conserved'
  <2>1. ASSUME Conserved, UNCHANGED vars PROVE Conserved'
    BY <2>1 DEF Conserved, Pending, vars, stores, failures
  <2>2. ASSUME Typed, Conserved, Next, NEW r \in Templated \ Malformed,
               losses' = 0, ingested'[r] > 0
        PROVE  Pending(r)' \/ sent'[r] > 0
    <3>1. sent[r] \in Nat /\ sent'[r] \in Nat /\ ingested[r] \in Nat
      BY <2>2, TypedStep DEF Typed, TypeOK
    <3>2. CASE ingested[r] = 0
      BY <2>2, <3>2, StoresStep
    <3>3. CASE ingested[r] > 0 /\ Pending(r)
      BY <2>2, <3>3, PendingStep
    <3>4. CASE ingested[r] > 0 /\ sent[r] > 0
      BY <2>2, <3>1, <3>4, StoresStep
    <3>5. losses = 0
      BY <2>2, StoresStep
    <3> QED BY <2>2, <3>1, <3>2, <3>3, <3>4, <3>5 DEF Conserved
  <2> QED BY <2>1, <2>2 DEF Conserved
<1> QED BY <1>1, <1>2, AlwaysTyped, PTL DEF Spec

\* A task that was sent is recorded, or its resource is still pending and will
\* be sent and recorded again.
THEOREM RecordingCatchesUp == Spec => []SentIsRecorded
<1>1. Init => SentIsRecorded
  BY DEF Init, SentIsRecorded
<1>2. Typed /\ SentIsRecorded /\ [Next]_vars => SentIsRecorded'
  <2>1. ASSUME SentIsRecorded, UNCHANGED vars PROVE SentIsRecorded'
    BY <2>1 DEF SentIsRecorded, Pending, vars, stores, failures
  <2>2. ASSUME Typed, SentIsRecorded, Next, NEW r \in Resource,
               losses' = 0, sent'[r] > 0
        PROVE  r \in taskSet' \/ Pending(r)'
    <3>1. sent[r] \in Nat /\ sent'[r] \in Nat /\ Typed'
      BY <2>2, TypedStep DEF Typed, TypeOK
    <3>2. r \in Templated \ Malformed
      BY <2>2, <3>1 DEF Typed, Control
    <3>3. CASE sent[r] = 0
      BY <2>2, <3>3, StoresStep
    <3>4. CASE sent[r] > 0 /\ Pending(r)
      BY <2>2, <3>2, <3>4, PendingStep
    <3>5. CASE sent[r] > 0 /\ r \in taskSet
      BY <2>2, <3>5, StoresStep
    <3>6. losses = 0
      BY <2>2, StoresStep
    <3> QED BY <2>2, <3>1, <3>3, <3>4, <3>5, <3>6 DEF SentIsRecorded
  <2> QED BY <2>1, <2>2 DEF SentIsRecorded
<1> QED BY <1>1, <1>2, AlwaysTyped, PTL DEF Spec
-----------------------------------------------------------------------------
(***************************************************************************)
(* Duplicates.  What may still become a message for r, and what already    *)
(* did, is at most what was ingested and what the failures have doubled.   *)
(***************************************************************************)
InSet(r) == IF r \in resources THEN 1 ELSE 0

\* A set of taskers that loses k, keeps its members, or gains k at most.
LEMMA Counting ==
  ASSUME NEW S \in SUBSET Tasker, NEW T \in SUBSET Tasker, NEW k \in Tasker
  PROVE  /\ Cardinality(S) \in Nat /\ Cardinality(T) \in Nat
         /\ T \subseteq S => Cardinality(T) <= Cardinality(S)
         /\ T \subseteq S \cup {k} => Cardinality(T) <= Cardinality(S) + 1
         /\ k \in S /\ T \subseteq S \ {k}
              => Cardinality(T) + 1 <= Cardinality(S)
<1>1. IsFiniteSet(S) /\ IsFiniteSet(T)
  BY FS_Subset
<1>2. Cardinality(S) \in Nat /\ Cardinality(T) \in Nat
  BY <1>1, FS_CardinalityType
<1>3. /\ IsFiniteSet(S \cup {k})
      /\ Cardinality(S \cup {k}) =
           IF k \in S THEN Cardinality(S) ELSE Cardinality(S) + 1
  BY <1>1, FS_AddElement
<1>4. /\ IsFiniteSet(S \ {k})
      /\ Cardinality(S \ {k}) =
           IF k \in S THEN Cardinality(S) - 1 ELSE Cardinality(S)
  BY <1>1, FS_RemoveElement
<1>5. T \subseteq S => Cardinality(T) <= Cardinality(S)
  BY <1>1, FS_Subset
<1>6. T \subseteq S \cup {k} => Cardinality(T) <= Cardinality(S \cup {k})
  BY <1>3, FS_Subset
<1>7. T \subseteq S \ {k} => Cardinality(T) <= Cardinality(S \ {k})
  BY <1>4, FS_Subset
<1> QED BY <1>2, <1>3, <1>4, <1>5, <1>6, <1>7

\* One step: the counts move together.
LEMMA DuplicateStep ==
  ASSUME Typed, Next, NEW r \in Resource
  PROVE  sent'[r] + InSet(r)' + Cardinality(Holders(r)')
           + ingested[r] + faults
           <= sent[r] + InSet(r) + Cardinality(Holders(r))
                + ingested'[r] + faults'
<1> DEFINE Before == Cardinality(Holders(r))
           After == Cardinality(Holders(r)')
           Balance == sent'[r] + InSet(r)' + After + ingested[r] + faults
                        <= sent[r] + InSet(r) + Before + ingested'[r] + faults'
<1>n. /\ sent[r] \in Nat /\ sent'[r] \in Nat
      /\ ingested[r] \in Nat /\ ingested'[r] \in Nat
      /\ faults \in Nat /\ faults' \in Nat
      /\ InSet(r) \in {0, 1} /\ InSet(r)' \in {0, 1}
  BY TypedStep DEF Typed, TypeOK, InSet
<1>h. /\ Before \in Nat /\ After \in Nat
      /\ Holders(r)' \subseteq Holders(r) => After <= Before
      /\ \A k \in Tasker :
           /\ Holders(r)' \subseteq Holders(r) \cup {k} => After <= Before + 1
           /\ k \in Holders(r) /\ Holders(r)' \subseteq Holders(r) \ {k}
                => After + 1 <= Before
  <2>1. Holders(r) \in SUBSET Tasker /\ Holders(r)' \in SUBSET Tasker
    BY DEF Holders
  <2>2. IsFiniteSet(Holders(r)) /\ IsFiniteSet(Holders(r)')
    BY <2>1, FS_Subset
  <2> QED BY <2>1, <2>2, Counting, FS_Subset, FS_CardinalityType
<1> USE DEF stores, failures
<1>1. ASSUME NEW q \in Resource, Ingest(q) PROVE Balance
  <2>1. Holders(r)' \subseteq Holders(r)
    BY <1>1 DEF Ingest, Holders, Holds
  <2>2. /\ sent' = sent /\ faults' = faults
        /\ \/ ingested'[r] = ingested[r] + 1
           \/ ingested'[r] = ingested[r] /\ InSet(r)' = InSet(r)
    BY <1>1 DEF Ingest, InSet, Typed, TypeOK
  <2> QED BY <1>n, <1>h, <2>1, <2>2
<1>2. ASSUME NEW j \in Tasker, Poll(j) PROVE Balance
  <2>1. /\ sent' = sent /\ faults' = faults /\ ingested' = ingested
        /\ \/ Holders(r)' \subseteq Holders(r) /\ InSet(r)' = InSet(r)
           \/ /\ Holders(r)' \subseteq Holders(r) \cup {j}
              /\ InSet(r) = 1 /\ InSet(r)' = 0
    <3>1. PICK S \in SUBSET resources :
                 /\ resources' = resources \ S
                 /\ sources' = [sources EXCEPT ![j] = S \ Malformed]
      BY <1>2 DEF Poll
    <3>2. CASE r \in S
      BY <1>2, <3>1, <3>2 DEF Poll, Holders, Holds, InSet, Typed, TypeOK
    <3>3. CASE r \notin S
      BY <1>2, <3>1, <3>3 DEF Poll, Holders, Holds, InSet, Typed, TypeOK
    <3> QED BY <1>2, <3>2, <3>3 DEF Poll
  <2> QED BY <1>n, <1>h, <2>1
<1>3. ASSUME NEW j \in Tasker, Enqueue(j) PROVE Balance
  <2>1. faults' = faults /\ ingested' = ingested /\ InSet(r)' = InSet(r)
    BY <1>3 DEF Enqueue, InSet
  <2>2. CASE source[j] = r
    <3>1. /\ j \in Holders(r)
          /\ Holders(r)' \subseteq Holders(r) \ {j}
          /\ sent'[r] = sent[r] + 1
      BY <1>3, <2>2 DEF Enqueue, Send, Holders, Holds, Typed, TypeOK,
        Control, Slice
    <3> QED BY <1>n, <1>h, <2>1, <3>1
  <2>3. CASE source[j] # r
    <3>1. Holders(r)' \subseteq Holders(r) /\ sent'[r] = sent[r]
      BY <1>3, <2>3 DEF Enqueue, Send, Holders, Holds, Typed, TypeOK
    <3> QED BY <1>n, <1>h, <2>1, <3>1
  <2> QED BY <2>2, <2>3
<1>4. ASSUME NEW j \in Tasker, EnqueueFails(j) PROVE Balance
  <2>1. /\ ingested' = ingested /\ InSet(r)' = InSet(r)
        /\ faults' = faults + 1
        /\ sent'[r] \in {sent[r], sent[r] + 1}
    BY <1>4 DEF EnqueueFails, Fails, Fail, Send, InSet, Typed, TypeOK
  <2>2. Holders(r)' \subseteq Holders(r)
    BY <1>4 DEF EnqueueFails, Fail, Holders, Holds, Typed, TypeOK
  <2> QED BY <1>n, <1>h, <2>1, <2>2
<1>5. ASSUME NEW j \in Tasker, RecordFails(j) PROVE Balance
  <2>1. /\ ingested' = ingested /\ InSet(r)' = InSet(r) /\ sent' = sent
        /\ faults' = faults + 1
    BY <1>5 DEF RecordFails, Fails, Fail, InSet
  <2>2. Holders(r)' \subseteq Holders(r) \cup {j}
    BY <1>5 DEF RecordFails, Fail, Holders, Holds, Typed, TypeOK
  <2> QED BY <1>n, <1>h, <2>1, <2>2
<1>6. ASSUME NEW j \in Tasker, Requeue(j) PROVE Balance
  <2>1. sent' = sent /\ ingested' = ingested /\ faults' = faults
    BY <1>6 DEF Requeue
  <2>2. CASE r \in sources[j]
    <3>1. j \in Holders(r) /\ Holders(r)' \subseteq Holders(r) \ {j}
      BY <1>6, <2>2 DEF Requeue, Holders, Holds, Typed, TypeOK
    <3> QED BY <1>n, <1>h, <2>1, <3>1
  <2>3. CASE r \notin sources[j]
    <3>1. Holders(r)' \subseteq Holders(r) /\ InSet(r)' = InSet(r)
      BY <1>6, <2>3 DEF Requeue, Holders, Holds, InSet, Typed, TypeOK
    <3> QED BY <1>n, <1>h, <2>1, <3>1
  <2> QED BY <2>2, <2>3
<1>7. ASSUME NEW j \in Tasker, RequeueFails(j) PROVE Balance
  <2>1. sent' = sent /\ ingested' = ingested /\ faults' = faults
    BY <1>7 DEF RequeueFails, Loses
  <2>2. CASE r \in sources[j]
    <3>1. j \in Holders(r) /\ Holders(r)' \subseteq Holders(r) \ {j}
      BY <1>7, <2>2 DEF RequeueFails, Holders, Holds, Typed, TypeOK
    <3> QED BY <1>n, <1>h, <2>1, <3>1
  <2>3. CASE r \notin sources[j]
    <3>1. Holders(r)' \subseteq Holders(r) /\ InSet(r)' = InSet(r)
      BY <1>7, <2>3 DEF RequeueFails, Holders, Holds, InSet, Typed, TypeOK
    <3> QED BY <1>n, <1>h, <2>1, <3>1
  <2> QED BY <2>2, <2>3
<1>8. ASSUME NEW j \in Tasker, PollFails(j) \/ Crash(j) PROVE Balance
  <2>1. /\ sent' = sent /\ ingested' = ingested /\ faults' = faults
        /\ InSet(r)' <= InSet(r)
    BY <1>8 DEF PollFails, Crash, Loses, InSet
  <2>2. Holders(r)' \subseteq Holders(r)
    BY <1>8 DEF PollFails, Crash, Holders, Holds, Typed, TypeOK
  <2> QED BY <1>n, <1>h, <2>1, <2>2
<1>9. ASSUME NEW j \in Tasker,
             Create(j) \/ Return(j) \/ Record(j) \/ Stop(j) \/ Start(j)
      PROVE  Balance
  <2>1. /\ sent' = sent /\ ingested' = ingested /\ faults' = faults
        /\ InSet(r)' = InSet(r)
    BY <1>9 DEF Create, Return, Record, Stop, Start, InSet
  <2>2. Holders(r)' \subseteq Holders(r)
    BY <1>9 DEF Create, Return, Record, Stop, Start, Holders, Holds, Typed,
      TypeOK, Control, Slice
  <2> QED BY <1>n, <1>h, <2>1, <2>2
<1> QED BY <1>1, <1>2, <1>3, <1>4, <1>5, <1>6, <1>7, <1>8, <1>9
    DEF Next, Work, Trouble

\* One ingest makes at most one message for a resource, and each retried call
\* at most one more (Pop takes a member once; the defer returns only what was
\* not shifted off).
THEOREM DuplicatesAreBounded == Spec => []DuplicatesNeedFaults
<1>1. Init => DuplicatesNeedFaults
  <2>1. ASSUME Init, NEW r \in Resource PROVE Holders(r) = {}
    BY <2>1 DEF Init, Holders, Holds
  <2> QED BY <2>1, FS_EmptySet DEF Init, DuplicatesNeedFaults
<1>2. Typed /\ DuplicatesNeedFaults /\ [Next]_vars => DuplicatesNeedFaults'
  <2>1. ASSUME DuplicatesNeedFaults, UNCHANGED vars
        PROVE  DuplicatesNeedFaults'
    BY <2>1 DEF DuplicatesNeedFaults, Holders, Holds, vars, stores, failures
  <2>2. ASSUME Typed, DuplicatesNeedFaults, Next, NEW r \in Resource
        PROVE  sent'[r] + InSet(r)' + Cardinality(Holders(r)')
                 <= ingested'[r] + faults'
    <3>1. sent[r] + InSet(r) + Cardinality(Holders(r))
            <= ingested[r] + faults
      BY <2>2 DEF DuplicatesNeedFaults, InSet
    <3>2. /\ sent[r] \in Nat /\ sent'[r] \in Nat
          /\ ingested[r] \in Nat /\ ingested'[r] \in Nat
          /\ faults \in Nat /\ faults' \in Nat
          /\ InSet(r) \in Nat /\ InSet(r)' \in Nat
      BY <2>2, TypedStep DEF Typed, TypeOK, InSet
    <3>3. /\ Cardinality(Holders(r)) \in Nat
          /\ Cardinality(Holders(r)') \in Nat
      <4>1. Holders(r) \in SUBSET Tasker /\ Holders(r)' \in SUBSET Tasker
        BY DEF Holders
      <4> QED BY <4>1, FS_Subset, FS_CardinalityType
    <3> QED BY <2>2, <3>1, <3>2, <3>3, DuplicateStep
  <2> QED BY <2>1, <2>2 DEF DuplicatesNeedFaults, InSet
<1> QED BY <1>1, <1>2, AlwaysTyped, PTL DEF Spec
=============================================================================
