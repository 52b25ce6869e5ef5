--------------------------- MODULE PipelineProofs ---------------------------
(***************************************************************************)
(* Proofs about module Pipeline, for every number of taskers, hosts,       *)
(* resources, messages and receipts: each part of the pipeline behaves as  *)
(* its module says, so that what is proved of the module holds of the      *)
(* part, and the whole implements Delivery.                                *)
(***************************************************************************)
EXTENDS Pipeline, WorkerProofs, FiniteSetTheorems

TP == INSTANCE TaskerProofs WITH Resource <- Task, pc <- taskerPC
DP == INSTANCE DeliveryProofs WITH JobOf <- TaskOf

USE QueueAssumption, WorkerAssumption, PipelineAssumption

\* The operators of FiniteSets mean the same in every instance.
LEMMA SameFinite ==
  \A S : /\ T!IsFiniteSet(S) <=> IsFiniteSet(S)
         /\ TP!IsFiniteSet(S) <=> IsFiniteSet(S)
  BY DEF T!IsFiniteSet, TP!IsFiniteSet, IsFiniteSet

LEMMA SameCardinality ==
  \A S : /\ T!Cardinality(S) = Cardinality(S)
         /\ TP!Cardinality(S) = Cardinality(S)
  BY DEF T!Cardinality, TP!Cardinality, Cardinality

\* TaskerProofs speaks of the same taskers as module Tasker.
LEMMA TaskerAssumed == TP!TaskerAssumption
  BY SameFinite DEF T!TaskerAssumption, TP!TaskerAssumption, T!Fault, TP!Fault

LEMMA SameInit == T!Init <=> TP!Init
  BY DEF T!Init, TP!Init

LEMMA SameIngest == \A j \in Task : T!Ingest(j) <=> TP!Ingest(j)
  BY DEF T!Ingest, TP!Ingest, T!failures, TP!failures

LEMMA SameBatch == \A S : T!Batch(S) <=> TP!Batch(S)
  BY SameCardinality DEF T!Batch, TP!Batch

LEMMA SameWork ==
  ASSUME NEW k \in Tasker
  PROVE  /\ T!Work(k) <=> TP!Work(k)
         /\ T!Enqueue(k) <=> TP!Enqueue(k)
<1>1. T!Poll(k) <=> TP!Poll(k)
  BY SameBatch DEF T!Poll, TP!Poll, T!failures, TP!failures
<1>2. T!Create(k) <=> TP!Create(k)
  BY DEF T!Create, TP!Create, T!stores, TP!stores, T!failures, TP!failures
<1>3. T!Return(k) <=> TP!Return(k)
  BY DEF T!Return, TP!Return, T!stores, TP!stores, T!failures, TP!failures
<1>4. T!Enqueue(k) <=> TP!Enqueue(k)
  BY DEF T!Enqueue, TP!Enqueue, T!Send, TP!Send, T!failures, TP!failures
<1>5. T!Record(k) <=> TP!Record(k)
  BY DEF T!Record, TP!Record, T!failures, TP!failures
<1>6. T!Requeue(k) <=> TP!Requeue(k)
  BY DEF T!Requeue, TP!Requeue, T!failures, TP!failures
<1> QED BY <1>1, <1>2, <1>3, <1>4, <1>5, <1>6 DEF T!Work, TP!Work

LEMMA SameTrouble ==
  ASSUME NEW k \in Tasker
  PROVE  /\ T!Trouble(k) <=> TP!Trouble(k)
         /\ T!EnqueueFails(k) <=> TP!EnqueueFails(k)
<1>1. T!PollFails(k) <=> TP!PollFails(k)
  BY SameBatch DEF T!PollFails, TP!PollFails, T!Loses, TP!Loses
<1>2. T!EnqueueFails(k) <=> TP!EnqueueFails(k)
  BY DEF T!EnqueueFails, TP!EnqueueFails, T!Fails, TP!Fails, T!Send, TP!Send,
         T!Fail, TP!Fail
<1>3. T!RecordFails(k) <=> TP!RecordFails(k)
  BY DEF T!RecordFails, TP!RecordFails, T!Fails, TP!Fails, T!Fail, TP!Fail
<1>4. T!RequeueFails(k) <=> TP!RequeueFails(k)
  BY DEF T!RequeueFails, TP!RequeueFails, T!Loses, TP!Loses
<1>5. T!Crash(k) <=> TP!Crash(k)
  BY DEF T!Crash, TP!Crash, T!Loses, TP!Loses, T!stores, TP!stores
<1> QED BY <1>1, <1>2, <1>3, <1>4, <1>5 DEF T!Trouble, TP!Trouble

LEMMA SameTurn ==
  ASSUME NEW k \in Tasker
  PROVE  /\ T!Stop(k) <=> TP!Stop(k)
         /\ T!Start(k) <=> TP!Start(k)
  BY DEF T!Stop, T!Start, T!stores, T!failures, TP!Stop, TP!Start, TP!stores,
         TP!failures
-----------------------------------------------------------------------------
(***************************************************************************)
(* The parts.                                                              *)
(***************************************************************************)

\* On the pipeline the worker cluster behaves as module Worker says.
THEOREM WorkersWork == PipelineSpec => Spec
<1>1. PipelineInit => Init
  BY DEF PipelineInit
<1>2. [PipelineNext]_pipelineVars => [Next]_vars
  BY DEF PipelineNext, pipelineVars, Ingest, Work, Trouble, Turn, Sends,
         Processing, Next
<1> QED BY <1>1, <1>2, PTL DEF PipelineSpec, Spec

\* What the workers do with the messages does not change what was sent.
LEMMA SentStays ==
  ASSUME Typed, Handed, Cluster
  PROVE  sent' = sent
<1>1. ASSUME NEW m \in Message
      PROVE  queue'[m] = "unsent" <=> queue[m] = "unsent"
  <2>1. CASE Quiet
    <3>1. queue[m] \in {"unsent", "visible", "inflight", "gone"}
      BY DEF Typed, TypeOK, QueueTypeOK, QueueState
    <3> QED BY <2>1, <3>1 DEF Quiet
  <2>2. ASSUME NEW r \in Receipt, Attends(r)
        PROVE  queue'[m] = "unsent" <=> queue[m] = "unsent"
    <3>1. queue[message[r]] # "unsent"
      BY <2>2 DEF Attends, Handed
    <3> QED BY <2>2, <3>1 DEF Attends
  <2> QED BY <2>1, <2>2, StepKinds
<1>2. \A j \in Task : Sent(j)' = Sent(j)
  BY <1>1 DEF Sent
<1> QED BY <1>2 DEF sent

\* On the pipeline the taskers behave as module Tasker says.
THEOREM TaskersWork == PipelineSpec => TP!Spec
<1>1. PipelineInit => TP!Init
  BY SameInit DEF PipelineInit
<1>2. Typed /\ Handed /\ [PipelineNext]_pipelineVars => [TP!Next]_(TP!vars)
  <2> SUFFICES ASSUME Typed, Handed, [PipelineNext]_pipelineVars
               PROVE  [TP!Next]_(TP!vars)
    OBVIOUS
  <2>1. CASE UNCHANGED pipelineVars
    <3>1. UNCHANGED queue
      BY <2>1 DEF pipelineVars, vars, queueVars
    <3>2. sent' = sent
      BY <3>1 DEF sent, Sent
    <3> QED BY <2>1, <3>2 DEF pipelineVars, taskerVars, TP!vars, TP!stores,
                              TP!failures
  <2>2. ASSUME NEW j \in Task, Ingest(j) PROVE TP!Next
    BY <2>2, SameIngest DEF Ingest, TP!Next
  <2>3. ASSUME NEW k \in Tasker, Work(k) PROVE TP!Next
    BY <2>3, SameWork DEF Work, TP!Next, TP!Work
  <2>4. ASSUME NEW k \in Tasker, Trouble(k) PROVE TP!Next
    BY <2>4, SameTrouble DEF Trouble, TP!Next, TP!Trouble
  <2>5. ASSUME NEW k \in Tasker, Turn(k) PROVE TP!Next
    BY <2>5, SameTurn DEF Turn, TP!Next
  <2>6. CASE Processing
    BY <2>6, SentStays DEF Processing, taskerVars, TP!vars, TP!stores,
                           TP!failures
  <2> QED BY <2>1, <2>2, <2>3, <2>4, <2>5, <2>6 DEF PipelineNext
<1> QED BY <1>1, <1>2, WorkersWork, AlwaysTyped, OnlySentIsHandedOut, PTL
    DEF PipelineSpec, TP!Spec
-----------------------------------------------------------------------------
(***************************************************************************)
(* What is proved of the parts holds of the pipeline.                      *)
(***************************************************************************)

\* The workers of the pipeline lose no message silently.
THEOREM PipelineLosesNothing == PipelineSpec => []NoSilentLoss
  BY WorkersWork, NothingIsLostSilently, PTL

\* Its taskers lose no resource while the resource set answers.
THEOREM PipelineConserves == PipelineSpec => []TP!Conserved
<1>1. TP!Spec => []TP!Conserved
  BY TaskerAssumed, TP!NothingIsLost
<1> QED BY <1>1, TaskersWork, PTL

LEMMA PipelineTyped == PipelineSpec => [](Typed /\ Handed /\ TP!Typed)
<1>1. TP!Spec => []TP!Typed
  BY TaskerAssumed, TP!AlwaysTyped
<1> QED BY <1>1, TaskersWork, WorkersWork, AlwaysTyped, OnlySentIsHandedOut,
           PTL
-----------------------------------------------------------------------------
(***************************************************************************)
(* Attempts at one task at once have a cause each.  Attempts at one        *)
(* message do not overlap, so that each has a message of its own; and the  *)
(* taskers send no more of those than ingests and retried calls.           *)
(***************************************************************************)
LEMMA OneMessageEach ==
  ASSUME Typed, Handed, NoOverlap, NEW t \in Task
  PROVE  /\ Cardinality(AtWork(t)) \in Nat
         /\ Cardinality(Sent(t)) \in Nat
         /\ Cardinality(AtWork(t)) <= Cardinality(Sent(t))
<1> DEFINE f == [r \in AtWork(t) |-> message[r]]
<1>1. IsFiniteSet(Sent(t))
  BY FS_Subset DEF Sent
<1>2. ASSUME NEW r \in AtWork(t) PROVE message[r] \in Sent(t)
  <2>1. message[r] \in Message
    BY DEF AtWork, At, Typed, TypeOK, QueueTypeOK, AttemptsOK, AttemptOK
  <2> QED BY <2>1 DEF AtWork, Sent, Handed, TaskAt
<1>3. f \in Injection(AtWork(t), Sent(t))
  BY <1>2 DEF Injection, IsInjective, NoOverlap, AtWork
<1>4. IsFiniteSet(AtWork(t)) /\ Cardinality(AtWork(t)) <= Cardinality(Sent(t))
  <2> HIDE DEF f
  <2> QED BY <1>1, <1>3, FS_Injection
<1> QED BY <1>1, <1>4, FS_CardinalityType

\* On any number of hosts and taskers, no more goroutines process a task at once
\* than its resource was ingested and a tasker's call was retried.
THEOREM OverlapsHaveCauses ==
  ASSUME ~EarlyRedelivery, "sqs" \notin Disruptions
  PROVE  PipelineSpec => []OverlapHasCause
<1>1. TP!Spec => []TP!DuplicatesNeedFaults
  BY TaskerAssumed, TP!DuplicatesAreBounded
<1>2. Spec => []NoOverlap
  BY AttemptsDoNotOverlap
<1>3. Typed /\ Handed /\ TP!Typed /\ NoOverlap /\ TP!DuplicatesNeedFaults
        => OverlapHasCause
  <2> SUFFICES ASSUME Typed, Handed, TP!Typed, NoOverlap,
                      TP!DuplicatesNeedFaults, NEW t \in Task
               PROVE  Cardinality(AtWork(t)) <= ingested[t] + faults
    BY DEF OverlapHasCause
  <2>1. /\ Cardinality(AtWork(t)) \in Nat /\ sent[t] \in Nat
        /\ Cardinality(AtWork(t)) <= sent[t]
    BY OneMessageEach DEF sent
  <2>2. Cardinality(TP!Holders(t)) \in Nat
    <3>1. IsFiniteSet(TP!Holders(t))
      BY SameFinite, FS_Subset DEF TP!Holders, T!TaskerAssumption
    <3> QED BY <3>1, FS_CardinalityType
  <2>3. /\ sent[t] + (IF t \in resources THEN 1 ELSE 0)
                   + Cardinality(TP!Holders(t)) <= ingested[t] + faults
        /\ ingested[t] \in Nat /\ faults \in Nat
    BY SameCardinality DEF TP!DuplicatesNeedFaults, TP!Typed, TP!TypeOK
  <2> QED BY <2>1, <2>2, <2>3
<1> QED BY <1>1, <1>2, <1>3, WorkersWork, TaskersWork, PipelineTyped, PTL
-----------------------------------------------------------------------------
(***************************************************************************)
(* The pipeline implements Delivery: each of its steps is one of Delivery  *)
(* or leaves what Delivery sees alone.                                     *)
(***************************************************************************)

\* What Delivery sees of the taskers, and of the workers.
Ahead == <<submitted, pending, unrecorded, lossy>>
Behind == <<queued, answered>>

\* Control of tasker k, in the words of the pipeline.
LEMMA Slices ==
  ASSUME TP!Typed, NEW k \in Tasker
  PROVE  /\ sources \in [Tasker -> SUBSET Task]
         /\ sources[k] \subseteq Task
         /\ taskerPC \in [Tasker -> TP!PC]
         /\ source \in [Tasker -> Task \cup {NoResource}]
         /\ taskerPC[k] \in {"idle", "down"} => sources[k] = {}
         /\ taskerPC[k] \in {"enqueue", "record"} =>
              source[k] \in sources[k] \cap Job
  BY DEF TP!Typed, TP!TypeOK, TP!Control, TP!Slice, Job

\* A step of tasker k concerns no job but those it holds or that are in the set.
LEMMA KeepsPending ==
  ASSUME NEW k \in Tasker,
         \A l \in Tasker \ {k} :
           /\ taskerPC'[l] = taskerPC[l] /\ sources'[l] = sources[l]
           /\ source'[l] = source[l],
         \A j \in Job :
           (j \in resources' \/ T!Holds(k, j)')
             <=> (j \in resources \/ T!Holds(k, j))
  PROVE  pending' = pending
<1>1. \A l \in Tasker \ {k}, j \in Job : T!Holds(l, j)' <=> T!Holds(l, j)
  BY DEF T!Holds
<1> QED BY <1>1 DEF pending

LEMMA KeepsUnrecorded ==
  ASSUME NEW k \in Tasker,
         \A l \in Tasker \ {k} :
           taskerPC'[l] = taskerPC[l] /\ source'[l] = source[l],
         taskerPC[k] # "record", taskerPC'[k] # "record"
  PROVE  unrecorded' = unrecorded
  BY DEF unrecorded

\* What workers do not touch, Delivery sees unchanged.
LEMMA KeepsBehind == UNCHANGED vars => UNCHANGED Behind
  BY DEF vars, queueVars, workerVars, routineVars, Behind, queued, answered,
         Accounts, Failing

LEMMA IngestRefines ==
  ASSUME TP!Typed, NEW i \in Task, Ingest(i)
  PROVE  [D!Next]_(D!vars)
<1>1. /\ UNCHANGED <<taskerPC, sources, source>>
      /\ ingested' = [ingested EXCEPT ![i] = @ + 1]
      /\ resources' = resources \cup {i}
  BY DEF Ingest, T!Ingest
<1>2. ingested \in [Task -> Nat]
  BY DEF TP!Typed, TP!TypeOK
<1>3. UNCHANGED <<unrecorded, lossy, queued, answered>>
  BY <1>1, KeepsBehind DEF Ingest, T!Ingest, T!failures, Behind, unrecorded,
                           lossy
<1>4. CASE i \in Job
  <2>1. submitted' = submitted \cup {i}
    BY <1>1, <1>2, <1>4 DEF submitted, Job
  <2>2. pending' = pending \cup {i}
    BY <1>1, <1>4 DEF pending, T!Holds
  <2>3. D!Submit(i)
    BY <1>3, <2>1, <2>2 DEF D!Submit
  <2> QED BY <1>4, <2>3 DEF D!Next
<1>5. CASE i \notin Job
  <2>1. submitted' = submitted
    BY <1>1, <1>2, <1>5 DEF submitted, Job
  <2>2. pending' = pending
    BY <1>1, <1>5 DEF pending, T!Holds
  <2> QED BY <1>3, <2>1, <2>2 DEF D!vars
<1> QED BY <1>4, <1>5

\* Enqueue succeeds only by sending.
LEMMA StillSends ==
  ASSUME TP!Typed, NEW k \in Tasker, UNCHANGED vars, T!Enqueue(k)
  PROVE  FALSE
<1>1. source[k] \in Task
  BY Slices DEF T!Enqueue
<1>2. sent \in [Task -> Nat]
  BY DEF TP!Typed, TP!TypeOK
<1>3. sent' = [sent EXCEPT ![source[k]] = @ + 1]
  BY DEF T!Enqueue, T!Send
<1>4. sent' = sent
  BY DEF sent, Sent, vars, queueVars
<1> QED BY <1>1, <1>2, <1>3, <1>4

\* A tasker sends m: with success, or told that it failed.
LEMMA SendRefines ==
  ASSUME Typed, Handed, TP!Typed, NEW k \in Tasker,
         NEW m \in Message, TaskOf[m] = source[k], Arrive(m),
         T!Enqueue(k) \/ T!EnqueueFails(k)
  PROVE  D!Next
<1> DEFINE j == source[k]
<1>1. taskerPC[k] = "enqueue" /\ j \in sources[k] /\ j \in Job
  BY Slices DEF T!Enqueue, T!EnqueueFails
<1>2. UNCHANGED <<resources, ingested, sources>>
  BY DEF T!Enqueue, T!EnqueueFails, T!Fail
<1>3. submitted' = submitted /\ lossy' = lossy
  BY <1>2 DEF submitted, lossy, T!Enqueue, T!EnqueueFails, T!Fails, T!failures
<1>4. j \in pending
  BY <1>1 DEF pending, T!Holds
<1>5. queue[m] = "unsent" /\ queue' = [queue EXCEPT ![m] = "visible"]
  BY DEF Arrive, Enqueue
<1>6. m \notin queued \cup answered
  BY <1>5 DEF queued, answered, Handed, QueueAssumption
<1>7. queued' = queued \cup {m}
  BY <1>5 DEF queued, Typed, TypeOK, QueueTypeOK
<1>8. answered' = answered
  BY DEF Arrive, Enqueue, workerVars, routineVars, answered, Accounts, Failing
<1>9. CASE T!EnqueueFails(k)
  <2>1. /\ taskerPC' = [taskerPC EXCEPT ![k] = "requeue"]
        /\ source' = [source EXCEPT ![k] = NoResource]
    BY <1>9 DEF T!EnqueueFails, T!Fail
  <2>2. unrecorded' = unrecorded
    BY <1>1, <2>1, Slices, KeepsUnrecorded
  <2>3. pending' = pending
    BY <1>1, <1>2, <2>1, Slices, KeepsPending DEF T!Holds
  <2>4. D!Send(m)
    BY <1>3, <1>4, <1>6, <1>7, <1>8, <2>2, <2>3 DEF D!Send
  <2> QED BY <2>4 DEF D!Next
<1>10. CASE T!Enqueue(k)
  <2>1. taskerPC' = [taskerPC EXCEPT ![k] = "record"] /\ source' = source
    BY <1>10 DEF T!Enqueue
  <2>2. unrecorded' = unrecorded \cup {j}
    BY <1>1, <2>1, Slices DEF unrecorded
  <2>3. \A l \in Tasker, i \in Job \ {j} : T!Holds(l, i)' <=> T!Holds(l, i)
    BY <1>1, <1>2, <2>1, Slices DEF T!Holds
  <2>4. \A i \in Job \ {j} : i \in pending' <=> i \in pending
    BY <1>2, <2>3 DEF pending
  <2>5. pending' \in {pending, pending \ {j}}
    <3>1. pending \subseteq Job /\ pending' \subseteq Job
      BY DEF pending, Job
    <3>2. CASE j \in pending'
      <4>1. pending' = pending
        BY <1>4, <2>4, <3>1, <3>2
      <4> QED BY <4>1
    <3>3. CASE j \notin pending'
      <4>1. pending' = pending \ {j}
        BY <2>4, <3>1, <3>3
      <4> QED BY <4>1
    <3> QED BY <3>2, <3>3
  <2>6. D!Send(m)
    BY <1>3, <1>4, <1>6, <1>7, <1>8, <2>2, <2>5 DEF D!Send
  <2> QED BY <2>6 DEF D!Next
<1> QED BY <1>9, <1>10

\* The steps of a tasker that neither send nor record.
LEMMA AsideRefines ==
  ASSUME TP!Typed, NEW k \in Tasker, UNCHANGED vars,
         \/ T!Poll(k) \/ T!Create(k) \/ T!Return(k) \/ T!Requeue(k)
         \/ T!EnqueueFails(k) \/ T!Stop(k) \/ T!Start(k)
  PROVE  UNCHANGED D!vars
<1> USE Slices DEF T!stores, T!failures
<1>1. \A l \in Tasker \ {k} :
        /\ taskerPC'[l] = taskerPC[l] /\ sources'[l] = sources[l]
        /\ source'[l] = source[l]
  BY DEF T!Poll, T!Create, T!Return, T!Requeue, T!EnqueueFails, T!Fail,
         T!Stop, T!Start
<1>2. taskerPC[k] # "record" /\ taskerPC'[k] # "record"
  BY DEF T!Poll, T!Create, T!Return, T!Requeue, T!EnqueueFails, T!Fail,
         T!Stop, T!Start
<1>3. ingested' = ingested
  BY DEF T!Poll, T!Create, T!Return, T!Requeue, T!EnqueueFails, T!Fail,
         T!Stop, T!Start
<1>4. ASSUME NEW j \in Job
      PROVE  (j \in resources' \/ T!Holds(k, j)')
               <=> (j \in resources \/ T!Holds(k, j))
  <2>1. CASE T!Poll(k)
    BY <2>1 DEF T!Poll, T!Batch, T!Holds, Job
  <2>2. CASE T!Create(k)
    BY <2>2 DEF T!Create, T!Holds, Job
  <2>3. CASE T!Requeue(k)
    BY <2>3 DEF T!Requeue, T!Holds
  <2>4. CASE \/ T!Return(k) \/ T!EnqueueFails(k) \/ T!Stop(k) \/ T!Start(k)
    BY <2>4 DEF T!Return, T!EnqueueFails, T!Fail, T!Stop, T!Start, T!Holds
  <2> QED BY <2>1, <2>2, <2>3, <2>4
<1>5. pending' = pending
  BY <1>1, <1>4, KeepsPending
<1>6. unrecorded' = unrecorded
  BY <1>1, <1>2, KeepsUnrecorded
<1>7. submitted' = submitted
  BY <1>3 DEF submitted
<1>8. lossy' = lossy
  BY DEF lossy, T!Poll, T!Create, T!Return, T!Requeue, T!EnqueueFails,
         T!Fails, T!Stop, T!Start
<1> QED BY <1>8, <1>5, <1>6, <1>7, KeepsBehind DEF D!vars, Behind

\* A tasker records a send, or fails to and will try the job again.
LEMMA RecordRefines ==
  ASSUME TP!Typed, NEW k \in Tasker, UNCHANGED vars,
         T!Record(k) \/ T!RecordFails(k)
  PROVE  [D!Next]_(D!vars)
<1> DEFINE j == source[k]
<1>1. taskerPC[k] = "record" /\ j \in sources[k] /\ j \in Job
  BY Slices DEF T!Record, T!RecordFails
<1>2. UNCHANGED <<resources, ingested>>
  BY DEF T!Record, T!RecordFails, T!Fail
<1>3. submitted' = submitted /\ lossy' = lossy
  BY <1>2 DEF submitted, lossy, T!Record, T!RecordFails, T!Fails, T!failures
<1>4. UNCHANGED <<queued, answered>>
  BY KeepsBehind DEF Behind
<1>5. taskerPC'[k] # "record"
  BY Slices DEF T!Record, T!RecordFails, T!Fail
<1>6. \A l \in Tasker \ {k} :
        /\ taskerPC'[l] = taskerPC[l] /\ sources'[l] = sources[l]
        /\ source'[l] = source[l]
  BY Slices DEF T!Record, T!RecordFails, T!Fail
<1>7. j \in unrecorded
  BY <1>1 DEF unrecorded
<1>8. unrecorded' \in {unrecorded, unrecorded \ {j}}
  <2>1. \A i \in Job \ {j} : i \in unrecorded' <=> i \in unrecorded
    BY <1>1, <1>5, <1>6 DEF unrecorded
  <2>2. unrecorded \subseteq Job /\ unrecorded' \subseteq Job
    BY DEF unrecorded, Job
  <2>3. CASE j \in unrecorded'
    <3>1. unrecorded' = unrecorded
      BY <1>7, <2>1, <2>2, <2>3
    <3> QED BY <3>1
  <2>4. CASE j \notin unrecorded'
    <3>1. unrecorded' = unrecorded \ {j}
      BY <2>1, <2>2, <2>4
    <3> QED BY <3>1
  <2> QED BY <2>3, <2>4
<1>9. CASE T!Record(k)
  <2>1. \A i \in Job : T!Holds(k, i)' <=> T!Holds(k, i)
    BY <1>1, <1>9, Slices DEF T!Record, T!Holds
  <2>2. pending' = pending
    BY <1>2, <1>6, <2>1, KeepsPending
  <2>3. CASE unrecorded' = unrecorded
    BY <1>3, <1>4, <2>2, <2>3 DEF D!vars
  <2>4. CASE unrecorded' = unrecorded \ {j}
    <3>1. D!Record(j)
      BY <1>3, <1>4, <1>7, <2>2, <2>4 DEF D!Record
    <3> QED BY <1>1, <3>1 DEF D!Next
  <2> QED BY <1>8, <2>3, <2>4
<1>10. CASE T!RecordFails(k)
  <2>1. sources' = sources /\ taskerPC'[k] = "requeue"
    BY <1>10, Slices DEF T!RecordFails, T!Fail
  <2>2. \A i \in Job : T!Holds(k, i)' <=> i \in sources[k]
    BY <2>1 DEF T!Holds
  <2>3. \A i \in Job : T!Holds(k, i) <=> i \in sources[k] \ {j}
    BY <1>1 DEF T!Holds
  <2>4. \A l \in Tasker \ {k}, i \in Job : T!Holds(l, i)' <=> T!Holds(l, i)
    BY <1>6 DEF T!Holds
  <2>5. pending' = pending \cup {j}
    BY <1>1, <1>2, <2>2, <2>3, <2>4 DEF pending
  <2>6. D!Retry(j)
    BY <1>3, <1>4, <1>7, <1>8, <2>5 DEF D!Retry
  <2> QED BY <1>1, <2>6 DEF D!Next
<1> QED BY <1>9, <1>10

\* The resource set fails, or a tasker dies.
LEMMA LossRefines ==
  ASSUME TP!Typed, NEW k \in Tasker, UNCHANGED vars,
         T!PollFails(k) \/ T!RequeueFails(k) \/ T!Crash(k)
  PROVE  D!Next
<1> USE Slices DEF T!stores
<1>1. \A l \in Tasker \ {k} :
        /\ taskerPC'[l] = taskerPC[l] /\ sources'[l] = sources[l]
        /\ source'[l] = source[l]
  BY DEF T!PollFails, T!RequeueFails, T!Crash
<1>2. submitted' = submitted
  BY DEF T!PollFails, T!RequeueFails, T!Crash, submitted
<1>3. lossy' = TRUE
  BY DEF T!PollFails, T!RequeueFails, T!Crash, T!Loses, lossy, TP!Typed,
         TP!TypeOK
<1>4. taskerPC[k] = "record" \/ taskerPC'[k] # "record"
  BY DEF T!PollFails, T!RequeueFails, T!Crash
<1>5. unrecorded' \subseteq unrecorded
  <2>1. taskerPC'[k] # "record" \/ UNCHANGED <<taskerPC, source>>
    BY DEF T!PollFails, T!RequeueFails, T!Crash
  <2> QED BY <1>1, <2>1 DEF unrecorded
<1>6. pending' \subseteq pending
  <2>1. \A l \in Tasker \ {k}, j \in Job : T!Holds(l, j)' <=> T!Holds(l, j)
    BY <1>1 DEF T!Holds
  <2>2. ASSUME NEW j \in Job, j \in resources' \/ T!Holds(k, j)'
        PROVE  j \in resources \/ T!Holds(k, j)
    <3>1. CASE T!PollFails(k)
      BY <2>2, <3>1 DEF T!PollFails, T!Holds
    <3>2. CASE T!RequeueFails(k)
      BY <2>2, <3>2 DEF T!RequeueFails, T!Holds
    <3>3. CASE T!Crash(k)
      BY <2>2, <3>3 DEF T!Crash, T!Holds
    <3> QED BY <3>1, <3>2, <3>3
  <2> QED BY <2>1, <2>2 DEF pending
<1>7. D!Lose
  BY <1>2, <1>3, <1>5, <1>6, KeepsBehind DEF D!Lose, Behind
<1> QED BY <1>7 DEF D!Next

\* What the workers, their timers and SQS do with a message is an answer to it,
\* its leaving, or nothing that Delivery sees.
LEMMA ProcessingRefines ==
  ASSUME Typed, Handed, NoSilentLoss, Processing
  PROVE  [D!Next]_(D!vars)
<1>1. UNCHANGED Ahead
  BY DEF Processing, taskerVars, Ahead, submitted, pending, unrecorded,
         lossy, T!Holds
<1>2. Cluster /\ Next
  BY DEF Processing, Next
<1>3. answered \subseteq answered'
  <2> SUFFICES ASSUME NEW m \in Message, NEW r \in Receipt, message[r] = m,
                      Accounts(r)
               PROVE  m \in answered'
    BY DEF answered
  <2>1. message[r] # NoMessage
    BY DEF QueueAssumption
  <2> QED BY <1>2, <2>1, AccountsPersist DEF answered
<1>4. answered \subseteq Message /\ answered' \subseteq Message
  BY DEF answered
<1>5. \A m \in Message : queue[m] \in {"unsent", "visible", "inflight", "gone"}
  BY DEF Typed, TypeOK, QueueTypeOK, QueueState
<1>6. CASE Quiet
  <2>1. queued' = queued
    BY <1>5, <1>6 DEF Quiet, queued
  <2>2. answered' \subseteq answered
    <3> SUFFICES ASSUME NEW m \in Message, NEW r \in Receipt, message'[r] = m,
                        Accounts(r)'
                 PROVE  m \in answered
      BY DEF answered
    <3>1. Accounts(r)
      BY <1>6 DEF Quiet, QueueAssumption
    <3>2. message[r] # NoMessage
      BY <3>1 DEF Accounts, Failing, Typed, AttemptsOK, AttemptOK
    <3>3. message[r] = m
      BY <1>6, <3>2 DEF Quiet
    <3> QED BY <3>1, <3>3 DEF answered
  <2> QED BY <1>1, <1>3, <2>1, <2>2 DEF D!vars, Ahead
<1>7. ASSUME NEW r \in Receipt, Attends(r)
      PROVE  [D!Next]_(D!vars)
  <2> DEFINE m == message[r]
  <2>1. m \in Message /\ queue[m] # "unsent"
    BY <1>7 DEF Attends, Handed, QueueAssumption
  <2>2. answered' \subseteq answered \cup {m}
    <3> SUFFICES ASSUME NEW n \in Message, NEW q \in Receipt, message'[q] = n,
                        Accounts(q)', n # m
                 PROVE  n \in answered
      BY DEF answered
    <3> QED BY <1>7 DEF Attends, answered
  <2>3. \A n \in Message \ {m} : n \in queued' <=> n \in queued
    BY <1>7 DEF Attends, queued
  <2>4. queued \subseteq Message /\ queued' \subseteq Message
    BY DEF queued
  <2>5. queue'[m] \in {queue[m], "gone"}
    BY <1>7 DEF Attends
  <2>6. CASE m \notin queued
    <3>1. queue[m] = "gone" /\ queue'[m] = "gone"
      BY <1>5, <2>1, <2>5, <2>6 DEF queued
    <3>2. m \in answered
      BY <2>1, <3>1 DEF NoSilentLoss, answered
    <3>3. answered' = answered
      BY <1>3, <2>2, <3>2
    <3>4. m \notin queued'
      BY <3>1 DEF queued
    <3>5. queued' = queued
      BY <2>3, <2>4, <2>6, <3>4
    <3> QED BY <1>1, <3>3, <3>5 DEF D!vars, Ahead
  <2>7. CASE m \in queued
    <3>1. queued' \in {queued, queued \ {m}}
      <4>1. CASE m \in queued'
        <5>1. queued' = queued
          BY <2>3, <2>4, <2>7, <4>1
        <5> QED BY <5>1
      <4>2. CASE m \notin queued'
        <5>1. queued' = queued \ {m}
          BY <2>3, <2>4, <4>2
        <5> QED BY <5>1
      <4> QED BY <4>1, <4>2
    <3>2. CASE m \in answered'
      <4>1. answered' = answered \cup {m}
        BY <1>3, <2>2, <3>2
      <4>2. D!Answer(m)
        BY <1>1, <2>7, <3>1, <4>1 DEF D!Answer, Ahead
      <4> QED BY <2>1, <4>2 DEF D!Next
    <3>3. CASE m \notin answered'
      <4>1. answered' = answered
        BY <1>3, <2>2, <3>3
      <4>2. queue'[m] # "gone"
        BY <1>2, <1>5, <2>1, <2>7, <3>3, GoneIsAccounted DEF queued, answered
      <4>3. queued' = queued
        BY <2>5, <2>7, <3>1, <4>2 DEF queued
      <4> QED BY <1>1, <4>1, <4>3 DEF D!vars, Ahead
    <3> QED BY <3>2, <3>3
  <2> QED BY <2>6, <2>7
<1> QED BY <1>2, <1>6, <1>7, StepKinds

\* The taskers, the stores and the workers together implement Delivery, whatever
\* fails and whoever dies.
THEOREM PipelineImplementsDelivery == PipelineSpec => ImplementsDelivery
<1>1. PipelineInit => D!Init
  <2> SUFFICES ASSUME PipelineInit PROVE D!Init
    OBVIOUS
  <2>1. submitted = {} /\ pending = {} /\ unrecorded = {} /\ lossy = FALSE
    BY DEF PipelineInit, T!Init, submitted, pending, unrecorded, T!Holds, Job,
           lossy
  <2>2. queued = {} /\ answered = {}
    BY DEF PipelineInit, Init, QueueInit, queued, answered, QueueAssumption
  <2> QED BY <2>1, <2>2 DEF D!Init
<1>2. /\ Typed /\ Handed /\ TP!Typed /\ NoSilentLoss
      /\ [PipelineNext]_pipelineVars
      => [D!Next]_(D!vars)
  <2> SUFFICES ASSUME Typed, Handed, TP!Typed, NoSilentLoss,
                      [PipelineNext]_pipelineVars
               PROVE  [D!Next]_(D!vars)
    OBVIOUS
  <2>1. CASE UNCHANGED pipelineVars
    <3>1. UNCHANGED Behind
      BY <2>1, KeepsBehind DEF pipelineVars
    <3> QED BY <2>1, <3>1 DEF pipelineVars, taskerVars, Behind, D!vars,
                              submitted, pending, unrecorded, lossy, T!Holds
  <2>2. ASSUME NEW i \in Task, Ingest(i) PROVE [D!Next]_(D!vars)
    BY <2>2, IngestRefines
  <2>3. ASSUME NEW k \in Tasker, Work(k) PROVE [D!Next]_(D!vars)
    <3>1. ~(UNCHANGED vars /\ T!Enqueue(k))
      BY StillSends
    <3> QED BY <2>3, <3>1, SendRefines, AsideRefines, RecordRefines
            DEF Work, Sends, T!Work
  <2>4. ASSUME NEW k \in Tasker, Trouble(k) PROVE [D!Next]_(D!vars)
    BY <2>4, SendRefines, AsideRefines, RecordRefines, LossRefines
       DEF Trouble, Sends, T!Trouble
  <2>5. ASSUME NEW k \in Tasker, Turn(k) PROVE [D!Next]_(D!vars)
    BY <2>5, AsideRefines DEF Turn
  <2>6. CASE Processing
    BY <2>6, ProcessingRefines
  <2> QED BY <2>1, <2>2, <2>3, <2>4, <2>5, <2>6 DEF PipelineNext
<1> QED BY <1>1, <1>2, PipelineTyped, PipelineLosesNothing, PTL
        DEF PipelineSpec, ImplementsDelivery, D!Spec

\* DeliveryProofs speaks of the same abstraction as module Delivery.
LEMMA SameDelivery == D!Spec => DP!Spec
<1>1. D!Init => DP!Init
  BY DEF D!Init, DP!Init
<1>2. [D!Next]_(D!vars) => [DP!Next]_(DP!vars)
  BY DEF D!Next, DP!Next, D!vars, DP!vars, D!Submit, D!Record, D!Retry,
         D!Send, D!Answer, D!Leave, D!Lose, DP!Submit, DP!Record, DP!Retry,
         DP!Send, DP!Answer, DP!Leave, DP!Lose
<1> QED BY <1>1, <1>2, PTL DEF D!Spec, DP!Spec

\* So whoever ingests a resource can rely on what Delivery promises until the
\* resource set fails or a tasker dies: the job is pending in the set or a slice,
\* or one of its messages is in the queue or was answered.
THEOREM PipelineKeepsJobs == PipelineSpec => []D!NoJobLost
<1>1. TaskOf \in [Message -> Job]
  BY PipelineAssumption
<1>2. DP!Spec => []DP!NoJobLost
  BY <1>1, DP!JobsAreKept
<1>3. DP!NoJobLost => D!NoJobLost
  BY DEF D!NoJobLost, DP!NoJobLost
<1> QED BY <1>2, <1>3, PipelineImplementsDelivery, SameDelivery, PTL
        DEF ImplementsDelivery

\* And the workers are never given a task whose resource nobody ingested.
THEOREM PipelineSendsOnlyIngested == PipelineSpec => []D!NothingUnasked
<1>1. TaskOf \in [Message -> Job]
  BY PipelineAssumption
<1>2. DP!Spec => []DP!NothingUnasked
  BY <1>1, DP!OnlySubmittedIsSent
<1>3. DP!NothingUnasked => D!NothingUnasked
  BY DEF D!NothingUnasked, DP!NothingUnasked
<1> QED BY <1>2, <1>3, PipelineImplementsDelivery, SameDelivery, PTL
        DEF ImplementsDelivery
=============================================================================
