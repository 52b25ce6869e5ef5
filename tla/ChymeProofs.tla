---------------------------- MODULE ChymeProofs ----------------------------
(***************************************************************************)
(* Proofs about module Chyme: what the indexer answers, the pipeline keeps.*)
(* The request behaves as module Indexer says and everything behind it as  *)
(* module Pipeline says, so that what is proved of each holds of the whole;*)
(* between the two, what the request has inserted and what was ingested    *)
(* agree, which is the invariant that is proved here.                      *)
(***************************************************************************)
EXTENDS Chyme, PipelineProofs

IP == INSTANCE IndexerProofs

USE ChymeAssumption

\* IndexerProofs speaks of the same requests as module Indexer.
LEMMA IndexerAssumed == IP!IndexerAssumption /\ IP!ReachableAssumption
  BY DEF I!IndexerAssumption, I!ReachableAssumption, I!SubPrefixes, I!Failure,
         IP!IndexerAssumption, IP!ReachableAssumption, IP!SubPrefixes,
         IP!Failure

LEMMA SameWalk ==
  /\ I!Lister <=> IP!Lister
  /\ I!RedisCli <=> IP!RedisCli
  /\ I!CliDies <=> IP!CliDies
<1> USE DEF I!request, IP!request
<1>1. I!Lister <=> IP!Lister
  BY DEF I!Lister, IP!Lister, I!List, IP!List, I!ListNothing, IP!ListNothing,
         I!ListFails, IP!ListFails, I!Visit, IP!Visit, I!TooDeep, IP!TooDeep,
         I!ForeignToken, IP!ForeignToken, I!SubPrefixes, IP!SubPrefixes,
         I!Truncated, IP!Truncated
<1>2. I!RedisCli <=> IP!RedisCli
  BY DEF I!RedisCli, IP!RedisCli, I!CliEnds, IP!CliEnds, I!Apply, IP!Apply
<1>3. I!CliDies <=> IP!CliDies
  BY DEF I!CliDies, IP!CliDies
<1> QED BY <1>1, <1>2, <1>3

LEMMA SameNext == I!Next <=> IP!Next
<1>1. I!Handler <=> IP!Handler
  BY DEF I!Handler, IP!Handler, I!Refuse, IP!Refuse, I!IngestOne,
         IP!IngestOne, I!IngestPrefix, IP!IngestPrefix, I!Recursive,
         IP!Recursive, I!Listed, IP!Listed, I!Count, IP!Count, I!request,
         IP!request
<1> QED BY <1>1, SameWalk DEF I!Next, IP!Next

LEMMA SameMeaning ==
  /\ I!Asked = IP!Asked
  /\ I!Sound <=> IP!Sound
<1> USE DEF I!TooDeep, IP!TooDeep
<1>1. I!Asked = IP!Asked
  BY DEF I!Asked, IP!Asked, I!Wanted, IP!Wanted
<1>2. I!Sound <=> IP!Sound
  BY DEF I!Sound, IP!Sound, I!Complete, IP!Complete, I!Truncated, IP!Truncated
<1> QED BY <1>1, <1>2
-----------------------------------------------------------------------------
(***************************************************************************)
(* The parts.                                                              *)
(***************************************************************************)

\* In front of the taskers a request behaves as module Indexer says.
THEOREM RequestsIndex == ChymeSpec => IP!Spec
<1>1. ChymeInit => IP!Init
  BY DEF ChymeInit, I!Init, IP!Init
<1>2. [ChymeNext]_chymeVars => [IP!Next]_(IP!vars)
  BY SameNext DEF ChymeNext, Request, OtherRequest, Working, chymeVars,
                  requestVars, IP!vars, IP!request
<1> QED BY <1>1, <1>2, PTL DEF ChymeSpec, IP!Spec

LEMMA RequestInv == ChymeSpec => []IP!IInv
<1>1. IP!Spec => []IP!IInv
  BY IndexerAssumed, IP!AlwaysInv
<1> QED BY <1>1, RequestsIndex, PTL

\* Behind the requests taskers and workers behave as module Pipeline says.
THEOREM RequestsFeed == ChymeSpec => PipelineSpec
<1>1. ChymeInit => PipelineInit
  BY DEF ChymeInit
<1>2. IP!IInv' /\ [ChymeNext]_chymeVars => [PipelineNext]_pipelineVars
  <2> SUFFICES ASSUME IP!IInv', [ChymeNext]_chymeVars
               PROVE  [PipelineNext]_pipelineVars
    OBVIOUS
  <2>1. CASE Request
    <3>1. inserted' \subseteq Task
      BY DEF IP!IInv, IP!TypeOK
    <3> QED BY <2>1, <3>1 DEF Request, PipelineNext
  <2>2. CASE OtherRequest
    BY <2>2 DEF OtherRequest, PipelineNext
  <2>3. CASE Working
    BY <2>3 DEF Working, PipelineNext
  <2>4. CASE UNCHANGED chymeVars
    BY <2>4 DEF chymeVars
  <2> QED BY <2>1, <2>2, <2>3, <2>4 DEF ChymeNext
<1> QED BY <1>1, <1>2, RequestInv, PTL DEF ChymeSpec, PipelineSpec

\* The whole keeps both promises: of Ingestion to the client, and of Delivery for
\* what the client has ingested.
THEOREM ChymeKeepsItsPromises ==
  ChymeSpec => IP!ImplementsIngestion /\ ImplementsDelivery
BY IndexerAssumed, RequestsIndex, IP!RequestImplementsIngestion, RequestsFeed,
   PipelineImplementsDelivery, PTL
-----------------------------------------------------------------------------
(***************************************************************************)
(* The seam: what the request has inserted was ingested, and what was      *)
(* ingested was inserted by it or by others.                               *)
(***************************************************************************)
Agrees ==
  \A r \in Task :
    /\ r \in inserted => ingested[r] > 0
    /\ ingested[r] > 0 => r \in inserted \cup Others

\* A request adds one resource at a time.
LEMMA InsertsOne ==
  ASSUME IP!IInv, IP!Next, NEW r \in inserted' \ inserted
  PROVE  inserted' = inserted \cup {r}
<1>1. CASE IP!Handler
  BY <1>1 DEF IP!IInv, IP!Control, IP!Handler, IP!Refuse, IP!IngestOne,
              IP!IngestPrefix, IP!Listed, IP!Count
<1>2. CASE IP!Lister
  BY <1>2 DEF IP!Lister, IP!List, IP!ListNothing, IP!ListFails, IP!Visit
<1>3. CASE IP!RedisCli \/ IP!CliDies
  BY <1>3 DEF IP!RedisCli, IP!CliEnds, IP!Apply, IP!CliDies
<1> QED BY <1>1, <1>2, <1>3 DEF IP!Next

\* Taskers and workers ingest nothing.
LEMMA WorkingIngestsNothing == Working => UNCHANGED <<inserted, ingested>>
<1>1. ASSUME NEW k \in Tasker, Work(k) \/ Trouble(k) \/ Turn(k)
      PROVE  ingested' = ingested
  <2> USE DEF T!stores, T!failures
  <2>1. CASE Work(k)
    BY <2>1 DEF Work, T!Work, T!Poll, T!Create, T!Return, T!Enqueue, T!Record,
                T!Requeue
  <2>2. CASE Trouble(k)
    BY <2>2 DEF Trouble, T!Trouble, T!PollFails, T!EnqueueFails, T!RecordFails,
                T!RequeueFails, T!Crash, T!Fail
  <2>3. CASE Turn(k)
    BY <2>3 DEF Turn, T!Stop, T!Start
  <2> QED BY <1>1, <2>1, <2>2, <2>3
<1> QED BY <1>1 DEF Working, requestVars, Processing, taskerVars

LEMMA AgreesStep ==
  ASSUME IP!IInv, TP!Typed, Agrees, [ChymeNext]_chymeVars
  PROVE  Agrees'
<1>1. ingested \in [Task -> Nat]
  BY DEF TP!Typed, TP!TypeOK
<1>2. ASSUME NEW r \in Task, Ingest(r),
             inserted' = inserted \cup {r} \/ (r \in Others /\ inserted' = inserted)
      PROVE  Agrees'
  <2>1. ingested' = [ingested EXCEPT ![r] = @ + 1]
    BY <1>2 DEF Ingest, T!Ingest
  <2> QED BY <1>1, <1>2, <2>1 DEF Agrees
<1>3. CASE UNCHANGED <<inserted, ingested>>
  BY <1>3 DEF Agrees
<1>4. CASE Request
  <2>1. CASE inserted' = inserted /\ UNCHANGED pipelineVars
    BY <1>3, <2>1 DEF pipelineVars, taskerVars
  <2>2. ASSUME NEW r \in inserted' \ inserted, Ingest(r) PROVE Agrees'
    <3>1. inserted' = inserted \cup {r}
      BY <1>4, SameNext, InsertsOne DEF Request
    <3>2. r \in Task
      <4>1. inserted' \subseteq Task
        BY <1>4, SameNext, IndexerAssumed, IP!TypeStep
           DEF Request, IP!IInv, IP!TypeOK
      <4> QED BY <4>1
    <3> QED BY <1>2, <2>2, <3>1, <3>2
  <2> QED BY <1>4, <2>1, <2>2 DEF Request
<1>5. CASE OtherRequest
  BY <1>2, <1>5 DEF OtherRequest, requestVars
<1>6. CASE Working
  BY <1>3, <1>6, WorkingIngestsNothing
<1>7. CASE UNCHANGED chymeVars
  BY <1>3, <1>7 DEF chymeVars, requestVars, pipelineVars, taskerVars
<1> QED BY <1>4, <1>5, <1>6, <1>7 DEF ChymeNext

LEMMA AlwaysAgrees == ChymeSpec => []Agrees
<1>1. ChymeInit => Agrees
  BY DEF ChymeInit, I!Init, PipelineInit, T!Init, Agrees
<1>2. IP!IInv /\ TP!Typed /\ Agrees /\ [ChymeNext]_chymeVars => Agrees'
  BY AgreesStep
<1> QED BY <1>1, <1>2, RequestInv, RequestsFeed, PipelineTyped, PTL
        DEF ChymeSpec
-----------------------------------------------------------------------------
\* An answer without an error to any request, over any bucket, is kept: each job
\* that it selected is pending, on the queue or answered by an attempt, for any
\* number of taskers and hosts and whatever fails among them, until the resource
\* set fails under a tasker or a tasker dies.
THEOREM AnswersAreKept == ChymeSpec => []OkIsKept
<1>1. IP!OkMeansIndexed /\ Agrees /\ D!NoJobLost /\ TP!Typed => OkIsKept
  <2> SUFFICES ASSUME IP!OkMeansIndexed, Agrees, D!NoJobLost, phase = "ok",
                      I!Sound, losses = 0, NEW j \in I!Asked \cap Job
               PROVE  j \in pending \/ Reached(j)
    BY DEF OkIsKept
  <2>1. j \in inserted
    BY SameMeaning DEF IP!OkMeansIndexed
  <2>2. j \in submitted
    BY <2>1, PipelineAssumption DEF Agrees, submitted, Job, T!TaskerAssumption
  <2>3. ~lossy
    BY DEF lossy
  <2> QED BY <2>2, <2>3 DEF D!NoJobLost, Reached
<1>2. IP!Spec => []IP!OkMeansIndexed
  BY IndexerAssumed, IP!OkIsIndexed
<1> QED BY <1>1, <1>2, RequestsIndex, RequestsFeed, AlwaysAgrees,
           PipelineKeepsJobs, PipelineTyped, PTL

\* No worker is ever given a task for a resource that the request's filter
\* rejects or that lies below its depth, unless other requests added it.
THEOREM OnlySelectedIsWorkedOn == ChymeSpec => []OnlySelectedIsSent
<1>1. IP!OnlyWanted /\ Agrees /\ D!NothingUnasked => OnlySelectedIsSent
  <2> SUFFICES ASSUME IP!OnlyWanted, Agrees, D!NothingUnasked,
                      NEW m \in queued \cup answered
               PROVE  TaskOf[m] \in Others \cup I!Asked
    BY DEF OnlySelectedIsSent
  <2>1. TaskOf[m] \in submitted
    BY DEF D!NothingUnasked
  <2>2. TaskOf[m] \in inserted \cup Others
    BY <2>1, PipelineAssumption DEF Agrees, submitted, Job, T!TaskerAssumption
  <2> QED BY <2>2, SameMeaning DEF IP!OnlyWanted
<1>2. IP!Spec => []IP!OnlyWanted
  BY IndexerAssumed, IP!OnlySelectedIsWritten
<1> QED BY <1>1, <1>2, RequestsIndex, RequestsFeed, AlwaysAgrees,
           PipelineSendsOnlyIngested, PTL
=============================================================================
