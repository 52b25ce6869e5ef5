------------------------------ MODULE Pipeline ------------------------------
(***************************************************************************)
(* The taskers of module Tasker and the worker cluster of module Worker on *)
(* one task queue: what a tasker sends is what a worker receives.  A task  *)
(* is named by the resource it was made of, so that Worker's tasks are     *)
(* Tasker's resources.  The composition is shown to implement Delivery.    *)
(***************************************************************************)
EXTENDS Worker, Naturals, FiniteSets

CONSTANTS Tasker,      \* as in module Tasker
          Templated,
          Malformed,
          NoResource,
          BatchSize,
          Repeated,
          MaxIngests,
          MaxFaults,
          Faults

VARIABLES resources,   \* as in module Tasker
          taskSet,
          ingested,
          faults,
          losses,
          taskerPC,    \* its pc
          sources,
          source

taskerVars ==
  <<resources, taskSet, ingested, faults, losses, taskerPC, sources, source>>
pipelineVars == <<taskerVars, vars>>

\* The resources a template makes a task of; the messages sent for each.
Job == Templated \ Malformed
Sent(j) == {m \in Message : TaskOf[m] = j /\ queue[m] # "unsent"}
sent == [j \in Task |-> Cardinality(Sent(j))]

T == INSTANCE Tasker WITH Resource <- Task, pc <- taskerPC

ASSUME PipelineAssumption ==
  /\ T!TaskerAssumption
  /\ IsFiniteSet(Message)
  /\ TaskOf \in [Message -> Job]

PipelineInit == Init /\ T!Init
-----------------------------------------------------------------------------
\* SendMessage puts a message for the tasker's source on the queue; no worker
\* takes part in it.
Sends(k) == \E m \in Message : TaskOf[m] = source[k] /\ Arrive(m)

Ingest(j) == UNCHANGED vars /\ T!Ingest(j)

\* What a tasker does either sends a message or leaves the queue alone.
Work(k) ==
  \/ Sends(k) /\ T!Enqueue(k)
  \/ UNCHANGED vars /\ T!Work(k)

\* A send that failed may have taken place.
Trouble(k) ==
  \/ Sends(k) /\ T!EnqueueFails(k)
  \/ UNCHANGED vars /\ T!Trouble(k)

Turn(k) == UNCHANGED vars /\ (T!Stop(k) \/ T!Start(k))

\* The workers do not concern the taskers.
Processing == Cluster /\ UNCHANGED taskerVars

PipelineNext ==
  \/ \E j \in Task : Ingest(j)
  \/ \E k \in Tasker : Work(k) \/ Trouble(k) \/ Turn(k)
  \/ Processing

PipelineSpec == PipelineInit /\ [][PipelineNext]_pipelineVars

\* Fairness: that of the parts.
LivePipeline ==
  PipelineSpec /\ Fairness /\ \A k \in Tasker : WF_pipelineVars(Work(k))
-----------------------------------------------------------------------------
(***************************************************************************)
(* The abstraction: what the stores and the processes say of each job.     *)
(***************************************************************************)
submitted == {j \in Job : ingested[j] > 0}

pending ==
  {j \in Job : j \in resources \/ \E k \in Tasker : T!Holds(k, j)}

unrecorded ==
  {j \in Job : \E k \in Tasker : taskerPC[k] = "record" /\ source[k] = j}

lossy == losses > 0

queued == {m \in Message : queue[m] \in {"visible", "inflight"}}

answered ==
  {m \in Message : \E r \in Receipt : message[r] = m /\ Accounts(r)}

D == INSTANCE Delivery WITH JobOf <- TaskOf
-----------------------------------------------------------------------------
(***************************************************************************)
(* Properties.                                                             *)
(***************************************************************************)

\* The taskers and the workers over SQS and Redis implement Delivery, whatever
\* fails: retries, redeliveries, stale receipts, signals and crashes included.
\* Only a failure of the resource set or the death of a tasker loses a job.
ImplementsDelivery == D!Spec

AtWork(t) == {r \in Receipt : At(r, "process") /\ TaskAt(r) = t}

\* While the queue answers and keeps its visibility timeout, no more attempts at
\* a task run at once than its resource was ingested or a call of the taskers was
\* retried: what Pop takes out of the set, and the timer takes off the queue, no
\* two goroutines of any hosts work on.
OverlapHasCause ==
  \A t \in Task : Cardinality(AtWork(t)) <= ingested[t] + faults

\* Every ingest of a job ends in an answer of its own: once some tasker and some
\* host stay up, a message is sent that was not sent before, and some attempt
\* at it is answered (or the bound on deliveries is reached).
EveryIngestIsAnswered ==
  \A k \in Tasker, h \in Host :
    <>[](taskerPC[k] # "down" /\ main[h] # "down") =>
      \A j \in Job : \A S \in SUBSET Message :
        (j \in resources /\ Sent(j) = S) ~>
          \/ \E m \in Message \ S : m \in answered /\ TaskOf[m] = j
          \/ losses > 0
          \/ Exhausted
=============================================================================
