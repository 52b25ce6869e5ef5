------------------------------ MODULE TaskQueue ------------------------------
(***************************************************************************)
(* The task queue that connects chyme's tasker and workers: sqsTaskQueue   *)
(* of internal/core/task.go over the SqsQueue of pkg/aws/sqs.go, and the   *)
(* Amazon SQS service behind it (external: modelled from how sqs.go calls  *)
(* it and from the contract of a standard queue).                          *)
(*                                                                         *)
(* A message is one SendMessage of the tasker.  Every time it is received, *)
(* SQS returns a fresh receipt handle; a receipt therefore names one       *)
(* delivery, and the finite set Receipt bounds the number of deliveries.   *)
(***************************************************************************)
CONSTANTS Message,    \* messages that may be sent to the main queue
          Receipt,    \* receipt handles SQS may return (bound: deliveries)
          NoMessage,  \* message of a receipt that was not handed out
          NoReceipt   \* latest receipt of a message never received

ASSUME QueueAssumption == NoMessage \notin Message /\ NoReceipt \notin Receipt

VARIABLES queue,    \* where SQS has each message of the main queue
          latest,   \* the receipt of the message's most recent delivery
          message,  \* the message each receipt was returned for
          dlq       \* receipts whose task was sent to the dead letter queue

queueVars == <<queue, latest, message, dlq>>

QueueState == {"unsent", "visible", "inflight", "gone"}

QueueTypeOK ==
  /\ queue \in [Message -> QueueState]
  /\ latest \in [Message -> Receipt \cup {NoReceipt}]
  /\ message \in [Receipt -> Message \cup {NoMessage}]
  /\ dlq \subseteq Receipt

QueueInit ==
  /\ queue = [m \in Message |-> "unsent"]
  /\ latest = [m \in Message |-> NoReceipt]
  /\ message = [r \in Receipt |-> NoMessage]
  /\ dlq = {}

\* SendMessage on the main queue.
Enqueue(m) ==
  /\ queue[m] = "unsent"
  /\ queue' = [queue EXCEPT ![m] = "visible"]
  /\ UNCHANGED <<latest, message, dlq>>

\* ReceiveMessage hands out visible message m under the fresh receipt r.
Dequeue(m, r) ==
  /\ queue[m] = "visible"
  /\ message[r] = NoMessage
  /\ queue' = [queue EXCEPT ![m] = "inflight"]
  /\ latest' = [latest EXCEPT ![m] = r]
  /\ message' = [message EXCEPT ![r] = m]
  /\ UNCHANGED dlq

\* DeleteMessage with receipt r.  SQS promises to remove the message only for
\* its most recent receipt; for an older one it answers OK and may do nothing.
DeleteMessage(r) ==
  LET m == message[r] IN
    /\ \/ queue' = [queue EXCEPT ![m] = "gone"]
       \/ latest[m] # r /\ queue' = queue
    /\ UNCHANGED <<latest, message, dlq>>

\* EnqueueWithAttrs on the dead letter queue: the task of r with its error.
EnqueueDead(r) ==
  /\ dlq' = dlq \cup {r}
  /\ UNCHANGED <<queue, latest, message>>

\* The visibility timeout of an in-flight message runs out.
ExpireVisibility(m) ==
  /\ queue[m] = "inflight"
  /\ queue' = [queue EXCEPT ![m] = "visible"]
  /\ UNCHANGED <<latest, message, dlq>>
=============================================================================
