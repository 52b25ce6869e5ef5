------------------------------ MODULE Delivery ------------------------------
(***************************************************************************)
(* What chyme promises to whoever ingests a resource, without its taskers, *)
(* its workers or the stores between them: at-least-once delivery.  A job  *)
(* that was submitted stays pending until a message for it is sent; it may *)
(* become pending again before that send is recorded; and a message leaves *)
(* the queue only when an attempt at it has been answered: by an output, a *)
(* dead letter, a failure or a timeout.  Nothing remembers a pending job   *)
(* but the resource set and the tasker that took it: either may lose some, *)
(* and from then on the promise is void.                                   *)
(***************************************************************************)
CONSTANTS Job,      \* resources a template can make tasks of
          Message,  \* messages that may be sent
          JobOf     \* the job of each message

VARIABLES submitted,   \* jobs that were ever submitted
          pending,     \* jobs that a message must still be sent for
          unrecorded,  \* jobs sent, the send not yet recorded
          lossy,       \* the promise is void
          queued,      \* messages in the queue
          answered     \* messages some attempt has answered

vars == <<submitted, pending, unrecorded, lossy, queued, answered>>

TypeOK ==
  /\ submitted \subseteq Job
  /\ pending \subseteq submitted
  /\ unrecorded \subseteq submitted
  /\ lossy \in BOOLEAN
  /\ queued \subseteq Message
  /\ answered \subseteq Message

Init ==
  /\ submitted = {} /\ pending = {} /\ unrecorded = {} /\ lossy = FALSE
  /\ queued = {} /\ answered = {}

Submit(j) ==
  /\ submitted' = submitted \cup {j}
  /\ pending' = pending \cup {j}
  /\ UNCHANGED <<unrecorded, lossy, queued, answered>>

\* A message is sent for a pending job, which need not be pending any more
\* unless the sender was told that the send had failed.
Send(m) ==
  LET j == JobOf[m] IN
    /\ j \in pending
    /\ m \notin queued \cup answered
    /\ queued' = queued \cup {m}
    /\ \/ UNCHANGED <<pending, unrecorded>>
       \/ /\ pending' \in {pending, pending \ {j}}
          /\ unrecorded' = unrecorded \cup {j}
    /\ UNCHANGED <<submitted, lossy, answered>>

\* The sends for j are recorded.
Record(j) ==
  /\ j \in unrecorded
  /\ unrecorded' = unrecorded \ {j}
  /\ UNCHANGED <<submitted, pending, lossy, queued, answered>>

\* One could not be recorded, and the job is tried again.
Retry(j) ==
  /\ j \in unrecorded
  /\ unrecorded' \in {unrecorded, unrecorded \ {j}}
  /\ pending' = pending \cup {j}
  /\ UNCHANGED <<submitted, lossy, queued, answered>>

\* A popped batch is forgotten, and with it what its tasker had not recorded.
Lose ==
  /\ lossy' = TRUE
  /\ pending' \in SUBSET pending
  /\ unrecorded' \in SUBSET unrecorded
  /\ UNCHANGED <<submitted, queued, answered>>

\* An attempt at a queued message is answered; it may leave the queue at once.
Answer(m) ==
  /\ m \in queued
  /\ answered' = answered \cup {m}
  /\ queued' \in {queued, queued \ {m}}
  /\ UNCHANGED <<submitted, pending, unrecorded, lossy>>

Leave(m) ==
  /\ m \in queued \cap answered
  /\ queued' = queued \ {m}
  /\ UNCHANGED <<submitted, pending, unrecorded, lossy, answered>>

Next ==
  \/ \E j \in Job : Submit(j) \/ Record(j) \/ Retry(j)
  \/ \E m \in Message : Send(m) \/ Answer(m) \/ Leave(m)
  \/ Lose

Spec == Init /\ [][Next]_vars
-----------------------------------------------------------------------------
\* A submitted job is never forgotten: it is pending, or a message for it is in
\* the queue or answered.
NoJobLost ==
  ~lossy =>
    \A j \in submitted :
      j \in pending \/ \E m \in queued \cup answered : JobOf[m] = j

\* And no job is made up: each message is for a job that was submitted.
NothingUnasked == \A m \in queued \cup answered : JobOf[m] \in submitted
=============================================================================
