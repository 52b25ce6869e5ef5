--------------------------- MODULE DeliveryProofs ---------------------------
(***************************************************************************)
(* Proofs about module Delivery: what at-least-once delivery means for the *)
(* one who submits a job.                                                  *)
(***************************************************************************)
EXTENDS Delivery, TLAPS

\* What is submitted are jobs, and what is pending or unrecorded was submitted.
THEOREM TypeCorrect ==
  ASSUME JobOf \in [Message -> Job]
  PROVE  Spec => []TypeOK
<1>1. Init => TypeOK
  BY DEF Init, TypeOK
<1>2. TypeOK /\ [Next]_vars => TypeOK'
  BY DEF TypeOK, vars, Next, Submit, Send, Record, Retry, Answer, Leave,
         Lose
<1> QED BY <1>1, <1>2, PTL DEF Spec

\* A job that was submitted is pending, or one of its messages is in the queue
\* or answered: a send leaves its message behind, and no message leaves the
\* queue without an answer.
THEOREM JobsAreKept ==
  ASSUME JobOf \in [Message -> Job]
  PROVE  Spec => []NoJobLost
<1>1. Init => NoJobLost
  BY DEF Init, NoJobLost
<1>2. TypeOK /\ NoJobLost /\ [Next]_vars => NoJobLost'
  <2> SUFFICES ASSUME TypeOK, NoJobLost, [Next]_vars, ~lossy',
                      NEW j \in submitted', j \notin pending'
               PROVE  \E m \in queued' \cup answered' : JobOf[m] = j
    BY DEF NoJobLost
  <2> DEFINE Goal == \E m \in queued' \cup answered' : JobOf[m] = j
  <2>1. ASSUME NEW i \in Job, Submit(i) \/ Record(i) \/ Retry(i)
        PROVE  Goal
    BY <2>1 DEF NoJobLost, Submit, Record, Retry
  <2>2. ASSUME NEW n \in Message, Send(n)
        PROVE  Goal
    BY <2>2 DEF NoJobLost, Send
  <2>3. ASSUME NEW n \in Message, Answer(n) \/ Leave(n)
        PROVE  Goal
    BY <2>3 DEF NoJobLost, Answer, Leave
  <2>4. CASE UNCHANGED vars
    BY <2>4 DEF NoJobLost, vars
  <2>5. ~Lose
    BY DEF Lose
  <2> QED BY <2>1, <2>2, <2>3, <2>4, <2>5 DEF Next
<1> QED BY <1>1, <1>2, TypeCorrect, PTL DEF Spec

\* A message is only ever sent for a job that was submitted.
THEOREM OnlySubmittedIsSent ==
  ASSUME JobOf \in [Message -> Job]
  PROVE  Spec => []NothingUnasked
<1>1. Init => NothingUnasked
  BY DEF Init, NothingUnasked
<1>2. TypeOK /\ NothingUnasked /\ [Next]_vars => NothingUnasked'
  BY DEF TypeOK, NothingUnasked, vars, Next, Submit, Send, Record, Retry,
         Answer, Leave, Lose
<1> QED BY <1>1, <1>2, TypeCorrect, PTL DEF Spec
=============================================================================
