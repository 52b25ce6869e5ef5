---------------------------- MODULE WorkerProofs ----------------------------
(***************************************************************************)
(* Proofs about module Worker, for every number of hosts, messages, tasks  *)
(* and receipts.                                                           *)
(***************************************************************************)
EXTENDS Worker, TLAPS

USE QueueAssumption, WorkerAssumption

(***************************************************************************)
(* Where an attempt is and what it has established: the part every         *)
(* invariant below rests on.                                               *)
(***************************************************************************)
AttemptOK(r) ==
  /\ message[r] = NoMessage =>
       pc[r] = "idle" /\ stage[r] = "start" /\ r \notin dlq
  /\ r \in live => /\ message[r] \in Message /\ host[r] \in Host
                   /\ pc[r] \notin {"idle", "done"}
  /\ pc[r] \in {"idle", "begin"} => timer[r] = "off" /\ ~deleted[r]
  /\ pc[r] = "clean" /\ ~failed[r] => stage[r] = "complete"
  /\ pc[r] = "delete" => stage[r] = "complete"
  /\ pc[r] \in {"failDelete", "failSend"} => failed[r]

AttemptsOK == \A r \in Receipt : AttemptOK(r)

Typed == TypeOK /\ AttemptsOK

-----------------------------------------------------------------------------
\* A stage that falls through to the next keeps what the attempts have
\* established (Process's switch).
LEMMA AdvanceTyped ==
  ASSUME Typed, NEW r \in Receipt, NEW s \in ProcessStage, At(r, "process"),
         Advance(r, s)
  PROVE  Typed'
  BY DEF Typed, TypeOK, QueueTypeOK, AttemptsOK, AttemptOK, Advance, At,
         queueVars, hostVars

\* So does the return of Process, provided that it cleans up without an error
\* only after the last stage.
LEMMA EndsTyped ==
  ASSUME Typed, NEW r \in Receipt, NEW s \in ProcessStage,
         NEW p \in {"clean", "persist"}, NEW f \in BOOLEAN,
         p = "clean" /\ ~f => s = "complete",
         At(r, "process"), Ends(r, s, p, f)
  PROVE  Typed'
<1>1. TypeOK'
  BY DEF Typed, TypeOK, QueueTypeOK, PC, Ends, Goto, queueVars, hostVars
<1>2. ASSUME NEW q \in Receipt PROVE AttemptOK(q)'
  BY DEF Typed, TypeOK, QueueTypeOK, AttemptsOK, AttemptOK, Ends, Goto, At,
         queueVars, hostVars
<1> QED BY <1>1, <1>2 DEF Typed, AttemptsOK

LEMMA StagesTyped ==
  ASSUME Typed, NEW r \in Receipt,
         CreateWorkspace(r) \/ Download(r) \/ Execute(r) \/ Upload(r)
  PROVE  Typed'
<1>1. CASE CreateWorkspace(r)
  BY <1>1, AdvanceTyped, EndsTyped
     DEF CreateWorkspace, Errs, AtStage, ProcessStage
<1>2. CASE Download(r)
  BY <1>2, AdvanceTyped, EndsTyped
     DEF Download, Errs, IsCtxCanceled, AtStage, ProcessStage
<1>3. CASE Execute(r)
  BY <1>3, AdvanceTyped, EndsTyped
     DEF Execute, Errs, IsCtxCanceled, AtStage, ProcessStage
<1>4. CASE Upload(r)
  BY <1>4, EndsTyped DEF Upload, Errs, IsCtxCanceled, AtStage, ProcessStage
<1> QED BY <1>1, <1>2, <1>3, <1>4

\* Every other step keeps the types and what the attempts have established.
LEMMA TypedStep == Typed /\ [Next]_vars => Typed'
<1> SUFFICES ASSUME Typed, [Next]_vars PROVE Typed'
  OBVIOUS
<1> USE DEF queueVars, workerVars, hostVars, routineVars
<1>1. ASSUME NEW h \in Host, Exit(h)
      PROVE  Typed'
  <2>1. TypeOK'
    BY <1>1 DEF Typed, TypeOK, QueueTypeOK, AttemptsOK, AttemptOK, Exit, Kill
  <2>2. AttemptsOK'
    BY <1>1 DEF Typed, TypeOK, QueueTypeOK, AttemptsOK, AttemptOK, Exit, Kill
  <2> QED BY <2>1, <2>2 DEF Typed
<1>2. ASSUME NEW h \in Host, Restart(h)
      PROVE  Typed'
  <2>1. TypeOK'
    BY <1>2 DEF Typed, TypeOK, QueueTypeOK, AttemptsOK, AttemptOK, Restart
  <2>2. AttemptsOK'
    BY <1>2 DEF Typed, TypeOK, QueueTypeOK, AttemptsOK, AttemptOK, Restart
  <2> QED BY <2>1, <2>2 DEF Typed
<1>3. ASSUME NEW h \in Host, StartPoll(h)
      PROVE  Typed'
  <2>1. TypeOK'
    BY <1>3 DEF Typed, TypeOK, QueueTypeOK, AttemptsOK, AttemptOK, StartPoll
  <2>2. AttemptsOK'
    BY <1>3 DEF Typed, TypeOK, QueueTypeOK, AttemptsOK, AttemptOK, StartPoll
  <2> QED BY <2>1, <2>2 DEF Typed
<1>4. ASSUME NEW h \in Host, PollEmpty(h)
      PROVE  Typed'
  <2>1. TypeOK'
    BY <1>4 DEF Typed, TypeOK, QueueTypeOK, AttemptsOK, AttemptOK, PollEmpty
  <2>2. AttemptsOK'
    BY <1>4 DEF Typed, TypeOK, QueueTypeOK, AttemptsOK, AttemptOK, PollEmpty
  <2> QED BY <2>1, <2>2 DEF Typed
<1>5. ASSUME NEW h \in Host, Signal(h)
      PROVE  Typed'
  <2>1. TypeOK'
    BY <1>5 DEF Typed, TypeOK, QueueTypeOK, AttemptsOK, AttemptOK, Signal
  <2>2. AttemptsOK'
    BY <1>5 DEF Typed, TypeOK, QueueTypeOK, AttemptsOK, AttemptOK, Signal
  <2> QED BY <2>1, <2>2 DEF Typed
<1>6. ASSUME NEW h \in Host, Crash(h)
      PROVE  Typed'
  <2>1. TypeOK'
    BY <1>6 DEF Typed, TypeOK, QueueTypeOK, AttemptsOK, AttemptOK, Crash,
      Kill
  <2>2. AttemptsOK'
    BY <1>6 DEF Typed, TypeOK, QueueTypeOK, AttemptsOK, AttemptOK, Crash,
      Kill
  <2> QED BY <2>1, <2>2 DEF Typed
<1>7. ASSUME NEW h \in Host, NEW m \in Message,
              NEW r \in Receipt, Poll(h, m, r)
      PROVE  Typed'
  <2>1. TypeOK'
    BY <1>7 DEF Typed, TypeOK, QueueTypeOK, AttemptsOK, AttemptOK,
      QueueState, PC, Poll, Dequeue
  <2>2. AttemptsOK'
    BY <1>7 DEF Typed, TypeOK, QueueTypeOK, AttemptsOK, AttemptOK, Poll,
      Dequeue
  <2> QED BY <2>1, <2>2 DEF Typed
<1>8. ASSUME NEW h \in Host, NEW m \in Message,
              NEW r \in Receipt, PollDrops(h, m, r)
      PROVE  Typed'
  <2>1. TypeOK'
    BY <1>8 DEF Typed, TypeOK, QueueTypeOK, AttemptsOK, AttemptOK,
      QueueState, PollDrops, Dequeue
  <2>2. AttemptsOK'
    BY <1>8 DEF Typed, TypeOK, QueueTypeOK, AttemptsOK, AttemptOK, PollDrops,
      Dequeue
  <2> QED BY <2>1, <2>2 DEF Typed
<1>9. ASSUME NEW r \in Receipt, Begin(r)
      PROVE  Typed'
  <2>1. TypeOK'
    <3>1. /\ pc' \in [Receipt -> PC]
          /\ failed' \in [Receipt -> BOOLEAN]
      BY <1>9 DEF Typed, TypeOK, PC, Begin, Goto
    <3>2. timer' \in [Receipt -> {"off", "armed", "firing", "fired"}]
      BY <1>9 DEF Typed, TypeOK, Begin
    <3> QED BY <1>9, <3>1, <3>2 DEF Typed, TypeOK, QueueTypeOK, Begin
  <2>2. AttemptsOK'
    BY <1>9 DEF Typed, TypeOK, QueueTypeOK, AttemptsOK, AttemptOK, Begin, At,
      Goto
  <2> QED BY <2>1, <2>2 DEF Typed
<1>10. ASSUME NEW r \in Receipt, ExecutePanics(r)
      PROVE  Typed'
  <2>1. TypeOK'
    BY <1>10 DEF Typed, TypeOK, QueueTypeOK, AttemptsOK, AttemptOK, PC,
      ExecutePanics, Kill, AtStage, At
  <2>2. AttemptsOK'
    BY <1>10 DEF Typed, TypeOK, QueueTypeOK, AttemptsOK, AttemptOK,
      ExecutePanics, Kill, AtStage, At
  <2> QED BY <2>1, <2>2 DEF Typed
<1>11. ASSUME NEW r \in Receipt, Persist(r)
      PROVE  Typed'
  <2>1. TypeOK'
    BY <1>11 DEF Typed, TypeOK, QueueTypeOK, AttemptsOK, AttemptOK, PC,
      Persist, At, Goto, TaskAt
  <2>2. AttemptsOK'
    BY <1>11 DEF Typed, TypeOK, QueueTypeOK, AttemptsOK, AttemptOK, Persist,
      At, Goto, TaskAt
  <2> QED BY <2>1, <2>2 DEF Typed
<1>12. ASSUME NEW r \in Receipt, Clean(r)
      PROVE  Typed'
  <2>1. TypeOK'
    BY <1>12 DEF Typed, TypeOK, QueueTypeOK, AttemptsOK, AttemptOK, PC,
      Clean, At, Goto, TaskAt
  <2>2. AttemptsOK'
    BY <1>12 DEF Typed, TypeOK, QueueTypeOK, AttemptsOK, AttemptOK, Clean,
      At, Goto, TaskAt
  <2> QED BY <2>1, <2>2 DEF Typed
<1>13. ASSUME NEW r \in Receipt, FailDelete(r)
      PROVE  Typed'
  <2>1. TypeOK'
    BY <1>13 DEF Typed, TypeOK, QueueTypeOK, AttemptsOK, AttemptOK,
      QueueState, PC, FailDelete, At, Moves, Goto, CallFails, DeleteMessage
  <2>2. AttemptsOK'
    BY <1>13 DEF Typed, TypeOK, QueueTypeOK, AttemptsOK, AttemptOK,
      FailDelete, At, Moves, Goto, CallFails, DeleteMessage
  <2> QED BY <2>1, <2>2 DEF Typed
<1>14. ASSUME NEW r \in Receipt, FailSend(r)
      PROVE  Typed'
  <2>1. TypeOK'
    BY <1>14 DEF Typed, TypeOK, QueueTypeOK, AttemptsOK, AttemptOK,
      QueueState, PC, FailSend, At, Moves, Goto, CallFails, EnqueueDead
  <2>2. AttemptsOK'
    BY <1>14 DEF Typed, TypeOK, QueueTypeOK, AttemptsOK, AttemptOK, FailSend,
      At, Moves, Goto, CallFails, EnqueueDead
  <2> QED BY <2>1, <2>2 DEF Typed
<1>15. ASSUME NEW r \in Receipt, Delete(r)
      PROVE  Typed'
  <2>1. TypeOK'
    <3>1. QueueTypeOK'
      BY <1>15 DEF Typed, TypeOK, QueueTypeOK, QueueState, Delete, DeleteOnce,
        DeleteFails, CallFails, DeleteMessage
    <3>2. /\ pc' \in [Receipt -> PC]
          /\ deleted' \in [Receipt -> BOOLEAN]
      BY <1>15 DEF Typed, TypeOK, PC, Delete, Goto, DeleteOnce, DeleteFails
    <3> QED BY <1>15, <3>1, <3>2 DEF Typed, TypeOK, Delete
  <2>2. AttemptsOK'
    BY <1>15 DEF Typed, TypeOK, QueueTypeOK, AttemptsOK, AttemptOK, Delete,
      At, Goto, DeleteOnce, DeleteFails, CallFails, DeleteMessage
  <2> QED BY <2>1, <2>2 DEF Typed
<1>16. ASSUME NEW r \in Receipt, Report(r)
      PROVE  Typed'
  <2>1. TypeOK'
    BY <1>16 DEF Typed, TypeOK, QueueTypeOK, AttemptsOK, AttemptOK, PC,
      Report, At, Goto
  <2>2. AttemptsOK'
    BY <1>16 DEF Typed, TypeOK, QueueTypeOK, AttemptsOK, AttemptOK, Report,
      At, Goto
  <2> QED BY <2>1, <2>2 DEF Typed
<1>17. ASSUME NEW r \in Receipt, Clear(r)
      PROVE  Typed'
  <2>1. TypeOK'
    BY <1>17 DEF Typed, TypeOK, QueueTypeOK, AttemptsOK, AttemptOK, PC,
      Clear, At, Goto, TaskAt
  <2>2. AttemptsOK'
    BY <1>17 DEF Typed, TypeOK, QueueTypeOK, AttemptsOK, AttemptOK, Clear,
      At, Goto, TaskAt
  <2> QED BY <2>1, <2>2 DEF Typed
<1>18. ASSUME NEW r \in Receipt, Elapse(r)
      PROVE  Typed'
  <2>1. TypeOK'
    BY <1>18 DEF Typed, TypeOK, QueueTypeOK, AttemptsOK, AttemptOK, Elapse
  <2>2. AttemptsOK'
    BY <1>18 DEF Typed, TypeOK, QueueTypeOK, AttemptsOK, AttemptOK, Elapse
  <2> QED BY <2>1, <2>2 DEF Typed
<1>19. ASSUME NEW r \in Receipt, TimerFires(r)
      PROVE  Typed'
  <2>1. TypeOK'
    BY <1>19 DEF Typed, TypeOK, QueueTypeOK, AttemptsOK, AttemptOK,
      TimerFires
  <2>2. AttemptsOK'
    BY <1>19 DEF Typed, TypeOK, QueueTypeOK, AttemptsOK, AttemptOK,
      TimerFires
  <2> QED BY <2>1, <2>2 DEF Typed
<1>20. ASSUME NEW r \in Receipt, TimerDeletes(r)
      PROVE  Typed'
  <2>1. TypeOK'
    BY <1>20 DEF Typed, TypeOK, QueueTypeOK, AttemptsOK, AttemptOK,
      QueueState, TimerDeletes, DeleteOnce, DeleteFails, CallFails,
      DeleteMessage
  <2>2. AttemptsOK'
    BY <1>20 DEF Typed, TypeOK, QueueTypeOK, AttemptsOK, AttemptOK,
      TimerDeletes, DeleteOnce, DeleteFails, CallFails, DeleteMessage
  <2> QED BY <2>1, <2>2 DEF Typed
<1>21. ASSUME NEW m \in Message, Arrive(m)
      PROVE  Typed'
  <2>1. TypeOK'
    BY <1>21 DEF Typed, TypeOK, QueueTypeOK, AttemptsOK, AttemptOK,
      QueueState, Arrive, Enqueue
  <2>2. AttemptsOK'
    BY <1>21 DEF Typed, TypeOK, QueueTypeOK, AttemptsOK, AttemptOK, Arrive,
      Enqueue
  <2> QED BY <2>1, <2>2 DEF Typed
<1>22. ASSUME NEW m \in Message, Expire(m)
      PROVE  Typed'
  <2>1. TypeOK'
    BY <1>22 DEF Typed, TypeOK, QueueTypeOK, AttemptsOK, AttemptOK,
      QueueState, Expire, ExpireVisibility
  <2>2. AttemptsOK'
    BY <1>22 DEF Typed, TypeOK, QueueTypeOK, AttemptsOK, AttemptOK, Expire,
      ExpireVisibility
  <2> QED BY <2>1, <2>2 DEF Typed
<1>23. CASE UNCHANGED vars
  BY <1>23 DEF Typed, TypeOK, QueueTypeOK, AttemptsOK, AttemptOK, vars
<1> QED BY <1>1, <1>2, <1>3, <1>4, <1>5, <1>6, <1>7, <1>8, <1>9, <1>10,
           <1>11, <1>12, <1>13, <1>14, <1>15, <1>16, <1>17, <1>18, <1>19,
           <1>20, <1>21, <1>22, <1>23, StagesTyped
    DEF Next, Cluster, MainLoop, Goroutine, Clock

\* The variables of TaskQueue, of cmd/worker.go and of the goroutines keep the
\* values TypeOK gives them, and each attempt what it has established.
THEOREM AlwaysTyped == Spec => []Typed
<1>1. Init => Typed
  BY DEF Init, QueueInit, Typed, TypeOK, QueueTypeOK, QueueState, AttemptsOK,
         AttemptOK, PC, ProcessStage
<1> QED BY <1>1, TypedStep, PTL DEF Spec

\* Type correctness of the worker cluster.
THEOREM TypeCorrect == Spec => []TypeOK
<1>1. Typed => TypeOK
  BY DEF Typed
<1> QED BY <1>1, AlwaysTyped, PTL
-----------------------------------------------------------------------------
(***************************************************************************)
(* No message is lost silently.                                            *)
(***************************************************************************)

\* An attempt that accounts for its message goes on accounting for it.
LEMMA AccountsPersist ==
  ASSUME Typed, Next, NEW q \in Receipt, message[q] # NoMessage, Accounts(q)
  PROVE  message'[q] = message[q] /\ Accounts(q)'
<1> DEFINE Goal == message'[q] = message[q] /\ Accounts(q)'
<1> USE DEF queueVars, workerVars, hostVars, routineVars
<1>1. ASSUME NEW h \in Host, Exit(h)
      PROVE  Goal
  BY <1>1 DEF Exit, Kill, Accounts, Failing, Typed, TypeOK, QueueTypeOK,
    AttemptsOK, AttemptOK
<1>2. ASSUME NEW h \in Host, Restart(h)
      PROVE  Goal
  BY <1>2 DEF Restart, Accounts, Failing, Typed, TypeOK, QueueTypeOK,
    AttemptsOK, AttemptOK
<1>3. ASSUME NEW h \in Host, StartPoll(h)
      PROVE  Goal
  BY <1>3 DEF StartPoll, Accounts, Failing, Typed, TypeOK, QueueTypeOK,
    AttemptsOK, AttemptOK
<1>4. ASSUME NEW h \in Host, PollEmpty(h)
      PROVE  Goal
  BY <1>4 DEF PollEmpty, Accounts, Failing, Typed, TypeOK, QueueTypeOK,
    AttemptsOK, AttemptOK
<1>5. ASSUME NEW h \in Host, Signal(h)
      PROVE  Goal
  BY <1>5 DEF Signal, Accounts, Failing, Typed, TypeOK, QueueTypeOK,
    AttemptsOK, AttemptOK
<1>6. ASSUME NEW h \in Host, Crash(h)
      PROVE  Goal
  BY <1>6 DEF Crash, Kill, Accounts, Failing, Typed, TypeOK, QueueTypeOK,
    AttemptsOK, AttemptOK
<1>7. ASSUME NEW h \in Host, NEW m \in Message,
              NEW r \in Receipt, Poll(h, m, r)
      PROVE  Goal
  BY <1>7 DEF Poll, Dequeue, Accounts, Failing, Typed, TypeOK, QueueTypeOK,
    AttemptsOK, AttemptOK
<1>8. ASSUME NEW h \in Host, NEW m \in Message,
              NEW r \in Receipt, PollDrops(h, m, r)
      PROVE  Goal
  BY <1>8 DEF PollDrops, Dequeue, Accounts, Failing, Typed, TypeOK,
    QueueTypeOK, AttemptsOK, AttemptOK
<1>9. ASSUME NEW r \in Receipt, Begin(r)
      PROVE  Goal
  BY <1>9 DEF Begin, At, Goto, Accounts, Failing, Typed, TypeOK, QueueTypeOK,
    AttemptsOK, AttemptOK
<1>10. ASSUME NEW r \in Receipt, CreateWorkspace(r)
      PROVE  Goal
  BY <1>10 DEF CreateWorkspace, AtStage, At, Advance, Errs, Ends, Goto,
    Accounts, Failing, Typed, TypeOK, QueueTypeOK, AttemptsOK, AttemptOK
<1>11. ASSUME NEW r \in Receipt, Download(r)
      PROVE  Goal
  BY <1>11 DEF Download, AtStage, At, Advance, Errs, IsCtxCanceled, Ends,
    Goto, Accounts, Failing, Typed, TypeOK, QueueTypeOK, AttemptsOK,
    AttemptOK
<1>12. ASSUME NEW r \in Receipt, Execute(r)
      PROVE  Goal
  BY <1>12 DEF Execute, AtStage, At, Advance, Errs, IsCtxCanceled, Ends,
    Goto, Accounts, Failing, Typed, TypeOK, QueueTypeOK, AttemptsOK,
    AttemptOK
<1>13. ASSUME NEW r \in Receipt, Upload(r)
      PROVE  Goal
  BY <1>13 DEF Upload, AtStage, At, Errs, IsCtxCanceled, Ends, Goto,
    Accounts, Failing, Typed, TypeOK, QueueTypeOK, AttemptsOK, AttemptOK
<1>14. ASSUME NEW r \in Receipt, ExecutePanics(r)
      PROVE  Goal
  BY <1>14 DEF ExecutePanics, Kill, AtStage, At, Accounts, Failing, Typed,
    TypeOK, QueueTypeOK, AttemptsOK, AttemptOK
<1>15. ASSUME NEW r \in Receipt, Persist(r)
      PROVE  Goal
  BY <1>15 DEF Persist, At, Goto, TaskAt, Accounts, Failing, Typed, TypeOK,
    QueueTypeOK, AttemptsOK, AttemptOK
<1>16. ASSUME NEW r \in Receipt, Clean(r)
      PROVE  Goal
  BY <1>16 DEF Clean, At, Goto, TaskAt, Accounts, Failing, Typed, TypeOK,
    QueueTypeOK, AttemptsOK, AttemptOK
<1>17. ASSUME NEW r \in Receipt, FailDelete(r)
      PROVE  Goal
  BY <1>17 DEF FailDelete, At, Moves, Goto, CallFails, DeleteMessage,
    Accounts, Failing, Typed, TypeOK, QueueTypeOK, AttemptsOK, AttemptOK
<1>18. ASSUME NEW r \in Receipt, FailSend(r)
      PROVE  Goal
  BY <1>18 DEF FailSend, At, Moves, Goto, CallFails, EnqueueDead, Accounts,
    Failing, Typed, TypeOK, QueueTypeOK, AttemptsOK, AttemptOK
<1>19. ASSUME NEW r \in Receipt, Delete(r)
      PROVE  Goal
  BY <1>19 DEF Delete, At, Goto, DeleteOnce, DeleteFails, CallFails,
    DeleteMessage, Accounts, Failing, Typed, TypeOK, QueueTypeOK, AttemptsOK,
    AttemptOK
<1>20. ASSUME NEW r \in Receipt, Report(r)
      PROVE  Goal
  BY <1>20 DEF Report, At, Goto, Accounts, Failing, Typed, TypeOK,
    QueueTypeOK, AttemptsOK, AttemptOK
<1>21. ASSUME NEW r \in Receipt, Clear(r)
      PROVE  Goal
  BY <1>21 DEF Clear, At, Goto, TaskAt, Accounts, Failing, Typed, TypeOK,
    QueueTypeOK, AttemptsOK, AttemptOK
<1>22. ASSUME NEW r \in Receipt, Elapse(r)
      PROVE  Goal
  BY <1>22 DEF Elapse, Accounts, Failing, Typed, TypeOK, QueueTypeOK,
    AttemptsOK, AttemptOK
<1>23. ASSUME NEW r \in Receipt, TimerFires(r)
      PROVE  Goal
  BY <1>23 DEF TimerFires, Accounts, Failing, Typed, TypeOK, QueueTypeOK,
    AttemptsOK, AttemptOK
<1>24. ASSUME NEW r \in Receipt, TimerDeletes(r)
      PROVE  Goal
  BY <1>24 DEF TimerDeletes, DeleteOnce, DeleteFails, CallFails,
    DeleteMessage, Accounts, Failing, Typed, TypeOK, QueueTypeOK, AttemptsOK,
    AttemptOK
<1>25. ASSUME NEW m \in Message, Arrive(m)
      PROVE  Goal
  BY <1>25 DEF Arrive, Enqueue, Accounts, Failing, Typed, TypeOK,
    QueueTypeOK, AttemptsOK, AttemptOK
<1>26. ASSUME NEW m \in Message, Expire(m)
      PROVE  Goal
  BY <1>26 DEF Expire, ExpireVisibility, Accounts, Failing, Typed, TypeOK,
    QueueTypeOK, AttemptsOK, AttemptOK
<1> QED BY <1>1, <1>2, <1>3, <1>4, <1>5, <1>6, <1>7, <1>8, <1>9, <1>10,
           <1>11, <1>12, <1>13, <1>14, <1>15, <1>16, <1>17, <1>18, <1>19,
           <1>20, <1>21, <1>22, <1>23, <1>24, <1>25, <1>26
    DEF Next, Cluster, MainLoop, Goroutine, Clock

\* The step that removes a message leaves an attempt that accounts for it.
LEMMA GoneIsAccounted ==
  ASSUME Typed, Next, NEW m \in Message, queue[m] # "gone", queue'[m] = "gone"
  PROVE  \E q \in Receipt : message'[q] = m /\ Accounts(q)'
<1> DEFINE Goal == \E q \in Receipt : message'[q] = m /\ Accounts(q)'
<1> USE DEF queueVars, workerVars, hostVars, routineVars
<1>1. ASSUME NEW r \in Receipt, FailDelete(r)
      PROVE  Goal
  <2>1. message[r] = m /\ message'[r] = m
    BY <1>1 DEF Typed, TypeOK, QueueTypeOK, FailDelete, At, Moves, Goto,
      CallFails, DeleteMessage
  <2>2. Accounts(r)'
    BY <1>1 DEF Typed, TypeOK, QueueTypeOK, AttemptsOK, AttemptOK, Accounts,
      Failing, FailDelete, At, Moves, Goto, CallFails, DeleteMessage
  <2> QED BY <2>1, <2>2
<1>2. ASSUME NEW r \in Receipt, Delete(r)
      PROVE  Goal
  <2>1. message[r] = m /\ message'[r] = m
    BY <1>2 DEF Typed, TypeOK, QueueTypeOK, Delete, At, Goto, DeleteOnce,
      DeleteFails, CallFails, DeleteMessage
  <2>2. Accounts(r)'
    BY <1>2 DEF Typed, TypeOK, QueueTypeOK, AttemptsOK, AttemptOK, Accounts,
      Failing, Delete, At, Goto, DeleteOnce, DeleteFails, CallFails,
      DeleteMessage
  <2> QED BY <2>1, <2>2
<1>3. ASSUME NEW r \in Receipt, TimerDeletes(r)
      PROVE  Goal
  <2>1. message[r] = m /\ message'[r] = m
    BY <1>3 DEF Typed, TypeOK, QueueTypeOK, TimerDeletes, DeleteOnce,
      DeleteFails, CallFails, DeleteMessage
  <2>2. Accounts(r)'
    BY <1>3 DEF Typed, TypeOK, QueueTypeOK, AttemptsOK, AttemptOK, Accounts,
      Failing, TimerDeletes, DeleteOnce, DeleteFails, CallFails,
      DeleteMessage
  <2> QED BY <2>1, <2>2
<1>4. ASSUME NEW h \in Host, Exit(h)
      PROVE  Goal
  BY <1>4 DEF Typed, TypeOK, QueueTypeOK, Exit, Kill
<1>5. ASSUME NEW h \in Host, Restart(h)
      PROVE  Goal
  BY <1>5 DEF Typed, TypeOK, QueueTypeOK, Restart
<1>6. ASSUME NEW h \in Host, StartPoll(h)
      PROVE  Goal
  BY <1>6 DEF Typed, TypeOK, QueueTypeOK, StartPoll
<1>7. ASSUME NEW h \in Host, PollEmpty(h)
      PROVE  Goal
  BY <1>7 DEF Typed, TypeOK, QueueTypeOK, PollEmpty
<1>8. ASSUME NEW h \in Host, Signal(h)
      PROVE  Goal
  BY <1>8 DEF Typed, TypeOK, QueueTypeOK, Signal
<1>9. ASSUME NEW h \in Host, Crash(h)
      PROVE  Goal
  BY <1>9 DEF Typed, TypeOK, QueueTypeOK, Crash, Kill
<1>10. ASSUME NEW h \in Host, NEW n \in Message,
              NEW r \in Receipt, Poll(h, n, r)
      PROVE  Goal
  BY <1>10 DEF Typed, TypeOK, QueueTypeOK, Poll, Dequeue
<1>11. ASSUME NEW h \in Host, NEW n \in Message,
              NEW r \in Receipt, PollDrops(h, n, r)
      PROVE  Goal
  BY <1>11 DEF Typed, TypeOK, QueueTypeOK, PollDrops, Dequeue
<1>12. ASSUME NEW r \in Receipt, Begin(r)
      PROVE  Goal
  BY <1>12 DEF Typed, TypeOK, QueueTypeOK, Begin, At, Goto
<1>13. ASSUME NEW r \in Receipt, CreateWorkspace(r)
      PROVE  Goal
  BY <1>13 DEF Typed, TypeOK, QueueTypeOK, CreateWorkspace, AtStage, At,
    Advance, Errs, Ends, Goto
<1>14. ASSUME NEW r \in Receipt, Download(r)
      PROVE  Goal
  BY <1>14 DEF Typed, TypeOK, QueueTypeOK, Download, AtStage, At, Advance,
    Errs, IsCtxCanceled, Ends, Goto
<1>15. ASSUME NEW r \in Receipt, Execute(r)
      PROVE  Goal
  BY <1>15 DEF Typed, TypeOK, QueueTypeOK, Execute, AtStage, At, Advance,
    Errs, IsCtxCanceled, Ends, Goto
<1>16. ASSUME NEW r \in Receipt, Upload(r)
      PROVE  Goal
  BY <1>16 DEF Typed, TypeOK, QueueTypeOK, Upload, AtStage, At, Errs,
    IsCtxCanceled, Ends, Goto
<1>17. ASSUME NEW r \in Receipt, ExecutePanics(r)
      PROVE  Goal
  BY <1>17 DEF Typed, TypeOK, QueueTypeOK, ExecutePanics, Kill, AtStage, At
<1>18. ASSUME NEW r \in Receipt, Persist(r)
      PROVE  Goal
  BY <1>18 DEF Typed, TypeOK, QueueTypeOK, Persist, At, Goto, TaskAt
<1>19. ASSUME NEW r \in Receipt, Clean(r)
      PROVE  Goal
  BY <1>19 DEF Typed, TypeOK, QueueTypeOK, Clean, At, Goto, TaskAt
<1>20. ASSUME NEW r \in Receipt, FailSend(r)
      PROVE  Goal
  BY <1>20 DEF Typed, TypeOK, QueueTypeOK, FailSend, At, Moves, Goto,
    CallFails, EnqueueDead
<1>21. ASSUME NEW r \in Receipt, Report(r)
      PROVE  Goal
  BY <1>21 DEF Typed, TypeOK, QueueTypeOK, Report, At, Goto
<1>22. ASSUME NEW r \in Receipt, Clear(r)
      PROVE  Goal
  BY <1>22 DEF Typed, TypeOK, QueueTypeOK, Clear, At, Goto, TaskAt
<1>23. ASSUME NEW r \in Receipt, Elapse(r)
      PROVE  Goal
  BY <1>23 DEF Typed, TypeOK, QueueTypeOK, Elapse
<1>24. ASSUME NEW r \in Receipt, TimerFires(r)
      PROVE  Goal
  BY <1>24 DEF Typed, TypeOK, QueueTypeOK, TimerFires
<1>25. ASSUME NEW n \in Message, Arrive(n)
      PROVE  Goal
  BY <1>25 DEF Typed, TypeOK, QueueTypeOK, Arrive, Enqueue
<1>26. ASSUME NEW n \in Message, Expire(n)
      PROVE  Goal
  BY <1>26 DEF Typed, TypeOK, QueueTypeOK, Expire, ExpireVisibility
<1> QED BY <1>1, <1>2, <1>3, <1>4, <1>5, <1>6, <1>7, <1>8, <1>9, <1>10,
           <1>11, <1>12, <1>13, <1>14, <1>15, <1>16, <1>17, <1>18, <1>19,
           <1>20, <1>21, <1>22, <1>23, <1>24, <1>25, <1>26
    DEF Next, Cluster, MainLoop, Goroutine, Clock

\* Whatever fails or dies, with any number of deliveries: a message leaves the
\* queue only with an attempt that completed it, dead-lettered it, timed out
\* with it or had begun to fail it (service.go, processMessage).
THEOREM NothingIsLostSilently == Spec => []NoSilentLoss
<1>1. Init => NoSilentLoss
  BY DEF Init, QueueInit, NoSilentLoss
<1>2. Typed /\ NoSilentLoss /\ [Next]_vars => NoSilentLoss'
  <2> SUFFICES ASSUME Typed, NoSilentLoss, Next, NEW m \in Message,
                      queue'[m] = "gone"
               PROVE  \E q \in Receipt : message'[q] = m /\ Accounts(q)'
    <3>1. CASE UNCHANGED vars
      BY <3>1 DEF NoSilentLoss, Accounts, Failing, vars, queueVars,
                  workerVars, routineVars
    <3> QED BY <3>1 DEF NoSilentLoss
  <2>1. CASE queue[m] = "gone"
    <3>1. PICK q \in Receipt : message[q] = m /\ Accounts(q)
      BY <2>1 DEF NoSilentLoss
    <3> QED BY <3>1, AccountsPersist
  <2>2. CASE queue[m] # "gone"
    BY <2>2, GoneIsAccounted
  <2> QED BY <2>1, <2>2
<1> QED BY <1>1, <1>2, AlwaysTyped, PTL DEF Spec
-----------------------------------------------------------------------------
(***************************************************************************)
(* The dead letter queue holds no task that is still to be done.           *)
(***************************************************************************)
Superseded(r) == queue[message[r]] = "gone" \/ latest[message[r]] # r

FailDeletes ==
  \A r \in Receipt : r \in dlq \/ pc[r] = "failSend" => Superseded(r)

LEMMA FailDeletesStep ==
  ASSUME Typed, FailDeletes, Next, NEW q \in Receipt,
         q \in dlq' \/ pc'[q] = "failSend"
  PROVE  Superseded(q)'
<1> USE DEF queueVars, workerVars, hostVars, routineVars
<1>1. ASSUME NEW h \in Host, Exit(h)
      PROVE  Superseded(q)'
  BY <1>1 DEF Exit, Kill, Superseded, FailDeletes, Typed, TypeOK,
    QueueTypeOK, AttemptsOK, AttemptOK
<1>2. ASSUME NEW h \in Host, Restart(h)
      PROVE  Superseded(q)'
  BY <1>2 DEF Restart, Superseded, FailDeletes, Typed, TypeOK, QueueTypeOK,
    AttemptsOK, AttemptOK
<1>3. ASSUME NEW h \in Host, StartPoll(h)
      PROVE  Superseded(q)'
  BY <1>3 DEF StartPoll, Superseded, FailDeletes, Typed, TypeOK, QueueTypeOK,
    AttemptsOK, AttemptOK
<1>4. ASSUME NEW h \in Host, PollEmpty(h)
      PROVE  Superseded(q)'
  BY <1>4 DEF PollEmpty, Superseded, FailDeletes, Typed, TypeOK, QueueTypeOK,
    AttemptsOK, AttemptOK
<1>5. ASSUME NEW h \in Host, Signal(h)
      PROVE  Superseded(q)'
  BY <1>5 DEF Signal, Superseded, FailDeletes, Typed, TypeOK, QueueTypeOK,
    AttemptsOK, AttemptOK
<1>6. ASSUME NEW h \in Host, Crash(h)
      PROVE  Superseded(q)'
  BY <1>6 DEF Crash, Kill, Superseded, FailDeletes, Typed, TypeOK,
    QueueTypeOK, AttemptsOK, AttemptOK
<1>7. ASSUME NEW h \in Host, NEW m \in Message,
              NEW r \in Receipt, Poll(h, m, r)
      PROVE  Superseded(q)'
  BY <1>7 DEF Poll, Dequeue, Superseded, FailDeletes, Typed, TypeOK,
    QueueTypeOK, AttemptsOK, AttemptOK
<1>8. ASSUME NEW h \in Host, NEW m \in Message,
              NEW r \in Receipt, PollDrops(h, m, r)
      PROVE  Superseded(q)'
  BY <1>8 DEF PollDrops, Dequeue, Superseded, FailDeletes, Typed, TypeOK,
    QueueTypeOK, AttemptsOK, AttemptOK
<1>9. ASSUME NEW r \in Receipt, Begin(r)
      PROVE  Superseded(q)'
  BY <1>9 DEF Begin, At, Goto, Superseded, FailDeletes, Typed, TypeOK,
    QueueTypeOK, AttemptsOK, AttemptOK
<1>10. ASSUME NEW r \in Receipt, CreateWorkspace(r)
      PROVE  Superseded(q)'
  BY <1>10 DEF CreateWorkspace, AtStage, At, Advance, Errs, Ends, Goto,
    Superseded, FailDeletes, Typed, TypeOK, QueueTypeOK, AttemptsOK,
    AttemptOK
<1>11. ASSUME NEW r \in Receipt, Download(r)
      PROVE  Superseded(q)'
  BY <1>11 DEF Download, AtStage, At, Advance, Errs, IsCtxCanceled, Ends,
    Goto, Superseded, FailDeletes, Typed, TypeOK, QueueTypeOK, AttemptsOK,
    AttemptOK
<1>12. ASSUME NEW r \in Receipt, Execute(r)
      PROVE  Superseded(q)'
  BY <1>12 DEF Execute, AtStage, At, Advance, Errs, IsCtxCanceled, Ends,
    Goto, Superseded, FailDeletes, Typed, TypeOK, QueueTypeOK, AttemptsOK,
    AttemptOK
<1>13. ASSUME NEW r \in Receipt, Upload(r)
      PROVE  Superseded(q)'
  BY <1>13 DEF Upload, AtStage, At, Errs, IsCtxCanceled, Ends, Goto,
    Superseded, FailDeletes, Typed, TypeOK, QueueTypeOK, AttemptsOK,
    AttemptOK
<1>14. ASSUME NEW r \in Receipt, ExecutePanics(r)
      PROVE  Superseded(q)'
  BY <1>14 DEF ExecutePanics, Kill, AtStage, At, Superseded, FailDeletes,
    Typed, TypeOK, QueueTypeOK, AttemptsOK, AttemptOK
<1>15. ASSUME NEW r \in Receipt, Persist(r)
      PROVE  Superseded(q)'
  BY <1>15 DEF Persist, At, Goto, TaskAt, Superseded, FailDeletes, Typed,
    TypeOK, QueueTypeOK, AttemptsOK, AttemptOK
<1>16. ASSUME NEW r \in Receipt, Clean(r)
      PROVE  Superseded(q)'
  BY <1>16 DEF Clean, At, Goto, TaskAt, Superseded, FailDeletes, Typed,
    TypeOK, QueueTypeOK, AttemptsOK, AttemptOK
<1>17. ASSUME NEW r \in Receipt, FailDelete(r)
      PROVE  Superseded(q)'
  BY <1>17 DEF FailDelete, At, Moves, Goto, CallFails, DeleteMessage,
    Superseded, FailDeletes, Typed, TypeOK, QueueTypeOK, AttemptsOK,
    AttemptOK
<1>18. ASSUME NEW r \in Receipt, FailSend(r)
      PROVE  Superseded(q)'
  BY <1>18 DEF FailSend, At, Moves, Goto, CallFails, EnqueueDead, Superseded,
    FailDeletes, Typed, TypeOK, QueueTypeOK, AttemptsOK, AttemptOK
<1>19. ASSUME NEW r \in Receipt, Delete(r)
      PROVE  Superseded(q)'
  BY <1>19 DEF Delete, At, Goto, DeleteOnce, DeleteFails, CallFails,
    DeleteMessage, Superseded, FailDeletes, Typed, TypeOK, QueueTypeOK,
    AttemptsOK, AttemptOK
<1>20. ASSUME NEW r \in Receipt, Report(r)
      PROVE  Superseded(q)'
  BY <1>20 DEF Report, At, Goto, Superseded, FailDeletes, Typed, TypeOK,
    QueueTypeOK, AttemptsOK, AttemptOK
<1>21. ASSUME NEW r \in Receipt, Clear(r)
      PROVE  Superseded(q)'
  BY <1>21 DEF Clear, At, Goto, TaskAt, Superseded, FailDeletes, Typed,
    TypeOK, QueueTypeOK, AttemptsOK, AttemptOK
<1>22. ASSUME NEW r \in Receipt, Elapse(r)
      PROVE  Superseded(q)'
  BY <1>22 DEF Elapse, Superseded, FailDeletes, Typed, TypeOK, QueueTypeOK,
    AttemptsOK, AttemptOK
<1>23. ASSUME NEW r \in Receipt, TimerFires(r)
      PROVE  Superseded(q)'
  BY <1>23 DEF TimerFires, Superseded, FailDeletes, Typed, TypeOK,
    QueueTypeOK, AttemptsOK, AttemptOK
<1>24. ASSUME NEW r \in Receipt, TimerDeletes(r)
      PROVE  Superseded(q)'
  BY <1>24 DEF TimerDeletes, DeleteOnce, DeleteFails, CallFails,
    DeleteMessage, Superseded, FailDeletes, Typed, TypeOK, QueueTypeOK,
    AttemptsOK, AttemptOK
<1>25. ASSUME NEW m \in Message, Arrive(m)
      PROVE  Superseded(q)'
  BY <1>25 DEF Arrive, Enqueue, Superseded, FailDeletes, Typed, TypeOK,
    QueueTypeOK, AttemptsOK, AttemptOK
<1>26. ASSUME NEW m \in Message, Expire(m)
      PROVE  Superseded(q)'
  BY <1>26 DEF Expire, ExpireVisibility, Superseded, FailDeletes, Typed,
    TypeOK, QueueTypeOK, AttemptsOK, AttemptOK
<1> QED BY <1>1, <1>2, <1>3, <1>4, <1>5, <1>6, <1>7, <1>8, <1>9, <1>10,
           <1>11, <1>12, <1>13, <1>14, <1>15, <1>16, <1>17, <1>18, <1>19,
           <1>20, <1>21, <1>22, <1>23, <1>24, <1>25, <1>26
    DEF Next, Cluster, MainLoop, Goroutine, Clock

\* Fail sends a task to the dead letter queue only after the delete: its
\* message is gone unless a later delivery made the receipt stale (task.go).
THEOREM DeadLettersAreExclusive == Spec => []DeadLetterExclusive
<1>1. Init => FailDeletes
  BY DEF Init, QueueInit, FailDeletes
<1>2. Typed /\ FailDeletes /\ [Next]_vars => FailDeletes'
  <2>1. ASSUME FailDeletes, UNCHANGED vars PROVE FailDeletes'
    BY <2>1 DEF FailDeletes, Superseded, vars, queueVars, workerVars,
                routineVars
  <2>2. ASSUME Typed, FailDeletes, Next PROVE FailDeletes'
    BY <2>2, FailDeletesStep DEF FailDeletes
  <2> QED BY <2>1, <2>2
<1>3. Typed /\ FailDeletes => DeadLetterExclusive
  BY DEF FailDeletes, Superseded, DeadLetterExclusive, Typed, TypeOK,
         QueueTypeOK
<1> QED BY <1>1, <1>2, <1>3, AlwaysTyped, PTL DEF Spec
-----------------------------------------------------------------------------
(***************************************************************************)
(* inProcess follows the goroutines.                                       *)
(***************************************************************************)
Served(h, t) == \E r \in live : host[r] = h /\ TaskAt(r) = t

Listed(r) ==
  \/ TaskAt(r) \in inProcess[host[r]]
  \/ \E s \in Receipt \ {r} : /\ pc[s] = "done" /\ host[s] = host[r]
                              /\ message[s] # NoMessage
                              /\ TaskAt(s) = TaskAt(r)

\* Steps that start no goroutine and end none.
KeepsRoutines ==
  /\ UNCHANGED <<message, inProcess, host, live>>
  /\ \A s \in Receipt : pc[s] = "done" => pc'[s] = "done"

LEMMA RoutineSteps ==
  ASSUME Typed, Next
  PROVE  \/ KeepsRoutines
         \/ \E h \in Host : Kill(h)
         \/ \E h \in Host, m \in Message, r \in Receipt :
              Poll(h, m, r) \/ PollDrops(h, m, r)
         \/ \E r \in Receipt : Clear(r)
<1> USE DEF queueVars, workerVars, hostVars, routineVars
<1>1. ASSUME NEW h \in Host, Restart(h)
      PROVE  KeepsRoutines
  BY <1>1 DEF Restart, KeepsRoutines, Typed, TypeOK, QueueTypeOK, AttemptsOK,
    AttemptOK
<1>2. ASSUME NEW h \in Host, StartPoll(h)
      PROVE  KeepsRoutines
  BY <1>2 DEF StartPoll, KeepsRoutines, Typed, TypeOK, QueueTypeOK,
    AttemptsOK, AttemptOK
<1>3. ASSUME NEW h \in Host, PollEmpty(h)
      PROVE  KeepsRoutines
  BY <1>3 DEF PollEmpty, KeepsRoutines, Typed, TypeOK, QueueTypeOK,
    AttemptsOK, AttemptOK
<1>4. ASSUME NEW h \in Host, Signal(h)
      PROVE  KeepsRoutines
  BY <1>4 DEF Signal, KeepsRoutines, Typed, TypeOK, QueueTypeOK, AttemptsOK,
    AttemptOK
<1>5. ASSUME NEW r \in Receipt, Begin(r)
      PROVE  KeepsRoutines
  BY <1>5 DEF Begin, At, Goto, KeepsRoutines, Typed, TypeOK, QueueTypeOK,
    AttemptsOK, AttemptOK
<1>6. ASSUME NEW r \in Receipt, CreateWorkspace(r)
      PROVE  KeepsRoutines
  BY <1>6 DEF CreateWorkspace, AtStage, At, Advance, Errs, Ends, Goto,
    KeepsRoutines, Typed, TypeOK, QueueTypeOK, AttemptsOK, AttemptOK
<1>7. ASSUME NEW r \in Receipt, Download(r)
      PROVE  KeepsRoutines
  BY <1>7 DEF Download, AtStage, At, Advance, Errs, IsCtxCanceled, Ends,
    Goto, KeepsRoutines, Typed, TypeOK, QueueTypeOK, AttemptsOK, AttemptOK
<1>8. ASSUME NEW r \in Receipt, Execute(r)
      PROVE  KeepsRoutines
  BY <1>8 DEF Execute, AtStage, At, Advance, Errs, IsCtxCanceled, Ends, Goto,
    KeepsRoutines, Typed, TypeOK, QueueTypeOK, AttemptsOK, AttemptOK
<1>9. ASSUME NEW r \in Receipt, Upload(r)
      PROVE  KeepsRoutines
  BY <1>9 DEF Upload, AtStage, At, Errs, IsCtxCanceled, Ends, Goto,
    KeepsRoutines, Typed, TypeOK, QueueTypeOK, AttemptsOK, AttemptOK
<1>10. ASSUME NEW r \in Receipt, Persist(r)
      PROVE  KeepsRoutines
  BY <1>10 DEF Persist, At, Goto, TaskAt, KeepsRoutines, Typed, TypeOK,
    QueueTypeOK, AttemptsOK, AttemptOK
<1>11. ASSUME NEW r \in Receipt, Clean(r)
      PROVE  KeepsRoutines
  BY <1>11 DEF Clean, At, Goto, TaskAt, KeepsRoutines, Typed, TypeOK,
    QueueTypeOK, AttemptsOK, AttemptOK
<1>12. ASSUME NEW r \in Receipt, FailDelete(r)
      PROVE  KeepsRoutines
  BY <1>12 DEF FailDelete, At, Moves, Goto, CallFails, DeleteMessage,
    KeepsRoutines, Typed, TypeOK, QueueTypeOK, AttemptsOK, AttemptOK
<1>13. ASSUME NEW r \in Receipt, FailSend(r)
      PROVE  KeepsRoutines
  BY <1>13 DEF FailSend, At, Moves, Goto, CallFails, EnqueueDead,
    KeepsRoutines, Typed, TypeOK, QueueTypeOK, AttemptsOK, AttemptOK
<1>14. ASSUME NEW r \in Receipt, Delete(r)
      PROVE  KeepsRoutines
  BY <1>14 DEF Delete, At, Goto, DeleteOnce, DeleteFails, CallFails,
    DeleteMessage, KeepsRoutines, Typed, TypeOK, QueueTypeOK, AttemptsOK,
    AttemptOK
<1>15. ASSUME NEW r \in Receipt, Report(r)
      PROVE  KeepsRoutines
  BY <1>15 DEF Report, At, Goto, KeepsRoutines, Typed, TypeOK, QueueTypeOK,
    AttemptsOK, AttemptOK
<1>16. ASSUME NEW r \in Receipt, Elapse(r)
      PROVE  KeepsRoutines
  BY <1>16 DEF Elapse, KeepsRoutines, Typed, TypeOK, QueueTypeOK, AttemptsOK,
    AttemptOK
<1>17. ASSUME NEW r \in Receipt, TimerFires(r)
      PROVE  KeepsRoutines
  BY <1>17 DEF TimerFires, KeepsRoutines, Typed, TypeOK, QueueTypeOK,
    AttemptsOK, AttemptOK
<1>18. ASSUME NEW r \in Receipt, TimerDeletes(r)
      PROVE  KeepsRoutines
  BY <1>18 DEF TimerDeletes, DeleteOnce, DeleteFails, CallFails,
    DeleteMessage, KeepsRoutines, Typed, TypeOK, QueueTypeOK, AttemptsOK,
    AttemptOK
<1>19. ASSUME NEW m \in Message, Arrive(m)
      PROVE  KeepsRoutines
  BY <1>19 DEF Arrive, Enqueue, KeepsRoutines, Typed, TypeOK, QueueTypeOK,
    AttemptsOK, AttemptOK
<1>20. ASSUME NEW m \in Message, Expire(m)
      PROVE  KeepsRoutines
  BY <1>20 DEF Expire, ExpireVisibility, KeepsRoutines, Typed, TypeOK,
    QueueTypeOK, AttemptsOK, AttemptOK
<1>21. ASSUME NEW h \in Host, Exit(h) \/ Crash(h) PROVE Kill(h)
  BY <1>21 DEF Exit, Crash
<1>22. ASSUME NEW r \in Receipt, ExecutePanics(r)
      PROVE  \E h \in Host : Kill(h)
  BY <1>22 DEF ExecutePanics, AtStage, At, Typed, AttemptsOK, AttemptOK
<1> QED BY <1>1, <1>2, <1>3, <1>4, <1>5, <1>6, <1>7, <1>8, <1>9, <1>10,
           <1>11, <1>12, <1>13, <1>14, <1>15, <1>16, <1>17, <1>18, <1>19,
           <1>20, <1>21, <1>22
    DEF Next, Cluster, MainLoop, Goroutine, Clock

LEMMA ServedStep ==
  ASSUME Typed, InProcessTracksGoroutines, Next, NEW g \in Host,
         NEW t \in inProcess'[g]
  PROVE  Served(g, t)'
<1> USE DEF queueVars, workerVars, hostVars, routineVars
<1>1. CASE KeepsRoutines
  BY <1>1 DEF KeepsRoutines, InProcessTracksGoroutines, TaskAt, Served,
    Typed, TypeOK, QueueTypeOK, AttemptsOK, AttemptOK
<1>2. ASSUME NEW h \in Host, Kill(h) PROVE Served(g, t)'
  BY <1>2 DEF Kill, InProcessTracksGoroutines, TaskAt, Served, Typed, TypeOK,
    QueueTypeOK, AttemptsOK, AttemptOK
<1>3. ASSUME NEW h \in Host, NEW m \in Message, NEW r \in Receipt,
             Poll(h, m, r)
      PROVE  Served(g, t)'
  BY <1>3 DEF Poll, Dequeue, InProcessTracksGoroutines, TaskAt, Served,
    Typed, TypeOK, QueueTypeOK, AttemptsOK, AttemptOK
<1>4. ASSUME NEW h \in Host, NEW m \in Message, NEW r \in Receipt,
             PollDrops(h, m, r)
      PROVE  Served(g, t)'
  BY <1>4 DEF PollDrops, Dequeue, InProcessTracksGoroutines, TaskAt, Served,
    Typed, TypeOK, QueueTypeOK, AttemptsOK, AttemptOK
<1>5. ASSUME NEW r \in Receipt, Clear(r) PROVE Served(g, t)'
  BY <1>5 DEF Clear, At, Goto, InProcessTracksGoroutines, TaskAt, Served,
    Typed, TypeOK, QueueTypeOK, AttemptsOK, AttemptOK
<1> QED BY <1>1, <1>2, <1>3, <1>4, <1>5, RoutineSteps

LEMMA ListedStep ==
  ASSUME Typed, InProcessTracksGoroutines, Next, NEW q \in live'
  PROVE  Listed(q)'
<1> USE DEF queueVars, workerVars, hostVars, routineVars
<1>1. CASE KeepsRoutines
  BY <1>1 DEF KeepsRoutines, InProcessTracksGoroutines, TaskAt, Listed,
    Typed, TypeOK, QueueTypeOK, AttemptsOK, AttemptOK
<1>2. ASSUME NEW h \in Host, Kill(h) PROVE Listed(q)'
  BY <1>2 DEF Kill, InProcessTracksGoroutines, TaskAt, Listed, Typed, TypeOK,
    QueueTypeOK, AttemptsOK, AttemptOK
<1>3. ASSUME NEW h \in Host, NEW m \in Message, NEW r \in Receipt,
             Poll(h, m, r)
      PROVE  Listed(q)'
  <2>1. CASE q = r
    BY <1>3, <2>1 DEF Poll, Dequeue, Listed, TaskAt, Typed, TypeOK,
      QueueTypeOK
  <2>2. CASE q # r
    <3>1. q \in live /\ message'[q] = message[q] /\ host'[q] = host[q]
      BY <1>3, <2>2 DEF Poll, Dequeue, Typed, TypeOK, QueueTypeOK
    <3>2. \A s \in Receipt : pc[s] = "done" =>
            /\ pc'[s] = "done" /\ host'[s] = host[s]
            /\ message'[s] = message[s]
      BY <1>3 DEF Poll, Dequeue, Typed, TypeOK, QueueTypeOK, AttemptsOK,
        AttemptOK
    <3>3. \A g \in Host : inProcess[g] \subseteq inProcess'[g]
      BY <1>3 DEF Poll, Typed, TypeOK
    <3>4. Listed(q) /\ host[q] \in Host
      BY <3>1 DEF InProcessTracksGoroutines, Listed, Typed, AttemptsOK,
        AttemptOK, TypeOK
    <3> QED BY <3>1, <3>2, <3>3, <3>4 DEF Listed, TaskAt
  <2> QED BY <2>1, <2>2
<1>4. ASSUME NEW h \in Host, NEW m \in Message, NEW r \in Receipt,
             PollDrops(h, m, r)
      PROVE  Listed(q)'
  <2>1. /\ q \in Receipt /\ q \in live /\ message'[q] = message[q]
        /\ \A s \in Receipt : pc[s] = "done" => message'[s] = message[s]
    BY <1>4 DEF PollDrops, Dequeue, Typed, TypeOK, QueueTypeOK, AttemptsOK,
      AttemptOK
  <2>2. UNCHANGED <<inProcess, host, pc>>
    BY <1>4 DEF PollDrops
  <2>3. Listed(q)
    BY <2>1 DEF InProcessTracksGoroutines, Listed, Typed, AttemptsOK,
      AttemptOK
  <2> QED BY <2>1, <2>2, <2>3 DEF Listed, TaskAt
<1>5. ASSUME NEW r \in Receipt, Clear(r) PROVE Listed(q)'
  <2>1. /\ q \in live /\ q # r /\ r \in live /\ UNCHANGED <<message, host>>
        /\ pc' = [pc EXCEPT ![r] = "done"]
        /\ inProcess' =
             [inProcess EXCEPT ![host[r]] = @ \ {TaskAt(r)}]
    BY <1>5 DEF Clear, At, Goto, Typed, TypeOK
  <2>2. /\ host[q] \in Host /\ host[r] \in Host /\ message[r] # NoMessage
        /\ Listed(q)
    BY <2>1 DEF InProcessTracksGoroutines, Listed, Typed, TypeOK, AttemptsOK,
      AttemptOK
  <2>3. CASE host[r] = host[q] /\ TaskAt(r) = TaskAt(q)
    BY <2>1, <2>2, <2>3 DEF Listed, TaskAt, Typed, TypeOK
  <2>4. CASE ~(host[r] = host[q] /\ TaskAt(r) = TaskAt(q))
    BY <2>1, <2>2, <2>4 DEF Listed, TaskAt, Typed, TypeOK
  <2> QED BY <2>3, <2>4
<1> QED BY <1>1, <1>2, <1>3, <1>4, <1>5, RoutineSteps

\* service.inProcess lists a task only while a goroutine of the process works
\* on it, and misses one only after a duplicate's clearInProcess (service.go).
THEOREM InProcessFollows == Spec => []InProcessTracksGoroutines
<1>1. Init => InProcessTracksGoroutines
  BY DEF Init, InProcessTracksGoroutines
<1>2. Typed /\ InProcessTracksGoroutines /\ [Next]_vars
        => InProcessTracksGoroutines'
  <2>1. ASSUME InProcessTracksGoroutines, UNCHANGED vars
        PROVE  InProcessTracksGoroutines'
    BY <2>1 DEF InProcessTracksGoroutines, TaskAt, vars, queueVars,
                workerVars, hostVars, routineVars
  <2>2. ASSUME Typed, InProcessTracksGoroutines, Next
        PROVE  InProcessTracksGoroutines'
    BY <2>2, ServedStep, ListedStep
       DEF InProcessTracksGoroutines, Served, Listed
  <2> QED BY <2>1, <2>2
<1> QED BY <1>1, <1>2, AlwaysTyped, PTL DEF Spec
-----------------------------------------------------------------------------
(***************************************************************************)
(* Where SQS redelivers no sooner than message.Timeout assumes, and answers *)
(* every call, two attempts at one message are never in Process together.  *)
(***************************************************************************)

\* The message of r is gone, or in flight under r's receipt.
Holds(r) ==
  LET m == message[r] IN latest[m] = r /\ queue[m] \in {"inflight", "gone"}

\* An attempt in Process holds its message, and until the message is gone the
\* timer that will delete it is running; one that will enter Process has time.
HoldsLatest ==
  \A r \in live :
    /\ pc[r] = "begin" /\ ~due[r] => Holds(r)
    /\ pc[r] = "process" =>
         /\ Holds(r)
         /\ \/ queue[message[r]] = "gone" /\ timer[r] # "off"
            \/ timer[r] \in {"armed", "firing"} /\ ~deleted[r]

LEMMA HoldsLatestStep ==
  ASSUME ~EarlyRedelivery, "sqs" \notin Disruptions,
         Typed, HoldsLatest, Next, NEW q \in live'
  PROVE  /\ pc'[q] = "begin" /\ ~due'[q] => Holds(q)'
         /\ pc'[q] = "process" =>
              /\ Holds(q)'
              /\ \/ queue'[message'[q]] = "gone" /\ timer'[q] # "off"
                 \/ timer'[q] \in {"armed", "firing"} /\ ~deleted'[q]
<1> DEFINE Goal ==
      /\ pc'[q] = "begin" /\ ~due'[q] => Holds(q)'
      /\ pc'[q] = "process" =>
           /\ Holds(q)'
           /\ \/ queue'[message'[q]] = "gone" /\ timer'[q] # "off"
              \/ timer'[q] \in {"armed", "firing"} /\ ~deleted'[q]
<1> USE DEF queueVars, workerVars, hostVars, routineVars
<1>1. ASSUME NEW h \in Host, Exit(h)
      PROVE  Goal
  BY <1>1 DEF Exit, Kill, HoldsLatest, Holds, Typed, TypeOK, QueueTypeOK,
    AttemptsOK, AttemptOK
<1>2. ASSUME NEW h \in Host, Restart(h)
      PROVE  Goal
  BY <1>2 DEF Restart, HoldsLatest, Holds, Typed, TypeOK, QueueTypeOK,
    AttemptsOK, AttemptOK
<1>3. ASSUME NEW h \in Host, StartPoll(h)
      PROVE  Goal
  BY <1>3 DEF StartPoll, HoldsLatest, Holds, Typed, TypeOK, QueueTypeOK,
    AttemptsOK, AttemptOK
<1>4. ASSUME NEW h \in Host, PollEmpty(h)
      PROVE  Goal
  BY <1>4 DEF PollEmpty, HoldsLatest, Holds, Typed, TypeOK, QueueTypeOK,
    AttemptsOK, AttemptOK
<1>5. ASSUME NEW h \in Host, Signal(h)
      PROVE  Goal
  BY <1>5 DEF Signal, HoldsLatest, Holds, Typed, TypeOK, QueueTypeOK,
    AttemptsOK, AttemptOK
<1>6. ASSUME NEW h \in Host, Crash(h)
      PROVE  Goal
  BY <1>6 DEF Crash, Kill, HoldsLatest, Holds, Typed, TypeOK, QueueTypeOK,
    AttemptsOK, AttemptOK
<1>7. ASSUME NEW h \in Host, NEW m \in Message,
              NEW r \in Receipt, Poll(h, m, r)
      PROVE  Goal
  BY <1>7 DEF Poll, Dequeue, HoldsLatest, Holds, Typed, TypeOK, QueueTypeOK,
    AttemptsOK, AttemptOK
<1>8. ASSUME NEW h \in Host, NEW m \in Message,
              NEW r \in Receipt, PollDrops(h, m, r)
      PROVE  Goal
  BY <1>8 DEF PollDrops, Dequeue, HoldsLatest, Holds, Typed, TypeOK,
    QueueTypeOK, AttemptsOK, AttemptOK
<1>9. ASSUME NEW r \in Receipt, Begin(r)
      PROVE  Goal
  BY <1>9 DEF Begin, At, Goto, HoldsLatest, Holds, Typed, TypeOK,
    QueueTypeOK, AttemptsOK, AttemptOK
<1>10. ASSUME NEW r \in Receipt, CreateWorkspace(r)
      PROVE  Goal
  BY <1>10 DEF CreateWorkspace, AtStage, At, Advance, Errs, Ends, Goto,
    HoldsLatest, Holds, Typed, TypeOK, QueueTypeOK, AttemptsOK, AttemptOK
<1>11. ASSUME NEW r \in Receipt, Download(r)
      PROVE  Goal
  BY <1>11 DEF Download, AtStage, At, Advance, Errs, IsCtxCanceled, Ends,
    Goto, HoldsLatest, Holds, Typed, TypeOK, QueueTypeOK, AttemptsOK,
    AttemptOK
<1>12. ASSUME NEW r \in Receipt, Execute(r)
      PROVE  Goal
  BY <1>12 DEF Execute, AtStage, At, Advance, Errs, IsCtxCanceled, Ends,
    Goto, HoldsLatest, Holds, Typed, TypeOK, QueueTypeOK, AttemptsOK,
    AttemptOK
<1>13. ASSUME NEW r \in Receipt, Upload(r)
      PROVE  Goal
  BY <1>13 DEF Upload, AtStage, At, Errs, IsCtxCanceled, Ends, Goto,
    HoldsLatest, Holds, Typed, TypeOK, QueueTypeOK, AttemptsOK, AttemptOK
<1>14. ASSUME NEW r \in Receipt, ExecutePanics(r)
      PROVE  Goal
  BY <1>14 DEF ExecutePanics, Kill, AtStage, At, HoldsLatest, Holds, Typed,
    TypeOK, QueueTypeOK, AttemptsOK, AttemptOK
<1>15. ASSUME NEW r \in Receipt, Persist(r)
      PROVE  Goal
  BY <1>15 DEF Persist, At, Goto, TaskAt, HoldsLatest, Holds, Typed, TypeOK,
    QueueTypeOK, AttemptsOK, AttemptOK
<1>16. ASSUME NEW r \in Receipt, Clean(r)
      PROVE  Goal
  BY <1>16 DEF Clean, At, Goto, TaskAt, HoldsLatest, Holds, Typed, TypeOK,
    QueueTypeOK, AttemptsOK, AttemptOK
<1>17. ASSUME NEW r \in Receipt, FailDelete(r)
      PROVE  Goal
  BY <1>17 DEF FailDelete, At, Moves, Goto, CallFails, DeleteMessage,
    HoldsLatest, Holds, Typed, TypeOK, QueueTypeOK, AttemptsOK, AttemptOK
<1>18. ASSUME NEW r \in Receipt, FailSend(r)
      PROVE  Goal
  BY <1>18 DEF FailSend, At, Moves, Goto, CallFails, EnqueueDead,
    HoldsLatest, Holds, Typed, TypeOK, QueueTypeOK, AttemptsOK, AttemptOK
<1>19. ASSUME NEW r \in Receipt, Delete(r)
      PROVE  Goal
  BY <1>19 DEF Delete, At, Goto, DeleteOnce, DeleteFails, CallFails,
    DeleteMessage, HoldsLatest, Holds, Typed, TypeOK, QueueTypeOK,
    AttemptsOK, AttemptOK
<1>20. ASSUME NEW r \in Receipt, Report(r)
      PROVE  Goal
  BY <1>20 DEF Report, At, Goto, HoldsLatest, Holds, Typed, TypeOK,
    QueueTypeOK, AttemptsOK, AttemptOK
<1>21. ASSUME NEW r \in Receipt, Clear(r)
      PROVE  Goal
  BY <1>21 DEF Clear, At, Goto, TaskAt, HoldsLatest, Holds, Typed, TypeOK,
    QueueTypeOK, AttemptsOK, AttemptOK
<1>22. ASSUME NEW r \in Receipt, Elapse(r)
      PROVE  Goal
  BY <1>22 DEF Elapse, HoldsLatest, Holds, Typed, TypeOK, QueueTypeOK,
    AttemptsOK, AttemptOK
<1>23. ASSUME NEW r \in Receipt, TimerFires(r)
      PROVE  Goal
  BY <1>23 DEF TimerFires, HoldsLatest, Holds, Typed, TypeOK, QueueTypeOK,
    AttemptsOK, AttemptOK
<1>24. ASSUME NEW r \in Receipt, TimerDeletes(r)
      PROVE  Goal
  BY <1>24 DEF TimerDeletes, DeleteOnce, DeleteFails, CallFails,
    DeleteMessage, HoldsLatest, Holds, Typed, TypeOK, QueueTypeOK,
    AttemptsOK, AttemptOK
<1>25. ASSUME NEW m \in Message, Arrive(m)
      PROVE  Goal
  BY <1>25 DEF Arrive, Enqueue, HoldsLatest, Holds, Typed, TypeOK,
    QueueTypeOK, AttemptsOK, AttemptOK
<1>26. ASSUME NEW m \in Message, Expire(m)
      PROVE  Goal
  BY <1>26 DEF Expire, ExpireVisibility, HoldsLatest, Holds, Typed, TypeOK,
    QueueTypeOK, AttemptsOK, AttemptOK
<1> QED BY <1>1, <1>2, <1>3, <1>4, <1>5, <1>6, <1>7, <1>8, <1>9, <1>10,
           <1>11, <1>12, <1>13, <1>14, <1>15, <1>16, <1>17, <1>18, <1>19,
           <1>20, <1>21, <1>22, <1>23, <1>24, <1>25, <1>26
    DEF Next, Cluster, MainLoop, Goroutine, Clock

\* The timer of processMessage keeps attempts at one message apart: it deletes
\* the message before a second machine can receive it (service.go).
THEOREM AttemptsDoNotOverlap ==
  ASSUME ~EarlyRedelivery, "sqs" \notin Disruptions
  PROVE  Spec => []NoOverlap
<1>1. Init => HoldsLatest
  BY DEF Init, HoldsLatest
<1>2. Typed /\ HoldsLatest /\ [Next]_vars => HoldsLatest'
  <2>1. ASSUME HoldsLatest, UNCHANGED vars PROVE HoldsLatest'
    BY <2>1 DEF HoldsLatest, Holds, vars, queueVars, workerVars, routineVars
  <2>2. ASSUME Typed, HoldsLatest, Next PROVE HoldsLatest'
    BY <2>2, HoldsLatestStep DEF HoldsLatest
  <2> QED BY <2>1, <2>2
<1>3. HoldsLatest => NoOverlap
  BY DEF HoldsLatest, Holds, NoOverlap, At
<1> QED BY <1>1, <1>2, <1>3, AlwaysTyped, PTL DEF Spec
-----------------------------------------------------------------------------
(***************************************************************************)
(* What a step can do to the messages, for those who look at the cluster   *)
(* from the other side of the queue.                                       *)
(***************************************************************************)

\* A step of attempt r concerns nothing but r and its message.
Attends(r) ==
  /\ message[r] \in Message
  /\ message' = message
  /\ queue'[message[r]] \in {queue[message[r]], "gone"}
  /\ \A m \in Message \ {message[r]} : queue'[m] = queue[m]
  /\ \A q \in Receipt \ {r} : Accounts(q)' => Accounts(q)

\* A step that hands a message out, makes one visible, or concerns none.
Quiet ==
  /\ \A m \in Message :
       /\ queue[m] \in {"unsent", "gone"} => queue'[m] = queue[m]
       /\ queue[m] \in {"visible", "inflight"} =>
            queue'[m] \in {"visible", "inflight"}
  /\ \A q \in Receipt :
       /\ \/ message'[q] = message[q]
          \/ /\ message[q] = NoMessage
             /\ message'[q] \in Message
             /\ queue'[message'[q]] = "inflight"
       /\ message'[q] # NoMessage /\ Accounts(q)' => Accounts(q)

LEMMA StepKinds ==
  ASSUME Typed, Cluster
  PROVE  Quiet \/ \E r \in Receipt : Attends(r)
<1> USE DEF queueVars, workerVars, hostVars, routineVars
<1>1. ASSUME NEW h \in Host, Exit(h)
      PROVE  Quiet
  BY <1>1 DEF Exit, Kill, Quiet, Accounts, Failing, Typed, TypeOK,
    QueueTypeOK, AttemptsOK, AttemptOK
<1>2. ASSUME NEW h \in Host, Restart(h)
      PROVE  Quiet
  BY <1>2 DEF Restart, Quiet, Accounts, Failing, Typed, TypeOK, QueueTypeOK,
    AttemptsOK, AttemptOK
<1>3. ASSUME NEW h \in Host, StartPoll(h)
      PROVE  Quiet
  BY <1>3 DEF StartPoll, Quiet, Accounts, Failing, Typed, TypeOK, QueueTypeOK,
    AttemptsOK, AttemptOK
<1>4. ASSUME NEW h \in Host, PollEmpty(h)
      PROVE  Quiet
  BY <1>4 DEF PollEmpty, Quiet, Accounts, Failing, Typed, TypeOK, QueueTypeOK,
    AttemptsOK, AttemptOK
<1>5. ASSUME NEW h \in Host, Signal(h)
      PROVE  Quiet
  BY <1>5 DEF Signal, Quiet, Accounts, Failing, Typed, TypeOK, QueueTypeOK,
    AttemptsOK, AttemptOK
<1>6. ASSUME NEW h \in Host, Crash(h)
      PROVE  Quiet
  BY <1>6 DEF Crash, Kill, Quiet, Accounts, Failing, Typed, TypeOK,
    QueueTypeOK, AttemptsOK, AttemptOK
<1>7. ASSUME NEW h \in Host, NEW m \in Message,
             NEW r \in Receipt, Poll(h, m, r)
      PROVE  Quiet
  BY <1>7 DEF Poll, Dequeue, Quiet, Accounts, Failing, Typed, TypeOK,
    QueueTypeOK, AttemptsOK, AttemptOK
<1>8. ASSUME NEW h \in Host, NEW m \in Message,
             NEW r \in Receipt, PollDrops(h, m, r)
      PROVE  Quiet
  BY <1>8 DEF PollDrops, Dequeue, Quiet, Accounts, Failing, Typed, TypeOK,
    QueueTypeOK, AttemptsOK, AttemptOK
<1>9. ASSUME NEW r \in Receipt, Begin(r)
      PROVE  Attends(r)
  BY <1>9 DEF Begin, At, Goto, Attends, Accounts, Failing, Typed, TypeOK,
    QueueTypeOK, AttemptsOK, AttemptOK
<1>10. ASSUME NEW r \in Receipt, CreateWorkspace(r)
      PROVE  Attends(r)
  BY <1>10 DEF CreateWorkspace, AtStage, At, Advance, Errs, Ends, Goto,
    Attends, Accounts, Failing, Typed, TypeOK, QueueTypeOK, AttemptsOK,
    AttemptOK
<1>11. ASSUME NEW r \in Receipt, Download(r)
      PROVE  Attends(r)
  BY <1>11 DEF Download, AtStage, At, Advance, Errs, IsCtxCanceled, Ends,
    Goto, Attends, Accounts, Failing, Typed, TypeOK, QueueTypeOK, AttemptsOK,
    AttemptOK
<1>12. ASSUME NEW r \in Receipt, Execute(r)
      PROVE  Attends(r)
  BY <1>12 DEF Execute, AtStage, At, Advance, Errs, IsCtxCanceled, Ends, Goto,
    Attends, Accounts, Failing, Typed, TypeOK, QueueTypeOK, AttemptsOK,
    AttemptOK
<1>13. ASSUME NEW r \in Receipt, Upload(r)
      PROVE  Attends(r)
  BY <1>13 DEF Upload, AtStage, At, Errs, IsCtxCanceled, Ends, Goto, Attends,
    Accounts, Failing, Typed, TypeOK, QueueTypeOK, AttemptsOK, AttemptOK
<1>14. ASSUME NEW r \in Receipt, ExecutePanics(r)
      PROVE  Quiet
  BY <1>14 DEF ExecutePanics, Kill, AtStage, At, Quiet, Accounts, Failing,
    Typed, TypeOK, QueueTypeOK, AttemptsOK, AttemptOK
<1>15. ASSUME NEW r \in Receipt, Persist(r)
      PROVE  Attends(r)
  BY <1>15 DEF Persist, At, Goto, TaskAt, Attends, Accounts, Failing, Typed,
    TypeOK, QueueTypeOK, AttemptsOK, AttemptOK
<1>16. ASSUME NEW r \in Receipt, Clean(r)
      PROVE  Attends(r)
  BY <1>16 DEF Clean, At, Goto, TaskAt, Attends, Accounts, Failing, Typed,
    TypeOK, QueueTypeOK, AttemptsOK, AttemptOK
<1>17. ASSUME NEW r \in Receipt, FailDelete(r)
      PROVE  Attends(r)
  BY <1>17 DEF FailDelete, At, Moves, Goto, CallFails, DeleteMessage, Attends,
    Accounts, Failing, Typed, TypeOK, QueueTypeOK, AttemptsOK, AttemptOK
<1>18. ASSUME NEW r \in Receipt, FailSend(r)
      PROVE  Attends(r)
  BY <1>18 DEF FailSend, At, Moves, Goto, CallFails, EnqueueDead, Attends,
    Accounts, Failing, Typed, TypeOK, QueueTypeOK, AttemptsOK, AttemptOK
<1>19. ASSUME NEW r \in Receipt, Delete(r)
      PROVE  Attends(r)
  BY <1>19 DEF Delete, At, Goto, DeleteOnce, DeleteFails, CallFails,
    DeleteMessage, Attends, Accounts, Failing, Typed, TypeOK, QueueTypeOK,
    AttemptsOK, AttemptOK
<1>20. ASSUME NEW r \in Receipt, Report(r)
      PROVE  Attends(r)
  BY <1>20 DEF Report, At, Goto, Attends, Accounts, Failing, Typed, TypeOK,
    QueueTypeOK, AttemptsOK, AttemptOK
<1>21. ASSUME NEW r \in Receipt, Clear(r)
      PROVE  Attends(r)
  BY <1>21 DEF Clear, At, Goto, TaskAt, Attends, Accounts, Failing, Typed,
    TypeOK, QueueTypeOK, AttemptsOK, AttemptOK
<1>22. ASSUME NEW r \in Receipt, Elapse(r)
      PROVE  Attends(r)
  BY <1>22 DEF Elapse, Attends, Accounts, Failing, Typed, TypeOK, QueueTypeOK,
    AttemptsOK, AttemptOK
<1>23. ASSUME NEW r \in Receipt, TimerFires(r)
      PROVE  Attends(r)
  BY <1>23 DEF TimerFires, Attends, Accounts, Failing, Typed, TypeOK,
    QueueTypeOK, AttemptsOK, AttemptOK
<1>24. ASSUME NEW r \in Receipt, TimerDeletes(r)
      PROVE  Attends(r)
  BY <1>24 DEF TimerDeletes, DeleteOnce, DeleteFails, CallFails,
    DeleteMessage, Attends, Accounts, Failing, Typed, TypeOK, QueueTypeOK,
    AttemptsOK, AttemptOK
<1>25. ASSUME NEW m \in Message, Expire(m)
      PROVE  Quiet
  BY <1>25 DEF Expire, ExpireVisibility, Quiet, Accounts, Failing, Typed,
    TypeOK, QueueTypeOK, AttemptsOK, AttemptOK
<1> QED BY <1>1, <1>2, <1>3, <1>4, <1>5, <1>6, <1>7, <1>8, <1>9, <1>10, <1>11,
           <1>12, <1>13, <1>14, <1>15, <1>16, <1>17, <1>18, <1>19, <1>20,
           <1>21, <1>22, <1>23, <1>24, <1>25
    DEF Cluster, MainLoop, Goroutine, Clock

\* What was handed out was sent.
Handed ==
  \A r \in Receipt : message[r] # NoMessage => queue[message[r]] # "unsent"

THEOREM OnlySentIsHandedOut == Spec => []Handed
<1>1. Init => Handed
  BY DEF Init, QueueInit, Handed
<1>2. Typed /\ Handed /\ [Next]_vars => Handed'
  <2> SUFFICES ASSUME Typed, Handed, [Next]_vars, NEW r \in Receipt,
                      message'[r] # NoMessage
               PROVE  queue'[message'[r]] # "unsent"
    BY DEF Handed
  <2>1. CASE UNCHANGED vars
    BY <2>1 DEF Handed, vars, queueVars
  <2>2. ASSUME NEW m \in Message, Arrive(m)
        PROVE  queue'[message'[r]] # "unsent"
    BY <2>2 DEF Handed, Typed, TypeOK, QueueTypeOK, Arrive, Enqueue
  <2>3. CASE Quiet
    <3>1. message[r] \in Message \cup {NoMessage}
      BY DEF Typed, TypeOK, QueueTypeOK
    <3>2. CASE message'[r] = message[r]
      <4>1. message[r] \in Message /\ queue[message[r]] # "unsent"
        BY <3>1, <3>2 DEF Handed
      <4>2. queue[message[r]] \in {"visible", "inflight", "gone"}
        BY <4>1 DEF Typed, TypeOK, QueueTypeOK, QueueState
      <4> QED BY <2>3, <3>2, <4>1, <4>2 DEF Quiet
    <3>3. CASE message'[r] # message[r]
      BY <2>3, <3>3 DEF Quiet
    <3> QED BY <3>2, <3>3
  <2>4. ASSUME NEW q \in Receipt, Attends(q)
        PROVE  queue'[message'[r]] # "unsent"
    BY <2>4 DEF Attends, Handed, Typed, TypeOK, QueueTypeOK
  <2> QED BY <2>1, <2>2, <2>3, <2>4, StepKinds DEF Next
<1> QED BY <1>1, <1>2, AlwaysTyped, PTL DEF Spec
=============================================================================
