------------------------ MODULE AsyncOperationsProofs ------------------------
(***************************************************************************)
(* Theorems about AsyncOperations, for every set of blocks, keys and       *)
(* values, checked by TLAPS: answers and the registry first; then what     *)
(* becomes of completions, that none is lost and that the in-flight count  *)
(* lets stop() go on only when nothing is on its way; at last that the     *)
(* deferral layer implements DeferredService.                              *)
(***************************************************************************)
EXTENDS AsyncService, FiniteSetTheorems, Integers, TLAPS

\* The statuses of operations that the stack does not keep.
Refusals == {"BadWaitingForResponse", "BadTooManyOperations"}

-----------------------------------------------------------------------------
(* Type correctness.                                                       *)

LEMMA CounterArithmetic ==
    ASSUME NEW n \in 0 .. CounterSize - 1
    PROVE  /\ Incremented(n) \in 0 .. CounterSize - 1
           /\ Decremented(n) \in 0 .. CounterSize - 1
  BY ConstantsAssumption DEF Incremented, Decremented

LEMMA TypeInit == Init => TypeOK
<1> SUFFICES ASSUME Init PROVE TypeOK
  OBVIOUS
<1> USE ConstantsAssumption DEF Init
<1>1. /\ stage \in [Blocks -> Stages]
      /\ completer \in [Blocks -> CompleterStates]
      /\ phase \in [Blocks -> {"Initial", "Finished", "Deferred"}]
      /\ key \in [Blocks -> Keys \cup {NoKey}]
  BY DEF Stages, CompleterStates
<1>2. /\ result \in [Blocks -> AllCompletions \cup {Unanswered}]
      /\ answer \in [Blocks -> AllAnswers \cup {Unanswered}]
      /\ opState \in [Blocks -> {"idle", "executing", "waiting", "ready", "released"}]
  OBVIOUS
<1>3. pending \in [Keys -> Blocks \cup {NoBlock}]
  OBVIOUS
<1>4. queue \in Seq(Blocks) /\ batch \in Seq(Blocks)
  OBVIOUS
<1>5. inflight \in 0 .. CounterSize - 1
  OBVIOUS
<1>6. QED
  BY <1>1, <1>2, <1>3, <1>4, <1>5 DEF TypeOK

LEMMA TypeNext == TypeOK /\ [Next]_vars => TypeOK'
<1> SUFFICES ASSUME TypeOK, [Next]_vars PROVE TypeOK'
  OBVIOUS
<1> USE ConstantsAssumption DEF TypeOK, Stages, CompleterStates
<1>1. ASSUME NEW b \in Blocks, NEW k \in Keys, Begin(b, k) PROVE TypeOK'
  BY <1>1 DEF Begin, opsVars, lifeVars
<1>2. ASSUME NEW b \in Blocks, NEW k \in Keys, AnswerSynchronously(b, k) PROVE TypeOK'
  BY <1>2 DEF AnswerSynchronously, opsVars, lifeVars, AllAnswers, HandlerStatuses
<1>3. ASSUME NEW b \in Blocks, NEW v \in Values, Store(b, v)
      PROVE TypeOK'
  BY <1>3 DEF Store, stackVars, opsVars, lifeVars, AllCompletions
<1>4. ASSUME NEW b \in Blocks, FinishInline(b) PROVE TypeOK'
  BY <1>4 DEF FinishInline, Written, opsVars, lifeVars, AllAnswers
<1>5. ASSUME NEW b \in Blocks, RefuseCall(b) PROVE TypeOK'
  BY <1>5 DEF RefuseCall, opsVars, lifeVars, AllAnswers, HandlerStatuses
<1>6. ASSUME NEW b \in Blocks, Defer(b) PROVE TypeOK'
  BY <1>6 DEF Defer, stackVars, opsVars, lifeVars
<1>7. ASSUME NEW b \in Blocks, CountInflight(b) PROVE TypeOK'
  BY <1>7, CounterArithmetic DEF CountInflight, stackVars, lifeVars
<1>8. ASSUME NEW b \in Blocks, Register(b) PROVE TypeOK'
  BY <1>8 DEF Register, Registered, stackVars, lifeVars
<1>9. ASSUME NEW b \in Blocks, StackEnqueue(b) PROVE TypeOK'
  BY <1>9 DEF StackEnqueue, opsVars, lifeVars
<1>10. ASSUME NEW b \in Blocks, NEW s \in Refusals, NotKept(b, s)
       PROVE  TypeOK'
  BY <1>10 DEF NotKept, Erased, Written, lifeVars, AllAnswers, StackStatuses, Refusals
<1>11. ASSUME NEW b \in Blocks, Exchange(b) PROVE TypeOK'
  BY <1>11 DEF Exchange, stackVars, opsVars, lifeVars
<1>12. ASSUME NEW b \in Blocks, LockSelf(b) PROVE TypeOK'
  BY <1>12 DEF LockSelf, stackVars, opsVars, lifeVars
<1>13. ASSUME NEW b \in Blocks, UseDestroyed(b) PROVE TypeOK'
  BY <1>13 DEF UseDestroyed, stackVars, opsVars, lifeVars
<1>14. ASSUME NEW b \in Blocks, Push(b) PROVE TypeOK'
  <2>1. QueuedAfter(b) \in Seq(Blocks)
    BY DEF QueuedAfter
  <2>2. inflight' \in 0 .. CounterSize - 1
    BY <1>14, CounterArithmetic DEF Push
  <2>3. QED
    BY <1>14, <2>1, <2>2 DEF Push, stackVars, lifeVars
<1>15. ASSUME NEW b \in Blocks, Timeout(b) PROVE TypeOK'
  BY <1>15 DEF Timeout, StackCancels, Erased, CancelledOp, Written, blockVars,
               lifeVars, AllAnswers, StackStatuses
<1>16. ASSUME NEW b \in Blocks, ClientCancel(b) PROVE TypeOK'
  BY <1>16 DEF ClientCancel, StackCancels, Erased, CancelledOp, Written, blockVars,
               lifeVars, AllAnswers, StackStatuses
<1>17. ASSUME NEW b \in Blocks, Release(b) PROVE TypeOK'
  BY <1>17 DEF Release, blockVars, opsVars, lifeVars
<1>18. ASSUME DrainSwap PROVE TypeOK'
  BY <1>18 DEF DrainSwap, blockVars, stackVars
<1>19. ASSUME DrainFinish PROVE TypeOK'
  <2> DEFINE d == Head(batch)
  <2>1. d \in Blocks /\ batch' \in Seq(Blocks)
    BY <1>19 DEF DrainFinish
  <2>2. answer' = Written(key[d], result[d]) /\ opState' = MadeReady(key[d])
    BY <1>19 DEF DrainFinish
  <2>3. answer' \in [Blocks -> AllAnswers \cup {Unanswered}]
    BY <2>1, <2>2 DEF Written, AllAnswers
  <2>4. opState' \in [Blocks -> {"idle", "executing", "waiting", "ready", "released"}]
    BY <2>1, <2>2 DEF MadeReady
  <2>5. pending' \in [Keys -> Blocks \cup {NoBlock}]
    BY <1>19 DEF DrainFinish
  <2>6. QED
    BY <1>19, <2>1, <2>3, <2>4, <2>5 DEF DrainFinish, blockVars, lifeVars
<1>20. ASSUME DrainDrop PROVE TypeOK'
  BY <1>20 DEF DrainDrop, blockVars, stackVars, lifeVars
<1>21. ASSUME Start \/ LowerFlag \/ LeaveLoop \/ ThreadEnds \/ CallStop PROVE TypeOK'
  <2>1. CASE Start
    BY <2>1 DEF Start, blockVars, stackVars, opsVars
  <2>2. CASE LowerFlag
    BY <2>2 DEF LowerFlag, blockVars, stackVars, opsVars
  <2>3. CASE LeaveLoop
    BY <2>3 DEF LeaveLoop, blockVars, stackVars, opsVars
  <2>4. CASE ThreadEnds
    BY <2>4 DEF ThreadEnds, blockVars, stackVars, opsVars
  <2>5. CASE CallStop
    BY <2>5 DEF CallStop, blockVars, stackVars, opsVars
  <2>6. QED
    BY <1>21, <2>1, <2>2, <2>3, <2>4, <2>5
<1>22. ASSUME Close \/ ShutdownDone \/ ShutdownGivesUp \/ ClearRegistry PROVE TypeOK'
  BY <1>22 DEF Close, ShutdownDone, ShutdownGivesUp, ClearRegistry, blockVars,
               stackVars, opsVars
<1>23. ASSUME DeleteServer \/ DeleteOperations PROVE TypeOK'
  BY <1>23 DEF DeleteServer, DeleteOperations, blockVars, stackVars, opsVars,
               AllAnswers, StackStatuses
<1>24. CASE UNCHANGED vars
  BY <1>24 DEF vars, blockVars, stackVars, opsVars, lifeVars
<1>25. QED
  BY <1>1, <1>2, <1>3, <1>4, <1>5, <1>6, <1>7, <1>8, <1>9, <1>10, <1>11, <1>12,
     <1>13, <1>14, <1>15, <1>16, <1>17, <1>18, <1>19, <1>20, <1>21, <1>22, <1>23,
     <1>24 DEF Next, HandlerStep, StackDeclines, StackRefuses, Refusals, WorkerStep,
               DrainStep, StopStep

(* Every variable keeps its type. *)
THEOREM TypeCorrect == Spec => []TypeOK
<1>1. Init => TypeOK
  BY TypeInit
<1>2. TypeOK /\ [Next]_vars => TypeOK'
  BY TypeNext
<1>3. QED
  BY <1>1, <1>2, PTL DEF Spec

-----------------------------------------------------------------------------
(* The inductive invariant.  Slots are handed out one user at a time and    *)
(* the registry follows the stack, so a completion that is current writes   *)
(* the slot of its own operation and of no other.                           *)

LEMMA SlotInit == Init => SlotInv
<1> SUFFICES ASSUME Init PROVE SlotInv
  OBVIOUS
<1>1. TypeOK
  BY TypeInit
<1>2. StagesAgree /\ CompletersAgree /\ OpenAreEmpty
  BY DEF Init, StagesAgree, CompletersAgree, OpenAreEmpty, HandlerOf
<1>3. SlotsExclusive /\ RegistryExact /\ AnswerIsOwn
  BY DEF Init, SlotsExclusive, RegistryExact, AnswerIsOwn, UsesSlot
<1>4. OneAtATime /\ QueuedArePushed
  BY DEF Init, OneAtATime, QueuedArePushed, HandlerOf
<1>5. QED
  BY <1>1, <1>2, <1>3, <1>4 DEF SlotInv

(* While the invariant holds, a slot in use has exactly one user. *)
LEMMA OneSlotUser ==
    ASSUME SlotsExclusive, NEW b \in Blocks, UsesSlot(b)
    PROVE  SlotUsers(key[b]) = {b}
  BY DEF SlotsExclusive, SlotUsers

(* A write into the slot of an operation in flight changes its answer only. *)
LEMMA WrittenIsOwn ==
    ASSUME TypeOK, SlotsExclusive, NEW b \in Blocks, UsesSlot(b), NEW a
    PROVE  Written(key[b], a) = [answer EXCEPT ![b] = a]
  BY OneSlotUser DEF Written, TypeOK

(* A block that drain() finds current is the one its operation waits for. *)
LEMMA CurrentIsWaiting ==
    ASSUME SlotInv, batch # <<>>, IsCurrent(Head(batch))
    PROVE  /\ Head(batch) \in Blocks
           /\ opState[Head(batch)] = "waiting"
           /\ result[Head(batch)] \in Completions(Head(batch))
           /\ MadeReady(key[Head(batch)]) =
                 [opState EXCEPT ![Head(batch)] = "ready"]
<1> DEFINE d == Head(batch)
<1>1. d \in Blocks /\ completer[d] = "pushed"
  BY DEF SlotInv, TypeOK, QueuedArePushed
<1>2. stage[d] # "fresh" /\ key[d] \in Keys /\ result[d] \in Completions(d)
  BY <1>1 DEF SlotInv, StagesAgree, CompletersAgree
<1>3. pending[key[d]] = d
  BY DEF IsCurrent
<1>4. stage[d] # "registered"
  BY <1>1 DEF SlotInv, OneAtATime, HandlerOf
<1>5. opState[d] = "waiting"
  BY <1>1, <1>2, <1>3, <1>4, ConstantsAssumption DEF SlotInv, RegistryExact
<1>6. \A b \in Blocks : opState[b] = "waiting" /\ key[b] = key[d] => b = d
  BY <1>1, <1>5 DEF SlotInv, SlotsExclusive, UsesSlot
<1>7. QED
  BY <1>1, <1>2, <1>5, <1>6 DEF MadeReady, SlotInv, TypeOK

LEMMA SlotNext == SlotInv /\ [Next]_vars => SlotInv'
<1> SUFFICES ASSUME SlotInv, [Next]_vars PROVE SlotInv'
  OBVIOUS
<1>0. TypeOK /\ TypeOK'
  BY TypeNext DEF SlotInv
<1> USE <1>0, ConstantsAssumption
    DEF SlotInv, TypeOK, StagesAgree, CompletersAgree, SlotsExclusive, RegistryExact,
        OneAtATime, QueuedArePushed, OpenAreEmpty, AnswerIsOwn, Answers, UsesSlot,
        HandlerOf, RegistryLives, blockVars, stackVars, opsVars, lifeVars
<1>1. ASSUME NEW b \in Blocks, NEW k \in Keys, Begin(b, k) PROVE SlotInv'
  BY <1>1 DEF Begin, ServerServes, ServerIdle, SlotUsers
<1>2. ASSUME NEW b \in Blocks, NEW k \in Keys, AnswerSynchronously(b, k) PROVE SlotInv'
  BY <1>2 DEF AnswerSynchronously, ServerServes, ServerIdle, SlotUsers, HandlerStatuses
<1>3. ASSUME NEW b \in Blocks, NEW v \in Values, Store(b, v) PROVE SlotInv'
  BY <1>3 DEF Store, Completions
<1>4. ASSUME NEW b \in Blocks, FinishInline(b) PROVE SlotInv'
  <2>1. answer' = [answer EXCEPT ![b] = result[b]]
    BY <1>4, WrittenIsOwn DEF FinishInline
  <2>2. QED
    BY <1>4, <2>1 DEF FinishInline, PhaseFound
<1>5. ASSUME NEW b \in Blocks, RefuseCall(b) PROVE SlotInv'
  BY <1>5 DEF RefuseCall, HandlerStatuses
<1>6. ASSUME NEW b \in Blocks, Defer(b) PROVE SlotInv'
  BY <1>6 DEF Defer, PhaseFound
<1>7. ASSUME NEW b \in Blocks, CountInflight(b) PROVE SlotInv'
  BY <1>7 DEF CountInflight
<1>8. ASSUME NEW b \in Blocks, Register(b) PROVE SlotInv'
  BY <1>8 DEF Register, Registered
<1>9. ASSUME NEW b \in Blocks, StackEnqueue(b) PROVE SlotInv'
  BY <1>9 DEF StackEnqueue
<1>10. ASSUME NEW b \in Blocks, NEW s \in Refusals, NotKept(b, s)
       PROVE  SlotInv'
  <2>1. answer' = [answer EXCEPT ![b] = Status(s)]
    BY <1>10, WrittenIsOwn DEF NotKept
  <2>2. QED
    BY <1>10, <2>1 DEF NotKept, Erased, StackStatuses, Refusals
<1>11. ASSUME NEW b \in Blocks, Exchange(b) PROVE SlotInv'
  BY <1>11 DEF Exchange
<1>12. ASSUME NEW b \in Blocks, LockSelf(b) PROVE SlotInv'
  BY <1>12 DEF LockSelf
<1>13. ASSUME NEW b \in Blocks, UseDestroyed(b) PROVE SlotInv'
  BY <1>13 DEF UseDestroyed, Reachable, Referenced
<1>14. ASSUME NEW b \in Blocks, Push(b) PROVE SlotInv'
  BY <1>14 DEF Push, QueuedAfter
<1>15. ASSUME NEW b \in Blocks, StackCancels(b, "BadTimeout") PROVE SlotInv'
  <2>1. answer' = [answer EXCEPT ![b] = Status("BadTimeout")]
    BY <1>15, WrittenIsOwn DEF StackCancels
  <2>2. QED
    BY <1>15, <2>1 DEF StackCancels, Erased, CancelledOp, ServerIdle, StackStatuses
<1>16. ASSUME NEW b \in Blocks, StackCancels(b, "BadOperationAbandoned") PROVE SlotInv'
  <2>1. answer' = [answer EXCEPT ![b] = Status("BadOperationAbandoned")]
    BY <1>16, WrittenIsOwn DEF StackCancels
  <2>2. QED
    BY <1>16, <2>1 DEF StackCancels, Erased, CancelledOp, ServerIdle, StackStatuses
<1>17. ASSUME NEW b \in Blocks, Release(b) PROVE SlotInv'
  BY <1>17 DEF Release, ServerServes, ServerIdle
<1>18. ASSUME DrainSwap PROVE SlotInv'
  BY <1>18 DEF DrainSwap, ServerServes, ServerIdle
<1>19. ASSUME DrainFinish PROVE SlotInv'
  <2> DEFINE d == Head(batch)
  <2>1. /\ d \in Blocks /\ opState[d] = "waiting"
        /\ result[d] \in Completions(d)
        /\ opState' = [opState EXCEPT ![d] = "ready"]
    BY <1>19, CurrentIsWaiting DEF DrainFinish
  <2>2. answer' = [answer EXCEPT ![d] = result[d]]
    <3>1. Written(key[d], result[d]) = [answer EXCEPT ![d] = result[d]]
      <4> HIDE DEF d
      <4>1. UsesSlot(d)
        BY <2>1
      <4>2. QED
        BY <2>1, <4>1, WrittenIsOwn
    <3>2. QED
      BY <1>19, <3>1 DEF DrainFinish
  <2>3. pending' = [pending EXCEPT ![key[d]] = NoBlock] /\ batch' = Tail(batch)
    BY <1>19 DEF DrainFinish
  <2>4. UNCHANGED <<blockVars, queue, lifeVars>>
    BY <1>19 DEF DrainFinish
  <2>5. QED
    BY <2>1, <2>2, <2>3, <2>4
<1>20. ASSUME DrainDrop PROVE SlotInv'
  BY <1>20 DEF DrainDrop
<1>21. ASSUME Start PROVE SlotInv'
  BY <1>21 DEF Start
<1>22. ASSUME LowerFlag PROVE SlotInv'
  BY <1>22 DEF LowerFlag
<1>23. ASSUME LeaveLoop PROVE SlotInv'
  BY <1>23 DEF LeaveLoop, ServerIdle
<1>24. ASSUME ThreadEnds PROVE SlotInv'
  BY <1>24 DEF ThreadEnds, ServerIdle
<1>25. ASSUME CallStop PROVE SlotInv'
  BY <1>25 DEF CallStop
<1>26. ASSUME Close PROVE SlotInv'
  BY <1>26 DEF Close
<1>27. ASSUME ShutdownDone PROVE SlotInv'
  BY <1>27 DEF ShutdownDone
<1>28. ASSUME ShutdownGivesUp PROVE SlotInv'
  BY <1>28 DEF ShutdownGivesUp
<1>29. ASSUME ClearRegistry PROVE SlotInv'
  BY <1>29 DEF ClearRegistry
<1>30. ASSUME DeleteServer PROVE SlotInv'
  BY <1>30 DEF DeleteServer, StackStatuses
<1>31. ASSUME DeleteOperations PROVE SlotInv'
  BY <1>31 DEF DeleteOperations
<1>32. CASE UNCHANGED vars
  BY <1>32 DEF vars
<1>33. QED
  BY <1>1, <1>2, <1>3, <1>4, <1>5, <1>6, <1>7, <1>8, <1>9, <1>10, <1>11, <1>12, <1>13,
     <1>14, <1>15, <1>16, <1>17, <1>18, <1>19, <1>20, <1>21, <1>22, <1>23, <1>24, <1>25, <1>26,
     <1>27, <1>28, <1>29, <1>30, <1>31, <1>32
     DEF Next, HandlerStep, StackDeclines, StackRefuses, Refusals, WorkerStep, DrainStep,
         StopStep, Timeout, ClientCancel

(* Slots, registry, queue and answers agree in every reachable state. *)
THEOREM SlotsAgree == Spec => []SlotInv
<1>1. Init => SlotInv
  BY SlotInit
<1>2. SlotInv /\ [Next]_vars => SlotInv'
  BY SlotNext
<1>3. QED
  BY <1>1, <1>2, PTL DEF Spec

-----------------------------------------------------------------------------
(* What follows from the inductive invariant.                              *)

(* Every answer is the operation's own completion or a status: drain() and  *)
(* finishInline() never put one operation's result into another's slot.     *)
THEOREM AnswersAreOwn == Spec => []AnswerIsOwn
<1>1. SlotInv => AnswerIsOwn
  BY DEF SlotInv
<1>2. QED
  BY <1>1, SlotsAgree, PTL

(* Between handlers m_pending holds exactly the operations the stack waits   *)
(* for, under the slot each of them uses.                                   *)
THEOREM RegistryAgreement == Spec => []RegistryAgrees
<1>1. SlotInv => RegistryAgrees
  <2> SUFFICES ASSUME SlotInv, ServerIdle, RegistryLives, NEW k \in Keys, NEW b \in Blocks
               PROVE  pending[k] = b <=> opState[b] = "waiting" /\ key[b] = k
    BY DEF RegistryAgrees, RegistryLives
  <2>1. b # NoBlock /\ stage[b] # "registered"
    BY ConstantsAssumption DEF ServerIdle, HandlerOf
  <2>2. pending[k] = b => opState[b] = "waiting" /\ key[b] = k
    BY <2>1 DEF SlotInv, RegistryExact
  <2>3. opState[b] = "waiting" /\ key[b] = k => pending[k] = b
    BY DEF SlotInv, RegistryExact
  <2>4. QED
    BY <2>2, <2>3
<1>2. QED
  BY <1>1, SlotsAgree, PTL

(* The steps that touch the stack's operations or slots touch only those    *)
(* that are still open.                                                     *)
LEMMA StepKeepsAnswers ==
    ASSUME SlotInv, [Next]_vars, NEW a \in Blocks
    PROVE  AnswerKept(a)
<1>0. TypeOK
  BY DEF SlotInv
<1> SUFFICES ASSUME opState[a] \in {"ready", "released"}
             PROVE  /\ opState'[a] \in {opState[a], "released"}
                    /\ answer'[a] = answer[a]
  BY DEF AnswerKept
<1> DEFINE Kept == /\ opState'[a] \in {opState[a], "released"}
                   /\ answer'[a] = answer[a]
<1>1. ASSUME NEW b \in Blocks, NEW k \in Keys, Begin(b, k) PROVE Kept
  BY <1>0, <1>1 DEF Begin, TypeOK, SlotInv, StagesAgree
<1>2. ASSUME NEW b \in Blocks, NEW k \in Keys, AnswerSynchronously(b, k) PROVE Kept
  BY <1>0, <1>2 DEF AnswerSynchronously, TypeOK, SlotInv, StagesAgree
<1>3. ASSUME NEW b \in Blocks, FinishInline(b) PROVE Kept
  <2>1. opState[b] = "executing"
    BY <1>3 DEF FinishInline, SlotInv, StagesAgree, HandlerOf
  <2>2. answer' = [answer EXCEPT ![b] = result[b]]
    BY <1>0, <1>3, <2>1, WrittenIsOwn DEF FinishInline, SlotInv, UsesSlot
  <2>3. QED
    BY <1>0, <1>3, <2>1, <2>2 DEF FinishInline, TypeOK
<1>4. ASSUME NEW b \in Blocks, RefuseCall(b) PROVE Kept
  BY <1>0, <1>4 DEF RefuseCall, TypeOK, SlotInv, StagesAgree, HandlerOf
<1>5. ASSUME NEW b \in Blocks, StackEnqueue(b) PROVE Kept
  BY <1>0, <1>5 DEF StackEnqueue, TypeOK, SlotInv, StagesAgree, HandlerOf
<1>6. ASSUME NEW b \in Blocks, NEW s \in Refusals, NotKept(b, s)
      PROVE  Kept
  <2>1. opState[b] = "executing"
    BY <1>6 DEF NotKept, SlotInv, StagesAgree, HandlerOf
  <2>2. answer' = [answer EXCEPT ![b] = Status(s)]
    BY <1>0, <1>6, <2>1, WrittenIsOwn DEF NotKept, SlotInv, UsesSlot
  <2>3. QED
    BY <1>0, <1>6, <2>1, <2>2 DEF NotKept, TypeOK
<1>7. ASSUME NEW b \in Blocks, NEW s, StackCancels(b, s) PROVE Kept
  <2>1. opState[b] = "waiting"
    BY <1>7 DEF StackCancels
  <2>2. answer' = [answer EXCEPT ![b] = Status(s)]
    BY <1>0, <1>7, <2>1, WrittenIsOwn DEF StackCancels, SlotInv, UsesSlot
  <2>3. QED
    BY <1>0, <1>7, <2>1, <2>2 DEF StackCancels, CancelledOp, TypeOK
<1>8. ASSUME NEW b \in Blocks, Release(b) PROVE Kept
  BY <1>0, <1>8 DEF Release, TypeOK
<1>9. ASSUME DrainFinish PROVE Kept
  <2> DEFINE d == Head(batch)
  <2>1. /\ d \in Blocks /\ opState[d] = "waiting"
        /\ opState' = [opState EXCEPT ![d] = "ready"]
    BY <1>9, CurrentIsWaiting DEF DrainFinish
  <2>2. answer' = Written(key[d], result[d])
    BY <1>9 DEF DrainFinish
  <2> HIDE DEF d
  <2>3. answer' = [answer EXCEPT ![d] = result[d]]
    BY <1>0, <2>1, <2>2, WrittenIsOwn DEF SlotInv, UsesSlot
  <2>4. QED
    BY <1>0, <2>1, <2>3 DEF TypeOK
<1>10. ASSUME DeleteServer PROVE Kept
  BY <1>0, <1>10 DEF DeleteServer, TypeOK, UsesSlot
<1>11. ASSUME UNCHANGED stackVars PROVE Kept
  BY <1>11 DEF stackVars
<1>12. ASSUME NEW b \in Blocks,
              \/ \E v \in Values : Store(b, v)
              \/ Defer(b) \/ CountInflight(b) \/ Register(b) \/ WorkerStep(b)
       PROVE  UNCHANGED stackVars
  BY <1>12 DEF Store, Defer, CountInflight, Register, WorkerStep, Exchange,
               LockSelf, Push, UseDestroyed
<1>13. ASSUME \/ DrainSwap \/ DrainDrop \/ Start \/ LowerFlag \/ LeaveLoop
              \/ ThreadEnds \/ CallStop \/ Close \/ ShutdownDone
              \/ ShutdownGivesUp \/ ClearRegistry \/ DeleteOperations
       PROVE  UNCHANGED stackVars
  BY <1>13 DEF DrainSwap, DrainDrop, Start, LowerFlag, LeaveLoop, ThreadEnds,
               CallStop, Close, ShutdownDone, ShutdownGivesUp, ClearRegistry,
               DeleteOperations
<1>14. CASE UNCHANGED vars
  BY <1>11, <1>14 DEF vars
<1>15. QED
  BY <1>1, <1>2, <1>3, <1>4, <1>5, <1>6, <1>7, <1>8, <1>9, <1>10, <1>11, <1>12,
     <1>13, <1>14
     DEF Next, HandlerStep, StackDeclines, StackRefuses, Refusals, DrainStep, StopStep,
         Timeout, ClientCancel

(* Once an operation has its answer, no step changes it: late completions   *)
(* of timed-out or cancelled operations and the shutdown included.          *)
THEOREM AnswersAreFinal == Spec => AnswerFinal
<1>1. SlotInv /\ [Next]_vars => [\A b \in Blocks : AnswerKept(b)]_vars
  BY StepKeepsAnswers
<1>2. QED
  BY <1>1, SlotsAgree, PTL DEF Spec, AnswerFinal

-----------------------------------------------------------------------------
(* The steps that leave the block alone, and sequences.                    *)

LEMMA BlocksLeftAlone ==
    ASSUME \/ DrainStep \/ Start \/ LowerFlag \/ LeaveLoop \/ ThreadEnds
           \/ CallStop \/ StopStep
           \/ \E b \in Blocks : Timeout(b) \/ ClientCancel(b) \/ Release(b)
           \/ UNCHANGED vars
    PROVE  UNCHANGED blockVars
<1>1. CASE DrainStep
  BY <1>1 DEF DrainStep, DrainSwap, DrainFinish, DrainDrop
<1>2. CASE Start \/ LowerFlag \/ LeaveLoop \/ ThreadEnds \/ CallStop
  BY <1>2 DEF Start, LowerFlag, LeaveLoop, ThreadEnds, CallStop
<1>3. CASE StopStep
  BY <1>3 DEF StopStep, Close, ShutdownDone, ShutdownGivesUp, ClearRegistry,
              DeleteServer, DeleteOperations
<1>4. CASE \E b \in Blocks : Timeout(b) \/ ClientCancel(b) \/ Release(b)
  BY <1>4 DEF Timeout, ClientCancel, Release, StackCancels
<1>5. CASE UNCHANGED vars
  BY <1>5 DEF vars
<1>6. QED
  BY <1>1, <1>2, <1>3, <1>4, <1>5

LEMMA AppendRange ==
    ASSUME NEW s \in Seq(Blocks), NEW b \in Blocks
    PROVE  Range(Append(s, b)) = Range(s) \cup {b}
<1>1. /\ DOMAIN Append(s, b) = DOMAIN s \cup {Len(s) + 1}
      /\ Append(s, b)[Len(s) + 1] = b
      /\ \A i \in DOMAIN s : Append(s, b)[i] = s[i]
  OBVIOUS
<1>2. QED
  BY <1>1 DEF Range

LEMMA TailRange ==
    ASSUME NEW s \in Seq(Blocks), s # <<>>, NEW b \in Range(s), b # Head(s)
    PROVE  b \in Range(Tail(s))
<1>1. PICK i \in DOMAIN s : s[i] = b
  BY DEF Range
<1>2. i \in 1..Len(s) /\ i # 1
  BY <1>1
<1>3. i - 1 \in DOMAIN Tail(s) /\ Tail(s)[i - 1] = b
  BY <1>1, <1>2
<1>4. QED
  BY <1>3 DEF Range

-----------------------------------------------------------------------------
(* No completion is lost.                                                  *)

LEMMA RaceNext ==
    ASSUME SlotInv, DeferralInv, [Next]_vars
    PROVE  RaceDecided'
<1>0. TypeOK /\ CompletersAgree /\ StagesAgree /\ RaceDecided
  BY DEF SlotInv, DeferralInv
<1> USE <1>0 DEF TypeOK, CompletersAgree, StagesAgree, RaceDecided,
                 DeferringStages, HandlerOf
<1>1. ASSUME NEW b \in Blocks, NEW k \in Keys, Begin(b, k) PROVE RaceDecided'
  BY <1>1 DEF Begin
<1>2. ASSUME NEW b \in Blocks, NEW k \in Keys, AnswerSynchronously(b, k)
      PROVE  RaceDecided'
  BY <1>2 DEF AnswerSynchronously
<1>3. ASSUME NEW b \in Blocks, NEW v \in Values, Store(b, v) PROVE RaceDecided'
  BY <1>3 DEF Store
<1>4. ASSUME NEW b \in Blocks, FinishInline(b) PROVE RaceDecided'
  BY <1>4 DEF FinishInline, PhaseFound
<1>5. ASSUME NEW b \in Blocks, RefuseCall(b) PROVE RaceDecided'
  BY <1>5 DEF RefuseCall
<1>6. ASSUME NEW b \in Blocks, Defer(b) PROVE RaceDecided'
  BY <1>6 DEF Defer, PhaseFound
<1>7. ASSUME NEW b \in Blocks, CountInflight(b) PROVE RaceDecided'
  BY <1>7 DEF CountInflight
<1>8. ASSUME NEW b \in Blocks, Register(b) PROVE RaceDecided'
  BY <1>8 DEF Register
<1>9. ASSUME NEW b \in Blocks, StackEnqueue(b) PROVE RaceDecided'
  BY <1>9 DEF StackEnqueue
<1>10. ASSUME NEW b \in Blocks, NEW s \in Refusals, NotKept(b, s)
       PROVE  RaceDecided'
  BY <1>10 DEF NotKept
<1>11. ASSUME NEW b \in Blocks, Exchange(b) PROVE RaceDecided'
  BY <1>11 DEF Exchange
<1>12. ASSUME NEW b \in Blocks, LockSelf(b) PROVE RaceDecided'
  BY <1>12 DEF LockSelf
<1>13. ASSUME NEW b \in Blocks, UseDestroyed(b) PROVE RaceDecided'
  BY <1>13 DEF UseDestroyed, Reachable, Referenced
<1>14. ASSUME NEW b \in Blocks, Push(b) PROVE RaceDecided'
  BY <1>14 DEF Push
<1>15. ASSUME UNCHANGED blockVars PROVE RaceDecided'
  BY <1>15 DEF blockVars
<1>16. QED
  BY <1>1, <1>2, <1>3, <1>4, <1>5, <1>6, <1>7, <1>8, <1>9, <1>10, <1>11, <1>12,
     <1>13, <1>14, <1>15, BlocksLeftAlone DEF Next, HandlerStep, StackDeclines,
                                              StackRefuses, Refusals, WorkerStep

LEMMA ClosedNext ==
    ASSUME TypeOK, ClosedByStop, [Next]_vars
    PROVE  ClosedByStop' /\ (closed => closed')
<1> USE DEF TypeOK, ClosedByStop, lifeVars, opsVars
<1> DEFINE Goal == ClosedByStop' /\ (closed => closed')
<1>1. ASSUME UNCHANGED <<closed, main>> PROVE Goal
  BY <1>1
<1>2. ASSUME NEW b \in Blocks, NEW k \in Keys,
             Begin(b, k) \/ AnswerSynchronously(b, k)
      PROVE  UNCHANGED <<closed, main>>
  BY <1>2 DEF Begin, AnswerSynchronously
<1>3. ASSUME NEW b \in Blocks, HandlerStep(b) PROVE UNCHANGED <<closed, main>>
  BY <1>3 DEF HandlerStep, FinishInline, RefuseCall, Defer, CountInflight,
              Register, StackEnqueue, StackDeclines, StackRefuses, NotKept
<1>4. ASSUME NEW b \in Blocks, WorkerStep(b) \/ \E v \in Values : Store(b, v)
      PROVE  UNCHANGED <<closed, main>>
  BY <1>4 DEF WorkerStep, Exchange, LockSelf, Push, UseDestroyed, Store
<1>5. ASSUME NEW b \in Blocks, Timeout(b) \/ ClientCancel(b) \/ Release(b)
      PROVE  UNCHANGED <<closed, main>>
  BY <1>5 DEF Timeout, ClientCancel, Release, StackCancels
<1>6. ASSUME DrainFinish \/ DrainDrop \/ LowerFlag \/ LeaveLoop \/ ThreadEnds
      PROVE  UNCHANGED <<closed, main>>
  BY <1>6 DEF DrainFinish, DrainDrop, LowerFlag, LeaveLoop, ThreadEnds
<1>7. ASSUME DrainSwap \/ Start \/ CallStop PROVE Goal
  BY <1>7 DEF DrainSwap, Start, CallStop
<1>8. ASSUME Close \/ ShutdownDone \/ ShutdownGivesUp PROVE Goal
  BY <1>8 DEF Close, ShutdownDone, ShutdownGivesUp
<1>9. ASSUME ClearRegistry \/ DeleteServer \/ DeleteOperations PROVE Goal
  BY <1>9 DEF ClearRegistry, DeleteServer, DeleteOperations
<1>10. ASSUME UNCHANGED vars PROVE UNCHANGED <<closed, main>>
  BY <1>10 DEF vars
<1>11. QED
  BY <1>1, <1>2, <1>3, <1>4, <1>5, <1>6, <1>7, <1>8, <1>9, <1>10
     DEF Next, DrainStep, StopStep

(* What a worker has pushed stays pushed.                                  *)
LEMMA PushedStays ==
    ASSUME SlotInv, [Next]_vars, NEW a \in Blocks, completer[a] = "pushed"
    PROVE  completer'[a] = "pushed"
<1>0. completer \in [Blocks -> CompleterStates] /\ stage[a] # "fresh"
  BY DEF SlotInv, TypeOK, CompletersAgree
<1>1. ASSUME NEW b \in Blocks, NEW k \in Keys,
             Begin(b, k) \/ AnswerSynchronously(b, k)
      PROVE  completer'[a] = "pushed"
  BY <1>0, <1>1 DEF Begin, AnswerSynchronously
<1>2. ASSUME NEW b \in Blocks, HandlerStep(b) PROVE completer'[a] = "pushed"
  BY <1>0, <1>2 DEF HandlerStep, FinishInline, RefuseCall, Defer, CountInflight,
                    Register, StackEnqueue, StackDeclines, StackRefuses, NotKept
<1>3. ASSUME NEW b \in Blocks, WorkerStep(b) \/ \E v \in Values : Store(b, v)
      PROVE  completer'[a] = "pushed"
  BY <1>0, <1>3 DEF WorkerStep, Exchange, LockSelf, Push, UseDestroyed, Store
<1>4. ASSUME UNCHANGED blockVars PROVE completer'[a] = "pushed"
  BY <1>4 DEF blockVars
<1>5. QED
  BY <1>1, <1>2, <1>3, <1>4, BlocksLeftAlone DEF Next

LEMMA EarlyNext ==
    ASSUME SlotInv, AnsweredEarly, [Next]_vars
    PROVE  AnsweredEarly'
<1> SUFFICES ASSUME NEW a \in Blocks, stage'[a] = "deferred",
                    opState'[a] # "waiting", completer'[a] # "pushed"
             PROVE  answer'[a] \in StackStatuses
  BY DEF AnsweredEarly
<1>0. TypeOK /\ completer[a] # "pushed"
  BY PushedStays DEF SlotInv
<1>1. CASE stage[a] = "deferred" /\ opState[a] # "waiting"
  <2>1. opState[a] \in {"ready", "released"}
    BY <1>0, <1>1 DEF SlotInv, StagesAgree, HandlerOf, TypeOK
  <2>2. answer[a] \in StackStatuses
    BY <1>0, <1>1 DEF AnsweredEarly
  <2>3. QED
    BY <2>1, <2>2, StepKeepsAnswers DEF AnswerKept
<1>2. CASE stage[a] # "deferred" \/ opState[a] = "waiting"
  <2> DEFINE Goal == answer'[a] \in StackStatuses
  <2>0. stage[a] = "deferred" => opState[a] = "waiting"
    BY <1>2
  <2> USE <1>0, <2>0 DEF TypeOK
  <2>1. ASSUME NEW b \in Blocks, NEW s \in Refusals, NotKept(b, s)
        PROVE  Goal
    <3>1. opState[b] = "executing"
      BY <2>1 DEF NotKept, SlotInv, StagesAgree, HandlerOf
    <3>2. answer' = [answer EXCEPT ![b] = Status(s)]
      BY <2>1, <3>1, WrittenIsOwn DEF NotKept, SlotInv, UsesSlot
    <3>3. a = b
      BY <2>1 DEF NotKept
    <3>4. QED
      BY <3>2, <3>3 DEF StackStatuses, Refusals
  <2>2. ASSUME NEW b \in Blocks, NEW s \in {"BadTimeout", "BadOperationAbandoned"},
               StackCancels(b, s)
        PROVE  Goal
    <3>1. answer' = [answer EXCEPT ![b] = Status(s)]
      BY <2>2, WrittenIsOwn DEF StackCancels, SlotInv, UsesSlot
    <3>2. a = b
      BY <2>2 DEF StackCancels, CancelledOp, blockVars
    <3>3. QED
      BY <3>1, <3>2 DEF StackStatuses
  <2>3. ASSUME DrainFinish PROVE Goal
    <3> DEFINE d == Head(batch)
    <3>1. d \in Blocks /\ opState' = [opState EXCEPT ![d] = "ready"]
      BY <2>3, CurrentIsWaiting DEF DrainFinish
    <3>2. completer[d] = "pushed"
      BY <2>3 DEF DrainFinish, SlotInv, QueuedArePushed
    <3>3. a # d
      BY <3>2
    <3>4. UNCHANGED blockVars
      BY <2>3 DEF DrainFinish
    <3>5. QED
      BY <3>1, <3>3, <3>4 DEF blockVars
  <2>4. ASSUME DeleteServer PROVE Goal
    BY <2>4 DEF DeleteServer, blockVars, StackStatuses
  <2>5. ASSUME NEW b \in Blocks, StackEnqueue(b) PROVE Goal
    BY <2>5 DEF StackEnqueue
  <2>6. ASSUME NEW b \in Blocks, NEW k \in Keys,
               Begin(b, k) \/ AnswerSynchronously(b, k)
        PROVE  Goal
    BY <2>6 DEF Begin, AnswerSynchronously, SlotInv, StagesAgree
  <2>7. ASSUME NEW b \in Blocks, FinishInline(b) \/ RefuseCall(b) PROVE Goal
    BY <2>7 DEF FinishInline, RefuseCall, SlotInv, StagesAgree, HandlerOf
  <2>8. ASSUME NEW b \in Blocks, Release(b) PROVE Goal
    BY <2>8 DEF Release, blockVars
  <2>9. ASSUME NEW b \in Blocks,
               \/ Defer(b) \/ CountInflight(b) \/ Register(b) \/ WorkerStep(b)
               \/ \E v \in Values : Store(b, v)
        PROVE  Goal
    <3>1. UNCHANGED stackVars /\ stage[a] = "deferred"
      BY <2>9 DEF Defer, CountInflight, Register, WorkerStep, Exchange, LockSelf,
                  Push, UseDestroyed, Store
    <3>2. QED
      BY <3>1 DEF stackVars
  <2>10. ASSUME UNCHANGED <<blockVars, stackVars>> PROVE Goal
    BY <2>10 DEF blockVars, stackVars
  <2>11. ASSUME \/ DrainSwap \/ DrainDrop \/ Start \/ LowerFlag \/ LeaveLoop
                \/ ThreadEnds \/ CallStop \/ Close \/ ShutdownDone
                \/ ShutdownGivesUp \/ ClearRegistry \/ DeleteOperations
                \/ UNCHANGED vars
         PROVE  UNCHANGED <<blockVars, stackVars>>
    BY <2>11 DEF DrainSwap, DrainDrop, Start, LowerFlag, LeaveLoop, ThreadEnds,
                 CallStop, Close, ShutdownDone, ShutdownGivesUp, ClearRegistry,
                 DeleteOperations, vars
  <2>12. QED
    BY <2>1, <2>2, <2>3, <2>4, <2>5, <2>6, <2>7, <2>8, <2>9, <2>10, <2>11
       DEF Next, HandlerStep, StackDeclines, StackRefuses, Refusals, DrainStep, StopStep,
           Timeout, ClientCancel
<1>3. QED
  BY <1>1, <1>2

LEMMA ComingNext ==
    ASSUME SlotInv, DeferralInv, [Next]_vars
    PROVE  CompletionComing'
<1> DEFINE Coming(a) ==
        \/ completer[a] \in {"held", "stored", "won", "owning"}
        \/ completer[a] = "pushed" /\ a \in Range(queue) \cup Range(batch)
<1> SUFFICES ASSUME NEW a \in Blocks, ~closed', Expecting(a)' PROVE Coming(a)'
  BY DEF CompletionComing
<1>0. /\ TypeOK /\ ~closed
      /\ main \notin {"waiting", "swapping", "draining", "deleting", "releasing", "stopped"}
  BY ClosedNext DEF SlotInv, DeferralInv, ClosedByStop
<1>1. Expecting(a) => Coming(a)
  BY <1>0 DEF DeferralInv, CompletionComing
<1>2. opState[a] = "waiting" => stage[a] = "deferred" /\ pending[key[a]] = a /\ key[a] \in Keys
  BY <1>0 DEF SlotInv, StagesAgree, RegistryExact, RegistryLives
<1>3. /\ stage[a] = "fresh" <=> opState[a] = "idle"
      /\ HandlerOf(a) <=> opState[a] = "executing"
  BY DEF SlotInv, StagesAgree
<1> USE <1>0, <1>1 DEF TypeOK, Expecting
<1>4. ASSUME UNCHANGED <<queue, batch>>, completer'[a] = completer[a], Expecting(a)
      PROVE  Coming(a)'
  BY <1>4
<1>5. ASSUME NEW b \in Blocks, NEW k \in Keys,
             Begin(b, k) \/ AnswerSynchronously(b, k)
      PROVE  Coming(a)'
  BY <1>3, <1>5, <1>4 DEF Begin, AnswerSynchronously, opsVars
<1>6. ASSUME NEW b \in Blocks, NEW v \in Values, Store(b, v) PROVE Coming(a)'
  BY <1>6 DEF Store, stackVars, opsVars
<1>7. ASSUME NEW b \in Blocks, FinishInline(b) PROVE Coming(a)'
  BY <1>4, <1>7 DEF FinishInline, opsVars
<1>8. ASSUME NEW b \in Blocks, RefuseCall(b) PROVE Coming(a)'
  BY <1>4, <1>8 DEF RefuseCall, opsVars
<1>9. ASSUME NEW b \in Blocks, Defer(b) PROVE Coming(a)'
  <2>1. CASE a = b
    <3>1. stage[b] = "begin" /\ phase[b] = "Initial" /\ UNCHANGED completer
      BY <1>9 DEF Defer, PhaseFound
    <3>2. completer[b] \in {"held", "stored"}
      BY <3>1 DEF SlotInv, CompletersAgree, DeferralInv, RaceDecided
    <3>3. QED
      BY <2>1, <3>1, <3>2
  <2>2. CASE a # b
    BY <1>4, <1>9, <2>2 DEF Defer, stackVars, opsVars
  <2>3. QED
    BY <2>1, <2>2
<1>10. ASSUME NEW b \in Blocks, CountInflight(b) PROVE Coming(a)'
  BY <1>4, <1>10 DEF CountInflight, stackVars
<1>11. ASSUME NEW b \in Blocks, Register(b) PROVE Coming(a)'
  BY <1>4, <1>11 DEF Register, stackVars
<1>12. ASSUME NEW b \in Blocks, StackEnqueue(b) PROVE Coming(a)'
  BY <1>4, <1>12 DEF StackEnqueue, opsVars
<1>13. ASSUME NEW b \in Blocks, NEW s \in Refusals, NotKept(b, s)
       PROVE  Coming(a)'
  BY <1>4, <1>13 DEF NotKept
<1>14. ASSUME NEW b \in Blocks, Exchange(b) PROVE Coming(a)'
  <2>1. UNCHANGED <<stage, opState, queue, batch>>
    BY <1>14 DEF Exchange, stackVars, opsVars
  <2>2. Expecting(a)
    BY <2>1
  <2>3. CASE a = b
    <3>1. phase[b] = "Deferred"
      BY <1>2, <1>14, <2>2, <2>3
         DEF Exchange, DeferralInv, RaceDecided, DeferringStages
    <3>2. completer'[b] \in {"won", "owning"}
      BY <1>14, <3>1 DEF Exchange
    <3>3. QED
      BY <2>3, <3>2
  <2>4. CASE a # b
    BY <1>4, <1>14, <2>1, <2>2, <2>4 DEF Exchange
  <2>5. QED
    BY <2>3, <2>4
<1>15. ASSUME NEW b \in Blocks, LockSelf(b) PROVE Coming(a)'
  BY <1>15 DEF LockSelf, stackVars, opsVars
<1>16. ASSUME NEW b \in Blocks, UseDestroyed(b) PROVE Coming(a)'
  <2>1. UNCHANGED <<stage, opState, queue, batch>> /\ ~Referenced(b)
    BY <1>16 DEF UseDestroyed, stackVars, opsVars, Reachable
  <2>2. Expecting(a)
    BY <2>1
  <2>3. Referenced(a)
    BY <1>2, <2>2 DEF Referenced, HandlerOf
  <2>4. QED
    BY <1>4, <1>16, <2>1, <2>2, <2>3 DEF UseDestroyed
<1>17. ASSUME NEW b \in Blocks, Push(b) PROVE Coming(a)'
  <2>1. UNCHANGED <<stage, opState, batch>> /\ queue' = Append(queue, b)
    BY <1>17 DEF Push, stackVars, QueuedAfter
  <2>2. Range(queue') = Range(queue) \cup {b}
    BY <2>1, AppendRange
  <2>3. completer' = [completer EXCEPT ![b] = "pushed"]
    BY <1>17 DEF Push
  <2>4. Expecting(a)
    BY <2>1
  <2>5. CASE a = b
    BY <2>2, <2>3, <2>5
  <2>6. CASE a # b
    BY <2>1, <2>2, <2>3, <2>4, <2>6
  <2>7. QED
    BY <2>5, <2>6
<1>18. ASSUME NEW b \in Blocks, NEW s, StackCancels(b, s) PROVE Coming(a)'
  BY <1>4, <1>18 DEF StackCancels, CancelledOp, blockVars
<1>19. ASSUME NEW b \in Blocks, Release(b) PROVE Coming(a)'
  BY <1>4, <1>19 DEF Release, blockVars, opsVars
<1>20. ASSUME DrainSwap PROVE Coming(a)'
  <2>1. batch = <<>> /\ batch' = queue /\ UNCHANGED <<stage, opState, completer>>
    BY <1>20 DEF DrainSwap, ServerServes, ServerIdle, blockVars, stackVars
  <2>2. Range(batch) = {}
    BY <2>1 DEF Range
  <2>3. Expecting(a)
    BY <2>1
  <2>4. QED
    BY <2>1, <2>2, <2>3
<1>21. ASSUME batch # <<>>, batch' = Tail(batch), a # Head(batch), UNCHANGED queue,
              completer'[a] = completer[a], Expecting(a)
       PROVE  Coming(a)'
  BY <1>21, TailRange
<1>22. ASSUME DrainFinish PROVE Coming(a)'
  <2> DEFINE d == Head(batch)
  <2>1. /\ d \in Blocks /\ opState[d] = "waiting"
        /\ opState' = [opState EXCEPT ![d] = "ready"]
    BY <1>22, CurrentIsWaiting DEF DrainFinish
  <2>2. stage[d] = "deferred"
    BY <2>1 DEF SlotInv, StagesAgree
  <2>3. UNCHANGED blockVars
    BY <1>22 DEF DrainFinish
  <2>4. a # d
    BY <2>1, <2>2, <2>3 DEF blockVars
  <2>5. Expecting(a)
    BY <2>1, <2>3, <2>4 DEF blockVars
  <2>6. QED
    BY <1>21, <1>22, <2>3, <2>4, <2>5 DEF DrainFinish, blockVars
<1>23. ASSUME DrainDrop PROVE Coming(a)'
  <2>1. UNCHANGED <<stage, opState, completer, queue>> /\ Expecting(a)
    BY <1>23 DEF DrainDrop, blockVars, stackVars
  <2>2. ~HandlerOf(a)
    BY <1>23 DEF DrainDrop, SlotInv, OneAtATime
  <2>3. a # Head(batch)
    BY <1>2, <1>23, <2>1, <2>2 DEF DrainDrop, IsCurrent, HandlerOf
  <2>4. QED
    BY <1>21, <1>23, <2>1, <2>3 DEF DrainDrop
<1>24. ASSUME Close PROVE FALSE
  BY <1>24 DEF Close
<1>25. ASSUME \/ ShutdownDone \/ ShutdownGivesUp \/ ClearRegistry \/ DeleteServer
              \/ DeleteOperations
       PROVE  FALSE
  BY <1>25 DEF ShutdownDone, ShutdownGivesUp, ClearRegistry, DeleteServer,
               DeleteOperations
<1>26. ASSUME Start \/ LowerFlag \/ LeaveLoop \/ ThreadEnds \/ CallStop \/ UNCHANGED vars
       PROVE  Coming(a)'
  <2>1. UNCHANGED <<stage, completer, opState, queue, batch>>
    BY <1>26 DEF Start, LowerFlag, LeaveLoop, ThreadEnds, CallStop, vars,
                 blockVars, stackVars, opsVars
  <2>2. QED
    BY <1>4, <2>1
<1>27. QED
  BY <1>5, <1>6, <1>7, <1>8, <1>9, <1>10, <1>11, <1>12, <1>13, <1>14, <1>15, <1>16,
     <1>17, <1>18, <1>19, <1>20, <1>22, <1>23, <1>24, <1>25, <1>26
     DEF Next, HandlerStep, StackDeclines, StackRefuses, Refusals, WorkerStep, DrainStep,
         StopStep, Timeout, ClientCancel

(* Which of worker and handler is first does not matter: the later one      *)
(* finds the other's mark in m_phase, and the block is queued or finished.  *)
THEOREM RaceIsDecided == Spec => [](SlotInv /\ DeferralInv)
<1>1. Init => SlotInv /\ DeferralInv
  <2> SUFFICES ASSUME Init PROVE SlotInv /\ DeferralInv
    OBVIOUS
  <2>1. SlotInv
    BY SlotInit
  <2>2. RaceDecided /\ ClosedByStop
    BY DEF Init, RaceDecided, ClosedByStop, DeferringStages
  <2>3. CompletionComing /\ AnsweredEarly
    BY DEF Init, CompletionComing, AnsweredEarly, Expecting
  <2>4. QED
    BY <2>1, <2>2, <2>3 DEF DeferralInv
<1>2. SlotInv /\ DeferralInv /\ [Next]_vars => SlotInv' /\ DeferralInv'
  BY SlotNext, RaceNext, ClosedNext, ComingNext, EarlyNext DEF DeferralInv, SlotInv
<1>3. QED
  BY <1>1, <1>2, PTL DEF Spec

(* While the layer is open, every operation the stack waits for still has   *)
(* its completion to come.                                                  *)
THEOREM NoCompletionIsLost == Spec => []NoLostCompletion
<1>1. DeferralInv => NoLostCompletion
  BY DEF DeferralInv, CompletionComing, NoLostCompletion, Expecting
<1>2. QED
  BY <1>1, RaceIsDecided, PTL

-----------------------------------------------------------------------------
(* The completion queue.  A block is queued once, and until drain() takes    *)
(* it only the stack answers it.                                             *)

LEMMA AppendOnce ==
    ASSUME NEW s \in Seq(Blocks), IsInjective(s), NEW b \in Blocks, b \notin Range(s)
    PROVE  IsInjective(Append(s, b))
<1>1. /\ DOMAIN Append(s, b) = DOMAIN s \cup {Len(s) + 1}
      /\ Append(s, b)[Len(s) + 1] = b
      /\ \A i \in DOMAIN s : Append(s, b)[i] = s[i]
  OBVIOUS
<1>2. QED
  BY <1>1 DEF Range, IsInjective

LEMMA TailOnce ==
    ASSUME NEW s \in Seq(Blocks), s # <<>>, IsInjective(s)
    PROVE  /\ IsInjective(Tail(s))
           /\ Range(Tail(s)) \subseteq Range(s) \ {Head(s)}
<1>1. \A i \in DOMAIN Tail(s) : i + 1 \in DOMAIN s /\ Tail(s)[i] = s[i + 1] /\ i \in Nat \ {0}
  OBVIOUS
<1>2. 1 \in DOMAIN s /\ Head(s) = s[1]
  OBVIOUS
<1>3. \A i \in DOMAIN Tail(s) : Tail(s)[i] # Head(s)
  BY <1>1, <1>2 DEF IsInjective
<1>4. QED
  BY <1>1, <1>3 DEF IsInjective, Range

Queued == Range(queue) \cup Range(batch)

LEMMA QueuedBlocks ==
    ASSUME SlotInv
    PROVE  Queued \subseteq Blocks /\ \A b \in Queued : completer[b] = "pushed"
  BY DEF Queued, Range, SlotInv, TypeOK, QueuedArePushed

(* What push() queues: an open deferral, or one the stack has answered.    *)
LEMMA PushedIsOpen ==
    ASSUME SlotInv, DeferralInv, NEW b \in Blocks, completer[b] = "owning"
    PROVE  /\ stage[b] \in DeferringStages
           /\ opState[b] \in {"executing", "waiting"} \/ answer[b] \in StackStatuses
<1>1. stage[b] \in Stages
  BY DEF SlotInv, TypeOK
<1>2. stage[b] \notin {"fresh", "begin", "synchronous"}
  BY DEF SlotInv, CompletersAgree, DeferralInv, RaceDecided
<1>3. stage[b] \in DeferringStages
  BY <1>1, <1>2 DEF Stages, DeferringStages
<1>4. stage[b] # "deferred" => opState[b] = "executing"
  BY <1>3 DEF DeferringStages, SlotInv, StagesAgree, HandlerOf
<1>5. stage[b] = "deferred" /\ opState[b] # "waiting" => answer[b] \in StackStatuses
  BY DEF DeferralInv, AnsweredEarly
<1>6. QED
  BY <1>3, <1>4, <1>5

(* A step that leaves a block in the queue or in the batch leaves it        *)
(* unanswered, or lets the stack answer it.                                *)
LEMMA StillOpen ==
    ASSUME SlotInv, QueuedOnce, QueuedAreOpen, [Next]_vars, NEW a \in Queued, a \in Queued'
    PROVE  /\ stage'[a] \in DeferringStages
           /\ opState'[a] \in {"executing", "waiting"} \/ answer'[a] \in StackStatuses
<1> DEFINE Goal == /\ stage'[a] \in DeferringStages
                   /\ opState'[a] \in {"executing", "waiting"} \/ answer'[a] \in StackStatuses
<1>0. /\ TypeOK /\ a \in Blocks /\ completer[a] = "pushed"
      /\ stage[a] \in DeferringStages
      /\ opState[a] \in {"executing", "waiting"} \/ answer[a] \in StackStatuses
  BY QueuedBlocks DEF SlotInv, QueuedAreOpen, Queued
<1>1. opState[a] \in {"executing", "waiting", "ready", "released"}
  BY <1>0 DEF SlotInv, StagesAgree, DeferringStages, TypeOK
<1>2. opState[a] \in {"ready", "released"} =>
          answer[a] \in StackStatuses /\ answer'[a] = answer[a]
  BY <1>0, StepKeepsAnswers DEF AnswerKept
<1> USE <1>0, <1>1, <1>2 DEF TypeOK, DeferringStages
<1>3. ASSUME NEW b \in Blocks, NEW k \in Keys,
             Begin(b, k) \/ AnswerSynchronously(b, k)
      PROVE  Goal
  BY <1>3 DEF Begin, AnswerSynchronously
<1>4. ASSUME NEW b \in Blocks, FinishInline(b) PROVE Goal
  <2>1. opState[b] = "executing" /\ stage[b] = "begin"
    BY <1>4 DEF FinishInline, SlotInv, StagesAgree, HandlerOf
  <2>2. answer' = [answer EXCEPT ![b] = result[b]]
    BY <1>4, <2>1, WrittenIsOwn DEF FinishInline, SlotInv, UsesSlot
  <2>3. QED
    BY <1>4, <2>1, <2>2 DEF FinishInline
<1>5. ASSUME NEW b \in Blocks, RefuseCall(b) PROVE Goal
  BY <1>5 DEF RefuseCall
<1>6. ASSUME NEW b \in Blocks, StackEnqueue(b) PROVE Goal
  BY <1>6 DEF StackEnqueue
<1>7. ASSUME NEW b \in Blocks, NEW s \in Refusals, NotKept(b, s)
      PROVE  Goal
  <2>1. opState[b] = "executing"
    BY <1>7 DEF NotKept, SlotInv, StagesAgree, HandlerOf
  <2>2. answer' = [answer EXCEPT ![b] = Status(s)]
    BY <1>7, <2>1, WrittenIsOwn DEF NotKept, SlotInv, UsesSlot
  <2>3. QED
    BY <1>7, <2>2 DEF NotKept, StackStatuses, Refusals
<1>8. ASSUME NEW b \in Blocks, NEW s \in {"BadTimeout", "BadOperationAbandoned"},
             StackCancels(b, s)
      PROVE  Goal
  <2>1. answer' = [answer EXCEPT ![b] = Status(s)]
    BY <1>8, WrittenIsOwn DEF StackCancels, SlotInv, UsesSlot
  <2>2. QED
    BY <1>8, <2>1 DEF StackCancels, CancelledOp, blockVars, StackStatuses
<1>9. ASSUME NEW b \in Blocks, Release(b) PROVE Goal
  BY <1>9 DEF Release, blockVars
<1>10. ASSUME DrainFinish PROVE Goal
  <2> DEFINE d == Head(batch)
  <2>1. d \in Blocks /\ opState' = [opState EXCEPT ![d] = "ready"] /\ opState[d] = "waiting"
    BY <1>10, CurrentIsWaiting DEF DrainFinish
  <2>2. batch # <<>> /\ batch' = Tail(batch) /\ queue' = queue /\ UNCHANGED blockVars
    BY <1>10 DEF DrainFinish
  <2>3. a # d
    <3>1. d \in Range(batch)
      BY <2>2 DEF Range
    <3>2. d \notin Range(batch')
      BY <2>2, TailOnce DEF QueuedOnce
    <3>3. d \notin Range(queue')
      BY <2>2, <3>1 DEF QueuedOnce
    <3>4. QED
      BY <3>2, <3>3 DEF Queued
  <2>4. answer' = [answer EXCEPT ![d] = result[d]]
    <3>1. answer' = Written(key[d], result[d])
      BY <1>10 DEF DrainFinish
    <3>2. SlotsExclusive /\ TypeOK
      BY DEF SlotInv
    <3> HIDE DEF d
    <3>3. QED
      BY <2>1, <3>1, <3>2, WrittenIsOwn DEF UsesSlot
  <2> HIDE DEF d
  <2>5. QED
    BY <2>1, <2>2, <2>3, <2>4 DEF blockVars
<1>11. ASSUME DeleteServer PROVE Goal
  <2>1. main = "deleting" /\ opState[a] # "executing"
    BY <1>11 DEF DeleteServer, SlotInv, OneAtATime, StagesAgree
  <2>2. QED
    BY <1>11, <2>1 DEF DeleteServer, blockVars, StackStatuses, UsesSlot
<1>12. ASSUME NEW b \in Blocks,
              \/ Defer(b) \/ CountInflight(b) \/ Register(b) \/ WorkerStep(b)
              \/ \E v \in Values : Store(b, v)
       PROVE  Goal
  <2>1. UNCHANGED stackVars /\ stage'[a] \in DeferringStages
    BY <1>12 DEF Defer, CountInflight, Register, WorkerStep, Exchange, LockSelf,
                 Push, UseDestroyed, Store
  <2>2. QED
    BY <2>1 DEF stackVars
<1>13. ASSUME \/ DrainSwap \/ DrainDrop \/ Start \/ LowerFlag \/ LeaveLoop
              \/ ThreadEnds \/ CallStop \/ Close \/ ShutdownDone
              \/ ShutdownGivesUp \/ ClearRegistry \/ DeleteOperations
              \/ UNCHANGED vars
       PROVE  Goal
  <2>1. UNCHANGED <<blockVars, stackVars>>
    BY <1>13 DEF DrainSwap, DrainDrop, Start, LowerFlag, LeaveLoop, ThreadEnds,
                 CallStop, Close, ShutdownDone, ShutdownGivesUp, ClearRegistry,
                 DeleteOperations, vars
  <2>2. QED
    BY <2>1 DEF blockVars, stackVars
<1> HIDE DEF Goal
<1>14. Goal
  BY <1>3, <1>4, <1>5, <1>6, <1>7, <1>8, <1>9, <1>10, <1>11, <1>12, <1>13
     DEF Next, HandlerStep, StackDeclines, StackRefuses, Refusals, DrainStep, StopStep,
         Timeout, ClientCancel
<1>15. QED
  BY <1>14 DEF Goal

(* The steps that leave queue and batch alone.                             *)
LEMMA QueuesLeftAlone ==
    ASSUME [Next]_vars, ~DrainStep, \A b \in Blocks : ~Push(b)
    PROVE  UNCHANGED <<queue, batch>>
<1>1. ASSUME NEW b \in Blocks, HandlerStep(b) PROVE UNCHANGED <<queue, batch>>
  BY <1>1 DEF HandlerStep, FinishInline, RefuseCall, Defer, CountInflight, Register,
              StackEnqueue, StackDeclines, StackRefuses, NotKept, opsVars
<1>2. ASSUME NEW b \in Blocks, Exchange(b) \/ LockSelf(b) \/ UseDestroyed(b)
      PROVE  UNCHANGED <<queue, batch>>
  BY <1>2 DEF Exchange, LockSelf, UseDestroyed, opsVars
<1>3. ASSUME NEW b \in Blocks, Timeout(b) \/ ClientCancel(b) \/ Release(b)
      PROVE  UNCHANGED <<queue, batch>>
  BY <1>3 DEF Timeout, ClientCancel, StackCancels, Release, opsVars
<1>4. CASE Start \/ LowerFlag \/ LeaveLoop \/ ThreadEnds \/ CallStop
  BY <1>4 DEF Start, LowerFlag, LeaveLoop, ThreadEnds, CallStop, opsVars
<1>5. CASE StopStep
  BY <1>5 DEF StopStep, Close, ShutdownDone, ShutdownGivesUp, ClearRegistry,
              DeleteServer, DeleteOperations, opsVars
<1>6. CASE UNCHANGED vars
  BY <1>6 DEF vars, opsVars
<1>7. ASSUME NEW b \in Blocks, NEW k \in Keys, Begin(b, k) \/ AnswerSynchronously(b, k)
      PROVE  UNCHANGED <<queue, batch>>
  BY <1>7 DEF Begin, AnswerSynchronously, opsVars
<1>8. ASSUME NEW b \in Blocks, NEW v \in Values, Store(b, v)
      PROVE  UNCHANGED <<queue, batch>>
  BY <1>8 DEF Store, opsVars
<1>9. QED
  BY <1>1, <1>2, <1>3, <1>4, <1>5, <1>6, <1>7, <1>8 DEF Next, WorkerStep

LEMMA QueueNext ==
    ASSUME SlotInv, DeferralInv, QueueInv, [Next]_vars
    PROVE  QueueInv'
<1>0. /\ TypeOK /\ QueuedOnce /\ QueuedAreOpen /\ EmptiedAtExit
      /\ queue \in Seq(Blocks) /\ batch \in Seq(Blocks)
  BY DEF SlotInv, QueueInv, TypeOK
<1>1. ASSUME NEW b \in Blocks, Push(b)
      PROVE  QueuedOnce' /\ Queued' \subseteq Queued \cup {b}
  <2>1. b \notin Range(queue) /\ b \notin Range(batch)
    BY <1>1, QueuedBlocks DEF Push, Queued
  <2>2. batch' = batch /\ (queue' = queue \/ queue' = Append(queue, b))
    BY <1>1 DEF Push, QueuedAfter
  <2>3. CASE queue' = queue
    BY <1>0, <2>2, <2>3 DEF QueuedOnce, Queued
  <2>4. CASE queue' = Append(queue, b)
    <3>1. IsInjective(queue') /\ Range(queue') = Range(queue) \cup {b}
      BY <1>0, <2>1, <2>4, AppendOnce, AppendRange DEF QueuedOnce
    <3>2. IsInjective(batch') /\ Range(batch') = Range(batch)
      BY <1>0, <2>2 DEF QueuedOnce
    <3>3. Range(queue') \cap Range(batch') = {}
      BY <1>0, <2>1, <3>1, <3>2 DEF QueuedOnce
    <3>4. QED
      BY <3>1, <3>2, <3>3 DEF QueuedOnce, Queued
  <2>5. QED
    BY <2>2, <2>3, <2>4
<1>2. ASSUME DrainSwap PROVE QueuedOnce' /\ Queued' \subseteq Queued
  <2>1. batch' = queue /\ queue' = <<>>
    BY <1>2 DEF DrainSwap
  <2>2. Range(queue') = {} /\ IsInjective(queue')
    BY <2>1 DEF Range, IsInjective
  <2>3. Range(batch') = Range(queue) /\ IsInjective(batch')
    BY <1>0, <2>1 DEF QueuedOnce
  <2>4. QED
    BY <2>2, <2>3 DEF QueuedOnce, Queued
<1>3. ASSUME DrainFinish \/ DrainDrop PROVE QueuedOnce' /\ Queued' \subseteq Queued
  <2>1. batch # <<>> /\ batch' = Tail(batch) /\ queue' = queue
    BY <1>3 DEF DrainFinish, DrainDrop
  <2>2. IsInjective(batch') /\ Range(batch') \subseteq Range(batch)
    BY <1>0, <2>1, TailOnce DEF QueuedOnce
  <2>3. IsInjective(queue') /\ Range(queue') = Range(queue)
    BY <1>0, <2>1 DEF QueuedOnce
  <2>4. Range(queue') \cap Range(batch') = {}
    BY <1>0, <2>2, <2>3 DEF QueuedOnce
  <2>5. QED
    BY <2>2, <2>3, <2>4 DEF QueuedOnce, Queued
<1>4. ASSUME UNCHANGED <<queue, batch>> PROVE QueuedOnce' /\ Queued' \subseteq Queued
  BY <1>0, <1>4 DEF QueuedOnce, Queued
<1>5. QueuedOnce' /\ \A a \in Queued' : a \in Queued \/ (a \in Blocks /\ Push(a))
  <2>1. CASE \E b \in Blocks : Push(b)
    BY <1>1, <2>1
  <2>2. CASE DrainStep
    BY <1>2, <1>3, <2>2, QueuedBlocks DEF DrainStep
  <2>3. CASE ~DrainStep /\ \A b \in Blocks : ~Push(b)
    BY <1>4, <2>3, QueuesLeftAlone
  <2>4. QED
    BY <2>1, <2>2, <2>3
<1>6. QueuedAreOpen'
  <2> SUFFICES ASSUME NEW a \in Queued'
               PROVE  /\ stage'[a] \in DeferringStages
                      /\ opState'[a] \in {"executing", "waiting"}
                            \/ answer'[a] \in StackStatuses
    BY DEF QueuedAreOpen, Queued
  <2>1. CASE a \in Queued
    BY <1>0, <2>1, StillOpen
  <2>2. CASE a \in Blocks /\ Push(a)
    <3>1. completer[a] = "owning" /\ UNCHANGED <<stage, opState, answer>>
      BY <2>2 DEF Push, stackVars
    <3>2. QED
      BY <2>2, <3>1, PushedIsOpen
  <2>3. QED
    BY <1>5, <2>1, <2>2
<1>7. EmptiedAtExit'
  <2> SUFFICES ASSUME server' = "exited", main' # "draining" PROVE batch' = <<>>
    BY DEF EmptiedAtExit
  <2>1. CASE server = "exited" /\ main # "draining"
    <3>1. batch = <<>>
      BY <1>0, <2>1 DEF EmptiedAtExit
    <3>2. CASE DrainStep
      BY <2>1, <3>1, <3>2 DEF DrainStep, DrainSwap, DrainFinish, DrainDrop, ServerServes
    <3>3. CASE \E b \in Blocks : Push(b)
      BY <3>1, <3>3 DEF Push
    <3>4. QED
      BY <3>1, <3>2, <3>3, QueuesLeftAlone
  <2>2. CASE server # "exited"
    <3>1. ASSUME NEW b \in Blocks, NEW k \in Keys,
                 Begin(b, k) \/ AnswerSynchronously(b, k)
          PROVE  server' = server
      BY <3>1 DEF Begin, AnswerSynchronously, lifeVars
    <3>2. ASSUME NEW b \in Blocks, HandlerStep(b) PROVE server' = server
      BY <3>2 DEF HandlerStep, FinishInline, RefuseCall, Defer, CountInflight, Register,
                  StackEnqueue, StackDeclines, StackRefuses, NotKept, lifeVars
    <3>3. ASSUME NEW b \in Blocks, WorkerStep(b) \/ \E v \in Values : Store(b, v)
          PROVE  server' = server
      BY <3>3 DEF WorkerStep, Exchange, LockSelf, Push, UseDestroyed, Store, lifeVars
    <3>4. ASSUME NEW b \in Blocks, Timeout(b) \/ ClientCancel(b) \/ Release(b)
          PROVE  server' = server
      BY <3>4 DEF Timeout, ClientCancel, StackCancels, Release, lifeVars
    <3>5. ASSUME DrainStep \/ LowerFlag \/ CallStop \/ StopStep \/ UNCHANGED vars
          PROVE  server' = server
      BY <3>5 DEF DrainStep, DrainSwap, DrainFinish, DrainDrop, LowerFlag, CallStop,
                  StopStep, Close, ShutdownDone, ShutdownGivesUp, ClearRegistry,
                  DeleteServer, DeleteOperations, lifeVars, vars
    <3>6. ASSUME Start \/ LeaveLoop PROVE server' # "exited"
      BY <3>6 DEF Start, LeaveLoop
    <3>7. CASE ThreadEnds
      BY <3>7 DEF ThreadEnds, ServerIdle, opsVars
    <3>8. QED
      BY <2>2, <3>1, <3>2, <3>3, <3>4, <3>5, <3>6, <3>7 DEF Next
  <2>3. CASE server = "exited" /\ main = "draining"
    <3>1. CASE ClearRegistry
      BY <2>3, <3>1 DEF ClearRegistry
    <3>2. ASSUME NEW b \in Blocks, NEW k \in Keys,
                 Begin(b, k) \/ AnswerSynchronously(b, k)
          PROVE  main' = main
      BY <3>2 DEF Begin, AnswerSynchronously, lifeVars
    <3>3. ASSUME NEW b \in Blocks, HandlerStep(b) PROVE main' = main
      BY <3>3 DEF HandlerStep, FinishInline, RefuseCall, Defer, CountInflight, Register,
                  StackEnqueue, StackDeclines, StackRefuses, NotKept, lifeVars
    <3>4. ASSUME NEW b \in Blocks, WorkerStep(b) \/ \E v \in Values : Store(b, v)
          PROVE  main' = main
      BY <3>4 DEF WorkerStep, Exchange, LockSelf, Push, UseDestroyed, Store, lifeVars
    <3>5. ASSUME NEW b \in Blocks, Timeout(b) \/ ClientCancel(b) \/ Release(b)
          PROVE  main' = main
      BY <3>5 DEF Timeout, ClientCancel, StackCancels, Release, lifeVars
    <3>6. ASSUME \/ DrainStep \/ Start \/ LowerFlag \/ LeaveLoop \/ ThreadEnds \/ CallStop
                 \/ UNCHANGED vars
          PROVE  main' = main
      BY <2>3, <3>6 DEF DrainStep, DrainSwap, DrainFinish, DrainDrop, Start, LowerFlag,
                  LeaveLoop, ThreadEnds, CallStop, lifeVars, vars
    <3>7. ASSUME Close \/ ShutdownDone \/ ShutdownGivesUp \/ DeleteServer \/ DeleteOperations
          PROVE  FALSE
      BY <2>3, <3>7 DEF Close, ShutdownDone, ShutdownGivesUp, DeleteServer,
                        DeleteOperations
    <3>8. QED
      BY <2>3, <3>1, <3>2, <3>3, <3>4, <3>5, <3>6, <3>7 DEF Next, StopStep
  <2>4. QED
    BY <2>1, <2>2, <2>3
<1>8. QED
  BY <1>5, <1>6, <1>7 DEF QueueInv

(* Queue and batch hold each block once, unanswered but by the stack, and   *)
(* the server thread ends with an empty batch.                             *)
THEOREM QueuesAreSound == Spec => []QueueInv
<1>1. Init => QueueInv
  <2> SUFFICES ASSUME Init PROVE QueueInv
    OBVIOUS
  <2>1. queue = <<>> /\ batch = <<>>
    BY DEF Init
  <2>2. IsInjective(<<>>) /\ Range(<<>>) = {}
    BY DEF IsInjective, Range
  <2>3. QED
    BY <2>1, <2>2 DEF QueueInv, QueuedOnce, QueuedAreOpen, EmptiedAtExit
<1>2. SlotInv /\ DeferralInv /\ QueueInv /\ [Next]_vars => QueueInv'
  BY QueueNext
<1>3. QED
  BY <1>1, <1>2, RaceIsDecided, PTL DEF Spec

(* drain() fills the slot of the operation that waits for the completion at  *)
(* hand and no other; a completion it drops belongs to an operation that the *)
(* stack has answered.                                                     *)
THEOREM DrainIsRight == Spec => DrainDecides
<1> DEFINE b == Head(batch)
           Right ==
             /\ DrainFinish =>
                  /\ opState[b] = "waiting" /\ opState'[b] = "ready" /\ answer'[b] = result[b]
                  /\ \A c \in Blocks \ {b} : opState'[c] = opState[c] /\ answer'[c] = answer[c]
             /\ DrainDrop => answer[b] \in StackStatuses
<1>1. SlotInv /\ QueueInv /\ [Next]_vars => Right
  <2> SUFFICES ASSUME SlotInv, QueueInv PROVE Right
    OBVIOUS
  <2>1. TypeOK /\ SlotsExclusive
    BY DEF SlotInv
  <2>2. ASSUME DrainFinish
        PROVE  /\ opState[b] = "waiting" /\ opState'[b] = "ready" /\ answer'[b] = result[b]
               /\ \A c \in Blocks \ {b} : opState'[c] = opState[c] /\ answer'[c] = answer[c]
    <3>1. b \in Blocks /\ opState[b] = "waiting" /\ opState' = [opState EXCEPT ![b] = "ready"]
      BY <2>2, CurrentIsWaiting DEF DrainFinish
    <3>2. answer' = Written(key[b], result[b])
      BY <2>2 DEF DrainFinish
    <3> HIDE DEF b
    <3>3. answer' = [answer EXCEPT ![b] = result[b]]
      BY <2>1, <3>1, <3>2, WrittenIsOwn DEF UsesSlot
    <3>4. QED
      BY <2>1, <3>1, <3>3 DEF TypeOK
  <2>3. ASSUME DrainDrop PROVE answer[b] \in StackStatuses
    <3>1. b \in Range(batch) /\ b \in Blocks /\ pending[key[b]] # b
      BY <2>1, <2>3 DEF DrainDrop, IsCurrent, TypeOK, Range
    <3>2. opState[b] # "executing"
      BY <2>3, <3>1 DEF DrainDrop, SlotInv, OneAtATime, StagesAgree
    <3>3. RegistryLives
      BY <2>3 DEF DrainDrop, QueueInv, EmptiedAtExit, SlotInv, OneAtATime, RegistryLives
    <3>4. opState[b] # "waiting"
      BY <3>1, <3>3 DEF SlotInv, RegistryExact
    <3>5. QED
      BY <3>1, <3>2, <3>4 DEF QueueInv, QueuedAreOpen
  <2>4. QED
    BY <2>2, <2>3
<1>2. SlotInv /\ QueueInv /\ [Next]_vars => [Right]_vars
  BY <1>1
<1>3. QED
  BY <1>2, SlotsAgree, QueuesAreSound, PTL DEF Spec, DrainDecides

-----------------------------------------------------------------------------
(* The in-flight count.  m_inflight wraps, so this is modular arithmetic.   *)


CountedBlocks == {b \in Blocks : Counted(b)}
PushedBlocks == {b \in Blocks : Pushed(b)}

\* The counter is off by whole turns.
InflightWraps ==
    \E turns \in Int : inflight = Cardinality(CountedBlocks) - Cardinality(PushedBlocks)
                                  + CounterSize * turns

LEMMA RestOf ==
    ASSUME NEW m \in Nat \ {0}, NEW q \in Int, NEW r \in 0 .. m - 1, NEW n \in Int,
           n = m * q + r
    PROVE  n % m = r
  OBVIOUS

LEMMA BlockSets ==
    ASSUME IsFiniteSet(Blocks)
    PROVE  /\ IsFiniteSet(CountedBlocks) /\ Cardinality(CountedBlocks) \in Nat
           /\ IsFiniteSet(PushedBlocks) /\ Cardinality(PushedBlocks) \in Nat
           /\ Cardinality(CountedBlocks) <= Cardinality(Blocks)
<1>1. CountedBlocks \subseteq Blocks /\ PushedBlocks \subseteq Blocks
  BY DEF CountedBlocks, PushedBlocks
<1>2. QED
  BY <1>1, FS_Subset, FS_CardinalityType

LEMMA WrapsMeansExact ==
    ASSUME IsFiniteSet(Blocks), TypeOK, InflightWraps
    PROVE  InflightExact
<1> DEFINE C == Cardinality(CountedBlocks)
           P == Cardinality(PushedBlocks)
<1>1. C \in Nat /\ P \in Nat /\ CounterSize \in Nat \ {0} /\ inflight \in 0 .. CounterSize - 1
  BY BlockSets, ConstantsAssumption DEF TypeOK
<1>2. PICK turns \in Int : inflight = C - P + CounterSize * turns
  BY DEF InflightWraps
<1>3. InflightExact <=> inflight = (C + CounterSize - P) % CounterSize
  BY DEF InflightExact, CountedBlocks, PushedBlocks
<1> HIDE DEF C, P
<1>4. C + CounterSize - P = CounterSize * (1 - turns) + inflight
  BY <1>1, <1>2
<1>5. (C + CounterSize - P) % CounterSize = inflight
  <2>1. C + CounterSize - P \in Int /\ 1 - turns \in Int
    BY <1>1
  <2>2. QED
    BY <1>1, <1>4, <2>1, RestOf
<1>6. QED
  BY <1>3, <1>5

(* Steps that neither count nor push. *)
LEMMA WrapsKept ==
    ASSUME InflightWraps, UNCHANGED inflight, UNCHANGED CountedBlocks,
           UNCHANGED PushedBlocks
    PROVE  InflightWraps'
  BY DEF InflightWraps

LEMMA WrapsCounts ==
    ASSUME IsFiniteSet(Blocks), TypeOK, InflightWraps, NEW b \in Blocks, CountInflight(b)
    PROVE  InflightWraps'
<1> DEFINE C == Cardinality(CountedBlocks)
           P == Cardinality(PushedBlocks)
<1>1. C \in Nat /\ P \in Nat /\ CounterSize \in Nat \ {0} /\ inflight \in 0 .. CounterSize - 1
  BY BlockSets, ConstantsAssumption DEF TypeOK
<1>2. PICK turns \in Int : inflight = C - P + CounterSize * turns
  BY DEF InflightWraps
<1>3. CountedBlocks' = CountedBlocks \cup {b} /\ b \notin CountedBlocks
  BY DEF CountInflight, CountedBlocks, Counted, TypeOK
<1>4. PushedBlocks' = PushedBlocks
  BY DEF CountInflight, PushedBlocks, Pushed
<1>5. C' = C + 1 /\ P' = P
  BY <1>3, <1>4, BlockSets, FS_AddElement
<1>6. inflight' = (inflight + 1) % CounterSize
  BY DEF CountInflight, Incremented
<1>7. InflightWraps' <=> \E q \in Int : inflight' = C' - P' + CounterSize * q
  BY DEF InflightWraps
<1> HIDE DEF C, P
<1>8. CASE inflight + 1 < CounterSize
  <2>1. inflight + 1 = CounterSize * 0 + (inflight + 1)
    BY <1>1
  <2>2. inflight' = inflight + 1
    BY <1>1, <1>6, <1>8, <2>1, RestOf
  <2>3. inflight' = C' - P' + CounterSize * turns
    BY <1>1, <1>2, <1>5, <2>2
  <2>4. QED
    BY <1>7, <2>3
<1>9. CASE inflight + 1 = CounterSize
  <2>1. inflight + 1 = CounterSize * 1 + 0
    BY <1>1, <1>9
  <2>2. inflight' = 0
    BY <1>1, <1>6, <2>1, RestOf
  <2>3. 0 = C + 1 - P + CounterSize * (turns - 1) /\ turns - 1 \in Int
    BY <1>1, <1>2, <1>9
  <2>4. inflight' = C' - P' + CounterSize * (turns - 1)
    BY <1>1, <1>5, <2>2, <2>3
  <2>5. QED
    BY <1>7, <2>3, <2>4
<1>10. QED
  BY <1>1, <1>8, <1>9

LEMMA WrapsPushes ==
    ASSUME IsFiniteSet(Blocks), TypeOK, InflightWraps, NEW b \in Blocks, Push(b)
    PROVE  InflightWraps'
<1> DEFINE C == Cardinality(CountedBlocks)
           P == Cardinality(PushedBlocks)
<1>1. C \in Nat /\ P \in Nat /\ CounterSize \in Nat \ {0} /\ inflight \in 0 .. CounterSize - 1
  BY BlockSets, ConstantsAssumption DEF TypeOK
<1>2. PICK turns \in Int : inflight = C - P + CounterSize * turns
  BY DEF InflightWraps
<1>3. PushedBlocks' = PushedBlocks \cup {b} /\ b \notin PushedBlocks
  BY DEF Push, PushedBlocks, Pushed, TypeOK
<1>4. CountedBlocks' = CountedBlocks
  BY DEF Push, CountedBlocks, Counted
<1>5. C' = C /\ P' = P + 1
  BY <1>3, <1>4, BlockSets, FS_AddElement
<1>6. inflight' = (inflight + CounterSize - 1) % CounterSize
  BY DEF Push, Decremented
<1>7. InflightWraps' <=> \E q \in Int : inflight' = C' - P' + CounterSize * q
  BY DEF InflightWraps
<1> HIDE DEF C, P
<1>8. CASE inflight >= 1
  <2>1. inflight + CounterSize - 1 = CounterSize * 1 + (inflight - 1)
    BY <1>1
  <2>2. inflight' = inflight - 1
    BY <1>1, <1>6, <1>8, <2>1, RestOf
  <2>3. inflight' = C' - P' + CounterSize * turns
    BY <1>1, <1>2, <1>5, <2>2
  <2>4. QED
    BY <1>7, <2>3
<1>9. CASE inflight = 0
  <2>1. inflight + CounterSize - 1 = CounterSize * 0 + (CounterSize - 1)
    BY <1>1, <1>9
  <2>2. inflight' = CounterSize - 1
    BY <1>1, <1>6, <2>1, RestOf
  <2>3. CounterSize - 1 = C - (P + 1) + CounterSize * (turns + 1) /\ turns + 1 \in Int
    BY <1>1, <1>2, <1>9
  <2>4. inflight' = C' - P' + CounterSize * (turns + 1)
    BY <1>1, <1>5, <2>2, <2>3
  <2>5. QED
    BY <1>7, <2>3, <2>4
<1>10. QED
  BY <1>1, <1>8, <1>9

LEMMA WrapsNext ==
    ASSUME IsFiniteSet(Blocks), SlotInv, InflightWraps, [Next]_vars
    PROVE  InflightWraps'
<1>0. TypeOK /\ StagesAgree /\ CompletersAgree
  BY DEF SlotInv
<1> USE DEF CountedBlocks, PushedBlocks, Counted, Pushed
<1> DEFINE Same == /\ UNCHANGED inflight
                   /\ \A a \in Blocks : /\ Counted(a)' <=> Counted(a)
                                        /\ Pushed(a)' <=> Pushed(a)
<1>1. ASSUME Same PROVE InflightWraps'
  <2>1. CountedBlocks' = CountedBlocks /\ PushedBlocks' = PushedBlocks
    BY <1>1
  <2>2. QED
    BY <1>1, <2>1, WrapsKept
<1>2. ASSUME NEW b \in Blocks, NEW k \in Keys,
             Begin(b, k) \/ AnswerSynchronously(b, k)
      PROVE  Same
  BY <1>0, <1>2 DEF Begin, AnswerSynchronously, opsVars, TypeOK, CompletersAgree
<1>3. ASSUME NEW b \in Blocks, FinishInline(b) \/ RefuseCall(b) \/ Defer(b) PROVE Same
  BY <1>0, <1>3 DEF FinishInline, RefuseCall, Defer, opsVars, TypeOK
<1>4. ASSUME NEW b \in Blocks, Register(b) \/ StackEnqueue(b)
                               \/ StackDeclines(b) \/ StackRefuses(b)
      PROVE  Same
  BY <1>0, <1>4 DEF Register, StackEnqueue, StackDeclines, StackRefuses, NotKept, opsVars,
                    TypeOK
<1>5. ASSUME NEW b \in Blocks, Exchange(b) \/ LockSelf(b) \/ UseDestroyed(b) PROVE Same
  BY <1>0, <1>5 DEF Exchange, LockSelf, UseDestroyed, opsVars, TypeOK
<1>6. ASSUME NEW b \in Blocks, NEW v \in Values, Store(b, v) PROVE Same
  BY <1>0, <1>6 DEF Store, opsVars, TypeOK
<1>7. ASSUME UNCHANGED <<blockVars, inflight>> PROVE Same
  BY <1>7 DEF blockVars
<1>8. ASSUME NEW b \in Blocks, Timeout(b) \/ ClientCancel(b) \/ Release(b)
      PROVE  UNCHANGED <<blockVars, inflight>>
  BY <1>8 DEF Timeout, ClientCancel, StackCancels, Release, opsVars
<1>9. ASSUME \/ DrainStep \/ Start \/ LowerFlag \/ LeaveLoop \/ ThreadEnds \/ CallStop
      PROVE  UNCHANGED <<blockVars, inflight>>
  BY <1>9 DEF DrainStep, DrainSwap, DrainFinish, DrainDrop, Start, LowerFlag,
              LeaveLoop, ThreadEnds, CallStop, opsVars
<1>10. ASSUME StopStep \/ UNCHANGED vars PROVE UNCHANGED <<blockVars, inflight>>
  BY <1>10 DEF StopStep, Close, ShutdownDone, ShutdownGivesUp, ClearRegistry,
               DeleteServer, DeleteOperations, opsVars, vars
<1>11. ASSUME NEW b \in Blocks, CountInflight(b) PROVE InflightWraps'
  BY <1>0, <1>11, WrapsCounts
<1>12. ASSUME NEW b \in Blocks, Push(b) PROVE InflightWraps'
  BY <1>0, <1>12, WrapsPushes
<1> HIDE DEF Same
<1>13. QED
  BY <1>1, <1>2, <1>3, <1>4, <1>5, <1>6, <1>7, <1>8, <1>9, <1>10, <1>11, <1>12
     DEF Next, HandlerStep, StackDeclines, StackRefuses, Refusals, WorkerStep

LEMMA WrapsInvariant ==
    ASSUME IsFiniteSet(Blocks)
    PROVE  Spec => []InflightWraps
<1>1. Init => InflightWraps
  <2> SUFFICES ASSUME Init PROVE InflightWraps
    OBVIOUS
  <2>1. CountedBlocks = {} /\ PushedBlocks = {}
    BY DEF Init, CountedBlocks, PushedBlocks, Counted, Pushed
  <2>2. Cardinality({}) = 0
    BY FS_EmptySet
  <2>3. 0 = 0 - 0 + CounterSize * 0
    BY ConstantsAssumption
  <2>4. QED
    BY <2>1, <2>2, <2>3 DEF Init, InflightWraps
<1>2. SlotInv /\ InflightWraps /\ [Next]_vars => InflightWraps'
  BY WrapsNext
<1>3. QED
  BY <1>1, <1>2, SlotsAgree, PTL DEF Spec

(* m_inflight is, modulo its width, the number of deferrals whose completion *)
(* has not been pushed, also when a push overtakes its own increment.        *)
THEOREM InflightIsExact ==
    ASSUME IsFiniteSet(Blocks)
    PROVE  Spec => []InflightExact
<1>1. TypeOK /\ InflightWraps => InflightExact
  BY WrapsMeansExact
<1>2. QED
  BY <1>1, TypeCorrect, WrapsInvariant, PTL

-----------------------------------------------------------------------------
(* What stop() waits for, and callbacks that dangle.  m_inflight = 0 says    *)
(* that nothing is in flight only while fewer blocks than its width exist.   *)

LEMMA ZeroMeansNone ==
    ASSUME IsFiniteSet(Blocks), Cardinality(Blocks) < CounterSize, SlotInv, DeferralInv,
           InflightWraps, server = "exited", inflight = 0, NEW b \in Blocks, Counted(b)
    PROVE  Pushed(b)
<1> DEFINE C == Cardinality(CountedBlocks)
           P == Cardinality(PushedBlocks)
<1>1. /\ C \in Nat /\ P \in Nat /\ CounterSize \in Nat \ {0} /\ C < CounterSize
      /\ IsFiniteSet(CountedBlocks)
  BY BlockSets, ConstantsAssumption, FS_CardinalityType
<1>2. PushedBlocks \subseteq CountedBlocks
  <2> SUFFICES ASSUME NEW a \in Blocks, Pushed(a) PROVE Counted(a)
    BY DEF PushedBlocks, CountedBlocks
  <2>1. stage[a] \in Stages /\ ~HandlerOf(a)
    BY DEF SlotInv, TypeOK, OneAtATime
  <2>2. stage[a] # "fresh" /\ stage[a] # "synchronous"
    BY DEF Pushed, SlotInv, CompletersAgree, DeferralInv, RaceDecided
  <2>3. QED
    BY <2>1, <2>2 DEF Stages, HandlerOf, Counted
<1>3. P <= C /\ (C = P => PushedBlocks = CountedBlocks)
  BY <1>1, <1>2, FS_Subset
<1>4. PICK turns \in Int : 0 = C - P + CounterSize * turns
  BY DEF InflightWraps
<1>5. PushedBlocks = CountedBlocks
  <2> HIDE DEF C, P
  <2>1. turns = 0
    <3>1. CASE turns >= 1
      <4>1. CounterSize * turns >= CounterSize
        BY <1>1, <3>1
      <4>2. QED
        BY <1>1, <1>3, <1>4, <4>1
    <3>2. CASE turns <= 0 - 1
      <4>1. CounterSize * turns <= 0 - CounterSize
        BY <1>1, <3>2
      <4>2. QED
        BY <1>1, <1>3, <1>4, <4>1
    <3>3. QED
      BY <3>1, <3>2
  <2>2. C = P
    BY <1>1, <1>4, <2>1
  <2>3. QED
    BY <1>3, <2>2
<1>6. QED
  BY <1>5 DEF PushedBlocks, CountedBlocks

PastTheWait == main \in {"swapping", "draining", "deleting", "releasing", "stopped"}

\* Once stop() has joined the server thread no operation is counted any more.
LEMMA NoPushNext ==
    ASSUME IsFiniteSet(Blocks), Cardinality(Blocks) < CounterSize, SlotInv, SlotInv',
           DeferralInv, InflightWraps, NoPushAfterShutdown, [Next]_vars
    PROVE  NoPushAfterShutdown'
<1> SUFFICES ASSUME PastTheWait', ~gaveUp', NEW a \in Blocks, Counted(a)'
             PROVE  Pushed(a)'
  BY DEF NoPushAfterShutdown, PastTheWait
<1>0. TypeOK
  BY DEF SlotInv
<1>1. ASSUME PastTheWait, ~gaveUp, Counted(a) PROVE Pushed(a)'
  <2>1. Pushed(a)
    BY <1>1 DEF PastTheWait, NoPushAfterShutdown
  <2>2. QED
    BY <2>1, PushedStays DEF Pushed
<1>2. ASSUME PastTheWait, UNCHANGED gaveUp PROVE Pushed(a)'
  <2>1. server = "exited"
    BY <1>2 DEF PastTheWait, SlotInv, OneAtATime
  <2>2. \A b \in Blocks : ~HandlerOf(b)
    BY <2>1 DEF SlotInv, OneAtATime
  <2>3. Counted(a)
    <3>1. CASE UNCHANGED stage
      BY <3>1 DEF Counted
    <3>2. ASSUME NEW b \in Blocks, NEW k \in Keys, Begin(b, k) PROVE FALSE
      BY <2>1, <3>2 DEF Begin, ServerServes
    <3>3. ASSUME NEW b \in Blocks, NEW k \in Keys, AnswerSynchronously(b, k)
          PROVE  FALSE
      BY <1>2, <2>1, <3>3 DEF AnswerSynchronously, ServerServes, PastTheWait
    <3>4. ASSUME NEW b \in Blocks, HandlerStep(b) PROVE FALSE
      BY <2>2, <3>4 DEF HandlerStep, FinishInline, RefuseCall, Defer, CountInflight,
                        Register, StackEnqueue, StackDeclines, StackRefuses, NotKept, HandlerOf
    <3>5. ASSUME NEW b \in Blocks, WorkerStep(b) \/ \E v \in Values : Store(b, v)
          PROVE  UNCHANGED stage
      BY <3>5 DEF WorkerStep, Exchange, LockSelf, Push, UseDestroyed, Store
    <3>6. ASSUME UNCHANGED blockVars PROVE UNCHANGED stage
      BY <3>6 DEF blockVars
    <3>7. QED
      BY <3>1, <3>2, <3>3, <3>4, <3>5, <3>6, BlocksLeftAlone DEF Next
  <2>4. QED
    BY <1>1, <1>2, <2>3
<1>3. ASSUME ShutdownDone PROVE Pushed(a)'
  <2>1. server = "exited" /\ inflight = 0 /\ UNCHANGED blockVars
    BY <1>3 DEF ShutdownDone, WaitIsOver, SlotInv, OneAtATime
  <2>2. Counted(a)
    BY <2>1 DEF Counted, blockVars
  <2>3. Pushed(a)
    BY <2>1, <2>2, ZeroMeansNone
  <2>4. QED
    BY <2>1, <2>3 DEF Pushed, blockVars
<1>4. ASSUME ShutdownGivesUp PROVE FALSE
  BY <1>4 DEF ShutdownGivesUp
<1>5. ASSUME UNCHANGED <<main, gaveUp>> PROVE Pushed(a)'
  BY <1>2, <1>5 DEF PastTheWait
<1>6. ASSUME DrainSwap \/ ClearRegistry \/ DeleteServer \/ DeleteOperations
      PROVE  Pushed(a)'
  <2>1. UNCHANGED gaveUp /\ PastTheWait
    BY <1>6 DEF DrainSwap, ClearRegistry, DeleteServer, DeleteOperations, PastTheWait
  <2>2. QED
    BY <1>2, <2>1
<1>7. ASSUME Start \/ CallStop \/ Close PROVE FALSE
  BY <1>7 DEF Start, CallStop, Close, PastTheWait
<1>8. ASSUME NEW b \in Blocks, NEW k \in Keys,
             Begin(b, k) \/ AnswerSynchronously(b, k)
      PROVE  UNCHANGED <<main, gaveUp>>
  BY <1>8 DEF Begin, AnswerSynchronously, lifeVars
<1>9. ASSUME NEW b \in Blocks,
             HandlerStep(b) \/ WorkerStep(b) \/ \E v \in Values : Store(b, v)
      PROVE  UNCHANGED <<main, gaveUp>>
  BY <1>9 DEF HandlerStep, FinishInline, RefuseCall, Defer, CountInflight,
              Register, StackEnqueue, StackDeclines, StackRefuses, NotKept, WorkerStep,
              Exchange, LockSelf,
              Push, UseDestroyed, Store, lifeVars
<1>10. ASSUME NEW b \in Blocks, Timeout(b) \/ ClientCancel(b) \/ Release(b)
       PROVE  UNCHANGED <<main, gaveUp>>
  BY <1>10 DEF Timeout, ClientCancel, StackCancels, Release, lifeVars
<1>11. ASSUME \/ DrainFinish \/ DrainDrop \/ LowerFlag \/ LeaveLoop \/ ThreadEnds
              \/ UNCHANGED vars
       PROVE  UNCHANGED <<main, gaveUp>>
  BY <1>11 DEF DrainFinish, DrainDrop, LowerFlag, LeaveLoop, ThreadEnds, lifeVars, vars
<1>12. QED
  BY <1>3, <1>4, <1>5, <1>6, <1>7, <1>8, <1>9, <1>10, <1>11
     DEF Next, DrainStep, StopStep

LEMMA LostNext ==
    ASSUME SlotInv, DeferralInv, NoPushAfterShutdown, LostIsOver, [Next]_vars
    PROVE  LostIsOver'
<1> SUFFICES ASSUME NEW a \in Blocks, completer'[a] = "lost", ~gaveUp'
             PROVE  opState'[a] \in {"ready", "released"} /\ answer'[a] \in StackStatuses
  BY DEF LostIsOver
<1>0. TypeOK
  BY DEF SlotInv
<1>1. ~gaveUp
  <2>1. CASE ShutdownGivesUp
    BY <2>1 DEF ShutdownGivesUp
  <2>2. ASSUME NEW b \in Blocks, NEW k \in Keys,
               Begin(b, k) \/ AnswerSynchronously(b, k)
        PROVE  UNCHANGED gaveUp
    BY <2>2 DEF Begin, AnswerSynchronously, lifeVars
  <2>3. ASSUME NEW b \in Blocks,
               HandlerStep(b) \/ WorkerStep(b) \/ \E v \in Values : Store(b, v)
        PROVE  UNCHANGED gaveUp
    BY <2>3 DEF HandlerStep, FinishInline, RefuseCall, Defer, CountInflight,
                Register, StackEnqueue, StackDeclines, StackRefuses, NotKept, WorkerStep,
                Exchange, LockSelf,
                Push, UseDestroyed, Store, lifeVars
  <2>4. ASSUME NEW b \in Blocks, Timeout(b) \/ ClientCancel(b) \/ Release(b)
        PROVE  UNCHANGED gaveUp
    BY <2>4 DEF Timeout, ClientCancel, StackCancels, Release, lifeVars
  <2>5. ASSUME \/ DrainStep \/ Start \/ LowerFlag \/ LeaveLoop \/ ThreadEnds
               \/ CallStop \/ Close \/ ShutdownDone \/ ClearRegistry
               \/ DeleteServer \/ DeleteOperations \/ UNCHANGED vars
        PROVE  UNCHANGED gaveUp
    BY <2>5 DEF DrainStep, DrainSwap, DrainFinish, DrainDrop, Start, LowerFlag,
                LeaveLoop, ThreadEnds, CallStop, Close, ShutdownDone, ClearRegistry,
                DeleteServer, DeleteOperations, lifeVars, vars
  <2>6. QED
    BY <2>1, <2>2, <2>3, <2>4, <2>5 DEF Next, StopStep
<1>2. CASE completer[a] = "lost"
  <2>1. opState[a] \in {"ready", "released"} /\ answer[a] \in StackStatuses
    BY <1>1, <1>2 DEF LostIsOver
  <2>2. QED
    BY <2>1, StepKeepsAnswers DEF AnswerKept
<1>3. CASE completer[a] # "lost"
  <2>1. UseDestroyed(a)
    <3>1. ASSUME NEW b \in Blocks, NEW k \in Keys,
                 Begin(b, k) \/ AnswerSynchronously(b, k)
          PROVE  FALSE
      BY <1>0, <1>3, <3>1 DEF Begin, AnswerSynchronously, TypeOK
    <3>2. ASSUME NEW b \in Blocks, HandlerStep(b) PROVE FALSE
      BY <1>0, <1>3, <3>2 DEF HandlerStep, FinishInline, RefuseCall, Defer,
            CountInflight, Register, StackEnqueue, StackDeclines, StackRefuses, NotKept, TypeOK
    <3>3. ASSUME NEW b \in Blocks,
                 \/ Exchange(b) \/ LockSelf(b) \/ Push(b)
                 \/ \E v \in Values : Store(b, v)
          PROVE  FALSE
      BY <1>0, <1>3, <3>3 DEF Exchange, LockSelf, Push, Store, TypeOK
    <3>4. ASSUME UNCHANGED blockVars PROVE FALSE
      BY <1>3, <3>4 DEF blockVars
    <3>5. ASSUME NEW b \in Blocks, UseDestroyed(b), b # a PROVE FALSE
      BY <1>0, <1>3, <3>5 DEF UseDestroyed, TypeOK
    <3>6. QED
      BY <3>1, <3>2, <3>3, <3>4, <3>5, BlocksLeftAlone DEF Next, WorkerStep
  <2>2. /\ completer[a] \in {"held", "stored", "won"} /\ ~Referenced(a)
        /\ UNCHANGED stackVars
    BY <2>1 DEF UseDestroyed, Reachable
  <2>3. stage[a] = "deferred"
    <3>1. stage[a] \in Stages /\ ~HandlerOf(a)
      BY <1>0, <2>2 DEF TypeOK, Referenced
    <3>2. stage[a] # "fresh" /\ stage[a] # "synchronous"
      BY <2>2 DEF SlotInv, CompletersAgree, DeferralInv, RaceDecided
    <3>3. QED
      BY <3>1, <3>2 DEF Stages, HandlerOf
  <2>4. opState[a] # "waiting"
    <3>1. SUFFICES ASSUME opState[a] = "waiting" PROVE FALSE
      OBVIOUS
    <3>2. pending[key[a]] # a
      BY <2>2, <2>3 DEF Referenced, SlotInv, StagesAgree
    <3>3. ~RegistryLives
      BY <3>1, <3>2 DEF SlotInv, RegistryExact
    <3>4. Pushed(a)
      BY <1>1, <2>3, <3>3 DEF RegistryLives, NoPushAfterShutdown, Counted
    <3>5. QED
      BY <2>2, <3>4 DEF Pushed
  <2>5. opState[a] \in {"ready", "released"}
    BY <1>0, <2>3, <2>4 DEF SlotInv, StagesAgree, HandlerOf, TypeOK
  <2>6. answer[a] \in StackStatuses
    BY <2>2, <2>3, <2>4 DEF DeferralInv, AnsweredEarly
  <2>7. QED
    BY <2>2, <2>5, <2>6 DEF stackVars
<1>4. QED
  BY <1>2, <1>3

(* The whole invariant, while the blocks in memory are fewer than m_inflight *)
(* can count: slots, races, queues, count, shutdown and dangling callbacks.  *)
THEOREM Inductive ==
    ASSUME IsFiniteSet(Blocks), Cardinality(Blocks) < CounterSize
    PROVE  Spec => []IInv
<1> DEFINE Whole == SlotInv /\ DeferralInv /\ InflightWraps
<1>1. Spec => []Whole
  BY RaceIsDecided, WrapsInvariant, PTL
<1>2. Init => NoPushAfterShutdown /\ LostIsOver
  BY DEF Init, NoPushAfterShutdown, LostIsOver
<1>3. Whole /\ Whole' /\ NoPushAfterShutdown /\ LostIsOver /\ [Next]_vars =>
        NoPushAfterShutdown' /\ LostIsOver'
  BY NoPushNext, LostNext
<1>4. Spec => [](NoPushAfterShutdown /\ LostIsOver)
  BY <1>1, <1>2, <1>3, PTL DEF Spec
<1>5. SlotInv /\ DeferralInv /\ QueueInv /\ InflightExact /\ NoPushAfterShutdown /\ LostIsOver
        => IInv
  BY DEF IInv, CountInv
<1>6. QED
  BY <1>1, <1>4, <1>5, QueuesAreSound, InflightIsExact, PTL

(* stop() deletes the layer only when no completion is on its way to push(), *)
(* unless shutdown() gave up waiting.                                        *)
THEOREM NothingPushedTooLate ==
    ASSUME IsFiniteSet(Blocks), Cardinality(Blocks) < CounterSize
    PROVE  Spec => []NoPushAfterShutdown
<1>1. IInv => NoPushAfterShutdown
  BY DEF IInv, CountInv
<1>2. QED
  BY <1>1, Inductive, PTL

(* A method's callback dangles only after the stack has answered its call    *)
(* without it, or after shutdown() gave up.                                  *)
THEOREM LostAfterCancel ==
    ASSUME IsFiniteSet(Blocks), Cardinality(Blocks) < CounterSize
    PROVE  Spec => []LostOnlyWhenCancelled
<1>1. IInv => LostOnlyWhenCancelled
  BY DEF IInv, CountInv, LostIsOver, LostOnlyWhenCancelled
<1>2. QED
  BY <1>1, Inductive, PTL

-----------------------------------------------------------------------------
(* The layer implements DeferredService: each step of the stack, a handler,  *)
(* a worker or stop() is one step of the service or none.                    *)

Requests == [b \in Blocks |-> RequestState(b)]

LEMMA OneRequestMoves ==
    ASSUME TypeOK, NEW b \in Blocks,
           NEW o \in {"idle", "executing", "waiting", "ready", "released"},
           NEW state, opState' = [opState EXCEPT ![b] = o],
           state = CASE o = "idle" -> "idle"
                     [] o \in {"executing", "waiting"} -> "open"
                     [] OTHER -> "answered"
    PROVE  Requests' = [Requests EXCEPT ![b] = state]
<1>1. opState'[b] = o /\ \A a \in Blocks \ {b} : opState'[a] = opState[a]
  BY DEF TypeOK
<1>2. RequestState(b)' = state
  BY <1>1 DEF RequestState
<1>3. \A a \in Blocks \ {b} : RequestState(a)' = RequestState(a)
  BY <1>1 DEF RequestState
<1>4. QED
  BY <1>2, <1>3 DEF Requests

(* One operation that is open gets an answer a that the service allows.      *)
LEMMA AnswerIsAnswered ==
    ASSUME SlotInv, NEW b \in Blocks, UsesSlot(b), opState[b] # "ready", NEW a,
           \/ a \in StackStatuses \cup HandlerStatuses
           \/ a = result[b] /\ a # Unanswered,
           opState' = [opState EXCEPT ![b] = "ready"],
           answer' = [answer EXCEPT ![b] = a], UNCHANGED result
    PROVE  Service!Next
<1>1. Requests' = [Requests EXCEPT ![b] = "answered"]
  BY OneRequestMoves DEF SlotInv
<1>2. Requests[b] = "open"
  BY DEF Requests, RequestState, UsesSlot
<1>3. Service!Answer(b, a)
  BY <1>1, <1>2 DEF Service!Answer, Requests
<1>4. a \in (StackStatuses \cup HandlerStatuses) \cup {result[b]}
  OBVIOUS
<1>5. QED
  BY <1>3, <1>4 DEF Service!Next

LEMMA ServiceInit == Init => Service!Init
<1> SUFFICES ASSUME Init PROVE Service!Init
  OBVIOUS
<1>1. Requests = [b \in Blocks |-> "idle"]
  BY DEF Init, Requests, RequestState
<1>2. QED
  BY <1>1 DEF Init, Service!Init, Requests

LEMMA ServiceStep ==
    ASSUME SlotInv, [Next]_vars
    PROVE  [Service!Next]_<<Requests, result, answer>>
<1>0. TypeOK
  BY DEF SlotInv
<1>1. ASSUME NEW b \in Blocks, NEW k \in Keys, Begin(b, k) PROVE Service!Next
  <2>1. Requests' = [Requests EXCEPT ![b] = "open"]
    BY <1>0, <1>1, OneRequestMoves DEF Begin
  <2>2. Requests[b] = "idle"
    BY <1>1 DEF Begin, SlotInv, StagesAgree, Requests, RequestState
  <2>3. Service!Accept(b)
    BY <1>1, <2>1, <2>2 DEF Begin, Service!Accept, Requests
  <2>4. QED
    BY <2>3 DEF Service!Next
<1>2. ASSUME NEW b \in Blocks, NEW k \in Keys, AnswerSynchronously(b, k)
      PROVE  Service!Next
  <2>1. PICK a \in HandlerStatuses : answer' = [answer EXCEPT ![b] = a]
    BY <1>2 DEF AnswerSynchronously, HandlerStatuses
  <2>2. Requests' = [Requests EXCEPT ![b] = "answered"]
    BY <1>0, <1>2, OneRequestMoves DEF AnswerSynchronously
  <2>3. Requests[b] = "idle"
    BY <1>2 DEF AnswerSynchronously, SlotInv, StagesAgree, Requests, RequestState
  <2>4. Service!AnswerAtOnce(b, a)
    BY <1>2, <2>1, <2>2, <2>3 DEF AnswerSynchronously, Service!AnswerAtOnce, Requests
  <2>5. QED
    BY <2>4 DEF Service!Next
<1>3. ASSUME NEW b \in Blocks, NEW v \in Values, Store(b, v) PROVE Service!Next
  <2> DEFINE o == [by |-> b, value |-> v]
  <2>1. UNCHANGED <<opState, answer>> /\ result' = [result EXCEPT ![b] = o]
    BY <1>3 DEF Store, stackVars
  <2>2. UNCHANGED Requests
    BY <2>1 DEF Requests, RequestState
  <2>3. completer[b] = "held"
    BY <1>3 DEF Store
  <2>4. result[b] = Unanswered /\ stage[b] # "fresh"
    BY <2>3 DEF SlotInv, CompletersAgree
  <2>5. Requests[b] # "idle"
    BY <2>4 DEF SlotInv, StagesAgree, Requests, RequestState
  <2>6. o \in Completions(b)
    BY DEF Completions
  <2> HIDE DEF o
  <2>7. Service!Offer(b, o)
    BY <2>1, <2>2, <2>4, <2>5, <2>6 DEF Service!Offer, Requests
  <2>8. QED
    BY <2>6, <2>7 DEF Service!Next
<1>4. ASSUME NEW b \in Blocks, FinishInline(b) PROVE Service!Next
  <2>1. opState[b] = "executing" /\ UsesSlot(b)
    BY <1>4 DEF FinishInline, SlotInv, StagesAgree, HandlerOf, UsesSlot
  <2>2. answer' = [answer EXCEPT ![b] = result[b]]
    BY <1>0, <1>4, <2>1, WrittenIsOwn DEF FinishInline, SlotInv
  <2>3. result[b] \in Completions(b)
    BY <1>4 DEF FinishInline, PhaseFound, SlotInv, CompletersAgree
  <2>4. result[b] # Unanswered
    BY <2>3, ConstantsAssumption DEF Completions, Unanswered, Status
  <2>5. opState' = [opState EXCEPT ![b] = "ready"] /\ UNCHANGED result
    BY <1>4 DEF FinishInline
  <2>6. QED
    BY <2>1, <2>2, <2>4, <2>5, AnswerIsAnswered
<1>5. ASSUME NEW b \in Blocks, RefuseCall(b) PROVE Service!Next
  <2>1. opState[b] = "executing" /\ UsesSlot(b)
    BY <1>5 DEF RefuseCall, SlotInv, StagesAgree, HandlerOf, UsesSlot
  <2>2. /\ answer' = [answer EXCEPT ![b] = Status("CallRefused")]
        /\ opState' = [opState EXCEPT ![b] = "ready"] /\ UNCHANGED result
    BY <1>5 DEF RefuseCall
  <2>3. Status("CallRefused") \in HandlerStatuses
    BY DEF HandlerStatuses
  <2>4. QED
    BY <2>1, <2>2, <2>3, AnswerIsAnswered
<1>6. ASSUME NEW b \in Blocks, StackEnqueue(b)
      PROVE  UNCHANGED <<Requests, result, answer>>
  <2>1. opState[b] = "executing" /\ opState' = [opState EXCEPT ![b] = "waiting"]
    BY <1>6 DEF StackEnqueue, SlotInv, StagesAgree, HandlerOf
  <2>2. UNCHANGED Requests
    BY <1>0, <2>1 DEF Requests, RequestState, TypeOK
  <2>3. QED
    BY <1>6, <2>2 DEF StackEnqueue
<1>7. ASSUME NEW b \in Blocks, NEW s \in Refusals, NotKept(b, s)
      PROVE  Service!Next
  <2>1. opState[b] = "executing" /\ UsesSlot(b)
    BY <1>7 DEF NotKept, SlotInv, StagesAgree, HandlerOf, UsesSlot
  <2>2. answer' = [answer EXCEPT ![b] = Status(s)]
    BY <1>0, <1>7, <2>1, WrittenIsOwn DEF NotKept, SlotInv
  <2>3. opState' = [opState EXCEPT ![b] = "ready"] /\ UNCHANGED result
    BY <1>7 DEF NotKept
  <2>4. Status(s) \in StackStatuses
    BY DEF StackStatuses, Refusals
  <2>5. QED
    BY <2>1, <2>2, <2>3, <2>4, AnswerIsAnswered
<1>8. ASSUME NEW b \in Blocks, NEW s \in {"BadTimeout", "BadOperationAbandoned"},
             StackCancels(b, s)
      PROVE  Service!Next
  <2>1. opState[b] = "waiting" /\ UsesSlot(b)
    BY <1>8 DEF StackCancels, UsesSlot
  <2>2. answer' = [answer EXCEPT ![b] = Status(s)]
    BY <1>0, <1>8, <2>1, WrittenIsOwn DEF StackCancels, SlotInv
  <2>3. opState' = [opState EXCEPT ![b] = "ready"] /\ UNCHANGED result
    BY <1>8 DEF StackCancels, CancelledOp, blockVars
  <2>4. Status(s) \in StackStatuses
    BY DEF StackStatuses
  <2>5. QED
    BY <2>1, <2>2, <2>3, <2>4, AnswerIsAnswered
<1>9. ASSUME NEW b \in Blocks, Release(b)
      PROVE  UNCHANGED <<Requests, result, answer>>
  <2>1. opState[b] = "ready" /\ opState' = [opState EXCEPT ![b] = "released"]
    BY <1>9 DEF Release
  <2>2. UNCHANGED Requests
    BY <1>0, <2>1 DEF Requests, RequestState, TypeOK
  <2>3. QED
    BY <1>9, <2>2 DEF Release, blockVars
<1>10. ASSUME DrainFinish PROVE Service!Next
  <2> DEFINE d == Head(batch)
  <2>1. /\ d \in Blocks /\ opState[d] = "waiting"
        /\ result[d] \in Completions(d)
        /\ opState' = [opState EXCEPT ![d] = "ready"]
    BY <1>10, CurrentIsWaiting DEF DrainFinish
  <2>2. answer' = Written(key[d], result[d]) /\ UNCHANGED result
    BY <1>10 DEF DrainFinish, blockVars
  <2> HIDE DEF d
  <2>3. UsesSlot(d)
    BY <2>1 DEF UsesSlot
  <2>4. answer' = [answer EXCEPT ![d] = result[d]]
    BY <1>0, <2>1, <2>2, <2>3, WrittenIsOwn DEF SlotInv
  <2>5. result[d] # Unanswered
    BY <2>1, ConstantsAssumption DEF Completions, Unanswered, Status
  <2>6. QED
    BY <2>1, <2>2, <2>3, <2>4, <2>5, AnswerIsAnswered
<1>11. ASSUME DeleteServer PROVE Service!Next
  <2>1. \A b \in Blocks : opState[b] # "executing"
    <3>1. server = "exited"
      BY <1>11 DEF DeleteServer, SlotInv, OneAtATime
    <3>2. QED
      BY <3>1 DEF SlotInv, OneAtATime, StagesAgree
  <2>2. Requests' = [b \in Blocks |-> IF Requests[b] = "open" THEN "answered"
                                       ELSE Requests[b]]
    <3>1. ASSUME NEW b \in Blocks
          PROVE  Requests'[b] = IF Requests[b] = "open" THEN "answered" ELSE Requests[b]
      <4>1. opState'[b] = IF UsesSlot(b) THEN "released" ELSE opState[b]
        BY <1>11 DEF DeleteServer
      <4>2. opState[b] \in {"idle", "waiting", "ready", "released"}
        BY <1>0, <2>1 DEF TypeOK
      <4>3. QED
        BY <4>1, <4>2 DEF UsesSlot, Requests, RequestState
    <3>2. QED
      BY <3>1 DEF Requests
  <2>3. answer' = [b \in Blocks |-> IF Requests[b] = "open" THEN Status("BadShutdown")
                                     ELSE answer[b]]
    <3>1. \A b \in Blocks : Requests[b] = "open" <=> opState[b] = "waiting"
      BY <2>1 DEF Requests, RequestState
    <3>2. QED
      BY <1>11, <3>1 DEF DeleteServer
  <2>4. UNCHANGED result
    BY <1>11 DEF DeleteServer, blockVars
  <2>5. Service!Shutdown
    BY <2>2, <2>3, <2>4 DEF Service!Shutdown, Requests
  <2>6. QED
    BY <2>5 DEF Service!Next
<1>12. ASSUME UNCHANGED <<stackVars, result>>
       PROVE  UNCHANGED <<Requests, result, answer>>
  BY <1>12 DEF stackVars, Requests, RequestState
<1>13. ASSUME NEW b \in Blocks,
              Defer(b) \/ CountInflight(b) \/ Register(b) \/ WorkerStep(b)
       PROVE  UNCHANGED <<stackVars, result>>
  BY <1>13 DEF Defer, CountInflight, Register, WorkerStep, Exchange, LockSelf,
               Push, UseDestroyed
<1>14. ASSUME \/ DrainSwap \/ DrainDrop \/ Start \/ LowerFlag \/ LeaveLoop
              \/ ThreadEnds \/ CallStop \/ Close \/ ShutdownDone
              \/ ShutdownGivesUp \/ ClearRegistry \/ DeleteOperations
              \/ UNCHANGED vars
       PROVE  UNCHANGED <<stackVars, result>>
  BY <1>14 DEF DrainSwap, DrainDrop, Start, LowerFlag, LeaveLoop, ThreadEnds,
               CallStop, Close, ShutdownDone, ShutdownGivesUp, ClearRegistry,
               DeleteOperations, blockVars, vars
<1>15. QED
  BY <1>1, <1>2, <1>3, <1>4, <1>5, <1>6, <1>7, <1>8, <1>9, <1>10, <1>11, <1>12,
     <1>13, <1>14
     DEF Next, HandlerStep, StackDeclines, StackRefuses, Refusals, DrainStep, StopStep,
         Timeout, ClientCancel

(* Blocks, queue, races, cancels, slot reuse and shutdown included, each     *)
(* request gets one answer: the application's own offer for it, or a status. *)
THEOREM LayerImplementsService == Spec => RefinesService
<1>1. Init => Service!Init
  BY ServiceInit
<1>2. SlotInv /\ [Next]_vars => [Service!Next]_<<Requests, result, answer>>
  BY ServiceStep
<1>3. SlotInv /\ [Next]_vars => [Service!Next]_(Service!vars)
  BY <1>2 DEF Service!vars, Requests
<1>4. QED
  BY <1>1, <1>3, SlotsAgree, PTL DEF Spec, RefinesService, Service!Spec
=============================================================================
