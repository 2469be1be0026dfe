--------------------------- MODULE AsyncOperations ---------------------------
(***************************************************************************)
(* The deferral layer of open62541-compat: AsyncOperations, its blocks and *)
(* handles (include/async_operations.h, src/async_operations.cpp), the     *)
(* callbacks that create them (unifiedRead, unifiedWrite, unifiedCall in   *)
(* src/nodemanagerbase.cpp), the part of the bundled stack's async manager *)
(* they talk to, and UaServer::stop, which takes the layer down.           *)
(*                                                                         *)
(* Three kinds of thread run here.  The server thread executes handlers,   *)
(* drains the completion queue, expires and releases operations.  A        *)
(* worker of the application completes each operation.  The main thread    *)
(* starts and stops the server.  A block stands for one handler run: its   *)
(* AsyncOperationBlock, its handle or callback, and its entry in the stack.*)
(***************************************************************************)
EXTENDS Naturals, Sequences, FiniteSets, Functions

CONSTANTS
    Blocks,       \* one per handler run
    Methods,      \* the blocks made by unifiedCall (AsyncMethodBlock)
    Keys,         \* addresses of the stack's result slots
    Values,       \* what the application may complete an operation with
    CounterSize,  \* m_inflight is an unsigned int: arithmetic modulo this
    TimeLimited,  \* asyncOperationTimeout is set; it is not by default
    QueueLimited, \* maxAsyncOperationQueueSize is set; it is not by default
    NoBlock,      \* no entry in m_pending
    NoKey         \* the handler has not run yet

ASSUME ConstantsAssumption ==
    /\ Methods \subseteq Blocks
    /\ NoBlock \notin Blocks
    /\ NoKey \notin Keys
    /\ CounterSize \in Nat \ {0}
    /\ TimeLimited \in BOOLEAN /\ QueueLimited \in BOOLEAN

VARIABLES
    stage,     \* server thread's place in the handler of each block
    completer, \* the place of the handle's (or callback's) holder
    phase,     \* AsyncOperationBlock::m_phase
    result,    \* AsyncReadBlock, AsyncWriteBlock, AsyncMethodBlock::m_result
    key,       \* AsyncOperationBlock::m_key
    opState,   \* the stack's UA_AsyncOperation
    answer,    \* content of the stack's result slot
    pending,   \* AsyncOperations::m_pending
    queue,     \* AsyncOperations::m_queue
    batch,     \* the local batch of AsyncOperations::drain
    inflight,  \* AsyncOperations::m_inflight
    serving,   \* AsyncOperations::m_serving
    closed,    \* AsyncOperations::m_closed
    running,   \* *UaServer::m_runningFlag, owned by the application
    server,    \* UaServer::runThread
    main,      \* UaServer::start and UaServer::stop
    gaveUp     \* shutdown() timed out with operations in flight

blockVars == <<stage, completer, phase, result, key>>
stackVars == <<opState, answer>>
opsVars   == <<pending, queue, batch, inflight, serving, closed>>
lifeVars  == <<running, server, main, gaveUp>>
vars      == <<blockVars, stackVars, opsVars, lifeVars>>

-----------------------------------------------------------------------------
(* Values of the variables.                                                *)

\* An answer carries the block whose completion produced it; the statuses
\* the stack or the handler make up themselves carry NoBlock.
Status(s) == [by |-> NoBlock, value |-> s]

StackStatuses == {Status(s) : s \in {"BadTimeout", "BadOperationAbandoned",
                                     "BadWaitingForResponse", "BadTooManyOperations",
                                     "BadShutdown"}}
HandlerStatuses == {Status(s) : s \in {"Synchronous", "BadOutOfService",
                                       "CallRefused"}}
Unanswered == Status("Unanswered")

Completions(b) == [by : {b}, value : Values]
Answers(b) == Completions(b) \cup StackStatuses \cup HandlerStatuses

AllCompletions == [by : Blocks, value : Values]
AllAnswers == AllCompletions \cup StackStatuses \cup HandlerStatuses

Stages == {"fresh", "begin", "deferring", "counted", "registered",
           "deferred", "synchronous"}
CompleterStates == {"none", "held", "stored", "won", "owning",
                    "pushed", "inline", "lost"}

TypeOK ==
    /\ stage \in [Blocks -> Stages]
    /\ completer \in [Blocks -> CompleterStates]
    /\ phase \in [Blocks -> {"Initial", "Finished", "Deferred"}]
    /\ key \in [Blocks -> Keys \cup {NoKey}]
    /\ result \in [Blocks -> AllCompletions \cup {Unanswered}]
    /\ opState \in [Blocks -> {"idle", "executing", "waiting", "ready", "released"}]
    /\ answer \in [Blocks -> AllAnswers \cup {Unanswered}]
    /\ pending \in [Keys -> Blocks \cup {NoBlock}]
    /\ queue \in Seq(Blocks)
    /\ batch \in Seq(Blocks)
    /\ inflight \in 0 .. CounterSize - 1
    /\ serving \in BOOLEAN /\ closed \in BOOLEAN
    /\ running \in BOOLEAN /\ gaveUp \in BOOLEAN
    /\ server \in {"down", "running", "closing", "exited"}
    /\ main \in {"starting", "up", "joining", "waiting", "swapping",
                 "draining", "deleting", "releasing", "stopped"}

Init ==
    /\ stage = [b \in Blocks |-> "fresh"]
    /\ completer = [b \in Blocks |-> "none"]
    /\ phase = [b \in Blocks |-> "Initial"]
    /\ key = [b \in Blocks |-> NoKey]
    /\ result = [b \in Blocks |-> Unanswered]
    /\ opState = [b \in Blocks |-> "idle"]
    /\ answer = [b \in Blocks |-> Unanswered]
    /\ pending = [k \in Keys |-> NoBlock]
    /\ queue = <<>> /\ batch = <<>>
    /\ inflight = 0
    /\ serving = FALSE /\ closed = FALSE
    /\ running = TRUE
    /\ server = "down" /\ main = "starting"
    /\ gaveUp = FALSE

-----------------------------------------------------------------------------
(* State predicates the actions share.                                     *)

HandlerOf(b) == stage[b] \in {"begin", "deferring", "counted", "registered"}

\* The server thread is between two handlers and not inside drain().
ServerIdle == batch = <<>> /\ \A b \in Blocks : ~HandlerOf(b)

\* The server thread can take up work: the loop, or run_shutdown's last turns.
ServerServes == server \in {"running", "closing"} /\ ServerIdle

\* The slot of b belongs to a response that has not been released.
UsesSlot(b) == opState[b] \in {"executing", "waiting", "ready"}
SlotUsers(k) == {b \in Blocks : UsesSlot(b) /\ key[b] = k}

\* Some shared_ptr to the block is left: the handler's local one, m_pending,
\* m_queue or the batch, or the one finishCall locked.
Referenced(b) ==
    \/ HandlerOf(b)
    \/ \E k \in Keys : pending[k] = b
    \/ b \in Range(queue) \/ b \in Range(batch)
    \/ completer[b] = "owning"

\* A handle owns its block; a method's callback is a raw pointer to it.
Reachable(b) == b \notin Methods \/ Referenced(b)

\* A block whose ++m_inflight has run, and one whose --m_inflight has.
Counted(b) == stage[b] \in {"counted", "registered", "deferred"}
Pushed(b) == completer[b] = "pushed"

-----------------------------------------------------------------------------
(* Operators the actions are made of; a Bug... operator is a deviation that *)
(* the mutation runs put in place of the operator that follows it.         *)

\* m_pending.erase(key)
BugErased(k) == pending
Erased(k) == [pending EXCEPT ![k] = NoBlock]

\* m_pending[block->key()] = block
BugRegistered(b) == pending
Registered(b) == [pending EXCEPT ![key[b]] = b]

\* drain() takes a completion only for the very block that is registered.
BugIsCurrent(b) == pending[key[b]] # NoBlock
IsCurrent(b) == pending[key[b]] = b

\* What the handler's phase exchange finds.
BugPhaseFound(b) == "Initial"
PhaseFound(b) == phase[b]

\* m_inflight is unsigned: both directions wrap.
Incremented(n) == (n + 1) % CounterSize
BugDecremented(n) == IF closed THEN n ELSE (n + CounterSize - 1) % CounterSize
Decremented(n) == (n + CounterSize - 1) % CounterSize

\* m_queue after push(): a closed layer takes no more completions.
QueuedAfter(b) == IF closed THEN queue ELSE Append(queue, b)

\* The answer slot k's users see after a write of a into the slot.
Written(k, a) == [b \in Blocks |-> IF b \in SlotUsers(k) THEN a ELSE answer[b]]

\* UA_Server_setAsync...Result looks the slot up among the waiting operations.
MadeReady(k) == [b \in Blocks |->
    IF opState[b] = "waiting" /\ key[b] = k THEN "ready" ELSE opState[b]]

-----------------------------------------------------------------------------
(* The server thread: unifiedRead, unifiedWrite, unifiedCall.              *)

\* deferralActive() for reads and writes; isClosed() for calls.
MayDefer(b) == ~closed /\ (serving \/ b \in Methods)

\* The handler makes the block and starts beginRead, beginWrite or beginCall,
\* which lets a worker have the handle.
Begin(b, k) ==
    /\ ServerServes
    /\ stage[b] = "fresh"
    /\ MayDefer(b)
    /\ SlotUsers(k) = {}
    /\ stage' = [stage EXCEPT ![b] = "begin"]
    /\ completer' = [completer EXCEPT ![b] = "held"]
    /\ key' = [key EXCEPT ![b] = k]
    /\ opState' = [opState EXCEPT ![b] = "executing"]
    /\ UNCHANGED <<phase, result, answer, opsVars, lifeVars>>

\* The handler does not defer: a node without handlesIo, or a layer that is not
\* serving yet; a call on a closed layer is refused.  The start-up code of the
\* main thread takes this path for the values of the nodes it adds.
AnswerSynchronously(b, k) ==
    /\ \/ ServerServes
       \/ main = "starting" /\ ServerIdle
    /\ stage[b] = "fresh"
    /\ b \in Methods => closed
    /\ SlotUsers(k) = {}
    /\ stage' = [stage EXCEPT ![b] = "synchronous"]
    /\ key' = [key EXCEPT ![b] = k]
    /\ opState' = [opState EXCEPT ![b] = "ready"]
    /\ answer' = [answer EXCEPT ![b] =
                    Status(IF b \in Methods THEN "BadOutOfService" ELSE "Synchronous")]
    /\ UNCHANGED <<completer, phase, result, opsVars, lifeVars>>

\* phase.exchange(Deferred) finds Finished: finishInline() fills the slot and
\* the handler returns the result as if it had been synchronous.
FinishInline(b) ==
    /\ stage[b] = "begin"
    /\ PhaseFound(b) = "Finished"
    /\ phase' = [phase EXCEPT ![b] = "Deferred"]
    /\ stage' = [stage EXCEPT ![b] = "synchronous"]
    /\ opState' = [opState EXCEPT ![b] = "ready"]
    /\ answer' = Written(key[b], result[b])
    /\ UNCHANGED <<completer, result, key, opsVars, lifeVars>>

\* beginCall returned a bad status, which it does only before it hands the
\* callback to anybody; the handler returns that status and drops the block.
RefuseCall(b) ==
    /\ b \in Methods
    /\ stage[b] = "begin" /\ completer[b] = "held"
    /\ phase' = [phase EXCEPT ![b] = "Deferred"]
    /\ completer' = [completer EXCEPT ![b] = "none"]
    /\ stage' = [stage EXCEPT ![b] = "synchronous"]
    /\ opState' = [opState EXCEPT ![b] = "ready"]
    /\ answer' = [answer EXCEPT ![b] = Status("CallRefused")]
    /\ UNCHANGED <<result, key, opsVars, lifeVars>>

\* phase.exchange(Deferred) finds Initial: the completion will be queued.
Defer(b) ==
    /\ stage[b] = "begin"
    /\ PhaseFound(b) = "Initial"
    /\ phase' = [phase EXCEPT ![b] = "Deferred"]
    /\ stage' = [stage EXCEPT ![b] = "deferring"]
    /\ UNCHANGED <<completer, result, key, stackVars, opsVars, lifeVars>>

\* establishDeferral, the part under m_queueMutex.
CountInflight(b) ==
    /\ stage[b] = "deferring"
    /\ inflight' = Incremented(inflight)
    /\ stage' = [stage EXCEPT ![b] = "counted"]
    /\ UNCHANGED <<completer, phase, result, key, stackVars, pending, queue,
                   batch, serving, closed, lifeVars>>

\* establishDeferral, the part after the lock is dropped.
Register(b) ==
    /\ stage[b] = "counted"
    /\ pending' = Registered(b)
    /\ stage' = [stage EXCEPT ![b] = "registered"]
    /\ UNCHANGED <<completer, phase, result, key, stackVars, queue, batch,
                   inflight, serving, closed, lifeVars>>

\* The handler returned GoodCompletesAsynchronously and the service keeps the
\* operation (persistAsyncResponseOperation).
StackEnqueue(b) ==
    /\ stage[b] = "registered"
    /\ stage' = [stage EXCEPT ![b] = "deferred"]
    /\ opState' = [opState EXCEPT ![b] = "waiting"]
    /\ UNCHANGED <<completer, phase, result, key, answer, opsVars, lifeVars>>

\* The stack does not keep the operation and cancels it at once.
NotKept(b, status) ==
    /\ stage[b] = "registered"
    /\ stage' = [stage EXCEPT ![b] = "deferred"]
    /\ pending' = Erased(key[b])
    /\ opState' = [opState EXCEPT ![b] = "ready"]
    /\ answer' = Written(key[b], Status(status))
    /\ UNCHANGED <<completer, phase, result, key, queue, batch, inflight,
                   serving, closed, lifeVars>>

\* A reader that cannot wait (readWithSession, triggerImmediateDataChange) goes on
\* without a value; its slot was a local variable.
StackDeclines(b) == b \notin Methods /\ NotKept(b, "BadWaitingForResponse")

\* The queue is full.  How full is left open: operations that are not the layer's
\* are counted too.
StackRefuses(b) == QueueLimited /\ NotKept(b, "BadTooManyOperations")

-----------------------------------------------------------------------------
(* The server thread between handlers: the stack's async manager.          *)

\* UA_AsyncOperation_cancel then processOperationResult: the slot takes the
\* stack's status, cancel() forgets the block, the operation becomes ready.
BugCancelledOp(b) == opState
CancelledOp(b) == [opState EXCEPT ![b] = "ready"]

StackCancels(b, status) ==
    /\ opState[b] = "waiting"
    /\ ServerIdle
    /\ pending' = Erased(key[b])
    /\ opState' = CancelledOp(b)
    /\ answer' = Written(key[b], Status(status))
    /\ UNCHANGED <<blockVars, queue, batch, inflight, serving, closed, lifeVars>>

\* checkTimeouts: a timer that UA_AsyncManager_stop removes, and that does nothing
\* unless the application has set a time-out.
Timeout(b) ==
    TimeLimited /\ server = "running" /\ StackCancels(b, "BadTimeout")

\* The Cancel service of a client (UA_AsyncManager_cancel).
ClientCancel(b) ==
    server \in {"running", "closing"} /\ StackCancels(b, "BadOperationAbandoned")

\* UA_AsyncManager_processReady sends or discards the response and frees it:
\* from here on the address of the slot may be handed out again.
Release(b) ==
    /\ ServerServes \/ (main = "starting" /\ ServerIdle)
    /\ opState[b] = "ready"
    /\ opState' = [opState EXCEPT ![b] = "released"]
    /\ UNCHANGED <<blockVars, answer, opsVars, lifeVars>>

-----------------------------------------------------------------------------
(* AsyncOperations::drain, on the server thread or at last in stop().      *)

DrainSwap ==
    /\ queue # <<>>
    /\ \/ ServerServes
       \/ main = "swapping"
    /\ batch' = queue
    /\ queue' = <<>>
    /\ main' = IF main = "swapping" THEN "draining" ELSE main
    /\ UNCHANGED <<blockVars, stackVars, pending, inflight, serving, closed,
                   running, server, gaveUp>>

\* finishDeferred writes the slot and hands the operation back to the stack.
DrainFinish ==
    /\ batch # <<>>
    /\ LET b == Head(batch) IN
        /\ IsCurrent(b)
        /\ answer' = Written(key[b], result[b])
        /\ opState' = MadeReady(key[b])
        /\ pending' = [pending EXCEPT ![key[b]] = NoBlock]
    /\ batch' = Tail(batch)
    /\ UNCHANGED <<blockVars, queue, inflight, serving, closed, lifeVars>>

\* "Dropping completion of a cancelled asynchronous operation"
DrainDrop ==
    /\ batch # <<>>
    /\ ~IsCurrent(Head(batch))
    /\ batch' = Tail(batch)
    /\ UNCHANGED <<blockVars, stackVars, pending, queue, inflight, serving,
                   closed, lifeVars>>

-----------------------------------------------------------------------------
(* A worker: complete() of a handle, finishCall() of a method's callback.  *)

\* setResult(); the destructor of a handle that nobody used does this too, with
\* BadInternalError, which is one of the Values.
Store(b, v) ==
    /\ completer[b] = "held"
    /\ Reachable(b)
    /\ result' = [result EXCEPT ![b] = [by |-> b, value |-> v]]
    /\ completer' = [completer EXCEPT ![b] = "stored"]
    /\ UNCHANGED <<stage, phase, key, stackVars, opsVars, lifeVars>>

\* phase.exchange(Finished): if the handler was there first, the completion
\* must be queued; otherwise the handler will pick it up.
Exchange(b) ==
    /\ completer[b] = "stored"
    /\ Reachable(b)
    /\ phase' = [phase EXCEPT ![b] = "Finished"]
    /\ completer' = [completer EXCEPT ![b] =
                        IF phase[b] # "Deferred" THEN "inline"
                        ELSE IF b \in Methods THEN "won" ELSE "owning"]
    /\ UNCHANGED <<stage, result, key, stackVars, opsVars, lifeVars>>

\* m_self.lock() in finishCall
LockSelf(b) ==
    /\ completer[b] = "won"
    /\ Reachable(b)
    /\ completer' = [completer EXCEPT ![b] = "owning"]
    /\ UNCHANGED <<stage, phase, result, key, stackVars, opsVars, lifeVars>>

\* The callback of a method whose block has been destroyed is used: nothing
\* the layer knows of happens.
UseDestroyed(b) ==
    /\ completer[b] \in {"held", "stored", "won"}
    /\ ~Reachable(b)
    /\ completer' = [completer EXCEPT ![b] = "lost"]
    /\ UNCHANGED <<stage, phase, result, key, stackVars, opsVars, lifeVars>>

\* push()
Push(b) ==
    /\ completer[b] = "owning"
    /\ completer' = [completer EXCEPT ![b] = "pushed"]
    /\ queue' = QueuedAfter(b)
    /\ inflight' = Decremented(inflight)
    /\ UNCHANGED <<stage, phase, result, key, stackVars, pending, batch,
                   serving, closed, lifeVars>>

-----------------------------------------------------------------------------
(* The main thread: UaServer::start, UaServer::stop, and runThread's end.  *)

\* setServing(), UA_Server_run_startup and the thread.
Start ==
    /\ main = "starting" /\ ServerIdle
    /\ serving' = TRUE
    /\ server' = "running"
    /\ main' = "up"
    /\ UNCHANGED <<blockVars, stackVars, pending, queue, batch, inflight,
                   closed, running, gaveUp>>

\* The application asks the server thread to end.
LowerFlag ==
    /\ running
    /\ main # "starting"
    /\ running' = FALSE
    /\ UNCHANGED <<blockVars, stackVars, opsVars, server, main, gaveUp>>

\* while (*m_runningFlag) ends; UA_Server_run_shutdown begins.
LeaveLoop ==
    /\ server = "running" /\ ~running /\ ServerIdle
    /\ server' = "closing"
    /\ UNCHANGED <<blockVars, stackVars, opsVars, running, main, gaveUp>>

ThreadEnds ==
    /\ server = "closing" /\ ServerIdle
    /\ server' = "exited"
    /\ UNCHANGED <<blockVars, stackVars, opsVars, running, main, gaveUp>>

CallStop ==
    /\ main = "up"
    /\ main' = "joining"
    /\ UNCHANGED <<blockVars, stackVars, opsVars, running, server, gaveUp>>

\* join() returned; shutdown() closes the layer and starts to wait.
Close ==
    /\ main = "joining" /\ server = "exited"
    /\ closed' = TRUE
    /\ main' = "waiting"
    /\ UNCHANGED <<blockVars, stackVars, pending, queue, batch, inflight,
                   serving, running, server, gaveUp>>

BugWaitIsOver == TRUE
WaitIsOver == inflight = 0

ShutdownDone ==
    /\ main = "waiting" /\ WaitIsOver
    /\ main' = "swapping"
    /\ UNCHANGED <<blockVars, stackVars, opsVars, running, server, gaveUp>>

BugMayGiveUp == FALSE
MayGiveUp == inflight # 0

\* wait_for's 60 seconds are over: log and continue.
ShutdownGivesUp ==
    /\ main = "waiting" /\ MayGiveUp
    /\ gaveUp' = TRUE
    /\ main' = "swapping"
    /\ UNCHANGED <<blockVars, stackVars, opsVars, running, server>>

\* The last drain is over (or found nothing); clearRegistry().
ClearRegistry ==
    /\ \/ main = "swapping" /\ queue = <<>>
       \/ main = "draining" /\ batch = <<>>
    /\ pending' = [k \in Keys |-> NoBlock]
    /\ main' = "deleting"
    /\ UNCHANGED <<blockVars, stackVars, queue, batch, inflight, serving,
                   closed, running, server, gaveUp>>

\* UA_Server_delete cancels what still waits and drops every response; the
\* cancel callback finds an empty registry.
DeleteServer ==
    /\ main = "deleting"
    /\ answer' = [b \in Blocks |-> IF opState[b] = "waiting"
                                   THEN Status("BadShutdown") ELSE answer[b]]
    /\ opState' = [b \in Blocks |-> IF UsesSlot(b) THEN "released" ELSE opState[b]]
    /\ main' = "releasing"
    /\ UNCHANGED <<blockVars, opsVars, running, server, gaveUp>>

\* delete m_asyncOperations
DeleteOperations ==
    /\ main = "releasing"
    /\ main' = "stopped"
    /\ UNCHANGED <<blockVars, stackVars, opsVars, running, server, gaveUp>>

-----------------------------------------------------------------------------
(* The specification.                                                      *)

HandlerStep(b) == FinishInline(b) \/ RefuseCall(b) \/ Defer(b) \/ CountInflight(b)
                    \/ Register(b) \/ StackEnqueue(b) \/ StackDeclines(b)
                    \/ StackRefuses(b)
WorkerStep(b) == Exchange(b) \/ LockSelf(b) \/ Push(b) \/ UseDestroyed(b)
DrainStep == DrainSwap \/ DrainFinish \/ DrainDrop
StopStep == Close \/ ShutdownDone \/ ShutdownGivesUp \/ ClearRegistry
              \/ DeleteServer \/ DeleteOperations

Next ==
    \/ \E b \in Blocks :
        \/ \E k \in Keys : Begin(b, k) \/ AnswerSynchronously(b, k)
        \/ \E v \in Values : Store(b, v)
        \/ HandlerStep(b)
        \/ WorkerStep(b)
        \/ Timeout(b) \/ ClientCancel(b) \/ Release(b)
    \/ DrainStep
    \/ Start \/ LowerFlag \/ LeaveLoop \/ ThreadEnds \/ CallStop
    \/ StopStep

Spec == Init /\ [][Next]_vars

\* What the code's own threads keep doing: the event loop runs on, a worker that is
\* inside complete() gets out of it, stop() proceeds.  Clients, the application's
\* decision to complete and to stop are not fair, nor are time-outs, which are off
\* by default.
Fairness ==
    /\ \A b \in Blocks :
        /\ WF_vars(HandlerStep(b))
        /\ WF_vars(Exchange(b) \/ LockSelf(b) \/ Push(b))
        /\ WF_vars(Release(b))
    /\ WF_vars(DrainStep)
    /\ WF_vars(LeaveLoop) /\ WF_vars(ThreadEnds)
    /\ WF_vars(StopStep)

FairSpec == Spec /\ Fairness

-----------------------------------------------------------------------------
(* Safety.                                                                 *)

\* Between handlers, until stop() clears the registry, m_pending maps a key to
\* a block exactly when the stack waits for that block's operation in that
\* slot: a forgotten erase or a lost entry would leave the two apart.
RegistryAgrees ==
    ServerIdle /\ main \notin {"deleting", "releasing", "stopped"} =>
        \A k \in Keys, b \in Blocks :
            pending[k] = b <=> opState[b] = "waiting" /\ key[b] = k

\* An operation is answered with its own completion, after setResult, or with
\* a status of the stack or the handler, never with the result of an earlier
\* operation whose slot address it got.
AnswerIsOwn ==
    \A b \in Blocks : opState[b] \in {"ready", "released"} => answer[b] \in Answers(b)

\* While the layer is open a waiting operation still has a completion to come:
\* its worker is not through, or the block is queued for drain().  Whichever
\* side loses the race on m_phase, nobody forgets to queue the block.
NoLostCompletion ==
    \A b \in Blocks : opState[b] = "waiting" /\ ~closed =>
        \/ completer[b] \in {"held", "stored", "won", "owning"}
        \/ completer[b] = "pushed" /\ b \in Range(queue) \cup Range(batch)

\* m_inflight counts, modulo its width, the deferrals whose completion has not
\* been pushed, also while a push overtakes the increment of its own deferral.
InflightExact ==
    inflight = (Cardinality({b \in Blocks : Counted(b)}) + CounterSize
                  - Cardinality({b \in Blocks : Pushed(b)})) % CounterSize

\* Unless shutdown() gave up, no completion is still on its way to push() when
\* stop() goes on to delete the layer.
NoPushAfterShutdown ==
    main \in {"swapping", "draining", "deleting", "releasing", "stopped"} /\ ~gaveUp =>
        \A b \in Blocks : Counted(b) => Pushed(b)

\* A method's callback dangles only once the stack has cancelled its call, or
\* stop() has gone on without it.
LostOnlyWhenCancelled ==
    \A b \in Blocks : completer[b] = "lost" => answer[b] \in StackStatuses \/ gaveUp

\* drain() logs "Dropping completion of a cancelled asynchronous operation":
\* the completion of a cancelled operation reaches the queue and is dropped
\* there.  For a call it does not: the cancel has destroyed the block that the
\* callback points to.
CancelledCompletionDropped == \A b \in Blocks : completer[b] # "lost"

\* An answer is final: no late completion, cancel or shutdown changes it, and
\* the operation does not wait again.
AnswerKept(b) ==
    opState[b] \in {"ready", "released"} =>
        /\ opState'[b] \in {opState[b], "released"}
        /\ answer'[b] = answer[b]

AnswerFinal == [][\A b \in Blocks : AnswerKept(b)]_vars

\* drain() decides right about the completion it takes off the batch: it fills the
\* slot of the operation that waits for it and no other, or drops it, as it logs,
\* because the operation was cancelled; the stack has answered it then.
DrainDecides ==
    [][LET b == Head(batch) IN
        /\ DrainFinish =>
              /\ opState[b] = "waiting" /\ opState'[b] = "ready" /\ answer'[b] = result[b]
              /\ \A c \in Blocks \ {b} : opState'[c] = opState[c] /\ answer'[c] = answer[c]
        /\ DrainDrop => answer[b] \in StackStatuses]_vars

-----------------------------------------------------------------------------
(* Liveness.                                                               *)

\* Once the worker of an operation that the stack waits for has begun to complete
\* it, the operation is answered and released, by the queue or by the end of the
\* server, unless the server thread ends and nobody calls stop(): a completion is
\* never left in the queue, nor its operation waiting after it was dropped.  What
\* nobody completes may wait for ever, time-outs being off by default.
CompletionsArrive ==
    \A b \in Blocks :
        opState[b] = "waiting" /\ completer[b] # "held" ~>
            opState[b] = "released" \/ (server = "exited" /\ main = "up")

\* stop() returns once the running flag is down, even when a completion never
\* comes.
StopReturns == main = "joining" /\ ~running ~> main = "stopped"
=============================================================================
