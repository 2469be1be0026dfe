---------------------------- MODULE AsyncService ----------------------------
(***************************************************************************)
(* AsyncOperations as an implementation of DeferredService, and the        *)
(* inductive invariant that the proofs of its safety rest on.              *)
(***************************************************************************)
EXTENDS AsyncOperations

\* How far the request of a block is: while the handler runs or the stack
\* waits it is open; once its slot holds the answer it stays answered.
RequestState(b) ==
    CASE opState[b] = "idle" -> "idle"
      [] opState[b] \in {"executing", "waiting"} -> "open"
      [] OTHER -> "answered"

Service == INSTANCE DeferredService WITH
    Requests <- Blocks,
    Offers <- [b \in Blocks |-> Completions(b)],
    Statuses <- StackStatuses \cup HandlerStatuses,
    ShutdownStatus <- Status("BadShutdown"),
    None <- Unanswered,
    request <- [b \in Blocks |-> RequestState(b)],
    offer <- result,
    reply <- answer

\* The deferral layer implements the service: blocks, queue, races, cancels and
\* slot reuse included, each request gets one answer and it is its own.
RefinesService == Service!Spec

-----------------------------------------------------------------------------
(* The parts of the inductive invariant.                                   *)

RegistryLives == main \notin {"deleting", "releasing", "stopped"}

\* The handler's place, the stack's operation and the key go together.
StagesAgree ==
    \A b \in Blocks :
        /\ stage[b] = "fresh" <=> opState[b] = "idle"
        /\ HandlerOf(b) <=> opState[b] = "executing"
        /\ opState[b] = "waiting" => stage[b] = "deferred"
        /\ stage[b] # "fresh" => key[b] \in Keys

\* Who holds the handle, and what that says of the phase and of the result.
CompletersAgree ==
    \A b \in Blocks :
        /\ stage[b] = "fresh" => completer[b] = "none"
        /\ stage[b] = "begin" => completer[b] \in {"held", "stored", "inline"}
        /\ stage[b] \in {"fresh", "begin"} => phase[b] # "Deferred"
        /\ phase[b] = "Finished" => completer[b] \notin {"none", "held", "stored"}
        /\ completer[b] \in {"none", "held"} => result[b] = Unanswered
        /\ completer[b] \in {"stored", "won", "owning", "pushed", "inline"} =>
              result[b] \in Completions(b)

\* Two operations in flight never share a slot.
SlotsExclusive ==
    \A a, b \in Blocks : UsesSlot(a) /\ UsesSlot(b) /\ key[a] = key[b] => a = b

\* The registry holds exactly the deferrals the stack waits for.
RegistryExact ==
    /\ \A k \in Keys : pending[k] # NoBlock =>
          /\ key[pending[k]] = k
          /\ stage[pending[k]] = "registered" \/ opState[pending[k]] = "waiting"
    /\ \A b \in Blocks :
          stage[b] = "registered" \/ (opState[b] = "waiting" /\ RegistryLives) =>
            pending[key[b]] = b
    /\ ~RegistryLives => \A k \in Keys : pending[k] = NoBlock

\* One thread runs handlers, drains and the end of the server, in turn.
OneAtATime ==
    /\ \A b \in Blocks : HandlerOf(b) => server \in {"running", "closing"} /\ batch = <<>>
    /\ \A a, b \in Blocks : HandlerOf(a) /\ HandlerOf(b) => a = b
    /\ main \in {"waiting", "swapping", "draining", "deleting", "releasing",
                 "stopped"} => server = "exited"

\* What is queued or drained has been pushed by its worker.
QueuedArePushed ==
    /\ \A i \in DOMAIN queue : completer[queue[i]] = "pushed"
    /\ \A i \in DOMAIN batch : completer[batch[i]] = "pushed"

\* An operation without an answer has an empty slot.
OpenAreEmpty ==
    \A b \in Blocks : opState[b] \in {"idle", "executing", "waiting"} =>
        answer[b] = Unanswered

\* Slots, registry, queue and answers agree.
SlotInv ==
    /\ TypeOK
    /\ StagesAgree
    /\ CompletersAgree
    /\ SlotsExclusive
    /\ RegistryExact
    /\ OneAtATime
    /\ QueuedArePushed
    /\ OpenAreEmpty
    /\ AnswerIsOwn

DeferringStages == {"deferring", "counted", "registered", "deferred"}

\* Of the two exchanges of m_phase, the later one finds the earlier one's value:
\* a deferral's completer queues the block, and no other completer does.
RaceDecided ==
    \A b \in Blocks :
        /\ stage[b] = "begin" /\ completer[b] = "inline" => phase[b] = "Finished"
        /\ stage[b] \in DeferringStages => completer[b] \notin {"none", "inline"}
        /\ stage[b] \in DeferringStages /\ completer[b] \in {"held", "stored"} =>
              phase[b] = "Deferred"
        /\ stage[b] = "synchronous" => completer[b] \in {"none", "inline"}

ClosedByStop ==
    closed <=> main \in {"waiting", "swapping", "draining", "deleting",
                         "releasing", "stopped"}

\* The handler has promised the stack a completion, or the stack waits for it.
Expecting(b) ==
    stage[b] \in {"deferring", "counted", "registered"} \/ opState[b] = "waiting"

\* NoLostCompletion, from the handler's exchange on.
CompletionComing ==
    \A b \in Blocks : ~closed /\ Expecting(b) =>
        \/ completer[b] \in {"held", "stored", "won", "owning"}
        \/ completer[b] = "pushed" /\ b \in Range(queue) \cup Range(batch)

\* A deferral that is answered before its completion is pushed is answered by
\* the stack.
AnsweredEarly ==
    \A b \in Blocks :
        stage[b] = "deferred" /\ opState[b] # "waiting" /\ completer[b] # "pushed" =>
            answer[b] \in StackStatuses

DeferralInv == RaceDecided /\ ClosedByStop /\ CompletionComing /\ AnsweredEarly

\* LostOnlyWhenCancelled, and the operation is over.
LostIsOver ==
    \A b \in Blocks : completer[b] = "lost" =>
        \/ opState[b] \in {"ready", "released"} /\ answer[b] \in StackStatuses
        \/ gaveUp

CountInv == InflightExact /\ NoPushAfterShutdown /\ LostIsOver

\* Each block is queued or drained once, and what is queued or drained has not been
\* answered but by the stack.
QueuedOnce ==
    IsInjective(queue) /\ IsInjective(batch) /\ Range(queue) \cap Range(batch) = {}

QueuedAreOpen ==
    \A b \in Range(queue) \cup Range(batch) :
        /\ stage[b] \in DeferringStages
        /\ opState[b] \in {"executing", "waiting"} \/ answer[b] \in StackStatuses

\* The server thread leaves no batch behind when it ends; then only stop() drains.
EmptiedAtExit == server = "exited" /\ main # "draining" => batch = <<>>

QueueInv == QueuedOnce /\ QueuedAreOpen /\ EmptiedAtExit

\* The inductive invariant.
IInv == SlotInv /\ DeferralInv /\ QueueInv /\ CountInv
=============================================================================
