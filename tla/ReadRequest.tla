------------------------------ MODULE ReadRequest ------------------------------
(***************************************************************************)
(* ReadRequests of several operations, on variables that answer at once     *)
(* (unifiedRead's synchronous path, finishInline) or later (finishDeferred  *)
(* out of AsyncOperations::drain), and the stack that collects the results. *)
(* The server thread takes the steps of the stack and of drain(); devices   *)
(* complete in their own threads.  The race of one completion with its      *)
(* handler, and result addresses that are used again, are the subject of    *)
(* AsyncOperations: here each operation has a block and a key of its own.   *)
(***************************************************************************)
EXTENDS Integers, Sequences, FiniteSets

CONSTANTS
    Requests,     \* ReadRequests
    NoRequest,
    Nodes,        \* node identifiers
    NodesToRead,  \* the nodes of each request, in order
    Variables,    \* nodes that exist: BaseDataVariableType objects
    IoVariables,  \* those whose handlesIo() is true
    Nullable,     \* those of a data type that may be empty
    Timestamps,   \* the values of timestampsToReturn
    Results,      \* UaDataValues: [filled, hasValue, status, source, server]
    Nothing,      \* an empty variant
    QueueLimit,   \* maxAsyncOperationQueueSize, 0 for none
    TimeLimited,  \* asyncOperationTimeout is set
    Pending,      \* what a client has of a request that is under way
    Refused       \* and of one that failed as a whole

StackStatuses ==
    {"BadNodeIdUnknown", "BadWaitingForInitialData", "BadTooManyOperations",
     "BadTimeout", "BadOperationAbandoned", "BadShutdown"}
Statuses == StackStatuses \cup {"none", "Good", "BadInternalError"}

\* A read operation: its request and its position in nodesToRead.
Ops == UNION {{r} \X DOMAIN NodesToRead[r] : r \in Requests}
OpsOf(r) == {op \in Ops : op[1] = r}
Node(op) == NodesToRead[op[1]][op[2]]

\* A result slot; of the timestamps it matters only whether there is one.
Slots == [value : Nodes \cup {Nothing}, hasValue : BOOLEAN, status : Statuses,
          source : BOOLEAN, server : BOOLEAN]

ASSUME ReadAssumption ==
    /\ NoRequest \notin Requests
    /\ NodesToRead \in [Requests -> Seq(Nodes)]
    /\ IoVariables \subseteq Variables
    /\ Timestamps \subseteq {"source", "server", "both", "neither"}
    /\ Results \subseteq [filled : BOOLEAN, hasValue : BOOLEAN,
                          status : Statuses \ StackStatuses,
                          source : BOOLEAN, server : BOOLEAN]
    /\ QueueLimit \in Nat /\ TimeLimited \in BOOLEAN
    /\ \A r \in Requests : Pending \notin [OpsOf(r) -> Slots]

VARIABLES
    running,      \* the server exists
    stage,        \* "new", "serving", "waiting", "ready", "sent" or "refused"
    asked,        \* the timestampsToReturn of a request
    serving,      \* the request Service_Read is in
    next,         \* the position it comes to
    slot,         \* results, one slot per operation
    waitingOps,   \* the operations the stack waits for
    opCountdown,  \* how many of them a response waits for
    opsCount,     \* how many there are
    pending,      \* m_pending
    held,         \* blocks whose AsyncReadHandle is neither completed nor dropped
    queue         \* m_queue: blocks with their results, whose order is immaterial

vars == <<running, stage, asked, serving, next, slot, waitingOps, opCountdown,
          opsCount, pending, held, queue>>

Zeroed == [value |-> Nothing, hasValue |-> FALSE, status |-> "none",
           source |-> FALSE, server |-> FALSE]

TypeOK ==
    /\ running \in BOOLEAN
    /\ stage \in [Requests -> {"new", "serving", "waiting", "ready", "sent", "refused"}]
    /\ asked \in [Requests -> Timestamps \cup {"none"}]
    /\ serving \in Requests \cup {NoRequest}
    /\ next \in Nat
    /\ slot \in [Ops -> Slots]
    /\ waitingOps \subseteq Ops /\ IsFiniteSet(waitingOps)
    /\ opCountdown \in [Requests -> Nat] /\ opsCount \in Nat
    /\ pending \subseteq Ops /\ held \subseteq Ops
    /\ queue \subseteq Ops \X Results

Init ==
    /\ running = TRUE
    /\ stage = [r \in Requests |-> "new"]
    /\ asked = [r \in Requests |-> "none"]
    /\ serving = NoRequest /\ next = 1
    /\ slot = [op \in Ops |-> Zeroed]
    /\ waitingOps = {} /\ opCountdown = [r \in Requests |-> 0] /\ opsCount = 0
    /\ pending = {} /\ held = {} /\ queue = {}

ServerFree == running /\ serving = NoRequest

-----------------------------------------------------------------------------
(* One result                                                              *)

AsksSource(a) == a \in {"source", "both"}
AsksServer(a) == a \in {"server", "both"}

\* UA_DataValue_copy of a node's UaDataValue.
Copied(node, d) ==
    [value |-> IF d.filled THEN node ELSE Nothing, hasValue |-> d.hasValue,
     status |-> d.status, source |-> d.source, server |-> d.server]

\* The server's time is always now; a source time that is missing is now too.
Stamped(s, a) == [s EXCEPT !.source = AsksSource(a), !.server = AsksServer(a)]

\* What the stack makes of a value that unifiedRead returned with Good.
Accepted(node, s) ==
    IF s.value = Nothing /\ node \notin Nullable
    THEN [s EXCEPT !.hasValue = FALSE, !.status = "BadWaitingForInitialData"]
    ELSE [s EXCEPT !.hasValue = TRUE]

\* fillTarget() of a deferred read.  The block took its placeholder from the
\* slot before the stack stamped it: there was no timestamp in it.
BugPoliced(s) == s
Policed(s) == [s EXCEPT !.source = Zeroed.source, !.server = Zeroed.server]

Cancelled(s, status) == [s EXCEPT !.status = status]

-----------------------------------------------------------------------------
(* Service_Read                                                            *)

Begin(r) ==
    /\ ServerFree /\ stage[r] = "new"
    /\ stage' = [stage EXCEPT ![r] = "serving"]
    /\ \E a \in Timestamps : asked' = [asked EXCEPT ![r] = a]
    /\ serving' = r /\ next' = 1
    /\ UNCHANGED <<running, slot, waitingOps, opCountdown, opsCount, pending, held, queue>>

\* A bad argument, too many nodes or none, no memory for the results.
Refuse(r) ==
    /\ ServerFree /\ stage[r] = "new"
    /\ stage' = [stage EXCEPT ![r] = "refused"]
    /\ UNCHANGED <<running, asked, serving, next, slot, waitingOps, opCountdown,
                   opsCount, pending, held, queue>>

\* The operation at hand.
IsNext(op) == op[1] = serving /\ op[2] = next

Fills(op, s) == slot' = [slot EXCEPT ![op] = s]

ReadUnknown(op) ==
    /\ IsNext(op) /\ Node(op) \notin Variables
    /\ Fills(op, Cancelled(Zeroed, "BadNodeIdUnknown"))
    /\ next' = next + 1
    /\ UNCHANGED <<running, stage, asked, serving, waitingOps, opCountdown,
                   opsCount, pending, held, queue>>

\* A variable's present value, or the result its device gave within beginRead().
ReadAtOnce(op) ==
    /\ IsNext(op) /\ Node(op) \in Variables
    /\ \E d \in Results :
          Fills(op, Stamped(Accepted(Node(op), Copied(Node(op), d)), asked[serving]))
    /\ next' = next + 1
    /\ UNCHANGED <<running, stage, asked, serving, waitingOps, opCountdown,
                   opsCount, pending, held, queue>>

\* establishDeferral() registers the block and the stack stamps the placeholder.
\* It takes the operation, or it has too many and cancels it: the registration goes.
BugHasRoom == QueueLimit = 0 \/ opsCount <= QueueLimit
HasRoom == QueueLimit = 0 \/ opsCount < QueueLimit

Defer(op) ==
    /\ IsNext(op) /\ Node(op) \in IoVariables
    /\ held' = held \cup {op}
    /\ \/ /\ HasRoom
          /\ Fills(op, Stamped(Zeroed, asked[serving]))
          /\ pending' = pending \cup {op}
          /\ waitingOps' = waitingOps \cup {op}
          /\ opCountdown' = [opCountdown EXCEPT ![serving] = @ + 1]
          /\ opsCount' = opsCount + 1
       \/ /\ ~HasRoom
          /\ Fills(op, Cancelled(Stamped(Zeroed, asked[serving]), "BadTooManyOperations"))
          /\ UNCHANGED <<pending, waitingOps, opCountdown, opsCount>>
    /\ next' = next + 1
    /\ UNCHANGED <<running, stage, asked, serving, queue>>

\* The response goes out at once, or waits for its operations.
Finish(r) ==
    /\ serving = r /\ next > Len(NodesToRead[r])
    /\ stage' = [stage EXCEPT ![r] = IF opCountdown[r] > 0 THEN "waiting" ELSE "sent"]
    /\ serving' = NoRequest
    /\ UNCHANGED <<running, asked, next, slot, waitingOps, opCountdown, opsCount,
                   pending, held, queue>>

-----------------------------------------------------------------------------
(* Completions                                                             *)

\* AsyncReadHandle::complete() or its destructor, and push().
Complete(op) ==
    /\ op \in held
    /\ held' = held \ {op}
    /\ IF running THEN \E d \in Results : queue' = queue \cup {<<op, d>>}
                  ELSE UNCHANGED queue
    /\ UNCHANGED <<running, stage, asked, serving, next, slot, waitingOps,
                   opCountdown, opsCount, pending>>

\* The operations that processOperationResult() takes from the stack, all of one
\* request: the response is ready when it waits for no more.
BugCountedDown(r, ops) == opCountdown[r] - 1
CountedDown(r, ops) == opCountdown[r] - Cardinality(ops)

Processed(r, ops) ==
    /\ waitingOps' = waitingOps \ ops
    /\ opsCount' = opsCount - Cardinality(ops)
    /\ opCountdown' = [opCountdown EXCEPT ![r] = CountedDown(r, ops)]
    /\ stage' = [stage EXCEPT ![r] = IF CountedDown(r, ops) = 0 THEN "ready" ELSE @]

\* UA_Server_setAsyncReadResult: the stack may not know the slot.
SetAsyncReadResult(op) ==
    IF op \in waitingOps THEN Processed(op[1], {op})
    ELSE UNCHANGED <<stage, waitingOps, opCountdown, opsCount>>

\* drain() takes one of the blocks.
StillPending(op) == op \in pending

Drain(op, d) ==
    /\ ServerFree
    /\ <<op, d>> \in queue
    /\ queue' = queue \ {<<op, d>>}
    /\ \/ /\ StillPending(op)
          /\ Fills(op, Policed(Copied(Node(op), d)))
          /\ pending' = pending \ {op}
          /\ SetAsyncReadResult(op)
       \/ /\ ~StillPending(op)
          /\ UNCHANGED <<stage, slot, waitingOps, opCountdown, opsCount, pending>>
    /\ UNCHANGED <<running, asked, serving, next, held>>

-----------------------------------------------------------------------------
(* The stack gives up, answers and ends                                    *)

WaitingFor(r) == waitingOps \cap OpsOf(r)

\* Every operation that a response still waits for is cancelled, and with it the
\* registration of its block.
Erased(ops) == pending \ ops

GiveUp(r, status) ==
    /\ ServerFree /\ stage[r] = "waiting"
    /\ slot' = [op \in Ops |-> IF op \in WaitingFor(r) THEN Cancelled(slot[op], status)
                                                       ELSE slot[op]]
    /\ pending' = Erased(WaitingFor(r))
    /\ Processed(r, WaitingFor(r))
    /\ UNCHANGED <<running, asked, serving, next, held, queue>>

CheckTimeouts(r) == TimeLimited /\ GiveUp(r, "BadTimeout")

ClientCancel(r) == GiveUp(r, "BadOperationAbandoned")

ReadyResponses == {r \in Requests : stage[r] = "ready"}

ProcessReady ==
    /\ ServerFree /\ ReadyResponses # {}
    /\ stage' = [r \in Requests |-> IF r \in ReadyResponses THEN "sent" ELSE stage[r]]
    /\ UNCHANGED <<running, asked, serving, next, slot, waitingOps, opCountdown,
                   opsCount, pending, held, queue>>

\* stop(): drain() came last, the registry is cleared, and the server's deletion
\* answers everything that is left.
DeleteServer ==
    /\ ServerFree /\ queue = {}
    /\ running' = FALSE
    /\ pending' = {}
    /\ slot' = [op \in Ops |-> IF op \in waitingOps THEN Cancelled(slot[op], "BadShutdown")
                                                    ELSE slot[op]]
    /\ waitingOps' = {} /\ opCountdown' = [r \in Requests |-> 0] /\ opsCount' = 0
    /\ stage' = [r \in Requests |-> IF stage[r] \in {"waiting", "ready"} THEN "sent"
                                                                       ELSE stage[r]]
    /\ UNCHANGED <<asked, serving, next, held, queue>>

-----------------------------------------------------------------------------
ReadOperation(op) == ReadUnknown(op) \/ ReadAtOnce(op) \/ Defer(op)

Next ==
    \/ \E r \in Requests :
          Begin(r) \/ Refuse(r) \/ Finish(r) \/ CheckTimeouts(r) \/ ClientCancel(r)
    \/ \E op \in Ops :
          ReadOperation(op) \/ Complete(op) \/ \E d \in Results : Drain(op, d)
    \/ ProcessReady \/ DeleteServer

\* The server thread goes on with the request it serves, drains and sends; a
\* device completes its handle, by its destructor if not otherwise.  A time-out
\* need not be configured, and no client has to cancel.
Fairness ==
    /\ WF_vars(\E op \in Ops : ReadOperation(op))
    /\ WF_vars(\E r \in Requests : Finish(r))
    /\ WF_vars(ProcessReady)
    /\ \A op \in Ops : WF_vars(Complete(op)) /\ WF_vars(\E d \in Results : Drain(op, d))

Spec == Init /\ [][Next]_vars
FairSpec == Spec /\ Fairness

-----------------------------------------------------------------------------
(* Properties                                                              *)

\* What the clients see: the results of a request once its response is sent.
Answer(r) ==
    CASE stage[r] = "sent" -> [op \in OpsOf(r) |-> slot[op]]
      [] stage[r] = "refused" -> Refused
      [] OTHER -> Pending

Service == INSTANCE ReadService WITH
    NodeOf <- [op \in Ops |-> Node(op)],
    answer <- [r \in Requests |-> Answer(r)]

\* However its operations end - at once, late, refused, cancelled, timed out or
\* with the server - each request is answered once, as a whole, with its own
\* values, with no value beside the stack's status for a missing one and with no
\* timestamp the client did not ask for; no late completion touches an answer.
RefinesReadService == Service!Spec

\* The two counters that decide when a response goes out and whether an operation
\* is accepted count the same operations, those that m_pending can complete.
CountsAgree ==
    /\ pending = waitingOps
    /\ opsCount = Cardinality(waitingOps)
    /\ \A r \in Requests : opCountdown[r] = Cardinality(WaitingFor(r))
    /\ QueueLimit # 0 => opsCount <= QueueLimit

\* A response waits exactly as long as one of its operations does.
StagesAgree ==
    /\ \A r \in Requests :
          /\ stage[r] = "serving" <=> r = serving
          /\ stage[r] = "waiting" => WaitingFor(r) # {}
          /\ stage[r] \notin {"serving", "waiting"} => WaitingFor(r) = {}
          /\ asked[r] = "none" <=> stage[r] \in {"new", "refused"}
    /\ ~running => serving = NoRequest /\ waitingOps = {} /\ ReadyResponses = {}

\* An operation the loop has not come to is in nobody's list.
LoopAgrees ==
    \A op \in Ops :
        /\ stage[op[1]] = "new" => slot[op] = Zeroed
        /\ op[1] = serving /\ op[2] >= next => slot[op] = Zeroed /\ op \notin waitingOps

\* Each slot is fit to be sent, and one that waits holds no value yet.
SlotsFit ==
    \A op \in Ops :
        /\ Service!ProperResult(slot[op], Node(op), asked[op[1]])
        /\ op \in waitingOps => slot[op].value = Nothing

ReadInv == TypeOK /\ CountsAgree /\ StagesAgree /\ LoopAgrees /\ SlotsFit

\* A client that asks gets its answer, if the devices complete or drop their
\* handles: no response waits for an operation that nobody will count down.
EveryReadAnswered ==
    \A r \in Requests : stage[r] = "serving" ~> stage[r] = "sent"
=============================================================================
