------------------------------ MODULE UaServer ------------------------------
(***************************************************************************)
(* The life of a server (src/uaserver.cpp) and of the nodes its one node   *)
(* manager puts into the address space (src/nodemanagerbase.cpp).  The     *)
(* application's thread starts and stops the server and adds nodes, also   *)
(* in afterStartUp(); a thread of the server's own runs the stack.  Four   *)
(* kinds of objects are allocated and deleted: the stack's server, the     *)
(* AsyncOperations it points to, the node manager and the nodes.           *)
(*                                                                         *)
(* The application is assumed not to call start() on a server that was     *)
(* started and not stopped, nor without a node manager.                    *)
(***************************************************************************)
EXTENDS Naturals, FiniteSets

CONSTANTS
    Nodes,      \* the node objects the application creates
    Kind,       \* what each of them is
    Id,         \* the node id it asks for
    Root,       \* m_serverRootNode, which stands for the Objects folder
    Managers,   \* the node managers the application creates
    NoManager,  \* the null pointer
    MaxStarts   \* how often UA_Server_new may be called

Kinds == {"Object", "DataVariable", "IoVariable", "Property", "MethodArgument",
          "Method"}

ASSUME NodesAssumption ==
    /\ MaxStarts \in Nat
    /\ Root \notin Nodes /\ NoManager \notin Managers
    /\ Kind \in [Nodes -> Kinds]
    /\ \A n \in Nodes : Id[n] # Root

VARIABLES
    app,      \* where the application's thread is
    thread,   \* where the server's thread is; "none" when it is not joinable
    linked,   \* m_runningFlag is set
    flag,     \* the running flag, which the application owns
    manager,  \* m_nodeManager
    server,   \* m_server: 0 is null, n the server of the n-th UA_Server_new
    starts,   \* how often UA_Server_new was called
    async,    \* m_asyncOperations and the stack's pointer to it: 0 or a server's number
    serving,  \* its m_serving
    closed,   \* its m_closed
    alive,    \* the objects that are allocated
    space,    \* the nodes in the server's address space
    listed,   \* how often each node is in m_listNodes
    refs,     \* the referenced targets of each node
    misuse,   \* the deleted objects that were used
    lost      \* a read of the stack's own was deferred

vars == <<app, thread, linked, flag, manager, server, starts, async, serving,
          closed, alive, space, listed, refs, misuse, lost>>
serverVars == <<server, starts, async, serving, closed>>
nodeVars == <<space, listed, refs>>

\* The objects, as members of alive.
ServerObject(n) == <<"server", n>>
AsyncObject(n) == <<"async", n>>
ManagerObject(m) == <<"manager", m>>
NodeObject(n) == <<"node", n>>

Objects == {ServerObject(n) : n \in 0 .. MaxStarts} \cup {AsyncObject(n) : n \in 0 .. MaxStarts}
    \cup {ManagerObject(m) : m \in Managers} \cup {NodeObject(n) : n \in Nodes}

\* An addition in the order of the code that uses objs.
Uses(objs) == misuse' = misuse \cup (objs \ alive)

TypeOK ==
    /\ app \in {"idle", "created", "building", "serving", "joining", "closing",
                "clearing", "deletingManager", "deletingServer", "deletingAsync"}
    /\ thread \in {"none", "testing", "iterating", "draining", "ended"}
    /\ linked \in BOOLEAN /\ flag \in BOOLEAN /\ lost \in BOOLEAN
    /\ serving \in BOOLEAN /\ closed \in BOOLEAN
    /\ manager \in Managers \cup {NoManager}
    /\ server \in 0 .. starts /\ async \in 0 .. starts /\ starts \in 0 .. MaxStarts
    /\ alive \subseteq Objects /\ misuse \subseteq Objects
    /\ space \subseteq Nodes
    /\ listed \in [Nodes -> 0 .. 2]
    /\ refs \in [Nodes \cup {Root} -> SUBSET Nodes]
    /\ thread # "none" => server # 0 /\ async # 0

Init ==
    /\ app = "idle" /\ thread = "none"
    /\ linked = FALSE /\ flag = FALSE
    /\ manager = NoManager
    /\ server = 0 /\ starts = 0 /\ async = 0 /\ serving = FALSE /\ closed = FALSE
    /\ alive = {ManagerObject(m) : m \in Managers} \cup {NodeObject(n) : n \in Nodes}
    /\ space = {}
    /\ listed = [n \in Nodes |-> 0]
    /\ refs = [n \in Nodes \cup {Root} |-> {}]
    /\ misuse = {}
    /\ lost = FALSE

-----------------------------------------------------------------------------
(* The application before start().                                         *)

LinkRunningFlag ==
    /\ app = "idle" /\ ~linked
    /\ linked' = TRUE
    /\ UNCHANGED <<app, thread, flag, manager, serverVars, alive, nodeVars, misuse, lost>>

RaiseFlag ==
    /\ app = "idle" /\ thread = "none" /\ ~flag
    /\ flag' = TRUE
    /\ UNCHANGED <<app, thread, linked, manager, serverVars, alive, nodeVars, misuse, lost>>

\* At any time, as by a signal handler.
LowerFlag ==
    /\ flag
    /\ flag' = FALSE
    /\ UNCHANGED <<app, thread, linked, manager, serverVars, alive, nodeVars, misuse, lost>>

\* A second manager is refused, by an exception.
AddNodeManager(m) ==
    /\ app = "idle"
    /\ ManagerObject(m) \in alive
    /\ manager = NoManager
    /\ manager' = m
    /\ UNCHANGED <<app, thread, linked, flag, serverVars, alive, nodeVars, misuse, lost>>

-----------------------------------------------------------------------------
(* start()                                                                 *)

\* "Establish the 'running flag' first"; without memory UA_Server_new fails
\* and nothing has changed either.
StartCreates ==
    /\ app = "idle"
    /\ server = 0 /\ thread = "none" /\ manager # NoManager
    /\ linked
    /\ starts < MaxStarts
    /\ starts' = starts + 1
    /\ \/ /\ server' = starts'
          /\ alive' = alive \cup {ServerObject(starts')}
          /\ app' = "created"
       \/ UNCHANGED <<server, alive, app>>
    /\ UNCHANGED <<thread, linked, flag, manager, async, serving, closed, nodeVars, misuse, lost>>

\* new AsyncOperations, then linkServer, which throws unless the namespace gets
\* index 2.  Whoever throws in start() leaves what was allocated to stop().
BugServingAtOnce == TRUE
ServingAtOnce == FALSE
StartLinks ==
    /\ app = "created"
    /\ async' = server
    /\ serving' = ServingAtOnce /\ closed' = FALSE
    /\ alive' = alive \cup {AsyncObject(server)}
    /\ space' = {}
    /\ Uses({ServerObject(server), ManagerObject(manager)})
    /\ app' \in {"building", "idle"}
    /\ UNCHANGED <<thread, linked, flag, manager, server, starts, listed, refs, lost>>

\* afterStartUp() returns, its status ignored.
StartServes ==
    /\ app = "building"
    /\ serving' = TRUE
    /\ app' = "serving"
    /\ UNCHANGED <<thread, linked, flag, manager, server, starts, async, closed,
                   alive, nodeVars, misuse, lost>>

\* UA_Server_run_startup, and the thread if it was good.
StartRuns ==
    /\ app = "serving"
    /\ app' = "idle"
    /\ thread' \in {"none", "testing"}
    /\ Uses({ServerObject(server)})
    /\ UNCHANGED <<linked, flag, manager, serverVars, alive, nodeVars, lost>>

-----------------------------------------------------------------------------
(* addNodeAndReference, in afterStartUp() or later                         *)

HasContext(n) == Kind[n] \in {"DataVariable", "IoVariable", "Method"}
IsListed(n) == Kind[n] \in {"Object", "DataVariable", "IoVariable", "Method"}

\* The parent's id is in the address space, and n's is not yet.
StackMayAdd(parent, n) ==
    /\ parent \in {Root} \cup {p \in Nodes : \E o \in space : Id[o] = Id[p]}
    /\ \A o \in space : Id[o] # Id[n]

\* The stack's addNode: it reads the value of a new variable for a type check.
\* A read that is deferred then is an error to it, and its result would go to
\* a local variable of a function that has returned.
StackDefers(n) == Kind[n] = "IoVariable" /\ serving /\ ~closed

BugOnGood(parent, n, added) ==
    /\ listed' = [listed EXCEPT ![n] = @ + 1]
    /\ refs' = [refs EXCEPT ![parent] = @ \cup {n}]
OnGood(parent, n, added) ==
    IF added
    THEN /\ listed' = [listed EXCEPT ![n] = @ + 1]
         /\ refs' = [refs EXCEPT ![parent] = @ \cup {n}]
    ELSE UNCHANGED <<listed, refs>>

\* A method or a property that the stack refuses makes the addition throw, and an
\* afterStartUp() that does not catch it makes start() throw.
Threw(n, added) ==
    app' \in {app} \cup (IF ~added /\ Kind[n] \in {"Method", "Property"} THEN {"idle"} ELSE {})

\* addObject-, addDataVariable-, addMethodNodeAndReference: only a node that the
\* stack took is listed and referenced.
AddsToSpace(parent, n) ==
    /\ IsListed(n) /\ listed[n] < 2
    /\ lost' = (lost \/ (StackMayAdd(parent, n) /\ StackDefers(n)))
    /\ \E added \in BOOLEAN :
        /\ added => StackMayAdd(parent, n) /\ ~StackDefers(n)
        /\ space' = IF added THEN space \cup {n} ELSE space
        /\ OnGood(parent, n, added)
        /\ Threw(n, added)

\* addPropertyNodeAndReference: a copy of the value goes to the stack, and the
\* object stays with the application.
AddsProperty(parent, n) ==
    /\ Kind[n] = "Property"
    /\ \/ StackMayAdd(parent, n) /\ space' = space \cup {n} /\ Threw(n, TRUE)
       \/ UNCHANGED space /\ Threw(n, FALSE)
    /\ UNCHANGED <<listed, refs, lost>>

\* The arguments of a method are only noted at the method.
AddsArgument(parent, n) ==
    /\ Kind[n] = "MethodArgument"
    /\ refs' = [refs EXCEPT ![parent] = @ \cup {n}]
    /\ UNCHANGED <<app, space, listed, lost>>

\* Properties and arguments have no children.  The overload that takes the
\* parent's id finds a node that is listed (getNode) or does nothing.
Parents == {Root} \cup {p \in Nodes : IsListed(p) /\ NodeObject(p) \in alive}
AddNode(p, n) ==
    /\ app = "building" \/ (app = "idle" /\ server # 0 /\ serving)
    /\ NodeObject(n) \in alive
    /\ p # n /\ p \in Parents
    /\ Uses({ServerObject(server), ManagerObject(manager)})
    /\ AddsToSpace(p, n) \/ AddsProperty(p, n) \/ AddsArgument(p, n)
    /\ UNCHANGED <<thread, linked, flag, manager, serverVars, alive>>

-----------------------------------------------------------------------------
(* runThread                                                               *)

BugTests == thread' = "iterating"
Tests == thread' = IF flag THEN "iterating" ELSE "ended"

\* Leaving the loop the thread shuts the stack down: sessions close, and the
\* operations they wait for are cancelled, through config->context.
ThreadTests ==
    /\ thread = "testing"
    /\ Tests
    /\ Uses({ServerObject(server), AsyncObject(async)})
    /\ UNCHANGED <<app, linked, flag, manager, serverVars, alive, nodeVars, lost>>

\* UA_Server_run_iterate calls back into any node with a context.
ThreadIterates ==
    /\ thread = "iterating"
    /\ thread' = "draining"
    /\ \E called \in SUBSET {n \in space : HasContext(n)} :
        /\ Cardinality(called) <= 1
        /\ Uses({ServerObject(server), AsyncObject(async)} \cup {NodeObject(n) : n \in called})
    /\ UNCHANGED <<app, linked, flag, manager, serverVars, alive, nodeVars, lost>>

ThreadDrains ==
    /\ thread = "draining"
    /\ thread' = "testing"
    /\ Uses({ServerObject(server), AsyncObject(async)})
    /\ UNCHANGED <<app, linked, flag, manager, serverVars, alive, nodeVars, lost>>

-----------------------------------------------------------------------------
(* stop(), which leaves the flag to the application                        *)

StopCalled ==
    /\ app = "idle"
    /\ app' = "joining"
    /\ UNCHANGED <<thread, linked, flag, manager, serverVars, alive, nodeVars, misuse, lost>>

Joined == thread \in {"none", "ended"}
StopJoins ==
    /\ app = "joining"
    /\ Joined
    /\ thread' = IF thread = "ended" THEN "none" ELSE thread
    /\ app' = IF async # 0 THEN "closing" ELSE "deletingManager"
    /\ UNCHANGED <<linked, flag, manager, serverVars, alive, nodeVars, misuse, lost>>

\* shutdown() returns after a minute at the latest; AsyncOperations.tla has it.
StopCloses ==
    /\ app = "closing"
    /\ closed' = TRUE
    /\ app' = "clearing"
    /\ Uses({AsyncObject(async)})
    /\ UNCHANGED <<thread, linked, flag, manager, server, starts, async, serving,
                   alive, nodeVars, lost>>

StopClears ==
    /\ app = "clearing"
    /\ app' = "deletingManager"
    /\ Uses({AsyncObject(async), ServerObject(server)})
    /\ UNCHANGED <<thread, linked, flag, manager, serverVars, alive, nodeVars, lost>>

\* ~NodeManagerBase deletes the nodes of m_listNodes.  A node listed twice would
\* be deleted twice.
BugGoesWithManager == {ManagerObject(manager), AsyncObject(async)}
GoesWithManager == {ManagerObject(manager)}
StopDeletesManager ==
    /\ app = "deletingManager"
    /\ LET nodes == {n \in Nodes : listed[n] > 0} IN
        /\ alive' = alive \ ({NodeObject(n) : n \in nodes} \cup GoesWithManager)
        /\ refs' = [p \in Nodes \cup {Root} |-> IF p \in nodes \cup {Root} THEN {} ELSE refs[p]]
        /\ misuse' = misuse \cup {NodeObject(n) : n \in {o \in nodes : listed[o] > 1}}
    /\ listed' = [n \in Nodes |-> 0]
    /\ manager' = NoManager
    /\ app' = "deletingServer"
    /\ UNCHANGED <<thread, linked, flag, serverVars, space, lost>>

\* UA_Server_delete calls back to cancel what is left, through config->context.
StopDeletesServer ==
    /\ app = "deletingServer"
    /\ Uses(IF server = 0 THEN {}
            ELSE {ServerObject(server)} \cup (IF async = 0 THEN {} ELSE {AsyncObject(async)}))
    /\ alive' = alive \ {ServerObject(server)}
    /\ space' = {}
    /\ server' = 0
    /\ app' = "deletingAsync"
    /\ UNCHANGED <<thread, linked, flag, manager, starts, async, serving, closed,
                   listed, refs, lost>>

BugDeletedAsync == {}
DeletedAsync == {AsyncObject(async)}
StopDeletesAsync ==
    /\ app = "deletingAsync"
    /\ alive' = alive \ DeletedAsync
    /\ async' = 0 /\ serving' = FALSE /\ closed' = FALSE
    /\ app' = "idle"
    /\ UNCHANGED <<thread, linked, flag, manager, server, starts, nodeVars, misuse, lost>>

-----------------------------------------------------------------------------

Starts == StartLinks \/ StartServes \/ StartRuns
Stops == \/ StopJoins \/ StopCloses \/ StopClears
         \/ StopDeletesManager \/ StopDeletesServer \/ StopDeletesAsync
Thread == ThreadTests \/ ThreadIterates \/ ThreadDrains

Next ==
    \/ LinkRunningFlag \/ RaiseFlag \/ LowerFlag
    \/ \E m \in Managers : AddNodeManager(m)
    \/ StartCreates \/ Starts
    \/ \E p \in Nodes \cup {Root}, n \in Nodes : AddNode(p, n)
    \/ Thread
    \/ StopCalled \/ Stops

\* start() and stop() go on once called, and the thread once it was started:
\* UA_Server_run_iterate waits for a timer at the longest, and one fires every
\* 20 ms.  When the flag falls is up to the application.
Spec == Init /\ [][Next]_vars /\ WF_vars(Starts) /\ WF_vars(Stops) /\ WF_vars(Thread)

-----------------------------------------------------------------------------
(* Properties.                                                             *)

\* No object is used after its deletion, nor deleted twice: not by the server's
\* thread, whose callbacks reach the nodes and the AsyncOperations, and not by
\* stop(), whose deletions call back.
NoUseAfterDelete == misuse = {}

\* stop() touches what is the server thread's only when that thread has ended;
\* the registry of AsyncOperations has no lock of its own.
StopIsAlone ==
    app \in {"closing", "clearing", "deletingManager", "deletingServer", "deletingAsync"} =>
        thread = "none"

\* While there is a server, m_listNodes holds exactly once each node the stack
\* took and calls back into, and a parent refers to such nodes only, method
\* arguments apart: whatever was refused in between, also for a duplicate id.
ListMatchesSpace ==
    server # 0 /\ manager # NoManager =>
        /\ \A n \in Nodes : IsListed(n) => listed[n] = (IF n \in space THEN 1 ELSE 0)
        /\ \A p \in Nodes \cup {Root} : \A n \in refs[p] :
            Kind[n] = "MethodArgument" \/ n \in space \/ NodeObject(n) \notin alive

\* When stop() has returned, whether start() had succeeded, thrown half way or
\* never been called, no server and no AsyncOperations is left, and no thread.
StopReleases ==
    app = "idle" /\ server = 0 =>
        /\ async = 0
        /\ \A n \in 0 .. MaxStarts : {ServerObject(n), AsyncObject(n)} \cap alive = {}
        /\ thread = "none"

\* While afterStartUp() builds the address space the stack's own reads of new
\* variables are answered at once, since m_serving is set afterwards only: a
\* read deferred there is lost, its placeholder being a local variable.  Of the
\* nodes added later this cannot be said.
NoReadLostInStart == [][lost' # lost => app = "idle"]_vars

\* stop() returns once the flag is down.
StopReturns == (app = "joining" /\ ~flag) ~> (app = "idle")

-----------------------------------------------------------------------------
(* The inductive invariant, which the proofs rest on.                      *)

\* Which pointers are set, by the place in start() and stop().
PointersAgree ==
    /\ app \notin {"created", "deletingAsync"} => async = server
    /\ app = "created" => async = 0
    /\ app \in {"created", "building", "serving"} => server # 0 /\ thread = "none"
    /\ app \in {"closing", "clearing"} => server # 0
    /\ app = "deletingAsync" => server = 0
    /\ app \in {"deletingServer", "deletingAsync"} => manager = NoManager
    /\ manager = NoManager =>
          server = 0 \/ app \in {"deletingServer", "deletingAsync"}

\* What is pointed to is allocated, and of servers nothing else is.
PointersLive ==
    /\ \A n \in 0 .. MaxStarts :
          /\ ServerObject(n) \in alive <=> n = server /\ n # 0
          /\ AsyncObject(n) \in alive <=> n = async /\ n # 0
    /\ manager # NoManager => ManagerObject(manager) \in alive

\* The list holds nodes that are allocated, once each.
ListIsExact ==
    /\ server # 0 /\ manager # NoManager =>
          \A n \in Nodes : IsListed(n) => listed[n] = (IF n \in space THEN 1 ELSE 0)
    /\ server = 0 \/ app = "created" => space = {}
    /\ server = 0 \/ manager = NoManager => \A n \in Nodes : listed[n] = 0
    /\ \A n \in Nodes : listed[n] # 0 =>
          /\ IsListed(n)
          /\ listed[n] = 1
          /\ NodeObject(n) \in alive

\* What a node refers to is listed, or has gone with an earlier manager.
RefsAreListed ==
    \A p \in Nodes \cup {Root} : \A n \in refs[p] :
        Kind[n] = "MethodArgument" \/ listed[n] # 0 \/ NodeObject(n) \notin alive

\* The inductive invariant.
ServerInv ==
    /\ TypeOK
    /\ StopIsAlone
    /\ PointersAgree
    /\ PointersLive
    /\ ListIsExact
    /\ RefsAreListed
    /\ NoUseAfterDelete
=============================================================================
