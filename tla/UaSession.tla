------------------------------ MODULE UaSession ------------------------------
(***************************************************************************)
(* One UaSession of the client library shared by threads                   *)
(* (src/uaclient/uasession.cpp).  m_client points to the stack's           *)
(* UA_Client, which connect() allocates and disconnect() deletes.  Every   *)
(* service is a blocking call into the stack: the server answers with a    *)
(* status and with a number of results of its own choice, or the stack     *)
(* gives up.  All methods but browse() and serverStatus() hold             *)
(* m_accessMutex from their beginning to their return.                     *)
(***************************************************************************)
EXTENDS Naturals, FiniteSets

CONSTANTS
    Threads,
    Clients,    \* the addresses UA_Client_new may return
    NoClient,   \* the null pointer
    NoThread,   \* m_accessMutex is free
    Methods,    \* the methods the threads call
    MaxNodes    \* the longest request, in nodes

ASSUME OutsideAssumption ==
    /\ NoClient \notin Clients /\ NoThread \notin Threads
    /\ "none" \notin Methods
    /\ MaxNodes \in Nat \ {0}

VARIABLES
    mutex,    \* the thread that holds m_accessMutex
    client,   \* m_client
    live,     \* the clients that are allocated
    call,     \* each thread's call
    output,   \* the caller's output parameter, from call to call
    misuse    \* the first use of a null or a deleted client, and the method

vars == <<mutex, client, live, call, output, misuse>>

Services == {"read", "write", "call", "browse"}
Synchronized == {"connect", "disconnect", "read", "write", "call"}

Idle == [method |-> "none", at |-> "idle", asked |-> 0, using |-> NoClient]

\* A service response: its status and the number of its results.
Responses == [service : {"Good", "BadTimeout"}, size : 0 .. MaxNodes + 1]

\* What the caller holds: the status, how many results, and whether they are
\* those of the latest call.
Nothing == [status |-> "none", size |-> 0, fresh |-> FALSE]
Output(status, size) == [status |-> status, size |-> size, fresh |-> TRUE]

Statuses == {"none", "Good", "Threw", "Disconnected", "Bad", "BadTimeout",
             "BadConnectionRejected", "BadConnectionClosed", "BadInvalidState",
             "BadUnknownResponse"}

NoMisuse == [what |-> "none", by |-> "none"]

TypeOK ==
    /\ mutex \in Threads \cup {NoThread}
    /\ client \in Clients \cup {NoClient}
    /\ live \subseteq Clients
    /\ call \in [Threads ->
          [method : Methods \cup {"none"},
           at : {"idle", "begun", "inside", "linking", "closing", "awaiting"},
           asked : 0 .. MaxNodes, using : Clients \cup {NoClient}]]
    /\ output \in [Threads -> [status : Statuses, size : 0 .. MaxNodes, fresh : BOOLEAN]]
    /\ misuse \in [what : {"null", "deleted"}, by : Services \cup {"serverStatus"}]
                 \cup {NoMisuse}

Init ==
    /\ mutex = NoThread
    /\ client = NoClient
    /\ live = {}
    /\ call = [t \in Threads |-> Idle]
    /\ output = [t \in Threads |-> Nothing]
    /\ misuse = NoMisuse

-----------------------------------------------------------------------------

Running == misuse = NoMisuse   \* what follows a misuse is anybody's guess

At(t, method, place) == Running /\ call[t].method = method /\ call[t].at = place
Goes(t, place) == call' = [call EXCEPT ![t].at = place]

\* The method returns out and its lock_guard, if it has one, goes.
BugReturnsWith(t, out) ==
    /\ call' = [call EXCEPT ![t] = Idle]
    /\ output' = [output EXCEPT ![t] = out]
    /\ mutex' = IF mutex = t /\ out.status # "Threw" THEN NoThread ELSE mutex
ReturnsWith(t, out) ==
    /\ call' = [call EXCEPT ![t] = Idle]
    /\ output' = [output EXCEPT ![t] = out]
    /\ mutex' = IF mutex = t THEN NoThread ELSE mutex

Invoke(t) ==
    /\ Running
    /\ call[t] = Idle
    /\ \E m \in Methods, n \in 1 .. MaxNodes :
        /\ m \notin {"read", "write"} => n = 1
        /\ call' = [call EXCEPT ![t] =
                      [method |-> m, at |-> "begun", asked |-> n, using |-> NoClient]]
    /\ output' = [output EXCEPT ![t].fresh = FALSE]
    /\ UNCHANGED <<mutex, client, live, misuse>>

BugGuarded == {"connect", "disconnect", "write", "call"}
Guarded == Synchronized
Acquire(t) ==
    /\ Running
    /\ call[t].at = "begun" /\ call[t].method \in Guarded
    /\ mutex = NoThread
    /\ mutex' = t
    /\ Goes(t, "inside")
    /\ UNCHANGED <<client, live, output, misuse>>

\* "Connection already exists"
ConnectRefused(t) ==
    /\ At(t, "connect", "inside")
    /\ client # NoClient
    /\ ReturnsWith(t, Output("Bad", 0))
    /\ UNCHANGED <<client, live, misuse>>

\* UA_Client_new; without memory connect() throws alloc_error.
ConnectNew(t) ==
    /\ At(t, "connect", "inside")
    /\ client = NoClient
    /\ \/ \E c \in Clients \ live :
            /\ client' = c
            /\ live' = live \cup {c}
            /\ Goes(t, "linking")
            /\ UNCHANGED <<mutex, output>>
       \/ ReturnsWith(t, Output("Threw", 0)) /\ UNCHANGED <<client, live>>
    /\ UNCHANGED misuse

\* UA_Client_connect; a client that could not connect is deleted at once.
BugConnectFailed == live' = live \ {client} /\ UNCHANGED client
ConnectFailed == client' = NoClient /\ live' = live \ {client}
ConnectEnds(t) ==
    /\ At(t, "connect", "linking")
    /\ \/ ReturnsWith(t, Output("Good", 0)) /\ UNCHANGED <<client, live>>
       \/ ReturnsWith(t, Output("BadConnectionRejected", 0)) /\ ConnectFailed
    /\ UNCHANGED misuse

\* "can't disconnect if not connected..."
DisconnectRefused(t) ==
    /\ At(t, "disconnect", "inside")
    /\ client = NoClient
    /\ ReturnsWith(t, Output("BadInvalidState", 0))
    /\ UNCHANGED <<client, live, misuse>>

\* UA_Client_disconnect closes the session, and blocks; then the client goes.
DisconnectCloses(t) ==
    /\ At(t, "disconnect", "inside")
    /\ client # NoClient
    /\ Goes(t, "closing")
    /\ UNCHANGED <<mutex, client, live, output, misuse>>

Deletes == live' = live \ {client} /\ client' = NoClient
DisconnectDeletes(t) ==
    /\ At(t, "disconnect", "closing")
    /\ Deletes
    /\ \E status \in {"Good", "BadConnectionClosed"} : ReturnsWith(t, Output(status, 0))
    /\ UNCHANGED misuse

\* UA_Client_Service_...(m_client, request): browse() gets here without the lock,
\* having cleared its output.
Send(t) ==
    /\ Running
    /\ call[t].method \in Services
    /\ call[t].at = (IF call[t].method \in Guarded THEN "inside" ELSE "begun")
    /\ IF client = NoClient
       THEN /\ misuse' = [what |-> "null", by |-> call[t].method]
            /\ UNCHANGED <<call, output>>
       ELSE /\ call' = [call EXCEPT ![t].at = "awaiting", ![t].using = client]
            /\ output' = IF call[t].method = "browse"
                         THEN [output EXCEPT ![t] = Nothing] ELSE output
            /\ UNCHANGED misuse
    /\ UNCHANGED <<mutex, client, live>>

\* The request could not be built; browse() has not these checks.
CannotSend(t) ==
    /\ Running
    /\ call[t].method \in {"read", "write", "call"} /\ call[t].at = "inside"
    /\ ReturnsWith(t, [output[t] EXCEPT !.status = "Threw"])
    /\ UNCHANGED <<client, live, misuse>>

\* What a method makes of a response.
BugReadOutcome(n, r) ==
    IF r.service # "Good" THEN Output(r.service, 0) ELSE Output("Good", r.size)
ReadOutcome(n, r) ==
    IF r.service # "Good" THEN Output(r.service, 0)
    ELSE IF r.size # n THEN Output("Bad", 0)
    ELSE Output("Good", n)

\* call() leaves its output alone when the service fails, and throws when the
\* server sends no or several results for its one method.
CallOutcome(old, r) ==
    IF r.service # "Good" THEN [old EXCEPT !.status = r.service]
    ELSE IF r.size # 1 THEN [old EXCEPT !.status = "Threw"]
    ELSE Output("Good", 1)

\* browse() throws at a reference to a node of a class it does not know.
BrowseOutcomes(r) ==
    IF r.service # "Good" THEN {Output(r.service, 0)}
    ELSE IF r.size # 1 THEN {Output("BadUnknownResponse", 0)}
    ELSE {Output("Good", 1), Output("Threw", 1)}

Outcomes(t, r) ==
    CASE call[t].method \in {"read", "write"} -> {ReadOutcome(call[t].asked, r)}
      [] call[t].method = "call" -> {CallOutcome(output[t], r)}
      [] call[t].method = "browse" -> BrowseOutcomes(r)

\* The client is used until the service returns, and then no more.
Uses(t) ==
    misuse' = IF call[t].using \in live THEN misuse
              ELSE [what |-> "deleted", by |-> call[t].method]

Receive(t) ==
    /\ Running
    /\ call[t].method \in Services /\ call[t].at = "awaiting"
    /\ Uses(t)
    /\ \E r \in Responses : \E out \in Outcomes(t, r) : ReturnsWith(t, out)
    /\ UNCHANGED <<client, live>>

\* serverStatus tests m_client and then asks the client for its state.
StatusLoads(t) ==
    /\ At(t, "serverStatus", "begun")
    /\ IF client = NoClient
       THEN ReturnsWith(t, Output("Disconnected", 0))
       ELSE /\ call' = [call EXCEPT ![t].at = "awaiting", ![t].using = client]
            /\ UNCHANGED <<mutex, output>>
    /\ UNCHANGED <<client, live, misuse>>

StatusReads(t) ==
    /\ At(t, "serverStatus", "awaiting")
    /\ Uses(t)
    /\ ReturnsWith(t, Output("Good", 0))
    /\ UNCHANGED <<client, live>>

Step(t) ==
    \/ Acquire(t)
    \/ ConnectRefused(t) \/ ConnectNew(t) \/ ConnectEnds(t)
    \/ DisconnectRefused(t) \/ DisconnectCloses(t) \/ DisconnectDeletes(t)
    \/ Send(t) \/ CannotSend(t) \/ Receive(t)
    \/ StatusLoads(t) \/ StatusReads(t)

Next == \E t \in Threads : Invoke(t) \/ Step(t)

\* A thread inside a method goes on: every call into the stack has a timeout.
Spec == Init /\ [][Next]_vars /\ \A t \in Threads : WF_vars(Step(t))

-----------------------------------------------------------------------------
(* Properties.                                                             *)

\* No method that takes the lock works on a client that another thread has
\* deleted, whatever browse() and serverStatus() do meanwhile.
NoDeletedClient == misuse.what = "deleted" => misuse.by \notin Synchronized

\* Between two methods the allocated clients are exactly the one m_client points
\* to: connecting, failing to connect and disconnecting leak nothing and leave
\* no dangling pointer.
OneClient ==
    mutex = NoThread => live = (IF client = NoClient THEN {} ELSE {client})

InClient(methods) ==
    {t \in Threads : call[t].method \in methods
                     /\ call[t].at \in {"linking", "closing", "awaiting"}}

\* Of the methods that take m_accessMutex one at a time is inside the client,
\* which is not safe for two.
OneLockedAtATime == Cardinality(InClient(Synchronized)) <= 1

Returned(t) ==
    /\ call[t].method \in {"read", "write"}
    /\ call'[t] = Idle
    /\ output'[t].status # "Threw"
\* read() and write() return Good only with one result per node, whatever the
\* server sends, and otherwise none at all: no index of the caller's is beyond
\* them and no result of an earlier call stays (unless an exception says so).
ResultsAligned ==
    [][\A t \in Threads : Returned(t) =>
        /\ output'[t].fresh
        /\ output'[t].size = (IF output'[t].status = "Good" THEN call[t].asked ELSE 0)]_vars

\* Every method that holds m_accessMutex gives it back, when it throws too.
MutexIsReleased == \A t \in Threads : mutex = t ~> mutex # t \/ ~Running

-----------------------------------------------------------------------------
(* The inductive invariant, which the proofs rest on.                      *)

Locked(t) ==
    \/ call[t].at \in {"inside", "linking", "closing"}
    \/ call[t].at = "awaiting" /\ call[t].method \in Synchronized

\* Who is inside a method that locks holds the mutex.
LockedHold == \A t \in Threads : Locked(t) => mutex = t

\* The allocated clients are those m_client points to.
LiveIsPointedTo == live = (IF client = NoClient THEN {} ELSE {client})

\* A locked service call uses the client that m_client still points to.
UsesPointedTo ==
    \A t \in Threads :
        call[t].at = "awaiting" /\ call[t].method \in Synchronized =>
            call[t].using = client /\ client # NoClient

\* A thread outside of every method is idle; inside connect() or disconnect(),
\* once past the first test, there is a client.
PlacesAgree ==
    \A t \in Threads :
        /\ call[t].method = "none" => call[t] = Idle
        /\ call[t].at \in {"linking", "closing"} => client # NoClient

\* The inductive invariant.
SessionInv ==
    /\ TypeOK
    /\ LockedHold
    /\ LiveIsPointedTo
    /\ UsesPointedTo
    /\ PlacesAgree
    /\ NoDeletedClient
=============================================================================
