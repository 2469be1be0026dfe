--------------------------- MODULE DeferredService ---------------------------
(***************************************************************************)
(* What the deferral layer promises the stack and its clients, with no     *)
(* threads, blocks, queues or slots: a request is open until it gets one   *)
(* answer, and that answer is the application's own offer for it or a      *)
(* status that says why there is none.                                     *)
(***************************************************************************)
CONSTANTS
    Requests,     \* the requests
    Offers,       \* for each request, what the application may offer
    Statuses,     \* answers given without the application
    ShutdownStatus,
    None          \* no offer, no answer

VARIABLES
    request,  \* where a request is
    offer,    \* what the application offered
    reply     \* the answer

vars == <<request, offer, reply>>

Init ==
    /\ request = [r \in Requests |-> "idle"]
    /\ offer = [r \in Requests |-> None]
    /\ reply = [r \in Requests |-> None]

\* The server starts on a request.
Accept(r) ==
    /\ request[r] = "idle"
    /\ request' = [request EXCEPT ![r] = "open"]
    /\ UNCHANGED <<offer, reply>>

\* The application offers its result, once, in time or too late.
Offer(r, o) ==
    /\ request[r] # "idle" /\ offer[r] = None
    /\ o \in Offers[r]
    /\ offer' = [offer EXCEPT ![r] = o]
    /\ UNCHANGED <<request, reply>>

\* An accepted request gets its answer.
Answer(r, a) ==
    /\ request[r] = "open"
    /\ a \in Statuses \/ (a = offer[r] /\ a # None)
    /\ request' = [request EXCEPT ![r] = "answered"]
    /\ reply' = [reply EXCEPT ![r] = a]
    /\ UNCHANGED offer

\* A request that is answered without being kept open.
AnswerAtOnce(r, a) ==
    /\ request[r] = "idle"
    /\ a \in Statuses
    /\ request' = [request EXCEPT ![r] = "answered"]
    /\ reply' = [reply EXCEPT ![r] = a]
    /\ UNCHANGED offer

\* The end of the server answers everything that is still open.
Shutdown ==
    /\ request' = [r \in Requests |->
                    IF request[r] = "open" THEN "answered" ELSE request[r]]
    /\ reply' = [r \in Requests |->
                    IF request[r] = "open" THEN ShutdownStatus ELSE reply[r]]
    /\ UNCHANGED offer

Next ==
    \/ \E r \in Requests :
        \/ Accept(r)
        \/ \E o \in Offers[r] : Offer(r, o)
        \/ \E a \in Statuses \cup {offer[r]} : Answer(r, a)
        \/ \E a \in Statuses : AnswerAtOnce(r, a)
    \/ Shutdown

Spec == Init /\ [][Next]_vars
=============================================================================
