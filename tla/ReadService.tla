------------------------------ MODULE ReadService ------------------------------
(***************************************************************************)
(* What a client may rely on when it sends ReadRequests to a server whose   *)
(* variables answer at once or later: one answer per request, complete,     *)
(* with its own values, and never taken back.                               *)
(***************************************************************************)
CONSTANTS
    Requests,     \* ReadRequests
    Ops,          \* pairs of a request and a position in its nodesToRead
    NodeOf,       \* the node each operation reads
    Timestamps,   \* the values of timestampsToReturn
    Nothing,      \* an empty variant
    StackStatuses,\* the statuses the stack gives where there is no value
    Pending,      \* no answer yet
    Refused       \* an answer to the request as a whole

VARIABLES
    asked,        \* timestampsToReturn of a request that was accepted, or "none"
    answer        \* the results sent for a request, Refused or Pending

OpsOf(r) == {op \in Ops : op[1] = r}
AsksSource(a) == a \in {"source", "both"}
AsksServer(a) == a \in {"server", "both"}

\* One result: the value of its own node or none, no status of the stack beside
\* a value, and no timestamp that was not asked for.
ProperResult(s, node, a) ==
    /\ s.value \in {node, Nothing}
    /\ s.value # Nothing => s.status \notin StackStatuses
    /\ s.source => AsksSource(a)
    /\ s.server => AsksServer(a)

Proper(results, r, a) ==
    /\ DOMAIN results = OpsOf(r)
    /\ \A op \in OpsOf(r) : ProperResult(results[op], NodeOf[op], a)

Init ==
    /\ asked = [r \in Requests |-> "none"]
    /\ answer = [r \in Requests |-> Pending]

Accept(r) ==
    /\ asked[r] = "none" /\ answer[r] = Pending
    /\ \E a \in Timestamps : asked' = [asked EXCEPT ![r] = a]
    /\ UNCHANGED answer

Refuse(r) ==
    /\ asked[r] = "none" /\ answer[r] = Pending
    /\ answer' = [answer EXCEPT ![r] = Refused]
    /\ UNCHANGED asked

\* Answers may go out together.
Answer(sent) ==
    /\ \A r \in sent :
          /\ asked[r] # "none" /\ answer[r] = Pending /\ answer'[r] # Pending
          /\ Proper(answer'[r], r, asked[r])
    /\ answer' = [r \in Requests |-> IF r \in sent THEN answer'[r] ELSE answer[r]]
    /\ UNCHANGED asked

Next ==
    \/ \E r \in Requests : Accept(r) \/ Refuse(r)
    \/ \E sent \in SUBSET Requests : Answer(sent)

Spec == Init /\ [][Next]_<<asked, answer>>
=============================================================================
