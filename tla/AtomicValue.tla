----------------------------- MODULE AtomicValue -----------------------------
(***************************************************************************)
(* What UaDataValue promises to the threads that share one: every call     *)
(* takes effect at one moment between its beginning and its return, and a  *)
(* clone is the whole of what the calls before that moment have made.      *)
(***************************************************************************)
CONSTANTS
    Threads,
    Contents,         \* the contents a data value can have
    Calls,            \* the kinds of call
    Apply(_, _, _)    \* contents after a call of a kind with an argument

VARIABLES
    reg,   \* the contents
    call   \* each thread's call: idle, begun or done, and what it got

Idle == [state |-> "idle"]
Begun(k, a) == [state |-> "begun", kind |-> k, arg |-> a]
Done(got) == [state |-> "done", got |-> got]  \* a set: empty but for a clone

Init ==
    /\ reg \in Contents
    /\ call = [t \in Threads |-> Idle]

Invoke(t) ==
    /\ call[t] = Idle
    /\ \E k \in Calls, a \in Contents : call' = [call EXCEPT ![t] = Begun(k, a)]
    /\ UNCHANGED reg

TakesEffect(t) ==
    /\ call[t].state = "begun"
    /\ reg' = Apply(call[t].kind, call[t].arg, reg)
    /\ call' = [call EXCEPT ![t] =
                    Done(IF call[t].kind = "clone" THEN {reg} ELSE {})]

Returns(t) ==
    /\ call[t].state = "done"
    /\ call' = [call EXCEPT ![t] = Idle]
    /\ UNCHANGED reg

Next == \E t \in Threads : Invoke(t) \/ TakesEffect(t) \/ Returns(t)

Spec == Init /\ [][Next]_<<reg, call>>
=============================================================================
