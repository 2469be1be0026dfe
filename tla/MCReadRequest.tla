----------------------------- MODULE MCReadRequest -----------------------------
(* Two ReadRequests that share a device; the second one exceeds the queue.   *)
EXTENDS ReadRequest, TLC

CONSTANTS r1, r2, number, text, unknown

MCRequests == {r1, r2}
MCNodes == {number, text, unknown}
MCVariables == {number, text}
MCIoVariables == MCVariables
MCNullable == {text}
MCNodesToRead == (r1 :> <<unknown, number>>) @@ (r2 :> <<text, number>>)
MCTimestamps == {"source", "server"}

Result(filled, status, stamps) ==
    [filled |-> filled, hasValue |-> TRUE, status |-> status,
     source |-> stamps, server |-> stamps]

\* A value with its times, one without, and what a dropped handle gives.
MCResults ==
    {Result(TRUE, "Good", TRUE), Result(TRUE, "none", FALSE),
     Result(FALSE, "BadInternalError", TRUE)}
=============================================================================
