------------------------------- MODULE Products -------------------------------
(* The number of elements of a matrix, in exact arithmetic. *)
EXTENDS Integers, Sequences

\* The product of the first n dimensions of d, for every n.
Products(d) ==
    LET p[n \in 0 .. Len(d)] == IF n = 0 THEN 1 ELSE p[n - 1] * d[n] IN p

Product(d) == Products(d)[Len(d)]
=============================================================================
