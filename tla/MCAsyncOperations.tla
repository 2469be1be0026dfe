------------------------- MODULE MCAsyncOperations -------------------------
(* Instances of AsyncOperations for TLC. *)
EXTENDS AsyncService, TLC

CONSTANTS b1, b2, b3, k1, k2

MCSymmetry == Permutations(Keys) \cup Permutations(Blocks \ Methods)
=============================================================================
