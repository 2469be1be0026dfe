------------------------- MODULE MCMatrixDimensions -------------------------
(* Instances of MatrixDimensions for TLC: integers of four and seven bits. *)
EXTENDS MatrixDimensions

MCLengths == 0 .. 10
=============================================================================
