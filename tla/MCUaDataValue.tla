--------------------------- MODULE MCUaDataValue ---------------------------
(* Instances of UaDataValue for TLC. *)
EXTENDS UaDataValue

MCMarks == {"old", "new"}
=============================================================================
