----------------------------- MODULE MCUaSession -----------------------------
(* Instances of UaSession for TLC. *)
EXTENDS UaSession
=============================================================================
