----------------------------- MODULE MCUaServer -----------------------------
(* Instances of UaServer for TLC. *)
EXTENDS UaServer

MCKind == [n \in Nodes |->
    CASE n = "object" -> "Object" [] n = "io" -> "IoVariable"
      [] n = "twin" -> "DataVariable" [] n = "property" -> "Property"
      [] n = "method" -> "Method" [] n = "argument" -> "MethodArgument"]
\* Two variables ask for the same node id.
MCId == [n \in Nodes |-> IF n = "twin" THEN "io" ELSE n]
=============================================================================
