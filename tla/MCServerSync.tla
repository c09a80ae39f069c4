----------------------------- MODULE MCServerSync -----------------------------
(***************************************************************************)
(* A chain g-a1-..-a5 with a fork a2-b3-b4, longer than the overlap and    *)
(* the batch of a pull and not deeper than a snapshot.                     *)
(***************************************************************************)
EXTENDS ServerSync

MCBlock == {"g", "a1", "a2", "a3", "a4", "a5", "b3", "b4"}

MCParent == [b \in MCBlock |->
  CASE b = "g" -> NoBlock [] b = "a1" -> "g" [] b = "a2" -> "a1"
    [] b = "a3" -> "a2" [] b = "a4" -> "a3" [] b = "a5" -> "a4"
    [] b = "b3" -> "a2" [] b = "b4" -> "b3"]

MCAncestors[b \in MCBlock] ==
  IF b = "g" THEN {b} ELSE {b} \cup MCAncestors[MCParent[b]]

MCHeight == [b \in MCBlock |-> Cardinality(MCAncestors[b]) - 1]

MCWork == [b \in MCBlock |-> MCHeight[b] + 1]
=============================================================================
