----------------------------- MODULE MCBlockchain -----------------------------
(***************************************************************************)
(* A small tree for Blockchain: a chain g-a1-..-a4, a fork a1-b2-b3 that   *)
(* ties with it at height 2 and at the top (a heavy b3, so a shorter       *)
(* branch can win), a block with a bad proof of work and one with a bad    *)
(* body.                                                                   *)
(***************************************************************************)
EXTENDS Blockchain

MCBlock == {"g", "a1", "a2", "a3", "a4", "b2", "b3", "badPow", "badBody"}

MCParent == [b \in MCBlock |->
  CASE b = "g" -> NoBlock [] b = "a1" -> "g" [] b = "a2" -> "a1"
    [] b = "a3" -> "a2" [] b = "a4" -> "a3" [] b = "b2" -> "a1"
    [] b = "b3" -> "b2" [] b = "badPow" -> "a2" [] b = "badBody" -> "a1"]

MCHeight == [b \in MCBlock |->
  CASE b = "g" -> 0 [] b = "a1" -> 1 [] b \in {"a2", "b2", "badBody"} -> 2
    [] b \in {"a3", "b3", "badPow"} -> 3 [] b = "a4" -> 4]

MCWeight(b) == IF b = "b3" THEN 2 ELSE 1

MCAncestors[b \in MCBlock] ==
  IF b = "g" THEN {b} ELSE {b} \cup MCAncestors[MCParent[b]]

MCWork[b \in MCBlock] ==
  IF b = "g" THEN 1 ELSE MCWork[MCParent[b]] + MCWeight(b)
=============================================================================
