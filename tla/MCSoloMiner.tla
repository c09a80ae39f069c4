------------------------------ MODULE MCSoloMiner ------------------------------
(***************************************************************************)
(* The miner's own m1 and what Others holds of: the others' chain g-a1-a2  *)
(* (there is no lookback), a block x of theirs on m1 that is refused, and  *)
(* m2, the miner's next.                                                   *)
(***************************************************************************)
EXTENDS SoloMiner

CONSTANT Others

MCBlock == {"g", "m1"} \cup Others

MCParent == [b \in MCBlock |->
  CASE b = "g" -> NoBlock [] b \in {"a1", "m1"} -> "g" [] b = "a2" -> "a1"
    [] b \in {"m2", "x"} -> "m1"]

MCAncestors[b \in MCBlock] ==
  IF b = "g" THEN {b} ELSE {b} \cup MCAncestors[MCParent[b]]

MCHeight == [b \in MCBlock |-> Cardinality(MCAncestors[b]) - 1]

MCWork == [b \in MCBlock |-> MCHeight[b] + 1]
=============================================================================
