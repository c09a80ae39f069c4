------------------------------- MODULE MCGossip -------------------------------
(***************************************************************************)
(* Three nodes on a line p - r - q or in a triangle. q pulls a2 from a     *)
(* helper and mines a3, p pulls b2, a2's sibling, which confirms the       *)
(* transaction: r hears of both before their parent.                       *)
(***************************************************************************)
EXTENDS Gossip

MCBlock == {"g", "a1", "a2", "a3", "b2"}

MCParent == [b \in MCBlock |->
  CASE b = "g" -> NoBlock [] b = "a1" -> "g" [] b \in {"a2", "b2"} -> "a1"
    [] b = "a3" -> "a2"]

MCAncestors[b \in MCBlock] ==
  IF b = "g" THEN {b} ELSE {b} \cup MCAncestors[MCParent[b]]

MCHeight == [b \in MCBlock |-> Cardinality(MCAncestors[b]) - 1]
MCWork == [b \in MCBlock |-> MCHeight[b] + 1]
MCMaker == [b \in MCBlock |-> IF b = "b2" THEN "p" ELSE "q"]
MCConfirms == [b \in MCBlock |-> IF b = "b2" THEN {"x"} ELSE {}]
MCTriangle == {{"p", "q"}, {"p", "r"}, {"q", "r"}}
MCLine == {{"p", "r"}, {"q", "r"}}
Plan(links, first, blocks, txs, drops) ==
  [links |-> links, first |-> first, blocks |-> blocks, txs |-> txs, drops |-> drops]

MCBudgets == {
  Plan(MCLine, {{"q", "r"}}, {"a1", "a2", "a3", "b2"}, {}, 1),
  Plan(MCTriangle, MCTriangle, {"a1", "a2", "a3", "b2"}, {}, 0),
  Plan(MCTriangle, MCTriangle, {"b2"}, {"x"}, 1),
  Plan(MCLine, MCLine, {"a1", "a2", "a3", "b2"}, {"x"}, 0)}
=============================================================================
