----------------------------- MODULE MCNodeStore -----------------------------
(***************************************************************************)
(* A helper's tip at 4 and snapshots 2 below it: the anchor is at 2, and   *)
(* block 5 lets the snapshot move on beyond it. Two reloads and a verifier *)
(* that gives up on good blocks once, or one with a fault of the stores.   *)
(***************************************************************************)
EXTENDS NodeStore

Plan(reloads, fails, stales, glitches) ==
  [reloads |-> reloads, fails |-> fails, stales |-> stales, glitches |-> glitches]

MCBudgets == {Plan(2, 0, 0, 1), Plan(1, 1, 0, 0), Plan(1, 0, 1, 0)}
=============================================================================
