------------------------------ MODULE ChainTree ------------------------------
(***************************************************************************)
(* The tree of all the blocks that could be received, as constants: blocks *)
(* are opaque, what one contains is its place here. Shared by the modules  *)
(* that hold a part of it (src/chain/block.ts, the ChainBlock type).       *)
(***************************************************************************)
EXTENDS Integers, FiniteSets

CONSTANTS
  Block,        \* every block the node may be handed, the genesis included
  Genesis,      \* GENESIS
  NoBlock,      \* "no block": an idle call, no fast sync under way
  Parent,       \* header.prevHash
  Height,       \* header.height
  Work,         \* cumulative work: parent.work + blockWork(difficulty)
  Ancestors     \* Ancestors[b]: b and the blocks below it, down to genesis

(* What a tree of blocks is: heights count up from the genesis, every block *)
(* adds work, and ancestors are the transitive parents.                     *)
ASSUME BlockTree ==
  /\ Genesis \in Block /\ NoBlock \notin Block
  /\ Parent \in [Block -> Block \cup {NoBlock}]
  /\ Height \in [Block -> Nat] /\ Height[Genesis] = 0
  /\ Work \in [Block -> Nat]
  /\ Ancestors \in [Block -> SUBSET Block] /\ Ancestors[Genesis] = {Genesis}
  /\ \A b \in Block \ {Genesis} :
       /\ Parent[b] \in Block
       /\ Height[b] = Height[Parent[b]] + 1
       /\ Work[b] > Work[Parent[b]]
       /\ Ancestors[b] = {b} \cup Ancestors[Parent[b]]
  /\ \A b \in Block : \A x \in Ancestors[b] :
       /\ Genesis \in Ancestors[x] /\ Ancestors[x] \subseteq Ancestors[b]
       /\ \A y \in Ancestors[b] : Height[x] = Height[y] => x = y
=============================================================================
