----------------------------- MODULE Difficulty -----------------------------
(***************************************************************************)
(* nextDifficulty, src/chain/consensus.ts, over its three anchors, in      *)
(* a loop with miners whose hash rate changes: the sooner a block is found *)
(* the harder the next one.                                                *)
(*                                                                         *)
(* Targets are logarithms: HalfLife more is twice the target. asertTarget  *)
(* is linear in them, its cubic approximation of 2^x and the rounding of   *)
(* the compact form left out. Times are kept as drift: how much later than *)
(* one block per Pace the tip's timestamp is. Timestamps are honest.       *)
(***************************************************************************)
EXTENDS Integers, FiniteSetsExt

CONSTANTS
  Pace,         \* TARGET_BLOCK_TIME_S
  HalfLife,     \* HALFLIFE_S
  Mult,         \* EMERGENCY_DROP_MULT
  Floor,        \* FLOOR_TARGET and ANCHOR_TARGET, the genesis' target
  Fork,         \* SANDGLASS_FORK_HEIGHT
  ResetTarget,  \* SANDGLASS_ANCHOR_TARGET
  Estimate,     \* the drift SANDGLASS_ANCHOR_TIMESTAMP supposes at the fork
  Anchor2,      \* SANDGLASS2_ANCHOR_HEIGHT, the end of the clamp too
  Need,         \* target and hash rate that make a block take Pace
  Rates,        \* the logarithms of the hash rates
  MaxChanges    \* bound: how often the hash rate changes

ASSUME DifficultyConstants ==
  /\ Pace \in Nat \ {0} /\ HalfLife \in Nat \ {0} /\ Mult \in Nat
  /\ Floor \in Nat /\ ResetTarget \in 0..Floor
  /\ Fork \in Nat \ {0} /\ Anchor2 \in Nat /\ Anchor2 > Fork
  /\ Estimate \in Int /\ Need \in Int /\ Rates \subseteq Int

VARIABLES
  height,   \* of the tip; Anchor2 + 1 stands for every height above it
  drift,    \* of the tip's timestamp
  gap,      \* between the tip's timestamp and its parent's
  target,   \* of the tip
  anchor,   \* the drift and target of block Anchor2
  dropped,  \* whether the tip's target is an emergency drop
  rate, changes

vars == <<height, drift, gap, target, anchor, dropped, rate, changes>>

Init ==
  /\ height = 0 /\ drift = 0 /\ gap = 0 /\ target = Floor
  /\ anchor = [drift |-> 0, target |-> 0] /\ dropped = FALSE
  /\ rate \in Rates /\ changes = 0

-----------------------------------------------------------------------------
(* asertTarget, between 1 and the floor.                                   *)
Asert(from, sinceAnchor) == Max({0, Min({Floor, from + sinceAnchor})})

(* The safety band after fork #2: within 4x of the reset.                  *)
Clamp(t) == Max({ResetTarget - 2 * HalfLife, Min({ResetTarget + 2 * HalfLife, t})})

(* The parent's gap counts unless its own parent is the genesis.           *)
Slow(candidateGap) ==
  height > 1 /\ gap > Mult * Pace /\ candidateGap > Mult * Pace

Reset == height + 1 = Fork
EmergencyDrop(candidateGap) == ~Reset /\ Slow(candidateGap)

(* Mutant: the right block, with fork #2's target.                         *)
AsertFromReset == Asert(ResetTarget, drift - anchor.drift)

AsertFromAnchor == Asert(anchor.target, drift - anchor.drift)

nextDifficulty(candidateGap) ==
  IF Reset THEN ResetTarget
  ELSE IF Slow(candidateGap) THEN Min({Floor, target + HalfLife})
  ELSE IF height >= Anchor2 THEN AsertFromAnchor
  ELSE IF height >= Fork THEN Clamp(Asert(ResetTarget, drift - Estimate))
  ELSE Asert(Floor, drift)

(* The time a block takes: Pace, doubled for each halving of the product   *)
(* of target and hash rate. External: the miners.                          *)
Takes(t) ==
  LET late == (Need - t - rate) \div HalfLife
  IN IF late < 0 THEN Pace \div 2 ELSE Pace * <<1, 2, 4, 8, 16, 32>>[Min({late, 5}) + 1]

(* A block found later than Mult * Pace is held to what is asked of such a *)
(* late one.                                                               *)
Found ==
  LET soon == Takes(nextDifficulty(0))
  IN IF soon <= Mult * Pace THEN soon
     ELSE Max({Mult * Pace + 1, Takes(nextDifficulty(soon))})

Mine ==
  /\ gap' = Found
  /\ target' = nextDifficulty(Found)
  /\ dropped' = EmergencyDrop(Found)
  /\ drift' = drift + Found - Pace
  /\ height' = Min({height + 1, Anchor2 + 1})
  /\ anchor' = IF height' = Anchor2 THEN [drift |-> drift', target |-> target'] ELSE anchor
  /\ UNCHANGED <<rate, changes>>

(* Miners come and go, and the second algorithm is another measure.        *)
RateChanges ==
  /\ changes < MaxChanges /\ changes' = changes + 1
  /\ rate' \in Rates \ {rate}
  /\ UNCHANGED <<height, drift, gap, target, anchor, dropped>>

Next == Mine \/ RateChanges

(* Someone mines.                                                          *)
Spec == Init /\ [][Next]_vars /\ WF_vars(Mine)

-----------------------------------------------------------------------------
(* "Nothing here can be off, so there is nothing to contain: ... no        *)
(* windup, no future cliff" (consensus.ts, fork #3): whatever drift the    *)
(* frozen rules wound up, a block asks at most one early block's worth     *)
(* more than the block before it, except below fork #3's anchor and after  *)
(* an emergency drop.                                                      *)
NoCliff ==
  [][(height >= Anchor2 /\ height' > Anchor2 /\ ~dropped) => target' >= target - Pace]_vars

OnPace == Pace <= 2 * gap /\ gap <= 2 * Pace

(* Whatever the hash rate did, once it stands still blocks come at half to *)
(* twice the pace for good: no stall that lasts, no storm that lasts.      *)
KeepsPace == <>[]OnPace
=============================================================================
