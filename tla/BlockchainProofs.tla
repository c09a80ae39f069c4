--------------------------- MODULE BlockchainProofs ---------------------------
(***************************************************************************)
(* The invariants of Blockchain, proved for every tree of blocks, every    *)
(* number of concurrent calls, every retention depth and every set of      *)
(* anchors.                                                                *)
(***************************************************************************)
EXTENDS Blockchain, TLAPS, WellFoundedInduction

-----------------------------------------------------------------------------
(* The strengthening. *)

(* Every block in flight was checked against a parent in the map, and only *)
(* a reset takes it out again. The genesis is never added.                 *)
CallsWellFormed ==
  /\ \A c \in Caller : calls[c].block # Genesis
  /\ resets = 0 => \A c \in Caller :
       Waiting(c) => Parent[calls[c].block] \in known

(* Header-only entries come from the one seeding of a session; before it   *)
(* there are none, and there was nothing to reset.                         *)
FreshUntilSeeded ==
  /\ ~fastDone => /\ bodyless = {} /\ known = full /\ resets = 0
  /\ fast # NoBlock => ~fastDone

(* The header-only entries lie on one chain.                               *)
HeaderOnlyOnChain ==
  \A x, y \in HeaderOnly : Height[x] = Height[y] => x = y

IInv ==
  /\ TypeOK
  /\ Genesis \in known
  /\ CallsWellFormed
  /\ FreshUntilSeeded
  /\ HeaderOnlyOnChain
  /\ ReachesGenesis
  /\ TipIsHeaviest
  /\ TipMaterialized
  /\ NotPrunedEarly
  /\ IndexInLockstep
  /\ BodylessRegistered
  /\ CursorIsLowerBound

-----------------------------------------------------------------------------
(* A non-empty set of natural numbers has a least element.                 *)
LEMMA LeastNat ==
  ASSUME NEW S \in SUBSET Nat, S # {}
  PROVE  \E m \in S : \A k \in S : m <= k
<1> DEFINE R == {ss \in Nat \X Nat : ss[1] < ss[2]}
<1>1. IsWellFoundedOn(R, Nat)
  BY NatLessThanWellFounded DEF OpToRel
<1> HIDE DEF R
<1>2. PICK m \in S : \A k \in S : ~ (<<k, m>> \in R)
  BY <1>1, WFMin
<1>3. ASSUME NEW k \in S PROVE m <= k
  <2>1. k \in Nat /\ m \in Nat
    OBVIOUS
  <2>2. ~ (k < m)
    BY <1>2, <2>1 DEF R
  <2> QED BY <2>1, <2>2
<1> QED BY <1>3

(* LowestHeight(S) is what its name says: lowestBodylessHeight's loop and  *)
(* seedBodyless's comparison both rest on it.                              *)
LEMMA LowestHeightIsLeast ==
  ASSUME NEW S \in SUBSET Block, S # {}
  PROVE  /\ LowestHeight(S) \in Nat
         /\ \E b \in S : LowestHeight(S) = Height[b]
         /\ \A b \in S : LowestHeight(S) <= Height[b]
<1> DEFINE H == {Height[b] : b \in S}
<1>1. H \in SUBSET Nat /\ H # {}
  BY BlockTree
<1>2. PICK h \in H : \A k \in H : h <= k
  BY <1>1, LeastNat
<1>3. \E x \in H : \A b \in S : x <= Height[b]
  BY <1>2
<1>4. LowestHeight(S) \in H /\ \A b \in S : LowestHeight(S) <= Height[b]
  BY <1>3 DEF LowestHeight
<1> QED BY <1>1, <1>4

(* Every branch ends at the genesis, the only block of height 0.           *)
LEMMA TreeFacts ==
  ASSUME NEW b \in Block
  PROVE  /\ b \in Ancestors[b] /\ Genesis \in Ancestors[b]
         /\ Ancestors[b] \subseteq Block
         /\ b # Genesis => Height[b] > 0
<1>1. b \in Ancestors[b]
  BY BlockTree
<1>2. Height[b] \in Nat /\ (b # Genesis => Height[Parent[b]] \in Nat)
  BY BlockTree
<1> QED BY <1>1, <1>2, BlockTree

(* Where nothing is missing from the map, reorgDelta's two walks meet at   *)
(* the fork point.                                                         *)
LEMMA BranchAboveComplete ==
  ASSUME NEW x \in Block, NEW y \in Block, NEW S,
         Ancestors[x] \subseteq S, Ancestors[y] \subseteq S
  PROVE  BranchAbove(x, y, S) = Ancestors[x] \ Ancestors[y]
BY DEF BranchAbove

(* The calls keep their blocks and their type when entries are detached.   *)
LEMMA DetachKeepsBlocks ==
  ASSUME TypeOK, NEW S
  PROVE  /\ Detach(S) \in [Caller -> Call]
         /\ \A c \in Caller : Detach(S)[c].block = calls[c].block
<1>1. ASSUME NEW c \in Caller
      PROVE  /\ Detach(S)[c] \in Call
             /\ Detach(S)[c].block = calls[c].block
  <2>1. calls[c] \in Call
    BY DEF TypeOK
  <2> QED BY <2>1 DEF Detach, Call, ParentRef
<1> QED BY <1>1 DEF Detach

-----------------------------------------------------------------------------
(* What storing a block preserves: the common part of addBlock's end and   *)
(* of addBlockWithPow. Its parent is in the map unless a reset intervened. *)
LEMMA InsertPreserves ==
  ASSUME IInv, NEW b \in Block \ {Genesis}, Insert(b),
         resets = 0 => Parent[b] \in known,
         UNCHANGED <<resets, fast, fastDone>>
  PROVE  /\ known' \subseteq Block /\ mat' \subseteq known' /\ full' \subseteq known'
         /\ tip' \in known' /\ indexed' \subseteq Block /\ view' \subseteq Block
         /\ bodyless' \subseteq Block /\ pruneFloor' \in Nat /\ bodylessLow' \in Nat
         /\ Genesis \in known' /\ known \subseteq known'
         /\ FreshUntilSeeded' /\ HeaderOnlyOnChain' /\ ReachesGenesis'
         /\ TipIsHeaviest' /\ TipMaterialized' /\ NotPrunedEarly'
         /\ IndexInLockstep' /\ BodylessRegistered' /\ CursorIsLowerBound'
<1> DEFINE floor == IF TakesTip(b) THEN FloorFor(b) ELSE pruneFloor
           buckets == indexed \cup {b}
           pruned == PrunedUpTo(floor, buckets)
<1>1. /\ known' = known \cup {b} /\ full' = full \cup {b}
      /\ mat' = (mat \cup {b}) \ pruned
      /\ indexed' = buckets \ pruned /\ pruneFloor' = floor
      /\ tip' = IF TakesTip(b) THEN b ELSE tip
      /\ view' = IF TakesTip(b) THEN ApplyDelta(tip, b, known \cup {b}) ELSE view
      /\ UNCHANGED <<bodyless, bodylessLow>>
  BY DEF Insert
<1>2. /\ known \subseteq Block /\ mat \subseteq known /\ full \subseteq known
      /\ tip \in known /\ indexed \subseteq Block /\ bodyless \subseteq Block
      /\ view \subseteq Block /\ pruneFloor \in Nat /\ bodylessLow \in Nat
      /\ Genesis \in known
  BY DEF IInv, TypeOK
<1>3. /\ floor \in Nat /\ floor >= pruneFloor
      /\ TakesTip(b) => floor = pruneFloor \/ floor <= Height[b]
      /\ ~TakesTip(b) => floor = pruneFloor
  <2>1. Height[b] \in Nat /\ Retention \in Nat
    BY BlockTree, BlockchainConstants
  <2>2. FloorFor(b) \in Nat /\ FloorFor(b) >= pruneFloor
        /\ (FloorFor(b) = pruneFloor \/ FloorFor(b) <= Height[b])
    BY <1>2, <2>1 DEF FloorFor
  <2> QED BY <1>2, <2>2
<1> HIDE DEF floor
<1>4. \A x \in buckets : x \in pruned <=> Height[x] >= pruneFloor /\ Height[x] < floor
  BY DEF PrunedUpTo
<1>5. pruned \subseteq buckets
  BY DEF PrunedUpTo
<1> HIDE DEF pruned
<1>6. \A x \in Block : Height[x] \in Nat /\ Work[x] \in Nat
  BY BlockTree
<1>7. /\ known' \subseteq Block /\ mat' \subseteq known' /\ full' \subseteq known'
      /\ tip' \in known' /\ indexed' \subseteq Block
      /\ bodyless' \subseteq Block /\ pruneFloor' \in Nat /\ bodylessLow' \in Nat
      /\ Genesis \in known' /\ known \subseteq known'
  BY <1>1, <1>2, <1>3
<1>8. view' \subseteq Block
  <2>1. Ancestors[b] \subseteq Block
    BY TreeFacts
  <2>2. ApplyDelta(tip, b, known \cup {b}) \subseteq Block
    BY <1>2, <2>1 DEF ApplyDelta, BranchAbove
  <2> QED BY <1>1, <1>2, <2>2
<1>9. FreshUntilSeeded'
  BY <1>1 DEF IInv, FreshUntilSeeded
<1>10. HeaderOnly' \subseteq HeaderOnly
  BY <1>1 DEF HeaderOnly
<1>11. HeaderOnlyOnChain' /\ BodylessRegistered' /\ CursorIsLowerBound'
  BY <1>1, <1>10 DEF IInv, HeaderOnlyOnChain, BodylessRegistered, CursorIsLowerBound
<1>12. ReachesGenesis'
  <2> SUFFICES ASSUME resets' = 0, NEW x \in known'
               PROVE  Ancestors[x] \subseteq known'
    BY DEF ReachesGenesis
  <2>1. CASE x \in known
    BY <1>7, <2>1 DEF IInv, ReachesGenesis
  <2>2. CASE x = b
    <3>1. Ancestors[b] = {b} \cup Ancestors[Parent[b]]
      BY BlockTree
    <3>2. Ancestors[Parent[b]] \subseteq known
      BY DEF IInv, ReachesGenesis
    <3> QED BY <1>1, <2>2, <3>1, <3>2
  <2> QED BY <1>1, <2>1, <2>2
<1>13. TipIsHeaviest'
  BY <1>1, <1>2, <1>6 DEF IInv, TipIsHeaviest, TakesTip
<1>14. TipMaterialized'
  <2>1. CASE TakesTip(b)
    <3>1. b \notin pruned
      BY <1>2, <1>3, <1>4, <1>6, <2>1
    <3> QED BY <1>1, <2>1, <3>1 DEF TipMaterialized
  <2>2. CASE ~TakesTip(b)
    <3>1. tip \notin pruned
      BY <1>2, <1>3, <1>4, <1>5, <1>6, <2>2
    <3> QED BY <1>1, <2>2, <3>1 DEF IInv, TipMaterialized
  <2> QED BY <2>1, <2>2
<1>15. NotPrunedEarly'
  <2> SUFFICES ASSUME ~fastDone', NEW x \in known', Height[x] >= pruneFloor'
               PROVE  x \in mat'
    BY DEF NotPrunedEarly
  <2>1. Height[x] \in Nat
    BY <1>6, <1>7
  <2>2. x \notin pruned
    BY <1>1, <1>3, <1>4, <1>5, <2>1
  <2>3. x \in mat \cup {b}
    BY <1>1, <1>2, <1>3, <2>1 DEF IInv, NotPrunedEarly
  <2> QED BY <1>1, <2>2, <2>3
<1>16. IndexInLockstep'
  <2> SUFFICES ASSUME ~fastDone'
               PROVE  view' = Ancestors[tip'] \ {Genesis}
    BY DEF IndexInLockstep
  <2>1. ~fastDone /\ resets = 0 /\ resets' = 0
    BY DEF IInv, FreshUntilSeeded
  <2>2. view = Ancestors[tip] \ {Genesis}
    BY <2>1 DEF IInv, IndexInLockstep
  <2>3. CASE ~TakesTip(b)
    BY <1>1, <2>2, <2>3
  <2>4. CASE TakesTip(b)
    <3>1. Ancestors[tip] \subseteq known \cup {b} /\ Ancestors[b] \subseteq known \cup {b}
      BY <1>1, <1>2, <1>12, <2>1 DEF ReachesGenesis
    <3>2. /\ BranchAbove(tip, b, known \cup {b}) = Ancestors[tip] \ Ancestors[b]
          /\ BranchAbove(b, tip, known \cup {b}) = Ancestors[b] \ Ancestors[tip]
      BY <1>2, <3>1, BranchAboveComplete
    <3>3. Genesis \in Ancestors[tip] /\ Genesis \in Ancestors[b]
      BY <1>2, TreeFacts
    <3>4. ApplyDelta(tip, b, known \cup {b}) = Ancestors[b] \ {Genesis}
      BY <2>2, <3>2, <3>3 DEF ApplyDelta
    <3> QED BY <1>1, <2>4, <3>4
  <2> QED BY <2>3, <2>4
<1> QED BY <1>7, <1>8, <1>9, <1>11, <1>12, <1>13, <1>14, <1>15, <1>16

(* StartAdd and the two outcomes of the Argon2id load, and a block that is *)
(* dropped: only the calls change.                                         *)
LEMMA CallStepsPreserve ==
  ASSUME IInv,
         \/ \E c \in Caller, b \in Block \ {Genesis} : StartAdd(c, b)
         \/ Argon2idReady
         \/ Argon2idFails
         \/ \E c \in Caller : FinishReject(c)
  PROVE  IInv'
<1>1. UNCHANGED <<chainVars, late, fast, fastDone, resets>>
  BY DEF StartAdd, Argon2idReady, Argon2idFails, FinishReject
<1>2. HeaderOnly' = HeaderOnly
  BY <1>1 DEF HeaderOnly, chainVars
<1>3. FreshUntilSeeded' /\ HeaderOnlyOnChain' /\ ReachesGenesis' /\ TipIsHeaviest'
      /\ TipMaterialized' /\ NotPrunedEarly' /\ IndexInLockstep'
      /\ BodylessRegistered' /\ CursorIsLowerBound' /\ (Genesis \in known)'
  BY <1>1, <1>2 DEF IInv, chainVars, FreshUntilSeeded, HeaderOnlyOnChain, ReachesGenesis,
     TipIsHeaviest, TipMaterialized, NotPrunedEarly, IndexInLockstep,
     BodylessRegistered, CursorIsLowerBound
<1>4. Idle \in Call /\ Idle.block = NoBlock /\ NoBlock # Genesis
  BY BlockTree DEF Idle, Call, ParentRef
<1>5. /\ calls' \in [Caller -> Call] /\ argon2id' \in {"cold", "ready", "failed"}
      /\ \A c \in Caller :
           \/ calls'[c].block = calls[c].block
           \/ calls'[c].block = NoBlock
           \/ /\ calls'[c].block \in Block \ {Genesis}
              /\ Parent[calls'[c].block] \in known
  <2>1. ASSUME NEW c \in Caller, NEW b \in Block \ {Genesis}, StartAdd(c, b)
        PROVE  <1>5!:
    <3>1. [block |-> b, parent |-> "live"] \in Call
      BY DEF Call, ParentRef
    <3> QED BY <2>1, <3>1 DEF StartAdd, IInv, TypeOK
  <2>2. CASE Argon2idReady
    BY <2>2 DEF Argon2idReady, IInv, TypeOK
  <2>3. CASE Argon2idFails
    BY <1>4, <2>3 DEF Argon2idFails, IInv, TypeOK
  <2>4. ASSUME NEW c \in Caller, FinishReject(c)
        PROVE  <1>5!:
    BY <1>4, <2>4 DEF FinishReject, IInv, TypeOK
  <2> QED BY <2>1, <2>2, <2>3, <2>4
<1>6. TypeOK'
  BY <1>1, <1>5 DEF IInv, TypeOK, chainVars
<1>7. CallsWellFormed'
  BY <1>1, <1>4, <1>5 DEF IInv, CallsWellFormed, Waiting, chainVars
<1> QED BY <1>3, <1>6, <1>7 DEF IInv

(* A suspended addBlock stores its block.                                  *)
LEMMA FinishInsertPreserves ==
  ASSUME IInv, NEW c \in Caller, FinishInsert(c)
  PROVE  IInv'
<1> DEFINE b == calls[c].block
           D == Detach({b} \cap known)
<1>1. /\ b # NoBlock /\ Insert(b) /\ calls' = [D EXCEPT ![c] = Idle]
      /\ late' \in {late, late \cup {b}}
      /\ UNCHANGED <<argon2id, fast, fastDone, resets>>
  BY DEF FinishInsert, Waiting
<1>2. Idle \in Call /\ Idle.block = NoBlock /\ NoBlock # Genesis
  BY BlockTree DEF Idle, Call, ParentRef
<1>3. TypeOK /\ CallsWellFormed
  BY DEF IInv
<1>4. D \in [Caller -> Call] /\ \A d \in Caller : D[d].block = calls[d].block
  BY <1>3, DetachKeepsBlocks
<1>5. b \in Block \ {Genesis} /\ (resets = 0 => Parent[b] \in known)
  <2>1. b \in Block \cup {NoBlock}
    BY <1>3 DEF TypeOK, Call
  <2> QED BY <1>1, <1>3, <2>1 DEF CallsWellFormed, Waiting
<1> HIDE DEF b, D
<1>6. /\ known' \subseteq Block /\ mat' \subseteq known' /\ full' \subseteq known'
      /\ tip' \in known' /\ indexed' \subseteq Block /\ view' \subseteq Block
      /\ bodyless' \subseteq Block /\ pruneFloor' \in Nat /\ bodylessLow' \in Nat
      /\ Genesis \in known' /\ known \subseteq known'
      /\ FreshUntilSeeded' /\ HeaderOnlyOnChain' /\ ReachesGenesis'
      /\ TipIsHeaviest' /\ TipMaterialized' /\ NotPrunedEarly'
      /\ IndexInLockstep' /\ BodylessRegistered' /\ CursorIsLowerBound'
  BY <1>1, <1>5, InsertPreserves
<1>7. /\ calls' \in [Caller -> Call]
      /\ \A d \in Caller : calls'[d].block \in {calls[d].block, NoBlock}
  BY <1>1, <1>2, <1>4
<1>8. TypeOK'
  BY <1>1, <1>3, <1>5, <1>6, <1>7 DEF TypeOK
<1>9. CallsWellFormed'
  BY <1>1, <1>2, <1>3, <1>6, <1>7 DEF CallsWellFormed, Waiting
<1> QED BY <1>6, <1>8, <1>9 DEF IInv

(* A block added in one run of the event loop.                             *)
LEMMA AddNowPreserves ==
  ASSUME IInv, NEW b \in Block \ {Genesis}, AddNow(b)
  PROVE  IInv'
<1>1. /\ Insert(b) /\ Parent[b] \in known
      /\ UNCHANGED <<argon2id, calls, late, fast, fastDone, resets>>
  BY DEF AddNow, powVars
<1>2. TypeOK /\ CallsWellFormed
  BY DEF IInv
<1>3. /\ known' \subseteq Block /\ mat' \subseteq known' /\ full' \subseteq known'
      /\ tip' \in known' /\ indexed' \subseteq Block /\ view' \subseteq Block
      /\ bodyless' \subseteq Block /\ pruneFloor' \in Nat /\ bodylessLow' \in Nat
      /\ Genesis \in known' /\ known \subseteq known'
      /\ FreshUntilSeeded' /\ HeaderOnlyOnChain' /\ ReachesGenesis'
      /\ TipIsHeaviest' /\ TipMaterialized' /\ NotPrunedEarly'
      /\ IndexInLockstep' /\ BodylessRegistered' /\ CursorIsLowerBound'
  BY <1>1, InsertPreserves
<1>4. TypeOK' /\ CallsWellFormed'
  BY <1>1, <1>2, <1>3 DEF TypeOK, CallsWellFormed, Waiting
<1> QED BY <1>3, <1>4 DEF IInv

(* A fast sync starting, or given up.                                      *)
LEMMA FastSyncControlPreserves ==
  ASSUME IInv, (\E a \in Anchors : FastSyncStart(a)) \/ FastSyncFail
  PROVE  IInv'
<1>1. /\ UNCHANGED <<chainVars, argon2id, calls, late, resets>>
      /\ fast' \in Block \cup {NoBlock} /\ fastDone' \in BOOLEAN
      /\ fast' # NoBlock => ~fastDone'
      /\ ~fastDone' => ~fastDone
  BY BlockchainConstants DEF FastSyncStart, FastSyncFail, powVars, IInv, TypeOK,
     FreshUntilSeeded
<1>2. HeaderOnly' = HeaderOnly
  BY <1>1 DEF HeaderOnly, chainVars
<1>3. TypeOK'
  BY <1>1 DEF IInv, TypeOK, chainVars
<1>4. HeaderOnlyOnChain' /\ ReachesGenesis' /\ TipIsHeaviest'
      /\ TipMaterialized' /\ NotPrunedEarly' /\ IndexInLockstep'
      /\ BodylessRegistered' /\ CursorIsLowerBound' /\ (Genesis \in known)'
      /\ CallsWellFormed'
  BY <1>1, <1>2 DEF IInv, chainVars, HeaderOnlyOnChain, ReachesGenesis,
     TipIsHeaviest, TipMaterialized, NotPrunedEarly, IndexInLockstep,
     BodylessRegistered, CursorIsLowerBound, CallsWellFormed, Waiting
<1>5. FreshUntilSeeded'
  BY <1>1 DEF IInv, FreshUntilSeeded, chainVars
<1> QED BY <1>3, <1>4, <1>5 DEF IInv

(* The seeding of a fast sync: the one step that registers header-only     *)
(* entries and moves the tip without comparing work.                       *)
LEMMA FastSyncSeedPreserves ==
  ASSUME IInv, FastSyncSeed
  PROVE  IInv'
<1>1. /\ fast # NoBlock
      /\ known' = known \cup ToSeed /\ mat' = mat \cup AnchorState
      /\ indexed' = indexed \cup ToSeed
      /\ bodyless' = { x \in bodyless : \A y \in ToSeed : Height[y] # Height[x] }
                       \cup ToSeed
      /\ bodylessLow' = LowAfterSeeding(ToSeed)
      /\ tip' = IF fast \in ToSeed THEN fast ELSE tip
      /\ fast' = NoBlock /\ fastDone' = TRUE
      /\ late' \in {late, late \cup AnchorState}
      /\ UNCHANGED <<full, pruneFloor, view, argon2id, calls, resets>>
  BY DEF FastSyncSeed
<1>2. TypeOK /\ Genesis \in known /\ CallsWellFormed
  BY DEF IInv
<1>3. ~fastDone /\ bodyless = {} /\ known = full
  BY <1>1 DEF IInv, FreshUntilSeeded
<1>4. fast \in Block
  BY <1>1, <1>2 DEF TypeOK
<1>5. ToSeed \subseteq Ancestors[fast] /\ ToSeed \subseteq Block \ {Genesis}
  BY <1>2, <1>4, TreeFacts DEF ToSeed
<1>6. bodyless' = ToSeed /\ HeaderOnly' = ToSeed
  BY <1>1, <1>3 DEF HeaderOnly, ToSeed
<1>7. /\ bodylessLow' \in Nat
      /\ \A b \in ToSeed : bodylessLow' <= Height[b] /\ bodylessLow' > 0
  <2>1. CASE ToSeed = {}
    BY <1>1, <1>2, <2>1 DEF LowAfterSeeding, TypeOK
  <2>2. CASE ToSeed # {}
    <3>1. /\ LowestHeight(ToSeed) \in Nat
          /\ \E b \in ToSeed : LowestHeight(ToSeed) = Height[b]
          /\ \A b \in ToSeed : LowestHeight(ToSeed) <= Height[b]
      BY <1>5, <2>2, LowestHeightIsLeast
    <3>2. \A b \in ToSeed : Height[b] > 0 /\ Height[b] \in Nat
      BY <1>5, TreeFacts, BlockTree
    <3>3. LowestHeight(ToSeed) > 0
      BY <3>1, <3>2
    <3>4. bodylessLow' =
            IF bodylessLow = 0 \/ LowestHeight(ToSeed) < bodylessLow
            THEN LowestHeight(ToSeed) ELSE bodylessLow
      BY <1>1, <2>2 DEF LowAfterSeeding
    <3>5. bodylessLow \in Nat
      BY <1>2 DEF TypeOK
    <3> QED BY <3>1, <3>2, <3>3, <3>4, <3>5
  <2> QED BY <2>1, <2>2
<1>8. TypeOK'
  BY <1>1, <1>2, <1>4, <1>5, <1>6, <1>7 DEF TypeOK, AnchorState
<1>9. CallsWellFormed'
  BY <1>1, <1>2 DEF CallsWellFormed, Waiting
<1>10. FreshUntilSeeded'
  BY <1>1 DEF FreshUntilSeeded
<1>11. HeaderOnlyOnChain'
  BY <1>4, <1>5, <1>6, BlockTree DEF HeaderOnlyOnChain
<1>12. ReachesGenesis'
  <2> SUFFICES ASSUME resets' = 0, NEW x \in known'
               PROVE  Ancestors[x] \subseteq known'
    BY DEF ReachesGenesis
  <2>1. CASE x \in known
    BY <1>1, <2>1 DEF IInv, ReachesGenesis
  <2>2. CASE x \in ToSeed
    <3>1. Ancestors[x] \subseteq Ancestors[fast]
      BY <1>4, <1>5, <2>2, BlockTree
    <3>2. Ancestors[fast] \subseteq known'
      BY <1>1 DEF ToSeed
    <3> QED BY <3>1, <3>2
  <2> QED BY <1>1, <2>1, <2>2
<1>13. TipMaterialized'
  BY <1>1 DEF IInv, TipMaterialized, AnchorState
<1>14. TipIsHeaviest' /\ NotPrunedEarly' /\ IndexInLockstep'
  BY <1>1 DEF TipIsHeaviest, NotPrunedEarly, IndexInLockstep
<1>15. BodylessRegistered' /\ CursorIsLowerBound'
  BY <1>6, <1>7 DEF BodylessRegistered, CursorIsLowerBound
<1>16. Genesis \in known'
  BY <1>1, <1>2
<1> QED BY <1>8, <1>9, <1>10, <1>11, <1>12, <1>13, <1>14, <1>15, <1>16 DEF IInv

(* A body arrives for a header-only entry: it is taken off the register,   *)
(* and with it no other one, for there is one entry per height.            *)
LEMMA AttachBodyPreserves ==
  ASSUME IInv, NEW b \in Block, AttachBody(b)
  PROVE  IInv'
<1>1. /\ b \in HeaderOnly /\ full' = full \cup {b} /\ bodyless' = Cleared(b)
      /\ UNCHANGED <<known, mat, tip, indexed, pruneFloor, bodylessLow, view,
                     argon2id, calls, late, fast, fastDone, resets>>
  BY DEF AttachBody, powVars
<1>2. HeaderOnly' = HeaderOnly \ {b}
  BY <1>1 DEF HeaderOnly
<1>3. TypeOK'
  BY <1>1 DEF IInv, TypeOK, HeaderOnly, Cleared
<1>4. fastDone
  BY <1>1 DEF IInv, FreshUntilSeeded, HeaderOnly
<1>5. CallsWellFormed' /\ FreshUntilSeeded' /\ ReachesGenesis' /\ TipIsHeaviest'
      /\ TipMaterialized' /\ NotPrunedEarly' /\ IndexInLockstep'
      /\ (Genesis \in known)'
  BY <1>1, <1>4 DEF IInv, CallsWellFormed, Waiting, FreshUntilSeeded, ReachesGenesis,
     TipIsHeaviest, TipMaterialized, NotPrunedEarly, IndexInLockstep
<1>6. HeaderOnlyOnChain'
  BY <1>2 DEF IInv, HeaderOnlyOnChain
<1>7. BodylessRegistered'
  BY <1>1, <1>2 DEF IInv, BodylessRegistered, HeaderOnlyOnChain, Cleared
<1>8. CursorIsLowerBound'
  BY <1>1 DEF IInv, CursorIsLowerBound, Cleared
<1> QED BY <1>3, <1>5, <1>6, <1>7, <1>8 DEF IInv

(* lowestBodylessHeight moves its cursor and nothing else.                 *)
LEMMA QueryLowestPreserves ==
  ASSUME IInv, QueryLowest
  PROVE  IInv'
<1>1. /\ bodylessLow' = LowestBodyless
      /\ UNCHANGED <<known, mat, full, tip, indexed, pruneFloor, bodyless, view,
                     argon2id, calls, late, fast, fastDone, resets>>
  BY DEF QueryLowest, powVars
<1>2. bodylessLow' \in Nat /\ CursorIsLowerBound'
  <2>1. CASE bodyless = {}
    BY <1>1, <2>1 DEF LowestBodyless, CursorIsLowerBound
  <2>2. CASE bodyless # {}
    <3>1. /\ bodyless \subseteq Block /\ bodylessLow \in Nat
          /\ \A b \in bodyless : bodylessLow <= Height[b] /\ bodylessLow > 0
      BY DEF IInv, TypeOK, CursorIsLowerBound
    <3>2. { b \in bodyless : Height[b] >= bodylessLow } = bodyless
      BY <3>1, BlockTree
    <3>3. LowestBodyless = LowestHeight(bodyless)
      BY <2>2, <3>2 DEF LowestBodyless
    <3>4. /\ LowestHeight(bodyless) \in Nat
          /\ \E b \in bodyless : LowestHeight(bodyless) = Height[b]
          /\ \A b \in bodyless : LowestHeight(bodyless) <= Height[b]
      BY <2>2, <3>1, LowestHeightIsLeast
    <3>5. LowestHeight(bodyless) > 0
      BY <3>1, <3>4
    <3> QED BY <1>1, <3>3, <3>4, <3>5 DEF CursorIsLowerBound
  <2> QED BY <2>1, <2>2
<1>3. HeaderOnly' = HeaderOnly
  BY <1>1 DEF HeaderOnly
<1>4. TypeOK'
  BY <1>1, <1>2 DEF IInv, TypeOK
<1>5. CallsWellFormed' /\ FreshUntilSeeded' /\ ReachesGenesis' /\ TipIsHeaviest'
      /\ TipMaterialized' /\ NotPrunedEarly' /\ IndexInLockstep'
      /\ HeaderOnlyOnChain' /\ BodylessRegistered' /\ (Genesis \in known)'
  BY <1>1, <1>3 DEF IInv, CallsWellFormed, Waiting, FreshUntilSeeded, ReachesGenesis,
     TipIsHeaviest, TipMaterialized, NotPrunedEarly, IndexInLockstep,
     HeaderOnlyOnChain, BodylessRegistered
<1> QED BY <1>2, <1>4, <1>5 DEF IInv

(* A rebuilt index is the folded one.                                      *)
LEMMA RebuildIndexPreserves ==
  ASSUME IInv, RebuildIndex
  PROVE  IInv'
<1>1. /\ view' = (Canonical \cap full) \ {Genesis}
      /\ UNCHANGED <<known, mat, full, tip, indexed, pruneFloor, bodyless,
                     bodylessLow, argon2id, calls, late, fast, fastDone, resets>>
  BY DEF RebuildIndex, powVars
<1>2. TypeOK'
  BY <1>1 DEF IInv, TypeOK
<1>3. IndexInLockstep'
  <2> SUFFICES ASSUME ~fastDone
               PROVE  view' = Ancestors[tip] \ {Genesis}
    BY <1>1 DEF IndexInLockstep
  <2>1. known = full /\ Ancestors[tip] \subseteq known
    BY DEF IInv, FreshUntilSeeded, ReachesGenesis, TypeOK
  <2>2. Canonical = Ancestors[tip]
    BY <2>1 DEF Canonical
  <2> QED BY <1>1, <2>1, <2>2
<1>4. HeaderOnly' = HeaderOnly
  BY <1>1 DEF HeaderOnly
<1>5. CallsWellFormed' /\ FreshUntilSeeded' /\ ReachesGenesis' /\ TipIsHeaviest'
      /\ TipMaterialized' /\ NotPrunedEarly' /\ CursorIsLowerBound'
      /\ HeaderOnlyOnChain' /\ BodylessRegistered' /\ (Genesis \in known)'
  BY <1>1, <1>4 DEF IInv, CallsWellFormed, Waiting, FreshUntilSeeded, ReachesGenesis,
     TipIsHeaviest, TipMaterialized, NotPrunedEarly, CursorIsLowerBound,
     HeaderOnlyOnChain, BodylessRegistered
<1> QED BY <1>2, <1>3, <1>5 DEF IInv

(* discardChainAndResync: only after a seeding, so nothing that is claimed *)
(* before one comes back into force.                                       *)
LEMMA ResetPreserves ==
  ASSUME IInv, Reset
  PROVE  IInv'
<1>1. /\ bodyless # {} /\ resets < MaxResets /\ resets' = resets + 1
      /\ known' = {Genesis} /\ mat' = {Genesis} /\ full' = {Genesis}
      /\ tip' = Genesis /\ indexed' = {Genesis} /\ pruneFloor' = 0
      /\ bodyless' = {} /\ bodylessLow' = 0 /\ calls' = Detach(known)
      /\ UNCHANGED <<view, argon2id, late, fast, fastDone>>
  BY DEF Reset
<1>2. fastDone /\ TypeOK
  BY <1>1 DEF IInv, FreshUntilSeeded
<1>3. resets' \in 0..MaxResets /\ resets' # 0
  BY <1>1, <1>2, BlockchainConstants DEF TypeOK
<1>4. /\ calls' \in [Caller -> Call]
      /\ \A c \in Caller : calls'[c].block = calls[c].block
  BY <1>1, <1>2, DetachKeepsBlocks
<1>5. Genesis \in Block
  BY BlockTree
<1>6. TypeOK'
  BY <1>1, <1>2, <1>3, <1>4, <1>5 DEF TypeOK
<1>7. CallsWellFormed'
  BY <1>3, <1>4 DEF IInv, CallsWellFormed
<1>8. FreshUntilSeeded'
  BY <1>1, <1>2 DEF IInv, FreshUntilSeeded
<1>9. HeaderOnly' = {}
  BY <1>1 DEF HeaderOnly
<1>10. ReachesGenesis' /\ TipIsHeaviest' /\ TipMaterialized' /\ NotPrunedEarly'
       /\ IndexInLockstep' /\ CursorIsLowerBound' /\ HeaderOnlyOnChain'
       /\ BodylessRegistered' /\ (Genesis \in known)'
  BY <1>1, <1>2, <1>3, <1>9 DEF ReachesGenesis, TipIsHeaviest, TipMaterialized,
     NotPrunedEarly, IndexInLockstep, CursorIsLowerBound, HeaderOnlyOnChain,
     BodylessRegistered
<1> QED BY <1>6, <1>7, <1>8, <1>10 DEF IInv

-----------------------------------------------------------------------------
(* The pruner's books. What it may still have to prune it finds in a       *)
(* bucket: byHeight loses no block at or above the floor.                  *)
PrunableIndexed == \A b \in mat : Height[b] >= pruneFloor => b \in indexed

FloorInv == StateBounded /\ PrunableIndexed

(* Above a parent with a state, a block lies above the floor too, or on    *)
(* what StateBounded excepts; then storing it keeps the books.             *)
LEMMA InsertKeepsFloor ==
  ASSUME TypeOK, FloorInv, NEW b \in Block \ {Genesis}, Insert(b),
         late \subseteq late', Parent[b] \in mat \/ b \in late'
  PROVE  FloorInv'
<1> DEFINE floor == IF TakesTip(b) THEN FloorFor(b) ELSE pruneFloor
           buckets == indexed \cup {b}
           pruned == PrunedUpTo(floor, buckets)
<1>1. /\ mat' = (mat \cup {b}) \ pruned
      /\ indexed' = buckets \ pruned /\ pruneFloor' = floor
  BY DEF Insert
<1>2. /\ mat \subseteq Block /\ pruneFloor \in Nat
      /\ \A x \in Block : Height[x] \in Nat
      /\ Height[b] = Height[Parent[b]] + 1
      /\ b \in Ancestors[b] /\ (Parent[b] \in Block => Ancestors[Parent[b]] \subseteq Ancestors[b])
  BY BlockTree, TreeFacts DEF TypeOK
<1>3. /\ floor \in Nat /\ floor >= pruneFloor
      /\ floor = pruneFloor \/ floor <= Height[b]
  BY <1>2, BlockchainConstants DEF FloorFor
<1>4. Height[b] >= pruneFloor \/ Ancestors[b] \cap late' # {}
  <2>1. CASE Parent[b] \in mat
    <3>1. Height[Parent[b]] >= pruneFloor \/ Ancestors[Parent[b]] \cap late # {}
      BY <2>1 DEF FloorInv, StateBounded
    <3> QED BY <1>2, <2>1, <3>1
  <2>2. CASE b \in late'
    BY <1>2, <2>2
  <2> QED BY <2>1, <2>2
<1>5. \A x \in buckets : x \in pruned <=> Height[x] >= pruneFloor /\ Height[x] < floor
  BY DEF PrunedUpTo
<1> HIDE DEF floor, pruned
<1>6. ASSUME NEW x \in mat'
      PROVE  /\ Height[x] >= pruneFloor' \/ Ancestors[x] \cap late' # {}
             /\ Height[x] >= pruneFloor' => x \in indexed'
  <2>1. x \in mat \cup {b} /\ x \notin pruned /\ x \in Block
    BY <1>1, <1>2
  <2>2. Height[x] \in Nat
    BY <1>2, <2>1
  <2>3. Height[x] >= pruneFloor => x \in buckets
    BY <2>1 DEF FloorInv, PrunableIndexed
  <2>4. Height[x] >= pruneFloor => Height[x] >= floor
    BY <1>2, <1>3, <1>5, <2>1, <2>2, <2>3
  <2>5. Height[x] >= pruneFloor \/ Ancestors[x] \cap late' # {}
    BY <1>4, <2>1 DEF FloorInv, StateBounded
  <2> QED BY <1>1, <1>2, <1>3, <2>1, <2>2, <2>3, <2>4, <2>5
<1> QED BY <1>6 DEF FloorInv, StateBounded, PrunableIndexed

LEMMA NextKeepsFloor == IInv /\ FloorInv /\ [Next]_vars => FloorInv'
<1> SUFFICES ASSUME IInv, FloorInv, [Next]_vars PROVE FloorInv'
  OBVIOUS
<1>1. TypeOK /\ CallsWellFormed
  BY DEF IInv
<1>2. CASE \E c \in Caller : FinishInsert(c)
  <2>1. PICK c \in Caller : FinishInsert(c)
    BY <1>2
  <2> DEFINE b == calls[c].block
  <2>2. /\ Insert(b) /\ b # NoBlock /\ ParentHasState(calls[c])
        /\ late' = IF calls[c].parent = "held" THEN late \cup {b} ELSE late
    BY <2>1 DEF FinishInsert, Waiting
  <2>3. b \in Block \ {Genesis}
    BY <1>1, <2>2 DEF TypeOK, Call, CallsWellFormed
  <2>4. late \subseteq late' /\ (Parent[b] \in mat \/ b \in late')
    BY <2>2 DEF ParentHasState
  <2> QED BY <1>1, <2>2, <2>3, <2>4, InsertKeepsFloor
<1>3. CASE \E b \in Block \ {Genesis} : AddNow(b)
  BY <1>1, <1>3, InsertKeepsFloor DEF AddNow, powVars
<1>4. CASE FastSyncSeed
  <2>1. /\ mat' = mat \cup AnchorState /\ indexed' = indexed \cup ToSeed
        /\ pruneFloor' = pruneFloor
        /\ late' = IF Height[fast] < pruneFloor THEN late \cup AnchorState ELSE late
        /\ fast # NoBlock
    BY <1>4 DEF FastSyncSeed
  <2>2. fast \in Block /\ Height[fast] \in Nat /\ pruneFloor \in Nat /\ fast \in Ancestors[fast]
    BY <1>1, <2>1, BlockTree, TreeFacts DEF TypeOK
  <2>3. \A x \in AnchorState : x = fast /\ x \in ToSeed
    BY DEF AnchorState
  <2>4. ASSUME NEW x \in mat'
        PROVE  /\ Height[x] >= pruneFloor' \/ Ancestors[x] \cap late' # {}
               /\ Height[x] >= pruneFloor' => x \in indexed'
    <3>1. CASE x \in mat
      BY <2>1, <3>1 DEF FloorInv, StateBounded, PrunableIndexed
    <3>2. CASE x \in AnchorState
      BY <2>1, <2>2, <2>3, <3>2
    <3> QED BY <2>1, <3>1, <3>2
  <2> QED BY <2>4 DEF FloorInv, StateBounded, PrunableIndexed
<1>5. CASE Reset
  <2>1. mat' = {Genesis} /\ indexed' = {Genesis} /\ pruneFloor' = 0 /\ Height[Genesis] = 0
    BY <1>5, BlockTree DEF Reset
  <2> QED BY <2>1 DEF FloorInv, StateBounded, PrunableIndexed
<1>6. CASE UNCHANGED <<mat, indexed, pruneFloor, late>>
  BY <1>6 DEF FloorInv, StateBounded, PrunableIndexed
<1> QED BY <1>2, <1>3, <1>4, <1>5, <1>6 DEF Next, StartAdd, Argon2idReady, Argon2idFails,
     FinishReject, FastSyncStart, FastSyncFail, AttachBody, QueryLowest, RebuildIndex,
     vars, chainVars, powVars

-----------------------------------------------------------------------------
LEMMA InitEstablishes == Init => IInv
<1> SUFFICES ASSUME Init PROVE IInv
  OBVIOUS
<1>1. Genesis \in Block /\ Ancestors[Genesis] = {Genesis} /\ NoBlock # Genesis
      /\ Idle \in Call /\ Idle.block = NoBlock /\ MaxResets \in Nat
  BY BlockTree, BlockchainConstants DEF Idle, Call, ParentRef
<1>2. HeaderOnly = {}
  BY DEF Init, HeaderOnly
<1>3. TypeOK
  <2>1. calls \in [Caller -> Call]
    BY <1>1 DEF Init
  <2>2. resets \in 0..MaxResets
    BY <1>1 DEF Init
  <2> QED BY <1>1, <2>1, <2>2 DEF Init, TypeOK
<1>4. CallsWellFormed /\ FreshUntilSeeded /\ HeaderOnlyOnChain
  BY <1>1, <1>2 DEF Init, CallsWellFormed, Waiting, FreshUntilSeeded, HeaderOnlyOnChain
<1>5. ReachesGenesis /\ TipMaterialized /\ NotPrunedEarly /\ IndexInLockstep
      /\ BodylessRegistered /\ CursorIsLowerBound /\ Genesis \in known
  BY <1>1, <1>2 DEF Init, ReachesGenesis, TipMaterialized, NotPrunedEarly,
     IndexInLockstep, BodylessRegistered, CursorIsLowerBound
<1>6. TipIsHeaviest
  BY <1>1, BlockTree DEF Init, TipIsHeaviest
<1> QED BY <1>3, <1>4, <1>5, <1>6 DEF IInv

LEMMA NextPreserves == IInv /\ [Next]_vars => IInv'
<1> SUFFICES ASSUME IInv, [Next]_vars PROVE IInv'
  OBVIOUS
<1>1. CASE \/ \E c \in Caller, b \in Block \ {Genesis} : StartAdd(c, b)
           \/ Argon2idReady
           \/ Argon2idFails
           \/ \E c \in Caller : FinishReject(c)
  BY <1>1, CallStepsPreserve
<1>2. CASE \E c \in Caller : FinishInsert(c)
  BY <1>2, FinishInsertPreserves
<1>3. CASE \E b \in Block \ {Genesis} : AddNow(b)
  BY <1>3, AddNowPreserves
<1>4. CASE (\E a \in Anchors : FastSyncStart(a)) \/ FastSyncFail
  BY <1>4, FastSyncControlPreserves
<1>5. CASE FastSyncSeed
  BY <1>5, FastSyncSeedPreserves
<1>6. CASE \E b \in Block : AttachBody(b)
  BY <1>6, AttachBodyPreserves
<1>7. CASE QueryLowest
  BY <1>7, QueryLowestPreserves
<1>8. CASE RebuildIndex
  BY <1>8, RebuildIndexPreserves
<1>9. CASE Reset
  BY <1>9, ResetPreserves
<1>10. CASE UNCHANGED vars
  <2>1. HeaderOnly' = HeaderOnly
    BY <1>10 DEF vars, chainVars, HeaderOnly
  <2> QED
    BY <1>10, <2>1 DEF vars, chainVars, powVars, IInv, TypeOK, CallsWellFormed, Waiting,
       FreshUntilSeeded, HeaderOnlyOnChain, ReachesGenesis, TipIsHeaviest,
       TipMaterialized, NotPrunedEarly, IndexInLockstep, BodylessRegistered,
       CursorIsLowerBound
<1> QED BY <1>1, <1>2, <1>3, <1>4, <1>5, <1>6, <1>7, <1>8, <1>9, <1>10 DEF Next

(* The strengthening is an invariant of the block tree.                    *)
THEOREM Inductive == Spec => []IInv
<1>1. Init => IInv
  BY InitEstablishes
<1>2. IInv /\ [Next]_vars => IInv'
  BY NextPreserves
<1> QED BY <1>1, <1>2, PTL DEF Spec

(* The state has the shape TypeScript gives it.                            *)
THEOREM TypeCorrect == Spec => []TypeOK
BY Inductive, PTL DEF IInv

(* Whatever order blocks arrive in and whichever calls are suspended, the  *)
(* chain stays closed under prevHash and the tip has the most work.        *)
THEOREM ForkChoice == Spec => []HeaviestChain
<1>1. IInv => HeaviestChain
  BY DEF IInv, HeaviestChain
<1> QED BY Inductive, <1>1, PTL

(* Pruning never takes the state an operation of the chain still needs,    *)
(* and leaves none behind but those StateBounded names.                    *)
THEOREM StatesKept == Spec => []StateAtHand
<1>1. Init => FloorInv
  <2> SUFFICES ASSUME Init PROVE FloorInv
    OBVIOUS
  <2>1. Height[Genesis] = 0
    BY BlockTree
  <2> QED BY <2>1 DEF Init, FloorInv, StateBounded, PrunableIndexed
<1>2. IInv /\ IInv' /\ FloorInv /\ [Next]_vars => FloorInv'
  BY NextKeepsFloor
<1>3. IInv /\ FloorInv => StateAtHand
  BY DEF IInv, FloorInv, StateAtHand
<1> QED BY Inductive, <1>1, <1>2, <1>3, PTL DEF Spec

(* The fold of the reorg deltas is the canonical chain.                    *)
THEOREM IndexFollowsTip == Spec => []IndexInLockstep
<1>1. IInv => IndexInLockstep
  BY DEF IInv
<1> QED BY Inductive, <1>1, PTL

(* The backfill finds every header-only entry, and its scan terminates.    *)
THEOREM BackfillRegister == Spec => []RegisterSound
<1>1. IInv => RegisterSound
  BY DEF IInv, RegisterSound
<1> QED BY Inductive, <1>1, PTL
=============================================================================
