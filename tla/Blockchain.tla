------------------------------ MODULE Blockchain ------------------------------
(***************************************************************************)
(* The in-memory block tree of src/chain/blockchain.ts.                    *)
(*                                                                         *)
(* Blocks are opaque: what a block contains is abstracted to its place in  *)
(* the tree of all blocks that could be received (Parent, Height, Work,    *)
(* Ancestors) and to the validation stage that rejects it, if one does.    *)
(* What is kept is the control of the class: the order of the checks, the  *)
(* `await checkPoW` between them, fork choice, the state pruner, the       *)
(* header-only entries of a fast sync, reset(), and the delta handed to    *)
(* the tip listeners.                                                      *)
(*                                                                         *)
(* One step is one run of the event loop. checkPoW gives the loop away     *)
(* only while the Argon2id module of this thread is being instantiated     *)
(* (pow.ts loadArgon2id): the Sandglass hash and every later Argon2id hash *)
(* are synchronous, so their await resumes before any other event.         *)
(***************************************************************************)
EXTENDS ChainTree

CONSTANTS
  BadHeader,    \* rejected before PoW: size, difficulty, timestamp, height
  BadPow,       \* rejected by checkPoW
  BadBody,      \* rejected after PoW: txRoot, tx structure, apply, stateRoot
  SlowPow,      \* Argon2id blocks: height < SANDGLASS_FORK_HEIGHT
  Caller,       \* concurrent addBlock() invocations (P2P message handlers)
  Retention,    \* stateRetentionDepth
  Anchors,      \* blocks a fast sync may anchor at
  MinBacklog,   \* how far above the tip an anchor is when a fast sync starts
  MaxResets     \* bound: discardChainAndResync calls in a behaviour

ASSUME BlockchainConstants ==
  /\ Genesis \notin BadHeader \cup BadPow \cup BadBody
  /\ Retention \in Nat /\ MinBacklog \in Nat /\ MaxResets \in Nat
  /\ Anchors \subseteq Block \ {Genesis}

VARIABLES
  known,        \* keys of `blocks`
  mat,          \* entries whose `state` is not null
  full,         \* entries with hasBody
  tip,          \* tipHash
  indexed,      \* blocks in some bucket of byHeight
  pruneFloor,   \* pruneFloor
  bodyless,     \* values of bodylessByHeight (one per height)
  bodylessLow,  \* bodylessLow
  argon2id,     \* argon2idPromise of the main thread
  calls,        \* the addBlock() invocations waiting for checkPoW
  fast,         \* the anchor a running attemptFastSync will seed
  fastDone,     \* ServerSync.fastSyncDone
  view,         \* blocks whose rows the ActivityIndex holds
  resets,       \* reset() calls so far
  late          \* history: see StateBounded

chainVars == <<known, mat, full, tip, indexed, pruneFloor, bodyless,
               bodylessLow, view>>
powVars == <<argon2id, calls, late>>
vars == <<chainVars, powVars, fast, fastDone, resets>>

-----------------------------------------------------------------------------
(* A suspended addBlock keeps the parent ENTRY it read before the await.   *)
(* "live": that object is still the map's entry, so its state is mat's.    *)
(* "held" / "gone": the map dropped or replaced the entry since; the       *)
(* captured object keeps the state (or the null) it had at that moment.    *)
ParentRef == {"live", "held", "gone"}
Idle == [block |-> NoBlock, parent |-> "live"]
Call == [block : Block \cup {NoBlock}, parent : ParentRef]

(* TypeScript's ChainBlock, Map and Set types, as sets and functions.      *)
TypeOK ==
  /\ known \subseteq Block /\ mat \subseteq known /\ full \subseteq known
  /\ tip \in known
  /\ indexed \subseteq Block /\ bodyless \subseteq Block /\ view \subseteq Block
  /\ pruneFloor \in Nat /\ bodylessLow \in Nat
  /\ argon2id \in {"cold", "ready", "failed"}
  /\ calls \in [Caller -> Call]
  /\ fast \in Block \cup {NoBlock} /\ fastDone \in BOOLEAN
  /\ resets \in 0..MaxResets /\ late \subseteq Block

(* initGenesis()                                                           *)
Init ==
  /\ known = {Genesis} /\ mat = {Genesis} /\ full = {Genesis}
  /\ tip = Genesis /\ indexed = {Genesis} /\ pruneFloor = 0
  /\ bodyless = {} /\ bodylessLow = 0
  /\ argon2id = "cold" /\ calls = [c \in Caller |-> Idle]
  /\ fast = NoBlock /\ fastDone = FALSE
  /\ view = {} /\ resets = 0 /\ late = {}

-----------------------------------------------------------------------------
Waiting(c) == calls[c].block # NoBlock

(* parent.state !== null, read through the captured entry.                 *)
ParentHasState(call) ==
  \/ call.parent = "held"
  \/ call.parent = "live" /\ Parent[call.block] \in mat

(* The calls after the map entries of S were dropped or replaced.          *)
Detach(S) ==
  [c \in Caller |->
     IF Waiting(c) /\ calls[c].parent = "live" /\ Parent[calls[c].block] \in S
     THEN [calls[c] EXCEPT !.parent =
             IF Parent[calls[c].block] \in mat THEN "held" ELSE "gone"]
     ELSE calls[c]]

(* reorgDelta: the blocks on `from`'s branch and not on `other`'s. Both    *)
(* cursors walk down in lockstep and stop where either one is not in       *)
(* `blocks`.                                                               *)
BranchAbove(from, other, blocks) ==
  { b \in Ancestors[from] \ Ancestors[other] :
      \A m \in (Ancestors[from] \cup Ancestors[other]) \ blocks :
        Height[m] < Height[b] }

(* Mutant: the rows of the disconnected blocks are not dropped.            *)
ApplyDeltaKeepsOld(old, new, blocks) == view \cup BranchAbove(new, old, blocks)

(* ActivityIndex.apply(delta) of a move of the tip from `old` to `new`.    *)
ApplyDelta(old, new, blocks) ==
  (view \ BranchAbove(old, new, blocks)) \cup BranchAbove(new, old, blocks)

(* pruneStates(): the floor only rises.                                    *)
FloorFor(t) ==
  IF Height[t] - Retention > pruneFloor THEN Height[t] - Retention ELSE pruneFloor

(* Mutant: the pruner also visits the bucket of the new floor.             *)
PrunedUpToInclusive(floor, buckets) ==
  { x \in buckets : Height[x] >= pruneFloor /\ Height[x] <= floor }

(* The blocks of the buckets pruneStates visits on its way to `floor`.     *)
PrunedUpTo(floor, buckets) ==
  { x \in buckets : Height[x] >= pruneFloor /\ Height[x] < floor }

(* Mutant: the longest branch wins, not the heaviest.                      *)
Longer(b) == Height[b] > Height[tip]

(* Fork choice: strictly more cumulative work, so the first seen wins ties. *)
TakesTip(b) == Work[b] > Work[tip]

(* The end of addBlockInternal: store the entry, move the tip when this    *)
(* branch is now strictly the heaviest, prune, fire the listeners.         *)
Insert(b) ==
  LET moves   == TakesTip(b)
      floor   == IF moves THEN FloorFor(b) ELSE pruneFloor
      buckets == indexed \cup {b}
      pruned  == PrunedUpTo(floor, buckets)
  IN /\ known' = known \cup {b}
     /\ full' = full \cup {b}
     /\ mat' = (mat \cup {b}) \ pruned
     /\ indexed' = buckets \ pruned
     /\ pruneFloor' = floor
     /\ tip' = IF moves THEN b ELSE tip
     /\ view' = IF moves THEN ApplyDelta(tip, b, known \cup {b}) ELSE view
     /\ UNCHANGED <<bodyless, bodylessLow>>

-----------------------------------------------------------------------------
(* addBlock of an Argon2id block up to the await, while the WASM module is *)
(* not there yet: not known, parent known, header valid. Every earlier     *)
(* return leaves the chain as it is.                                       *)
StartAdd(c, b) ==
  /\ argon2id = "cold" /\ b \in SlowPow /\ ~Waiting(c)
  /\ b \notin known /\ Parent[b] \in known /\ b \notin BadHeader
  /\ calls' = [calls EXCEPT ![c] = [block |-> b, parent |-> "live"]]
  /\ UNCHANGED <<chainVars, argon2id, late, fast, fastDone, resets>>

(* The suspended calls resume one after the other once the module is       *)
(* there, before the next event.                                           *)
Suspended == \E c \in Caller : Waiting(c)
Quiet == argon2id = "ready" => ~Suspended

Argon2idReady ==
  /\ argon2id = "cold" /\ Suspended
  /\ argon2id' = "ready"
  /\ UNCHANGED <<chainVars, calls, late, fast, fastDone, resets>>

(* WebAssembly.instantiate rejected: every waiting addBlock throws, and so *)
(* does every later one, for the rejected promise is what is cached.       *)
Argon2idFails ==
  /\ argon2id = "cold" /\ Suspended
  /\ argon2id' = "failed"
  /\ calls' = [c \in Caller |-> Idle]
  /\ UNCHANGED <<chainVars, late, fast, fastDone, resets>>

(* checkPoW resolved and the block is dropped: bad proof of work, parent   *)
(* state gone (the snapshotInvalidated listeners fire), or a bad body.     *)
FinishReject(c) ==
  /\ argon2id = "ready" /\ Waiting(c)
  /\ \/ calls[c].block \in BadPow \cup BadBody
     \/ ~ParentHasState(calls[c])
  /\ calls' = [calls EXCEPT ![c] = Idle]
  /\ UNCHANGED <<chainVars, argon2id, late, fast, fastDone, resets>>

(* checkPoW resolved and every later check passed. Nothing re-reads the    *)
(* map after the await: the block is stored whether or not it is there by  *)
(* now, replacing the entry that is.                                       *)
FinishInsert(c) ==
  LET b == calls[c].block
  IN /\ argon2id = "ready" /\ Waiting(c)
     /\ b \notin BadPow \cup BadBody /\ ParentHasState(calls[c])
     /\ Insert(b)
     /\ calls' = [Detach({b} \cap known) EXCEPT ![c] = Idle]
     /\ late' = IF calls[c].parent = "held" THEN late \cup {b} ELSE late
     /\ UNCHANGED <<argon2id, fast, fastDone, resets>>

(* The calls that run without giving the event loop away: addBlockWithPow  *)
(* (server pulls: the verdict came from the verifier pool), addValidated-  *)
(* Block (IndexedDB replay), and addBlock of a Sandglass block or with the *)
(* module already there.                                                   *)
AddNow(b) ==
  /\ Quiet
  /\ b \notin known /\ Parent[b] \in known
  /\ b \notin BadHeader \cup BadPow \cup BadBody
  /\ Parent[b] \in mat
  /\ Insert(b)
  /\ UNCHANGED <<powVars, fast, fastDone, resets>>

-----------------------------------------------------------------------------
(* syncOnce: a deep backlog and no fast sync yet this session.             *)
FastSyncStart(a) ==
  /\ Quiet /\ fast = NoBlock /\ ~fastDone
  /\ a \in Anchors /\ Height[a] - Height[tip] > MinBacklog
  /\ fast' = a
  /\ UNCHANGED <<chainVars, powVars, fastDone, resets>>

(* A failed attempt: a retryable one leaves fastSyncDone false, any other  *)
(* (or the last of FAST_SYNC_MAX_ATTEMPTS) sets it.                        *)
FastSyncFail ==
  /\ Quiet /\ fast # NoBlock
  /\ fast' = NoBlock /\ fastDone' \in BOOLEAN
  /\ UNCHANGED <<chainVars, powVars, resets>>

LowestHeight(S) ==
  CHOOSE h \in {Height[b] : b \in S} : \A b \in S : h <= Height[b]

(* What a seeding adds: the branch of the anchor; entries already present  *)
(* are no-ops.                                                             *)
ToSeed == Ancestors[fast] \ known

(* Only the anchor, when it is new, carries a state and takes the tip.     *)
AnchorState == {fast} \cap ToSeed

(* seedBodyless lowers the cursor to each height below it.                 *)
LowAfterSeeding(new) ==
  IF new = {} THEN bodylessLow
  ELSE IF bodylessLow = 0 \/ LowestHeight(new) < bodylessLow
  THEN LowestHeight(new) ELSE bodylessLow

(* Step 6 of attemptFastSync: seedHeader for every header below the        *)
(* anchor, height-ascending, then seedAnchor.                              *)
FastSyncSeed ==
  /\ Quiet /\ fast # NoBlock
  /\ known' = known \cup ToSeed
  /\ mat' = mat \cup AnchorState
  /\ indexed' = indexed \cup ToSeed
  /\ bodyless' = { x \in bodyless : \A y \in ToSeed : Height[y] # Height[x] }
                   \cup ToSeed
  /\ bodylessLow' = LowAfterSeeding(ToSeed)
  /\ tip' = IF fast \in ToSeed THEN fast ELSE tip
  /\ late' = IF Height[fast] < pruneFloor THEN late \cup AnchorState ELSE late
  /\ fast' = NoBlock /\ fastDone' = TRUE
  /\ UNCHANGED <<full, pruneFloor, view, argon2id, calls, resets>>

(* Mutant: attachBody does not check that the block is known.              *)
MissingAnywhere == Block \ full

(* What attachBody accepts: an entry that has no body yet.                 *)
HeaderOnly == known \ full

(* Mutant: a body clears every height up to its own.                       *)
ClearedBelow(b) == { x \in bodyless : Height[x] > Height[b] }

(* bodylessByHeight.delete(height)                                         *)
Cleared(b) == { x \in bodyless : Height[x] # Height[b] }

(* attachBody of a header-only entry.                                      *)
AttachBody(b) ==
  /\ Quiet /\ b \in HeaderOnly
  /\ full' = full \cup {b}
  /\ bodyless' = Cleared(b)
  /\ UNCHANGED <<known, mat, tip, indexed, pruneFloor, bodylessLow, view,
                 powVars, fast, fastDone, resets>>

(* lowestBodylessHeight(): advances the cached cursor to the next height   *)
(* that still misses a body.                                               *)
LowestBodyless ==
  IF bodyless = {} THEN 0
  ELSE LowestHeight({ b \in bodyless : Height[b] >= bodylessLow })

QueryLowest ==
  /\ Quiet
  /\ bodylessLow' = LowestBodyless
  /\ UNCHANGED <<known, mat, full, tip, indexed, pruneFloor, bodyless, view,
                 powVars, fast, fastDone, resets>>

(* iterateCanonical(): from the tip down to the first missing entry.       *)
Canonical ==
  { b \in Ancestors[tip] :
      \A m \in Ancestors[tip] \ known : Height[m] < Height[b] }

(* setWallet, or the backfill's onComplete: rebuild the index from the     *)
(* canonical blocks that have their bodies.                                *)
RebuildIndex ==
  /\ Quiet
  /\ view' = (Canonical \cap full) \ {Genesis}
  /\ UNCHANGED <<known, mat, full, tip, indexed, pruneFloor, bodyless,
                 bodylessLow, powVars, fast, fastDone, resets>>

(* discardChainAndResync(), which the backfill's onFatal calls about a     *)
(* seeded header: reset() drops every entry; the suspended calls keep the  *)
(* parent objects they captured. Nothing rebuilds the index.               *)
Reset ==
  /\ Quiet /\ resets < MaxResets /\ bodyless # {}
  /\ resets' = resets + 1
  /\ known' = {Genesis} /\ mat' = {Genesis} /\ full' = {Genesis}
  /\ tip' = Genesis /\ indexed' = {Genesis} /\ pruneFloor' = 0
  /\ bodyless' = {} /\ bodylessLow' = 0
  /\ calls' = Detach(known)
  /\ UNCHANGED <<view, argon2id, late, fast, fastDone>>

Next ==
  \/ \E c \in Caller, b \in Block \ {Genesis} : StartAdd(c, b)
  \/ Argon2idReady
  \/ Argon2idFails
  \/ \E c \in Caller : FinishReject(c)
  \/ \E c \in Caller : FinishInsert(c)
  \/ \E b \in Block \ {Genesis} : AddNow(b)
  \/ \E a \in Anchors : FastSyncStart(a)
  \/ FastSyncFail
  \/ FastSyncSeed
  \/ \E b \in Block : AttachBody(b)
  \/ QueryLowest
  \/ RebuildIndex
  \/ Reset

Spec == Init /\ [][Next]_vars

-----------------------------------------------------------------------------
(* Until a discardChainAndResync, every stored block's branch is stored    *)
(* down to the genesis: whatever walks prevHash from an entry (retarget    *)
(* window, MTP, reorgDelta, serving peers) never falls off the map.        *)
ReachesGenesis == resets = 0 => \A b \in known : Ancestors[b] \subseteq known

(* Fork choice over every order of arrival, suspended calls and rejected   *)
(* blocks: until a fast sync forces its anchor to be the tip, no stored    *)
(* branch is heavier than the tip.                                         *)
TipIsHeaviest == ~fastDone => \A b \in known : Work[b] <= Work[tip]

(* addBlock's choice of the tip, over every order of arrival and every     *)
(* suspended call: a chain closed under prevHash, headed by its heaviest   *)
(* block.                                                                  *)
HeaviestChain == ReachesGenesis /\ TipIsHeaviest

(* tipState never throws: no move of the tip (extension, reorg, forced     *)
(* anchor, reset) and no pruning pass leaves a tip without account state.  *)
TipMaterialized == tip \in mat

(* The pruner never outruns its floor: every validated block at or above   *)
(* it, on any branch, can still be extended. Holds across reorgs to a      *)
(* heavier but shorter branch, where the floor does not come back down.    *)
NotPrunedEarly ==
  ~fastDone => \A b \in known : Height[b] >= pruneFloor => b \in mat

(* No state survives below the floor, on any branch, with two exceptions   *)
(* and what is built on them (late): a block whose suspended call kept the *)
(* state of a parent entry that another call replaced, and an anchor that  *)
(* a fast sync seeds when the floor has passed it.                         *)
StateBounded ==
  \A b \in mat : Height[b] >= pruneFloor \/ Ancestors[b] \cap late # {}

(* What pruneStates keeps is what tipState and the next block on any open  *)
(* branch need, and no more.                                               *)
StateAtHand == TipMaterialized /\ NotPrunedEarly /\ StateBounded

(* Folding every ReorgDelta the tip listeners were handed gives the        *)
(* canonical chain, block for block ("lock-step with the canonical tip").  *)
IndexInLockstep == ~fastDone => view = Ancestors[tip] \ {Genesis}

(* Every header-only entry is registered for the backfill: no second entry *)
(* at its height took its place ("one entry per height").                  *)
BodylessRegistered == HeaderOnly \subseteq bodyless

(* The cached cursor of lowestBodylessHeight is a lower bound, or its      *)
(* `while (!has(low)) low++` would never return.                           *)
CursorIsLowerBound ==
  \A b \in bodyless : bodylessLow <= Height[b] /\ bodylessLow > 0

(* lowestBodylessHeight finds every body that is missing, in a scan that   *)
(* ends.                                                                   *)
RegisterSound == BodylessRegistered /\ CursorIsLowerBound

(* bodylessByHeight holds "entries whose tx bodies haven't been downloaded *)
(* yet" and is "emptied by attachBody as backfill progresses": no entry in *)
(* it has its body already, for attachBody would not remove that one.      *)
BodylessStillMissing == bodyless \cap full = {}

(* "A block below the prune floor can never be accepted again (its         *)
(* parent's state is gone)" (blockchain.ts:101). It takes a tree where a   *)
(* branch of little work is known up to a height at which one more block   *)
(* moves the floor past a block suspended on a replaced parent.            *)
FloorIsFinal == \A b \in mat : Height[b] >= pruneFloor
=============================================================================
