----------------------------- MODULE HelperServer -----------------------------
(***************************************************************************)
(* The chain side of the helper servers (src/server/api.ts): each admits   *)
(* the blocks it is posted, parks those whose parent it lacks, and serves  *)
(* a window of its canonical chain. Its Blockchain is the tree of blocks   *)
(* it holds and a tip; MAX_ORPHANS is out of reach of so few blocks.       *)
(***************************************************************************)
EXTENDS ChainTree, SequencesExt

CONSTANTS
  Server,       \* the configured API servers
  StartTips     \* the tips the servers may have when the node starts

ASSUME HelperServerConstants == StartTips \subseteq Block

VARIABLES
  held,         \* held[s]: the blocks in s's chain.blocks
  srvTip,       \* srvTip[s]: s's canonical tip
  orphans       \* orphans[s]: the parked blocks, one per missing parent

srvVars == <<held, srvTip, orphans>>

ServerTypeOK ==
  /\ held \in [Server -> SUBSET Block]
  /\ srvTip \in [Server -> Block]
  /\ orphans \in [Server -> SUBSET Block]

ServerInit ==
  /\ srvTip \in [Server -> StartTips]
  /\ held = [s \in Server |-> Ancestors[srvTip[s]]]
  /\ orphans = [s \in Server |-> {}]

-----------------------------------------------------------------------------
Orphaned(s, b) == b \notin held[s] /\ Parent[b] \notin held[s]

(* drainOrphans: the parked blocks that connect, link by link, above b.    *)
Drained(s, b) ==
  { x \in orphans[s] :
      b \in Ancestors[x] /\ Ancestors[x] \ Ancestors[b] \subseteq orphans[s] }

(* tryAdmitBlock of a block whose parent is there: what gets stored.       *)
Admitted(s, b) ==
  IF b \in held[s] \/ Orphaned(s, b) THEN {} ELSE {b} \cup Drained(s, b)

(* The blocks are added oldest first and the first of the heaviest wins.   *)
TipWith(t, new) ==
  IF \E b \in new : Work[b] > Work[t]
  THEN CHOOSE b \in new : \A x \in new : Work[x] <= Work[b]
  ELSE t

(* orphans.set(parentHex, b) replaces an orphan of the same parent.        *)
Parked(s, b) ==
  IF Orphaned(s, b)
  THEN { x \in orphans[s] : Parent[x] # Parent[b] } \cup {b}
  ELSE orphans[s] \ Admitted(s, b)

(* POST /block of b reaches the servers of R.                              *)
Post(R, b) ==
  /\ held' = [s \in Server |->
       IF s \in R THEN held[s] \cup Admitted(s, b) ELSE held[s]]
  /\ srvTip' = [s \in Server |->
       IF s \in R THEN TipWith(srvTip[s], Admitted(s, b)) ELSE srvTip[s]]
  /\ orphans' = [s \in Server |-> IF s \in R THEN Parked(s, b) ELSE orphans[s]]

(* Another client posts a block it has mined.                              *)
OtherPost(s, b) == b \notin held[s] /\ Parent[b] \in held[s] /\ Post({s}, b)

(* The blocks of t's chain from one height to another, oldest first.       *)
Chain(t, from, to) ==
  [i \in 1..(to - from + 1) |->
     CHOOSE b \in Ancestors[t] : Height[b] = from + i - 1]

(* GET /blocks: up to max canonical blocks from a height on.               *)
Window(s, from, max) ==
  Chain(srvTip[s], from, Min({Height[srvTip[s]], from + max - 1}))

(* GET /headers, page after page from height 1: the last of those it has   *)
(* up to a height.                                                         *)
Headers(s, to) == Last(Chain(srvTip[s], 0, Min({Height[srvTip[s]], to})))

(* GET /snapshot: a canonical block at least `depth` below the tip, for it *)
(* is not taken anew with every block; none before there is one.           *)
Snapshots(s, depth) ==
  { b \in Ancestors[srvTip[s]] \ {Genesis} : Height[b] + depth <= Height[srvTip[s]] }
=============================================================================
