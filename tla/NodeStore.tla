------------------------------ MODULE NodeStore ------------------------------
(***************************************************************************)
(* What a browser tab keeps in IndexedDB and what a reload makes of it:    *)
(* the persistence half of src/node.ts with src/storage/idb.ts, the tail   *)
(* of a fast sync (src/net/fastSync.ts, steps 6 and 7) and the history     *)
(* backfill (src/net/backfill.ts).                                         *)
(*                                                                         *)
(* The node holds one of two chains that part at the genesis, with one     *)
(* block per height. The blocks of "forged" at the heights Forged have no  *)
(* proof of work: addBlock refuses them, the sampling of a fast sync may   *)
(* miss them. A write to a store is queued, is committed later and in      *)
(* order, and is lost when the page goes away before.                      *)
(***************************************************************************)
EXTENDS Integers, Sequences, FiniteSets, FiniteSetsExt

CONSTANTS
  Top,       \* the helpers' tip when a fast sync starts
  Limit,     \* bound: no block above this height
  Depth,     \* SNAPSHOT_DEPTH
  Backlog,   \* FAST_SYNC_MIN_BACKLOG
  BatchSize, \* BACKFILL_BATCH
  Forged,    \* the heights of "forged" without proof of work
  Budgets    \* bound: reloads, failed row writes, stale forks, verifier glitches

ASSUME StoreConstants ==
  /\ {Top, Limit, Depth, Backlog, BatchSize} \subseteq Nat \ {0}
  /\ Depth < Top /\ Depth <= Backlog /\ Top <= Limit /\ Forged \subseteq 1..(Top - Depth - 1)
  /\ Budgets \subseteq [reloads : Nat, fails : Nat, stales : Nat, glitches : Nat]

Chains == {"honest", "forged"}
Heights == 1..Limit
Anchor == Top - Depth
None == [c |-> "none", h |-> 0]
At(c, h) == [c |-> c, h |-> h]
Mark == {None} \cup [c : Chains, h : Heights]

VARIABLES
  disk,      \* chainVersion is this build's, block rows, headerChain, stateSnapshot
  rowq,      \* writes to the blocks store that are not committed
  metaq,     \* operations on the meta store that are not committed
  page,      \* "off", "clearing" (a store of another build), "on"
  mem,       \* the chain in memory; states are held from `base` up
  timer,     \* a snapshot write is scheduled
  lastSnapshot, \* lastSnapshotHeight
  writer,    \* writeSnapshot: step and finalizedHeight
  fast,      \* the persist hook of a fast sync: its step
  fastDone,  \* ServerSync.fastSyncDone
  backfill,  \* HistoryBackfill: step, blocks of the batch, powSuspects
  discard,   \* discardChainAndResync: its step
  left,      \* what is left of a budget
  harmed     \* history: a fault damaged the store, or a reload met loose rows

tab == <<page, mem, timer, lastSnapshot, writer, fast, fastDone, backfill, discard>>
vars == <<disk, rowq, metaq, tab, left, harmed>>

-----------------------------------------------------------------------------
Empty == [c |-> "honest", tip |-> 0, base |-> 0, body |-> {}]
NoBackfill == [at |-> "none", todo |-> <<>>, suspects |-> {}]
Missing == 1..mem.tip \ mem.body
Without(h) == mem.c = "forged" /\ h \in Forged

(* Operations on the meta store; `by` is whoever awaits the end of it.     *)
Op(op, v, by) == [op |-> op, v |-> v, by |-> by]
Clear == Op("clear", None, "discard")
ClearRows == <<"clear", 0>>
Done(by) == \A i \in DOMAIN metaq : metaq[i].by # by

Committed(d, o) ==
  CASE o.op = "head" -> [d EXCEPT !.head = o.v]
    [] o.op = "snap" -> [d EXCEPT !.snap = o.v]
    [] o.op = "version" -> [d EXCEPT !.version = TRUE]
    [] o.op = "clear" -> [version |-> FALSE, rows |-> {}, head |-> None, snap |-> None]
    [] o.op = "read" -> d

Idle == [at |-> "idle", h |-> 0, head |-> None]

Fresh ==
  /\ page = "off" /\ mem = Empty /\ timer = FALSE /\ lastSnapshot = -1
  /\ writer = Idle /\ fast = "idle" /\ fastDone = FALSE
  /\ backfill = NoBackfill /\ discard = "no" /\ rowq = <<>> /\ metaq = <<>>

Init ==
  /\ Fresh /\ left \in Budgets /\ harmed = FALSE
  /\ disk = [version |-> FALSE, rows |-> {}, head |-> None, snap |-> None]

-----------------------------------------------------------------------------
(* restoreFromIdb, as a function of what is on disk.                       *)
RowsOf(d, c) == {h \in Heights : <<c, h>> \in d.rows}
Run(S, from) == Max({from} \cup {h \in S : h > from /\ (from + 1)..h \subseteq S})
Other(c) == CHOOSE o \in Chains : o # c

(* replayWithHeaderChain succeeds: the snapshot sits on the anchor of the  *)
(* blob, and the rows above it extend it without a gap.                    *)
HeaderPathFits(d) ==
  /\ d.head # None /\ d.snap = d.head
  /\ LET above(c) == {h \in RowsOf(d, c) : h > d.head.h}
     IN /\ above(Other(d.head.c)) = {}
        /\ above(d.head.c) = (d.head.h + 1)..Run(RowsOf(d, d.head.c), d.head.h)

(* replayWithSnapshot succeeds: every row has its parent's row below it,   *)
(* the anchor is among them, and the rows above have their parents' state. *)
SnapshotPathFits(d) ==
  /\ d.snap # None
  /\ \A c \in Chains : RowsOf(d, c) = 1..Run(RowsOf(d, c), 0)
  /\ d.snap.h \in RowsOf(d, d.snap.c)
  /\ \A h \in RowsOf(d, Other(d.snap.c)) : h <= d.snap.h

(* For a mutant: the stored bodies are not layered in.                     *)
WithHeadersOnly(d) ==
  [c |-> d.head.c, tip |-> Run(RowsOf(d, d.head.c), d.head.h),
   base |-> d.head.h, body |-> {}]

WithHeaders(d) ==
  [c |-> d.head.c, tip |-> Run(RowsOf(d, d.head.c), d.head.h),
   base |-> d.head.h, body |-> RowsOf(d, d.head.c)]

(* For a mutant: the rows above the snapshot are not replayed.             *)
WithSnapshotOnly(d) ==
  [c |-> d.snap.c, tip |-> d.snap.h, base |-> d.snap.h, body |-> 1..d.snap.h]

WithSnapshot(d) ==
  [c |-> d.snap.c, tip |-> Run(RowsOf(d, d.snap.c), 0), base |-> d.snap.h,
   body |-> RowsOf(d, d.snap.c)]

(* fullReplay: what does not connect to the genesis is skipped.            *)
FullReplay(d) ==
  LET reach(c) == Run(RowsOf(d, c), 0)
      best == IF reach("forged") > reach("honest") THEN "forged" ELSE "honest"
  IN [c |-> best, tip |-> reach(best), base |-> 0, body |-> 1..reach(best)]

Restored(d) ==
  CASE ~d.version -> Empty
    [] d.version /\ HeaderPathFits(d) -> WithHeaders(d)
    [] d.version /\ ~HeaderPathFits(d) /\ SnapshotPathFits(d) -> WithSnapshot(d)
    [] OTHER -> FullReplay(d)

(* A row whose parent neither a row nor the header blob has. One is enough *)
(* to make the header-chain restore throw; a block accepted while persist  *)
(* is between its two writes leaves one when the page goes away, and so    *)
(* does one accepted while a discard has cleared the stores.               *)
Loose(d) == \E c \in Chains : \E h \in RowsOf(d, c) :
  /\ h > 1 /\ h - 1 \notin RowsOf(d, c)
  /\ ~(d.head.c = c /\ h <= d.head.h + 1)

(* What a failed path deletes, without waiting for it.                     *)
Deletions(d) ==
  (IF d.head # None /\ d.snap = d.head /\ ~HeaderPathFits(d)
   THEN <<Op("head", None, "none"), Op("snap", None, "none")>> ELSE <<>>)
  \o (IF d.rows # {} /\ d.snap # None /\ ~HeaderPathFits(d) /\ ~SnapshotPathFits(d)
      THEN <<Op("snap", None, "none")>> ELSE <<>>)

Load ==
  /\ page = "off"
  /\ IF disk.version
     THEN page' = "on" /\ metaq' = Deletions(disk) /\ rowq' = <<>>
     ELSE /\ page' = "clearing" /\ rowq' = <<ClearRows>>
          /\ metaq' = <<Clear, Op("version", None, "discard")>>
  /\ mem' = Restored(disk)
  \* onTipChanged fires for the rows that are replayed, not for those seeded
  /\ timer' = (mem'.tip > mem'.base)
  /\ harmed' = (harmed \/ (disk.version /\ Loose(disk)))
  /\ UNCHANGED <<disk, lastSnapshot, writer, fast, fastDone, backfill, discard, left>>

(* clearAll and putMeta are awaited before the node goes on the network.   *)
Cleared ==
  /\ page = "clearing" /\ Done("discard") /\ page' = "on"
  /\ UNCHANGED <<disk, rowq, metaq, mem, timer, lastSnapshot, writer, fast, fastDone,
                 backfill, discard, left, harmed>>

(* The tab is closed, reloaded or killed; with `upgrade` the next build    *)
(* has another CHAIN_VERSION.                                              *)
Gone(upgrade) ==
  /\ page # "off" /\ left.reloads > 0
  /\ left' = [left EXCEPT !.reloads = @ - 1]
  /\ page' = "off" /\ mem' = Empty /\ timer' = FALSE /\ lastSnapshot' = -1
  /\ writer' = Idle /\ fast' = "idle" /\ fastDone' = FALSE
  /\ backfill' = NoBackfill /\ discard' = "no" /\ rowq' = <<>> /\ metaq' = <<>>
  /\ disk' = [disk EXCEPT !.version = @ /\ ~upgrade]
  /\ UNCHANGED harmed

-----------------------------------------------------------------------------
(* IndexedDB: a transaction waits for the earlier ones on its stores.      *)
CommitRow ==
  /\ rowq # <<>> /\ Head(rowq) # ClearRows
  /\ disk' = [disk EXCEPT !.rows = @ \cup {Head(rowq)}] /\ rowq' = Tail(rowq)
  /\ UNCHANGED <<metaq, tab, left, harmed>>

(* putBlock fails, say for lack of space: a warning.                       *)
LoseRow ==
  /\ rowq # <<>> /\ Head(rowq) # ClearRows /\ left.fails > 0
  /\ left' = [left EXCEPT !.fails = @ - 1] /\ rowq' = Tail(rowq)
  /\ harmed' = TRUE /\ UNCHANGED <<disk, metaq, tab>>

(* For a mutant: the guard that pins the snapshot is gone.                 *)
PinnedNever(f, head) == FALSE

(* writeSnapshot: the blob needs the snapshot to stay on its anchor.       *)
Pinned(f, head) == head # None /\ f > head.h

(* blockchain.ts snapshotAt: the state at height f, when it is held.       *)
HeldAt(f) == f <= mem.tip /\ f >= mem.base /\ f >= mem.tip - Depth

CommitMeta ==
  LET o == Head(metaq)
      readBack == o.op = "read" /\ ~Pinned(writer.h, disk.head) /\ HeldAt(writer.h)
      put == Op("snap", At(mem.c, writer.h), "writer")
  IN /\ metaq # <<>> /\ (o = Clear => rowq # <<>> /\ Head(rowq) = ClearRows)
     /\ disk' = Committed(disk, o)
     /\ rowq' = IF o = Clear THEN Tail(rowq) ELSE rowq
     /\ metaq' = IF readBack THEN Append(Tail(metaq), put) ELSE Tail(metaq)
     /\ writer' = CASE readBack -> [writer EXCEPT !.at = "put"]
                    [] o.op = "read" /\ ~readBack -> Idle
                    [] OTHER -> writer
     /\ UNCHANGED <<page, mem, timer, lastSnapshot, fast, fastDone, backfill, discard,
                    left, harmed>>

(* onBlockAdded of a full block that extends the tip, then onTipChanged.   *)
(* A block without proof of work is refused.                               *)
Extend ==
  /\ page = "on" /\ mem.tip < Limit /\ ~Without(mem.tip + 1)
  /\ LET h == mem.tip + 1
     IN /\ mem' = [mem EXCEPT !.tip = h, !.body = @ \cup {h}]
        /\ rowq' = Append(rowq, <<mem.c, h>>)
  /\ timer' = TRUE
  /\ UNCHANGED <<disk, metaq, page, lastSnapshot, writer, fast, fastDone, backfill,
                 discard, left, harmed>>

(* A block comes whose parent has no state: onSnapshotInvalidated.         *)
StaleFork ==
  /\ page = "on" /\ left.stales > 0 /\ (mem.base > 1 \/ mem.tip > Depth + 1)
  /\ left' = [left EXCEPT !.stales = @ - 1]
  /\ metaq' = metaq \o <<Op("snap", None, "none"), Op("head", None, "none")>>
  /\ lastSnapshot' = -1 /\ harmed' = TRUE
  /\ UNCHANGED <<disk, rowq, page, mem, timer, writer, fast, fastDone, backfill, discard>>

-----------------------------------------------------------------------------
(* writeSnapshot, five seconds after the last tip move. It is over before  *)
(* the timer can fire again.                                               *)
SnapshotTimer ==
  /\ timer /\ writer.at = "idle" /\ timer' = FALSE
  /\ LET f == mem.tip - Depth
     IN IF f <= 0 \/ f = lastSnapshot
        THEN UNCHANGED <<writer, metaq>>
        ELSE /\ writer' = [writer EXCEPT !.at = "read", !.h = f]
             /\ metaq' = Append(metaq, Op("read", None, "writer"))
  /\ UNCHANGED <<disk, rowq, page, mem, lastSnapshot, fast, fastDone, backfill, discard,
                 left, harmed>>

SnapshotWritten ==
  /\ writer.at = "put" /\ Done("writer")
  /\ lastSnapshot' = writer.h /\ writer' = Idle
  /\ UNCHANGED <<disk, rowq, metaq, page, mem, timer, fast, fastDone, backfill, discard,
                 left, harmed>>

-----------------------------------------------------------------------------
(* attemptFastSync seeds the headers and the anchor's state and persists   *)
(* both: the blob, then the snapshot. seedAnchor fires no tip event. The   *)
(* headers and the snapshot take seconds to fetch: what was under way at   *)
(* the stores before is through.                                           *)
FastSync(c) ==
  /\ page = "on" /\ fast = "idle" /\ ~fastDone /\ discard = "no"
  /\ Top - mem.tip > Backlog /\ metaq = <<>> /\ writer.at = "idle"
  /\ mem' = [c |-> c, tip |-> Anchor, base |-> Anchor,
             body |-> IF mem.c = c THEN mem.body ELSE {}]
  /\ fast' = "head" /\ metaq' = Append(metaq, Op("head", At(c, Anchor), "fast"))
  /\ UNCHANGED <<disk, rowq, page, timer, lastSnapshot, writer, fastDone, backfill,
                 discard, left, harmed>>

FastPersist ==
  /\ fast = "head" /\ Done("fast") /\ fast' = "snap"
  /\ metaq' = Append(metaq, Op("snap", At(mem.c, Anchor), "fast"))
  /\ UNCHANGED <<disk, rowq, page, mem, timer, lastSnapshot, writer, fastDone, backfill,
                 discard, left, harmed>>

FastEnd ==
  /\ fast = "snap" /\ Done("fast") /\ fast' = "idle" /\ fastDone' = TRUE
  /\ lastSnapshot' = Anchor
  /\ UNCHANGED <<disk, rowq, metaq, page, mem, timer, writer, backfill, discard, left,
                 harmed>>

(* The attempts are used up or the helpers do not support it.              *)
FastFails ==
  /\ page = "on" /\ fast = "idle" /\ ~fastDone /\ fastDone' = TRUE
  /\ UNCHANGED <<disk, rowq, metaq, page, mem, timer, lastSnapshot, writer, fast,
                 backfill, discard, left, harmed>>

-----------------------------------------------------------------------------
(* maybeStartBackfill, once the node has caught up.                        *)
StartBackfill ==
  /\ page = "on" /\ backfill.at = "none" /\ Missing # {} /\ discard = "no"
  /\ fast = "idle" /\ mem.tip >= Top
  /\ backfill' = [NoBackfill EXCEPT !.at = "idle"]
  /\ UNCHANGED <<disk, rowq, metaq, page, mem, timer, lastSnapshot, writer, fast,
                 fastDone, discard, left, harmed>>

(* oneBatch up to its results. With `bad` the pool gives up on good blocks *)
(* as well. A batch in which nothing verifies is put off.                  *)
Batch(bad) ==
  LET from == Min(Missing)
      got  == from..Min({from + BatchSize - 1, mem.tip})
      ok   == {h \in got \ bad : ~Without(h)}
      inOrder == [i \in 1..Cardinality(got) |->
                    [h |-> from + i - 1, ok |-> from + i - 1 \in ok]]
  IN /\ backfill.at = "idle" /\ Missing # {}
     /\ bad \subseteq got /\ (bad # {} => left.glitches > 0)
     /\ left' = [left EXCEPT !.glitches = IF bad = {} THEN @ ELSE @ - 1]
     /\ backfill' = IF ok = {} THEN backfill
                    ELSE [backfill EXCEPT !.at = "work", !.todo = inOrder]
     /\ UNCHANGED <<disk, rowq, metaq, page, mem, timer, lastSnapshot, writer, fast,
                    fastDone, discard, harmed>>

(* For mutants: one failure is enough, or no number of them.               *)
SecondFailureAtOnce(h) == TRUE
SecondFailureNever(h) == FALSE
SecondFailure(h) == h \in backfill.suspects

BodyOf(b) == IF b.ok THEN mem.body \cup {b.h} ELSE mem.body

(* The next block of the batch, and the wait for its putBlock. A block     *)
(* that fails twice ends in discardChainAndResync.                         *)
BatchStep ==
  /\ backfill.at = "work" /\ backfill.todo # <<>> /\ rowq = <<>>
  /\ LET b == Head(backfill.todo)
         skip  == b.h \in mem.body
         fatal == ~skip /\ ~b.ok /\ SecondFailure(b.h)
     IN /\ mem' = IF skip \/ fatal THEN mem ELSE [mem EXCEPT !.body = BodyOf(b)]
        /\ rowq' = IF fatal THEN <<ClearRows>>
                   ELSE IF mem'.body # mem.body THEN <<<<mem.c, b.h>>>> ELSE rowq
        /\ metaq' = IF fatal THEN Append(metaq, Clear) ELSE metaq
        /\ discard' = IF fatal THEN "clear" ELSE discard
        /\ backfill' =
             IF fatal THEN NoBackfill
             ELSE [backfill EXCEPT !.todo = Tail(@),
                     !.suspects = IF skip THEN @ ELSE
                                  IF b.ok THEN @ \ {b.h} ELSE @ \cup {b.h}]
  /\ UNCHANGED <<disk, page, timer, lastSnapshot, writer, fast, fastDone, left, harmed>>

BatchEnd ==
  /\ backfill.at = "work" /\ backfill.todo = <<>> /\ rowq = <<>>
  /\ backfill' = [backfill EXCEPT !.at = IF Missing = {} THEN "done" ELSE "idle"]
  /\ metaq' = IF Missing = {} THEN Append(metaq, Op("head", None, "none")) ELSE metaq
  /\ UNCHANGED <<disk, rowq, page, mem, timer, lastSnapshot, writer, fast, fastDone,
                 discard, left, harmed>>

-----------------------------------------------------------------------------
(* discardChainAndResync after clearAll; the chain lives on until its end. *)
DiscardVersion ==
  /\ discard = "clear" /\ Done("discard") /\ discard' = "version"
  /\ metaq' = Append(metaq, Op("version", None, "discard"))
  /\ UNCHANGED <<disk, rowq, page, mem, timer, lastSnapshot, writer, fast, fastDone,
                 backfill, left, harmed>>

DiscardReset ==
  /\ discard = "version" /\ Done("discard") /\ discard' = "no"
  /\ lastSnapshot' = -1 /\ mem' = Empty
  /\ UNCHANGED <<disk, rowq, metaq, page, timer, writer, fast, fastDone, backfill, left,
                 harmed>>

-----------------------------------------------------------------------------
Discard == DiscardVersion \/ DiscardReset
Fast == FastPersist \/ FastEnd
Backfill == StartBackfill \/ Batch({}) \/ BatchStep \/ BatchEnd

Next ==
  \/ Load \/ Cleared \/ CommitRow \/ LoseRow \/ CommitMeta \/ Extend \/ StaleFork
  \/ SnapshotTimer \/ SnapshotWritten \/ FastFails \/ Fast \/ Backfill \/ Discard
  \/ \E c \in Chains : FastSync(c)
  \/ \E upgrade \in BOOLEAN : Gone(upgrade)
  \/ \E bad \in SUBSET Heights \ {{}} : Batch(bad)

(* The browser commits what it queued, promises resume, and the helpers    *)
(* serve blocks in the end. Nobody has to reload, fail or fast-sync.       *)
Fairness ==
  /\ WF_vars(Load) /\ WF_vars(Cleared) /\ WF_vars(CommitRow) /\ WF_vars(CommitMeta)
  /\ WF_vars(Extend) /\ WF_vars(Fast) /\ WF_vars(Discard)
  /\ WF_vars(StartBackfill) /\ WF_vars(Batch({})) /\ WF_vars(BatchStep) /\ WF_vars(BatchEnd)

Spec == Init /\ [][Next]_vars /\ Fairness

-----------------------------------------------------------------------------
Owners == {"none", "writer", "fast", "discard"}
MetaOps == [op : {"head", "snap", "version", "clear", "read"}, v : Mark, by : Owners]

(* Every variable keeps its type; every step of the five activities that   *)
(* write to the stores knows what it waits for.                            *)
TypeOK ==
  /\ disk \in [version : BOOLEAN, rows : SUBSET (Chains \X Heights), head : Mark, snap : Mark]
  /\ rowq \in Seq((Chains \X Heights) \cup {ClearRows}) /\ metaq \in Seq(MetaOps)
  /\ page \in {"off", "clearing", "on"} /\ timer \in BOOLEAN /\ fastDone \in BOOLEAN
  /\ mem \in [c : Chains, tip : 0..Limit, base : 0..Limit, body : SUBSET Heights]
  /\ mem.body \subseteq 1..mem.tip /\ (mem.base + 1)..mem.tip \subseteq mem.body
  /\ lastSnapshot \in -1..Limit /\ writer.at \in {"idle", "read", "put"}
  /\ fast \in {"idle", "head", "snap"} /\ discard \in {"no", "clear", "version"}
  /\ backfill.at \in {"none", "idle", "work", "done"} /\ backfill.suspects \subseteq Heights
  /\ harmed \in BOOLEAN

Sound == ~harmed /\ ~Loose(disk) /\ discard = "no"

(* The promise of restoreFromIdb (node.ts 299-310): once all writes are    *)
(* through, a reload brings back the chain the tab had, from whichever of  *)
(* its three sources, at any point of backfill, snapshots and fast sync,   *)
(* unless an earlier reload met loose rows: it kept them and dropped the   *)
(* blob, and when later blocks connect them they may out-bid the chain.    *)
ReloadKeeps ==
  page = "on" /\ rowq = <<>> /\ metaq = <<>> /\ fast = "idle" /\ Sound
    => /\ Restored(disk).tip >= mem.tip
       /\ mem.tip > 0 => Restored(disk).c = mem.c

(* No write makes a reload bring back less than it would have before it:   *)
(* neither a snapshot past the anchor, nor the removal of the blob, nor    *)
(* one half of what a fast sync persists.                                  *)
NoWriteLosesBlocks ==
  [][page' = "on" /\ Sound /\ Sound' => Restored(disk').tip >= Restored(disk).tip]_vars

(* Only a forged prefix is ever discarded, when the budgets let the        *)
(* verifier fail on good blocks in one batch only (backfill.ts 59-68).     *)
HonestKept == discard # "no" => mem.c = "forged"

(* The sweep is full (backfill.ts 11-19): no block without proof of work   *)
(* has its body attached, in memory or on disk, not even after a reload    *)
(* in the middle of it; a backfill that is done has seen an honest chain.  *)
SweepFull ==
  /\ \A h \in Forged : <<"forged", h>> \notin disk.rows
  /\ mem.c = "forged" => mem.body \cap Forged = {}

(* The backfill tells a forged prefix from an honest one.                  *)
SweepSound == HonestKept /\ SweepFull

(* The background sweep comes to an end: the history is complete or the    *)
(* prefix is discarded (backfill.ts 11-19).                                *)
PrefixSettled ==
  (page = "on" /\ Missing # {}) ~> (Missing = {} \/ discard # "no" \/ page # "on")
=============================================================================
