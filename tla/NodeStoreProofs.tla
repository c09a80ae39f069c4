--------------------------- MODULE NodeStoreProofs ---------------------------
(***************************************************************************)
(* The safety properties of NodeStore, proved for every tip and anchor,    *)
(* every size of a batch, every set of forged heights and every budget.    *)
(* First TypeOK and SweepSound: what a restore makes of a store is a chain *)
(* without a gap above its base, no block without proof of work is ever    *)
(* stored or attached, and an honest chain is not discarded. Then          *)
(* ReloadKeeps and NoWriteLosesBlocks: what the writes have put by, and a  *)
(* reload gives back.                                                      *)
(***************************************************************************)
EXTENDS NodeStore, TLAPS, WellFoundedInduction, FiniteSetTheorems, SequenceTheorems

-----------------------------------------------------------------------------
(* The invariant.                                                          *)

Rows == Chains \X Heights
Disks == [version : BOOLEAN, rows : SUBSET Rows, head : Mark, snap : Mark]
Memories == [c : Chains, tip : 0..Limit, base : 0..Limit, body : SUBSET Heights]
Blocks == [h : Heights, ok : BOOLEAN]
Backfills == [at : {"none", "idle", "work", "done"}, todo : Seq(Blocks),
              suspects : SUBSET Heights]
Writers == [at : {"idle", "read", "put"}, h : 0..Limit, head : {None}]

(* A chain in memory: bodies up to the tip, and none missing above base.   *)
WellFormed(m) ==
  m \in Memories /\ m.body \subseteq 1..m.tip /\ (m.base + 1)..m.tip \subseteq m.body

Types ==
  /\ disk \in Disks /\ WellFormed(mem)
  /\ rowq \in Seq(Rows \cup {ClearRows}) /\ metaq \in Seq(MetaOps)
  /\ page \in {"off", "clearing", "on"} /\ timer \in BOOLEAN /\ fastDone \in BOOLEAN
  /\ lastSnapshot \in -1..Limit /\ writer \in Writers
  /\ fast \in {"idle", "head", "snap"} /\ discard \in {"no", "clear", "version"}
  /\ backfill \in Backfills /\ harmed \in BOOLEAN
  /\ left \in [reloads : Nat, fails : Nat, stales : Nat, glitches : Nat]

(* While the sweep is at work the chain stays: its tip is beyond the reach *)
(* of a fast sync, and a discard is over or has ended the sweep.           *)
Sweeping == backfill.at \in {"idle", "work"}
SweepHolds ==
  /\ Sweeping => page = "on" /\ Top <= mem.tip /\ discard = "no"
  /\ page = "off" => discard = "no"
  /\ backfill.at = "work" =>
       \A i \in 1..Len(backfill.todo) : backfill.todo[i].h <= mem.tip

(* No row on disk or on its way there is of a block without proof of work. *)
GoodRows == {r \in Rows : r[1] = "forged" => r[2] \notin Forged}
Checked(m) == m.c = "forged" => m.body \cap Forged = {}
TodoChecked ==
  \A i \in 1..Len(backfill.todo) :
    backfill.todo[i].ok /\ mem.c = "forged" => backfill.todo[i].h \notin Forged
OnlyChecked ==
  /\ disk.rows \subseteq GoodRows /\ rowq \in Seq(GoodRows \cup {ClearRows})
  /\ Checked(mem) /\ (backfill.at = "work" => TodoChecked)

(* On the honest chain a block becomes a suspect in the one batch in which *)
(* the verifier fails, and no block is twice in a batch.                   *)
NewSuspects ==
  \A i \in 1..Len(backfill.todo) : ~backfill.todo[i].ok =>
    /\ left.glitches = 0 /\ backfill.todo[i].h \notin backfill.suspects
    /\ \A k \in 1..Len(backfill.todo) : k # i => backfill.todo[k].h # backfill.todo[i].h
OneSuspicion ==
  /\ left.glitches <= 1
  /\ Sweeping /\ mem.c = "honest" /\ left.glitches > 0 => backfill.suspects = {}
  /\ backfill.at = "work" /\ mem.c = "honest" => NewSuspects
HonestSafe == OneSuspicion /\ HonestKept

(* The one read that waits at the meta store is the writer's, of a height  *)
(* above the genesis.                                                      *)
ReadOnce ==
  /\ writer.at = "read" => writer.h \in Heights
  /\ \A i \in 1..Len(metaq) : metaq[i].op = "read" =>
       /\ writer.at = "read"
       /\ \A k \in 1..Len(metaq) : metaq[k].op = "read" => k = i

-----------------------------------------------------------------------------
(* Sets of heights.                                                        *)

LEMMA StoreNumbers ==
  /\ Top \in Nat \ {0} /\ Limit \in Nat \ {0} /\ Depth \in Nat \ {0}
  /\ Backlog \in Nat \ {0} /\ BatchSize \in Nat \ {0}
  /\ Depth < Top /\ Depth <= Backlog /\ Top <= Limit
  /\ Anchor \in Heights /\ Heights = 1..Limit
<1>1. /\ Top \in Nat \ {0} /\ Limit \in Nat \ {0} /\ Depth \in Nat \ {0}
      /\ Backlog \in Nat \ {0} /\ BatchSize \in Nat \ {0}
  BY StoreConstants
<1>2. Depth < Top /\ Depth <= Backlog /\ Top <= Limit
  BY StoreConstants
<1> QED BY <1>1, <1>2 DEF Anchor, Heights

(* A set of numbers that is not empty has a least element.                 *)
LEMMA LeastNumber ==
  ASSUME NEW S \in SUBSET Nat, S # {}
  PROVE  Min(S) \in S /\ \A k \in S : Min(S) <= k
<1> DEFINE R == {ss \in Nat \X Nat : ss[1] < ss[2]}
<1>1. IsWellFoundedOn(R, Nat)
  BY NatLessThanWellFounded DEF OpToRel
<1> HIDE DEF R
<1>2. PICK m \in S : \A k \in S : ~ (<<k, m>> \in R)
  BY <1>1, WFMin
<1>3. ASSUME NEW k \in S PROVE m <= k
  <2>1. k \in Nat /\ m \in Nat
    OBVIOUS
  <2>2. ~ (k < m)
    BY <1>2, <2>1 DEF R
  <2> QED BY <2>1, <2>2
<1> QED BY <1>3 DEF Min

(* A set of heights that is not empty has a greatest element.              *)
LEMMA GreatestNumber ==
  ASSUME NEW S \in SUBSET Nat, S # {}, NEW b \in Nat, \A k \in S : k <= b
  PROVE  Max(S) \in S /\ \A k \in S : k <= Max(S)
<1> DEFINE D == {b - k : k \in S}
<1>1. D \in SUBSET Nat /\ D # {}
  OBVIOUS
<1> HIDE DEF D
<1>2. PICK d \in D : \A e \in D : d <= e
  BY <1>1, LeastNumber
<1>3. PICK m \in S : d = b - m
  BY <1>2 DEF D
<1>4. ASSUME NEW k \in S PROVE k <= m
  <2>1. b - k \in D
    BY DEF D
  <2>2. d <= b - k
    BY <1>2, <2>1
  <2> QED BY <1>3, <2>2
<1>5. \A k \in S : m >= k
  BY <1>3, <1>4
<1>6. Max(S) \in S /\ \A k \in S : Max(S) >= k
  BY <1>3, <1>5 DEF Max
<1> QED BY <1>6

(* What Run gives: the heights up to it are in the set without a gap.      *)
LEMMA RunFits ==
  ASSUME NEW S \in SUBSET Heights, NEW from \in 0..Limit
  PROVE  /\ Run(S, from) \in from..Limit /\ Run(S, from) \in 0..Limit
         /\ (from + 1)..Run(S, from) \subseteq S
<1> DEFINE T == {from} \cup {h \in S : h > from /\ (from + 1)..h \subseteq S}
<1>1. T \in SUBSET Nat /\ T # {} /\ Limit \in Nat /\ \A k \in T : k <= Limit /\ from <= k
  <2>1. Limit \in Nat /\ from \in Nat /\ from <= Limit
    BY StoreNumbers
  <2>2. \A k \in S : k \in Nat /\ k <= Limit
    BY <2>1, StoreNumbers
  <2>3. \A k \in T : k \in Nat /\ k <= Limit /\ from <= k
    BY <2>1, <2>2
  <2> QED BY <2>1, <2>3
<1>2. \A h \in T : (from + 1)..h \subseteq S
  BY StoreNumbers
<1>3. Run(S, from) = Max(T)
  BY DEF Run
<1> HIDE DEF T
<1>4. Max(T) \in T
  <2>1. \A k \in T : k <= Limit
    BY <1>1
  <2>2. T \in SUBSET Nat /\ T # {} /\ Limit \in Nat
    BY <1>1
  <2> QED BY <2>2, <2>1, GreatestNumber, Zenon
<1>5. Max(T) \in Nat /\ from <= Max(T) /\ Max(T) <= Limit
  BY <1>1, <1>4
<1>6. (from + 1)..Max(T) \subseteq S
  BY <1>2, <1>4
<1> QED BY <1>1, <1>3, <1>5, <1>6

-----------------------------------------------------------------------------
(* What restoreFromIdb makes of a store.                                   *)

LEMMA RowsFit ==
  ASSUME NEW d \in Disks, NEW c \in Chains
  PROVE  RowsOf(d, c) \in SUBSET Heights
  BY DEF RowsOf

LEMMA HeaderPathFormed ==
  ASSUME NEW d \in Disks, HeaderPathFits(d)
  PROVE  WellFormed(WithHeaders(d))
<1> DEFINE c == d.head.c
           f == d.head.h
           rows == RowsOf(d, c)
<1>1. c \in Chains /\ f \in Heights
  BY DEF HeaderPathFits, Disks, Mark
<1>2. rows \in SUBSET Heights
  BY <1>1, RowsFit
<1>3. f \in 0..Limit
  BY <1>1, StoreNumbers
<1>4. {h \in rows : h > f} = (f + 1)..Run(rows, f)
  BY DEF HeaderPathFits
<1>5. WithHeaders(d) = [c |-> c, tip |-> Run(rows, f), base |-> f, body |-> rows]
  BY DEF WithHeaders
<1> HIDE DEF c, f, rows
<1>6. Run(rows, f) \in f..Limit /\ Run(rows, f) \in 0..Limit
  BY <1>2, <1>3, RunFits
<1>7. rows \subseteq 1..Run(rows, f)
  <2> SUFFICES ASSUME NEW h \in rows PROVE h \in 1..Run(rows, f)
    OBVIOUS
  <2>1. h \in 1..Limit
    BY <1>2, StoreNumbers
  <2>2. CASE h > f
    BY <1>4, <1>6, <2>1, <2>2, <1>3
  <2>3. CASE h <= f
    BY <1>6, <2>1, <2>3, <1>3
  <2> QED BY <2>1, <2>2, <2>3, <1>3
<1>8. (f + 1)..Run(rows, f) \subseteq rows
  BY <1>4
<1> QED BY <1>1, <1>2, <1>3, <1>5, <1>6, <1>7, <1>8 DEF WellFormed, Memories

LEMMA SnapshotPathFormed ==
  ASSUME NEW d \in Disks, SnapshotPathFits(d)
  PROVE  WellFormed(WithSnapshot(d))
<1> DEFINE c == d.snap.c
           f == d.snap.h
           rows == RowsOf(d, c)
<1>1. c \in Chains /\ f \in Heights
  BY DEF SnapshotPathFits, Disks, Mark
<1>2. rows \in SUBSET Heights
  BY <1>1, RowsFit
<1>3. f \in 0..Limit /\ 0 \in 0..Limit
  BY <1>1, StoreNumbers
<1>4. rows = 1..Run(rows, 0)
  BY <1>1 DEF SnapshotPathFits
<1>5. WithSnapshot(d) = [c |-> c, tip |-> Run(rows, 0), base |-> f, body |-> rows]
  BY DEF WithSnapshot
<1> HIDE DEF c, f, rows
<1>6. Run(rows, 0) \in 0..Limit
  BY <1>2, <1>3, RunFits
<1>7. (f + 1)..Run(rows, 0) \subseteq rows
  BY <1>3, <1>4, <1>6
<1> QED BY <1>1, <1>2, <1>3, <1>4, <1>5, <1>6, <1>7 DEF WellFormed, Memories

LEMMA FullReplayFormed ==
  ASSUME NEW d \in Disks
  PROVE  /\ WellFormed(FullReplay(d))
         /\ FullReplay(d).body \subseteq RowsOf(d, FullReplay(d).c)
<1> DEFINE reach(c) == Run(RowsOf(d, c), 0)
           best == IF reach("forged") > reach("honest") THEN "forged" ELSE "honest"
           rows == RowsOf(d, best)
<1>1. best \in Chains
  BY DEF Chains
<1>2. rows \in SUBSET Heights
  BY <1>1, RowsFit
<1>3. FullReplay(d) = [c |-> best, tip |-> Run(rows, 0), base |-> 0, body |-> 1..Run(rows, 0)]
  BY DEF FullReplay
<1> HIDE DEF best, rows
<1>4. 0 \in 0..Limit
  BY StoreNumbers
<1>5. Run(rows, 0) \in 0..Limit /\ 1..Run(rows, 0) \subseteq rows
  <2>1. (0 + 1)..Run(rows, 0) \subseteq rows /\ Run(rows, 0) \in 0..Limit
    BY <1>2, <1>4, RunFits
  <2> QED BY <2>1
<1>6. 1..Run(rows, 0) \in SUBSET Heights
  BY <1>2, <1>5
<1>7. FullReplay(d).body \subseteq RowsOf(d, FullReplay(d).c)
  BY <1>3, <1>5 DEF rows
<1> QED BY <1>1, <1>3, <1>4, <1>5, <1>6, <1>7 DEF WellFormed, Memories

(* Whatever the source, a restored chain has no gap above its base, and    *)
(* its bodies are rows of the store.                                       *)
LEMMA RestoredFormed ==
  ASSUME NEW d \in Disks
  PROVE  /\ WellFormed(Restored(d))
         /\ Restored(d).body \subseteq RowsOf(d, Restored(d).c)
<1>1. CASE ~d.version
  <2>1. Restored(d) = Empty
    BY <1>1 DEF Restored
  <2> QED BY <2>1, StoreNumbers DEF Empty, WellFormed, Memories, Chains
<1>2. CASE d.version /\ HeaderPathFits(d)
  <2>1. Restored(d) = WithHeaders(d)
    BY <1>2 DEF Restored
  <2>2. WithHeaders(d).body \subseteq RowsOf(d, WithHeaders(d).c)
    BY DEF WithHeaders
  <2> QED BY <1>2, <2>1, <2>2, HeaderPathFormed
<1>3. CASE d.version /\ ~HeaderPathFits(d) /\ SnapshotPathFits(d)
  <2>1. Restored(d) = WithSnapshot(d)
    BY <1>3 DEF Restored
  <2>2. WithSnapshot(d).body \subseteq RowsOf(d, WithSnapshot(d).c)
    BY DEF WithSnapshot
  <2> QED BY <1>3, <2>1, <2>2, SnapshotPathFormed
<1>4. CASE d.version /\ ~HeaderPathFits(d) /\ ~SnapshotPathFits(d)
  <2>1. Restored(d) = FullReplay(d)
    BY <1>4 DEF Restored
  <2> QED BY <2>1, FullReplayFormed
<1> QED BY <1>1, <1>2, <1>3, <1>4

-----------------------------------------------------------------------------
(* Types.                                                                  *)

LEMMA TypesGive ==
  ASSUME Types
  PROVE  TypeOK
<1>1. WellFormed(mem) /\ backfill \in Backfills /\ writer \in Writers /\ disk \in Disks
  BY DEF Types
<1>2. /\ mem \in [c : Chains, tip : 0..Limit, base : 0..Limit, body : SUBSET Heights]
      /\ mem.body \subseteq 1..mem.tip /\ (mem.base + 1)..mem.tip \subseteq mem.body
  BY <1>1 DEF WellFormed, Memories
<1>3. /\ backfill.at \in {"none", "idle", "work", "done"} /\ backfill.suspects \subseteq Heights
      /\ writer.at \in {"idle", "read", "put"}
      /\ disk \in [version : BOOLEAN, rows : SUBSET (Chains \X Heights), head : Mark, snap : Mark]
  BY <1>1 DEF Backfills, Writers, Disks, Rows
<1>4. rowq \in Seq((Chains \X Heights) \cup {ClearRows}) /\ metaq \in Seq(MetaOps)
  BY DEF Types, Rows
<1> QED BY <1>2, <1>3, <1>4 DEF Types, TypeOK

LEMMA OpTypes ==
  /\ \A op \in {"head", "snap", "version", "clear", "read"}, v \in Mark, by \in Owners :
       Op(op, v, by) \in MetaOps
  /\ None \in Mark /\ Clear \in MetaOps /\ \A c \in Chains, h \in Heights : At(c, h) \in Mark
  /\ ClearRows \in Rows \cup {ClearRows} /\ "none" \in Owners
  BY DEF Op, MetaOps, None, Mark, Clear, At, Owners

LEMMA CommittedTypes ==
  ASSUME NEW d \in Disks, NEW o \in MetaOps
  PROVE  Committed(d, o) \in Disks
<1>1. o.op \in {"head", "snap", "version", "clear", "read"} /\ o.v \in Mark
  BY DEF MetaOps
<1>2. [version |-> FALSE, rows |-> {}, head |-> None, snap |-> None] \in Disks
  BY OpTypes DEF Disks
<1>3. /\ [d EXCEPT !.head = o.v] \in Disks /\ [d EXCEPT !.snap = o.v] \in Disks
      /\ [d EXCEPT !.version = TRUE] \in Disks
  BY <1>1 DEF Disks
<1>4. CASE o.op = "head"
  BY <1>3, <1>4 DEF Committed
<1>5. CASE o.op = "snap"
  BY <1>3, <1>5 DEF Committed
<1>6. CASE o.op = "version"
  BY <1>3, <1>6 DEF Committed
<1>7. CASE o.op = "clear"
  BY <1>2, <1>7 DEF Committed
<1>8. CASE o.op = "read"
  BY <1>8 DEF Committed
<1> QED BY <1>1, <1>4, <1>5, <1>6, <1>7, <1>8

LEMMA DeletionTypes ==
  ASSUME NEW d
  PROVE  /\ Deletions(d) \in Seq(MetaOps)
         /\ \A i \in 1..Len(Deletions(d)) : Deletions(d)[i].op # "read"
<1> DEFINE head == Op("head", None, "none")
           snap == Op("snap", None, "none")
           a == IF d.head # None /\ d.snap = d.head /\ ~HeaderPathFits(d)
                THEN <<head, snap>> ELSE <<>>
           b == IF d.rows # {} /\ d.snap # None /\ ~HeaderPathFits(d) /\ ~SnapshotPathFits(d)
                THEN <<snap>> ELSE <<>>
<1>1. head \in MetaOps /\ snap \in MetaOps /\ head.op # "read" /\ snap.op # "read"
  BY OpTypes DEF Op
<1>2. Deletions(d) = a \o b
  BY DEF Deletions
<1> DEFINE Writes == {o \in MetaOps : o.op # "read"}
<1>3. head \in Writes /\ snap \in Writes
  BY <1>1
<1> HIDE DEF head, snap, Writes
<1>4. a \in Seq(Writes) /\ b \in Seq(Writes)
  <2>1. <<>> \in Seq(Writes) /\ <<snap>> \in Seq(Writes) /\ <<head, snap>> \in Seq(Writes)
    BY <1>3
  <2>2. a \in {<<>>, <<head, snap>>} /\ b \in {<<>>, <<snap>>}
    OBVIOUS
  <2> HIDE DEF a, b
  <2> QED BY <2>1, <2>2
<1> HIDE DEF a, b
<1>5. Deletions(d) \in Seq(Writes)
  BY <1>2, <1>4, ConcatProperties
<1>6. Writes \subseteq MetaOps /\ \A o \in Writes : o.op # "read"
  BY DEF Writes
<1>7. \A i \in 1..Len(Deletions(d)) : Deletions(d)[i] \in Writes
  BY <1>5, ElementOfSeq
<1>8. Deletions(d) \in Seq(MetaOps)
  BY <1>5, <1>6, SeqMonotonic
<1> QED BY <1>6, <1>7, <1>8

LEMMA FreshTypes ==
  /\ WellFormed(Empty) /\ Idle \in Writers /\ NoBackfill \in Backfills
  /\ <<>> \in Seq(Rows \cup {ClearRows}) /\ <<>> \in Seq(MetaOps) /\ -1 \in -1..Limit
<1>1. WellFormed(Empty)
  BY StoreNumbers DEF Empty, WellFormed, Memories, Chains
<1>2. Idle \in Writers
  BY StoreNumbers DEF Idle, Writers, None
<1>3. NoBackfill \in Backfills
  BY DEF NoBackfill, Backfills
<1> QED BY <1>1, <1>2, <1>3, StoreNumbers

LEMMA TypesAtFirst ==
  ASSUME Init
  PROVE  Types
<1>1. /\ page = "off" /\ mem = Empty /\ timer = FALSE /\ lastSnapshot = -1
      /\ writer = Idle /\ fast = "idle" /\ fastDone = FALSE
      /\ backfill = NoBackfill /\ discard = "no" /\ rowq = <<>> /\ metaq = <<>>
  BY DEF Init, Fresh
<1>2. left \in [reloads : Nat, fails : Nat, stales : Nat, glitches : Nat] /\ harmed = FALSE
  BY StoreConstants DEF Init
<1>3. disk \in Disks
  BY OpTypes DEF Init, Disks
<1> QED BY <1>1, <1>2, <1>3, FreshTypes DEF Types

(* The blocks of a batch: from the lowest missing height, in order.        *)
FirstMissing == Min(Missing)
BatchHeights == FirstMissing..Min({FirstMissing + BatchSize - 1, mem.tip})
BatchOk(bad) == {h \in BatchHeights \ bad : ~Without(h)}
BatchInOrder(bad) ==
  [i \in 1..Cardinality(BatchHeights) |->
     [h |-> FirstMissing + i - 1, ok |-> FirstMissing + i - 1 \in BatchOk(bad)]]

LEMMA BatchFits ==
  ASSUME Types, Missing # {}, NEW bad
  PROVE  LET todo == BatchInOrder(bad)
         IN /\ todo \in Seq(Blocks) /\ Len(todo) \in Nat
            /\ \A i \in 1..Len(todo) :
                 /\ todo[i].h = FirstMissing + i - 1 /\ todo[i].h \in BatchHeights
                 /\ todo[i].ok = (todo[i].h \in BatchOk(bad))
            /\ FirstMissing \in Nat /\ BatchHeights \subseteq 1..mem.tip
<1> DEFINE last == Min({FirstMissing + BatchSize - 1, mem.tip})
           n == Cardinality(BatchHeights)
           todo == BatchInOrder(bad)
<1>1. mem.tip \in 0..Limit /\ mem.tip \in Nat
  BY StoreNumbers DEF Types, WellFormed, Memories
<1>2. FirstMissing \in 1..mem.tip
  <2>1. Missing \in SUBSET Nat /\ Missing \subseteq 1..mem.tip
    BY <1>1 DEF Missing
  <2>2. FirstMissing \in Missing
    BY <2>1, LeastNumber DEF FirstMissing
  <2> QED BY <2>1, <2>2
<1>3. last \in Nat /\ last <= mem.tip /\ FirstMissing <= last
  <2>1. FirstMissing + BatchSize - 1 \in Nat /\ FirstMissing <= FirstMissing + BatchSize - 1
    BY <1>1, <1>2, StoreNumbers
  <2>2. {FirstMissing + BatchSize - 1, mem.tip} \in SUBSET Nat
    BY <1>1, <2>1
  <2>3. /\ last \in {FirstMissing + BatchSize - 1, mem.tip}
        /\ \A k \in {FirstMissing + BatchSize - 1, mem.tip} : last <= k
    BY <2>2, LeastNumber
  <2> QED BY <1>1, <1>2, <2>1, <2>3
<1>4. BatchHeights = FirstMissing..last
  BY DEF BatchHeights
<1> HIDE DEF last
<1>5. n = last - FirstMissing + 1 /\ n \in Nat
  <2>1. FirstMissing \in Int /\ last \in Int /\ ~(FirstMissing > last)
    BY <1>1, <1>2, <1>3
  <2>2. Cardinality(FirstMissing..last) = last - FirstMissing + 1
    BY <2>1, FS_Interval
  <2> QED BY <1>2, <1>3, <1>4, <2>2
<1>6. todo = [i \in 1..n |->
                [h |-> FirstMissing + i - 1, ok |-> FirstMissing + i - 1 \in BatchOk(bad)]]
  BY DEF BatchInOrder
<1> HIDE DEF n, todo
<1>7. \A i \in 1..n :
        /\ FirstMissing + i - 1 \in BatchHeights /\ FirstMissing + i - 1 \in Heights
        /\ todo[i].h = FirstMissing + i - 1
        /\ todo[i].ok = (FirstMissing + i - 1 \in BatchOk(bad))
  BY <1>1, <1>2, <1>3, <1>4, <1>5, <1>6, StoreNumbers
<1>8. \A i \in 1..n : todo[i] \in Blocks
  BY <1>6, <1>7 DEF Blocks
<1>9. todo \in Seq(Blocks) /\ Len(todo) = n
  BY <1>5, <1>6, <1>8
<1>10. BatchHeights \subseteq 1..mem.tip
  BY <1>1, <1>2, <1>3, <1>4
<1> QED BY <1>2, <1>5, <1>7, <1>9, <1>10 DEF todo

(* The step of a batch, by what becomes of its first block.                *)
LEMMA BatchStepBy ==
  ASSUME Types, BatchStep
  PROVE  LET b == Head(backfill.todo)
             skip == b.h \in mem.body
             fatal == ~skip /\ ~b.ok /\ SecondFailure(b.h)
         IN /\ backfill.at = "work" /\ backfill.todo # <<>> /\ rowq = <<>>
            /\ UNCHANGED <<disk, page, timer, lastSnapshot, writer, fast, fastDone, left, harmed>>
            /\ skip => /\ UNCHANGED <<mem, rowq, metaq, discard>>
                       /\ backfill' = [backfill EXCEPT !.todo = Tail(@)]
            /\ ~skip /\ b.ok =>
                 /\ mem' = [mem EXCEPT !.body = @ \cup {b.h}] /\ UNCHANGED <<metaq, discard>>
                 /\ rowq' = <<<<mem.c, b.h>>>>
                 /\ backfill' = [backfill EXCEPT !.todo = Tail(@), !.suspects = @ \ {b.h}]
            /\ ~skip /\ ~b.ok /\ ~fatal =>
                 /\ UNCHANGED <<mem, rowq, metaq, discard>>
                 /\ backfill' = [backfill EXCEPT !.todo = Tail(@), !.suspects = @ \cup {b.h}]
            /\ fatal => /\ mem' = mem /\ rowq' = <<ClearRows>>
                        /\ metaq' = Append(metaq, Clear)
                        /\ discard' = "clear" /\ backfill' = NoBackfill
<1> DEFINE b == Head(backfill.todo)
           skip == b.h \in mem.body
           fatal == ~skip /\ ~b.ok /\ SecondFailure(b.h)
<1>1. /\ backfill.at = "work" /\ backfill.todo # <<>> /\ rowq = <<>>
      /\ UNCHANGED <<disk, page, timer, lastSnapshot, writer, fast, fastDone, left, harmed>>
  BY DEF BatchStep
<1>2. /\ mem' = IF skip \/ fatal THEN mem ELSE [mem EXCEPT !.body = BodyOf(b)]
      /\ rowq' = IF fatal THEN <<ClearRows>>
                 ELSE IF mem'.body # mem.body THEN <<<<mem.c, b.h>>>> ELSE rowq
      /\ metaq' = IF fatal THEN Append(metaq, Clear) ELSE metaq
      /\ discard' = IF fatal THEN "clear" ELSE discard
      /\ backfill' = IF fatal THEN NoBackfill
                     ELSE [backfill EXCEPT !.todo = Tail(@),
                             !.suspects = IF skip THEN @ ELSE
                                          IF b.ok THEN @ \ {b.h} ELSE @ \cup {b.h}]
  BY DEF BatchStep
<1>3. mem \in Memories /\ backfill \in Backfills
  BY DEF Types, WellFormed
<1> HIDE DEF b, fatal
<1>4. ASSUME skip
      PROVE  /\ UNCHANGED <<mem, rowq, metaq, discard>>
             /\ backfill' = [backfill EXCEPT !.todo = Tail(@)]
  <2>1. ~fatal
    BY <1>4 DEF fatal
  <2>2. mem' = mem /\ rowq' = rowq /\ metaq' = metaq /\ discard' = discard
    BY <1>2, <1>4, <2>1
  <2>3. backfill' = [backfill EXCEPT !.todo = Tail(@), !.suspects = @]
    BY <1>2, <1>4, <2>1
  <2> QED BY <1>3, <2>2, <2>3 DEF Backfills
<1>5. ASSUME ~skip, b.ok
      PROVE  /\ mem' = [mem EXCEPT !.body = @ \cup {b.h}] /\ UNCHANGED <<metaq, discard>>
             /\ rowq' = <<<<mem.c, b.h>>>>
             /\ backfill' = [backfill EXCEPT !.todo = Tail(@), !.suspects = @ \ {b.h}]
  <2>1. ~fatal
    BY <1>5 DEF fatal
  <2>2. mem' = [mem EXCEPT !.body = mem.body \cup {b.h}]
    BY <1>2, <1>5, <2>1 DEF BodyOf
  <2>3. mem'.body = mem.body \cup {b.h}
    BY <1>3, <2>2 DEF Memories
  <2>4. mem'.body # mem.body
    BY <1>5, <2>3
  <2>5. metaq' = metaq /\ discard' = discard /\ rowq' = <<<<mem.c, b.h>>>>
    BY <1>2, <2>1, <2>4
  <2>6. backfill' = [backfill EXCEPT !.todo = Tail(@), !.suspects = @ \ {b.h}]
    BY <1>2, <1>5, <2>1
  <2> QED BY <2>2, <2>5, <2>6
<1>6. ASSUME ~skip, ~b.ok, ~fatal
      PROVE  /\ UNCHANGED <<mem, rowq, metaq, discard>>
             /\ backfill' = [backfill EXCEPT !.todo = Tail(@), !.suspects = @ \cup {b.h}]
  <2>1. mem' = [mem EXCEPT !.body = mem.body]
    BY <1>2, <1>6 DEF BodyOf
  <2>2. mem' = mem
    BY <1>3, <2>1 DEF Memories
  <2>3. rowq' = rowq /\ metaq' = metaq /\ discard' = discard
    BY <1>2, <1>6, <2>2
  <2>4. backfill' = [backfill EXCEPT !.todo = Tail(@), !.suspects = @ \cup {b.h}]
    BY <1>2, <1>6
  <2> QED BY <2>2, <2>3, <2>4
<1>7. ASSUME fatal
      PROVE  /\ mem' = mem /\ rowq' = <<ClearRows>> /\ metaq' = Append(metaq, Clear)
             /\ discard' = "clear" /\ backfill' = NoBackfill
  BY <1>2, <1>7
<1> QED BY <1>1, <1>4, <1>5, <1>6, <1>7 DEF b, fatal

(* A write is put at the end of the queue of the meta store.               *)
LEMMA Queued ==
  ASSUME Types, ReadOnce, NEW o \in MetaOps, o.op # "read", metaq' = Append(metaq, o),
         writer' = writer
  PROVE  metaq' \in Seq(MetaOps) /\ ReadOnce'
<1>1. metaq \in Seq(MetaOps)
  BY DEF Types
<1>2. /\ metaq' \in Seq(MetaOps) /\ Len(metaq') = Len(metaq) + 1 /\ Len(metaq) \in Nat
      /\ \A i \in 1..Len(metaq) : metaq'[i] = metaq[i]
      /\ metaq'[Len(metaq) + 1] = o
  BY <1>1
<1>3. \A i \in 1..Len(metaq') : metaq'[i].op = "read" => i \in 1..Len(metaq)
  BY <1>2
<1>4. writer'.at = "read" => writer'.h \in Heights
  BY DEF ReadOnce
<1>5. ASSUME NEW i \in 1..Len(metaq'), metaq'[i].op = "read"
      PROVE  /\ writer'.at = "read"
             /\ \A k \in 1..Len(metaq') : metaq'[k].op = "read" => k = i
  <2>1. i \in 1..Len(metaq) /\ metaq[i].op = "read"
    BY <1>2, <1>3, <1>5
  <2>2. writer.at = "read" /\ \A k \in 1..Len(metaq) : metaq[k].op = "read" => k = i
    BY <2>1 DEF ReadOnce
  <2>3. \A k \in 1..Len(metaq') : metaq'[k].op = "read" => k = i
    BY <1>2, <1>3, <2>2
  <2> QED BY <2>2, <2>3
<1> QED BY <1>2, <1>4, <1>5 DEF ReadOnce

LEMMA QueueKept ==
  ASSUME ReadOnce, metaq' = metaq, writer' = writer
  PROVE  ReadOnce'
  BY DEF ReadOnce

(* Nothing is read in a queue of writes.                                   *)
LEMMA NoRead ==
  ASSUME metaq' \in Seq(MetaOps), \A i \in 1..Len(metaq') : metaq'[i].op # "read",
         writer'.at = "read" => writer'.h \in Heights
  PROVE  ReadOnce'
  BY DEF ReadOnce

(* What CommitMeta does to the queues and to the writer.                   *)
LEMMA CommitMetaBy ==
  ASSUME Types, ReadOnce, CommitMeta
  PROVE  /\ metaq # <<>> /\ Head(metaq) \in MetaOps /\ disk' = Committed(disk, Head(metaq))
         /\ rowq' = rowq \/ (rowq # <<>> /\ rowq' = Tail(rowq))
         /\ metaq' \in Seq(MetaOps) /\ writer' \in Writers /\ ReadOnce'
         /\ UNCHANGED <<page, mem, timer, lastSnapshot, fast, fastDone, backfill, discard,
                        left, harmed>>
<1> DEFINE o == Head(metaq)
           readBack == o.op = "read" /\ ~Pinned(writer.h, disk.head) /\ HeldAt(writer.h)
           put == Op("snap", At(mem.c, writer.h), "writer")
<1>1. /\ metaq # <<>> /\ (o = Clear => rowq # <<>> /\ Head(rowq) = ClearRows)
      /\ disk' = Committed(disk, o)
      /\ rowq' = IF o = Clear THEN Tail(rowq) ELSE rowq
      /\ metaq' = IF readBack THEN Append(Tail(metaq), put) ELSE Tail(metaq)
      /\ writer' = CASE readBack -> [writer EXCEPT !.at = "put"]
                     [] o.op = "read" /\ ~readBack -> Idle
                     [] OTHER -> writer
      /\ UNCHANGED <<page, mem, timer, lastSnapshot, fast, fastDone, backfill, discard,
                     left, harmed>>
  BY DEF CommitMeta
<1>2. metaq \in Seq(MetaOps) /\ writer \in Writers /\ mem.c \in Chains
  BY DEF Types, WellFormed, Memories
<1>3. /\ o \in MetaOps /\ Tail(metaq) \in Seq(MetaOps) /\ o = metaq[1]
      /\ Len(Tail(metaq)) = Len(metaq) - 1 /\ Len(metaq) \in Nat \ {0}
      /\ \A i \in 1..Len(Tail(metaq)) : Tail(metaq)[i] = metaq[i + 1]
  BY <1>1, <1>2, HeadTailProperties
<1>4. /\ [writer EXCEPT !.at = "put"] \in Writers /\ [writer EXCEPT !.at = "put"].at = "put"
      /\ Idle \in Writers /\ Idle.at = "idle"
  BY <1>2, FreshTypes DEF Writers, Idle
<1>5. CASE o.op = "read"
  <2>1. 1 \in 1..Len(metaq) /\ metaq[1].op = "read"
    BY <1>3, <1>5
  <2>2. writer.at = "read" /\ \A k \in 1..Len(metaq) : metaq[k].op = "read" => k = 1
    BY <2>1 DEF ReadOnce
  <2>3. writer.h \in Heights
    BY <2>2 DEF ReadOnce
  <2>4. put \in MetaOps /\ put.op = "snap"
    <3>1. At(mem.c, writer.h) \in Mark
      BY <1>2, <2>3, OpTypes
    <3>2. "writer" \in Owners
      BY DEF Owners
    <3> QED BY <3>1, <3>2, OpTypes DEF Op
  <2> HIDE DEF put, readBack
  <2>5. \A i \in 1..Len(Tail(metaq)) : Tail(metaq)[i].op # "read"
    BY <1>3, <2>2
  <2>6. CASE readBack
    <3>1. metaq' = Append(Tail(metaq), put) /\ writer' = [writer EXCEPT !.at = "put"]
      BY <1>1, <2>6
    <3>2. /\ metaq' \in Seq(MetaOps) /\ Len(metaq') = Len(Tail(metaq)) + 1
          /\ \A i \in 1..Len(Tail(metaq)) : metaq'[i] = Tail(metaq)[i]
          /\ metaq'[Len(Tail(metaq)) + 1] = put
      BY <1>3, <2>4, <3>1
    <3>3. \A i \in 1..Len(metaq') : metaq'[i].op # "read"
      BY <1>3, <2>4, <2>5, <3>2
    <3>4. writer' \in Writers /\ writer'.at # "read"
      BY <1>4, <3>1
    <3> QED BY <1>1, <1>3, <3>2, <3>3, <3>4, NoRead
  <2>7. CASE ~readBack
    <3>1. metaq' = Tail(metaq)
      BY <1>1, <2>7
    <3>2. writer' = Idle
      BY <1>1, <1>5, <2>7
    <3>3. \A i \in 1..Len(metaq') : metaq'[i].op # "read"
      BY <2>5, <3>1
    <3> QED BY <1>1, <1>3, <1>4, <3>1, <3>2, <3>3, NoRead
  <2> QED BY <2>6, <2>7
<1>6. CASE o.op # "read"
  <2>1. metaq' = Tail(metaq) /\ writer' = writer
    BY <1>1, <1>6
  <2>2. ReadOnce'
    <3>1. writer'.at = "read" => writer'.h \in Heights
      BY <2>1 DEF ReadOnce
    <3>2. ASSUME NEW i \in 1..Len(metaq'), metaq'[i].op = "read"
          PROVE  /\ writer'.at = "read"
                 /\ \A k \in 1..Len(metaq') : metaq'[k].op = "read" => k = i
      <4>1. i + 1 \in 1..Len(metaq) /\ metaq[i + 1].op = "read" /\ i \in Nat
        BY <1>3, <2>1, <3>2
      <4>2. writer.at = "read" /\ \A k \in 1..Len(metaq) : metaq[k].op = "read" => k = i + 1
        BY <4>1 DEF ReadOnce
      <4>3. ASSUME NEW k \in 1..Len(metaq'), metaq'[k].op = "read" PROVE k = i
        <5>1. k + 1 \in 1..Len(metaq) /\ metaq[k + 1].op = "read" /\ k \in Nat
          BY <1>3, <2>1, <4>3
        <5> QED BY <4>1, <4>2, <5>1
      <4> QED BY <2>1, <4>2, <4>3
    <3> QED BY <3>1, <3>2 DEF ReadOnce
  <2> QED BY <1>1, <1>2, <1>3, <2>1, <2>2
<1> QED BY <1>5, <1>6

-----------------------------------------------------------------------------
(* Every step keeps the types.                                             *)
Held == Types /\ ReadOnce

(* When a step leaves a part alone.                                        *)
LEMMA TypesKept ==
  ASSUME Held,
         disk' \in Disks, WellFormed(mem)', rowq' \in Seq(Rows \cup {ClearRows}),
         metaq' \in Seq(MetaOps), ReadOnce', writer' \in Writers, backfill' \in Backfills,
         left' \in [reloads : Nat, fails : Nat, stales : Nat, glitches : Nat],
         page' \in {"off", "clearing", "on"}, timer' \in BOOLEAN, fastDone' \in BOOLEAN,
         lastSnapshot' \in -1..Limit, fast' \in {"idle", "head", "snap"},
         discard' \in {"no", "clear", "version"}, harmed' \in BOOLEAN
  PROVE  Held'
  BY DEF Held, Types

LEMMA PageTypesKept ==
  ASSUME Held, Load \/ Cleared \/ \E upgrade \in BOOLEAN : Gone(upgrade)
  PROVE  Held'
<1>1. CASE Load
  <2>1. /\ UNCHANGED <<disk, lastSnapshot, writer, fast, fastDone, backfill, discard, left>>
        /\ mem' = Restored(disk) /\ timer' = (mem'.tip > mem'.base)
        /\ harmed' = (harmed \/ (disk.version /\ Loose(disk)))
    BY <1>1 DEF Load
  <2>2. \/ page' = "on" /\ metaq' = Deletions(disk) /\ rowq' = <<>>
        \/ /\ page' = "clearing" /\ rowq' = <<ClearRows>>
           /\ metaq' = <<Clear, Op("version", None, "discard")>>
    BY <1>1 DEF Load
  <2>3. WellFormed(mem)'
    BY <2>1, RestoredFormed DEF Held, Types
  <2>4. rowq' \in Seq(Rows \cup {ClearRows}) /\ page' \in {"off", "clearing", "on"}
    <3> DEFINE R == Rows \cup {ClearRows}
    <3>1. ClearRows \in R
      OBVIOUS
    <3> HIDE DEF R
    <3>2. <<>> \in Seq(R) /\ <<ClearRows>> \in Seq(R)
      BY <3>1
    <3> QED BY <2>2, <3>2 DEF R
  <2>5. metaq' \in Seq(MetaOps) /\ \A i \in 1..Len(metaq') : metaq'[i].op # "read"
    <3> DEFINE mark == Op("version", None, "discard")
    <3>1. CASE metaq' = Deletions(disk)
      BY <3>1, DeletionTypes
    <3>2. CASE metaq' = <<Clear, mark>>
      <4>1. Clear \in MetaOps /\ mark \in MetaOps /\ Clear.op # "read" /\ mark.op # "read"
        BY OpTypes DEF Clear, Op, Owners
      <4> HIDE DEF mark
      <4>2. /\ metaq' \in Seq(MetaOps) /\ Len(metaq') = 2
            /\ metaq'[1] = Clear /\ metaq'[2] = mark
        BY <3>2, <4>1
      <4> QED BY <4>1, <4>2
    <3> QED BY <2>2, <3>1, <3>2
  <2>6. ReadOnce'
    BY <2>1, <2>5, NoRead DEF Held, ReadOnce
  <2> QED BY <2>1, <2>3, <2>4, <2>5, <2>6 DEF Held, Types
<1>2. CASE Cleared
  <2>1. /\ UNCHANGED <<disk, rowq, metaq, mem, timer, lastSnapshot, writer, fast, fastDone,
                       backfill, discard, left, harmed>>
        /\ page' = "on"
    BY <1>2 DEF Cleared
  <2>2. ReadOnce'
    BY <2>1, QueueKept DEF Held
  <2> QED BY <2>1, <2>2 DEF Held, Types, WellFormed
<1>3. ASSUME NEW upgrade \in BOOLEAN, Gone(upgrade) PROVE Held'
  <2>1. /\ page' = "off" /\ mem' = Empty /\ timer' = FALSE /\ lastSnapshot' = -1
        /\ writer' = Idle /\ fast' = "idle" /\ fastDone' = FALSE
        /\ backfill' = NoBackfill /\ discard' = "no" /\ rowq' = <<>> /\ metaq' = <<>>
        /\ harmed' = harmed /\ left.reloads > 0
        /\ disk' = [disk EXCEPT !.version = @ /\ ~upgrade]
        /\ left' = [left EXCEPT !.reloads = @ - 1]
    BY <1>3 DEF Gone
  <2>2. disk' \in Disks
    <3>1. disk \in Disks
      BY DEF Held, Types
    <3>2. (disk.version /\ ~upgrade) \in BOOLEAN
      OBVIOUS
    <3> QED BY <2>1, <3>1, <3>2 DEF Disks
  <2>3. left' \in [reloads : Nat, fails : Nat, stales : Nat, glitches : Nat]
    BY <2>1 DEF Held, Types
  <2>4. ReadOnce'
    <3>1. metaq' \in Seq(MetaOps) /\ \A i \in 1..Len(metaq') : metaq'[i].op # "read"
      BY <2>1
    <3>2. writer'.at # "read"
      BY <2>1 DEF Idle
    <3> QED BY <3>1, <3>2, NoRead
  <2> QED BY <2>1, <2>2, <2>3, <2>4, FreshTypes DEF Held, Types
<1> QED BY <1>1, <1>2, <1>3

LEMMA StoreTypesKept ==
  ASSUME Held, CommitRow \/ LoseRow \/ CommitMeta
  PROVE  Held'
<1> DEFINE R == Rows \cup {ClearRows}
<1>1. rowq \in Seq(R) /\ disk \in Disks /\ WellFormed(mem)
  BY DEF Held, Types
<1>2. \A x \in R : x # ClearRows => x \in Rows
  OBVIOUS
<1> HIDE DEF R
<1>3. CASE CommitRow
  <2>1. /\ rowq # <<>> /\ Head(rowq) # ClearRows /\ rowq' = Tail(rowq)
        /\ disk' = [disk EXCEPT !.rows = @ \cup {Head(rowq)}]
        /\ UNCHANGED <<metaq, page, mem, timer, lastSnapshot, writer, fast, fastDone,
                       backfill, discard, left, harmed>>
    BY <1>3 DEF CommitRow, tab
  <2>2. Head(rowq) \in Rows /\ rowq' \in Seq(R)
    BY <1>1, <1>2, <2>1, HeadTailProperties
  <2>3. disk' \in Disks
    BY <1>1, <2>1, <2>2 DEF Disks
  <2>4. ReadOnce'
    BY <2>1, QueueKept DEF Held
  <2> QED BY <2>1, <2>2, <2>3, <2>4 DEF Held, Types, WellFormed, R
<1>4. CASE LoseRow
  <2>1. /\ rowq # <<>> /\ rowq' = Tail(rowq) /\ harmed' = TRUE /\ left.fails > 0
        /\ left' = [left EXCEPT !.fails = @ - 1]
        /\ UNCHANGED <<disk, metaq, page, mem, timer, lastSnapshot, writer, fast, fastDone,
                       backfill, discard>>
    BY <1>4 DEF LoseRow, tab
  <2>2. rowq' \in Seq(R)
    BY <1>1, <2>1, HeadTailProperties
  <2>3. left' \in [reloads : Nat, fails : Nat, stales : Nat, glitches : Nat]
    BY <2>1 DEF Held, Types
  <2>4. ReadOnce'
    BY <2>1, QueueKept DEF Held
  <2> QED BY <2>1, <2>2, <2>3, <2>4 DEF Held, Types, WellFormed, R
<1>5. CASE CommitMeta
  <2>1. /\ Head(metaq) \in MetaOps /\ disk' = Committed(disk, Head(metaq))
        /\ rowq' = rowq \/ (rowq # <<>> /\ rowq' = Tail(rowq))
        /\ metaq' \in Seq(MetaOps) /\ writer' \in Writers /\ ReadOnce'
        /\ UNCHANGED <<page, mem, timer, lastSnapshot, fast, fastDone, backfill, discard,
                       left, harmed>>
    BY <1>5, CommitMetaBy DEF Held
  <2>2. rowq' \in Seq(R)
    BY <1>1, <2>1, HeadTailProperties
  <2>3. disk' \in Disks
    BY <1>1, <2>1, CommittedTypes
  <2> QED BY <2>1, <2>2, <2>3 DEF Held, Types, WellFormed, R
<1> QED BY <1>3, <1>4, <1>5

LEMMA ChainTypesKept ==
  ASSUME Held, Extend \/ StaleFork \/ SnapshotTimer \/ SnapshotWritten
  PROVE  Held'
<1>1. /\ mem \in Memories /\ mem.body \subseteq 1..mem.tip
      /\ (mem.base + 1)..mem.tip \subseteq mem.body /\ rowq \in Seq(Rows \cup {ClearRows})
      /\ metaq \in Seq(MetaOps) /\ WellFormed(mem)
  BY DEF Held, Types, WellFormed
<1>2. CASE Extend
  <2> DEFINE h == mem.tip + 1
  <2>1. /\ mem.tip < Limit /\ mem' = [mem EXCEPT !.tip = h, !.body = @ \cup {h}]
        /\ rowq' = Append(rowq, <<mem.c, h>>) /\ timer' = TRUE
        /\ UNCHANGED <<disk, metaq, page, lastSnapshot, writer, fast, fastDone, backfill,
                       discard, left, harmed>>
    BY <1>2 DEF Extend
  <2>2. h \in Heights /\ h \in 0..Limit /\ mem.tip \in Nat /\ mem.base \in Nat /\ mem.c \in Chains
    BY <1>1, <2>1, StoreNumbers DEF Memories
  <2>3. mem' \in Memories /\ mem'.tip = h /\ mem'.base = mem.base /\ mem'.body = mem.body \cup {h}
    BY <1>1, <2>1, <2>2 DEF Memories
  <2> HIDE DEF h
  <2>4. h = mem.tip + 1
    BY DEF h
  <2>5. mem'.body \subseteq 1..mem'.tip /\ (mem'.base + 1)..mem'.tip \subseteq mem'.body
    BY <1>1, <2>2, <2>3, <2>4
  <2>6. <<mem.c, h>> \in Rows
    BY <2>2 DEF Rows
  <2>7. rowq' \in Seq(Rows \cup {ClearRows})
    BY <1>1, <2>1, <2>6
  <2>8. ReadOnce'
    BY <2>1, QueueKept DEF Held
  <2> QED BY <2>1, <2>3, <2>5, <2>7, <2>8 DEF Held, Types, WellFormed
<1>3. CASE StaleFork
  <2> DEFINE snap == Op("snap", None, "none")
             head == Op("head", None, "none")
  <2>1. /\ left.stales > 0 /\ left' = [left EXCEPT !.stales = @ - 1]
        /\ metaq' = metaq \o <<snap, head>> /\ lastSnapshot' = -1 /\ harmed' = TRUE
        /\ UNCHANGED <<disk, rowq, page, mem, timer, writer, fast, fastDone, backfill, discard>>
    BY <1>3 DEF StaleFork
  <2>2. snap \in MetaOps /\ head \in MetaOps /\ snap.op # "read" /\ head.op # "read"
    BY OpTypes DEF Op
  <2> HIDE DEF snap, head
  <2>3. left' \in [reloads : Nat, fails : Nat, stales : Nat, glitches : Nat]
    <3>1. left \in [reloads : Nat, fails : Nat, stales : Nat, glitches : Nat]
      BY DEF Held, Types
    <3>2. left.stales - 1 \in Nat
      BY <2>1, <3>1
    <3>3. left' = [left EXCEPT !.stales = left.stales - 1]
      BY <2>1
    <3> QED BY <3>1, <3>2, <3>3
  <2>4. /\ metaq' \in Seq(MetaOps) /\ Len(metaq') = Len(metaq) + 2 /\ Len(metaq) \in Nat
        /\ \A i \in 1..Len(metaq) : metaq'[i] = metaq[i]
        /\ metaq'[Len(metaq) + 1] = snap /\ metaq'[Len(metaq) + 2] = head
    <3>1. <<snap, head>> \in Seq(MetaOps)
      BY <2>2
    <3> QED BY <1>1, <2>1, <2>2, <3>1
  <2>5. \A i \in 1..Len(metaq') : metaq'[i].op = "read" => i \in 1..Len(metaq)
    BY <2>2, <2>4
  <2>6. writer'.at = "read" => writer'.h \in Heights
    BY <2>1 DEF Held, ReadOnce
  <2>7. ASSUME NEW i \in 1..Len(metaq'), metaq'[i].op = "read"
        PROVE  /\ writer'.at = "read"
               /\ \A k \in 1..Len(metaq') : metaq'[k].op = "read" => k = i
    <3>1. i \in 1..Len(metaq) /\ metaq[i].op = "read"
      BY <2>4, <2>5, <2>7
    <3>2. writer.at = "read" /\ \A k \in 1..Len(metaq) : metaq[k].op = "read" => k = i
      BY <3>1 DEF Held, ReadOnce
    <3>3. \A k \in 1..Len(metaq') : metaq'[k].op = "read" => k = i
      BY <2>4, <2>5, <3>2
    <3> QED BY <2>1, <3>2, <3>3
  <2>8. ReadOnce'
    BY <2>6, <2>7 DEF ReadOnce
  <2>9. WellFormed(mem)'
    BY <1>1, <2>1 DEF WellFormed
  <2>10. lastSnapshot' \in -1..Limit
    BY <2>1, FreshTypes
  <2>11. harmed' \in BOOLEAN
    BY <2>1
  <2> QED BY <2>1, <2>3, <2>4, <2>8, <2>9, <2>10, <2>11 DEF Held, Types
<1>4. CASE SnapshotTimer
  <2> DEFINE f == mem.tip - Depth
             o == Op("read", None, "writer")
  <2>1. /\ writer.at = "idle" /\ timer' = FALSE
        /\ UNCHANGED <<disk, rowq, page, mem, lastSnapshot, fast, fastDone, backfill, discard,
                       left, harmed>>
        /\ \/ writer' = writer /\ metaq' = metaq
           \/ /\ f > 0 /\ writer' = [writer EXCEPT !.at = "read", !.h = f]
              /\ metaq' = Append(metaq, o)
    <3>1. /\ writer.at = "idle" /\ timer' = FALSE
          /\ UNCHANGED <<disk, rowq, page, mem, lastSnapshot, fast, fastDone, backfill, discard,
                         left, harmed>>
      BY <1>4 DEF SnapshotTimer
    <3>2. IF f <= 0 \/ f = lastSnapshot
          THEN UNCHANGED <<writer, metaq>>
          ELSE /\ writer' = [writer EXCEPT !.at = "read", !.h = f]
               /\ metaq' = Append(metaq, o)
      BY <1>4 DEF SnapshotTimer
    <3>3. f \in Int
      BY <1>1, StoreNumbers DEF Memories
    <3> HIDE DEF f, o
    <3> QED BY <3>1, <3>2, <3>3
  <2>2. CASE writer' = writer /\ metaq' = metaq
    <3>1. ReadOnce'
      BY <2>2, QueueKept DEF Held
    <3> QED BY <2>1, <2>2, <3>1 DEF Held, Types, WellFormed
  <2>3. CASE /\ f > 0 /\ writer' = [writer EXCEPT !.at = "read", !.h = f]
             /\ metaq' = Append(metaq, o)
    <3>1. f \in Heights /\ f \in 0..Limit
      BY <1>1, <2>3, StoreNumbers DEF Memories
    <3>2. writer \in Writers
      BY DEF Held, Types
    <3>3. writer' \in Writers /\ writer'.at = "read" /\ writer'.h = f
      BY <2>3, <3>1, <3>2 DEF Writers
    <3>4. o \in MetaOps
      BY OpTypes DEF Owners
    <3> HIDE DEF o, f
    <3>5. /\ metaq' \in Seq(MetaOps) /\ Len(metaq') = Len(metaq) + 1 /\ Len(metaq) \in Nat
          /\ \A i \in 1..Len(metaq) : metaq'[i] = metaq[i]
      BY <1>1, <2>3, <3>4
    <3>6. \A i \in 1..Len(metaq) : metaq[i].op # "read"
      BY <2>1 DEF Held, ReadOnce
    <3>7. \A i \in 1..Len(metaq') : metaq'[i].op = "read" => i = Len(metaq) + 1
      BY <3>5, <3>6
    <3>8. ReadOnce'
      BY <3>1, <3>3, <3>7 DEF ReadOnce
    <3> QED BY <2>1, <3>3, <3>5, <3>8 DEF Held, Types, WellFormed
  <2> QED BY <2>1, <2>2, <2>3
<1>5. CASE SnapshotWritten
  <2>1. /\ writer.at = "put" /\ lastSnapshot' = writer.h /\ writer' = Idle
        /\ UNCHANGED <<disk, rowq, metaq, page, mem, timer, fast, fastDone, backfill, discard,
                       left, harmed>>
    BY <1>5 DEF SnapshotWritten
  <2>2. lastSnapshot' \in -1..Limit
    <3>1. writer.h \in 0..Limit
      BY DEF Held, Types, Writers
    <3> QED BY <2>1, <3>1, StoreNumbers
  <2>3. ReadOnce'
    <3>1. \A i \in 1..Len(metaq) : metaq[i].op # "read"
      BY <2>1 DEF Held, ReadOnce
    <3>2. writer'.at = "idle"
      BY <2>1 DEF Idle
    <3> QED BY <1>1, <2>1, <3>1, <3>2, NoRead
  <2> QED BY <2>1, <2>2, <2>3, FreshTypes DEF Held, Types, WellFormed
<1> QED BY <1>2, <1>3, <1>4, <1>5

LEMMA SyncTypesKept ==
  ASSUME Held, Fast \/ FastFails \/ Discard \/ \E c \in Chains : FastSync(c)
  PROVE  Held'
<1>1. /\ mem \in Memories /\ mem.body \subseteq 1..mem.tip /\ metaq \in Seq(MetaOps)
      /\ mem.c \in Chains /\ mem.body \subseteq Heights /\ mem.tip \in 0..Limit
  BY DEF Held, Types, WellFormed, Memories
<1>2. CASE FastPersist
  <2> DEFINE o == Op("snap", At(mem.c, Anchor), "fast")
  <2>1. /\ fast' = "snap" /\ metaq' = Append(metaq, o)
        /\ UNCHANGED <<disk, rowq, page, mem, timer, lastSnapshot, writer, fastDone, backfill,
                       discard, left, harmed>>
    BY <1>2 DEF FastPersist
  <2>2. o \in MetaOps /\ o.op # "read"
    BY <1>1, StoreNumbers, OpTypes DEF Owners, Op
  <2> HIDE DEF o
  <2>3. metaq' \in Seq(MetaOps) /\ ReadOnce'
    BY <2>1, <2>2, Queued DEF Held
  <2> QED BY <2>1, <2>3 DEF Held, Types, WellFormed
<1>3. CASE FastEnd
  <2>1. /\ fast' = "idle" /\ fastDone' = TRUE /\ lastSnapshot' = Anchor
        /\ UNCHANGED <<disk, rowq, metaq, page, mem, timer, writer, backfill, discard, left,
                       harmed>>
    BY <1>3 DEF FastEnd
  <2>2. Anchor \in -1..Limit
    BY StoreNumbers
  <2>3. ReadOnce'
    BY <2>1, QueueKept DEF Held
  <2> QED BY <2>1, <2>2, <2>3 DEF Held, Types, WellFormed
<1>4. CASE FastFails
  <2>1. /\ fastDone' = TRUE
        /\ UNCHANGED <<disk, rowq, metaq, page, mem, timer, lastSnapshot, writer, fast,
                       backfill, discard, left, harmed>>
    BY <1>4 DEF FastFails
  <2>2. ReadOnce'
    BY <2>1, QueueKept DEF Held
  <2> QED BY <2>1, <2>2 DEF Held, Types, WellFormed
<1>5. CASE DiscardVersion
  <2> DEFINE o == Op("version", None, "discard")
  <2>1. /\ discard' = "version" /\ metaq' = Append(metaq, o)
        /\ UNCHANGED <<disk, rowq, page, mem, timer, lastSnapshot, writer, fast, fastDone,
                       backfill, left, harmed>>
    BY <1>5 DEF DiscardVersion
  <2>2. o \in MetaOps /\ o.op # "read"
    BY OpTypes DEF Owners, Op
  <2> HIDE DEF o
  <2>3. metaq' \in Seq(MetaOps) /\ ReadOnce'
    BY <2>1, <2>2, Queued DEF Held
  <2> QED BY <2>1, <2>3 DEF Held, Types, WellFormed
<1>6. CASE DiscardReset
  <2>1. /\ discard' = "no" /\ lastSnapshot' = -1 /\ mem' = Empty
        /\ UNCHANGED <<disk, rowq, metaq, page, timer, writer, fast, fastDone, backfill, left,
                       harmed>>
    BY <1>6 DEF DiscardReset
  <2>2. ReadOnce'
    BY <2>1, QueueKept DEF Held
  <2>3. WellFormed(mem)'
    BY <2>1, FreshTypes DEF WellFormed
  <2> QED BY <2>1, <2>2, <2>3, FreshTypes DEF Held, Types
<1>7. ASSUME NEW c \in Chains, FastSync(c) PROVE Held'
  <2> DEFINE o == Op("head", At(c, Anchor), "fast")
             body == IF mem.c = c THEN mem.body ELSE {}
  <2>1. /\ Top - mem.tip > Backlog /\ fast' = "head" /\ metaq' = Append(metaq, o)
        /\ mem' = [c |-> c, tip |-> Anchor, base |-> Anchor, body |-> body]
        /\ UNCHANGED <<disk, rowq, page, timer, lastSnapshot, writer, fastDone, backfill,
                       discard, left, harmed>>
    BY <1>7 DEF FastSync
  <2>2. o \in MetaOps /\ o.op # "read"
    BY StoreNumbers, OpTypes DEF Owners, Op
  <2>3. body \subseteq mem.body
    OBVIOUS
  <2> HIDE DEF o, body
  <2>4. metaq' \in Seq(MetaOps) /\ ReadOnce'
    BY <2>1, <2>2, Queued DEF Held
  <2>5. Anchor \in 0..Limit /\ mem.tip <= Anchor
    BY <1>1, <2>1, StoreNumbers DEF Anchor
  <2>6. body \subseteq 1..Anchor /\ body \in SUBSET Heights
    BY <1>1, <2>3, <2>5
  <2>7. WellFormed(mem)'
    BY <2>1, <2>5, <2>6 DEF WellFormed, Memories
  <2> QED BY <2>1, <2>4, <2>7 DEF Held, Types
<1> QED BY <1>2, <1>3, <1>4, <1>5, <1>6, <1>7 DEF Fast, Discard

(* The state after a batch has been fetched and verified.                  *)
LEMMA BatchBy ==
  ASSUME Types, NEW bad, Batch(bad)
  PROVE  /\ backfill.at = "idle" /\ Missing # {} /\ bad \subseteq BatchHeights
         /\ bad # {} => left.glitches > 0
         /\ left' = [left EXCEPT !.glitches = IF bad = {} THEN @ ELSE @ - 1]
         /\ \/ backfill' = backfill
            \/ backfill' = [backfill EXCEPT !.at = "work", !.todo = BatchInOrder(bad)]
         /\ UNCHANGED <<disk, rowq, metaq, page, mem, timer, lastSnapshot, writer, fast,
                        fastDone, discard, harmed>>
<1>1. /\ backfill.at = "idle" /\ Missing # {}
      /\ UNCHANGED <<disk, rowq, metaq, page, mem, timer, lastSnapshot, writer, fast,
                     fastDone, discard, harmed>>
      /\ bad # {} => left.glitches > 0
      /\ left' = [left EXCEPT !.glitches = IF bad = {} THEN @ ELSE @ - 1]
  BY DEF Batch
<1>2. bad \subseteq BatchHeights
  BY DEF Batch, BatchHeights, FirstMissing
<1>3. backfill' = IF BatchOk(bad) = {} THEN backfill
                  ELSE [backfill EXCEPT !.at = "work", !.todo = BatchInOrder(bad)]
  BY DEF Batch, BatchInOrder, BatchOk, BatchHeights, FirstMissing
<1> QED BY <1>1, <1>2, <1>3

LEMMA BackfillTypesKept ==
  ASSUME Held, SweepHolds, Backfill \/ \E bad \in SUBSET Heights \ {{}} : Batch(bad)
  PROVE  Held'
<1>1. /\ mem \in Memories /\ mem.body \subseteq 1..mem.tip /\ metaq \in Seq(MetaOps)
      /\ (mem.base + 1)..mem.tip \subseteq mem.body
      /\ mem.c \in Chains /\ mem.tip \in 0..Limit /\ backfill \in Backfills /\ WellFormed(mem)
      /\ left \in [reloads : Nat, fails : Nat, stales : Nat, glitches : Nat] /\ Types
      /\ backfill.todo \in Seq(Blocks) /\ backfill.suspects \subseteq Heights
  BY DEF Held, Types, WellFormed, Memories, Backfills
<1>2. CASE StartBackfill
  <2>1. /\ backfill' = [NoBackfill EXCEPT !.at = "idle"]
        /\ UNCHANGED <<disk, rowq, metaq, page, mem, timer, lastSnapshot, writer, fast,
                       fastDone, discard, left, harmed>>
    BY <1>2 DEF StartBackfill
  <2>2. backfill' \in Backfills
    BY <2>1, FreshTypes DEF Backfills
  <2>3. ReadOnce'
    BY <2>1, QueueKept DEF Held
  <2> QED BY <2>1, <2>2, <2>3 DEF Held, Types, WellFormed
<1>3. ASSUME NEW bad, Batch(bad) PROVE Held'
  <2>1. /\ Missing # {}
        /\ bad # {} => left.glitches > 0
        /\ left' = [left EXCEPT !.glitches = IF bad = {} THEN @ ELSE @ - 1]
        /\ \/ backfill' = backfill
           \/ backfill' = [backfill EXCEPT !.at = "work", !.todo = BatchInOrder(bad)]
        /\ UNCHANGED <<disk, rowq, metaq, page, mem, timer, lastSnapshot, writer, fast,
                       fastDone, discard, harmed>>
    BY <1>1, <1>3, BatchBy
  <2>2. BatchInOrder(bad) \in Seq(Blocks)
    BY <1>1, <2>1, BatchFits
  <2>3. backfill' \in Backfills
    BY <1>1, <2>1, <2>2 DEF Backfills
  <2>4. left' \in [reloads : Nat, fails : Nat, stales : Nat, glitches : Nat]
    <3>1. CASE bad = {}
      BY <1>1, <2>1, <3>1
    <3>2. CASE bad # {}
      <4>1. left.glitches - 1 \in Nat
        BY <1>1, <2>1, <3>2
      <4>2. left' = [left EXCEPT !.glitches = left.glitches - 1]
        BY <2>1, <3>2
      <4> QED BY <1>1, <4>1, <4>2
    <3> QED BY <3>1, <3>2
  <2>5. ReadOnce'
    BY <2>1, QueueKept DEF Held
  <2> QED BY <2>1, <2>3, <2>4, <2>5 DEF Held, Types, WellFormed
<1>4. CASE BatchEnd
  <2> DEFINE o == Op("head", None, "none")
  <2>1. /\ backfill' = [backfill EXCEPT !.at = IF Missing = {} THEN "done" ELSE "idle"]
        /\ metaq' = IF Missing = {} THEN Append(metaq, o) ELSE metaq
        /\ UNCHANGED <<disk, rowq, page, mem, timer, lastSnapshot, writer, fast, fastDone,
                       discard, left, harmed>>
    BY <1>4 DEF BatchEnd
  <2>2. o \in MetaOps /\ o.op # "read"
    BY OpTypes DEF Op
  <2> HIDE DEF o
  <2>3. backfill' \in Backfills
    BY <1>1, <2>1 DEF Backfills
  <2>4. metaq' \in Seq(MetaOps) /\ ReadOnce'
    <3>1. CASE Missing = {}
      BY <2>1, <2>2, <3>1, Queued DEF Held
    <3>2. CASE Missing # {}
      BY <1>1, <2>1, <3>2, QueueKept DEF Held
    <3> QED BY <3>1, <3>2
  <2> QED BY <2>1, <2>3, <2>4 DEF Held, Types, WellFormed
<1>5. CASE BatchStep
  <2> DEFINE b == Head(backfill.todo)
             skip == b.h \in mem.body
             fatal == ~skip /\ ~b.ok /\ SecondFailure(b.h)
  <2>1. /\ backfill.at = "work" /\ backfill.todo # <<>> /\ rowq = <<>>
        /\ UNCHANGED <<disk, page, timer, lastSnapshot, writer, fast, fastDone, left, harmed>>
        /\ skip => /\ UNCHANGED <<mem, rowq, metaq, discard>>
                   /\ backfill' = [backfill EXCEPT !.todo = Tail(@)]
        /\ ~skip /\ b.ok =>
             /\ mem' = [mem EXCEPT !.body = @ \cup {b.h}] /\ UNCHANGED <<metaq, discard>>
             /\ rowq' = <<<<mem.c, b.h>>>>
             /\ backfill' = [backfill EXCEPT !.todo = Tail(@), !.suspects = @ \ {b.h}]
        /\ ~skip /\ ~b.ok /\ ~fatal =>
             /\ UNCHANGED <<mem, rowq, metaq, discard>>
             /\ backfill' = [backfill EXCEPT !.todo = Tail(@), !.suspects = @ \cup {b.h}]
        /\ fatal => /\ mem' = mem /\ rowq' = <<ClearRows>>
                    /\ metaq' = Append(metaq, Clear)
                    /\ discard' = "clear" /\ backfill' = NoBackfill
    BY <1>1, <1>5, BatchStepBy
  <2>2. b \in Blocks /\ Tail(backfill.todo) \in Seq(Blocks) /\ b.h \in Heights
    <3>1. b \in Blocks /\ Tail(backfill.todo) \in Seq(Blocks)
      BY <1>1, <2>1, HeadTailProperties
    <3> QED BY <3>1 DEF Blocks
  <2> HIDE DEF b, fatal
  <2>3. CASE skip
    <3>1. backfill' \in Backfills
      BY <1>1, <2>1, <2>2, <2>3 DEF Backfills
    <3>2. ReadOnce'
      BY <2>1, <2>3, QueueKept DEF Held
    <3>3. UNCHANGED <<mem, rowq, metaq, discard>>
      BY <2>1, <2>3
    <3> QED BY <2>1, <3>1, <3>2, <3>3 DEF Held, Types, WellFormed
  <2>4. CASE ~skip /\ b.ok
    <3>1. /\ mem' = [mem EXCEPT !.body = @ \cup {b.h}] /\ UNCHANGED <<metaq, discard>>
          /\ rowq' = <<<<mem.c, b.h>>>>
          /\ backfill' = [backfill EXCEPT !.todo = Tail(@), !.suspects = @ \ {b.h}]
      BY <2>1, <2>4
    <3>2. backfill' \in Backfills
      BY <1>1, <2>2, <3>1 DEF Backfills
    <3>3. ReadOnce'
      BY <2>1, <3>1, QueueKept DEF Held
    <3>4. rowq' \in Seq(Rows \cup {ClearRows})
      <4> DEFINE r == <<mem.c, b.h>>
      <4>1. r \in Rows \cup {ClearRows}
        BY <1>1, <2>2 DEF Rows
      <4>2. rowq' = <<r>>
        BY <3>1
      <4> HIDE DEF r
      <4> QED BY <4>1, <4>2
    <3>5. WellFormed(mem)'
      <4>1. b.h \in 1..mem.tip
        <5>1. 1 \in 1..Len(backfill.todo) /\ b = backfill.todo[1]
          BY <1>1, <2>1 DEF b
        <5>2. b.h <= mem.tip
          BY <2>1, <5>1 DEF SweepHolds
        <5> QED BY <1>1, <2>2, <5>2, StoreNumbers
      <4> QED BY <1>1, <2>2, <3>1, <4>1 DEF WellFormed, Memories
    <3> QED BY <2>1, <3>1, <3>2, <3>3, <3>4, <3>5 DEF Held, Types
  <2>5. CASE ~skip /\ ~b.ok /\ ~fatal
    <3>1. /\ UNCHANGED <<mem, rowq, metaq, discard>>
          /\ backfill' = [backfill EXCEPT !.todo = Tail(@), !.suspects = @ \cup {b.h}]
      BY <2>1, <2>5
    <3>2. backfill' \in Backfills
      BY <1>1, <2>2, <3>1 DEF Backfills
    <3>3. ReadOnce'
      BY <2>1, <3>1, QueueKept DEF Held
    <3> QED BY <2>1, <3>1, <3>2, <3>3 DEF Held, Types, WellFormed
  <2>6. CASE fatal
    <3>1. /\ mem' = mem /\ rowq' = <<ClearRows>> /\ metaq' = Append(metaq, Clear)
          /\ discard' = "clear" /\ backfill' = NoBackfill
      BY <2>1, <2>6
    <3>2. Clear \in MetaOps /\ Clear.op # "read"
      BY OpTypes DEF Clear, Op
    <3>3. metaq' \in Seq(MetaOps) /\ ReadOnce'
      BY <2>1, <3>1, <3>2, Queued DEF Held
    <3>4. rowq' \in Seq(Rows \cup {ClearRows})
      <4> DEFINE R == Rows \cup {ClearRows}
      <4>1. ClearRows \in R
        OBVIOUS
      <4> HIDE DEF R
      <4>2. <<ClearRows>> \in Seq(R)
        BY <4>1
      <4> QED BY <3>1, <4>2 DEF R
    <3> QED BY <2>1, <3>1, <3>3, <3>4, FreshTypes DEF Held, Types, WellFormed
  <2> QED BY <2>3, <2>4, <2>5, <2>6 DEF fatal
<1> QED BY <1>2, <1>3, <1>4, <1>5 DEF Backfill

(* The types are inductive together with SweepHolds.                       *)
LEMMA EveryStepTyped ==
  ASSUME Held, SweepHolds, Next
  PROVE  Held'
<1>1. CASE Load \/ Cleared \/ \E upgrade \in BOOLEAN : Gone(upgrade)
  BY <1>1, PageTypesKept
<1>2. CASE CommitRow \/ LoseRow \/ CommitMeta
  BY <1>2, StoreTypesKept
<1>3. CASE Extend \/ StaleFork \/ SnapshotTimer \/ SnapshotWritten
  BY <1>3, ChainTypesKept
<1>4. CASE Fast \/ FastFails \/ Discard \/ \E c \in Chains : FastSync(c)
  BY <1>4, SyncTypesKept
<1>5. CASE Backfill \/ \E bad \in SUBSET Heights \ {{}} : Batch(bad)
  BY <1>5, BackfillTypesKept
<1> QED BY <1>1, <1>2, <1>3, <1>4, <1>5, Zenon DEF Next

-----------------------------------------------------------------------------
(* The sweep.                                                              *)

(* The steps that concern neither the chain nor its sweep.                 *)
Aside ==
  \/ CommitRow \/ LoseRow \/ CommitMeta \/ StaleFork \/ SnapshotTimer \/ SnapshotWritten
  \/ Fast \/ FastFails

LEMMA AsideLeaves ==
  ASSUME Held, Aside
  PROVE  UNCHANGED <<page, mem, backfill, discard>> /\ left'.glitches = left.glitches
<1>1. left \in [reloads : Nat, fails : Nat, stales : Nat, glitches : Nat]
  BY DEF Held, Types
<1>2. CASE CommitRow
  BY <1>2 DEF CommitRow, tab
<1>3. CASE LoseRow
  <2>1. UNCHANGED tab /\ left' = [left EXCEPT !.fails = @ - 1]
    BY <1>3 DEF LoseRow
  <2> QED BY <1>1, <2>1 DEF tab
<1>4. CASE CommitMeta
  BY <1>4, CommitMetaBy DEF Held
<1>5. CASE StaleFork
  <2>1. UNCHANGED <<page, mem, backfill, discard>> /\ left' = [left EXCEPT !.stales = @ - 1]
    BY <1>5 DEF StaleFork
  <2> QED BY <1>1, <2>1
<1>6. CASE SnapshotTimer
  BY <1>6 DEF SnapshotTimer
<1>7. CASE SnapshotWritten
  BY <1>7 DEF SnapshotWritten
<1>8. CASE Fast
  BY <1>8 DEF Fast, FastPersist, FastEnd
<1>9. CASE FastFails
  BY <1>9 DEF FastFails
<1> QED BY <1>2, <1>3, <1>4, <1>5, <1>6, <1>7, <1>8, <1>9 DEF Aside

(* What the other steps do to the chain and to its sweep.                  *)
LEMMA PageMoves ==
  ASSUME Load \/ Cleared \/ \E upgrade \in BOOLEAN : Gone(upgrade)
  PROVE  \/ /\ page = "off" /\ page' # "off" /\ mem' = Restored(disk)
            /\ UNCHANGED <<disk, backfill, discard, left>>
         \/ /\ page = "clearing" /\ page' = "on"
            /\ UNCHANGED <<disk, rowq, mem, backfill, discard, left>>
         \/ page' = "off" /\ backfill' = NoBackfill /\ discard' = "no" /\ mem' = Empty
<1>1. ASSUME Load
      PROVE  /\ page = "off" /\ page' # "off" /\ mem' = Restored(disk)
             /\ UNCHANGED <<disk, backfill, discard, left>>
  BY <1>1 DEF Load
<1>2. ASSUME Cleared
      PROVE  /\ page = "clearing" /\ page' = "on"
             /\ UNCHANGED <<disk, rowq, mem, backfill, discard, left>>
  BY <1>2 DEF Cleared
<1>3. ASSUME NEW upgrade \in BOOLEAN, Gone(upgrade)
      PROVE  page' = "off" /\ backfill' = NoBackfill /\ discard' = "no" /\ mem' = Empty
  BY <1>3 DEF Gone
<1> QED BY <1>1, <1>2, <1>3

LEMMA MemTip ==
  ASSUME Held
  PROVE  mem.tip \in Nat /\ mem \in Memories /\ mem.c \in Chains
  BY StoreNumbers DEF Held, Types, WellFormed, Memories

LEMMA SweepUnmoved ==
  ASSUME Held, SweepHolds, UNCHANGED <<page, backfill, discard>>, mem'.tip \in Nat,
         mem.tip <= mem'.tip \/ ~Sweeping
  PROVE  SweepHolds'
<1>1. CASE ~Sweeping
  BY <1>1 DEF SweepHolds, Sweeping
<1>2. CASE Sweeping /\ mem.tip <= mem'.tip
  <2>1. page = "on" /\ Top <= mem.tip /\ discard = "no"
    BY <1>2 DEF SweepHolds
  <2>2. Top <= mem'.tip
    BY <1>2, <2>1, MemTip, StoreNumbers
  <2>3. ASSUME backfill'.at = "work", NEW i \in 1..Len(backfill'.todo)
        PROVE  backfill'.todo[i].h <= mem'.tip
    <3>1. backfill.todo[i].h <= mem.tip
      BY <2>3 DEF SweepHolds
    <3>2. backfill.todo[i].h \in Nat
      <4>1. backfill.todo \in Seq(Blocks) /\ i \in 1..Len(backfill.todo)
        BY <2>3 DEF Held, Types, Backfills
      <4>2. backfill.todo[i] \in Blocks
        BY <4>1, ElementOfSeq
      <4> QED BY <4>2, StoreNumbers DEF Blocks
    <3> QED BY <1>2, <3>1, <3>2, MemTip
  <2> QED BY <2>1, <2>2, <2>3 DEF SweepHolds, Sweeping
<1> QED BY <1>1, <1>2

LEMMA SweepKept ==
  ASSUME Held, SweepHolds, Next
  PROVE  SweepHolds'
<1>1. CASE Load \/ Cleared \/ \E upgrade \in BOOLEAN : Gone(upgrade)
  <2>1. CASE page = "off" /\ page' # "off" /\ UNCHANGED <<backfill, discard>>
    BY <2>1 DEF SweepHolds, Sweeping
  <2>2. CASE page = "clearing" /\ page' = "on" /\ UNCHANGED <<mem, backfill, discard>>
    BY <2>2 DEF SweepHolds, Sweeping
  <2>3. CASE page' = "off" /\ backfill' = NoBackfill /\ discard' = "no"
    BY <2>3 DEF SweepHolds, Sweeping, NoBackfill
  <2> QED BY <1>1, <2>1, <2>2, <2>3, PageMoves
<1>2. CASE Aside
  <2>1. UNCHANGED <<page, mem, backfill, discard>>
    BY <1>2, AsideLeaves
  <2>2. mem'.tip \in Nat /\ mem.tip <= mem'.tip
    BY <2>1, MemTip
  <2> QED BY <2>1, <2>2, SweepUnmoved
<1>3. CASE Extend
  <2>1. UNCHANGED <<page, backfill, discard>> /\ mem' = [mem EXCEPT !.tip = mem.tip + 1,
                                                    !.body = @ \cup {mem.tip + 1}]
    BY <1>3 DEF Extend
  <2>2. mem'.tip \in Nat /\ mem.tip <= mem'.tip
    BY <2>1, MemTip DEF Memories
  <2> QED BY <2>1, <2>2, SweepUnmoved
<1>4. ASSUME NEW c \in Chains, FastSync(c) PROVE SweepHolds'
  <2>1. UNCHANGED <<page, backfill, discard>> /\ mem'.tip = Anchor /\ Top - mem.tip > Backlog
    BY <1>4 DEF FastSync
  <2>2. ~Sweeping
    BY <2>1, MemTip, StoreNumbers DEF SweepHolds
  <2>3. mem'.tip \in Nat
    BY <2>1, StoreNumbers
  <2> QED BY <2>1, <2>2, <2>3, SweepUnmoved
<1>5. CASE Discard
  <2>1. discard # "no" /\ UNCHANGED <<page, backfill>>
    BY <1>5 DEF Discard, DiscardVersion, DiscardReset
  <2>2. ~Sweeping /\ page # "off"
    BY <2>1 DEF SweepHolds
  <2> QED BY <2>1, <2>2 DEF SweepHolds, Sweeping
<1>6. CASE StartBackfill
  <2>1. /\ page = "on" /\ discard = "no" /\ mem.tip >= Top
        /\ backfill' = [NoBackfill EXCEPT !.at = "idle"] /\ UNCHANGED <<page, mem, discard>>
    BY <1>6 DEF StartBackfill
  <2>2. backfill'.at = "idle"
    BY <2>1 DEF NoBackfill
  <2>3. Top <= mem.tip
    BY <2>1, MemTip, StoreNumbers
  <2> QED BY <2>1, <2>2, <2>3 DEF SweepHolds, Sweeping
<1>7. ASSUME NEW bad, Batch(bad) PROVE SweepHolds'
  <2>1. Types /\ mem.tip \in Nat /\ backfill \in Backfills
    BY MemTip DEF Held, Types
  <2>2. /\ backfill.at = "idle" /\ Missing # {} /\ UNCHANGED <<page, mem, discard>>
        /\ \/ backfill' = backfill
           \/ backfill' = [backfill EXCEPT !.at = "work", !.todo = BatchInOrder(bad)]
    BY <1>7, <2>1, BatchBy
  <2>3. page = "on" /\ Top <= mem.tip /\ discard = "no"
    BY <2>2 DEF SweepHolds, Sweeping
  <2>4. CASE backfill' = backfill
    BY <2>1, <2>2, <2>4, SweepUnmoved
  <2>5. CASE backfill' = [backfill EXCEPT !.at = "work", !.todo = BatchInOrder(bad)]
    <3>1. backfill'.todo = BatchInOrder(bad)
      BY <2>1, <2>5 DEF Backfills
    <3>2. \A i \in 1..Len(BatchInOrder(bad)) : BatchInOrder(bad)[i].h \in 1..mem.tip
      BY <2>1, <2>2, BatchFits
    <3>3. \A i \in 1..Len(backfill'.todo) : backfill'.todo[i].h <= mem'.tip
      BY <2>1, <2>2, <3>1, <3>2
    <3> QED BY <2>2, <2>3, <3>3 DEF SweepHolds
  <2> QED BY <2>2, <2>4, <2>5
<1>8. CASE BatchStep
  <2>1. Types /\ mem \in Memories /\ backfill \in Backfills /\ mem.tip \in Nat
    BY MemTip DEF Held, Types
  <2>2. /\ backfill.at = "work" /\ backfill.todo # <<>> /\ page' = page
        /\ \/ /\ mem'.tip = mem.tip /\ discard' = discard /\ backfill'.at = backfill.at
              /\ backfill'.todo = Tail(backfill.todo)
           \/ backfill' = NoBackfill
    <3>1. [mem EXCEPT !.body = @ \cup {Head(backfill.todo).h}].tip = mem.tip
      BY <2>1 DEF Memories
    <3> QED BY <1>8, <2>1, <3>1, BatchStepBy DEF Backfills
  <2>3. page = "on" /\ Top <= mem.tip /\ discard = "no"
    BY <2>2 DEF SweepHolds, Sweeping
  <2>4. CASE backfill' = NoBackfill
    BY <2>2, <2>3, <2>4 DEF SweepHolds, Sweeping, NoBackfill
  <2>5. CASE /\ mem'.tip = mem.tip /\ discard' = discard /\ backfill'.at = backfill.at
             /\ backfill'.todo = Tail(backfill.todo)
    <3>1. ASSUME NEW i \in 1..Len(backfill'.todo) PROVE backfill'.todo[i].h <= mem'.tip
      <4>1. backfill.todo \in Seq(Blocks)
        BY <2>1 DEF Backfills
      <4>2. /\ Len(Tail(backfill.todo)) = Len(backfill.todo) - 1 /\ Len(backfill.todo) \in Nat
            /\ \A k \in 1..Len(Tail(backfill.todo)) :
                 Tail(backfill.todo)[k] = backfill.todo[k + 1]
        BY <2>2, <4>1, HeadTailProperties
      <4>3. i + 1 \in 1..Len(backfill.todo) /\ backfill'.todo[i] = backfill.todo[i + 1]
        BY <2>5, <3>1, <4>2
      <4> QED BY <2>2, <2>5, <4>3 DEF SweepHolds
    <3> QED BY <2>2, <2>3, <2>5, <3>1 DEF SweepHolds
  <2> QED BY <2>2, <2>4, <2>5
<1>9. CASE BatchEnd
  <2>1. /\ backfill.at = "work" /\ UNCHANGED <<page, mem, discard>>
        /\ backfill' = [backfill EXCEPT !.at = IF Missing = {} THEN "done" ELSE "idle"]
    BY <1>9 DEF BatchEnd
  <2>2. backfill'.at # "work"
    BY <2>1 DEF Held, Types, Backfills
  <2> QED BY <2>1, <2>2 DEF SweepHolds, Sweeping
<1> QED BY <1>1, <1>2, <1>3, <1>4, <1>5, <1>6, <1>7, <1>8, <1>9, Zenon
        DEF Next, Aside, Backfill

-----------------------------------------------------------------------------
(* No block without proof of work is stored or attached.                   *)

LEMMA CheckedRow ==
  ASSUME Held, NEW h \in Heights, ~Without(h)
  PROVE  <<mem.c, h>> \in GoodRows \cup {ClearRows}
  BY MemTip DEF GoodRows, Rows, Without

(* The rows on disk, when something is committed.                          *)
LEMMA RowsShrink ==
  ASSUME NEW d \in Disks, NEW o \in MetaOps
  PROVE  Committed(d, o).rows \subseteq d.rows
<1>1. o.op \in {"head", "snap", "version", "clear", "read"}
  BY DEF MetaOps
<1>2. CASE o.op = "head"
  BY <1>2 DEF Committed, Disks
<1>3. CASE o.op = "snap"
  BY <1>3 DEF Committed, Disks
<1>4. CASE o.op = "version"
  BY <1>4 DEF Committed, Disks
<1>5. CASE o.op = "clear"
  BY <1>5 DEF Committed, Disks
<1>6. CASE o.op = "read"
  BY <1>6 DEF Committed, Disks
<1> QED BY <1>1, <1>2, <1>3, <1>4, <1>5, <1>6

LEMMA AsideChecked ==
  ASSUME Held, OnlyChecked, Aside
  PROVE  OnlyChecked'
<1> DEFINE R == GoodRows \cup {ClearRows}
<1>1. UNCHANGED <<mem, backfill>>
  BY AsideLeaves
<1>2. (backfill'.at = "work" => TodoChecked') /\ Checked(mem)'
  BY <1>1 DEF OnlyChecked, TodoChecked, Checked
<1>3. disk.rows \subseteq GoodRows /\ rowq \in Seq(R) /\ disk \in Disks
  BY DEF OnlyChecked, Held, Types
<1>4. \A x \in R : x # ClearRows => x \in GoodRows
  OBVIOUS
<1> HIDE DEF R
<1>5. disk'.rows \subseteq GoodRows /\ rowq' \in Seq(R)
  <2>1. CASE CommitRow
    <3>1. /\ rowq # <<>> /\ Head(rowq) # ClearRows /\ rowq' = Tail(rowq)
          /\ disk' = [disk EXCEPT !.rows = @ \cup {Head(rowq)}]
      BY <2>1 DEF CommitRow
    <3>2. Head(rowq) \in R /\ Tail(rowq) \in Seq(R)
      BY <1>3, <3>1, HeadTailProperties
    <3>3. disk'.rows = disk.rows \cup {Head(rowq)}
      BY <1>3, <3>1 DEF Disks
    <3> QED BY <1>3, <1>4, <3>1, <3>2, <3>3
  <2>2. CASE LoseRow
    <3>1. rowq # <<>> /\ rowq' = Tail(rowq) /\ disk' = disk
      BY <2>2 DEF LoseRow
    <3> QED BY <1>3, <3>1, HeadTailProperties
  <2>3. CASE CommitMeta
    <3>1. /\ Head(metaq) \in MetaOps /\ disk' = Committed(disk, Head(metaq))
          /\ rowq' = rowq \/ (rowq # <<>> /\ rowq' = Tail(rowq))
      BY <2>3, CommitMetaBy DEF Held
    <3>2. disk'.rows \subseteq disk.rows
      BY <1>3, <3>1, RowsShrink
    <3> QED BY <1>3, <3>1, <3>2, HeadTailProperties
  <2>4. CASE StaleFork \/ SnapshotTimer \/ SnapshotWritten \/ Fast \/ FastFails
    <3>1. disk' = disk /\ rowq' = rowq
      BY <2>4 DEF StaleFork, SnapshotTimer, SnapshotWritten, Fast, FastPersist, FastEnd,
                  FastFails
    <3> QED BY <1>3, <3>1
  <2> QED BY <2>1, <2>2, <2>3, <2>4 DEF Aside
<1> QED BY <1>2, <1>5 DEF OnlyChecked, R

(* A block of the chain in memory that is checked joins its bodies.        *)
LEMMA CheckedJoins ==
  ASSUME Held, OnlyChecked, NEW h \in Heights, ~Without(h), disk' = disk,
         mem'.c = mem.c, mem'.body = mem.body \cup {h}
  PROVE  Checked(mem)' /\ disk'.rows \subseteq GoodRows
<1>1. Checked(mem) /\ disk.rows \subseteq GoodRows
  BY DEF OnlyChecked
<1> QED BY <1>1 DEF Checked, Without

LEMMA CheckedKept ==
  ASSUME Held, SweepHolds, OnlyChecked, Next
  PROVE  OnlyChecked'
<1> DEFINE R == GoodRows \cup {ClearRows}
<1>1. /\ mem.tip \in Nat /\ mem \in Memories /\ mem.c \in Chains /\ Types /\ disk \in Disks
      /\ backfill \in Backfills /\ disk.rows \subseteq GoodRows /\ rowq \in Seq(R)
      /\ Checked(mem) /\ ClearRows \in R
  BY MemTip DEF Held, Types, OnlyChecked
<1>2. <<>> \in Seq(R) /\ <<ClearRows>> \in Seq(R)
  <2> HIDE DEF R
  <2> QED BY <1>1
<1>3. ASSUME UNCHANGED <<mem, disk>>, rowq' \in Seq(R),
             backfill'.at = "work" => backfill' = backfill
      PROVE  OnlyChecked'
  BY <1>1, <1>3 DEF OnlyChecked, TodoChecked, Checked
<1>4. ASSUME ~Sweeping, ~Sweeping', Checked(mem)', disk'.rows \subseteq GoodRows,
             rowq' \in Seq(R)
      PROVE  OnlyChecked'
  BY <1>4 DEF OnlyChecked, Sweeping
<1>5. CASE Load
  <2>1. /\ page = "off" /\ mem' = Restored(disk) /\ UNCHANGED <<disk, backfill>>
        /\ rowq' \in {<<>>, <<ClearRows>>}
    BY <1>5 DEF Load
  <2>2. ~Sweeping /\ ~Sweeping'
    BY <2>1 DEF SweepHolds, Sweeping
  <2>3. Checked(mem)'
    <3>1. /\ mem'.body \subseteq RowsOf(disk, mem'.c) /\ mem'.body \subseteq Heights
      BY <1>1, <2>1, RestoredFormed DEF WellFormed, Memories
    <3>2. \A h \in RowsOf(disk, "forged") : h \notin Forged
      BY <1>1 DEF RowsOf, GoodRows
    <3> QED BY <3>1, <3>2 DEF Checked
  <2>4. rowq' \in Seq(R)
    BY <1>2, <2>1
  <2>5. disk'.rows \subseteq GoodRows
    BY <1>1, <2>1
  <2> QED BY <1>4, <2>2, <2>3, <2>4, <2>5
<1>6. CASE Cleared
  <2>1. UNCHANGED <<mem, disk, rowq, backfill>>
    BY <1>6 DEF Cleared
  <2> QED BY <1>1, <1>3, <2>1
<1>7. ASSUME NEW upgrade \in BOOLEAN, Gone(upgrade) PROVE OnlyChecked'
  <2>1. /\ mem' = Empty /\ backfill' = NoBackfill /\ rowq' = <<>>
        /\ disk' = [disk EXCEPT !.version = @ /\ ~upgrade]
    BY <1>7 DEF Gone
  <2>2. disk'.rows = disk.rows
    BY <1>1, <2>1 DEF Disks
  <2>3. backfill'.at # "work" /\ Checked(mem)'
    BY <2>1 DEF NoBackfill, Empty, Checked
  <2> QED BY <1>1, <1>2, <2>1, <2>2, <2>3 DEF OnlyChecked
<1>8. CASE Aside
  BY <1>8, AsideChecked
<1>9. CASE Extend
  <2> DEFINE h == mem.tip + 1
  <2>1. /\ mem.tip < Limit /\ ~Without(h) /\ mem' = [mem EXCEPT !.tip = h, !.body = @ \cup {h}]
        /\ rowq' = Append(rowq, <<mem.c, h>>) /\ UNCHANGED <<disk, backfill>>
    BY <1>9 DEF Extend
  <2>2. h \in Heights
    BY <1>1, <2>1, StoreNumbers
  <2>3. mem'.c = mem.c /\ mem'.body = mem.body \cup {h}
    BY <1>1, <2>1 DEF Memories
  <2> HIDE DEF h
  <2>4. Checked(mem)' /\ disk'.rows \subseteq GoodRows
    BY <2>1, <2>2, <2>3, CheckedJoins
  <2>5. rowq' \in Seq(R)
    <3>1. <<mem.c, h>> \in R
      BY <2>1, <2>2, CheckedRow
    <3> HIDE DEF R
    <3> QED BY <1>1, <2>1, <3>1
  <2>6. backfill'.at = "work" => TodoChecked'
    BY <2>1, <2>3 DEF OnlyChecked, TodoChecked
  <2> QED BY <2>1, <2>4, <2>5, <2>6 DEF OnlyChecked
<1>10. ASSUME NEW c \in Chains, FastSync(c) PROVE OnlyChecked'
  <2>1. /\ Top - mem.tip > Backlog /\ UNCHANGED <<disk, rowq, backfill>>
        /\ mem' = [c |-> c, tip |-> Anchor, base |-> Anchor,
                   body |-> IF mem.c = c THEN mem.body ELSE {}]
    BY <1>10 DEF FastSync
  <2>2. ~Sweeping /\ ~Sweeping'
    BY <1>1, <2>1, StoreNumbers DEF SweepHolds, Sweeping
  <2>3. Checked(mem)'
    BY <1>1, <2>1 DEF Checked
  <2> QED BY <1>1, <1>4, <2>1, <2>2, <2>3
<1>11. CASE Discard
  <2>1. discard # "no" /\ UNCHANGED <<disk, rowq, backfill>> /\ mem' \in {mem, Empty}
    BY <1>11 DEF Discard, DiscardVersion, DiscardReset
  <2>2. ~Sweeping /\ ~Sweeping'
    BY <2>1 DEF SweepHolds, Sweeping
  <2>3. Checked(mem)'
    BY <1>1, <2>1 DEF Checked, Empty
  <2> QED BY <1>1, <1>4, <2>1, <2>2, <2>3
<1>12. CASE StartBackfill
  <2>1. UNCHANGED <<mem, disk, rowq>> /\ backfill' = [NoBackfill EXCEPT !.at = "idle"]
    BY <1>12 DEF StartBackfill
  <2>2. backfill'.at # "work"
    BY <2>1 DEF NoBackfill
  <2> QED BY <1>1, <1>3, <2>1, <2>2
<1>13. ASSUME NEW bad, Batch(bad) PROVE OnlyChecked'
  <2>1. /\ Missing # {} /\ UNCHANGED <<mem, disk, rowq>>
        /\ \/ backfill' = backfill
           \/ backfill' = [backfill EXCEPT !.at = "work", !.todo = BatchInOrder(bad)]
    BY <1>1, <1>13, BatchBy
  <2>2. CASE backfill' = backfill
    BY <1>1, <1>3, <2>1, <2>2
  <2>3. CASE backfill' = [backfill EXCEPT !.at = "work", !.todo = BatchInOrder(bad)]
    <3>1. backfill'.todo = BatchInOrder(bad)
      BY <1>1, <2>3 DEF Backfills
    <3>2. \A i \in 1..Len(BatchInOrder(bad)) :
            BatchInOrder(bad)[i].ok => BatchInOrder(bad)[i].h \in BatchOk(bad)
      BY <1>1, <2>1, BatchFits
    <3>3. \A h \in BatchOk(bad) : ~Without(h)
      BY DEF BatchOk
    <3>4. TodoChecked'
      BY <2>1, <3>1, <3>2, <3>3 DEF TodoChecked, Without
    <3> QED BY <1>1, <2>1, <3>4 DEF OnlyChecked, Checked
  <2> QED BY <2>1, <2>2, <2>3
<1>14. CASE BatchEnd
  <2>1. /\ UNCHANGED <<mem, disk, rowq>>
        /\ backfill' = [backfill EXCEPT !.at = IF Missing = {} THEN "done" ELSE "idle"]
    BY <1>14 DEF BatchEnd
  <2>2. backfill'.at # "work"
    BY <1>1, <2>1 DEF Backfills
  <2> QED BY <1>1, <1>3, <2>1, <2>2
<1>15. CASE BatchStep
  <2> DEFINE b == Head(backfill.todo)
             skip == b.h \in mem.body
             fatal == ~skip /\ ~b.ok /\ SecondFailure(b.h)
  <2>1. /\ backfill.at = "work" /\ backfill.todo # <<>> /\ UNCHANGED disk
        /\ skip => /\ UNCHANGED <<mem, rowq>>
                   /\ backfill' = [backfill EXCEPT !.todo = Tail(@)]
        /\ ~skip /\ b.ok =>
             /\ mem' = [mem EXCEPT !.body = @ \cup {b.h}] /\ rowq' = <<<<mem.c, b.h>>>>
             /\ backfill' = [backfill EXCEPT !.todo = Tail(@), !.suspects = @ \ {b.h}]
        /\ ~skip /\ ~b.ok /\ ~fatal =>
             /\ UNCHANGED <<mem, rowq>>
             /\ backfill' = [backfill EXCEPT !.todo = Tail(@), !.suspects = @ \cup {b.h}]
        /\ fatal => mem' = mem /\ rowq' = <<ClearRows>> /\ backfill' = NoBackfill
    BY <1>1, <1>15, BatchStepBy
  <2>2. /\ b = backfill.todo[1] /\ 1 \in 1..Len(backfill.todo) /\ b \in Blocks
        /\ Len(Tail(backfill.todo)) = Len(backfill.todo) - 1 /\ Len(backfill.todo) \in Nat
        /\ \A k \in 1..Len(Tail(backfill.todo)) : Tail(backfill.todo)[k] = backfill.todo[k + 1]
    <3>1. backfill.todo \in Seq(Blocks)
      BY <1>1 DEF Backfills
    <3> QED BY <2>1, <3>1, HeadTailProperties
  <2>3. b.h \in Heights /\ (b.ok => ~Without(b.h))
    BY <2>1, <2>2 DEF Blocks, OnlyChecked, TodoChecked, Without
  <2> HIDE DEF b, fatal
  <2>4. ASSUME backfill'.todo = Tail(backfill.todo), mem'.c = mem.c
        PROVE  TodoChecked'
    <3>1. \A i \in 1..Len(backfill'.todo) :
            i + 1 \in 1..Len(backfill.todo) /\ backfill'.todo[i] = backfill.todo[i + 1]
      BY <2>2, <2>4
    <3>2. TodoChecked
      BY <2>1 DEF OnlyChecked
    <3> QED BY <2>4, <3>1, <3>2 DEF TodoChecked
  <2>5. CASE fatal
    <3>1. mem' = mem /\ rowq' = <<ClearRows>> /\ backfill'.at # "work"
      BY <2>1, <2>5 DEF NoBackfill
    <3> QED BY <1>1, <1>2, <2>1, <3>1 DEF OnlyChecked, Checked
  <2>6. CASE skip \/ (~skip /\ ~b.ok /\ ~fatal)
    <3>1. UNCHANGED <<mem, rowq>>
      BY <2>1, <2>6
    <3>2. backfill'.todo = Tail(backfill.todo)
      BY <1>1, <2>1, <2>6 DEF Backfills
    <3> QED BY <1>1, <2>1, <2>4, <3>1, <3>2 DEF OnlyChecked, Checked
  <2>7. CASE ~skip /\ b.ok
    <3>1. /\ mem' = [mem EXCEPT !.body = @ \cup {b.h}] /\ rowq' = <<<<mem.c, b.h>>>>
          /\ backfill' = [backfill EXCEPT !.todo = Tail(@), !.suspects = @ \ {b.h}]
      BY <2>1, <2>7
    <3>2. mem'.c = mem.c /\ mem'.body = mem.body \cup {b.h} /\ backfill'.todo = Tail(backfill.todo)
      BY <1>1, <3>1 DEF Memories, Backfills
    <3>3. Checked(mem)' /\ disk'.rows \subseteq GoodRows
      BY <2>1, <2>3, <2>7, <3>2, CheckedJoins
    <3>4. rowq' \in Seq(R)
      <4> DEFINE r == <<mem.c, b.h>>
      <4>1. r \in R
        BY <2>3, <2>7, CheckedRow
      <4>2. rowq' = <<r>>
        BY <3>1
      <4> HIDE DEF r, R
      <4> QED BY <4>1, <4>2
    <3> QED BY <2>4, <3>2, <3>3, <3>4 DEF OnlyChecked
  <2> QED BY <2>5, <2>6, <2>7 DEF fatal
<1> QED BY <1>5, <1>6, <1>7, <1>8, <1>9, <1>10, <1>11, <1>12, <1>13, <1>14, <1>15, Zenon
        DEF Next, Aside, Backfill

-----------------------------------------------------------------------------
(* An honest chain is not discarded.                                       *)

LEMMA HonestNotSweeping ==
  ASSUME HonestSafe, ~Sweeping', left'.glitches <= 1, discard' # "no" => mem'.c = "forged"
  PROVE  HonestSafe'
  BY DEF HonestSafe, OneSuspicion, HonestKept, Sweeping

LEMMA HonestUnmoved ==
  ASSUME HonestSafe, mem'.c = mem.c, discard' = discard, backfill' = backfill,
         left'.glitches = left.glitches
  PROVE  HonestSafe'
  BY DEF HonestSafe, OneSuspicion, HonestKept, Sweeping, NewSuspects

LEMMA HonestStepKept ==
  ASSUME Held, SweepHolds, HonestSafe, BatchStep
  PROVE  HonestSafe'
<1> DEFINE b == Head(backfill.todo)
           skip == b.h \in mem.body
           fatal == ~skip /\ ~b.ok /\ SecondFailure(b.h)
<1>1. Types /\ mem \in Memories /\ mem.c \in Chains /\ backfill \in Backfills
  BY MemTip DEF Held, Types
<1>2. /\ backfill.at = "work" /\ backfill.todo # <<>> /\ left' = left
      /\ skip => /\ UNCHANGED <<mem, discard>>
                 /\ backfill' = [backfill EXCEPT !.todo = Tail(@)]
      /\ ~skip /\ b.ok =>
           /\ mem' = [mem EXCEPT !.body = @ \cup {b.h}] /\ discard' = discard
           /\ backfill' = [backfill EXCEPT !.todo = Tail(@), !.suspects = @ \ {b.h}]
      /\ ~skip /\ ~b.ok /\ ~fatal =>
           /\ UNCHANGED <<mem, discard>>
           /\ backfill' = [backfill EXCEPT !.todo = Tail(@), !.suspects = @ \cup {b.h}]
      /\ fatal => mem' = mem /\ discard' = "clear" /\ backfill' = NoBackfill
  BY <1>1, BatchStepBy
<1>3. /\ b = backfill.todo[1] /\ 1 \in 1..Len(backfill.todo) /\ b \in Blocks
      /\ Len(Tail(backfill.todo)) = Len(backfill.todo) - 1 /\ Len(backfill.todo) \in Nat
      /\ \A k \in 1..Len(Tail(backfill.todo)) : Tail(backfill.todo)[k] = backfill.todo[k + 1]
  <2>1. backfill.todo \in Seq(Blocks)
    BY <1>1 DEF Backfills
  <2> QED BY <1>2, <2>1, HeadTailProperties
<1> HIDE DEF b, fatal, skip
<1>4. discard = "no" /\ left.glitches <= 1
  BY <1>2 DEF SweepHolds, Sweeping, HonestSafe, OneSuspicion
<1>5. mem.c = "honest" => NewSuspects /\ (left.glitches > 0 => backfill.suspects = {})
  BY <1>2 DEF HonestSafe, OneSuspicion, Sweeping
<1>6. CASE fatal
  <2>1. mem.c # "honest"
    <3> SUFFICES ASSUME mem.c = "honest" PROVE FALSE
      OBVIOUS
    <3>1. ~b.ok /\ b.h \in backfill.suspects
      BY <1>6 DEF fatal, SecondFailure
    <3>2. b.h \notin backfill.suspects
      BY <1>3, <1>5, <3>1 DEF NewSuspects
    <3> QED BY <3>1, <3>2
  <2>2. mem'.c = "forged"
    BY <1>1, <1>2, <1>6, <2>1 DEF Chains
  <2>3. ~Sweeping'
    BY <1>2, <1>6 DEF NoBackfill, Sweeping
  <2> QED BY <1>2, <1>4, <2>2, <2>3, HonestNotSweeping
<1>7. CASE ~fatal
  <2>1. /\ discard' = "no" /\ backfill'.at = "work" /\ backfill'.todo = Tail(backfill.todo)
        /\ mem'.c = mem.c
        /\ \/ backfill'.suspects \subseteq backfill.suspects
           \/ ~b.ok /\ backfill'.suspects = backfill.suspects \cup {b.h}
    <3>1. CASE skip
      BY <1>1, <1>2, <1>4, <3>1 DEF Backfills
    <3>2. CASE ~skip /\ b.ok
      <4>1. /\ mem' = [mem EXCEPT !.body = @ \cup {b.h}] /\ discard' = discard
            /\ backfill' = [backfill EXCEPT !.todo = Tail(@), !.suspects = @ \ {b.h}]
        BY <1>2, <3>2
      <4>2. mem'.c = mem.c
        BY <1>1, <4>1 DEF Memories
      <4>3. /\ backfill'.at = backfill.at /\ backfill'.todo = Tail(backfill.todo)
            /\ backfill'.suspects = backfill.suspects \ {b.h}
        BY <1>1, <4>1 DEF Backfills
      <4> QED BY <1>2, <1>4, <4>1, <4>2, <4>3
    <3>3. CASE ~skip /\ ~b.ok
      <4>1. /\ mem' = mem /\ discard' = discard
            /\ backfill' = [backfill EXCEPT !.todo = Tail(@), !.suspects = @ \cup {b.h}]
        BY <1>2, <1>7, <3>3
      <4>2. /\ backfill'.at = backfill.at /\ backfill'.todo = Tail(backfill.todo)
            /\ backfill'.suspects = backfill.suspects \cup {b.h}
        BY <1>1, <4>1 DEF Backfills
      <4> QED BY <1>2, <1>4, <3>3, <4>1, <4>2
    <3> QED BY <3>1, <3>2, <3>3
  <2>2. ASSUME mem'.c = "honest", left'.glitches > 0 PROVE backfill'.suspects = {}
    <3>1. NewSuspects /\ backfill.suspects = {} /\ left.glitches # 0
      BY <1>2, <1>5, <2>1, <2>2
    <3>2. b.ok
      BY <1>3, <3>1 DEF NewSuspects
    <3> QED BY <2>1, <3>1, <3>2
  <2>3. ASSUME mem'.c = "honest" PROVE NewSuspects'
    <3>1. NewSuspects
      BY <1>5, <2>1, <2>3
    <3>2. ASSUME NEW i \in 1..Len(backfill'.todo), ~backfill'.todo[i].ok
          PROVE  /\ left'.glitches = 0 /\ backfill'.todo[i].h \notin backfill'.suspects
                 /\ \A k \in 1..Len(backfill'.todo) :
                      k # i => backfill'.todo[k].h # backfill'.todo[i].h
      <4>1. /\ i \in Nat /\ i + 1 \in 1..Len(backfill.todo) /\ i + 1 # 1
            /\ backfill'.todo[i] = backfill.todo[i + 1]
        BY <1>3, <2>1, <3>2
      <4>2. /\ left.glitches = 0 /\ backfill.todo[i + 1].h \notin backfill.suspects
            /\ \A k \in 1..Len(backfill.todo) :
                 k # i + 1 => backfill.todo[k].h # backfill.todo[i + 1].h
        BY <3>1, <3>2, <4>1 DEF NewSuspects
      <4>3. b.h # backfill.todo[i + 1].h
        BY <1>3, <4>1, <4>2
      <4>4. backfill'.todo[i].h \notin backfill'.suspects
        BY <2>1, <4>1, <4>2, <4>3
      <4>5. ASSUME NEW k \in 1..Len(backfill'.todo), k # i
            PROVE  backfill'.todo[k].h # backfill'.todo[i].h
        <5>1. /\ k + 1 \in 1..Len(backfill.todo) /\ k + 1 # i + 1
              /\ backfill'.todo[k] = backfill.todo[k + 1]
          BY <1>3, <2>1, <4>1, <4>5
        <5> QED BY <4>1, <4>2, <5>1
      <4> QED BY <1>2, <4>2, <4>4, <4>5
    <3> QED BY <3>2 DEF NewSuspects
  <2> QED BY <1>2, <1>4, <2>1, <2>2, <2>3 DEF HonestSafe, OneSuspicion, HonestKept
<1> QED BY <1>6, <1>7

LEMMA HonestBatchKept ==
  ASSUME Held, SweepHolds, HonestSafe, NEW bad, Batch(bad)
  PROVE  HonestSafe'
<1> DEFINE todo == BatchInOrder(bad)
<1>1. /\ Types /\ mem.c \in Chains /\ backfill \in Backfills
      /\ left \in [reloads : Nat, fails : Nat, stales : Nat, glitches : Nat]
  BY MemTip DEF Held, Types
<1>2. /\ backfill.at = "idle" /\ Missing # {} /\ bad \subseteq BatchHeights
      /\ bad # {} => left.glitches > 0
      /\ left' = [left EXCEPT !.glitches = IF bad = {} THEN @ ELSE @ - 1]
      /\ \/ backfill' = backfill
         \/ backfill' = [backfill EXCEPT !.at = "work", !.todo = todo]
      /\ UNCHANGED <<mem, discard>>
  BY <1>1, BatchBy
<1>3. left.glitches <= 1 /\ discard = "no"
  BY <1>2 DEF HonestSafe, OneSuspicion, SweepHolds, Sweeping
<1>4. /\ left'.glitches <= left.glitches /\ left'.glitches \in Nat
      /\ bad # {} => left'.glitches = 0 /\ left.glitches > 0
  <2>1. CASE bad = {}
    BY <1>1, <1>2, <2>1
  <2>2. CASE bad # {}
    <3>1. left' = [left EXCEPT !.glitches = left.glitches - 1] /\ left.glitches > 0
      BY <1>2, <2>2
    <3>2. left'.glitches = left.glitches - 1
      BY <1>1, <3>1
    <3> QED BY <1>1, <1>3, <3>1, <3>2
  <2> QED BY <2>1, <2>2
<1>5. mem.c = "honest" /\ left.glitches > 0 => backfill.suspects = {}
  BY <1>2 DEF HonestSafe, OneSuspicion, Sweeping
<1>6. backfill'.suspects = backfill.suspects
  BY <1>1, <1>2 DEF Backfills
<1>7. mem'.c = "honest" /\ left'.glitches > 0 => backfill'.suspects = {}
  BY <1>1, <1>2, <1>4, <1>5, <1>6
<1>8. ASSUME backfill'.at = "work", mem'.c = "honest" PROVE NewSuspects'
  <2>1. backfill'.todo = todo
    BY <1>1, <1>2, <1>8 DEF Backfills
  <2>2. /\ Len(todo) \in Nat /\ FirstMissing \in Nat
        /\ \A i \in 1..Len(todo) :
             /\ todo[i].h = FirstMissing + i - 1 /\ todo[i].h \in BatchHeights
             /\ todo[i].ok = (todo[i].h \in BatchOk(bad))
    BY <1>1, <1>2, BatchFits
  <2> HIDE DEF todo
  <2>3. \A h \in BatchHeights : h \notin BatchOk(bad) => h \in bad
    BY <1>2, <1>8 DEF BatchOk, Without
  <2>4. ASSUME NEW i \in 1..Len(todo), ~todo[i].ok
        PROVE  /\ left'.glitches = 0 /\ todo[i].h \notin backfill'.suspects
               /\ \A k \in 1..Len(todo) : k # i => todo[k].h # todo[i].h
    <3>1. bad # {}
      BY <2>2, <2>3, <2>4
    <3>2. backfill'.suspects = {}
      BY <1>2, <1>4, <1>5, <1>6, <1>8, <3>1
    <3>3. \A k \in 1..Len(todo) : k # i => todo[k].h # todo[i].h
      BY <2>2
    <3> QED BY <1>4, <3>1, <3>2, <3>3
  <2> QED BY <2>1, <2>4 DEF NewSuspects
<1> QED BY <1>1, <1>2, <1>3, <1>4, <1>7, <1>8 DEF HonestSafe, OneSuspicion, HonestKept, Sweeping

LEMMA HonestStepsKept ==
  ASSUME Held, SweepHolds, HonestSafe, Next
  PROVE  HonestSafe'
<1>1. /\ mem \in Memories /\ backfill \in Backfills /\ left.glitches <= 1
      /\ left \in [reloads : Nat, fails : Nat, stales : Nat, glitches : Nat]
      /\ discard # "no" => mem.c = "forged"
  BY MemTip DEF Held, Types, HonestSafe, OneSuspicion, HonestKept
<1>2. CASE Load
  <2>1. page = "off" /\ UNCHANGED <<backfill, discard, left>>
    BY <1>2 DEF Load
  <2>2. ~Sweeping' /\ discard' = "no"
    BY <2>1 DEF SweepHolds, Sweeping
  <2> QED BY <1>1, <2>1, <2>2, HonestNotSweeping
<1>3. CASE Cleared
  <2>1. UNCHANGED <<mem, discard, backfill, left>>
    BY <1>3 DEF Cleared
  <2> QED BY <2>1, HonestUnmoved
<1>4. ASSUME NEW upgrade \in BOOLEAN, Gone(upgrade) PROVE HonestSafe'
  <2>1. backfill' = NoBackfill /\ discard' = "no" /\ left' = [left EXCEPT !.reloads = @ - 1]
    BY <1>4 DEF Gone
  <2>2. left'.glitches <= 1
    BY <1>1, <2>1
  <2>3. ~Sweeping'
    BY <2>1 DEF NoBackfill, Sweeping
  <2> QED BY <2>1, <2>2, <2>3, HonestNotSweeping
<1>5. CASE Aside
  BY <1>5, AsideLeaves, HonestUnmoved
<1>6. CASE Extend
  <2>1. UNCHANGED <<discard, backfill, left>> /\ mem'.c = mem.c
    BY <1>1, <1>6 DEF Extend, Memories
  <2> QED BY <2>1, HonestUnmoved
<1>7. ASSUME NEW c \in Chains, FastSync(c) PROVE HonestSafe'
  <2>1. Top - mem.tip > Backlog /\ discard = "no" /\ UNCHANGED <<backfill, discard, left>>
    BY <1>7 DEF FastSync
  <2>2. ~Sweeping'
    BY <2>1, MemTip, StoreNumbers DEF SweepHolds, Sweeping
  <2> QED BY <1>1, <2>1, <2>2, HonestNotSweeping
<1>8. CASE Discard
  <2>1. discard # "no" /\ UNCHANGED <<backfill, left>> /\ (mem' = mem \/ discard' = "no")
    BY <1>8 DEF Discard, DiscardVersion, DiscardReset
  <2>2. ~Sweeping'
    BY <2>1 DEF SweepHolds, Sweeping
  <2> QED BY <1>1, <2>1, <2>2, HonestNotSweeping
<1>9. CASE StartBackfill
  <2>1. backfill' = [NoBackfill EXCEPT !.at = "idle"] /\ UNCHANGED <<mem, discard, left>>
    BY <1>9 DEF StartBackfill
  <2>2. backfill'.at = "idle" /\ backfill'.suspects = {}
    BY <2>1 DEF NoBackfill
  <2> QED BY <1>1, <2>1, <2>2 DEF HonestSafe, OneSuspicion, HonestKept
<1>10. ASSUME NEW bad, Batch(bad) PROVE HonestSafe'
  BY <1>10, HonestBatchKept
<1>11. CASE BatchStep
  BY <1>11, HonestStepKept
<1>12. CASE BatchEnd
  <2>1. /\ backfill.at = "work" /\ UNCHANGED <<mem, discard, left>>
        /\ backfill' = [backfill EXCEPT !.at = IF Missing = {} THEN "done" ELSE "idle"]
    BY <1>12 DEF BatchEnd
  <2>2. backfill'.at # "work" /\ backfill'.suspects = backfill.suspects
    BY <1>1, <2>1 DEF Backfills
  <2>3. mem.c = "honest" /\ left.glitches > 0 => backfill.suspects = {}
    BY <2>1 DEF HonestSafe, OneSuspicion, Sweeping
  <2> QED BY <1>1, <2>1, <2>2, <2>3 DEF HonestSafe, OneSuspicion, HonestKept
<1> QED BY <1>2, <1>3, <1>4, <1>5, <1>6, <1>7, <1>8, <1>9, <1>10, <1>11, <1>12, Zenon
        DEF Next, Aside, Backfill

-----------------------------------------------------------------------------
(* The theorems.                                                           *)

StoreInv == Held /\ SweepHolds /\ OnlyChecked

LEMMA StoreInductive ==
  /\ Init => StoreInv
  /\ StoreInv /\ [Next]_vars => StoreInv'
<1>1. ASSUME Init PROVE StoreInv
  <2>1. /\ page = "off" /\ mem = Empty /\ writer = Idle /\ backfill = NoBackfill
        /\ discard = "no" /\ rowq = <<>> /\ metaq = <<>> /\ disk.rows = {}
    BY <1>1 DEF Init, Fresh
  <2>2. Types /\ ReadOnce
    BY <1>1, <2>1, TypesAtFirst DEF ReadOnce, Idle
  <2>3. SweepHolds
    BY <2>1 DEF SweepHolds, Sweeping, NoBackfill
  <2>4. OnlyChecked
    BY <2>1 DEF OnlyChecked, Checked, Empty, NoBackfill
  <2> QED BY <2>2, <2>3, <2>4 DEF StoreInv, Held
<1>2. ASSUME StoreInv, Next PROVE StoreInv'
  BY <1>2, EveryStepTyped, SweepKept, CheckedKept DEF StoreInv
<1>3. ASSUME StoreInv, UNCHANGED vars PROVE StoreInv'
  <2>1. UNCHANGED <<disk, rowq, metaq, page, mem, timer, lastSnapshot, writer, fast, fastDone,
                    backfill, discard, left, harmed>>
    BY <1>3 DEF vars, tab
  <2>2. Held'
    BY <1>3, <2>1 DEF StoreInv, Held, Types, WellFormed, ReadOnce
  <2>3. SweepHolds'
    BY <1>3, <2>1 DEF StoreInv, SweepHolds, Sweeping
  <2>4. OnlyChecked'
    BY <1>3, <2>1 DEF StoreInv, OnlyChecked, TodoChecked, Checked
  <2> QED BY <2>2, <2>3, <2>4 DEF StoreInv
<1> QED BY <1>1, <1>2, <1>3

(* Every variable keeps its type; what restoreFromIdb builds, on any of    *)
(* its paths and from whatever a crash left on disk, is a chain with every *)
(* body above its base and none above its tip (node.ts 315-411).           *)
THEOREM StoreTypeCorrect == Spec => []TypeOK
<1>1. StoreInv => TypeOK
  BY TypesGive DEF StoreInv, Held
<1> QED BY <1>1, StoreInductive, PTL DEF Spec

(* The sweep is full: with any number of reloads, lost writes, stale forks *)
(* and verifier glitches, no block without proof of work has its body in   *)
(* memory or a row on disk (backfill.ts 11-19).                            *)
THEOREM NothingForgedIsStored == Spec => []SweepFull
<1>1. ASSUME StoreInv PROVE SweepFull
  <2>1. disk.rows \subseteq GoodRows /\ Checked(mem)
    BY <1>1 DEF StoreInv, OnlyChecked
  <2> QED BY <2>1 DEF SweepFull, GoodRows, Checked
<1> QED BY <1>1, StoreInductive, PTL DEF Spec

(* The sweep tells a forged prefix from an honest one, when the verifier   *)
(* gives up on good blocks in one batch at most: two such batches are two  *)
(* failures of one block, which is what the code takes for a forgery       *)
(* (backfill.ts 59-68, 171-185).                                           *)
THEOREM SweepIsSound ==
  ASSUME \A u \in Budgets : u.glitches <= 1
  PROVE  Spec => []SweepSound
<1> DEFINE I == StoreInv /\ HonestSafe
<1>1. ASSUME Init PROVE I
  <2>1. left.glitches <= 1
    BY <1>1 DEF Init
  <2>2. backfill = NoBackfill /\ discard = "no"
    BY <1>1 DEF Init, Fresh
  <2>3. HonestSafe
    BY <2>1, <2>2 DEF HonestSafe, OneSuspicion, HonestKept, Sweeping, NoBackfill
  <2> QED BY <1>1, <2>3, StoreInductive
<1>2. ASSUME I, [Next]_vars PROVE I'
  <2>1. StoreInv'
    BY <1>2, StoreInductive
  <2>2. CASE Next
    BY <1>2, <2>1, <2>2, HonestStepsKept DEF StoreInv
  <2>3. CASE UNCHANGED vars
    <3>1. UNCHANGED <<mem, discard, backfill, left>>
      BY <2>3 DEF vars, tab
    <3> QED BY <1>2, <2>1, <3>1, HonestUnmoved
  <2> QED BY <1>2, <2>2, <2>3
<1>3. ASSUME I PROVE SweepSound
  <2>1. disk.rows \subseteq GoodRows /\ Checked(mem) /\ HonestKept
    BY <1>3 DEF StoreInv, OnlyChecked, HonestSafe
  <2> QED BY <2>1 DEF SweepSound, SweepFull, GoodRows, Checked
<1> QED BY <1>1, <1>2, <1>3, PTL DEF Spec
-----------------------------------------------------------------------------
(* ReloadKeeps and NoWriteLosesBlocks, proved for every tip and anchor,    *)
(* every size of a batch and every budget: whatever the order in which the *)
(* writes of blocks, snapshots, a fast sync and a backfill reach the disk, *)
(* and wherever a reload cuts them off, what is stored once all are through *)
(* gives back the chain that is in memory.                                 *)

-----------------------------------------------------------------------------
(* The invariant. It speaks of the two queues as sets, and of the place of *)
(* an element only where the order matters.                                *)

Elems(q) == {q[i] : i \in 1..Len(q)}
Puts(k) == {o \in Elems(metaq) : o.op = k}
Stored == disk.rows \cup Elems(rowq)
Known(c) == {h \in Heights : <<c, h>> \in Stored}
Late == {r \in Rows : r[2] > Top}

(* A blob is of the anchor. One is put by a fast sync only, ahead of all   *)
(* that is queued after it; and the stores are cleared once.               *)
HeadsAtAnchor ==
  /\ disk.head \in {None, At("honest", Anchor), At("forged", Anchor)}
  /\ \A i \in 1..Len(metaq) : metaq[i].op = "head" /\ metaq[i].v # None =>
       /\ i = 1 /\ fast = "head" /\ metaq[i].v = At(mem.c, Anchor)
       /\ \A k \in 1..Len(metaq) : metaq[k].op = "head" => k = 1
  /\ \A i, k \in 1..Len(metaq) : metaq[i].op = "clear" /\ metaq[k].op = "clear" => i = k
  /\ \A o \in Elems(metaq) : o.op \in {"clear", "version"} => o = Op(o.op, None, "discard")

(* What a reload relies on: at most one chain has the anchor's row, it is  *)
(* the one of the blob, and its history is complete or under the blob.     *)
DiskOk(d) ==
  /\ \A c, k \in Chains : Anchor \in RowsOf(d, c) /\ Anchor \in RowsOf(d, k) => c = k
  /\ d.head # None /\ d.snap = d.head =>
       \A c \in Chains : Anchor \in RowsOf(d, c) => c = d.head.c
  /\ \A c \in Chains : Anchor \in RowsOf(d, c) =>
       1..Anchor \subseteq RowsOf(d, c) \/ (d.head = At(c, Anchor) /\ d.snap = d.head)

Away == Fresh /\ (disk.version => DiskOk(disk))

(* The three stages of clearing the stores of another build.               *)
MarkVersion == Op("version", None, "discard")
Blank(v) == [version |-> v, rows |-> {}, head |-> None, snap |-> None]
Clearing ==
  /\ mem = Empty /\ timer = FALSE /\ writer = Idle /\ fast = "idle" /\ discard = "no"
  /\ backfill = NoBackfill
  /\ \/ rowq = <<ClearRows>> /\ metaq = <<Clear, MarkVersion>> /\ disk.version = FALSE
     \/ rowq = <<>> /\ metaq = <<MarkVersion>> /\ disk = Blank(FALSE)
     \/ rowq = <<>> /\ metaq = <<>> /\ disk = Blank(TRUE)

(* A discard before and after the stores are cleared.                      *)
BeforeClear ==
  /\ discard = "clear" /\ disk.version /\ rowq # <<>> /\ rowq[1] = ClearRows
  /\ Puts("clear") # {} /\ Puts("version") = {}
  /\ \A i \in 2..Len(rowq) : rowq[i] \in Late
AfterClear ==
  /\ disk.head = None /\ Stored \subseteq Late /\ Puts("clear") = {}
  /\ discard = "version" => disk.version \/ Puts("version") # {}
Discarding ==
  /\ discard = "no" => /\ disk.version /\ ClearRows \notin Elems(rowq)
                       /\ Puts("clear") = {} /\ Puts("version") = {}
  /\ discard # "no" => /\ fast = "idle" /\ Top <= mem.tip /\ ~Sweeping
                       /\ BeforeClear \/ AfterClear

(* The anchor's row, and a snapshot on the blob's anchor, are of the chain *)
(* in memory, which is at the anchor or above.                             *)
ReachedAnchor == \A c \in Chains : Anchor \in Known(c) => mem.c = c /\ Anchor <= mem.tip
HeadOfChain ==
  disk.head # None /\ disk.snap = disk.head => mem.c = disk.head.c /\ Anchor <= mem.tip

(* A snapshot on its way is of the chain in memory, or left over from one  *)
(* that was discarded; none on disk is of another chain that has rows for  *)
(* it.                                                                     *)
Fitting(v) == v = None \/ v.c = mem.c \/ 1 \notin Known(v.c)
SnapshotsFit ==
  /\ \A o \in Puts("snap") :
       /\ Fitting(o.v)
       /\ o.v = None \/ (o.v.c = mem.c /\ o.v.h <= mem.tip) \/ (disk.head = None /\ fast = "idle")
  /\ discard = "no" /\ fast # "head" /\ Puts("snap") = {} => Fitting(disk.snap)

(* While bodies are missing the blob and the snapshot on its anchor stay.  *)
Anchored ==
  /\ disk.head = At(mem.c, Anchor) /\ disk.snap = disk.head /\ mem.base = Anchor
  /\ Puts("head") = {} /\ \A o \in Puts("snap") : o.v = At(mem.c, Anchor)
BackfillAnchored ==
  fast = "idle" /\ discard = "no" /\ (Missing # {} \/ backfill.at = "work") => Anchored

(* A fast sync writes the blob, then the snapshot.                         *)
FastAnchored ==
  fast # "idle" =>
    /\ mem.base = Anchor /\ Anchor <= mem.tip /\ ~Sweeping /\ discard = "no"
    /\ \A o \in Puts("snap") : o.v = At(mem.c, Anchor)
    /\ \A c \in Chains : Anchor \notin Known(c)
    /\ \/ disk.head = At(mem.c, Anchor) /\ Puts("head") = {}
       \/ fast = "head" /\ metaq # <<>> /\ metaq[1] = Op("head", At(mem.c, Anchor), "fast")
    /\ fast = "snap" => \/ disk.snap = At(mem.c, Anchor)
                        \/ \E o \in Puts("snap") : o.by = "fast"

(* The anchor's row comes after those below it, but for a backfill's.      *)
InOrder ==
  \A i \in 1..Len(rowq), c \in Chains : rowq[i] = <<c, Anchor>> =>
    \/ backfill.at = "work"
    \/ \A g \in 1..(Anchor - 1) :
         <<c, g>> \in disk.rows \/ \E k \in 1..(i - 1) : rowq[k] = <<c, g>>
BodiesKnown == discard = "no" => mem.body \subseteq Known(mem.c)
AnchorComplete ==
  \A c \in Chains : Anchor \in RowsOf(disk, c) =>
    1..Anchor \subseteq RowsOf(disk, c) \/ Anchored

(* Below the anchor the chain in memory is complete, and what is stored of *)
(* the other one is shorter, or lies under a snapshot.                     *)
Outbid == IF mem.c = "honest" THEN mem.tip + 1 ELSE mem.tip
Shorter == \A c \in Chains : c # mem.c => ~(1..Outbid \subseteq Known(c))
FromSnapshot ==
  /\ Known(mem.c) = 1..mem.tip
  /\ \A c \in Chains : c # mem.c => \E r \in 0..mem.base : Known(c) = 1..r
  /\ disk.snap.c = mem.c /\ disk.snap.h \in mem.base..mem.tip
  /\ \A o \in Puts("snap") : o.v.c = mem.c /\ o.v.h \in mem.base..mem.tip
BelowAnchor ==
  discard = "no" /\ mem.tip < Anchor => Missing = {} /\ (Shorter \/ FromSnapshot)

Running ==
  /\ Discarding /\ ReachedAnchor /\ HeadOfChain /\ SnapshotsFit /\ BackfillAnchored
  /\ FastAnchored /\ InOrder /\ BodiesKnown /\ AnchorComplete /\ BelowAnchor

Books ==
  /\ HeadsAtAnchor
  /\ page = "off" => Away
  /\ page = "clearing" => Clearing
  /\ page = "on" => Running
Reloadable == ~harmed => Books

-----------------------------------------------------------------------------
(* Queues as sets.                                                         *)

LEMMA ElemsOfNone == Elems(<<>>) = {}
  BY DEF Elems

LEMMA ElemsOfAppend ==
  ASSUME NEW S, NEW q \in Seq(S), NEW x \in S
  PROVE  Elems(Append(q, x)) = Elems(q) \cup {x}
<1>1. /\ Len(Append(q, x)) = Len(q) + 1 /\ Len(q) \in Nat
      /\ \A i \in 1..Len(q) : Append(q, x)[i] = q[i]
      /\ Append(q, x)[Len(q) + 1] = x
  OBVIOUS
<1> QED BY <1>1 DEF Elems

LEMMA ElemsOfTail ==
  ASSUME NEW S, NEW q \in Seq(S), q # <<>>
  PROVE  /\ Elems(q) = {Head(q)} \cup Elems(Tail(q)) /\ Head(q) = q[1] /\ Head(q) \in S
         /\ Tail(q) \in Seq(S) /\ Len(Tail(q)) = Len(q) - 1 /\ Len(q) \in Nat \ {0}
         /\ \A i \in 1..Len(Tail(q)) : Tail(q)[i] = q[i + 1] /\ i + 1 \in 1..Len(q)
<1>1. /\ Head(q) = q[1] /\ Head(q) \in S /\ Tail(q) \in Seq(S)
      /\ Len(Tail(q)) = Len(q) - 1 /\ Len(q) \in Nat \ {0}
      /\ \A i \in 1..Len(Tail(q)) : Tail(q)[i] = q[i + 1]
  BY HeadTailProperties
<1>2. \A i \in 1..Len(q) : i = 1 \/ i - 1 \in 1..Len(Tail(q))
  BY <1>1
<1>3. Elems(q) \subseteq {Head(q)} \cup Elems(Tail(q))
  BY <1>1, <1>2 DEF Elems
<1>4. {Head(q)} \cup Elems(Tail(q)) \subseteq Elems(q)
  BY <1>1 DEF Elems
<1> QED BY <1>1, <1>3, <1>4

LEMMA ElemsTyped ==
  ASSUME NEW S, NEW q \in Seq(S)
  PROVE  Elems(q) \subseteq S
  BY ElementOfSeq DEF Elems

-----------------------------------------------------------------------------
(* Heights.                                                                *)

(* A set of heights that has, with each of its members above b, the one    *)
(* below it as well has no gap above b.                                    *)
LEMMA NoGap ==
  ASSUME NEW S \in SUBSET Heights, NEW b \in Nat, \A h \in S : h > b => h - 1 \in S,
         NEW h \in S, NEW g \in b..h
  PROVE  g \in S
<1>1. SUFFICES ASSUME g \notin S PROVE FALSE
  OBVIOUS
<1>2. S \subseteq Nat
  BY StoreNumbers
<1> DEFINE T == {k \in S : k > g}
<1>3. g \in Nat /\ h \in Nat /\ h > g /\ b <= g
  BY <1>1, <1>2
<1>4. T \in SUBSET Nat /\ T # {}
  BY <1>2, <1>3
<1> HIDE DEF T
<1>5. PICK m \in T : \A k \in T : m <= k
  BY <1>4, LeastNumber
<1>6. m \in S /\ m > g /\ m \in Nat
  BY <1>2, <1>5 DEF T
<1>7. m - 1 \in S
  BY <1>3, <1>6
<1>8. m - 1 # g
  BY <1>1, <1>7
<1>9. m - 1 \in T
  BY <1>3, <1>6, <1>7, <1>8 DEF T
<1> QED BY <1>5, <1>6, <1>9

(* Run reaches as far as the set has no gap.                               *)
LEMMA RunReaches ==
  ASSUME NEW S \in SUBSET Heights, NEW from \in 0..Limit, NEW h \in from..Limit
  PROVE  h <= Run(S, from) <=> (from + 1)..h \subseteq S
<1>0. from \in Nat /\ Limit \in Nat /\ h \in Nat /\ from <= h /\ h <= Limit /\ S \subseteq Nat
  BY StoreNumbers
<1>1. Run(S, from) \in from..Limit /\ (from + 1)..Run(S, from) \subseteq S
  BY RunFits
<1>2. ASSUME h <= Run(S, from) PROVE (from + 1)..h \subseteq S
  BY <1>0, <1>1, <1>2
<1>3. ASSUME (from + 1)..h \subseteq S PROVE h <= Run(S, from)
  <2> DEFINE T == {from} \cup {k \in S : k > from /\ (from + 1)..k \subseteq S}
  <2>1. h \in T
    <3>1. CASE h = from
      BY <3>1
    <3>2. CASE h # from
      <4>1. h > from /\ h \in (from + 1)..h
        BY <1>0, <3>2
      <4> QED BY <1>3, <4>1
    <3> QED BY <3>1, <3>2
  <2>2. T \in SUBSET Nat /\ T # {} /\ \A k \in T : k <= Limit
    <3>1. from \in Nat /\ from <= Limit
      BY <1>0
    <3>2. \A k \in S : k \in Nat /\ k <= Limit
      BY <1>0, StoreNumbers
    <3> QED BY <3>1, <3>2
  <2>3. Run(S, from) = Max(T)
    BY DEF Run
  <2> HIDE DEF T
  <2>4. \A k \in T : k <= Max(T)
    BY <1>0, <2>2, GreatestNumber, Zenon
  <2> QED BY <2>1, <2>3, <2>4
<1> QED BY <1>2, <1>3

LEMMA OtherIs ==
  ASSUME NEW c \in Chains
  PROVE  Other(c) \in Chains /\ Other(c) # c /\ \A k \in Chains : k = c \/ k = Other(c)
<1>1. \E o \in Chains : o # c
  BY DEF Chains
<1>2. Other(c) \in Chains /\ Other(c) # c
  BY <1>1 DEF Other
<1> QED BY <1>2 DEF Chains

-----------------------------------------------------------------------------
(* What a reload makes of a store whose rows are all connected.            *)

LEMMA AnchorIs ==
  /\ Anchor \in Heights /\ Anchor \in Nat /\ 1 <= Anchor /\ Anchor < Top /\ Anchor <= Limit
  /\ Anchor \in 0..Limit /\ Anchor = Top - Depth /\ Top \in Nat /\ Limit \in Nat
  /\ 0 \in 0..Limit /\ Heights = 1..Limit /\ Heights \subseteq Nat /\ 1 \in Heights
  BY StoreNumbers DEF Anchor

LEMMA HeadIs ==
  ASSUME NEW d \in Disks, d.head \in {None, At("honest", Anchor), At("forged", Anchor)},
         d.head # None
  PROVE  d.head.h = Anchor /\ d.head.c \in Chains /\ d.head = At(d.head.c, Anchor)
<1>1. d.head = At("honest", Anchor) \/ d.head = At("forged", Anchor)
  OBVIOUS
<1> QED BY <1>1 DEF At, Chains

LEMMA NotLoose ==
  ASSUME NEW d \in Disks, ~Loose(d), NEW c \in Chains, NEW h \in RowsOf(d, c), h > 1,
         d.head.c # c \/ h > d.head.h + 1
  PROVE  h - 1 \in RowsOf(d, c)
<1>1. d.head.c = c => ~(h <= d.head.h + 1)
  <2>1. d.head \in Mark
    BY DEF Disks
  <2>2. h \in Nat /\ (d.head.c = c => d.head.h \in Nat)
    BY <2>1, RowsFit, StoreNumbers DEF Mark, None, Chains
  <2> QED BY <2>2
<1> QED BY <1>1 DEF Loose

(* When the snapshot sits on the blob's anchor, the header path fits.      *)
LEMMA HeaderFits ==
  ASSUME NEW d \in Disks, d.head \in {None, At("honest", Anchor), At("forged", Anchor)},
         DiskOk(d), ~Loose(d)
  PROVE  HeaderPathFits(d) <=> d.head # None /\ d.snap = d.head
<1>1. SUFFICES ASSUME d.head # None, d.snap = d.head PROVE HeaderPathFits(d)
  BY DEF HeaderPathFits
<1> DEFINE c == d.head.c
           o == Other(c)
           rows == RowsOf(d, c)
<1>2. c \in Chains /\ d.head.h = Anchor
  BY <1>1, HeadIs
<1>3. o \in Chains /\ o # c
  BY <1>2, OtherIs
<1>4. rows \in SUBSET Heights /\ RowsOf(d, o) \in SUBSET Heights
  BY <1>2, <1>3, RowsFit
<1>5. ASSUME NEW h \in RowsOf(d, o), h > Anchor PROVE FALSE
  <2>1. \A k \in RowsOf(d, o) : k > 1 => k - 1 \in RowsOf(d, o)
    BY <1>3, NotLoose
  <2>2. Anchor \in 1..h
    BY <1>4, <1>5, AnchorIs
  <2>3. Anchor \in RowsOf(d, o)
    BY <1>4, <2>1, <2>2, NoGap
  <2> QED BY <1>1, <1>3, <2>3 DEF DiskOk
<1>6. {h \in RowsOf(d, o) : h > Anchor} = {}
  BY <1>5
<1> DEFINE r == Run(rows, Anchor)
<1> HIDE DEF rows
<1>7. r \in Anchor..Limit /\ (Anchor + 1)..r \subseteq rows
  BY <1>4, AnchorIs, RunFits
<1>8. ASSUME NEW h \in rows, h > Anchor PROVE h <= r
  <2>1. h \in Anchor..Limit /\ h \in Nat
    BY <1>4, <1>8, AnchorIs
  <2>2. \A k \in rows : k > Anchor + 1 => k - 1 \in rows
    <3> SUFFICES ASSUME NEW k \in rows, k > Anchor + 1 PROVE k - 1 \in rows
      OBVIOUS
    <3>1. k \in Nat
      BY <1>4, AnchorIs
    <3>2. k > 1 /\ k > d.head.h + 1
      BY <1>2, <3>1, AnchorIs
    <3> QED BY <1>2, <3>2, NotLoose DEF rows
  <2>3. \A g \in (Anchor + 1)..h : g \in rows
    <3>1. Anchor + 1 \in Nat
      BY AnchorIs
    <3> QED BY <1>4, <2>2, <3>1, NoGap
  <2>4. (Anchor + 1)..h \subseteq rows
    BY <2>3
  <2> QED BY <1>4, <2>1, <2>4, AnchorIs, RunReaches
<1>9. {h \in rows : h > Anchor} = (Anchor + 1)..r
  <2>1. \A h \in rows : h \in Nat
    BY <1>4, AnchorIs
  <2>2. ASSUME NEW h \in rows, h > Anchor PROVE h \in (Anchor + 1)..r
    BY <1>7, <1>8, <2>1, <2>2, AnchorIs
  <2>3. ASSUME NEW h \in (Anchor + 1)..r PROVE h \in rows /\ h > Anchor
    BY <1>7, <2>3, AnchorIs
  <2> QED BY <2>2, <2>3
<1> QED BY <1>1, <1>2, <1>6, <1>9 DEF HeaderPathFits, rows

(* What the three paths have in common.                                    *)
LEMMA FullReplayIs ==
  ASSUME NEW d \in Disks, NEW c \in Chains, NEW k \in Chains, c # k,
         NEW n \in 0..Limit, 1..n \subseteq RowsOf(d, c),
         IF c = "honest" THEN n + 1 \in 0..Limit => ~(1..(n + 1) \subseteq RowsOf(d, k))
                         ELSE ~(1..n \subseteq RowsOf(d, k))
  PROVE  FullReplay(d).c = c /\ n <= FullReplay(d).tip
<1> DEFINE reach(x) == Run(RowsOf(d, x), 0)
           best == IF reach("forged") > reach("honest") THEN "forged" ELSE "honest"
<1>1. FullReplay(d) = [c |-> best, tip |-> reach(best), base |-> 0, body |-> 1..reach(best)]
  BY DEF FullReplay
<1>2. PICK i : i = reach(c)
  OBVIOUS
<1>3. PICK j : j = reach(k)
  OBVIOUS
<1>4. i \in 0..Limit /\ j \in 0..Limit /\ Limit \in Nat
  BY <1>2, <1>3, AnchorIs, RunFits, RowsFit
<1>5. n <= i
  <2>1. (0 + 1)..n \subseteq RowsOf(d, c) <=> n <= Run(RowsOf(d, c), 0)
    BY AnchorIs, RunReaches, RowsFit
  <2> QED BY <1>2, <2>1
<1>6. \A m \in 0..Limit : m <= j <=> 1..m \subseteq RowsOf(d, k)
  <2> SUFFICES ASSUME NEW m \in 0..Limit PROVE m <= j <=> 1..m \subseteq RowsOf(d, k)
    OBVIOUS
  <2>1. (0 + 1)..m \subseteq RowsOf(d, k) <=> m <= Run(RowsOf(d, k), 0)
    BY AnchorIs, RunReaches, RowsFit
  <2> QED BY <1>3, <2>1
<1>7. CASE c = "honest"
  <2>1. k = "forged"
    BY <1>7 DEF Chains
  <2>2. j <= n
    <3>1. CASE n = Limit
      BY <1>4, <3>1
    <3>2. CASE n # Limit
      <4>1. n + 1 \in 0..Limit
        BY <1>4, <3>2
      <4>2. ~(n + 1 <= j)
        BY <1>6, <1>7, <4>1
      <4> QED BY <1>4, <4>2
    <3> QED BY <3>1, <3>2
  <2>3. ~(j > i)
    BY <1>4, <1>5, <2>2
  <2>4. best = c
    BY <1>2, <1>3, <1>7, <2>1, <2>3
  <2> HIDE DEF best, reach
  <2> QED BY <1>1, <1>2, <1>5, <2>4
<1>8. CASE c = "forged"
  <2>1. k = "honest"
    BY <1>8 DEF Chains
  <2>2. j < n
    <3>1. ~(n <= j)
      BY <1>6, <1>8
    <3> QED BY <1>4, <3>1
  <2>3. i > j
    BY <1>4, <1>5, <2>2
  <2>4. best = c
    BY <1>2, <1>3, <1>8, <2>1, <2>3
  <2> HIDE DEF best, reach
  <2> QED BY <1>1, <1>2, <1>5, <2>4
<1> QED BY <1>7, <1>8 DEF Chains

LEMMA FullReplayGives ==
  ASSUME NEW d \in Disks, NEW k \in Chains, k # FullReplay(d).c
  PROVE  LET m == FullReplay(d)
         IN /\ m.body = 1..m.tip
            /\ IF m.c = "honest" THEN m.tip + 1 \in 0..Limit => ~(1..(m.tip + 1) \subseteq RowsOf(d, k))
                                 ELSE ~(1..m.tip \subseteq RowsOf(d, k))
<1> DEFINE reach(x) == Run(RowsOf(d, x), 0)
           best == IF reach("forged") > reach("honest") THEN "forged" ELSE "honest"
<1>1. FullReplay(d) = [c |-> best, tip |-> reach(best), base |-> 0, body |-> 1..reach(best)]
  BY DEF FullReplay
<1>2. PICK c \in Chains : c = best
  BY DEF Chains
<1>3. PICK i : i = reach(c)
  OBVIOUS
<1>4. PICK j : j = reach(k)
  OBVIOUS
<1>5. i \in 0..Limit /\ j \in 0..Limit /\ Limit \in Nat
  BY <1>3, <1>4, AnchorIs, RunFits, RowsFit
<1>6. \A m \in 0..Limit : m <= j <=> 1..m \subseteq RowsOf(d, k)
  <2> SUFFICES ASSUME NEW m \in 0..Limit PROVE m <= j <=> 1..m \subseteq RowsOf(d, k)
    OBVIOUS
  <2>1. (0 + 1)..m \subseteq RowsOf(d, k) <=> m <= Run(RowsOf(d, k), 0)
    BY AnchorIs, RunReaches, RowsFit
  <2> QED BY <1>4, <2>1
<1>7. k # c
  BY <1>1, <1>2
<1>8. CASE c = "honest"
  <2>1. k = "forged"
    BY <1>7, <1>8 DEF Chains
  <2>2. ~(j > i)
    BY <1>2, <1>3, <1>4, <1>8, <2>1
  <2>3. i + 1 \in 0..Limit => ~(1..(i + 1) \subseteq RowsOf(d, k))
    BY <1>5, <1>6, <2>2
  <2> HIDE DEF best, reach
  <2> QED BY <1>1, <1>2, <1>3, <1>8, <2>3
<1>9. CASE c = "forged"
  <2>1. k = "honest"
    BY <1>7, <1>9 DEF Chains
  <2>2. i > j
    BY <1>2, <1>3, <1>4, <1>9, <2>1
  <2>3. ~(1..i \subseteq RowsOf(d, k))
    BY <1>5, <1>6, <2>2
  <2> HIDE DEF best, reach
  <2> QED BY <1>1, <1>2, <1>3, <1>9, <2>3
<1> QED BY <1>8, <1>9 DEF Chains

(* A restore reaches as far as the rows of its chain do without a gap.     *)
LEMMA RestoredReaches ==
  ASSUME NEW d \in Disks, d.version, NEW n \in 0..Limit,
         d.head \in {None, At("honest", Anchor), At("forged", Anchor)},
         1..n \subseteq RowsOf(d, Restored(d).c)
           \/ (HeaderPathFits(d) /\ (Anchor + 1)..n \subseteq RowsOf(d, Restored(d).c))
  PROVE  n <= Restored(d).tip
<1> DEFINE m == Restored(d)
<1>0. n \in Nat /\ Limit \in Nat /\ Anchor \in Nat
  BY AnchorIs
<1>1. CASE HeaderPathFits(d)
  <2>1. m = WithHeaders(d)
    BY <1>1 DEF Restored
  <2>2. d.head.h = Anchor /\ d.head.c \in Chains
    BY <1>1, HeadIs DEF HeaderPathFits
  <2>3. m.c = d.head.c /\ m.tip = Run(RowsOf(d, d.head.c), Anchor)
    BY <2>1, <2>2 DEF WithHeaders
  <2> HIDE DEF m
  <2>4. m.tip \in Anchor..Limit
    <3>1. RowsOf(d, d.head.c) \in SUBSET Heights
      BY <2>2, RowsFit
    <3>2. Run(RowsOf(d, d.head.c), Anchor) \in Anchor..Limit
      BY <3>1, AnchorIs, RunFits
    <3> QED BY <2>3, <3>2 DEF m
  <2>5. CASE n <= Anchor
    BY <1>0, <2>4, <2>5 DEF m
  <2>6. CASE n > Anchor
    <3>1. (Anchor + 1)..n \subseteq RowsOf(d, d.head.c)
      BY <1>0, <2>3 DEF m
    <3>2. n \in Anchor..Limit
      BY <1>0, <2>6
    <3>3. n <= Run(RowsOf(d, d.head.c), Anchor)
      <4>1. RowsOf(d, d.head.c) \in SUBSET Heights
        BY <2>2, RowsFit
      <4> QED BY <3>1, <3>2, <4>1, AnchorIs, RunReaches
    <3> QED BY <2>3, <3>3 DEF m
  <2> QED BY <1>0, <2>5, <2>6
<1>2. CASE ~HeaderPathFits(d) /\ SnapshotPathFits(d)
  <2>1. m = WithSnapshot(d)
    BY <1>2 DEF Restored
  <2>2. m.c = d.snap.c /\ m.tip = Run(RowsOf(d, d.snap.c), 0)
    BY <2>1 DEF WithSnapshot
  <2>3. d.snap.c \in Chains
    BY <1>2 DEF SnapshotPathFits, Disks, Mark
  <2>4. (0 + 1)..n \subseteq RowsOf(d, d.snap.c)
    BY <1>2, <2>2
  <2>5. n <= Run(RowsOf(d, d.snap.c), 0)
    BY <2>3, <2>4, AnchorIs, RunReaches, RowsFit
  <2> QED BY <2>2, <2>5
<1>3. CASE ~HeaderPathFits(d) /\ ~SnapshotPathFits(d)
  <2>1. m = FullReplay(d)
    BY <1>3 DEF Restored
  <2>2. PICK c \in Chains : c = m.c
    BY <2>1 DEF FullReplay, Chains
  <2>3. m.tip = Run(RowsOf(d, c), 0)
    BY <2>1, <2>2 DEF FullReplay
  <2>4. (0 + 1)..n \subseteq RowsOf(d, c)
    BY <1>3, <2>2
  <2>5. n <= Run(RowsOf(d, c), 0)
    BY <2>4, AnchorIs, RunReaches, RowsFit
  <2> QED BY <2>3, <2>5
<1> QED BY <1>1, <1>2, <1>3

(* Whose chain it is that is restored.                                     *)
LEMMA RestoredChain ==
  ASSUME NEW d \in Disks, d.version, DiskOk(d), ~Loose(d),
         d.head \in {None, At("honest", Anchor), At("forged", Anchor)}
  PROVE  /\ \A c \in Chains : Anchor \in RowsOf(d, c) =>
              Restored(d).c = c /\ Anchor <= Restored(d).tip
         /\ d.head # None /\ d.snap = d.head =>
              /\ HeaderPathFits(d) /\ Restored(d).c = d.head.c
              /\ Restored(d).base = Anchor /\ Anchor <= Restored(d).tip
         /\ ~(d.head # None /\ d.snap = d.head) =>
              /\ ~HeaderPathFits(d) /\ Restored(d).body = 1..Restored(d).tip
<1> DEFINE m == Restored(d)
<1>1. CASE d.head # None /\ d.snap = d.head
  <2>1. HeaderPathFits(d)
    BY <1>1, HeaderFits
  <2>2. m = WithHeaders(d)
    BY <2>1 DEF Restored
  <2>3. d.head.h = Anchor /\ d.head.c \in Chains
    BY <1>1, HeadIs
  <2>4. m.c = d.head.c /\ m.base = Anchor /\ m.tip = Run(RowsOf(d, d.head.c), Anchor)
    BY <2>2, <2>3 DEF WithHeaders
  <2>5. m.tip \in Anchor..Limit
    <3>1. RowsOf(d, d.head.c) \in SUBSET Heights
      BY <2>3, RowsFit
    <3>2. Run(RowsOf(d, d.head.c), Anchor) \in Anchor..Limit
      BY <3>1, AnchorIs, RunFits
    <3> QED BY <2>4, <3>2
  <2>6. Anchor <= m.tip
    BY <2>5, AnchorIs
  <2>7. \A c \in Chains : Anchor \in RowsOf(d, c) => c = d.head.c
    BY <1>1 DEF DiskOk
  <2> QED BY <1>1, <2>1, <2>4, <2>6, <2>7
<1>2. CASE ~(d.head # None /\ d.snap = d.head)
  <2>1. ~HeaderPathFits(d)
    BY <1>2, HeaderFits
  <2>2. m.body = 1..m.tip
    <3>1. CASE SnapshotPathFits(d)
      <4>1. m = WithSnapshot(d)
        BY <2>1, <3>1 DEF Restored
      <4>2. d.snap.c \in Chains
        BY <3>1 DEF SnapshotPathFits, Disks, Mark
      <4> QED BY <3>1, <4>1, <4>2 DEF SnapshotPathFits, WithSnapshot
    <3>2. CASE ~SnapshotPathFits(d)
      <4>1. m = FullReplay(d)
        BY <2>1, <3>2 DEF Restored
      <4> QED BY <4>1 DEF FullReplay
    <3> QED BY <3>1, <3>2
  <2>3. ASSUME NEW c \in Chains, Anchor \in RowsOf(d, c)
        PROVE  m.c = c /\ Anchor <= m.tip
    <3>1. 1..Anchor \subseteq RowsOf(d, c)
      <4>1. ~(d.head = At(c, Anchor) /\ d.snap = d.head)
        <5>1. At(c, Anchor) # None
          BY AnchorIs DEF At, None
        <5> QED BY <1>2, <5>1
      <4> QED BY <2>3, <4>1 DEF DiskOk
    <3>2. Other(c) \in Chains /\ Other(c) # c /\ \A k \in Chains : k = c \/ k = Other(c)
      BY OtherIs
    <3>3. PICK k : k = Other(c)
      OBVIOUS
    <3>4. Anchor \notin RowsOf(d, k)
      BY <2>3, <3>2, <3>3 DEF DiskOk
    <3>5. m.c = c
      <4>1. CASE SnapshotPathFits(d)
        <5>1. m.c = d.snap.c /\ d.snap.c \in Chains /\ d.snap.h \in Heights
          BY <2>1, <4>1 DEF Restored, WithSnapshot, SnapshotPathFits, Disks, Mark
        <5>2. SUFFICES ASSUME d.snap.c = k PROVE FALSE
          BY <3>2, <3>3, <5>1
        <5>3. Other(k) = c
          BY <3>2, <3>3, OtherIs
        <5>4. Anchor <= d.snap.h
          BY <2>3, <4>1, <5>2, <5>3 DEF SnapshotPathFits
        <5>5. d.snap.h \in RowsOf(d, k) /\ RowsOf(d, k) = 1..Run(RowsOf(d, k), 0)
          BY <4>1, <5>2, <3>2, <3>3 DEF SnapshotPathFits
        <5>6. Run(RowsOf(d, k), 0) \in 0..Limit
          BY <3>2, <3>3, AnchorIs, RunFits, RowsFit
        <5>7. Anchor \in 1..Run(RowsOf(d, k), 0)
          BY <5>1, <5>4, <5>5, <5>6, AnchorIs
        <5> QED BY <3>4, <5>5, <5>7
      <4>2. CASE ~SnapshotPathFits(d)
        <5>1. m = FullReplay(d)
          BY <2>1, <4>2 DEF Restored
        <5>2. Anchor \in 1..Anchor /\ Anchor \in 1..(Anchor + 1)
          BY AnchorIs
        <5>3. ~(1..Anchor \subseteq RowsOf(d, k)) /\ ~(1..(Anchor + 1) \subseteq RowsOf(d, k))
          BY <3>4, <5>2
        <5> QED BY <3>1, <3>2, <3>3, <5>1, <5>3, AnchorIs, FullReplayIs
      <4> QED BY <4>1, <4>2
    <3>6. Anchor <= m.tip
      BY <3>1, <3>5, AnchorIs, RestoredReaches
    <3> QED BY <3>5, <3>6
  <2> QED BY <1>2, <2>1, <2>2, <2>3
<1> QED BY <1>1, <1>2

-----------------------------------------------------------------------------
(* One step of a tab that is there.                                        *)

On == page = "on" /\ HeadsAtAnchor /\ Running

LEMMA StoreFacts ==
  ASSUME StoreInv
  PROVE  /\ metaq \in Seq(MetaOps) /\ rowq \in Seq(Rows \cup {ClearRows}) /\ disk \in Disks
         /\ mem \in Memories /\ mem.c \in Chains /\ mem.tip \in Nat /\ mem.tip <= Limit
         /\ mem.base \in Nat /\ mem.body \subseteq 1..mem.tip
         /\ (mem.base + 1)..mem.tip \subseteq mem.body
         /\ Elems(metaq) \subseteq MetaOps /\ Elems(rowq) \subseteq Rows \cup {ClearRows}
         /\ backfill \in Backfills /\ disk.snap \in Mark /\ disk.head \in Mark
<1>1. /\ metaq \in Seq(MetaOps) /\ rowq \in Seq(Rows \cup {ClearRows}) /\ disk \in Disks
      /\ WellFormed(mem) /\ backfill \in Backfills
  BY DEF StoreInv, Held, Types
<1>2. /\ mem \in Memories /\ mem.c \in Chains /\ mem.tip \in 0..Limit /\ mem.base \in 0..Limit
      /\ mem.body \subseteq 1..mem.tip /\ (mem.base + 1)..mem.tip \subseteq mem.body
  BY <1>1 DEF WellFormed, Memories
<1>3. mem.tip \in Nat /\ mem.tip <= Limit /\ mem.base \in Nat
  BY <1>2, AnchorIs
<1>4. Elems(metaq) \subseteq MetaOps /\ Elems(rowq) \subseteq Rows \cup {ClearRows}
  BY <1>1, ElemsTyped
<1>5. disk.snap \in Mark /\ disk.head \in Mark
  BY <1>1 DEF Disks
<1> QED BY <1>1, <1>2, <1>3, <1>4, <1>5

LEMMA ClearIsNoRow ==
  /\ \A r \in Rows : r # ClearRows
  /\ \A c, h : h \in Heights => <<c, h>> # ClearRows
<1>1. 0 \notin Heights
  BY AnchorIs
<1> QED BY <1>1 DEF ClearRows, Rows

(* A write is queued at the meta store.                                    *)
LEMMA AfterPut ==
  ASSUME metaq \in Seq(MetaOps), NEW o \in MetaOps, metaq' = Append(metaq, o)
  PROVE  /\ \A k : Puts(k)' = Puts(k) \cup {x \in {o} : x.op = k}
         /\ Elems(metaq') = Elems(metaq) \cup {o}
         /\ Len(metaq') = Len(metaq) + 1 /\ Len(metaq) \in Nat /\ metaq' # <<>>
         /\ \A i \in 1..Len(metaq) : metaq'[i] = metaq[i]
         /\ metaq'[Len(metaq) + 1] = o
         /\ metaq # <<>> => metaq'[1] = metaq[1]
<1>1. Elems(metaq') = Elems(metaq) \cup {o}
  BY ElemsOfAppend
<1>2. \A k : Puts(k)' = Puts(k) \cup {x \in {o} : x.op = k}
  BY <1>1 DEF Puts
<1>3. /\ Len(metaq') = Len(metaq) + 1 /\ Len(metaq) \in Nat /\ metaq' # <<>>
      /\ \A i \in 1..Len(metaq) : metaq'[i] = metaq[i]
      /\ metaq'[Len(metaq) + 1] = o
  OBVIOUS
<1>4. metaq # <<>> => metaq'[1] = metaq[1]
  OBVIOUS
<1> QED BY <1>1, <1>2, <1>3, <1>4

LEMMA HeadsAfterPut ==
  ASSUME HeadsAtAnchor, metaq \in Seq(MetaOps), NEW o \in MetaOps, metaq' = Append(metaq, o),
         disk'.head = disk.head,
         \A x \in Puts("head") : x.v # None => fast' = "head" /\ mem'.c = mem.c /\ o.op # "head",
         o.op = "head" => o.v = None,
         o.op = "clear" => Puts("clear") = {},
         o.op \in {"clear", "version"} => o = Op(o.op, None, "discard")
  PROVE  HeadsAtAnchor'
<1>1. /\ Elems(metaq') = Elems(metaq) \cup {o}
      /\ Len(metaq') = Len(metaq) + 1 /\ Len(metaq) \in Nat
      /\ \A i \in 1..Len(metaq) : metaq'[i] = metaq[i]
      /\ metaq'[Len(metaq) + 1] = o
  BY AfterPut
<1>2. \A i \in 1..Len(metaq') : i \in 1..Len(metaq) \/ (i = Len(metaq) + 1 /\ metaq'[i] = o)
  BY <1>1
<1>3. ASSUME NEW i \in 1..Len(metaq'), metaq'[i].op = "head", metaq'[i].v # None
      PROVE  /\ i = 1 /\ fast' = "head" /\ metaq'[i].v = At(mem'.c, Anchor)
             /\ \A k \in 1..Len(metaq') : metaq'[k].op = "head" => k = 1
  <2>1. i \in 1..Len(metaq) /\ metaq[i].op = "head" /\ metaq[i].v # None /\ metaq'[i] = metaq[i]
    BY <1>1, <1>2, <1>3
  <2>2. /\ i = 1 /\ metaq[i].v = At(mem.c, Anchor)
        /\ \A k \in 1..Len(metaq) : metaq[k].op = "head" => k = 1
    BY <2>1 DEF HeadsAtAnchor
  <2>3. metaq[i] \in Puts("head")
    BY <2>1 DEF Puts, Elems
  <2>4. fast' = "head" /\ mem'.c = mem.c /\ o.op # "head"
    BY <2>1, <2>3
  <2>5. \A k \in 1..Len(metaq') : metaq'[k].op = "head" => k = 1
    BY <1>1, <1>2, <2>2, <2>4
  <2> QED BY <2>1, <2>2, <2>4, <2>5
<1>4. ASSUME NEW i \in 1..Len(metaq'), NEW k \in 1..Len(metaq'),
             metaq'[i].op = "clear", metaq'[k].op = "clear"
      PROVE  i = k
  <2>1. o.op = "clear" => \A j \in 1..Len(metaq) : metaq[j].op # "clear"
    BY DEF Puts, Elems
  <2>2. CASE o.op = "clear"
    BY <1>1, <1>2, <1>4, <2>1, <2>2
  <2>3. CASE o.op # "clear"
    <3>1. /\ i \in 1..Len(metaq) /\ metaq[i].op = "clear"
          /\ k \in 1..Len(metaq) /\ metaq[k].op = "clear"
      BY <1>1, <1>2, <1>4, <2>3
    <3> QED BY <3>1 DEF HeadsAtAnchor
  <2> QED BY <2>2, <2>3
<1>5. \A x \in Elems(metaq') : x.op \in {"clear", "version"} => x = Op(x.op, None, "discard")
  BY <1>1 DEF HeadsAtAnchor
<1>6. disk'.head \in {None, At("honest", Anchor), At("forged", Anchor)}
  BY DEF HeadsAtAnchor
<1> QED BY <1>3, <1>4, <1>5, <1>6 DEF HeadsAtAnchor

(* The first write of the meta store is committed, and a snapshot may be   *)
(* queued in the same step.                                                *)
LEMMA AfterPop ==
  ASSUME metaq \in Seq(MetaOps), metaq # <<>>, NEW o \in MetaOps, o.op = "snap",
         metaq' = Tail(metaq) \/ metaq' = Append(Tail(metaq), o)
  PROVE  /\ \A k : k # "snap" => Puts(k) = Puts(k)' \cup {x \in {Head(metaq)} : x.op = k}
         /\ Puts("snap")' \subseteq Puts("snap") \cup {o}
         /\ metaq' = Tail(metaq) =>
              Puts("snap") = Puts("snap")' \cup {x \in {Head(metaq)} : x.op = "snap"}
         /\ Head(metaq) = metaq[1] /\ Head(metaq) \in Elems(metaq) /\ 1 \in 1..Len(metaq)
         /\ \A i \in 1..Len(metaq') : metaq'[i].op # "snap" =>
              i + 1 \in 1..Len(metaq) /\ metaq'[i] = metaq[i + 1] /\ i \in Nat /\ i # 0
         /\ \A x \in Elems(metaq') : x = o \/ x \in Elems(metaq)
<1>1. /\ Elems(metaq) = {Head(metaq)} \cup Elems(Tail(metaq)) /\ Head(metaq) = metaq[1]
      /\ Tail(metaq) \in Seq(MetaOps) /\ Len(Tail(metaq)) = Len(metaq) - 1
      /\ Len(metaq) \in Nat \ {0}
      /\ \A i \in 1..Len(Tail(metaq)) : Tail(metaq)[i] = metaq[i + 1] /\ i + 1 \in 1..Len(metaq)
  BY ElemsOfTail
<1>2. CASE metaq' = Tail(metaq)
  <2>1. \A k : Puts(k) = Puts(k)' \cup {x \in {Head(metaq)} : x.op = k}
    BY <1>1, <1>2 DEF Puts
  <2>2. \A i \in 1..Len(metaq') :
          i + 1 \in 1..Len(metaq) /\ metaq'[i] = metaq[i + 1] /\ i \in Nat /\ i # 0
    BY <1>1, <1>2
  <2> QED BY <1>1, <1>2, <2>1, <2>2
<1>3. CASE metaq' = Append(Tail(metaq), o)
  <2>1. Elems(metaq') = Elems(Tail(metaq)) \cup {o}
    <3>1. PICK t \in Seq(MetaOps) : t = Tail(metaq)
      BY <1>1
    <3>2. Elems(Append(t, o)) = Elems(t) \cup {o}
      BY ElemsOfAppend
    <3> QED BY <1>3, <3>1, <3>2
  <2>2. \A k : k # "snap" => Puts(k) = Puts(k)' \cup {x \in {Head(metaq)} : x.op = k}
    BY <1>1, <2>1 DEF Puts
  <2>3. Puts("snap")' \subseteq Puts("snap") \cup {o}
    BY <1>1, <2>1 DEF Puts
  <2>4. /\ Len(metaq') = Len(Tail(metaq)) + 1 /\ Len(Tail(metaq)) \in Nat
        /\ \A i \in 1..Len(Tail(metaq)) : metaq'[i] = Tail(metaq)[i]
        /\ metaq'[Len(Tail(metaq)) + 1] = o
    BY <1>1, <1>3
  <2>5. \A i \in 1..Len(metaq') : metaq'[i].op # "snap" =>
          i + 1 \in 1..Len(metaq) /\ metaq'[i] = metaq[i + 1] /\ i \in Nat /\ i # 0
    <3> SUFFICES ASSUME NEW i \in 1..Len(metaq'), metaq'[i].op # "snap"
                 PROVE  i + 1 \in 1..Len(metaq) /\ metaq'[i] = metaq[i + 1] /\ i \in Nat /\ i # 0
      OBVIOUS
    <3>1. i \in 1..Len(Tail(metaq)) \/ i = Len(Tail(metaq)) + 1
      BY <2>4
    <3>2. i \in 1..Len(Tail(metaq))
      BY <2>4, <3>1
    <3>3. metaq'[i] = Tail(metaq)[i]
      BY <2>4, <3>2
    <3>4. Tail(metaq)[i] = metaq[i + 1] /\ i + 1 \in 1..Len(metaq)
      BY <1>1, <3>2
    <3>5. i \in Nat /\ i # 0
      BY <2>4, <3>2
    <3> QED BY <3>3, <3>4, <3>5
  <2>6. metaq' # Tail(metaq)
    BY <1>3, <2>4
  <2> QED BY <1>1, <2>1, <2>2, <2>3, <2>5, <2>6
<1> QED BY <1>2, <1>3

LEMMA HeadsAfterPop ==
  ASSUME HeadsAtAnchor, metaq \in Seq(MetaOps), metaq # <<>>, NEW o \in MetaOps, o.op = "snap",
         metaq' = Tail(metaq) \/ metaq' = Append(Tail(metaq), o),
         disk'.head \in {None, At("honest", Anchor), At("forged", Anchor)}
  PROVE  /\ HeadsAtAnchor'
         /\ \A x \in Puts("head")' : x.v = None
         /\ Head(metaq).op = "head" /\ Head(metaq).v # None => Puts("head")' = {}
         /\ Head(metaq).op = "clear" => Puts("clear")' = {}
<1>1. /\ Head(metaq) = metaq[1] /\ 1 \in 1..Len(metaq)
      /\ \A i \in 1..Len(metaq') : metaq'[i].op # "snap" =>
           i + 1 \in 1..Len(metaq) /\ metaq'[i] = metaq[i + 1] /\ i \in Nat /\ i # 0
      /\ \A x \in Elems(metaq') : x = o \/ x \in Elems(metaq)
  BY AfterPop
<1>2. \A i \in 1..Len(metaq') : metaq'[i].op = "head" => metaq'[i].v = None
  <2> SUFFICES ASSUME NEW i \in 1..Len(metaq'), metaq'[i].op = "head", metaq'[i].v # None
               PROVE  FALSE
    OBVIOUS
  <2>1. i + 1 \in 1..Len(metaq) /\ metaq'[i] = metaq[i + 1] /\ i \in Nat /\ i # 0
    BY <1>1
  <2>2. i + 1 = 1
    BY <2>1 DEF HeadsAtAnchor
  <2> QED BY <2>1, <2>2
<1>3. ASSUME NEW i \in 1..Len(metaq'), NEW k \in 1..Len(metaq'),
             metaq'[i].op = "clear", metaq'[k].op = "clear"
      PROVE  i = k
  <2>1. /\ i + 1 \in 1..Len(metaq) /\ metaq[i + 1].op = "clear" /\ i \in Nat
        /\ k + 1 \in 1..Len(metaq) /\ metaq[k + 1].op = "clear" /\ k \in Nat
    BY <1>1, <1>3
  <2>2. i + 1 = k + 1
    BY <2>1 DEF HeadsAtAnchor
  <2> QED BY <2>1, <2>2
<1>4. \A x \in Elems(metaq') : x.op \in {"clear", "version"} => x = Op(x.op, None, "discard")
  BY <1>1 DEF HeadsAtAnchor
<1>5. HeadsAtAnchor'
  BY <1>2, <1>3, <1>4 DEF HeadsAtAnchor
<1>6. \A x \in Puts("head")' : x.v = None
  BY <1>2 DEF Puts, Elems
<1>7. ASSUME Head(metaq).op = "head", Head(metaq).v # None PROVE Puts("head")' = {}
  <2>1. \A k \in 1..Len(metaq) : metaq[k].op = "head" => k = 1
    BY <1>1, <1>7 DEF HeadsAtAnchor
  <2>2. \A i \in 1..Len(metaq') : metaq'[i].op # "head"
    <3> SUFFICES ASSUME NEW i \in 1..Len(metaq'), metaq'[i].op = "head" PROVE FALSE
      OBVIOUS
    <3>1. i + 1 \in 1..Len(metaq) /\ metaq'[i] = metaq[i + 1] /\ i \in Nat /\ i # 0
      BY <1>1
    <3>2. i + 1 = 1
      BY <2>1, <3>1
    <3> QED BY <3>1, <3>2
  <2> QED BY <2>2 DEF Puts, Elems
<1>8. ASSUME Head(metaq).op = "clear" PROVE Puts("clear")' = {}
  <2>1. \A i \in 1..Len(metaq') : metaq'[i].op # "clear"
    <3> SUFFICES ASSUME NEW i \in 1..Len(metaq'), metaq'[i].op = "clear" PROVE FALSE
      OBVIOUS
    <3>1. /\ i + 1 \in 1..Len(metaq) /\ metaq[i + 1].op = "clear" /\ i \in Nat /\ i # 0
          /\ metaq[1].op = "clear" /\ 1 \in 1..Len(metaq)
      BY <1>1, <1>8
    <3>2. i + 1 = 1
      BY <3>1 DEF HeadsAtAnchor
    <3> QED BY <3>1, <3>2
  <2> QED BY <2>1 DEF Puts, Elems
<1> QED BY <1>5, <1>6, <1>7, <1>8

(* When the stores, the queues and the chain stay as they are.             *)
LEMMA StoresUnmoved ==
  ASSUME UNCHANGED <<disk, rowq, metaq, mem>>
  PROVE  /\ \A k : Puts(k)' = Puts(k)
         /\ Elems(rowq') = Elems(rowq) /\ Elems(metaq') = Elems(metaq)
         /\ Stored' = Stored /\ \A c : Known(c)' = Known(c)
         /\ \A c : RowsOf(disk, c)' = RowsOf(disk, c)
         /\ Missing' = Missing /\ (Anchored <=> Anchored')
         /\ \A v : Fitting(v)' <=> Fitting(v)
<1>1. /\ \A k : Puts(k)' = Puts(k)
      /\ Elems(rowq') = Elems(rowq) /\ Elems(metaq') = Elems(metaq)
  BY DEF Puts
<1>2. Stored' = Stored /\ \A c : Known(c)' = Known(c)
  BY <1>1 DEF Known, Stored
<1>3. \A c : RowsOf(disk, c)' = RowsOf(disk, c)
  BY DEF RowsOf
<1>4. Missing' = Missing
  BY DEF Missing
<1>5. Anchored <=> Anchored'
  BY <1>1 DEF Anchored
<1>6. \A v : Fitting(v)' <=> Fitting(v)
  BY <1>2 DEF Fitting
<1> QED BY <1>1, <1>2, <1>3, <1>4, <1>5, <1>6

LEMMA OnUnmoved ==
  ASSUME On, UNCHANGED <<page, disk, rowq, metaq, mem, fast, discard>>,
         Sweeping' => Sweeping \/ (fast = "idle" /\ discard = "no"),
         backfill'.at = "work" => backfill.at = "work" \/ Missing # {},
         backfill.at = "work" => backfill'.at = "work" \/ rowq = <<>>
  PROVE  On'
<1>1. /\ \A k : Puts(k)' = Puts(k)
      /\ Elems(rowq') = Elems(rowq) /\ Elems(metaq') = Elems(metaq)
      /\ Stored' = Stored /\ \A c : Known(c)' = Known(c)
      /\ \A c : RowsOf(disk, c)' = RowsOf(disk, c)
      /\ Missing' = Missing /\ (Anchored <=> Anchored')
      /\ \A v : Fitting(v)' <=> Fitting(v)
  BY StoresUnmoved
<1>2. HeadsAtAnchor'
  BY <1>1 DEF On, HeadsAtAnchor
<1>3. Discarding'
  BY <1>1 DEF On, Running, Discarding, BeforeClear, AfterClear, Sweeping
<1>4. ReachedAnchor'
  BY <1>1 DEF On, Running, ReachedAnchor
<1>5. HeadOfChain'
  BY DEF On, Running, HeadOfChain
<1>6. SnapshotsFit'
  BY <1>1 DEF On, Running, SnapshotsFit
<1>7. BackfillAnchored'
  BY <1>1 DEF On, Running, BackfillAnchored
<1>8. FastAnchored'
  BY <1>1 DEF On, Running, FastAnchored, Sweeping
<1>9. InOrder'
  <2>1. CASE backfill'.at = "work"
    BY <2>1 DEF InOrder
  <2>2. CASE backfill.at # "work"
    <3> SUFFICES ASSUME NEW i \in 1..Len(rowq'), NEW c \in Chains, rowq'[i] = <<c, Anchor>>,
                        NEW g \in 1..(Anchor - 1)
                 PROVE  <<c, g>> \in disk'.rows \/ \E k \in 1..(i - 1) : rowq'[k] = <<c, g>>
      BY DEF InOrder
    <3> QED BY <2>2 DEF On, Running, InOrder
  <2>3. CASE rowq = <<>>
    BY <2>3 DEF InOrder
  <2> QED BY <2>1, <2>2, <2>3
<1>10. BodiesKnown'
  BY <1>1 DEF On, Running, BodiesKnown
<1>11. AnchorComplete'
  BY <1>1 DEF On, Running, AnchorComplete
<1>12. BelowAnchor'
  BY <1>1 DEF On, Running, BelowAnchor, Shorter, Outbid, FromSnapshot
<1> QED BY <1>2, <1>3, <1>4, <1>5, <1>6, <1>7, <1>8, <1>9, <1>10, <1>11, <1>12 DEF On, Running

(* A full block on top of the tip.                                         *)
LEMMA ExtendKept ==
  ASSUME StoreInv, On, Extend
  PROVE  On'
<1> DEFINE h == mem.tip + 1
           R == Rows \cup {ClearRows}
<1>1. /\ rowq \in Seq(R) /\ mem \in Memories /\ mem.c \in Chains /\ mem.tip \in Nat
      /\ mem.tip <= Limit /\ mem.base \in Nat /\ mem.body \subseteq 1..mem.tip
      /\ Elems(rowq) \subseteq R
  BY StoreFacts
<1>2. /\ page = "on" /\ mem.tip < Limit /\ mem' = [mem EXCEPT !.tip = h, !.body = @ \cup {h}]
      /\ rowq' = Append(rowq, <<mem.c, h>>)
      /\ UNCHANGED <<disk, metaq, page, lastSnapshot, writer, fast, fastDone, backfill,
                     discard, left, harmed>>
  BY DEF Extend
<1>3. h \in Heights /\ h \in Nat /\ <<mem.c, h>> \in Rows /\ <<mem.c, h>> # ClearRows
  BY <1>1, <1>2, AnchorIs, ClearIsNoRow DEF Rows
<1>4. /\ mem'.c = mem.c /\ mem'.tip = h /\ mem'.base = mem.base
      /\ mem'.body = mem.body \cup {h}
  BY <1>1, <1>2 DEF Memories
<1>5. /\ Elems(rowq') = Elems(rowq) \cup {<<mem.c, h>>}
      /\ Len(rowq') = Len(rowq) + 1 /\ Len(rowq) \in Nat
      /\ \A i \in 1..Len(rowq) : rowq'[i] = rowq[i]
      /\ rowq'[Len(rowq) + 1] = <<mem.c, h>>
  <2>1. <<mem.c, h>> \in R
    BY <1>3
  <2> HIDE DEF R, h
  <2>2. Elems(Append(rowq, <<mem.c, h>>)) = Elems(rowq) \cup {<<mem.c, h>>}
    BY <1>1, <2>1, ElemsOfAppend
  <2> QED BY <1>1, <1>2, <2>1, <2>2
<1> HIDE DEF R
<1>6. /\ Stored' = Stored \cup {<<mem.c, h>>}
      /\ \A c \in Chains : Known(c)' = IF c = mem.c THEN Known(c) \cup {h} ELSE Known(c)
      /\ \A k : Puts(k)' = Puts(k)
      /\ \A c : RowsOf(disk, c)' = RowsOf(disk, c)
  <2>1. Stored' = Stored \cup {<<mem.c, h>>}
    BY <1>2, <1>5 DEF Stored
  <2>2. ASSUME NEW c \in Chains, c = mem.c PROVE Known(c)' = Known(c) \cup {h}
    BY <1>3, <2>1, <2>2 DEF Known
  <2>3. ASSUME NEW c \in Chains, c # mem.c PROVE Known(c)' = Known(c)
    BY <2>1, <2>3 DEF Known
  <2>4. \A k : Puts(k)' = Puts(k)
    BY <1>2 DEF Puts
  <2>5. \A c : RowsOf(disk, c)' = RowsOf(disk, c)
    BY <1>2 DEF RowsOf
  <2> QED BY <2>1, <2>2, <2>3, <2>4, <2>5
<1>7. Missing' = Missing
  BY <1>1, <1>4 DEF Missing
<1>8. Anchored <=> Anchored'
  BY <1>2, <1>4, <1>6 DEF Anchored
<1> HIDE DEF h
<1>9. HeadsAtAnchor'
  BY <1>2, <1>4 DEF On, HeadsAtAnchor
<1>10. h = mem.tip + 1
  BY DEF h
<1>11. Discarding'
  <2>1. CASE discard = "no"
    <3>1. ClearRows \notin Elems(rowq')
      BY <1>3, <1>5, <2>1 DEF On, Running, Discarding
    <3> QED BY <1>2, <1>6, <2>1, <3>1 DEF On, Running, Discarding
  <2>2. CASE discard # "no"
    <3>1. fast = "idle" /\ Top <= mem.tip /\ ~Sweeping /\ (BeforeClear \/ AfterClear)
      BY <2>2 DEF On, Running, Discarding
    <3>2. <<mem.c, h>> \in Late /\ Top <= mem'.tip /\ ~Sweeping'
      BY <1>1, <1>2, <1>3, <1>4, <1>10, <3>1, AnchorIs DEF Late, Sweeping
    <3>3. CASE BeforeClear
      <4>1. rowq' # <<>> /\ rowq'[1] = ClearRows
        <5>1. rowq # <<>> /\ rowq[1] = ClearRows /\ 1 \in 1..Len(rowq)
          BY <1>1, <3>3 DEF BeforeClear
        <5> QED BY <1>5, <5>1
      <4>2. \A i \in 2..Len(rowq') : rowq'[i] \in Late
        <5> SUFFICES ASSUME NEW i \in 2..Len(rowq') PROVE rowq'[i] \in Late
          OBVIOUS
        <5>1. CASE i = Len(rowq) + 1
          BY <1>5, <3>2, <5>1
        <5>2. CASE i # Len(rowq) + 1
          <6>1. i \in 2..Len(rowq) /\ i \in 1..Len(rowq)
            BY <1>5, <5>2
          <6> QED BY <1>5, <3>3, <6>1 DEF BeforeClear
        <5> QED BY <5>1, <5>2
      <4>3. BeforeClear'
        BY <1>2, <1>6, <3>3, <4>1, <4>2 DEF BeforeClear
      <4> QED BY <1>2, <2>2, <3>1, <3>2, <4>3 DEF Discarding
    <3>4. CASE AfterClear
      <4>1. AfterClear'
        BY <1>2, <1>6, <3>2, <3>4 DEF AfterClear, Late
      <4> QED BY <1>2, <2>2, <3>1, <3>2, <4>1 DEF Discarding
    <3> QED BY <3>1, <3>3, <3>4
  <2> QED BY <2>1, <2>2
<1>12. ReachedAnchor'
  <2> SUFFICES ASSUME NEW c \in Chains, Anchor \in Known(c)'
               PROVE  mem'.c = c /\ Anchor <= mem'.tip
    BY DEF ReachedAnchor
  <2>1. CASE Anchor \in Known(c)
    <3>1. mem.c = c /\ Anchor <= mem.tip
      BY <2>1 DEF On, Running, ReachedAnchor
    <3> QED BY <1>1, <1>4, <1>10, <3>1, AnchorIs
  <2>2. CASE Anchor \notin Known(c)
    <3>1. c = mem.c /\ Anchor = h
      BY <1>6, <2>2
    <3> QED BY <1>4, <3>1, AnchorIs
  <2> QED BY <2>1, <2>2
<1>13. HeadOfChain'
  BY <1>1, <1>2, <1>4, <1>10, AnchorIs DEF On, Running, HeadOfChain
<1>14. \A v \in Mark : Fitting(v) => Fitting(v)'
  BY <1>4, <1>6 DEF Fitting, Mark
<1>15. SnapshotsFit'
  <2>1. ASSUME NEW o \in Puts("snap")'
        PROVE  /\ Fitting(o.v)'
               /\ \/ o.v = None
                  \/ o.v.c = mem'.c /\ o.v.h <= mem'.tip
                  \/ disk'.head = None /\ fast' = "idle"
    <3>1. o \in Puts("snap") /\ o \in MetaOps
      BY <1>6, StoreFacts DEF Puts
    <3>2. o.v \in Mark /\ (o.v # None => o.v.h \in Nat)
      BY <3>1, AnchorIs DEF MetaOps, Mark
    <3>3. /\ Fitting(o.v)
          /\ \/ o.v = None
             \/ o.v.c = mem.c /\ o.v.h <= mem.tip
             \/ disk.head = None /\ fast = "idle"
      BY <3>1 DEF On, Running, SnapshotsFit
    <3> QED BY <1>1, <1>2, <1>4, <1>10, <1>14, <3>2, <3>3
  <2>2. ASSUME discard' = "no", fast' # "head", Puts("snap")' = {}
        PROVE  Fitting(disk.snap)'
    <3>1. Fitting(disk.snap)
      BY <1>2, <1>6, <2>2 DEF On, Running, SnapshotsFit
    <3> QED BY <1>4, <1>6, <1>2, <3>1, StoreFacts DEF Fitting, Mark
  <2> QED BY <2>1, <2>2 DEF SnapshotsFit
<1>16. BackfillAnchored'
  BY <1>2, <1>7, <1>8 DEF On, Running, BackfillAnchored
<1>17. FastAnchored'
  <2> SUFFICES ASSUME fast' # "idle" PROVE FastAnchored'
    BY DEF FastAnchored
  <2>1. /\ mem.base = Anchor /\ Anchor <= mem.tip /\ ~Sweeping /\ discard = "no"
        /\ \A o \in Puts("snap") : o.v = At(mem.c, Anchor)
        /\ \A c \in Chains : Anchor \notin Known(c)
        /\ \/ disk.head = At(mem.c, Anchor) /\ Puts("head") = {}
           \/ fast = "head" /\ metaq # <<>> /\ metaq[1] = Op("head", At(mem.c, Anchor), "fast")
        /\ fast = "snap" => \/ disk.snap = At(mem.c, Anchor)
                            \/ \E o \in Puts("snap") : o.by = "fast"
    BY <1>2 DEF On, Running, FastAnchored
  <2>2. Anchor <= mem'.tip /\ h # Anchor
    BY <1>1, <1>4, <1>10, <2>1, AnchorIs
  <2>3. ASSUME NEW c \in Chains PROVE Anchor \notin Known(c)'
    <3>1. Anchor \notin Known(c)
      BY <2>1
    <3> QED BY <1>6, <2>2, <3>1
  <2>4. ~Sweeping'
    BY <1>2, <2>1 DEF Sweeping
  <2> QED BY <1>2, <1>4, <1>6, <2>1, <2>2, <2>3, <2>4 DEF FastAnchored
<1>18. BelowAnchor'
  <2> SUFFICES ASSUME discard' = "no", mem'.tip < Anchor
               PROVE  Missing' = {} /\ (Shorter' \/ FromSnapshot')
    BY DEF BelowAnchor
  <2>1. discard = "no" /\ mem.tip < Anchor
    BY <1>1, <1>2, <1>4, <1>10, AnchorIs
  <2>2. Missing = {} /\ (Shorter \/ FromSnapshot)
    BY <2>1 DEF On, Running, BelowAnchor
  <2>3. CASE Shorter
    <3>1. 1..Outbid \subseteq 1..Outbid'
      BY <1>1, <1>4, <1>10 DEF Outbid
    <3>2. ASSUME NEW c \in Chains, c # mem'.c PROVE ~(1..Outbid' \subseteq Known(c)')
      <4>1. c # mem.c
        BY <1>4, <3>2
      <4>2. Known(c)' = Known(c)
        BY <1>6, <4>1
      <4>3. ~(1..Outbid \subseteq Known(c))
        BY <2>3, <4>1 DEF Shorter
      <4> QED BY <3>1, <4>2, <4>3
    <3> QED BY <1>7, <2>2, <3>2 DEF Shorter
  <2>4. CASE FromSnapshot
    <3>1. /\ Known(mem.c) = 1..mem.tip
          /\ \A c \in Chains : c # mem.c => \E r \in 0..mem.base : Known(c) = 1..r
          /\ disk.snap.c = mem.c /\ disk.snap.h \in mem.base..mem.tip
          /\ \A o \in Puts("snap") : o.v.c = mem.c /\ o.v.h \in mem.base..mem.tip
      BY <2>4 DEF FromSnapshot
    <3>2. 1..mem'.tip = 1..mem.tip \cup {h} /\ mem.base..mem.tip \subseteq mem.base..mem'.tip
      BY <1>1, <1>4, <1>10
    <3>3. Known(mem.c)' = 1..mem'.tip
      <4>1. PICK c \in Chains : c = mem.c
        BY <1>1
      <4>2. Known(c)' = Known(c) \cup {h} /\ Known(c) = 1..mem.tip
        BY <1>6, <3>1, <4>1
      <4>3. Known(c)' = 1..mem'.tip
        BY <3>2, <4>2
      <4> QED BY <1>4, <4>1, <4>3
    <3>4. \A c \in Chains : c # mem'.c => \E r \in 0..mem'.base : Known(c)' = 1..r
      BY <1>4, <1>6, <3>1
    <3>5. \A o \in Puts("snap")' : o.v.c = mem'.c /\ o.v.h \in mem'.base..mem'.tip
      BY <1>4, <1>6, <3>1, <3>2
    <3>6. disk'.snap.c = mem'.c /\ disk'.snap.h \in mem'.base..mem'.tip
      BY <1>2, <1>4, <3>1, <3>2
    <3> QED BY <1>7, <2>2, <3>3, <3>4, <3>5, <3>6 DEF FromSnapshot
  <2> QED BY <1>7, <2>2, <2>3, <2>4
<1>19. InOrder'
  <2> SUFFICES ASSUME NEW i \in 1..Len(rowq'), NEW c \in Chains, rowq'[i] = <<c, Anchor>>,
                      backfill'.at # "work", NEW g \in 1..(Anchor - 1)
               PROVE  <<c, g>> \in disk'.rows \/ \E k \in 1..(i - 1) : rowq'[k] = <<c, g>>
    BY DEF InOrder
  <2>1. CASE i # Len(rowq) + 1
    <3>1. i \in 1..Len(rowq) /\ rowq[i] = <<c, Anchor>>
      BY <1>5, <2>1
    <3>2. <<c, g>> \in disk.rows \/ \E k \in 1..(i - 1) : rowq[k] = <<c, g>>
      BY <1>2, <3>1 DEF On, Running, InOrder
    <3>3. \A k \in 1..(i - 1) : rowq'[k] = rowq[k]
      BY <1>5, <3>1
    <3> QED BY <1>2, <3>2, <3>3
  <2>2. CASE i = Len(rowq) + 1
    <3>1. c = mem.c /\ h = Anchor
      BY <1>5, <2>2
    <3>2. mem.tip < Anchor /\ mem.tip = Anchor - 1
      BY <1>1, <1>10, <3>1, AnchorIs
    <3>3. discard = "no"
      BY <1>1, <3>2, AnchorIs DEF On, Running, Discarding
    <3>4. Missing = {} /\ mem.body \subseteq Known(mem.c)
      BY <3>2, <3>3 DEF On, Running, BelowAnchor, BodiesKnown
    <3>5. <<c, g>> \in disk.rows \cup Elems(rowq)
      BY <3>1, <3>2, <3>4 DEF Missing, Known, Stored
    <3>6. CASE <<c, g>> \in Elems(rowq)
      <4>1. PICK k \in 1..Len(rowq) : rowq[k] = <<c, g>>
        BY <3>6 DEF Elems
      <4>2. k \in 1..(i - 1) /\ rowq'[k] = rowq[k]
        BY <1>5, <2>2
      <4> QED BY <4>1, <4>2
    <3> QED BY <1>2, <3>5, <3>6
  <2> QED BY <2>1, <2>2
<1>20. BodiesKnown'
  <2>1. PICK c \in Chains : c = mem.c
    BY <1>1
  <2>2. Known(c)' = Known(c) \cup {h} /\ (discard = "no" => mem.body \subseteq Known(c))
    BY <1>6, <2>1 DEF On, Running, BodiesKnown
  <2>3. discard' = "no" => mem'.body \subseteq Known(c)'
    BY <1>2, <1>4, <2>2
  <2> QED BY <1>4, <2>1, <2>3 DEF BodiesKnown
<1>21. AnchorComplete'
  BY <1>6, <1>8 DEF On, Running, AnchorComplete
<1> QED BY <1>2, <1>9, <1>11, <1>12, <1>13, <1>15, <1>16, <1>17, <1>18, <1>19, <1>20, <1>21
        DEF On, Running

(* A fast sync from below the anchor replaces the chain in memory.         *)
LEMMA FastSyncKept ==
  ASSUME StoreInv, On, NEW x \in Chains, FastSync(x)
  PROVE  On'
<1> DEFINE o == Op("head", At(x, Anchor), "fast")
<1>1. /\ metaq \in Seq(MetaOps) /\ mem.c \in Chains /\ mem.tip \in Nat
      /\ mem.body \subseteq 1..mem.tip
  BY StoreFacts
<1>2. /\ page = "on" /\ fast = "idle" /\ ~fastDone /\ discard = "no"
      /\ Top - mem.tip > Backlog /\ metaq = <<>>
      /\ mem' = [c |-> x, tip |-> Anchor, base |-> Anchor,
                 body |-> IF mem.c = x THEN mem.body ELSE {}]
      /\ fast' = "head" /\ metaq' = Append(metaq, o)
      /\ UNCHANGED <<disk, rowq, page, timer, lastSnapshot, writer, fastDone, backfill,
                     discard, left, harmed>>
  BY DEF FastSync
<1>3. mem.tip < Anchor /\ mem.tip < Top
  BY <1>1, <1>2, AnchorIs, StoreNumbers
<1>4. mem'.c = x /\ mem'.tip = Anchor /\ mem'.base = Anchor
  BY <1>2
<1>5. o \in MetaOps /\ o.op = "head" /\ o.v = At(x, Anchor) /\ o.v # None
  <2>1. At(x, Anchor) \in Mark /\ "fast" \in Owners
    BY AnchorIs, OpTypes DEF Owners
  <2>2. At(x, Anchor) # None
    BY AnchorIs DEF At, None
  <2> QED BY <2>1, <2>2, OpTypes DEF Op
<1> HIDE DEF o
<1>6. /\ Elems(metaq') = {o} /\ metaq'[1] = o /\ Len(metaq') = 1 /\ metaq' # <<>>
      /\ Elems(metaq) = {}
  <2>1. Elems(metaq) = {} /\ Len(metaq) = 0
    BY <1>2, ElemsOfNone
  <2>2. Elems(metaq') = Elems(metaq) \cup {o} /\ Len(metaq') = Len(metaq) + 1
        /\ metaq'[Len(metaq) + 1] = o /\ metaq' # <<>>
    BY <1>1, <1>2, <1>5, AfterPut
  <2> QED BY <2>1, <2>2
<1>7. /\ Puts("head")' = {o} /\ Puts("snap")' = {} /\ Puts("clear")' = {}
      /\ Puts("version")' = {}
  BY <1>5, <1>6 DEF Puts
<1>8. /\ Stored' = Stored /\ \A c : Known(c)' = Known(c)
      /\ \A c : RowsOf(disk, c)' = RowsOf(disk, c) /\ RowsOf(disk, c) \subseteq Known(c)
  BY <1>2 DEF Stored, Known, RowsOf
<1>9. \A c \in Chains : Anchor \notin Known(c)
  BY <1>1, <1>3, AnchorIs DEF On, Running, ReachedAnchor
<1>10. HeadsAtAnchor'
  <2>1. disk'.head \in {None, At("honest", Anchor), At("forged", Anchor)}
    BY <1>2 DEF On, HeadsAtAnchor
  <2>2. \A i \in 1..Len(metaq') : i = 1 /\ metaq'[i] = o
    BY <1>6
  <2>3. \A y \in Elems(metaq') : y.op \notin {"clear", "version"}
    BY <1>5, <1>6
  <2> QED BY <1>2, <1>4, <1>5, <2>1, <2>2, <2>3 DEF HeadsAtAnchor
<1>11. Discarding'
  <2>1. disk.version /\ ClearRows \notin Elems(rowq)
    BY <1>2 DEF On, Running, Discarding
  <2> QED BY <1>2, <1>7, <2>1 DEF Discarding
<1>12. ReachedAnchor'
  BY <1>8, <1>9 DEF ReachedAnchor
<1>13. HeadOfChain'
  <2>1. ~(disk.head # None /\ disk.snap = disk.head)
    BY <1>1, <1>3, AnchorIs DEF On, Running, HeadOfChain
  <2> QED BY <1>2, <2>1 DEF HeadOfChain
<1>14. SnapshotsFit'
  BY <1>2, <1>7 DEF SnapshotsFit
<1>15. BackfillAnchored'
  BY <1>2 DEF BackfillAnchored
<1>16. FastAnchored'
  <2>1. ~Sweeping'
    BY <1>1, <1>2, <1>3, AnchorIs DEF StoreInv, SweepHolds, Sweeping
  <2>2. \A c \in Chains : Anchor \notin Known(c)'
    BY <1>8, <1>9
  <2>3. metaq'[1] = Op("head", At(mem'.c, Anchor), "fast")
    BY <1>4, <1>6 DEF o
  <2>4. Anchor <= mem'.tip
    BY <1>4, AnchorIs
  <2> QED BY <1>2, <1>4, <1>6, <1>7, <2>1, <2>2, <2>3, <2>4 DEF FastAnchored
<1>17. InOrder'
  <2> SUFFICES ASSUME NEW i \in 1..Len(rowq'), NEW c \in Chains, rowq'[i] = <<c, Anchor>>
               PROVE  FALSE
    BY DEF InOrder
  <2>1. <<c, Anchor>> \in Elems(rowq)
    BY <1>2 DEF Elems
  <2>2. Anchor \in Known(c)
    BY <2>1, AnchorIs DEF Known, Stored
  <2> QED BY <1>9, <2>2
<1>18. BodiesKnown'
  <2>1. CASE x = mem.c
    <3>1. mem.body \subseteq Known(x)
      BY <1>2, <2>1 DEF On, Running, BodiesKnown
    <3>2. mem'.body \subseteq Known(x)'
      BY <1>2, <1>8, <2>1, <3>1
    <3> QED BY <1>4, <3>2 DEF BodiesKnown
  <2>2. CASE x # mem.c
    BY <1>2, <2>2 DEF BodiesKnown
  <2> QED BY <2>1, <2>2
<1>19. AnchorComplete'
  BY <1>8, <1>9 DEF AnchorComplete
<1>20. BelowAnchor'
  BY <1>4, AnchorIs DEF BelowAnchor
<1> QED BY <1>2, <1>10, <1>11, <1>12, <1>13, <1>14, <1>15, <1>16, <1>17, <1>18, <1>19, <1>20
        DEF On, Running

(* The hook has put the blob, and puts the snapshot.                       *)
LEMMA FastPersistKept ==
  ASSUME StoreInv, On, FastPersist
  PROVE  On'
<1> DEFINE o == Op("snap", At(mem.c, Anchor), "fast")
<1>1. metaq \in Seq(MetaOps) /\ mem.c \in Chains /\ mem.tip \in Nat
  BY StoreFacts
<1>2. /\ fast = "head" /\ Done("fast") /\ fast' = "snap" /\ metaq' = Append(metaq, o)
      /\ UNCHANGED <<disk, rowq, page, mem, timer, lastSnapshot, writer, fastDone, backfill,
                     discard, left, harmed>>
  BY DEF FastPersist
<1>3. o \in MetaOps /\ o.op = "snap" /\ o.v = At(mem.c, Anchor) /\ o.by = "fast"
  <2>1. At(mem.c, Anchor) \in Mark /\ "fast" \in Owners
    BY <1>1, AnchorIs, OpTypes DEF Owners
  <2> QED BY <2>1, OpTypes DEF Op
<1> HIDE DEF o
<1>4. /\ \A k : Puts(k)' = Puts(k) \cup {y \in {o} : y.op = k}
      /\ Elems(metaq') = Elems(metaq) \cup {o}
  BY <1>1, <1>2, <1>3, AfterPut
<1>5. /\ Puts("head")' = Puts("head") /\ Puts("clear")' = Puts("clear")
      /\ Puts("version")' = Puts("version") /\ Puts("snap")' = Puts("snap") \cup {o}
  BY <1>3, <1>4
<1>6. /\ mem.base = Anchor /\ Anchor <= mem.tip /\ ~Sweeping /\ discard = "no"
      /\ \A y \in Puts("snap") : y.v = At(mem.c, Anchor)
      /\ \A c \in Chains : Anchor \notin Known(c)
      /\ disk.head = At(mem.c, Anchor) /\ Puts("head") = {}
  <2>1. ~(metaq # <<>> /\ metaq[1] = Op("head", At(mem.c, Anchor), "fast"))
    <3> SUFFICES ASSUME metaq # <<>>, metaq[1] = Op("head", At(mem.c, Anchor), "fast")
                 PROVE  FALSE
      OBVIOUS
    <3>1. 1 \in DOMAIN metaq
      BY <1>1
    <3>2. metaq[1].by = "fast"
      BY DEF Op
    <3> QED BY <1>2, <3>1, <3>2 DEF Done
  <2> QED BY <1>2, <2>1 DEF On, Running, FastAnchored
<1>7. /\ Stored' = Stored /\ \A c : Known(c)' = Known(c)
      /\ \A c : RowsOf(disk, c)' = RowsOf(disk, c) /\ RowsOf(disk, c) \subseteq Known(c)
  BY <1>2 DEF Stored, Known, RowsOf
<1>8. HeadsAtAnchor'
  BY <1>1, <1>2, <1>3, <1>6, HeadsAfterPut DEF On
<1>9. Discarding'
  BY <1>2, <1>5, <1>6 DEF On, Running, Discarding
<1>10. ReachedAnchor'
  BY <1>6, <1>7 DEF ReachedAnchor
<1>11. HeadOfChain'
  BY <1>2 DEF On, Running, HeadOfChain
<1>12. SnapshotsFit'
  <2>1. \A y \in Puts("snap")' : y.v = At(mem'.c, Anchor) /\ At(mem'.c, Anchor).c = mem'.c
                                 /\ At(mem'.c, Anchor).h <= mem'.tip
    BY <1>2, <1>3, <1>5, <1>6 DEF At
  <2>2. \A y \in Puts("snap")' : Fitting(y.v)'
    BY <2>1 DEF Fitting
  <2>3. Puts("snap")' # {}
    BY <1>5
  <2> QED BY <2>1, <2>2, <2>3 DEF SnapshotsFit
<1>13. BackfillAnchored'
  BY <1>2 DEF BackfillAnchored
<1>14. FastAnchored'
  <2>1. ~Sweeping'
    BY <1>2, <1>6 DEF Sweeping
  <2>2. \A c \in Chains : Anchor \notin Known(c)'
    BY <1>6, <1>7
  <2>3. \E y \in Puts("snap")' : y.by = "fast"
    BY <1>3, <1>5
  <2>4. \A y \in Puts("snap")' : y.v = At(mem'.c, Anchor)
    BY <1>2, <1>3, <1>5, <1>6
  <2> QED BY <1>2, <1>5, <1>6, <2>1, <2>2, <2>3, <2>4 DEF FastAnchored
<1>15. InOrder'
  <2> SUFFICES ASSUME NEW i \in 1..Len(rowq'), NEW c \in Chains, rowq'[i] = <<c, Anchor>>
               PROVE  FALSE
    BY DEF InOrder
  <2>1. <<c, Anchor>> \in Elems(rowq)
    BY <1>2 DEF Elems
  <2>2. Anchor \in Known(c)
    BY <2>1, AnchorIs DEF Known, Stored
  <2> QED BY <1>6, <2>2
<1>16. BodiesKnown'
  BY <1>2, <1>7 DEF On, Running, BodiesKnown
<1>17. AnchorComplete'
  BY <1>6, <1>7 DEF AnchorComplete
<1>18. BelowAnchor'
  BY <1>1, <1>2, <1>6, AnchorIs DEF BelowAnchor
<1> QED BY <1>2, <1>8, <1>9, <1>10, <1>11, <1>12, <1>13, <1>14, <1>15, <1>16, <1>17, <1>18
        DEF On, Running

(* The hook has put both.                                                  *)
LEMMA FastEndKept ==
  ASSUME StoreInv, On, FastEnd
  PROVE  On'
<1>1. metaq \in Seq(MetaOps) /\ mem.c \in Chains /\ mem.tip \in Nat
  BY StoreFacts
<1>2. /\ fast = "snap" /\ Done("fast") /\ fast' = "idle"
      /\ UNCHANGED <<disk, rowq, metaq, page, mem, timer, writer, backfill, discard, left,
                     harmed>>
  BY DEF FastEnd
<1>3. /\ \A k : Puts(k)' = Puts(k)
      /\ Elems(rowq') = Elems(rowq) /\ Elems(metaq') = Elems(metaq)
      /\ Stored' = Stored /\ \A c : Known(c)' = Known(c)
      /\ \A c : RowsOf(disk, c)' = RowsOf(disk, c)
      /\ Missing' = Missing /\ (Anchored <=> Anchored')
      /\ \A v : Fitting(v)' <=> Fitting(v)
  BY <1>2, StoresUnmoved
<1>4. /\ mem.base = Anchor /\ Anchor <= mem.tip /\ ~Sweeping /\ discard = "no"
      /\ \A y \in Puts("snap") : y.v = At(mem.c, Anchor)
      /\ \A c \in Chains : Anchor \notin Known(c)
      /\ disk.head = At(mem.c, Anchor) /\ Puts("head") = {} /\ disk.snap = At(mem.c, Anchor)
  <2>1. \A y \in Elems(metaq) : y.by # "fast"
    BY <1>1, <1>2 DEF Done, Elems
  <2>2. ~(\E y \in Puts("snap") : y.by = "fast")
    BY <2>1 DEF Puts
  <2>3. fast # "head" /\ fast # "idle"
    BY <1>2
  <2> QED BY <1>2, <2>2, <2>3 DEF On, Running, FastAnchored
<1>5. Anchored
  BY <1>4 DEF Anchored
<1>6. HeadsAtAnchor'
  <2>1. \A i \in 1..Len(metaq) : metaq[i].op # "head"
    BY <1>4 DEF Puts, Elems
  <2> QED BY <1>2, <1>3, <2>1 DEF On, HeadsAtAnchor
<1>7. Discarding'
  BY <1>2, <1>3, <1>4 DEF On, Running, Discarding
<1>8. ReachedAnchor'
  BY <1>3, <1>4 DEF ReachedAnchor
<1>9. HeadOfChain'
  BY <1>2 DEF On, Running, HeadOfChain
<1>10. SnapshotsFit'
  <2>1. \A y \in Puts("snap")' : y.v = At(mem'.c, Anchor) /\ At(mem'.c, Anchor).c = mem'.c
                                 /\ At(mem'.c, Anchor).h <= mem'.tip
    BY <1>2, <1>3, <1>4 DEF At
  <2>2. \A y \in Puts("snap")' : Fitting(y.v)'
    BY <2>1 DEF Fitting
  <2>3. disk'.snap.c = mem'.c
    BY <1>2, <1>4 DEF At
  <2>4. Fitting(disk.snap)'
    BY <2>3 DEF Fitting
  <2> QED BY <2>1, <2>2, <2>4 DEF SnapshotsFit
<1>11. BackfillAnchored'
  BY <1>3, <1>5 DEF BackfillAnchored
<1>12. FastAnchored'
  BY <1>2 DEF FastAnchored
<1>13. InOrder'
  <2> SUFFICES ASSUME NEW i \in 1..Len(rowq'), NEW c \in Chains, rowq'[i] = <<c, Anchor>>
               PROVE  FALSE
    BY DEF InOrder
  <2>1. <<c, Anchor>> \in Elems(rowq)
    BY <1>2 DEF Elems
  <2>2. Anchor \in Known(c)
    BY <2>1, AnchorIs DEF Known, Stored
  <2> QED BY <1>4, <2>2
<1>14. BodiesKnown'
  BY <1>2, <1>3 DEF On, Running, BodiesKnown
<1>15. AnchorComplete'
  BY <1>3, <1>5 DEF AnchorComplete
<1>16. BelowAnchor'
  BY <1>1, <1>2, <1>4, AnchorIs DEF BelowAnchor
<1> QED BY <1>2, <1>6, <1>7, <1>8, <1>9, <1>10, <1>11, <1>12, <1>13, <1>14, <1>15, <1>16
        DEF On, Running

(* While the sweep is at work there is no fast sync and no discard.        *)
LEMMA SweepAlone ==
  ASSUME StoreInv, On, Sweeping
  PROVE  fast = "idle" /\ discard = "no" /\ Top <= mem.tip /\ Anchor < mem.tip
<1>1. Top <= mem.tip /\ discard = "no" /\ mem.tip \in Nat
  BY StoreFacts DEF StoreInv, SweepHolds
<1>2. fast = "idle"
  BY DEF On, Running, FastAnchored
<1> QED BY <1>1, <1>2, AnchorIs

(* The next block of a batch.                                              *)
LEMMA BatchStepOn ==
  ASSUME StoreInv, On, BatchStep
  PROVE  On'
<1> DEFINE b == Head(backfill.todo)
           skip == b.h \in mem.body
           fatal == ~skip /\ ~b.ok /\ SecondFailure(b.h)
           r == <<mem.c, b.h>>
<1>1. /\ metaq \in Seq(MetaOps) /\ rowq \in Seq(Rows \cup {ClearRows}) /\ mem \in Memories
      /\ mem.c \in Chains /\ mem.tip \in Nat /\ backfill \in Backfills
  BY StoreFacts
<1>2. /\ backfill.at = "work" /\ backfill.todo # <<>> /\ rowq = <<>>
      /\ UNCHANGED <<disk, page, timer, lastSnapshot, writer, fast, fastDone, left, harmed>>
      /\ skip => /\ UNCHANGED <<mem, rowq, metaq, discard>>
                 /\ backfill' = [backfill EXCEPT !.todo = Tail(@)]
      /\ ~skip /\ b.ok =>
           /\ mem' = [mem EXCEPT !.body = @ \cup {b.h}] /\ UNCHANGED <<metaq, discard>>
           /\ rowq' = <<r>>
           /\ backfill' = [backfill EXCEPT !.todo = Tail(@), !.suspects = @ \ {b.h}]
      /\ ~skip /\ ~b.ok /\ ~fatal =>
           /\ UNCHANGED <<mem, rowq, metaq, discard>>
           /\ backfill' = [backfill EXCEPT !.todo = Tail(@), !.suspects = @ \cup {b.h}]
      /\ fatal => mem' = mem /\ rowq' = <<ClearRows>> /\ metaq' = Append(metaq, Clear)
                  /\ discard' = "clear" /\ backfill' = NoBackfill
  BY BatchStepBy DEF StoreInv, Held
<1>3. b.h \in Heights
  <2>1. backfill.todo \in Seq(Blocks)
    BY <1>1 DEF Backfills
  <2>2. b \in Blocks
    BY <1>2, <2>1, HeadTailProperties
  <2> QED BY <2>2 DEF Blocks
<1> HIDE DEF b, skip, fatal
<1>4. /\ fast = "idle" /\ discard = "no" /\ Top <= mem.tip /\ Anchor < mem.tip /\ Anchored
      /\ Elems(rowq) = {}
  BY <1>2, SweepAlone, ElemsOfNone DEF Sweeping, On, Running, BackfillAnchored
<1>5. CASE skip \/ (~b.ok /\ ~fatal)
  <2>1. UNCHANGED <<page, disk, rowq, metaq, mem, fast, discard>>
    BY <1>2, <1>5
  <2>2. backfill'.at = "work"
    BY <1>1, <1>2, <1>5 DEF Backfills
  <2> QED BY <1>2, <1>4, <2>1, <2>2, OnUnmoved
<1>6. CASE ~skip /\ b.ok
  <2>1. /\ mem' = [mem EXCEPT !.body = @ \cup {b.h}] /\ UNCHANGED <<metaq, discard>>
        /\ rowq' = <<r>>
        /\ backfill' = [backfill EXCEPT !.todo = Tail(@), !.suspects = @ \ {b.h}]
    BY <1>2, <1>6
  <2>2. /\ mem'.c = mem.c /\ mem'.tip = mem.tip /\ mem'.base = mem.base
        /\ mem'.body = mem.body \cup {b.h} /\ backfill'.at = "work"
    BY <1>1, <1>2, <2>1 DEF Memories, Backfills
  <2>3. r # ClearRows
    BY <1>3, ClearIsNoRow
  <2>4. Len(rowq') = 1 /\ rowq'[1] = r /\ Elems(rowq') = {r}
    <3> HIDE DEF r
    <3>1. Len(rowq') = 1 /\ rowq'[1] = r
      BY <2>1
    <3> QED BY <3>1 DEF Elems
  <2>5. /\ Stored' = Stored \cup {r}
        /\ \A c \in Chains : Known(c)' = IF c = mem.c THEN Known(c) \cup {b.h} ELSE Known(c)
        /\ \A k : Puts(k)' = Puts(k)
        /\ \A c : RowsOf(disk, c)' = RowsOf(disk, c)
    <3>1. Stored' = Stored \cup {r}
      BY <1>2, <1>4, <2>4 DEF Stored
    <3>2. ASSUME NEW c \in Chains, c = mem.c PROVE Known(c)' = Known(c) \cup {b.h}
      BY <1>3, <3>1, <3>2 DEF Known
    <3>3. ASSUME NEW c \in Chains, c # mem.c PROVE Known(c)' = Known(c)
      BY <3>1, <3>3 DEF Known
    <3>4. \A k : Puts(k)' = Puts(k)
      BY <2>1 DEF Puts
    <3>5. \A c : RowsOf(disk, c)' = RowsOf(disk, c)
      BY <1>2 DEF RowsOf
    <3> QED BY <3>1, <3>2, <3>3, <3>4, <3>5
  <2>6. Anchored'
    BY <1>2, <1>4, <2>2, <2>5 DEF Anchored
  <2> HIDE DEF r
  <2>7. HeadsAtAnchor'
    BY <1>2, <2>1, <2>2 DEF On, HeadsAtAnchor
  <2>8. Discarding'
    BY <1>2, <1>4, <2>1, <2>3, <2>4, <2>5 DEF On, Running, Discarding
  <2>9. ReachedAnchor'
    <3> SUFFICES ASSUME NEW c \in Chains, Anchor \in Known(c)' PROVE mem'.c = c /\ Anchor <= mem'.tip
      BY DEF ReachedAnchor
    <3>1. CASE c = mem.c
      BY <1>1, <1>4, <2>2, <3>1, AnchorIs
    <3>2. CASE c # mem.c
      <4>1. Anchor \in Known(c)
        BY <2>5, <3>2
      <4> QED BY <2>2, <4>1 DEF On, Running, ReachedAnchor
    <3> QED BY <3>1, <3>2
  <2>10. HeadOfChain'
    BY <1>2, <2>2 DEF On, Running, HeadOfChain
  <2>11. SnapshotsFit'
    <3>1. \A y \in Puts("snap")' : y.v = At(mem'.c, Anchor) /\ At(mem'.c, Anchor).c = mem'.c
                                   /\ At(mem'.c, Anchor).h <= mem'.tip
      BY <1>1, <1>4, <2>2, <2>5, <2>6, AnchorIs DEF Anchored, At
    <3>2. \A y \in Puts("snap")' : Fitting(y.v)'
      BY <3>1 DEF Fitting
    <3>3. disk'.snap.c = mem'.c
      BY <2>6 DEF At, Anchored
    <3>4. Fitting(disk.snap)'
      BY <3>3 DEF Fitting
    <3> QED BY <3>1, <3>2, <3>4 DEF SnapshotsFit
  <2>12. BackfillAnchored'
    BY <2>6 DEF BackfillAnchored
  <2>13. FastAnchored'
    BY <1>2, <1>4 DEF FastAnchored
  <2>14. InOrder'
    BY <2>2 DEF InOrder
  <2>15. BodiesKnown'
    <3>1. PICK c \in Chains : c = mem.c
      BY <1>1
    <3>2. mem.body \subseteq Known(c) /\ Known(c)' = Known(c) \cup {b.h}
      BY <1>4, <2>5, <3>1 DEF On, Running, BodiesKnown
    <3>3. mem'.body \subseteq Known(c)'
      BY <2>2, <3>2
    <3> QED BY <2>2, <3>1, <3>3 DEF BodiesKnown
  <2>16. AnchorComplete'
    BY <2>6 DEF AnchorComplete
  <2>17. BelowAnchor'
    BY <1>1, <1>4, <2>2, AnchorIs DEF BelowAnchor
  <2> QED BY <1>2, <2>7, <2>8, <2>9, <2>10, <2>11, <2>12, <2>13, <2>14, <2>15, <2>16, <2>17
          DEF On, Running
<1>7. CASE fatal
  <2>1. /\ mem' = mem /\ rowq' = <<ClearRows>> /\ metaq' = Append(metaq, Clear)
        /\ discard' = "clear" /\ backfill' = NoBackfill
    BY <1>2, <1>7
  <2>2. Clear \in MetaOps /\ Clear.op = "clear" /\ Clear = Op("clear", None, "discard")
    BY OpTypes DEF Clear, Op
  <2>3. /\ Puts("head")' = Puts("head") /\ Puts("clear")' = Puts("clear") \cup {Clear}
        /\ Puts("version")' = Puts("version") /\ Puts("snap")' = Puts("snap")
    <3>1. \A k : Puts(k)' = Puts(k) \cup {y \in {Clear} : y.op = k}
      BY <1>1, <2>1, <2>2, AfterPut
    <3> QED BY <2>2, <3>1
  <2>4. Len(rowq') = 1 /\ rowq'[1] = ClearRows /\ Elems(rowq') = {ClearRows} /\ rowq' # <<>>
    <3>1. Len(rowq') = 1 /\ rowq'[1] = ClearRows /\ rowq' # <<>>
      BY <2>1
    <3> QED BY <3>1 DEF Elems
  <2>5. /\ \A c \in Chains : Known(c)' = Known(c)
        /\ \A c : RowsOf(disk, c)' = RowsOf(disk, c)
    BY <1>2, <1>4, <2>4, ClearIsNoRow DEF Known, Stored, RowsOf
  <2>6. Anchored'
    BY <1>2, <1>4, <2>1, <2>3 DEF Anchored
  <2>7. disk.version /\ Puts("clear") = {} /\ Puts("version") = {}
    BY <1>4 DEF On, Running, Discarding
  <2>8. HeadsAtAnchor'
    <3>1. \A y \in Puts("head") : FALSE
      BY <1>4 DEF Anchored
    <3> QED BY <1>1, <1>2, <2>1, <2>2, <2>7, <3>1, HeadsAfterPut DEF On
  <2>9. Discarding'
    <3>1. BeforeClear'
      BY <1>2, <2>1, <2>3, <2>4, <2>7 DEF BeforeClear
    <3>2. ~Sweeping'
      BY <2>1 DEF Sweeping, NoBackfill
    <3> QED BY <1>2, <1>4, <2>1, <3>1, <3>2 DEF Discarding
  <2>10. ReachedAnchor'
    BY <2>1, <2>5 DEF On, Running, ReachedAnchor
  <2>11. HeadOfChain'
    BY <1>2, <2>1 DEF On, Running, HeadOfChain
  <2>12. SnapshotsFit'
    <3>1. \A y \in Puts("snap")' : y.v = At(mem'.c, Anchor) /\ At(mem'.c, Anchor).c = mem'.c
                                   /\ At(mem'.c, Anchor).h <= mem'.tip
      BY <1>1, <1>4, <2>1, <2>6, AnchorIs DEF Anchored, At
    <3>2. \A y \in Puts("snap")' : Fitting(y.v)'
      BY <3>1 DEF Fitting
    <3> QED BY <2>1, <3>1, <3>2 DEF SnapshotsFit
  <2>13. BackfillAnchored'
    BY <2>6 DEF BackfillAnchored
  <2>14. FastAnchored'
    BY <1>2, <1>4 DEF FastAnchored
  <2>15. InOrder'
    BY <2>4, AnchorIs, ClearIsNoRow DEF InOrder
  <2>16. BodiesKnown' /\ AnchorComplete' /\ BelowAnchor'
    BY <2>1, <2>6 DEF BodiesKnown, AnchorComplete, BelowAnchor
  <2> QED BY <1>2, <2>8, <2>9, <2>10, <2>11, <2>12, <2>13, <2>14, <2>15, <2>16 DEF On, Running
<1> QED BY <1>5, <1>6, <1>7

(* A batch is through; when nothing is missing any more the blob goes.     *)
LEMMA BatchEndKept ==
  ASSUME StoreInv, On, BatchEnd
  PROVE  On'
<1> DEFINE o == Op("head", None, "none")
<1>1. /\ metaq \in Seq(MetaOps) /\ mem.c \in Chains /\ mem.tip \in Nat
      /\ mem.body \subseteq 1..mem.tip /\ backfill \in Backfills
  BY StoreFacts
<1>2. /\ backfill.at = "work" /\ backfill.todo = <<>> /\ rowq = <<>>
      /\ backfill' = [backfill EXCEPT !.at = IF Missing = {} THEN "done" ELSE "idle"]
      /\ metaq' = IF Missing = {} THEN Append(metaq, o) ELSE metaq
      /\ UNCHANGED <<disk, rowq, page, mem, timer, lastSnapshot, writer, fast, fastDone,
                     discard, left, harmed>>
  BY DEF BatchEnd
<1>3. /\ fast = "idle" /\ discard = "no" /\ Top <= mem.tip /\ Anchor < mem.tip /\ Anchored
      /\ Elems(rowq) = {} /\ Sweeping
  BY <1>2, SweepAlone, ElemsOfNone DEF Sweeping, On, Running, BackfillAnchored
<1>4. o \in MetaOps /\ o.op = "head" /\ o.v = None
  BY OpTypes DEF Op
<1> HIDE DEF o
<1>5. CASE Missing # {}
  <2>1. UNCHANGED <<page, disk, rowq, metaq, mem, fast, discard>> /\ backfill'.at = "idle"
    BY <1>1, <1>2, <1>5 DEF Backfills
  <2> QED BY <1>2, <1>3, <2>1, OnUnmoved
<1>6. CASE Missing = {}
  <2>1. metaq' = Append(metaq, o) /\ backfill'.at = "done"
    BY <1>1, <1>2, <1>6 DEF Backfills
  <2>2. /\ Puts("head")' = Puts("head") \cup {o} /\ Puts("clear")' = Puts("clear")
        /\ Puts("version")' = Puts("version") /\ Puts("snap")' = Puts("snap")
    <3>1. \A k : Puts(k)' = Puts(k) \cup {y \in {o} : y.op = k}
      BY <1>1, <1>4, <2>1, AfterPut
    <3> QED BY <1>4, <3>1
  <2>3. /\ Stored' = Stored /\ \A c : Known(c)' = Known(c)
        /\ \A c : RowsOf(disk, c)' = RowsOf(disk, c)
        /\ \A c : Known(c) = RowsOf(disk, c)
    BY <1>2, <1>3 DEF Stored, Known, RowsOf
  <2>4. Missing' = {}
    BY <1>2, <1>6 DEF Missing
  <2>5. HeadsAtAnchor'
    <3>1. \A y \in Puts("head") : FALSE
      BY <1>3 DEF Anchored
    <3> QED BY <1>1, <1>2, <1>4, <2>1, <3>1, HeadsAfterPut DEF On
  <2>6. Discarding'
    BY <1>2, <1>3, <2>2 DEF On, Running, Discarding
  <2>7. ReachedAnchor'
    BY <1>2, <2>3 DEF On, Running, ReachedAnchor
  <2>8. HeadOfChain'
    BY <1>2 DEF On, Running, HeadOfChain
  <2>9. SnapshotsFit'
    <3>1. \A y \in Puts("snap")' : y.v = At(mem'.c, Anchor) /\ At(mem'.c, Anchor).c = mem'.c
                                   /\ At(mem'.c, Anchor).h <= mem'.tip
      BY <1>1, <1>2, <1>3, <2>2, AnchorIs DEF Anchored, At
    <3>2. \A y \in Puts("snap")' : Fitting(y.v)'
      BY <3>1 DEF Fitting
    <3>3. disk'.snap.c = mem'.c
      BY <1>2, <1>3 DEF At, Anchored
    <3>4. Fitting(disk.snap)'
      BY <3>3 DEF Fitting
    <3> QED BY <3>1, <3>2, <3>4 DEF SnapshotsFit
  <2>10. BackfillAnchored'
    BY <2>1, <2>4 DEF BackfillAnchored
  <2>11. FastAnchored'
    BY <1>2, <1>3 DEF FastAnchored
  <2>12. InOrder'
    BY <1>2 DEF InOrder
  <2>13. BodiesKnown'
    BY <1>2, <2>3 DEF On, Running, BodiesKnown
  <2>14. AnchorComplete'
    <3> SUFFICES ASSUME NEW c \in Chains, Anchor \in RowsOf(disk, c)'
                 PROVE  1..Anchor \subseteq RowsOf(disk, c)'
      BY DEF AnchorComplete
    <3>1. c = mem.c
      BY <2>3 DEF On, Running, ReachedAnchor
    <3>2. mem.body \subseteq RowsOf(disk, c)
      BY <1>3, <2>3, <3>1 DEF On, Running, BodiesKnown
    <3>3. 1..Anchor \subseteq mem.body
      BY <1>1, <1>3, <1>6, AnchorIs DEF Missing
    <3> QED BY <2>3, <3>2, <3>3
  <2>15. BelowAnchor'
    BY <1>1, <1>2, <1>3, AnchorIs DEF BelowAnchor
  <2> QED BY <1>2, <2>5, <2>6, <2>7, <2>8, <2>9, <2>10, <2>11, <2>12, <2>13, <2>14, <2>15
          DEF On, Running
<1> QED BY <1>5, <1>6

(* The stores are cleared: the version of this build is put again.         *)
LEMMA DiscardVersionKept ==
  ASSUME StoreInv, On, DiscardVersion
  PROVE  On'
<1>1. metaq \in Seq(MetaOps) /\ MarkVersion \in MetaOps /\ MarkVersion.op = "version"
      /\ MarkVersion.by = "discard"
  BY StoreFacts, OpTypes DEF MarkVersion, Op, Owners
<1>2. /\ discard = "clear" /\ Done("discard") /\ discard' = "version"
      /\ metaq' = Append(metaq, MarkVersion)
      /\ UNCHANGED <<disk, rowq, page, mem, timer, lastSnapshot, writer, fast, fastDone,
                     backfill, left, harmed>>
  BY DEF DiscardVersion, MarkVersion
<1>3. Puts("clear") = {} /\ AfterClear /\ fast = "idle" /\ Top <= mem.tip /\ ~Sweeping
  <2>1. \A y \in Elems(metaq) : y.by # "discard"
    BY <1>1, <1>2 DEF Done, Elems
  <2>2. \A y \in Elems(metaq) : y.op # "clear"
    BY <2>1 DEF On, HeadsAtAnchor, Op
  <2>3. Puts("clear") = {}
    BY <2>2 DEF Puts
  <2> QED BY <1>2, <2>3 DEF On, Running, Discarding, BeforeClear
<1>4. /\ Puts("head")' = Puts("head") /\ Puts("clear")' = Puts("clear")
      /\ Puts("version")' = Puts("version") \cup {MarkVersion} /\ Puts("snap")' = Puts("snap")
  <2>1. \A k : Puts(k)' = Puts(k) \cup {y \in {MarkVersion} : y.op = k}
    BY <1>1, <1>2, AfterPut
  <2> QED BY <1>1, <2>1
<1>5. /\ Stored' = Stored /\ \A c : Known(c)' = Known(c)
      /\ \A c : RowsOf(disk, c)' = RowsOf(disk, c)
  BY <1>2 DEF Stored, Known, RowsOf
<1>6. disk.head = None
  BY <1>3 DEF AfterClear
<1>7. HeadsAtAnchor'
  <2>1. \A y \in Puts("head") : y.v = None
    BY <1>3 DEF On, HeadsAtAnchor, Puts, Elems
  <2>2. MarkVersion = Op(MarkVersion.op, None, "discard")
    BY DEF MarkVersion, Op
  <2> QED BY <1>1, <1>2, <2>1, <2>2, HeadsAfterPut DEF On
<1>8. Discarding'
  <2>1. AfterClear'
    BY <1>2, <1>3, <1>4, <1>5 DEF AfterClear, Late
  <2>2. ~Sweeping'
    BY <1>2, <1>3 DEF Sweeping
  <2> QED BY <1>2, <1>3, <2>1, <2>2 DEF Discarding
<1>9. ReachedAnchor'
  BY <1>2, <1>5 DEF On, Running, ReachedAnchor
<1>10. HeadOfChain'
  BY <1>2 DEF On, Running, HeadOfChain
<1>11. SnapshotsFit'
  BY <1>2, <1>4, <1>5 DEF On, Running, SnapshotsFit, Fitting
<1>12. BackfillAnchored' /\ BodiesKnown' /\ BelowAnchor'
  BY <1>2 DEF BackfillAnchored, BodiesKnown, BelowAnchor
<1>13. FastAnchored'
  BY <1>2, <1>3 DEF FastAnchored
<1>14. \A c \in Chains : Anchor \notin Known(c)
  BY <1>3, AnchorIs DEF AfterClear, Late, Known
<1>15. InOrder'
  <2> SUFFICES ASSUME NEW i \in 1..Len(rowq'), NEW c \in Chains, rowq'[i] = <<c, Anchor>>
               PROVE  FALSE
    BY DEF InOrder
  <2>1. <<c, Anchor>> \in Elems(rowq)
    BY <1>2 DEF Elems
  <2>2. Anchor \in Known(c)
    BY <2>1, AnchorIs DEF Known, Stored
  <2> QED BY <1>14, <2>2
<1>16. AnchorComplete'
  <2>1. \A c \in Chains : Anchor \notin RowsOf(disk, c)'
    BY <1>5, <1>14 DEF Known, Stored, RowsOf
  <2> QED BY <2>1 DEF AnchorComplete
<1> QED BY <1>2, <1>7, <1>8, <1>9, <1>10, <1>11, <1>12, <1>13, <1>15, <1>16 DEF On, Running

(* The chain goes back to the genesis.                                     *)
LEMMA DiscardResetKept ==
  ASSUME StoreInv, On, DiscardReset
  PROVE  On'
<1>1. metaq \in Seq(MetaOps) /\ rowq \in Seq(Rows \cup {ClearRows})
  BY StoreFacts
<1>2. /\ discard = "version" /\ Done("discard") /\ discard' = "no" /\ mem' = Empty
      /\ UNCHANGED <<disk, rowq, metaq, page, timer, writer, fast, fastDone, backfill, left,
                     harmed>>
  BY DEF DiscardReset
<1>3. /\ Puts("clear") = {} /\ Puts("version") = {} /\ AfterClear /\ fast = "idle"
      /\ ~Sweeping
  <2>1. \A y \in Elems(metaq) : y.by # "discard"
    BY <1>1, <1>2 DEF Done, Elems
  <2>2. \A y \in Elems(metaq) : y.op # "clear" /\ y.op # "version"
    BY <2>1 DEF On, HeadsAtAnchor, Op
  <2>3. Puts("clear") = {} /\ Puts("version") = {}
    BY <2>2 DEF Puts
  <2> QED BY <1>2, <2>3 DEF On, Running, Discarding, BeforeClear
<1>4. disk.head = None /\ Stored \subseteq Late /\ disk.version
  BY <1>2, <1>3 DEF AfterClear
<1>5. /\ \A k : Puts(k)' = Puts(k) /\ Stored' = Stored
      /\ \A c : Known(c)' = Known(c) /\ RowsOf(disk, c)' = RowsOf(disk, c)
      /\ \A c : RowsOf(disk, c) \subseteq Known(c)
  BY <1>2 DEF Puts, Stored, Known, RowsOf
<1>6. \A c : Anchor \notin Known(c) /\ 1 \notin Known(c)
  BY <1>4, AnchorIs DEF Late, Known
<1>7. mem'.c = "honest" /\ mem'.tip = 0 /\ mem'.base = 0 /\ mem'.body = {}
  BY <1>2 DEF Empty
<1>8. HeadsAtAnchor'
  <2>1. \A i \in 1..Len(metaq) : metaq[i].op = "head" => metaq[i].v = None
    BY <1>3 DEF On, HeadsAtAnchor
  <2> QED BY <1>2, <2>1 DEF On, HeadsAtAnchor
<1>9. Discarding'
  <2>1. ClearRows \notin Elems(rowq)
    BY <1>4, ClearIsNoRow DEF Stored, Late
  <2> QED BY <1>2, <1>3, <1>4, <1>5, <2>1 DEF Discarding
<1>10. ReachedAnchor'
  BY <1>5, <1>6 DEF ReachedAnchor
<1>11. HeadOfChain'
  BY <1>2, <1>4 DEF HeadOfChain
<1>12. SnapshotsFit'
  <2>1. \A v : Fitting(v)'
    BY <1>5, <1>6 DEF Fitting
  <2> QED BY <1>2, <1>3, <1>4, <2>1 DEF SnapshotsFit
<1>13. Missing' = {}
  BY <1>7 DEF Missing
<1>14. BackfillAnchored'
  BY <1>2, <1>3, <1>13 DEF BackfillAnchored, Sweeping
<1>15. FastAnchored'
  BY <1>2, <1>3 DEF FastAnchored
<1>16. InOrder'
  <2> SUFFICES ASSUME NEW i \in 1..Len(rowq'), NEW c \in Chains, rowq'[i] = <<c, Anchor>>
               PROVE  FALSE
    BY DEF InOrder
  <2>1. <<c, Anchor>> \in Elems(rowq)
    BY <1>2 DEF Elems
  <2>2. Anchor \in Known(c)
    BY <2>1, AnchorIs DEF Known, Stored
  <2> QED BY <1>6, <2>2
<1>17. BodiesKnown'
  BY <1>7 DEF BodiesKnown
<1>18. AnchorComplete'
  BY <1>5, <1>6 DEF AnchorComplete
<1>19. BelowAnchor'
  <2>1. Outbid' = 1
    BY <1>7 DEF Outbid
  <2>2. ASSUME NEW c \in Chains PROVE ~(1..Outbid' \subseteq Known(c)')
    BY <1>5, <1>6, <2>1
  <2> QED BY <1>13, <2>2 DEF BelowAnchor, Shorter
<1> QED BY <1>2, <1>8, <1>9, <1>10, <1>11, <1>12, <1>14, <1>15, <1>16, <1>17, <1>18, <1>19
        DEF On, Running

(* The timer asks the meta store for the blob.                             *)
LEMMA SnapshotTimerKept ==
  ASSUME StoreInv, On, SnapshotTimer
  PROVE  On'
<1> DEFINE o == Op("read", None, "writer")
<1>1. metaq \in Seq(MetaOps)
  BY StoreFacts
<1>2. /\ UNCHANGED <<disk, rowq, page, mem, fast, backfill, discard>>
      /\ metaq' = metaq \/ metaq' = Append(metaq, o)
  BY DEF SnapshotTimer
<1>3. o \in MetaOps /\ o.op = "read"
  BY OpTypes DEF Op, Owners
<1> HIDE DEF o
<1>4. CASE metaq' = metaq
  BY <1>2, <1>4, OnUnmoved DEF Sweeping
<1>5. CASE metaq' = Append(metaq, o)
  <2>1. /\ Puts("head")' = Puts("head") /\ Puts("clear")' = Puts("clear")
        /\ Puts("version")' = Puts("version") /\ Puts("snap")' = Puts("snap")
    <3>1. \A k : Puts(k)' = Puts(k) \cup {y \in {o} : y.op = k}
      BY <1>1, <1>3, <1>5, AfterPut
    <3> QED BY <1>3, <3>1
  <2>2. metaq' # <<>> /\ (metaq # <<>> => metaq'[1] = metaq[1])
    BY <1>1, <1>3, <1>5, AfterPut
  <2>3. /\ Stored' = Stored /\ \A c : Known(c)' = Known(c)
        /\ \A c : RowsOf(disk, c)' = RowsOf(disk, c)
        /\ Missing' = Missing /\ Sweeping' = Sweeping
    BY <1>2 DEF Stored, Known, RowsOf, Missing, Sweeping
  <2>4. Anchored <=> Anchored'
    BY <1>2, <2>1 DEF Anchored
  <2>5. HeadsAtAnchor'
    <3>1. \A y \in Puts("head") : y.v # None => fast = "head"
      BY DEF On, HeadsAtAnchor, Puts, Elems
    <3> QED BY <1>1, <1>2, <1>3, <1>5, <3>1, HeadsAfterPut DEF On
  <2>6. Discarding'
    BY <1>2, <2>1, <2>3 DEF On, Running, Discarding, BeforeClear, AfterClear
  <2>7. ReachedAnchor' /\ HeadOfChain'
    BY <1>2, <2>3 DEF On, Running, ReachedAnchor, HeadOfChain
  <2>8. SnapshotsFit'
    BY <1>2, <2>1, <2>3 DEF On, Running, SnapshotsFit, Fitting
  <2>9. BackfillAnchored'
    BY <1>2, <2>3, <2>4 DEF On, Running, BackfillAnchored
  <2>10. FastAnchored'
    BY <1>2, <2>1, <2>2, <2>3 DEF On, Running, FastAnchored
  <2>11. InOrder'
    <3> SUFFICES ASSUME NEW i \in 1..Len(rowq'), NEW c \in Chains, rowq'[i] = <<c, Anchor>>,
                        backfill'.at # "work", NEW g \in 1..(Anchor - 1)
                 PROVE  <<c, g>> \in disk'.rows \/ \E k \in 1..(i - 1) : rowq'[k] = <<c, g>>
      BY DEF InOrder
    <3> QED BY <1>2 DEF On, Running, InOrder
  <2>12. BodiesKnown' /\ AnchorComplete'
    BY <1>2, <2>3, <2>4 DEF On, Running, BodiesKnown, AnchorComplete
  <2>13. BelowAnchor'
    BY <1>2, <2>1, <2>3 DEF On, Running, BelowAnchor, Shorter, Outbid, FromSnapshot
  <2> QED BY <1>2, <2>5, <2>6, <2>7, <2>8, <2>9, <2>10, <2>11, <2>12, <2>13 DEF On, Running
<1> QED BY <1>2, <1>4, <1>5

(* A row is committed.                                                     *)
LEMMA CommitRowKept ==
  ASSUME StoreInv, On, CommitRow
  PROVE  On'
<1> DEFINE r == Head(rowq)
           R == Rows \cup {ClearRows}
<1>1. rowq \in Seq(R) /\ metaq \in Seq(MetaOps) /\ disk \in Disks /\ mem.c \in Chains
  BY StoreFacts
<1>2. /\ rowq # <<>> /\ r # ClearRows /\ disk' = [disk EXCEPT !.rows = @ \cup {r}]
      /\ rowq' = Tail(rowq)
      /\ UNCHANGED <<metaq, page, mem, timer, lastSnapshot, writer, fast, fastDone, backfill,
                     discard, left, harmed>>
  BY DEF CommitRow, tab
<1>3. /\ Elems(rowq) = {r} \cup Elems(rowq') /\ r = rowq[1] /\ r \in R
      /\ Len(rowq') = Len(rowq) - 1 /\ Len(rowq) \in Nat \ {0}
      /\ \A i \in 1..Len(rowq') : rowq'[i] = rowq[i + 1] /\ i + 1 \in 1..Len(rowq)
  <2> HIDE DEF R
  <2> QED BY <1>1, <1>2, ElemsOfTail
<1>4. r \in Rows
  BY <1>2, <1>3
<1> HIDE DEF r, R
<1>5. /\ disk'.rows = disk.rows \cup {r} /\ disk'.head = disk.head
      /\ disk'.snap = disk.snap /\ disk'.version = disk.version
  BY <1>1, <1>2 DEF Disks
<1>6. /\ \A k : Puts(k)' = Puts(k)
      /\ Stored' = Stored /\ \A c : Known(c)' = Known(c)
      /\ Missing' = Missing /\ (Anchored <=> Anchored')
      /\ \A v : Fitting(v)' <=> Fitting(v)
  <2>1. \A k : Puts(k)' = Puts(k)
    BY <1>2 DEF Puts
  <2>2. Stored' = Stored
    BY <1>3, <1>5 DEF Stored
  <2>3. \A c : Known(c)' = Known(c)
    BY <2>2 DEF Known
  <2>4. Missing' = Missing
    BY <1>2 DEF Missing
  <2>5. Anchored <=> Anchored'
    BY <1>2, <1>5, <2>1 DEF Anchored
  <2>6. \A v : Fitting(v)' <=> Fitting(v)
    BY <1>2, <2>3 DEF Fitting
  <2> QED BY <2>1, <2>2, <2>3, <2>4, <2>5, <2>6
<1>7. HeadsAtAnchor'
  BY <1>2, <1>5 DEF On, HeadsAtAnchor
<1>8. Discarding'
  <2>1. CASE discard = "no"
    BY <1>2, <1>3, <1>5, <1>6, <2>1 DEF On, Running, Discarding
  <2>2. CASE discard # "no"
    <3>1. fast = "idle" /\ Top <= mem.tip /\ ~Sweeping /\ (BeforeClear \/ AfterClear)
      BY <2>2 DEF On, Running, Discarding
    <3>2. AfterClear
      BY <1>2, <1>3, <3>1 DEF BeforeClear
    <3>3. AfterClear'
      BY <1>2, <1>5, <1>6, <3>2 DEF AfterClear, Late
    <3>4. ~Sweeping'
      BY <1>2, <3>1 DEF Sweeping
    <3> QED BY <1>2, <2>2, <3>1, <3>3, <3>4 DEF Discarding
  <2> QED BY <2>1, <2>2
<1>9. ReachedAnchor' /\ HeadOfChain'
  BY <1>2, <1>5, <1>6 DEF On, Running, ReachedAnchor, HeadOfChain
<1>10. SnapshotsFit'
  BY <1>2, <1>5, <1>6 DEF On, Running, SnapshotsFit, Fitting
<1>11. BackfillAnchored'
  BY <1>2, <1>6 DEF On, Running, BackfillAnchored
<1>12. FastAnchored'
  BY <1>2, <1>5, <1>6 DEF On, Running, FastAnchored, Sweeping
<1>13. InOrder'
  <2> SUFFICES ASSUME NEW i \in 1..Len(rowq'), NEW c \in Chains, rowq'[i] = <<c, Anchor>>,
                      backfill'.at # "work", NEW g \in 1..(Anchor - 1)
               PROVE  <<c, g>> \in disk'.rows \/ \E k \in 1..(i - 1) : rowq'[k] = <<c, g>>
    BY DEF InOrder
  <2>1. i + 1 \in 1..Len(rowq) /\ rowq[i + 1] = <<c, Anchor>> /\ i \in Nat
    BY <1>3
  <2>2. <<c, g>> \in disk.rows \/ \E k \in 1..((i + 1) - 1) : rowq[k] = <<c, g>>
    BY <1>2, <2>1 DEF On, Running, InOrder
  <2>3. ASSUME NEW k \in 1..((i + 1) - 1), rowq[k] = <<c, g>>
        PROVE  <<c, g>> \in disk'.rows \/ \E j \in 1..(i - 1) : rowq'[j] = <<c, g>>
    <3>1. CASE k = 1
      BY <1>3, <1>5, <2>3, <3>1
    <3>2. CASE k # 1
      <4>1. k - 1 \in 1..(i - 1) /\ k - 1 \in 1..Len(rowq') /\ (k - 1) + 1 = k
        BY <1>3, <2>1, <3>2
      <4>2. rowq'[k - 1] = rowq[k]
        BY <1>3, <4>1
      <4> QED BY <2>3, <4>1, <4>2
    <3> QED BY <3>1, <3>2
  <2> QED BY <1>5, <2>2, <2>3
<1>14. BodiesKnown'
  BY <1>2, <1>6 DEF On, Running, BodiesKnown
<1>15. AnchorComplete'
  <2> SUFFICES ASSUME NEW c \in Chains, Anchor \in RowsOf(disk, c)'
               PROVE  1..Anchor \subseteq RowsOf(disk, c)' \/ Anchored'
    BY DEF AnchorComplete
  <2>1. RowsOf(disk, c) \subseteq RowsOf(disk, c)'
    BY <1>5 DEF RowsOf
  <2>2. CASE Anchor \in RowsOf(disk, c)
    BY <1>6, <2>1, <2>2 DEF On, Running, AnchorComplete
  <2>3. CASE Anchor \notin RowsOf(disk, c)
    <3>1. r = <<c, Anchor>>
      BY <1>5, <2>3 DEF RowsOf
    <3>2. rowq[1] = <<c, Anchor>> /\ 1 \in 1..Len(rowq)
      BY <1>3, <3>1
    <3>3. CASE backfill.at = "work"
      <4>1. fast = "idle" /\ discard = "no"
        BY <3>3, SweepAlone DEF Sweeping
      <4> QED BY <1>6, <3>3, <4>1 DEF On, Running, BackfillAnchored
    <3>4. CASE backfill.at # "work"
      <4>1. \A g \in 1..(Anchor - 1) :
              <<c, g>> \in disk.rows \/ \E k \in 1..(1 - 1) : rowq[k] = <<c, g>>
        BY <3>2, <3>4 DEF On, Running, InOrder
      <4>2. \A g \in 1..Anchor : <<c, g>> \in disk'.rows
        <5> SUFFICES ASSUME NEW g \in 1..Anchor PROVE <<c, g>> \in disk'.rows
          OBVIOUS
        <5>1. CASE g = Anchor
          BY <1>5, <3>1, <5>1
        <5>2. CASE g # Anchor
          <6>1. g \in 1..(Anchor - 1)
            BY <5>2, AnchorIs
          <6>2. <<c, g>> \in disk.rows
            BY <4>1, <6>1
          <6> QED BY <1>5, <6>2
        <5> QED BY <5>1, <5>2
      <4>3. 1..Anchor \subseteq Heights
        BY AnchorIs
      <4> QED BY <4>2, <4>3 DEF RowsOf
    <3> QED BY <3>3, <3>4
  <2> QED BY <2>2, <2>3
<1>16. BelowAnchor'
  BY <1>2, <1>5, <1>6 DEF On, Running, BelowAnchor, Shorter, Outbid, FromSnapshot
<1> QED BY <1>2, <1>7, <1>8, <1>9, <1>10, <1>11, <1>12, <1>13, <1>14, <1>15, <1>16
        DEF On, Running

(* A write to the meta store leaves the rows alone, but for a clear.       *)
LEMMA RowsUnmoved ==
  ASSUME On, UNCHANGED <<rowq, mem, backfill, discard>>, disk'.rows = disk.rows
  PROVE  /\ Stored' = Stored /\ \A c : Known(c)' = Known(c)
         /\ \A c : RowsOf(disk, c)' = RowsOf(disk, c)
         /\ Missing' = Missing /\ \A v : Fitting(v)' <=> Fitting(v)
         /\ (Sweeping' <=> Sweeping)
         /\ ReachedAnchor' /\ InOrder' /\ BodiesKnown'
<1>1. Stored' = Stored /\ \A c : Known(c)' = Known(c)
  BY DEF Stored, Known
<1>2. \A c : RowsOf(disk, c)' = RowsOf(disk, c)
  BY DEF RowsOf
<1>3. Missing' = Missing /\ \A v : Fitting(v)' <=> Fitting(v)
  BY <1>1 DEF Missing, Fitting
<1>4. ReachedAnchor' /\ BodiesKnown'
  BY <1>1 DEF On, Running, ReachedAnchor, BodiesKnown
<1>5. InOrder'
  <2> SUFFICES ASSUME NEW i \in 1..Len(rowq'), NEW c \in Chains, rowq'[i] = <<c, Anchor>>,
                      backfill'.at # "work", NEW g \in 1..(Anchor - 1)
               PROVE  <<c, g>> \in disk'.rows \/ \E k \in 1..(i - 1) : rowq'[k] = <<c, g>>
    BY DEF InOrder
  <2> QED BY DEF On, Running, InOrder
<1> QED BY <1>1, <1>2, <1>3, <1>4, <1>5 DEF Sweeping

(* What a commit changes, by the operation that is first in the queue.     *)
LEMMA CommitMetaParts ==
  ASSUME StoreInv, On, CommitMeta
  PROVE  /\ metaq \in Seq(MetaOps) /\ metaq # <<>> /\ Head(metaq) \in MetaOps
         /\ Head(metaq) = metaq[1] /\ Head(metaq) \in Elems(metaq)
         /\ UNCHANGED <<page, mem, fast, backfill, discard>>
         /\ disk' = Committed(disk, Head(metaq))
         /\ Head(metaq).op = "clear" => Head(metaq) = Clear /\ rowq # <<>> /\ rowq' = Tail(rowq)
         /\ Head(metaq).op # "clear" => rowq' = rowq
         /\ Head(metaq).op # "read" =>
              /\ metaq' = Tail(metaq)
              /\ \A k : Puts(k) = Puts(k)' \cup {x \in {Head(metaq)} : x.op = k}
         /\ Head(metaq).op = "read" =>
              \/ metaq' = Tail(metaq)
              \/ /\ metaq' = Append(Tail(metaq), Op("snap", At(mem.c, writer.h), "writer"))
                 /\ ~Pinned(writer.h, disk.head) /\ HeldAt(writer.h)
                 /\ At(mem.c, writer.h) \in Mark /\ writer.h \in Heights
                 /\ Op("snap", At(mem.c, writer.h), "writer") \in MetaOps
<1> DEFINE o == Head(metaq)
           readBack == o.op = "read" /\ ~Pinned(writer.h, disk.head) /\ HeldAt(writer.h)
           put == Op("snap", At(mem.c, writer.h), "writer")
<1>1. /\ metaq # <<>> /\ (o = Clear => rowq # <<>> /\ Head(rowq) = ClearRows)
      /\ disk' = Committed(disk, o)
      /\ rowq' = IF o = Clear THEN Tail(rowq) ELSE rowq
      /\ metaq' = IF readBack THEN Append(Tail(metaq), put) ELSE Tail(metaq)
      /\ UNCHANGED <<page, mem, timer, lastSnapshot, fast, fastDone, backfill, discard,
                     left, harmed>>
  BY DEF CommitMeta
<1>2. metaq \in Seq(MetaOps) /\ mem.c \in Chains
  BY StoreFacts
<1>3. /\ o \in MetaOps /\ o = metaq[1] /\ 1 \in 1..Len(metaq) /\ o \in Elems(metaq)
  BY <1>1, <1>2, ElemsOfTail DEF Elems
<1>4. Clear.op = "clear"
  BY DEF Clear, Op
<1>5. o.op = "clear" <=> o = Clear
  BY <1>3, <1>4 DEF On, HeadsAtAnchor, Clear
<1>6. ASSUME o.op # "read" PROVE \A k : Puts(k) = Puts(k)' \cup {x \in {o} : x.op = k}
  <2>1. metaq' = Tail(metaq)
    BY <1>1, <1>6
  <2>2. Elems(metaq) = {o} \cup Elems(metaq')
    BY <1>1, <1>2, <2>1, ElemsOfTail
  <2> QED BY <2>2 DEF Puts
<1>7. ASSUME readBack
      PROVE  /\ At(mem.c, writer.h) \in Mark /\ writer.h \in Heights
             /\ put \in MetaOps
  <2>1. writer.at = "read"
    BY <1>3, <1>7 DEF StoreInv, Held, ReadOnce
  <2>2. writer.h \in Heights
    BY <2>1 DEF StoreInv, Held, ReadOnce
  <2>3. At(mem.c, writer.h) \in Mark /\ "writer" \in Owners
    BY <1>2, <2>2, OpTypes DEF Owners
  <2> QED BY <2>2, <2>3, OpTypes
<1> HIDE DEF o, put
<1> QED BY <1>1, <1>2, <1>3, <1>5, <1>6, <1>7 DEF o, put

(* The blob is put, or removed once the history is complete.               *)
LEMMA CommitHeadKept ==
  ASSUME StoreInv, On, CommitMeta, Head(metaq).op = "head"
  PROVE  On'
<1> DEFINE o == Head(metaq)
<1>1. /\ metaq \in Seq(MetaOps) /\ metaq # <<>> /\ o \in MetaOps /\ o = metaq[1]
      /\ o \in Elems(metaq) /\ UNCHANGED <<page, mem, fast, backfill, discard>>
      /\ disk' = Committed(disk, o) /\ rowq' = rowq /\ metaq' = Tail(metaq)
      /\ \A k : Puts(k) = Puts(k)' \cup {x \in {o} : x.op = k}
  BY CommitMetaParts
<1>2. /\ disk'.head = o.v /\ disk'.rows = disk.rows /\ disk'.snap = disk.snap
      /\ disk'.version = disk.version
  BY <1>1, StoreFacts DEF Committed, Disks
<1>3. /\ Puts("clear")' = Puts("clear") /\ Puts("version")' = Puts("version")
      /\ Puts("snap")' = Puts("snap") /\ o \in Puts("head")
  <2>1. o.op = "head"
    OBVIOUS
  <2> HIDE DEF o
  <2>2. \A k : {x \in {o} : x.op = k} = IF k = "head" THEN {o} ELSE {}
    BY <2>1
  <2> QED BY <1>1, <2>2
<1>4. /\ Stored' = Stored /\ \A c : Known(c)' = Known(c)
      /\ \A c : RowsOf(disk, c)' = RowsOf(disk, c)
      /\ Missing' = Missing /\ (Sweeping' <=> Sweeping) /\ \A v : (Fitting(v)' <=> Fitting(v))
      /\ ReachedAnchor' /\ InOrder' /\ BodiesKnown'
  BY <1>1, <1>2, RowsUnmoved
<1>5. o.v # None => fast = "head" /\ o.v = At(mem.c, Anchor)
  BY <1>1, ElemsOfTail DEF On, HeadsAtAnchor, Elems
<1>6. o.v \in {None, At("honest", Anchor), At("forged", Anchor)}
  BY <1>5, StoreFacts DEF Chains
<1>7. HeadsAtAnchor' /\ (o.v # None => Puts("head")' = {})
  <2>1. PICK y \in MetaOps : y.op = "snap"
    BY OpTypes DEF Op
  <2> QED BY <1>1, <1>2, <1>6, <2>1, HeadsAfterPop DEF On
<1> HIDE DEF o
<1>8. CASE o.v # None
  <2>1. /\ mem.base = Anchor /\ Anchor <= mem.tip /\ ~Sweeping /\ discard = "no"
        /\ \A y \in Puts("snap") : y.v = At(mem.c, Anchor)
        /\ \A c \in Chains : Anchor \notin Known(c)
        /\ fast = "head"
    BY <1>5, <1>8 DEF On, Running, FastAnchored
  <2>2. Discarding'
    BY <1>1, <1>2, <1>3, <2>1 DEF On, Running, Discarding
  <2>3. HeadOfChain'
    BY <1>1, <1>2, <1>5, <1>8, <2>1 DEF HeadOfChain, At
  <2>4. SnapshotsFit'
    <3>1. \A y \in Puts("snap")' : y.v = At(mem'.c, Anchor) /\ At(mem'.c, Anchor).c = mem'.c
                                   /\ At(mem'.c, Anchor).h <= mem'.tip
      BY <1>1, <1>3, <2>1 DEF At
    <3>2. \A y \in Puts("snap")' : Fitting(y.v)'
      BY <3>1 DEF Fitting
    <3> QED BY <1>1, <2>1, <3>1, <3>2 DEF SnapshotsFit
  <2>5. BackfillAnchored'
    BY <1>1, <2>1 DEF BackfillAnchored
  <2>6. FastAnchored'
    <3>1. disk'.head = At(mem'.c, Anchor) /\ Puts("head")' = {}
      BY <1>1, <1>2, <1>5, <1>7, <1>8
    <3>2. \A c \in Chains : Anchor \notin Known(c)'
      BY <1>4, <2>1
    <3> QED BY <1>1, <1>3, <1>4, <2>1, <3>1, <3>2 DEF FastAnchored
  <2>7. AnchorComplete'
    <3>1. \A c : RowsOf(disk, c) \subseteq Known(c)
      BY DEF RowsOf, Known, Stored
    <3> QED BY <1>4, <2>1, <3>1 DEF AnchorComplete
  <2>8. BelowAnchor'
    BY <1>1, <2>1, AnchorIs, StoreFacts DEF BelowAnchor
  <2> QED BY <1>1, <1>4, <1>7, <2>2, <2>3, <2>4, <2>5, <2>6, <2>7, <2>8 DEF On, Running
<1>9. CASE o.v = None
  <2>1. Puts("head") # {}
    BY <1>3
  <2>2. ~Anchored
    BY <2>1 DEF Anchored
  <2>3. fast = "idle"
    <3>1. SUFFICES ASSUME fast # "idle" PROVE FALSE
      OBVIOUS
    <3>2. metaq[1] = Op("head", At(mem.c, Anchor), "fast")
      BY <2>1, <3>1 DEF On, Running, FastAnchored
    <3>3. o.v = At(mem.c, Anchor) /\ At(mem.c, Anchor) # None
      BY <1>1, <3>2, AnchorIs DEF Op, At, None
    <3> QED BY <1>9, <3>3
  <2>4. disk'.head = None
    BY <1>2, <1>9
  <2>5. Discarding'
    <3>1. BeforeClear => BeforeClear'
      BY <1>1, <1>2, <1>3 DEF BeforeClear
    <3>2. AfterClear => AfterClear'
      BY <1>1, <1>2, <1>3, <1>4, <2>4 DEF AfterClear
    <3> QED BY <1>1, <1>2, <1>3, <1>4, <3>1, <3>2 DEF On, Running, Discarding
  <2>6. HeadOfChain'
    BY <2>4 DEF HeadOfChain
  <2>7. SnapshotsFit'
    BY <1>1, <1>2, <1>3, <1>4, <2>3, <2>4 DEF On, Running, SnapshotsFit, Fitting
  <2>8. BackfillAnchored'
    BY <1>1, <1>4, <2>2, <2>3 DEF On, Running, BackfillAnchored
  <2>9. FastAnchored'
    BY <1>1, <2>3 DEF FastAnchored
  <2>10. AnchorComplete'
    BY <1>4, <2>2 DEF On, Running, AnchorComplete
  <2>11. BelowAnchor'
    BY <1>1, <1>2, <1>3, <1>4 DEF On, Running, BelowAnchor, Shorter, Outbid, FromSnapshot
  <2> QED BY <1>1, <1>4, <1>7, <2>5, <2>6, <2>7, <2>8, <2>9, <2>10, <2>11 DEF On, Running
<1> QED BY <1>8, <1>9

(* A snapshot is put or removed.                                           *)
LEMMA CommitSnapKept ==
  ASSUME StoreInv, On, CommitMeta, Head(metaq).op = "snap"
  PROVE  On'
<1> DEFINE o == Head(metaq)
<1>1. /\ metaq \in Seq(MetaOps) /\ metaq # <<>> /\ o \in MetaOps /\ o = metaq[1]
      /\ o \in Elems(metaq) /\ UNCHANGED <<page, mem, fast, backfill, discard>>
      /\ disk' = Committed(disk, o) /\ rowq' = rowq /\ metaq' = Tail(metaq)
      /\ \A k : Puts(k) = Puts(k)' \cup {x \in {o} : x.op = k}
  BY CommitMetaParts
<1>2. /\ disk'.snap = o.v /\ disk'.rows = disk.rows /\ disk'.head = disk.head
      /\ disk'.version = disk.version
  BY <1>1, StoreFacts DEF Committed, Disks
<1>3. /\ Puts("clear")' = Puts("clear") /\ Puts("version")' = Puts("version")
      /\ Puts("head")' = Puts("head") /\ o \in Puts("snap")
      /\ Puts("snap")' \subseteq Puts("snap")
  <2>1. o.op = "snap"
    OBVIOUS
  <2> HIDE DEF o
  <2>2. \A k : {x \in {o} : x.op = k} = IF k = "snap" THEN {o} ELSE {}
    BY <2>1
  <2> QED BY <1>1, <2>2
<1>4. /\ Stored' = Stored /\ \A c : Known(c)' = Known(c)
      /\ \A c : RowsOf(disk, c)' = RowsOf(disk, c)
      /\ Missing' = Missing /\ (Sweeping' <=> Sweeping) /\ \A v : (Fitting(v)' <=> Fitting(v))
      /\ ReachedAnchor' /\ InOrder' /\ BodiesKnown'
  BY <1>1, <1>2, RowsUnmoved
<1>5. /\ Fitting(o.v)
      /\ o.v = None \/ (o.v.c = mem.c /\ o.v.h <= mem.tip) \/ (disk.head = None /\ fast = "idle")
  BY <1>3 DEF On, Running, SnapshotsFit
<1>6. HeadsAtAnchor'
  <2>1. PICK y \in MetaOps : y.op = "snap"
    BY <1>1
  <2>2. disk'.head \in {None, At("honest", Anchor), At("forged", Anchor)}
    BY <1>2 DEF On, HeadsAtAnchor
  <2> QED BY <1>1, <2>1, <2>2, HeadsAfterPop DEF On
<1>7. metaq[1] # Op("head", At(mem.c, Anchor), "fast")
  BY <1>1 DEF Op
<1> HIDE DEF o
<1>8. Anchored => Anchored'
  BY <1>1, <1>2, <1>3 DEF Anchored
<1>9. Discarding'
  <2>1. BeforeClear => BeforeClear'
    BY <1>1, <1>2, <1>3 DEF BeforeClear
  <2>2. AfterClear => AfterClear'
    BY <1>1, <1>2, <1>3, <1>4 DEF AfterClear
  <2> QED BY <1>1, <1>2, <1>3, <1>4, <2>1, <2>2 DEF On, Running, Discarding
<1>10. HeadOfChain'
  <2> SUFFICES ASSUME disk.head # None, o.v = disk.head
               PROVE  mem.c = disk.head.c /\ Anchor <= mem.tip
    BY <1>1, <1>2 DEF HeadOfChain
  <2>1. disk.head.h = Anchor
    BY HeadIs, StoreFacts DEF On, HeadsAtAnchor
  <2> QED BY <1>5, <2>1
<1>11. SnapshotsFit'
  <2>1. \A y \in Puts("snap")' :
          /\ Fitting(y.v)'
          /\ y.v = None \/ (y.v.c = mem'.c /\ y.v.h <= mem'.tip) \/ (disk'.head = None /\ fast' = "idle")
    BY <1>1, <1>2, <1>3, <1>4 DEF On, Running, SnapshotsFit, Fitting
  <2>2. Fitting(disk.snap)'
    BY <1>1, <1>2, <1>4, <1>5 DEF Fitting
  <2> QED BY <2>1, <2>2 DEF SnapshotsFit
<1>12. BackfillAnchored'
  BY <1>1, <1>4, <1>8 DEF On, Running, BackfillAnchored
<1>13. FastAnchored'
  <2> SUFFICES ASSUME fast # "idle" PROVE FastAnchored'
    BY <1>1 DEF FastAnchored
  <2>1. /\ mem.base = Anchor /\ Anchor <= mem.tip /\ ~Sweeping /\ discard = "no"
        /\ \A y \in Puts("snap") : y.v = At(mem.c, Anchor)
        /\ \A c \in Chains : Anchor \notin Known(c)
        /\ disk.head = At(mem.c, Anchor) /\ Puts("head") = {}
    BY <1>7 DEF On, Running, FastAnchored
  <2>2. \A c \in Chains : Anchor \notin Known(c)'
    BY <1>4, <2>1
  <2>3. disk'.snap = At(mem'.c, Anchor) /\ disk'.head = At(mem'.c, Anchor) /\ Puts("head")' = {}
    BY <1>1, <1>2, <1>3, <2>1
  <2> QED BY <1>1, <1>3, <1>4, <2>1, <2>2, <2>3 DEF FastAnchored
<1>14. AnchorComplete'
  BY <1>4, <1>8 DEF On, Running, AnchorComplete
<1>15. BelowAnchor'
  <2>1. FromSnapshot => FromSnapshot'
    BY <1>1, <1>2, <1>3, <1>4 DEF FromSnapshot
  <2>2. Shorter => Shorter'
    BY <1>1, <1>4 DEF Shorter, Outbid
  <2> QED BY <1>1, <1>4, <2>1, <2>2 DEF On, Running, BelowAnchor
<1> QED BY <1>1, <1>4, <1>6, <1>9, <1>10, <1>11, <1>12, <1>13, <1>14, <1>15 DEF On, Running

(* The version of this build is put, after a discard.                      *)
LEMMA CommitVersionKept ==
  ASSUME StoreInv, On, CommitMeta, Head(metaq).op = "version"
  PROVE  On'
<1> DEFINE o == Head(metaq)
<1>1. /\ metaq \in Seq(MetaOps) /\ metaq # <<>> /\ o \in MetaOps /\ o = metaq[1]
      /\ o \in Elems(metaq) /\ UNCHANGED <<page, mem, fast, backfill, discard>>
      /\ disk' = Committed(disk, o) /\ rowq' = rowq /\ metaq' = Tail(metaq)
      /\ \A k : Puts(k) = Puts(k)' \cup {x \in {o} : x.op = k}
  BY CommitMetaParts
<1>2. /\ disk'.snap = disk.snap /\ disk'.rows = disk.rows /\ disk'.head = disk.head
      /\ disk'.version = TRUE
  BY <1>1, StoreFacts DEF Committed, Disks
<1>3. /\ Puts("clear")' = Puts("clear") /\ Puts("snap")' = Puts("snap")
      /\ Puts("head")' = Puts("head") /\ o \in Puts("version")
  <2>1. o.op = "version"
    OBVIOUS
  <2> HIDE DEF o
  <2>2. \A k : {x \in {o} : x.op = k} = IF k = "version" THEN {o} ELSE {}
    BY <2>1
  <2> QED BY <1>1, <2>2
<1>4. /\ Stored' = Stored /\ \A c : Known(c)' = Known(c)
      /\ \A c : RowsOf(disk, c)' = RowsOf(disk, c)
      /\ Missing' = Missing /\ (Sweeping' <=> Sweeping) /\ \A v : (Fitting(v)' <=> Fitting(v))
      /\ ReachedAnchor' /\ InOrder' /\ BodiesKnown'
  BY <1>1, <1>2, RowsUnmoved
<1>5. HeadsAtAnchor'
  <2>1. PICK y \in MetaOps : y.op = "snap"
    BY OpTypes DEF Op
  <2>2. disk'.head \in {None, At("honest", Anchor), At("forged", Anchor)}
    BY <1>2 DEF On, HeadsAtAnchor
  <2> QED BY <1>1, <2>1, <2>2, HeadsAfterPop DEF On
<1> HIDE DEF o
<1>6. discard # "no" /\ fast = "idle" /\ Top <= mem.tip /\ ~Sweeping /\ AfterClear
  BY <1>3 DEF On, Running, Discarding, BeforeClear
<1>7. Discarding'
  <2>1. AfterClear'
    BY <1>1, <1>2, <1>3, <1>4, <1>6 DEF AfterClear
  <2> QED BY <1>1, <1>4, <1>6, <2>1 DEF Discarding
<1>8. HeadOfChain'
  BY <1>1, <1>2 DEF On, Running, HeadOfChain
<1>9. SnapshotsFit'
  BY <1>1, <1>2, <1>3, <1>4 DEF On, Running, SnapshotsFit, Fitting
<1>10. BackfillAnchored' /\ FastAnchored' /\ BelowAnchor'
  BY <1>1, <1>6 DEF BackfillAnchored, FastAnchored, BelowAnchor
<1>11. Anchored <=> Anchored'
  BY <1>1, <1>2, <1>3 DEF Anchored
<1>12. AnchorComplete'
  BY <1>4, <1>11 DEF On, Running, AnchorComplete
<1> QED BY <1>1, <1>4, <1>5, <1>7, <1>8, <1>9, <1>10, <1>12 DEF On, Running

(* A discard clears the stores.                                            *)
LEMMA CommitClearKept ==
  ASSUME StoreInv, On, CommitMeta, Head(metaq).op = "clear"
  PROVE  On'
<1> DEFINE o == Head(metaq)
<1>1. /\ metaq \in Seq(MetaOps) /\ metaq # <<>> /\ o \in MetaOps /\ o = metaq[1]
      /\ o \in Elems(metaq) /\ UNCHANGED <<page, mem, fast, backfill, discard>>
      /\ disk' = Committed(disk, o) /\ rowq # <<>> /\ rowq' = Tail(rowq) /\ metaq' = Tail(metaq)
      /\ \A k : Puts(k) = Puts(k)' \cup {x \in {o} : x.op = k}
  BY CommitMetaParts
<1>2. /\ disk'.snap = None /\ disk'.rows = {} /\ disk'.head = None /\ disk'.version = FALSE
  BY <1>1, StoreFacts DEF Committed
<1>3. /\ Puts("version")' = Puts("version") /\ Puts("snap")' = Puts("snap")
      /\ Puts("head")' = Puts("head") /\ o \in Puts("clear")
  <2>1. o.op = "clear"
    OBVIOUS
  <2> HIDE DEF o
  <2>2. \A k : {x \in {o} : x.op = k} = IF k = "clear" THEN {o} ELSE {}
    BY <2>1
  <2> QED BY <1>1, <2>2
<1>4. HeadsAtAnchor' /\ Puts("clear")' = {}
  <2>1. PICK y \in MetaOps : y.op = "snap"
    BY OpTypes DEF Op
  <2>2. disk'.head \in {None, At("honest", Anchor), At("forged", Anchor)}
    BY <1>2
  <2> QED BY <1>1, <2>1, <2>2, HeadsAfterPop DEF On
<1> HIDE DEF o
<1>5. discard = "clear" /\ fast = "idle" /\ Top <= mem.tip /\ ~Sweeping /\ BeforeClear
  BY <1>3 DEF On, Running, Discarding, AfterClear, BeforeClear
<1>6. Stored' \subseteq Late
  <2>1. rowq \in Seq(Rows \cup {ClearRows})
    BY StoreFacts
  <2>2. \A i \in 1..Len(rowq') : rowq'[i] = rowq[i + 1] /\ i + 1 \in 2..Len(rowq)
    <3>1. /\ Len(rowq') = Len(rowq) - 1 /\ Len(rowq) \in Nat \ {0}
          /\ \A i \in 1..Len(rowq') : rowq'[i] = rowq[i + 1] /\ i + 1 \in 1..Len(rowq)
      BY <1>1, <2>1, HeadTailProperties
    <3> QED BY <3>1
  <2>3. \A i \in 1..Len(rowq') : rowq'[i] \in Late
    BY <1>5, <2>2 DEF BeforeClear
  <2>4. Elems(rowq') \subseteq Late
    BY <2>3 DEF Elems
  <2> QED BY <1>2, <2>4 DEF Stored, Late
<1>7. \A c : Anchor \notin Known(c)' /\ 1 \notin Known(c)' /\ RowsOf(disk, c)' = {}
  BY <1>2, <1>6, AnchorIs DEF Late, Known, RowsOf
<1>8. Discarding'
  <2>1. AfterClear'
    BY <1>1, <1>2, <1>4, <1>5, <1>6 DEF AfterClear, Late
  <2>2. ~Sweeping'
    BY <1>1, <1>5 DEF Sweeping
  <2> QED BY <1>1, <1>5, <2>1, <2>2 DEF Discarding
<1>9. ReachedAnchor' /\ AnchorComplete'
  BY <1>7 DEF ReachedAnchor, AnchorComplete
<1>10. HeadOfChain'
  BY <1>2 DEF HeadOfChain
<1>11. SnapshotsFit'
  <2>1. \A v : Fitting(v)'
    BY <1>7 DEF Fitting
  <2> QED BY <1>1, <1>2, <1>5, <2>1 DEF SnapshotsFit
<1>12. BackfillAnchored' /\ FastAnchored' /\ BelowAnchor' /\ BodiesKnown'
  BY <1>1, <1>5 DEF BackfillAnchored, FastAnchored, BelowAnchor, BodiesKnown
<1>13. InOrder'
  <2> SUFFICES ASSUME NEW i \in 1..Len(rowq'), NEW c \in Chains, rowq'[i] = <<c, Anchor>>
               PROVE  FALSE
    BY DEF InOrder
  <2>1. <<c, Anchor>> \in Elems(rowq')
    BY DEF Elems
  <2>2. Anchor \in Known(c)'
    BY <2>1, AnchorIs DEF Known, Stored
  <2> QED BY <1>7, <2>2
<1> QED BY <1>1, <1>4, <1>8, <1>9, <1>10, <1>11, <1>12, <1>13 DEF On, Running

(* The blob is read: the writer puts its snapshot unless that is pinned.   *)
LEMMA CommitReadKept ==
  ASSUME StoreInv, On, CommitMeta, Head(metaq).op = "read"
  PROVE  On'
<1> DEFINE o == Head(metaq)
           v == At(mem.c, writer.h)
           put == Op("snap", v, "writer")
<1>1. /\ metaq \in Seq(MetaOps) /\ metaq # <<>> /\ o \in MetaOps /\ o = metaq[1]
      /\ o \in Elems(metaq) /\ UNCHANGED <<page, mem, fast, backfill, discard>>
      /\ disk' = Committed(disk, o) /\ rowq' = rowq
      /\ \/ metaq' = Tail(metaq)
         \/ /\ metaq' = Append(Tail(metaq), put)
            /\ ~Pinned(writer.h, disk.head) /\ HeldAt(writer.h)
            /\ v \in Mark /\ writer.h \in Heights /\ put \in MetaOps
  BY CommitMetaParts
<1>2. disk' = disk
  BY <1>1 DEF Committed
<1>3. PICK y \in MetaOps : y.op = "snap" /\ (metaq' # Tail(metaq) => y = put)
  <2>1. PICK z \in MetaOps : z.op = "snap"
    BY OpTypes DEF Op
  <2> QED BY <1>1, <2>1 DEF Op
<1>4. metaq' = Tail(metaq) \/ metaq' = Append(Tail(metaq), y)
  BY <1>1, <1>3
<1>5. /\ Puts("clear")' = Puts("clear") /\ Puts("version")' = Puts("version")
      /\ Puts("head")' = Puts("head")
      /\ \A x \in Puts("snap")' : x \in Puts("snap") \/ (x = put /\ metaq' # Tail(metaq))
      /\ Puts("snap")' = {} => Puts("snap") = {}
  <2>1. /\ \A k : k # "snap" => Puts(k) = Puts(k)' \cup {x \in {o} : x.op = k}
        /\ Puts("snap")' \subseteq Puts("snap") \cup {y}
        /\ metaq' = Tail(metaq) =>
             Puts("snap") = Puts("snap")' \cup {x \in {o} : x.op = "snap"}
    BY <1>1, <1>3, <1>4, AfterPop
  <2>2. o.op = "read"
    OBVIOUS
  <2>3. metaq' = Append(Tail(metaq), y) => Puts("snap")' # {}
    <3>1. Tail(metaq) \in Seq(MetaOps)
      BY <1>1, HeadTailProperties
    <3>2. PICK t \in Seq(MetaOps) : t = Tail(metaq)
      BY <3>1
    <3>3. Elems(Append(t, y)) = Elems(t) \cup {y}
      BY ElemsOfAppend
    <3> QED BY <1>3, <3>2, <3>3 DEF Puts
  <2> HIDE DEF o, put
  <2> QED BY <1>3, <1>4, <2>1, <2>2, <2>3
<1>6. /\ Stored' = Stored /\ \A c : Known(c)' = Known(c)
      /\ \A c : RowsOf(disk, c)' = RowsOf(disk, c)
      /\ Missing' = Missing /\ (Sweeping' <=> Sweeping) /\ \A x : (Fitting(x)' <=> Fitting(x))
      /\ ReachedAnchor' /\ InOrder' /\ BodiesKnown'
  BY <1>1, <1>2, RowsUnmoved
<1>7. HeadsAtAnchor'
  <2>1. disk'.head \in {None, At("honest", Anchor), At("forged", Anchor)}
    BY <1>2 DEF On, HeadsAtAnchor
  <2> QED BY <1>1, <1>3, <1>4, <2>1, HeadsAfterPop DEF On
<1>8. ASSUME metaq' # Tail(metaq)
      PROVE  /\ v.c = mem.c /\ v.h = writer.h /\ put.v = v /\ Fitting(v)
             /\ writer.h \in Heights /\ writer.h <= mem.tip /\ mem.base <= writer.h
             /\ disk.head # None => writer.h <= disk.head.h
  <2>1. v.c = mem.c /\ v.h = writer.h /\ put.v = v
    BY DEF At, Op
  <2>2. ~Pinned(writer.h, disk.head) /\ HeldAt(writer.h) /\ writer.h \in Heights
    BY <1>1, <1>8
  <2>3. writer.h <= mem.tip /\ mem.base <= writer.h
    BY <2>2, StoreFacts, AnchorIs DEF HeldAt
  <2>4. disk.head # None => writer.h <= disk.head.h
    <3> SUFFICES ASSUME disk.head # None PROVE writer.h <= disk.head.h
      OBVIOUS
    <3>1. disk.head.h = Anchor
      BY HeadIs, StoreFacts DEF On, HeadsAtAnchor
    <3> QED BY <2>2, <3>1, AnchorIs DEF Pinned
  <2> HIDE DEF v, put
  <2> QED BY <2>1, <2>2, <2>3, <2>4 DEF Fitting
<1>9. metaq[1] # Op("head", At(mem.c, Anchor), "fast")
  BY <1>1 DEF Op
<1>10. ASSUME metaq' # Tail(metaq), mem.base = Anchor, disk.head = At(mem.c, Anchor)
       PROVE  v = At(mem.c, Anchor)
  <2>1. disk.head # None /\ disk.head.h = Anchor
    BY <1>10, AnchorIs DEF At, None
  <2>2. writer.h = Anchor
    BY <1>8, <1>10, <2>1, AnchorIs
  <2> QED BY <2>2
<1> HIDE DEF o, v, put
<1>11. Anchored => Anchored'
  <2> SUFFICES ASSUME Anchored PROVE Anchored'
    OBVIOUS
  <2>1. \A x \in Puts("snap")' : x.v = At(mem.c, Anchor)
    BY <1>5, <1>8, <1>10 DEF Anchored
  <2> QED BY <1>1, <1>2, <1>5, <2>1 DEF Anchored
<1>12. Discarding'
  <2>1. BeforeClear => BeforeClear'
    BY <1>1, <1>2, <1>5 DEF BeforeClear
  <2>2. AfterClear => AfterClear'
    BY <1>1, <1>2, <1>5, <1>6 DEF AfterClear
  <2> QED BY <1>1, <1>2, <1>5, <1>6, <2>1, <2>2 DEF On, Running, Discarding
<1>13. HeadOfChain'
  BY <1>1, <1>2 DEF On, Running, HeadOfChain
<1>14. SnapshotsFit'
  <2>1. ASSUME NEW x \in Puts("snap")'
        PROVE  /\ Fitting(x.v)'
               /\ \/ x.v = None \/ (x.v.c = mem'.c /\ x.v.h <= mem'.tip)
                  \/ disk'.head = None /\ fast' = "idle"
    <3>1. CASE x \in Puts("snap")
      BY <1>1, <1>2, <1>6, <3>1 DEF On, Running, SnapshotsFit, Fitting
    <3>2. CASE x \notin Puts("snap")
      <4>1. x.v.c = mem'.c /\ x.v.h <= mem'.tip
        BY <1>1, <1>5, <1>8, <3>2
      <4> QED BY <4>1 DEF Fitting
    <3> QED BY <3>1, <3>2
  <2>2. discard' = "no" /\ fast' # "head" /\ Puts("snap")' = {} => Fitting(disk.snap)'
    <3>1. discard = "no" /\ fast # "head" /\ Puts("snap") = {} => Fitting(disk.snap)
      BY DEF On, Running, SnapshotsFit
    <3>2. Fitting(disk.snap)' <=> Fitting(disk.snap)
      BY <1>1, <1>2, <1>6 DEF Fitting
    <3> QED BY <1>1, <1>5, <3>1, <3>2
  <2> QED BY <2>1, <2>2 DEF SnapshotsFit
<1>15. BackfillAnchored'
  BY <1>1, <1>6, <1>11 DEF On, Running, BackfillAnchored
<1>16. FastAnchored'
  <2> SUFFICES ASSUME fast # "idle" PROVE FastAnchored'
    BY <1>1 DEF FastAnchored
  <2>1. /\ mem.base = Anchor /\ Anchor <= mem.tip /\ ~Sweeping /\ discard = "no"
        /\ \A x \in Puts("snap") : x.v = At(mem.c, Anchor)
        /\ \A c \in Chains : Anchor \notin Known(c)
        /\ disk.head = At(mem.c, Anchor) /\ Puts("head") = {}
        /\ fast = "snap" => \/ disk.snap = At(mem.c, Anchor)
                            \/ \E x \in Puts("snap") : x.by = "fast"
    BY <1>9 DEF On, Running, FastAnchored
  <2>2. \A c \in Chains : Anchor \notin Known(c)'
    BY <1>6, <2>1
  <2>3. \A x \in Puts("snap")' : x.v = At(mem.c, Anchor)
    BY <1>5, <1>8, <1>10, <2>1
  <2>4. Puts("snap") \subseteq Puts("snap")'
    <3>1. PICK t \in Seq(MetaOps) : t = Tail(metaq)
      BY <1>1, HeadTailProperties
    <3>2. Elems(Append(t, y)) = Elems(t) \cup {y}
      BY ElemsOfAppend
    <3>4. Elems(metaq) = {o} \cup Elems(t)
      BY <1>1, <3>1, ElemsOfTail DEF o
    <3>3. Elems(metaq) \subseteq Elems(metaq') \cup {o}
      BY <1>4, <3>1, <3>2, <3>4
    <3> QED BY <3>3 DEF Puts, o
  <2>5. fast' = "snap" => \/ disk'.snap = At(mem'.c, Anchor)
                          \/ \E x \in Puts("snap")' : x.by = "fast"
    BY <1>1, <1>2, <2>1, <2>4
  <2> QED BY <1>1, <1>2, <1>5, <1>6, <2>1, <2>2, <2>3, <2>5 DEF FastAnchored
<1>17. AnchorComplete'
  BY <1>6, <1>11 DEF On, Running, AnchorComplete
<1>18. BelowAnchor'
  <2>1. FromSnapshot => FromSnapshot'
    <3> SUFFICES ASSUME FromSnapshot PROVE FromSnapshot'
      OBVIOUS
    <3>1. \A x \in Puts("snap")' : x.v.c = mem.c /\ x.v.h \in mem.base..mem.tip
      <4>1. metaq' # Tail(metaq) => v.h \in mem.base..mem.tip
        BY <1>8, StoreFacts, AnchorIs
      <4> QED BY <1>5, <1>8, <4>1 DEF FromSnapshot
    <3> QED BY <1>1, <1>2, <1>6, <3>1 DEF FromSnapshot
  <2>2. Shorter => Shorter'
    BY <1>1, <1>6 DEF Shorter, Outbid
  <2> QED BY <1>1, <1>6, <2>1, <2>2 DEF On, Running, BelowAnchor
<1> QED BY <1>1, <1>6, <1>7, <1>12, <1>13, <1>14, <1>15, <1>16, <1>17, <1>18 DEF On, Running

LEMMA CommitMetaKept ==
  ASSUME StoreInv, On, CommitMeta
  PROVE  On'
<1>1. Head(metaq) \in MetaOps
  BY CommitMetaParts
<1>2. Head(metaq).op \in {"head", "snap", "version", "clear", "read"}
  BY <1>1 DEF MetaOps
<1> QED BY <1>2, CommitHeadKept, CommitSnapKept, CommitVersionKept, CommitClearKept,
           CommitReadKept

-----------------------------------------------------------------------------
(* A reload, and the page that goes away.                                  *)

LEMMA DeletionsAre ==
  ASSUME NEW d, d.head # None /\ d.snap = d.head => HeaderPathFits(d)
  PROVE  Deletions(d) = IF /\ d.rows # {} /\ d.snap # None
                           /\ ~HeaderPathFits(d) /\ ~SnapshotPathFits(d)
                        THEN <<Op("snap", None, "none")>> ELSE <<>>
<1> DEFINE head == Op("head", None, "none")
           snap == Op("snap", None, "none")
           b == IF d.rows # {} /\ d.snap # None /\ ~HeaderPathFits(d) /\ ~SnapshotPathFits(d)
                THEN <<snap>> ELSE <<>>
<1>1. Deletions(d) = <<>> \o b
  BY DEF Deletions
<1>2. snap \in MetaOps
  BY OpTypes DEF Op
<1> HIDE DEF snap
<1>3. <<>> \in Seq(MetaOps) /\ <<snap>> \in Seq(MetaOps)
  BY <1>2
<1>4. b \in Seq(MetaOps)
  BY <1>3
<1> HIDE DEF b
<1>5. Deletions(d) = b
  BY <1>1, <1>4
<1> QED BY <1>5 DEF b, snap

(* What a tab that comes back holds, when no row is loose.                 *)
LEMMA LoadKept ==
  ASSUME StoreInv, page = "off" => Away, HeadsAtAnchor, Load, disk.version, ~Loose(disk)
  PROVE  On'
<1> DEFINE m == Restored(disk)
           gone == Op("snap", None, "none")
           wipe == /\ disk.rows # {} /\ disk.snap # None
                   /\ ~HeaderPathFits(disk) /\ ~SnapshotPathFits(disk)
           header == disk.head # None /\ disk.snap = disk.head
<1>1. /\ page' = "on" /\ metaq' = Deletions(disk) /\ rowq' = <<>> /\ mem' = m
      /\ UNCHANGED <<disk, lastSnapshot, writer, fast, fastDone, backfill, discard, left>>
  BY DEF Load
<1>2. /\ fast' = "idle" /\ backfill' = NoBackfill /\ discard' = "no" /\ ~Sweeping'
      /\ backfill'.at = "none" /\ DiskOk(disk)
  <2>1. Fresh /\ DiskOk(disk)
    BY DEF Load, Away
  <2> QED BY <1>1, <2>1 DEF Fresh, NoBackfill, Sweeping
<1>3. disk \in Disks /\ disk.head \in {None, At("honest", Anchor), At("forged", Anchor)}
  BY StoreFacts DEF HeadsAtAnchor
<1>4. /\ \A c \in Chains : Anchor \in RowsOf(disk, c) => m.c = c /\ Anchor <= m.tip
      /\ header =>
           /\ HeaderPathFits(disk) /\ m.c = disk.head.c /\ m.base = Anchor /\ Anchor <= m.tip
      /\ ~header => ~HeaderPathFits(disk) /\ m.body = 1..m.tip
  BY <1>2, <1>3, RestoredChain
<1>5. m \in Memories /\ m.body \subseteq RowsOf(disk, m.c)
  BY <1>3, RestoredFormed DEF WellFormed
<1>6. m.c \in Chains /\ m.tip \in Nat /\ m.tip <= Limit /\ m.base \in Nat
  BY <1>5, AnchorIs DEF Memories
<1>7. metaq' = IF wipe THEN <<gone>> ELSE <<>>
  <2>1. disk.head # None /\ disk.snap = disk.head => HeaderPathFits(disk)
    BY <1>4
  <2>2. Deletions(disk) = IF /\ disk.rows # {} /\ disk.snap # None
                             /\ ~HeaderPathFits(disk) /\ ~SnapshotPathFits(disk)
                          THEN <<Op("snap", None, "none")>> ELSE <<>>
    BY <2>1, DeletionsAre
  <2> QED BY <1>1, <2>2
<1>8. gone.op = "snap" /\ gone.v = None /\ gone \in MetaOps
  BY OpTypes DEF Op
<1> HIDE DEF gone
<1>9. /\ \A k : k # "snap" => Puts(k)' = {}
      /\ Puts("snap")' = IF wipe THEN {gone} ELSE {}
      /\ \A i \in 1..Len(metaq') : metaq'[i].op = "snap"
      /\ \A o \in Elems(metaq)' : o.op = "snap"
  <2>1. CASE wipe
    <3>1. metaq' = <<gone>>
      BY <1>7, <2>1
    <3>2. Elems(<<gone>>) = {gone} /\ \A i \in 1..Len(<<gone>>) : <<gone>>[i] = gone
      <4>1. Len(<<gone>>) = 1 /\ <<gone>>[1] = gone
        BY <1>8
      <4> QED BY <4>1 DEF Elems
    <3>3. Elems(metaq)' = {gone}
      BY <3>1, <3>2
    <3> QED BY <1>8, <2>1, <3>1, <3>2, <3>3 DEF Puts
  <2>2. CASE ~wipe
    <3>1. metaq' = <<>>
      BY <1>7, <2>2
    <3>2. Elems(metaq)' = {}
      BY <3>1, ElemsOfNone
    <3> QED BY <2>2, <3>1, <3>2 DEF Puts
  <2> QED BY <2>1, <2>2
<1>10. /\ Stored' = disk.rows /\ \A c : Known(c)' = RowsOf(disk, c)
       /\ \A c : RowsOf(disk, c)' = RowsOf(disk, c)
  BY <1>1, ElemsOfNone DEF Stored, Known, RowsOf
<1>11. header => disk.head = At(m.c, Anchor) /\ ~wipe
  BY <1>3, <1>4, HeadIs
<1>12. ~header => Missing' = {}
  BY <1>1, <1>4 DEF Missing
<1> HIDE DEF m, wipe
<1>13. HeadsAtAnchor'
  BY <1>1, <1>3, <1>9 DEF HeadsAtAnchor
<1>14. Discarding'
  <2>1. ClearRows \notin Elems(rowq)'
    BY <1>1, ElemsOfNone
  <2> QED BY <1>1, <1>2, <1>9, <2>1 DEF Discarding
<1>15. ReachedAnchor' /\ HeadOfChain'
  BY <1>1, <1>4, <1>10 DEF ReachedAnchor, HeadOfChain
<1>16. SnapshotsFit'
  <2>1. \A o \in Puts("snap")' : o.v = None
    BY <1>8, <1>9
  <2>2. Puts("snap")' = {} => Fitting(disk.snap)'
    <3> SUFFICES ASSUME ~wipe PROVE Fitting(disk.snap)'
      BY <1>9
    <3>1. CASE disk.rows = {}
      <4>1. \A c : Known(c)' = {}
        BY <1>10, <3>1 DEF RowsOf
      <4> QED BY <4>1 DEF Fitting
    <3>2. CASE disk.snap = None
      BY <1>1, <3>2 DEF Fitting
    <3>3. CASE HeaderPathFits(disk)
      <4>1. header
        BY <1>4, <3>3
      <4> QED BY <1>1, <1>4, <4>1 DEF Fitting
    <3>4. CASE SnapshotPathFits(disk) /\ ~HeaderPathFits(disk)
      <4>1. m.c = disk.snap.c
        BY <3>4 DEF Restored, WithSnapshot, m
      <4> QED BY <1>1, <4>1 DEF Fitting
    <3> QED BY <3>1, <3>2, <3>3, <3>4 DEF wipe
  <2> QED BY <2>1, <2>2 DEF SnapshotsFit, Fitting
<1>17. header => Anchored'
  <2> SUFFICES ASSUME header PROVE Anchored'
    OBVIOUS
  <2>1. Puts("snap")' = {} /\ Puts("head")' = {}
    BY <1>9, <1>11
  <2> QED BY <1>1, <1>4, <1>11, <2>1 DEF Anchored
<1>18. BackfillAnchored'
  BY <1>2, <1>12, <1>17 DEF BackfillAnchored
<1>19. FastAnchored'
  BY <1>2 DEF FastAnchored
<1>20. InOrder'
  BY <1>1 DEF InOrder
<1>21. BodiesKnown'
  BY <1>1, <1>5, <1>10 DEF BodiesKnown
<1>22. AnchorComplete'
  <2> SUFFICES ASSUME NEW c \in Chains, Anchor \in RowsOf(disk, c),
                      ~(1..Anchor \subseteq RowsOf(disk, c))
               PROVE  Anchored'
    BY <1>10 DEF AnchorComplete
  <2>1. disk.head = At(c, Anchor) /\ disk.snap = disk.head
    BY <1>2 DEF DiskOk
  <2>2. At(c, Anchor) # None
    BY AnchorIs DEF At, None
  <2> QED BY <1>17, <2>1, <2>2
<1>23. BelowAnchor'
  <2> SUFFICES ASSUME m.tip < Anchor
               PROVE  Missing' = {} /\ (Shorter' \/ FromSnapshot')
    BY <1>1 DEF BelowAnchor
  <2>1. ~header /\ ~HeaderPathFits(disk)
    BY <1>4, <1>6, AnchorIs
  <2>2. CASE SnapshotPathFits(disk)
    <3>1. m = WithSnapshot(disk)
      BY <2>1, <2>2 DEF Restored, m
    <3>2. disk.snap.c \in Chains /\ disk.snap.h \in Heights
      BY <1>3, <2>2 DEF SnapshotPathFits, Disks, Mark
    <3>3. /\ m.c = disk.snap.c /\ m.base = disk.snap.h
          /\ m.tip = Run(RowsOf(disk, m.c), 0)
      BY <3>1 DEF WithSnapshot
    <3>4. RowsOf(disk, m.c) = 1..m.tip
      BY <2>2, <3>2, <3>3 DEF SnapshotPathFits
    <3>5. disk.snap.h \in m.base..m.tip
      <4>1. disk.snap.h \in 1..m.tip
        BY <2>2, <3>3, <3>4 DEF SnapshotPathFits
      <4> QED BY <1>6, <3>3, <4>1
    <3>6. ASSUME NEW c \in Chains, c # m.c PROVE \E r \in 0..m.base : RowsOf(disk, c) = 1..r
      <4>1. c = Other(m.c)
        BY <1>6, <3>6, OtherIs
      <4>2. /\ RowsOf(disk, c) = 1..Run(RowsOf(disk, c), 0)
            /\ \A h \in RowsOf(disk, c) : h <= m.base
        BY <2>2, <3>2, <3>3, <4>1 DEF SnapshotPathFits
      <4>3. PICK r \in 0..Limit : r = Run(RowsOf(disk, c), 0)
        <5>1. RowsOf(disk, c) \in SUBSET Heights
          BY <1>3, RowsFit
        <5> QED BY <5>1, AnchorIs, RunFits
      <4>4. r <= m.base
        <5>1. CASE r = 0
          BY <1>6, <5>1
        <5>2. CASE r # 0
          <6>1. r \in 1..r
            BY <4>3, <5>2, AnchorIs
          <6> QED BY <4>2, <4>3, <6>1
        <5> QED BY <5>1, <5>2
      <4> QED BY <1>6, <4>2, <4>3, <4>4, AnchorIs
    <3>7. Puts("snap")' = {}
      BY <1>9, <2>2 DEF wipe
    <3> QED BY <1>1, <1>10, <1>12, <2>1, <3>3, <3>4, <3>5, <3>6, <3>7 DEF FromSnapshot
  <2>3. CASE ~SnapshotPathFits(disk)
    <3>1. m = FullReplay(disk)
      BY <2>1, <2>3 DEF Restored, m
    <3>2. ASSUME NEW c \in Chains, c # m.c PROVE ~(1..Outbid' \subseteq Known(c)')
      <4>1. IF m.c = "honest" THEN m.tip + 1 \in 0..Limit => ~(1..(m.tip + 1) \subseteq RowsOf(disk, c))
                              ELSE ~(1..m.tip \subseteq RowsOf(disk, c))
        BY <1>3, <3>1, <3>2, FullReplayGives
      <4>2. m.tip + 1 \in 0..Limit
        BY <1>6, AnchorIs
      <4> QED BY <1>1, <1>10, <4>1, <4>2 DEF Outbid
    <3> QED BY <1>1, <1>12, <2>1, <3>2 DEF Shorter
  <2> QED BY <2>2, <2>3
<1> QED BY <1>1, <1>13, <1>14, <1>15, <1>16, <1>18, <1>19, <1>20, <1>21, <1>22, <1>23
        DEF On, Running

(* A store of another build is about to be cleared.                        *)
LEMMA LoadClears ==
  ASSUME page = "off" => Away, HeadsAtAnchor, Load, ~disk.version, disk \in Disks
  PROVE  page' = "clearing" /\ Clearing' /\ HeadsAtAnchor'
<1>1. /\ page' = "clearing" /\ rowq' = <<ClearRows>> /\ metaq' = <<Clear, MarkVersion>>
      /\ mem' = Restored(disk) /\ timer' = (mem'.tip > mem'.base)
      /\ UNCHANGED <<disk, lastSnapshot, writer, fast, fastDone, backfill, discard, left>>
  BY DEF Load, MarkVersion
<1>2. mem' = Empty /\ timer' = FALSE
  <2>1. mem' = Empty
    BY <1>1 DEF Restored
  <2>2. mem'.tip = 0 /\ mem'.base = 0
    BY <2>1 DEF Empty
  <2>3. \A t, b \in Nat : t = b => (t > b) = FALSE
    OBVIOUS
  <2>4. (mem'.tip > mem'.base) = FALSE
    BY <2>2, <2>3
  <2> QED BY <1>1, <2>1, <2>4
<1>3. Fresh
  BY DEF Load, Away
<1>4. disk.version = FALSE
  BY DEF Disks
<1>5. Clearing'
  BY <1>1, <1>2, <1>3, <1>4 DEF Clearing, Fresh
<1>6. HeadsAtAnchor'
  <2>1. /\ Clear = Op("clear", None, "discard") /\ Clear.op = "clear"
        /\ MarkVersion = Op("version", None, "discard") /\ MarkVersion.op = "version"
    BY DEF Clear, MarkVersion, Op
  <2>2. PICK a, b : a = Clear /\ b = MarkVersion
    OBVIOUS
  <2>3. metaq' = <<a, b>>
    BY <1>1, <2>2
  <2>4. Len(<<a, b>>) = 2 /\ <<a, b>>[1] = a /\ <<a, b>>[2] = b
    OBVIOUS
  <2>5. /\ Len(metaq') = 2 /\ metaq'[1] = a /\ metaq'[2] = b
    BY <2>3, <2>4
  <2>6. \A i \in 1..Len(metaq') : (i = 1 /\ metaq'[i] = a) \/ (i = 2 /\ metaq'[i] = b)
    BY <2>5
  <2>7. \A o \in Elems(metaq)' : o = a \/ o = b
    BY <2>6 DEF Elems
  <2>8. a.op = "clear" /\ b.op = "version" /\ a = Op("clear", None, "discard")
        /\ b = Op("version", None, "discard")
    BY <2>1, <2>2
  <2>9. disk'.head \in {None, At("honest", Anchor), At("forged", Anchor)}
    BY <1>1 DEF HeadsAtAnchor
  <2> QED BY <2>6, <2>7, <2>8, <2>9 DEF HeadsAtAnchor
<1> QED BY <1>1, <1>5, <1>6

(* The stores are cleared, this build's version is put.                    *)
LEMMA ClearingKept ==
  ASSUME HeadsAtAnchor, Clearing, CommitMeta
  PROVE  Clearing' /\ HeadsAtAnchor' /\ page' = page
<1> DEFINE o == Head(metaq)
<1>1. Clear.op = "clear" /\ MarkVersion.op = "version" /\ Clear # MarkVersion
      /\ MarkVersion = Op("version", None, "discard")
  BY DEF Clear, MarkVersion, Op
<1>2. PICK a, b : a = Clear /\ b = MarkVersion
  OBVIOUS
<1>3. /\ Head(<<a, b>>) = a /\ Tail(<<a, b>>) = <<b>>
      /\ Head(<<b>>) = b /\ Tail(<<b>>) = <<>>
      /\ Head(<<ClearRows>>) = ClearRows /\ Tail(<<ClearRows>>) = <<>>
      /\ Len(<<b>>) = 1 /\ <<b>>[1] = b /\ Len(<<>>) = 0
  OBVIOUS
<1>4. o.op # "read" => /\ disk' = Committed(disk, o) /\ metaq' = Tail(metaq) /\ writer' = writer
                       /\ rowq' = IF o = Clear THEN Tail(rowq) ELSE rowq
                       /\ UNCHANGED <<page, mem, timer, lastSnapshot, fast, fastDone,
                                      backfill, discard, left, harmed>>
  BY DEF CommitMeta
<1>5. CASE rowq = <<ClearRows>> /\ metaq = <<Clear, MarkVersion>>
  <2>1. o = Clear /\ Tail(metaq) = <<b>> /\ Tail(rowq) = <<>>
    BY <1>2, <1>3, <1>5
  <2>2. o.op # "read" /\ Committed(disk, o) = Blank(FALSE)
    BY <1>1, <2>1 DEF Committed, Blank
  <2>3. metaq' = <<b>> /\ rowq' = <<>> /\ disk' = Blank(FALSE)
    BY <1>4, <2>1, <2>2
  <2>4. disk'.head = None
    BY <2>3 DEF Blank
  <2>5. \A i \in 1..Len(metaq') : i = 1 /\ metaq'[i] = b
    BY <1>3, <2>3
  <2>6. \A x \in Elems(metaq)' : x = b
    BY <2>5 DEF Elems
  <2>7. HeadsAtAnchor'
    BY <1>1, <1>2, <2>4, <2>5, <2>6 DEF HeadsAtAnchor
  <2>8. Clearing'
    BY <1>2, <1>4, <2>2, <2>3 DEF Clearing
  <2> QED BY <1>4, <2>2, <2>7, <2>8
<1>6. CASE metaq = <<MarkVersion>> /\ disk = Blank(FALSE) /\ rowq = <<>>
  <2>1. o = MarkVersion /\ Tail(metaq) = <<>>
    BY <1>2, <1>3, <1>6
  <2>2. o.op = "version" /\ o # Clear
    BY <1>1, <2>1
  <2>3. Committed(disk, o) = Blank(TRUE)
    BY <1>6, <2>2 DEF Committed, Blank
  <2>4. metaq' = <<>> /\ rowq' = <<>> /\ disk' = Blank(TRUE)
    BY <1>4, <1>6, <2>1, <2>2, <2>3
  <2>5. disk'.head = None
    BY <2>4 DEF Blank
  <2>6. HeadsAtAnchor'
    <3>1. Elems(metaq)' = {} /\ \A i : i \notin 1..Len(metaq')
      BY <1>3, <2>4, ElemsOfNone
    <3> QED BY <2>5, <3>1 DEF HeadsAtAnchor
  <2>7. Clearing'
    BY <1>4, <2>2, <2>4 DEF Clearing
  <2> QED BY <1>4, <2>2, <2>6, <2>7
<1>7. metaq # <<>>
  BY DEF CommitMeta
<1> QED BY <1>5, <1>6, <1>7 DEF Clearing

(* The stores are cleared: the node goes on the network.                   *)
LEMMA ClearedKept ==
  ASSUME HeadsAtAnchor, page = "clearing" => Clearing, Cleared
  PROVE  On'
<1>1. /\ page = "clearing" /\ Done("discard") /\ page' = "on"
      /\ UNCHANGED <<disk, rowq, metaq, mem, timer, lastSnapshot, writer, fast, fastDone,
                     backfill, discard, left, harmed>>
  BY DEF Cleared
<1>2. rowq = <<>> /\ metaq = <<>> /\ disk = Blank(TRUE)
  <2>1. PICK a, b : a = Clear /\ b = MarkVersion /\ a.by = "discard" /\ b.by = "discard"
    <3>1. Clear.by = "discard" /\ MarkVersion.by = "discard"
      BY DEF Clear, MarkVersion, Op
    <3> QED BY <3>1
  <2>2. /\ DOMAIN <<a, b>> = 1..2 /\ <<a, b>>[1] = a /\ DOMAIN <<b>> = 1..1 /\ <<b>>[1] = b
        /\ 1 \in 1..1 /\ 1 \in 1..2
    OBVIOUS
  <2>3. metaq # <<a, b>> /\ metaq # <<b>>
    BY <1>1, <2>1, <2>2 DEF Done
  <2> QED BY <1>1, <2>1, <2>3 DEF Clearing
<1>3. /\ mem = Empty /\ fast = "idle" /\ discard = "no" /\ backfill = NoBackfill
  BY <1>1 DEF Clearing
<1>4. /\ disk.version = TRUE /\ disk.rows = {} /\ disk.head = None /\ disk.snap = None
      /\ mem.c = "honest" /\ mem.tip = 0 /\ mem.base = 0 /\ mem.body = {}
      /\ ~Sweeping /\ backfill.at = "none"
  BY <1>2, <1>3 DEF Blank, Empty, NoBackfill, Sweeping
<1>5. /\ Stored' = {} /\ \A c : Known(c)' = {}
      /\ \A c : RowsOf(disk, c)' = {}
      /\ \A k : Puts(k)' = {} /\ Missing' = {}
  <2>1. Elems(rowq)' = {} /\ Elems(metaq)' = {} /\ disk'.rows = {}
    BY <1>1, <1>2, <1>4, ElemsOfNone
  <2>2. mem'.tip = 0
    BY <1>1, <1>4
  <2> QED BY <2>1, <2>2 DEF Stored, Known, RowsOf, Puts, Missing
<1>6. HeadsAtAnchor'
  BY <1>1 DEF HeadsAtAnchor
<1>7. Discarding'
  BY <1>1, <1>2, <1>3, <1>4, <1>5, ElemsOfNone DEF Discarding
<1>8. ReachedAnchor' /\ HeadOfChain' /\ FastAnchored' /\ AnchorComplete' /\ BodiesKnown'
  BY <1>1, <1>3, <1>4, <1>5
     DEF ReachedAnchor, HeadOfChain, FastAnchored, AnchorComplete, BodiesKnown
<1>9. SnapshotsFit'
  BY <1>1, <1>4, <1>5 DEF SnapshotsFit, Fitting
<1>10. BackfillAnchored'
  BY <1>1, <1>4, <1>5 DEF BackfillAnchored
<1>11. InOrder'
  BY <1>1, <1>2 DEF InOrder
<1>12. BelowAnchor'
  <2>1. Outbid' = 1
    BY <1>1, <1>4 DEF Outbid
  <2>2. ASSUME NEW c \in Chains PROVE ~(1..Outbid' \subseteq Known(c)')
    BY <1>5, <2>1
  <2> QED BY <1>5, <2>2 DEF BelowAnchor, Shorter
<1> QED BY <1>1, <1>6, <1>7, <1>8, <1>9, <1>10, <1>11, <1>12 DEF On, Running

(* What a tab leaves on disk is in order, whatever is still queued.        *)
LEMMA RunningLeaves ==
  ASSUME StoreInv, On
  PROVE  DiskOk(disk)
<1>1. \A c : RowsOf(disk, c) \subseteq Known(c)
  BY DEF RowsOf, Known, Stored
<1>2. ReachedAnchor /\ HeadOfChain /\ AnchorComplete
  BY DEF On, Running
<1>3. \A c \in Chains : Anchor \in RowsOf(disk, c) => mem.c = c
  BY <1>1, <1>2 DEF ReachedAnchor
<1>4. \A c \in Chains : Anchor \in RowsOf(disk, c) =>
        1..Anchor \subseteq RowsOf(disk, c) \/ (disk.head = At(c, Anchor) /\ disk.snap = disk.head)
  BY <1>2, <1>3 DEF AnchorComplete, Anchored
<1>5. disk.head # None /\ disk.snap = disk.head =>
        \A c \in Chains : Anchor \in RowsOf(disk, c) => c = disk.head.c
  BY <1>2, <1>3 DEF HeadOfChain
<1> QED BY <1>3, <1>4, <1>5 DEF DiskOk

LEMMA GoneKept ==
  ASSUME StoreInv, Books, NEW upgrade \in BOOLEAN, Gone(upgrade)
  PROVE  Books'
<1>1. /\ page # "off" /\ page' = "off" /\ Fresh' /\ metaq' = <<>>
      /\ disk' = [disk EXCEPT !.version = @ /\ ~upgrade]
  BY DEF Gone, Fresh
<1>2. disk \in Disks
  BY StoreFacts
<1>3. /\ disk'.rows = disk.rows /\ disk'.head = disk.head /\ disk'.snap = disk.snap
      /\ disk'.version => disk.version
  BY <1>1, <1>2 DEF Disks
<1>4. disk.version => DiskOk(disk)
  <2>1. page \in {"clearing", "on"}
    BY <1>1 DEF StoreInv, Held, Types
  <2>2. CASE page = "on"
    BY <2>2, RunningLeaves DEF Books, On
  <2>3. CASE page = "clearing"
    <3>1. disk.version => disk.rows = {}
      BY <2>3 DEF Books, Clearing, Blank
    <3>2. disk.rows = {} => \A c : RowsOf(disk, c) = {}
      BY DEF RowsOf
    <3> QED BY <3>1, <3>2 DEF DiskOk
  <2> QED BY <2>1, <2>2, <2>3
<1>5. disk'.version => DiskOk(disk')
  <2>1. \A c : RowsOf(disk', c) = RowsOf(disk, c)
    BY <1>3 DEF RowsOf
  <2> QED BY <1>3, <1>4, <2>1 DEF DiskOk
<1>6. HeadsAtAnchor'
  <2>1. Len(<<>>) = 0
    OBVIOUS
  <2>2. Elems(metaq)' = {} /\ Len(metaq') = 0
    BY <1>1, <2>1, ElemsOfNone
  <2> QED BY <1>3, <2>2 DEF Books, HeadsAtAnchor
<1>7. Away'
  BY <1>1, <1>5 DEF Away
<1> QED BY <1>1, <1>6, <1>7 DEF Books

-----------------------------------------------------------------------------
(* Every step keeps the books, unless it does harm.                        *)

LEMMA LoadKeepsBooks ==
  ASSUME StoreInv, Books, Load, ~(disk.version /\ Loose(disk))
  PROVE  Books'
<1>1. page = "off" => Away
  BY DEF Books
<1>2. HeadsAtAnchor /\ disk \in Disks
  BY StoreFacts DEF Books
<1>3. CASE disk.version
  BY <1>1, <1>2, <1>3, LoadKept DEF Books, On
<1>4. CASE ~disk.version
  BY <1>1, <1>2, <1>4, LoadClears DEF Books
<1> QED BY <1>3, <1>4

(* A page that is not on only loads, clears its stores, or goes away.      *)
LEMMA OtherPages ==
  ASSUME StoreInv, Books, page # "on", Next
  PROVE  Load \/ Cleared \/ (\E upgrade \in BOOLEAN : Gone(upgrade))
           \/ (page = "clearing" /\ CommitMeta)
<1>1. page \in {"off", "clearing"}
  BY DEF StoreInv, Held, Types
<1>2. /\ timer = FALSE /\ writer.at = "idle" /\ fast = "idle" /\ backfill.at = "none"
      /\ discard = "no" /\ (rowq = <<>> \/ Head(rowq) = ClearRows)
      /\ page = "off" => metaq = <<>>
  <2>1. CASE page = "off"
    BY <2>1 DEF Books, Away, Fresh, Idle, NoBackfill
  <2>2. CASE page = "clearing"
    <3>1. Clearing
      BY <2>2 DEF Books
    <3>2. Head(<<ClearRows>>) = ClearRows
      OBVIOUS
    <3>3. rowq = <<>> \/ Head(rowq) = ClearRows
      BY <3>1, <3>2 DEF Clearing
    <3> QED BY <2>2, <3>1, <3>3 DEF Clearing, Idle, NoBackfill
  <2> QED BY <1>1, <2>1, <2>2
<1>3. ~CommitRow /\ ~LoseRow /\ ~Extend /\ ~StaleFork /\ ~SnapshotTimer /\ ~SnapshotWritten
      /\ ~FastFails /\ ~Fast /\ ~StartBackfill /\ ~BatchStep /\ ~BatchEnd /\ ~Discard
  BY <1>2 DEF CommitRow, LoseRow, Extend, StaleFork, SnapshotTimer, SnapshotWritten, FastFails,
              Fast, FastPersist, FastEnd, StartBackfill, BatchStep, BatchEnd, Discard,
              DiscardVersion, DiscardReset
<1>4. \A bad : ~Batch(bad)
  BY <1>2 DEF Batch
<1>5. \A c : ~FastSync(c)
  BY DEF FastSync
<1>6. CommitMeta => page = "clearing"
  BY <1>1, <1>2 DEF CommitMeta
<1> QED BY <1>3, <1>4, <1>5, <1>6 DEF Next, Backfill

(* A page that is on does any of its steps.                                *)
LEMMA OnStepKept ==
  ASSUME StoreInv, On, Next, harmed' = FALSE
  PROVE  Books'
<1>1. CASE \E upgrade \in BOOLEAN : Gone(upgrade)
  <2>1. Books
    BY DEF Books, On
  <2> QED BY <1>1, <2>1, GoneKept
<1>2. CASE ~\E upgrade \in BOOLEAN : Gone(upgrade)
  <2>1. ~Load /\ ~Cleared /\ ~LoseRow /\ ~StaleFork
    BY DEF On, Load, Cleared, LoseRow, StaleFork
  <2>2. CASE \/ CommitRow \/ CommitMeta \/ Extend \/ SnapshotTimer \/ Fast \/ BatchStep
             \/ BatchEnd \/ Discard \/ \E c \in Chains : FastSync(c)
    <3>1. On'
      BY <2>2, CommitRowKept, CommitMetaKept, ExtendKept, SnapshotTimerKept, FastPersistKept,
         FastEndKept, BatchStepOn, BatchEndKept, DiscardVersionKept, DiscardResetKept,
         FastSyncKept DEF Fast, Discard
    <3> QED BY <3>1 DEF On, Books
  <2>3. CASE SnapshotWritten \/ FastFails \/ StartBackfill \/ \E bad : Batch(bad)
    <3>1. UNCHANGED <<page, disk, rowq, metaq, mem, fast, discard>>
      BY <2>3 DEF SnapshotWritten, FastFails, StartBackfill, Batch
    <3>2. /\ Sweeping' => Sweeping \/ (fast = "idle" /\ discard = "no")
          /\ backfill'.at = "work" => backfill.at = "work" \/ Missing # {}
          /\ backfill.at = "work" => backfill'.at = "work" \/ rowq = <<>>
      <4>1. CASE SnapshotWritten \/ FastFails
        BY <4>1 DEF SnapshotWritten, FastFails, Sweeping
      <4>2. CASE StartBackfill
        BY <4>2 DEF StartBackfill, NoBackfill
      <4>3. CASE \E bad : Batch(bad)
        BY <4>3 DEF Batch, Sweeping
      <4> QED BY <2>3, <4>1, <4>2, <4>3
    <3>3. On'
      BY <3>1, <3>2, OnUnmoved
    <3> QED BY <3>3 DEF On, Books
  <2> QED BY <1>2, <2>1, <2>2, <2>3 DEF Next, Backfill
<1> QED BY <1>1, <1>2

LEMMA ReloadableKept ==
  ASSUME StoreInv, Reloadable, Next
  PROVE  Reloadable'
<1> SUFFICES ASSUME ~harmed' PROVE Books'
  BY DEF Reloadable
<1>1. harmed' \in BOOLEAN
  BY StoreInductive DEF StoreInv, Held, Types
<1>2. harmed' = FALSE
  BY <1>1
<1>3. ~harmed
  <2>1. harmed => harmed'
    BY DEF Next, Load, Cleared, Gone, CommitRow, LoseRow, CommitMeta, Extend, StaleFork,
           SnapshotTimer, SnapshotWritten, FastFails, Fast, FastPersist, FastEnd, FastSync,
           Backfill, StartBackfill, Batch, BatchStep, BatchEnd, Discard, DiscardVersion,
           DiscardReset
  <2> QED BY <2>1
<1>4. Books
  BY <1>3 DEF Reloadable
<1>5. CASE page = "on"
  BY <1>2, <1>4, <1>5, OnStepKept DEF On, Books
<1>6. CASE page # "on"
  <2>1. CASE Load
    <3>1. ~(disk.version /\ Loose(disk))
      BY <2>1 DEF Load
    <3> QED BY <1>4, <2>1, <3>1, LoadKeepsBooks
  <2>2. CASE Cleared
    BY <1>4, <2>2, ClearedKept DEF Books, On
  <2>3. CASE \E upgrade \in BOOLEAN : Gone(upgrade)
    BY <1>4, <2>3, GoneKept
  <2>4. CASE page = "clearing" /\ CommitMeta
    BY <1>4, <2>4, ClearingKept DEF Books
  <2> QED BY <1>4, <1>6, <2>1, <2>2, <2>3, <2>4, OtherPages
<1> QED BY <1>5, <1>6

LEMMA ReloadInductive ==
  /\ Init => Reloadable
  /\ StoreInv /\ Reloadable /\ [Next]_vars => Reloadable'
<1>1. ASSUME Init PROVE Reloadable
  <2>1. Fresh /\ disk.version = FALSE /\ disk.head = None /\ page = "off" /\ metaq = <<>>
    BY <1>1 DEF Init, Fresh
  <2>2. Len(<<>>) = 0 /\ \A i : i \notin 1..0
    OBVIOUS
  <2>3. Elems(metaq) = {} /\ \A i : i \notin 1..Len(metaq)
    BY <2>1, <2>2, ElemsOfNone
  <2>4. HeadsAtAnchor
    BY <2>1, <2>3 DEF HeadsAtAnchor
  <2> QED BY <2>1, <2>4 DEF Reloadable, Books, Away
<1>2. ASSUME StoreInv, Reloadable, UNCHANGED vars PROVE Reloadable'
  <2>1. UNCHANGED <<disk, rowq, metaq, page, mem, timer, lastSnapshot, writer, fast, fastDone,
                    backfill, discard, left, harmed>>
    BY <1>2 DEF vars, tab
  <2> SUFFICES ASSUME ~harmed PROVE Books'
    BY <2>1 DEF Reloadable
  <2>2. Books
    BY <1>2 DEF Reloadable
  <2>3. CASE page = "on"
    <3>1. On'
      BY <2>1, <2>2, <2>3, OnUnmoved DEF On, Books, Sweeping
    <3> QED BY <3>1 DEF On, Books
  <2>4. CASE page # "on"
    <3>1. HeadsAtAnchor'
      BY <2>1, <2>2 DEF Books, HeadsAtAnchor, Elems
    <3>2. page = "off" => Away'
      BY <2>1, <2>2 DEF Books, Away, Fresh
    <3>3. page = "clearing" => Clearing'
      BY <2>1, <2>2 DEF Books, Clearing
    <3> QED BY <2>1, <2>4, <3>1, <3>2, <3>3 DEF Books
  <2> QED BY <2>3, <2>4
<1> QED BY <1>1, <1>2, ReloadableKept

-----------------------------------------------------------------------------
(* What a reload finds.                                                    *)

LEMMA ReloadFinds ==
  ASSUME StoreInv, Reloadable
  PROVE  ReloadKeeps
<1> SUFFICES ASSUME page = "on", rowq = <<>>, metaq = <<>>, fast = "idle", Sound
             PROVE  /\ Restored(disk).tip >= mem.tip
                    /\ mem.tip > 0 => Restored(disk).c = mem.c
  BY DEF ReloadKeeps
<1> DEFINE m == Restored(disk)
           header == disk.head # None /\ disk.snap = disk.head
<1>1. On /\ ~Loose(disk) /\ discard = "no"
  BY DEF Sound, Reloadable, Books, On
<1>2. disk \in Disks /\ DiskOk(disk) /\ disk.version
      /\ disk.head \in {None, At("honest", Anchor), At("forged", Anchor)}
  BY <1>1, StoreFacts, RunningLeaves DEF On, HeadsAtAnchor, Running, Discarding
<1>3. /\ mem.c \in Chains /\ mem.tip \in 0..Limit /\ mem.tip \in Nat /\ mem.base \in Nat
      /\ (mem.base + 1)..mem.tip \subseteq mem.body
  BY StoreFacts, AnchorIs
<1>4. /\ \A c : Known(c) = RowsOf(disk, c) /\ \A k : Puts(k) = {}
  BY ElemsOfNone DEF Known, Stored, RowsOf, Puts
<1>5. mem.body \subseteq RowsOf(disk, mem.c)
  BY <1>1, <1>4 DEF On, Running, BodiesKnown
<1>6. /\ \A c \in Chains : Anchor \in RowsOf(disk, c) => m.c = c
      /\ header => HeaderPathFits(disk) /\ m.c = disk.head.c
      /\ ~header => ~HeaderPathFits(disk)
  BY <1>1, <1>2, RestoredChain
<1>7. m.tip \in Nat
  <2>1. m \in Memories
    BY <1>2, RestoredFormed DEF WellFormed
  <2> QED BY <2>1, AnchorIs DEF Memories
<1> HIDE DEF m
<1>8. ASSUME m.c = mem.c,
             \/ 1..mem.tip \subseteq RowsOf(disk, mem.c)
             \/ HeaderPathFits(disk) /\ (Anchor + 1)..mem.tip \subseteq RowsOf(disk, mem.c)
      PROVE  mem.tip <= m.tip
  BY <1>2, <1>3, <1>8, RestoredReaches DEF m
<1>9. CASE Missing # {}
  <2>1. Anchored
    BY <1>1, <1>9 DEF On, Running, BackfillAnchored
  <2>2. disk.head = At(mem.c, Anchor) /\ disk.snap = disk.head /\ mem.base = Anchor
        /\ disk.head # None /\ disk.head.c = mem.c
    BY <2>1, AnchorIs DEF Anchored, At, None
  <2>3. HeaderPathFits(disk) /\ m.c = mem.c
    BY <1>6, <2>2
  <2>4. mem.tip <= m.tip
    BY <1>3, <1>5, <1>8, <2>2, <2>3
  <2> QED BY <1>3, <1>7, <2>3, <2>4 DEF m
<1>10. CASE Missing = {}
  <2>1. 1..mem.tip \subseteq RowsOf(disk, mem.c)
    BY <1>5, <1>10 DEF Missing
  <2>2. SUFFICES ASSUME mem.tip > 0 PROVE m.c = mem.c
    <3>1. CASE mem.tip = 0
      BY <1>3, <1>7, <3>1 DEF m
    <3>2. CASE mem.tip > 0
      <4>1. m.c = mem.c
        BY <2>2, <3>2
      <4>2. mem.tip <= m.tip
        BY <1>8, <2>1, <4>1
      <4> QED BY <1>3, <1>7, <4>1, <4>2 DEF m
    <3> QED BY <1>3, <3>1, <3>2
  <2>3. CASE Anchor <= mem.tip
    <3>1. Anchor \in RowsOf(disk, mem.c)
      BY <1>3, <2>1, <2>3, AnchorIs
    <3> QED BY <1>3, <1>6, <3>1
  <2>4. CASE mem.tip < Anchor
    <3>1. ~header /\ ~HeaderPathFits(disk)
      <4>1. ~(Anchor <= mem.tip)
        BY <1>3, <2>4, AnchorIs
      <4> QED BY <1>1, <1>6, <4>1 DEF On, Running, HeadOfChain
    <3>2. 1 \in RowsOf(disk, mem.c)
      BY <1>3, <2>1, <2>2
    <3>3. Shorter \/ FromSnapshot
      BY <1>1, <2>4 DEF On, Running, BelowAnchor
    <3>4. CASE SnapshotPathFits(disk)
      <4>1. m.c = disk.snap.c
        BY <1>2, <3>1, <3>4 DEF m, Restored, WithSnapshot
      <4>2. disk.snap # None /\ disk.snap.c \in Chains
        BY <1>2, <3>4 DEF SnapshotPathFits, Disks, Mark
      <4>3. PICK n \in 0..Limit : RowsOf(disk, disk.snap.c) = 1..n
        <5>1. RowsOf(disk, disk.snap.c) \in SUBSET Heights
          BY <1>2, <4>2, RowsFit
        <5>2. Run(RowsOf(disk, disk.snap.c), 0) \in 0..Limit
          BY <5>1, AnchorIs, RunFits
        <5> QED BY <3>4, <4>2, <5>2 DEF SnapshotPathFits
      <4>4. disk.snap.h \in 1..n
        BY <3>4, <4>3 DEF SnapshotPathFits
      <4>5. 1 \in Known(disk.snap.c)
        BY <1>4, <4>3, <4>4, AnchorIs
      <4>6. Fitting(disk.snap)
        BY <1>1, <1>4 DEF On, Running, SnapshotsFit
      <4> QED BY <4>1, <4>2, <4>5, <4>6 DEF Fitting
    <3>5. CASE ~SnapshotPathFits(disk)
      <4>1. m = FullReplay(disk)
        BY <1>2, <3>1, <3>5 DEF m, Restored
      <4>2. Other(mem.c) \in Chains /\ Other(mem.c) # mem.c
            /\ \A k \in Chains : k = mem.c \/ k = Other(mem.c)
        BY <1>3, OtherIs
      <4>3. CASE Shorter
        <5>1. PICK k \in Chains : k # mem.c
          BY <4>2
        <5>2. IF mem.c = "honest"
              THEN mem.tip + 1 \in 0..Limit => ~(1..(mem.tip + 1) \subseteq RowsOf(disk, k))
              ELSE ~(1..mem.tip \subseteq RowsOf(disk, k))
          BY <1>4, <4>3, <5>1 DEF Shorter, Outbid
        <5> QED BY <1>2, <1>3, <2>1, <4>1, <5>1, <5>2, FullReplayIs
      <4>4. CASE FromSnapshot
        <5>1. /\ RowsOf(disk, mem.c) = 1..mem.tip
              /\ \A c \in Chains : c # mem.c => \E r \in 0..mem.base : RowsOf(disk, c) = 1..r
              /\ disk.snap.c = mem.c /\ disk.snap.h \in mem.base..mem.tip
          BY <1>4, <4>4 DEF FromSnapshot
        <5>2. disk.snap # None /\ disk.snap.h \in 1..mem.tip
          <6>1. disk.snap \in Mark /\ disk.snap.c \in Chains
            BY <1>2, <1>3, <5>1 DEF Disks
          <6>2. disk.snap # None /\ disk.snap.h \in Heights
            BY <6>1 DEF Mark, None, Chains
          <6> QED BY <1>3, <5>1, <6>2, AnchorIs
        <5>3. ASSUME NEW c \in Chains
              PROVE  RowsOf(disk, c) = 1..Run(RowsOf(disk, c), 0)
          <6>1. PICK n \in 0..Limit : RowsOf(disk, c) = 1..n
            <7>1. CASE c = mem.c
              BY <1>3, <5>1, <7>1
            <7>2. CASE c # mem.c
              <8>1. PICK r \in 0..mem.base : RowsOf(disk, c) = 1..r
                BY <5>1, <7>2
              <8>2. mem.base <= Limit
                BY <1>3, <5>1, AnchorIs
              <8>3. r \in 0..Limit
                BY <1>3, <8>2, AnchorIs
              <8> QED BY <8>1, <8>3
            <7> QED BY <7>1, <7>2
          <6>2. RowsOf(disk, c) \in SUBSET Heights
            BY <1>2, RowsFit
          <6>3. PICK q : q = Run(RowsOf(disk, c), 0)
            OBVIOUS
          <6>4. q \in 0..Limit /\ 1..q \subseteq 1..n
            <7>1. /\ Run(RowsOf(disk, c), 0) \in 0..Limit
                  /\ (0 + 1)..Run(RowsOf(disk, c), 0) \subseteq RowsOf(disk, c)
              BY <6>2, AnchorIs, RunFits
            <7>2. 0 + 1 = 1
              OBVIOUS
            <7> QED BY <6>1, <6>3, <7>1, <7>2
          <6>5. n <= q
            <7>1. n <= Run(RowsOf(disk, c), 0) <=> (0 + 1)..n \subseteq RowsOf(disk, c)
              BY <6>2, AnchorIs, RunReaches
            <7>2. 0 + 1 = 1
              OBVIOUS
            <7> QED BY <6>1, <6>3, <7>1, <7>2
          <6>6. n = q
            <7>1. CASE q = 0
              BY <6>4, <6>5, <7>1, AnchorIs
            <7>2. CASE q # 0
              <8>1. q \in 1..q
                BY <6>4, <7>2, AnchorIs
              <8> QED BY <6>4, <6>5, <8>1, AnchorIs
            <7> QED BY <7>1, <7>2
          <6> QED BY <6>1, <6>3, <6>6
        <5>4. ASSUME NEW h \in RowsOf(disk, Other(disk.snap.c)) PROVE h <= disk.snap.h
          <6>1. Other(mem.c) \in Chains /\ Other(mem.c) # mem.c /\ h \in RowsOf(disk, Other(mem.c))
            BY <4>2, <5>1
          <6>2. PICK r \in 0..mem.base : RowsOf(disk, Other(mem.c)) = 1..r
            BY <5>1, <6>1
          <6> QED BY <1>3, <5>1, <6>1, <6>2
        <5>5. SnapshotPathFits(disk)
          BY <1>3, <5>1, <5>2, <5>3, <5>4 DEF SnapshotPathFits
        <5> QED BY <3>5, <5>5
      <4> QED BY <3>3, <4>3, <4>4
    <3> QED BY <3>4, <3>5
  <2> QED BY <1>3, <2>3, <2>4, AnchorIs
<1> QED BY <1>9, <1>10

(* What a reload brings back is the chain the tab had, at its height at    *)
(* least, once all writes are through: whichever of the three sources      *)
(* restoreFromIdb finds (node.ts 299-310), at any point of a backfill, a   *)
(* snapshot, a fast sync or the clearing of another build's stores, after  *)
(* any number of reloads that cut queued writes off, for every tip, anchor *)
(* and size of a batch. Excepted are the runs in which a write failed, a   *)
(* stale fork invalidated the snapshot, or a reload met loose rows.        *)
THEOREM ReloadsKeep == Spec => []ReloadKeeps
<1>1. Init => StoreInv /\ Reloadable
  BY StoreInductive, ReloadInductive
<1>2. StoreInv /\ Reloadable /\ [Next]_vars => (StoreInv /\ Reloadable)'
  BY StoreInductive, ReloadInductive
<1>3. StoreInv /\ Reloadable => ReloadKeeps
  BY ReloadFinds
<1> QED BY <1>1, <1>2, <1>3, PTL DEF Spec

-----------------------------------------------------------------------------
(* No write loses blocks. Beyond the books it takes that a blob is only    *)
(* removed over a complete history, that the writes which a reload owes to *)
(* a snapshot it could not use come first, and that a snapshot which sits  *)
(* on the blob's anchor is pinned there.                                   *)

HeaderOn(d) == d.head # None /\ d.snap = d.head
Under(d) == 1..Anchor \subseteq RowsOf(d, d.head.c)

BlobSpared == \A o \in Puts("head") : o.v = None => disk.head = None \/ Under(disk)
DropsFirst ==
  \A i \in 1..Len(metaq) : metaq[i].op = "snap" /\ metaq[i].v = None =>
    i = 1 /\ ~HeaderOn(disk)
PinHolds ==
  discard = "no" /\ fast = "idle" /\ HeaderOn(disk) /\ ~Under(disk) =>
    /\ \A o \in Puts("snap") : o.v = disk.head
    /\ mem.base = Anchor \/ Top <= mem.tip
    /\ writer.at = "read" => mem.base = Anchor \/ Anchor <= writer.h
WriterBelow ==
  writer.at # "idle" /\ (disk.head # None \/ fast = "head") => writer.h + Depth <= mem.tip
SnapOwners ==
  \A o \in Puts("snap") : \/ o.by = "writer" /\ writer.at = "put" /\ o.v.h = writer.h
                          \/ o.by = "none" /\ o.v = None
                          \/ o.by = "fast" /\ fast = "snap"

Spared == BlobSpared /\ DropsFirst /\ PinHolds /\ WriterBelow /\ SnapOwners
Sparing == ~harmed /\ page = "on" => Spared

(* Steps that leave the writer, the fast sync and the blob alone.          *)
LEMMA SparedAside ==
  ASSUME StoreInv, Spared, UNCHANGED <<fast, writer>>, disk'.head = disk.head,
         disk'.snap = disk.snap, disk.rows \subseteq disk'.rows,
         discard' = "no" => discard = "no", mem'.base = mem.base, mem'.tip \in Nat,
         mem.tip <= mem'.tip, NEW o \in MetaOps, metaq' = metaq \/ metaq' = Append(metaq, o),
         o.op # "snap", o.op = "head" /\ o.v = None => disk.head = None \/ Under(disk)
  PROVE  Spared'
<1>1. metaq \in Seq(MetaOps)
  BY StoreFacts
<1>2. /\ Puts("snap")' = Puts("snap")
      /\ \A x \in Puts("head")' : x \in Puts("head") \/ (x = o /\ o.op = "head")
      /\ \A i \in 1..Len(metaq') : (i \in 1..Len(metaq) /\ metaq'[i] = metaq[i]) \/ metaq'[i] = o
  <2>1. CASE metaq' = metaq
    BY <2>1 DEF Puts, Elems
  <2>2. CASE metaq' = Append(metaq, o)
    <3>1. /\ \A k : Puts(k)' = Puts(k) \cup {x \in {o} : x.op = k}
          /\ Len(metaq') = Len(metaq) + 1 /\ Len(metaq) \in Nat
          /\ \A i \in 1..Len(metaq) : metaq'[i] = metaq[i]
          /\ metaq'[Len(metaq) + 1] = o
      BY <1>1, <2>2, AfterPut
    <3>2. \A i \in 1..Len(metaq') : i \in 1..Len(metaq) \/ i = Len(metaq) + 1
      BY <3>1
    <3> QED BY <3>1, <3>2
  <2> QED BY <2>1, <2>2
<1>3. /\ HeaderOn(disk') <=> HeaderOn(disk)
      /\ Under(disk) => Under(disk')
  BY DEF HeaderOn, Under, RowsOf
<1>4. BlobSpared'
  BY <1>2, <1>3 DEF Spared, BlobSpared
<1>5. DropsFirst'
  BY <1>2, <1>3 DEF Spared, DropsFirst
<1>6. PinHolds'
  <2>1. mem.tip \in Nat /\ Top \in Nat
    BY StoreFacts, AnchorIs
  <2> QED BY <1>2, <1>3, <2>1 DEF Spared, PinHolds
<1>7. WriterBelow'
  <2> SUFFICES ASSUME writer.at # "idle", disk.head # None \/ fast = "head"
               PROVE  writer.h + Depth <= mem'.tip
    BY DEF WriterBelow
  <2>1. mem.tip \in Nat /\ Depth \in Nat /\ writer.h \in Nat
    BY StoreFacts, StoreNumbers DEF StoreInv, Held, Types, Writers
  <2> QED BY <2>1 DEF Spared, WriterBelow
<1>8. SnapOwners'
  BY <1>2 DEF Spared, SnapOwners
<1> QED BY <1>4, <1>5, <1>6, <1>7, <1>8 DEF Spared

LEMMA MetaOpsAre ==
  /\ Op("read", None, "writer") \in MetaOps /\ Op("read", None, "writer").op = "read"
  /\ Op("head", None, "none") \in MetaOps /\ Op("head", None, "none").op = "head"
  /\ Clear \in MetaOps /\ Clear.op = "clear"
  /\ MarkVersion \in MetaOps /\ MarkVersion.op = "version"
  /\ Op("snap", At(mem.c, Anchor), "fast").op = "snap"
  /\ Op("snap", At(mem.c, Anchor), "fast").by = "fast"
  /\ Op("snap", At(mem.c, Anchor), "fast").v = At(mem.c, Anchor)
  BY OpTypes DEF Op, Clear, MarkVersion, MetaOps, Owners

LEMMA StillSpared ==
  ASSUME StoreInv, On, Spared,
         \/ CommitRow \/ Extend \/ FastFails \/ StartBackfill \/ BatchStep \/ BatchEnd
         \/ DiscardVersion \/ \E bad : Batch(bad)
  PROVE  Spared'
<1> DEFINE read == Op("read", None, "writer")
<1>1. read \in MetaOps /\ read.op # "snap" /\ read.op # "head" /\ Clear \in MetaOps
      /\ Clear.op # "snap" /\ Clear.op # "head"
  BY MetaOpsAre
<1>2. /\ mem.tip \in Nat /\ disk \in Disks /\ rowq \in Seq(Rows \cup {ClearRows})
  BY StoreFacts
<1> HIDE DEF read
<1>3. CASE CommitRow
  <2>1. /\ disk' = [disk EXCEPT !.rows = @ \cup {Head(rowq)}]
        /\ UNCHANGED <<metaq, mem, fast, writer, discard>>
    BY <1>3 DEF CommitRow, tab
  <2>2. disk'.head = disk.head /\ disk'.snap = disk.snap /\ disk.rows \subseteq disk'.rows
    BY <1>2, <2>1 DEF Disks
  <2> QED BY <1>1, <1>2, <2>1, <2>2, SparedAside
<1>4. CASE Extend
  <2>1. /\ UNCHANGED <<disk, metaq, fast, writer, discard>>
        /\ mem' = [mem EXCEPT !.tip = mem.tip + 1, !.body = @ \cup {mem.tip + 1}]
    BY <1>4 DEF Extend
  <2>2. mem'.base = mem.base /\ mem'.tip = mem.tip + 1
    BY <2>1, StoreFacts DEF Memories
  <2>3. mem'.tip \in Nat /\ mem.tip <= mem'.tip
    BY <1>2, <2>2
  <2> QED BY <1>1, <2>1, <2>2, <2>3, SparedAside
<1>5. CASE FastFails \/ StartBackfill \/ \E bad : Batch(bad)
  <2>1. UNCHANGED <<disk, metaq, mem, fast, writer, discard>>
    BY <1>5 DEF FastFails, StartBackfill, Batch
  <2> QED BY <1>1, <1>2, <2>1, SparedAside
<1>6. CASE BatchStep
  <2>1. /\ UNCHANGED <<disk, fast, writer>> /\ (discard' = discard \/ discard' = "clear")
        /\ mem' = mem \/ \E b : mem' = [mem EXCEPT !.body = b]
        /\ metaq' = metaq \/ metaq' = Append(metaq, Clear)
    BY <1>6 DEF BatchStep
  <2>2. mem'.base = mem.base /\ mem'.tip = mem.tip
    BY <2>1, StoreFacts DEF Memories
  <2> QED BY <1>1, <1>2, <2>1, <2>2, SparedAside
<1>7. CASE BatchEnd
  <2> DEFINE drop == Op("head", None, "none")
  <2>1. /\ backfill.at = "work" /\ rowq = <<>>
        /\ UNCHANGED <<disk, mem, fast, writer, discard>>
        /\ metaq' = IF Missing = {} THEN Append(metaq, drop) ELSE metaq
    BY <1>7 DEF BatchEnd
  <2>2. drop \in MetaOps /\ drop.op # "snap"
    BY MetaOpsAre
  <2>3. Missing = {} => Under(disk)
    <3> SUFFICES ASSUME Missing = {} PROVE Under(disk)
      OBVIOUS
    <3>1. fast = "idle" /\ discard = "no" /\ Anchor < mem.tip
      BY <2>1, SweepAlone DEF Sweeping
    <3>2. Anchored /\ mem.body \subseteq Known(mem.c)
      BY <2>1, <3>1 DEF On, Running, BackfillAnchored, BodiesKnown
    <3>3. Known(mem.c) = RowsOf(disk, mem.c)
      BY <2>1, ElemsOfNone DEF Known, Stored, RowsOf
    <3>4. 1..mem.tip \subseteq mem.body
      BY DEF Missing
    <3>5. disk.head.c = mem.c
      BY <3>2 DEF Anchored, At
    <3>6. 1..Anchor \subseteq 1..mem.tip
      BY <1>2, <3>1, AnchorIs
    <3> QED BY <3>2, <3>3, <3>4, <3>5, <3>6 DEF Under
  <2> HIDE DEF drop
  <2>4. CASE Missing = {}
    BY <1>2, <2>1, <2>2, <2>3, <2>4, SparedAside
  <2>5. CASE Missing # {}
    BY <1>1, <1>2, <2>1, <2>5, SparedAside
  <2> QED BY <2>4, <2>5
<1>8. CASE DiscardVersion
  <2>1. /\ UNCHANGED <<disk, mem, fast, writer>> /\ discard' # "no"
        /\ metaq' = Append(metaq, MarkVersion)
    BY <1>8 DEF DiscardVersion, MarkVersion
  <2>2. MarkVersion \in MetaOps /\ MarkVersion.op # "snap" /\ MarkVersion.op # "head"
    BY MetaOpsAre
  <2> QED BY <1>2, <2>1, <2>2, SparedAside
<1> QED BY <1>3, <1>4, <1>5, <1>6, <1>7, <1>8

(* The writer starts and ends.                                             *)
LEMMA TimerSpared ==
  ASSUME StoreInv, On, Spared, SnapshotTimer
  PROVE  Spared'
<1> DEFINE read == Op("read", None, "writer")
<1>1. /\ writer.at = "idle" /\ UNCHANGED <<disk, mem, fast, discard>>
      /\ \/ writer' = writer /\ metaq' = metaq
         \/ /\ writer' = [writer EXCEPT !.at = "read", !.h = mem.tip - Depth]
            /\ metaq' = Append(metaq, read)
  BY DEF SnapshotTimer
<1>2. /\ metaq \in Seq(MetaOps) /\ mem.tip \in Nat /\ mem.tip <= mem.tip /\ Depth \in Nat
      /\ read \in MetaOps /\ read.op = "read" /\ writer \in Writers
  BY StoreFacts, MetaOpsAre, StoreNumbers DEF StoreInv, Held, Types
<1> HIDE DEF read
<1>3. CASE writer' = writer /\ metaq' = metaq
  BY <1>1, <1>2, <1>3, SparedAside
<1>4. CASE /\ writer' = [writer EXCEPT !.at = "read", !.h = mem.tip - Depth]
           /\ metaq' = Append(metaq, read)
  <2>1. writer'.at = "read" /\ writer'.h = mem.tip - Depth
    BY <1>1, <1>2, <1>4 DEF Writers
  <2>2. /\ Puts("snap")' = Puts("snap") /\ Puts("head")' = Puts("head")
        /\ \A i \in 1..Len(metaq') : (i \in 1..Len(metaq) /\ metaq'[i] = metaq[i]) \/ metaq'[i] = read
    <3>1. /\ \A k : Puts(k)' = Puts(k) \cup {x \in {read} : x.op = k}
          /\ Len(metaq') = Len(metaq) + 1 /\ Len(metaq) \in Nat
          /\ \A i \in 1..Len(metaq) : metaq'[i] = metaq[i]
          /\ metaq'[Len(metaq) + 1] = read
      BY <1>2, <1>4, AfterPut
    <3>2. \A i \in 1..Len(metaq') : i \in 1..Len(metaq) \/ i = Len(metaq) + 1
      BY <3>1
    <3> QED BY <1>2, <3>1, <3>2
  <2>3. BlobSpared'
    BY <1>1, <2>2 DEF Spared, BlobSpared, Under, RowsOf
  <2>4. DropsFirst'
    BY <1>1, <1>2, <2>2 DEF Spared, DropsFirst, HeaderOn
  <2>5. PinHolds'
    <3> SUFFICES ASSUME discard = "no", fast = "idle", HeaderOn(disk), ~Under(disk)
                 PROVE  /\ \A o \in Puts("snap") : o.v = disk.head
                        /\ mem.base = Anchor \/ Top <= mem.tip
                        /\ mem.base = Anchor \/ Anchor <= mem.tip - Depth
      BY <1>1, <2>1, <2>2 DEF PinHolds, HeaderOn, Under, RowsOf
    <3>1. Top <= mem.tip => Anchor <= mem.tip - Depth
      BY <1>2, AnchorIs
    <3> QED BY <3>1 DEF Spared, PinHolds
  <2>6. WriterBelow'
    BY <1>1, <1>2, <2>1 DEF WriterBelow
  <2>7. SnapOwners'
    BY <1>1, <2>2 DEF Spared, SnapOwners
  <2> QED BY <2>3, <2>4, <2>5, <2>6, <2>7 DEF Spared
<1> QED BY <1>1, <1>3, <1>4

LEMMA WrittenSpared ==
  ASSUME StoreInv, On, Spared, SnapshotWritten
  PROVE  Spared'
<1>1. /\ Done("writer") /\ writer' = Idle /\ writer'.at = "idle"
      /\ UNCHANGED <<disk, mem, fast, discard, metaq>>
  BY DEF SnapshotWritten, Idle
<1>2. metaq \in Seq(MetaOps)
  BY StoreFacts
<1>3. \A o \in Puts("snap") : o.by # "writer"
  BY <1>1, <1>2 DEF Done, Puts, Elems
<1>4. Puts("snap")' = Puts("snap") /\ Puts("head")' = Puts("head")
  BY <1>1 DEF Puts, Elems
<1>5. BlobSpared' /\ DropsFirst'
  BY <1>1, <1>4 DEF Spared, BlobSpared, DropsFirst, HeaderOn, Under, RowsOf
<1>6. PinHolds'
  BY <1>1, <1>4 DEF Spared, PinHolds, HeaderOn, Under, RowsOf
<1>7. WriterBelow'
  BY <1>1 DEF WriterBelow
<1>8. SnapOwners'
  BY <1>1, <1>3, <1>4 DEF Spared, SnapOwners
<1> QED BY <1>5, <1>6, <1>7, <1>8 DEF Spared

(* The fast sync.                                                          *)
LEMMA FastSpared ==
  ASSUME StoreInv, On, Spared, Fast \/ \E c \in Chains : FastSync(c)
  PROVE  Spared'
<1>1. metaq \in Seq(MetaOps)
  BY StoreFacts
<1>2. ASSUME NEW c \in Chains, FastSync(c) PROVE Spared'
  <2> DEFINE o == Op("head", At(c, Anchor), "fast")
  <2>1. /\ metaq = <<>> /\ writer.at = "idle" /\ fast' = "head" /\ metaq' = Append(metaq, o)
        /\ UNCHANGED <<disk, writer, discard>>
    BY <1>2 DEF FastSync
  <2>2. o \in MetaOps /\ o.op = "head" /\ o.v = At(c, Anchor) /\ At(c, Anchor) # None
    BY OpTypes, AnchorIs DEF Op, At, None, Owners, MetaOps
  <2> HIDE DEF o
  <2>3. /\ Elems(metaq)' = {o} /\ \A i \in 1..Len(metaq') : metaq'[i] = o
    <3>1. /\ Elems(metaq') = Elems(metaq) \cup {o} /\ Elems(metaq) = {}
          /\ Len(metaq') = Len(metaq) + 1 /\ Len(metaq) = 0
          /\ metaq'[Len(metaq) + 1] = o
      BY <1>1, <2>1, <2>2, AfterPut, ElemsOfNone
    <3> QED BY <3>1
  <2>4. Puts("snap")' = {} /\ \A x \in Puts("head")' : x.v # None
    BY <2>2, <2>3 DEF Puts
  <2>5. BlobSpared' /\ DropsFirst' /\ PinHolds' /\ WriterBelow' /\ SnapOwners'
    BY <2>1, <2>2, <2>3, <2>4 DEF BlobSpared, DropsFirst, PinHolds, WriterBelow, SnapOwners
  <2> QED BY <2>5 DEF Spared
<1>3. ASSUME FastPersist PROVE Spared'
  <2> DEFINE o == Op("snap", At(mem.c, Anchor), "fast")
  <2>1. /\ fast = "head" /\ fast' = "snap" /\ metaq' = Append(metaq, o)
        /\ UNCHANGED <<disk, mem, writer, discard>>
    BY <1>3 DEF FastPersist
  <2>2. o \in MetaOps /\ o.op = "snap" /\ o.by = "fast" /\ o.v = At(mem.c, Anchor)
        /\ At(mem.c, Anchor) # None
    <3>1. mem.c \in Chains
      BY StoreFacts
    <3>2. At(mem.c, Anchor) \in Mark /\ "fast" \in Owners
      BY <3>1, OpTypes, AnchorIs DEF Owners
    <3>3. o \in MetaOps
      BY <3>2, OpTypes
    <3>4. At(mem.c, Anchor) # None
      BY AnchorIs DEF At, None
    <3> QED BY <3>3, <3>4, MetaOpsAre
  <2> HIDE DEF o
  <2>3. /\ \A k : Puts(k)' = Puts(k) \cup {x \in {o} : x.op = k}
        /\ \A i \in 1..Len(metaq') : (i \in 1..Len(metaq) /\ metaq'[i] = metaq[i]) \/ metaq'[i] = o
    <3>1. /\ \A k : Puts(k)' = Puts(k) \cup {x \in {o} : x.op = k}
          /\ Len(metaq') = Len(metaq) + 1 /\ Len(metaq) \in Nat
          /\ \A i \in 1..Len(metaq) : metaq'[i] = metaq[i]
          /\ metaq'[Len(metaq) + 1] = o
      BY <1>1, <2>1, <2>2, AfterPut
    <3>2. \A i \in 1..Len(metaq') : i \in 1..Len(metaq) \/ i = Len(metaq) + 1
      BY <3>1
    <3> QED BY <3>1, <3>2
  <2>4. BlobSpared'
    BY <2>1, <2>2, <2>3 DEF Spared, BlobSpared, Under, RowsOf
  <2>5. DropsFirst'
    BY <2>1, <2>2, <2>3 DEF Spared, DropsFirst, HeaderOn
  <2>6. PinHolds'
    BY <2>1 DEF PinHolds
  <2>7. WriterBelow'
    BY <2>1 DEF Spared, WriterBelow
  <2>8. SnapOwners'
    BY <2>1, <2>2, <2>3 DEF Spared, SnapOwners
  <2> QED BY <2>4, <2>5, <2>6, <2>7, <2>8 DEF Spared
<1>4. ASSUME FastEnd PROVE Spared'
  <2>1. /\ fast = "snap" /\ Done("fast") /\ fast' = "idle"
        /\ UNCHANGED <<disk, metaq, mem, writer, discard>>
    BY <1>4 DEF FastEnd
  <2>2. \A o \in Puts("snap") : o.by # "fast"
    BY <1>1, <2>1 DEF Done, Puts, Elems
  <2>3. /\ mem.base = Anchor /\ disk.head = At(mem.c, Anchor)
        /\ \A o \in Puts("snap") : o.v = At(mem.c, Anchor)
    BY <2>1 DEF On, Running, FastAnchored
  <2>4. Puts("snap")' = Puts("snap") /\ Puts("head")' = Puts("head")
    BY <2>1 DEF Puts, Elems
  <2>5. BlobSpared' /\ DropsFirst'
    BY <2>1, <2>4 DEF Spared, BlobSpared, DropsFirst, HeaderOn, Under, RowsOf
  <2>6. PinHolds'
    BY <2>1, <2>3, <2>4 DEF PinHolds
  <2>7. WriterBelow'
    BY <2>1, <2>3 DEF Spared, WriterBelow
  <2>8. SnapOwners'
    BY <2>1, <2>2, <2>4 DEF Spared, SnapOwners
  <2> QED BY <2>5, <2>6, <2>7, <2>8 DEF Spared
<1> QED BY <1>2, <1>3, <1>4 DEF Fast

(* The chain is discarded: the blob has gone with the rows.                *)
LEMMA ResetSpared ==
  ASSUME StoreInv, On, Spared, DiscardReset
  PROVE  Spared'
<1>1. /\ discard = "version" /\ UNCHANGED <<disk, metaq, writer, fast>>
  BY DEF DiscardReset
<1>2. disk.head = None /\ fast = "idle"
  BY <1>1 DEF On, Running, Discarding, BeforeClear, AfterClear
<1>3. Puts("snap")' = Puts("snap") /\ Puts("head")' = Puts("head")
  BY <1>1 DEF Puts, Elems
<1>4. BlobSpared' /\ DropsFirst' /\ PinHolds' /\ WriterBelow' /\ SnapOwners'
  BY <1>1, <1>2, <1>3
     DEF Spared, BlobSpared, DropsFirst, PinHolds, WriterBelow, SnapOwners, HeaderOn
<1> QED BY <1>4 DEF Spared

(* A write to the meta store.                                              *)
LEMMA MetaSpared ==
  ASSUME StoreInv, On, Spared, CommitMeta
  PROVE  Spared'
<1> DEFINE o == Head(metaq)
           put == Op("snap", At(mem.c, writer.h), "writer")
<1>1. /\ metaq \in Seq(MetaOps) /\ metaq # <<>> /\ o \in MetaOps /\ o = metaq[1]
      /\ o \in Elems(metaq) /\ UNCHANGED <<page, mem, fast, backfill, discard>>
      /\ disk' = Committed(disk, o) /\ disk \in Disks
      /\ o.op # "read" => metaq' = Tail(metaq) /\ writer' = writer
      /\ o.op = "read" =>
           \/ metaq' = Tail(metaq) /\ writer' = Idle
           \/ /\ metaq' = Append(Tail(metaq), put) /\ writer' = [writer EXCEPT !.at = "put"]
              /\ ~Pinned(writer.h, disk.head) /\ HeldAt(writer.h)
              /\ put \in MetaOps /\ writer.h \in Heights
  <2>1. o.op # "read" => writer' = writer
    BY DEF CommitMeta
  <2>2. o.op = "read" => \/ metaq' = Tail(metaq) /\ writer' = Idle
                         \/ metaq' = Append(Tail(metaq), put) /\ writer' = [writer EXCEPT !.at = "put"]
    BY DEF CommitMeta
  <2>3. o.op = "read" /\ writer' # Idle => ~Pinned(writer.h, disk.head) /\ HeldAt(writer.h)
    BY DEF CommitMeta
  <2>4. o.op = "read" => writer.at = "read" /\ writer.h \in Heights /\ At(mem.c, writer.h) \in Mark
    BY CommitMetaParts, StoreFacts, OpTypes DEF StoreInv, Held, ReadOnce
  <2>5. "writer" \in Owners
    BY DEF Owners
  <2>6. o.op = "read" => put \in MetaOps
    BY <2>4, <2>5, OpTypes
  <2>7. o.op = "read" /\ writer' = Idle => metaq' = Tail(metaq)
    BY <2>2, <2>4 DEF CommitMeta, Idle
  <2> HIDE DEF put
  <2> QED BY <2>1, <2>2, <2>3, <2>4, <2>6, <2>7, CommitMetaParts, StoreFacts
<1>2. PICK y \in MetaOps : y.op = "snap" /\ (metaq' # Tail(metaq) => y = put)
  <2>1. PICK z \in MetaOps : z.op = "snap"
    BY OpTypes DEF Op
  <2> QED BY <1>1, <2>1 DEF Op
<1>3. metaq' = Tail(metaq) \/ metaq' = Append(Tail(metaq), y)
  BY <1>1, <1>2
<1>4. put.op = "snap" /\ put.by = "writer" /\ put.v = At(mem.c, writer.h) /\ put.v.h = writer.h
      /\ put.v.c = mem.c
  BY DEF Op, At
<1> HIDE DEF put
<1>5. /\ \A x \in Puts("head")' : x \in Puts("head")
      /\ \A x \in Puts("snap")' : x \in Puts("snap") \/ (x = put /\ metaq' # Tail(metaq))
      /\ \A i \in 1..Len(metaq') :
           \/ i \in 1..Len(metaq) /\ i + 1 \in 1..Len(metaq) /\ metaq'[i] = metaq[i + 1] /\ i \in Nat
           \/ metaq'[i] = put /\ metaq' # Tail(metaq)
      /\ o.op \in {"head", "snap"} => o \in Puts(o.op)
  <2>1. \A x \in Elems(metaq') : x \in Elems(metaq) \/ (x = put /\ metaq' # Tail(metaq))
    BY <1>1, <1>2, <1>3, AfterPop, ElemsOfTail
  <2>2. PICK t \in Seq(MetaOps) : /\ t = Tail(metaq) /\ Len(t) = Len(metaq) - 1 /\ Len(metaq) \in Nat
                                  /\ \A i \in 1..Len(t) : t[i] = metaq[i + 1] /\ i + 1 \in 1..Len(metaq)
    BY <1>1, ElemsOfTail
  <2>3. ASSUME NEW i \in 1..Len(metaq')
        PROVE  \/ i \in 1..Len(metaq) /\ i + 1 \in 1..Len(metaq) /\ metaq'[i] = metaq[i + 1] /\ i \in Nat
               \/ metaq'[i] = put /\ metaq' # Tail(metaq)
    <3>1. CASE metaq' = t
      BY <2>2, <2>3, <3>1
    <3>2. CASE metaq' = Append(t, y) /\ metaq' # t
      <4>1. /\ Len(metaq') = Len(t) + 1 /\ \A k \in 1..Len(t) : metaq'[k] = t[k]
            /\ metaq'[Len(t) + 1] = y /\ Len(t) \in Nat
        BY <3>2
      <4>2. i \in 1..Len(t) \/ i = Len(t) + 1
        BY <2>3, <4>1
      <4>3. CASE i \in 1..Len(t)
        <5>1. i \in Nat /\ i \in 1..Len(metaq)
          BY <2>2, <4>3
        <5> QED BY <2>2, <4>1, <4>3, <5>1
      <4>4. CASE i = Len(t) + 1
        BY <1>2, <2>2, <3>2, <4>1, <4>4
      <4> QED BY <4>2, <4>3, <4>4
    <3> QED BY <1>3, <2>2, <3>1, <3>2
  <2> HIDE DEF o
  <2> QED BY <1>1, <1>4, <2>1, <2>3 DEF Puts
<1>6. /\ disk'.rows = disk.rows \/ o.op = "clear"
      /\ o.op = "head" => disk'.head = o.v /\ disk'.snap = disk.snap
      /\ o.op = "snap" => disk'.snap = o.v /\ disk'.head = disk.head
      /\ o.op = "clear" => disk'.head = None
      /\ o.op \in {"version", "read"} => disk'.head = disk.head /\ disk'.snap = disk.snap
  <2> HIDE DEF o
  <2>1. CASE o.op = "head"
    <3>1. disk' = [disk EXCEPT !.head = o.v]
      BY <1>1, <2>1 DEF Committed
    <3> QED BY <1>1, <2>1, <3>1 DEF Disks
  <2>2. CASE o.op = "snap"
    <3>1. disk' = [disk EXCEPT !.snap = o.v]
      BY <1>1, <2>2 DEF Committed
    <3> QED BY <1>1, <2>2, <3>1 DEF Disks
  <2>3. CASE o.op = "version"
    <3>1. disk' = [disk EXCEPT !.version = TRUE]
      BY <1>1, <2>3 DEF Committed
    <3> QED BY <1>1, <2>3, <3>1 DEF Disks
  <2>4. CASE o.op \in {"clear", "read"}
    BY <1>1, <2>4 DEF Committed
  <2>5. o.op \in {"head", "snap", "version", "clear", "read"}
    BY <1>1 DEF MetaOps
  <2> QED BY <2>1, <2>2, <2>3, <2>4, <2>5
<1>7. o.op = "head" /\ o.v # None => fast = "head" /\ Puts("head")' = {}
  <2>1. o.op = "head" /\ o.v # None => fast = "head"
    BY <1>1 DEF On, HeadsAtAnchor, Elems
  <2>2. disk'.head \in {None, At("honest", Anchor), At("forged", Anchor)} =>
          (o.op = "head" /\ o.v # None => Puts("head")' = {})
    BY <1>1, <1>2, <1>3, HeadsAfterPop DEF On
  <2>3. o.op = "head" /\ o.v # None => o.v = At(mem.c, Anchor) /\ mem.c \in Chains
    BY <1>1, StoreFacts DEF On, HeadsAtAnchor, Elems
  <2> QED BY <1>6, <2>1, <2>2, <2>3 DEF Chains
<1>8. o.op \in {"head", "snap", "version", "clear", "read"}
  BY <1>1 DEF MetaOps
<1>9. o.op = "read" => writer.at = "read"
  BY <1>1 DEF StoreInv, Held, ReadOnce, Elems
<1>10. writer \in Writers /\ mem.tip \in Nat /\ mem.base \in Nat
  BY StoreFacts DEF StoreInv, Held, Types
<1>11. /\ writer'.h = writer.h \/ writer'.at = "idle"
       /\ writer'.at # "idle" => writer.at # "idle"
       /\ o.op = "read" => writer'.at # "read"
       /\ o.op # "read" => writer' = writer
       /\ metaq' # Tail(metaq) => o.op = "read" /\ writer'.at = "put" /\ writer'.h = writer.h
  <2> HIDE DEF o
  <2>1. CASE o.op # "read"
    BY <1>1, <2>1
  <2>2. CASE o.op = "read" /\ writer' = Idle /\ metaq' = Tail(metaq)
    <3>1. writer'.at = "idle"
      BY <2>2 DEF Idle
    <3> QED BY <2>2, <3>1
  <2>3. CASE o.op = "read" /\ writer' = [writer EXCEPT !.at = "put"]
    <3>1. writer'.at = "put" /\ writer'.h = writer.h
      BY <1>10, <2>3 DEF Writers
    <3> QED BY <1>9, <2>3, <3>1
  <2> QED BY <1>1, <2>1, <2>2, <2>3
<1> HIDE DEF o
<1>12. BlobSpared'
  <2> SUFFICES ASSUME NEW x \in Puts("head"), x.v = None, x \in Puts("head")'
               PROVE  disk'.head = None \/ Under(disk')
    BY <1>5 DEF BlobSpared
  <2>1. disk.head = None \/ Under(disk)
    BY DEF Spared, BlobSpared
  <2>2. CASE o.op = "head"
    BY <1>6, <1>7, <2>2
  <2>3. CASE o.op = "clear"
    BY <1>6, <2>3
  <2>4. CASE o.op \in {"snap", "version", "read"}
    BY <1>6, <2>1, <2>4 DEF Under, RowsOf
  <2> QED BY <1>8, <2>2, <2>3, <2>4
<1>13. DropsFirst'
  <2> SUFFICES ASSUME NEW i \in 1..Len(metaq'), metaq'[i].op = "snap", metaq'[i].v = None
               PROVE  FALSE
    BY DEF DropsFirst
  <2>1. put.v # None
    BY <1>4, StoreFacts DEF None, Chains
  <2>2. /\ i \in 1..Len(metaq) /\ i + 1 \in 1..Len(metaq) /\ metaq'[i] = metaq[i + 1]
        /\ i \in Nat
    BY <1>5, <2>1
  <2>3. i + 1 = 1
    BY <2>2 DEF Spared, DropsFirst
  <2>4. i \in 1..Len(metaq)
    BY <2>2
  <2> QED BY <2>2, <2>3, <2>4
<1>14. PinHolds'
  <2> SUFFICES ASSUME discard = "no", fast = "idle", HeaderOn(disk'), ~Under(disk')
               PROVE  /\ \A x \in Puts("snap")' : x.v = disk'.head
                      /\ mem.base = Anchor \/ Top <= mem.tip
                      /\ writer'.at = "read" => mem.base = Anchor \/ Anchor <= writer'.h
    BY <1>1 DEF PinHolds
  <2>1. o.op \in {"snap", "read"}
    <3>1. o.op # "clear" /\ o.op # "version"
      BY <1>1 DEF On, Running, Discarding, Puts
    <3>2. o.op # "head"
      BY <1>6, <1>7 DEF HeaderOn
    <3> QED BY <1>8, <3>1, <3>2
  <2>2. /\ disk'.head = disk.head /\ disk.head # None /\ ~Under(disk)
    BY <1>6, <2>1 DEF HeaderOn, Under, RowsOf
  <2>3. CASE o.op = "read"
    <3>1. HeaderOn(disk) /\ disk'.snap = disk.snap
      BY <1>6, <2>3 DEF HeaderOn
    <3>2. /\ \A x \in Puts("snap") : x.v = disk.head
          /\ mem.base = Anchor \/ Top <= mem.tip
          /\ mem.base = Anchor \/ Anchor <= writer.h
      BY <1>9, <2>2, <2>3, <3>1 DEF Spared, PinHolds
    <3>3. disk.head.h = Anchor /\ disk.head = At(disk.head.c, Anchor) /\ disk.head.c = mem.c
      BY <1>1, <2>2, <3>1, HeadIs DEF On, HeadsAtAnchor, Running, HeadOfChain, HeaderOn
    <3>4. metaq' # Tail(metaq) => put.v = disk.head
      <4> SUFFICES ASSUME metaq' # Tail(metaq) PROVE writer.h = Anchor
        BY <1>4, <3>3
      <4>1. ~Pinned(writer.h, disk.head) /\ HeldAt(writer.h) /\ writer.h \in Heights
        BY <1>1, <2>3
      <4>2. writer.h <= Anchor /\ mem.base <= writer.h
        BY <1>10, <2>2, <3>3, <4>1, AnchorIs DEF Pinned, HeldAt
      <4> QED BY <3>2, <4>1, <4>2, AnchorIs
    <3> QED BY <1>5, <1>11, <2>2, <2>3, <3>2, <3>4
  <2>4. CASE o.op = "snap"
    <3>1. o.v = disk.head /\ o.v # None /\ o \in Puts("snap") /\ metaq' = Tail(metaq)
          /\ writer' = writer
      BY <1>1, <1>5, <1>6, <2>2, <2>4 DEF HeaderOn
    <3>2. \A x \in Puts("snap")' : x \in Puts("snap")
      BY <1>5, <3>1
    <3>3. CASE HeaderOn(disk)
      BY <2>2, <3>1, <3>2, <3>3 DEF Spared, PinHolds
    <3>4. CASE ~HeaderOn(disk)
      <4>1. disk.head.h = Anchor /\ disk.head = At(disk.head.c, Anchor)
        BY <1>1, <2>2, HeadIs DEF On, HeadsAtAnchor
      <4>2. o.by = "writer" /\ writer.at = "put" /\ writer.h = Anchor
        BY <3>1, <4>1 DEF Spared, SnapOwners
      <4>3. Top <= mem.tip
        <5>1. Anchor + Depth <= mem.tip
          BY <2>2, <4>2 DEF Spared, WriterBelow
        <5> QED BY <5>1, AnchorIs, StoreNumbers
      <4>4. o.v.c = mem.c
        BY <2>2, <3>1 DEF On, Running, SnapshotsFit
      <4>5. ASSUME NEW x \in Puts("snap")' PROVE x.v = disk.head
        <5>1. x.v # None
          <6>1. PICK i \in 1..Len(metaq') : x = metaq'[i]
            BY DEF Puts, Elems
          <6>2. i + 1 \in 1..Len(metaq) /\ i \in 1..Len(metaq) /\ x = metaq[i + 1] /\ i \in Nat
            BY <1>5, <3>1, <6>1
          <6>3. x.op = "snap"
            BY DEF Puts
          <6>4. i + 1 # 1
            BY <6>2
          <6> QED BY <6>2, <6>3, <6>4 DEF Spared, DropsFirst
        <5>2. x \in Puts("snap")
          BY <3>2
        <5>3. x.v.h = Anchor
          BY <4>2, <5>1, <5>2 DEF Spared, SnapOwners
        <5>4. x.v.c = mem.c
          BY <2>2, <5>1, <5>2 DEF On, Running, SnapshotsFit
        <5>5. x \in MetaOps
          BY <1>1, <5>2, ElemsTyped DEF Puts
        <5>6. x.v \in Mark
          BY <5>5 DEF MetaOps
        <5>7. x.v = At(x.v.c, x.v.h)
          BY <5>1, <5>6 DEF Mark, At
        <5> QED BY <3>1, <4>1, <4>4, <5>3, <5>4, <5>7
      <4> QED BY <2>2, <3>1, <4>2, <4>3, <4>5
    <3> QED BY <3>3, <3>4
  <2> QED BY <2>1, <2>3, <2>4
<1>15. WriterBelow'
  <2> SUFFICES ASSUME writer'.at # "idle", disk'.head # None \/ fast = "head"
               PROVE  writer'.h + Depth <= mem.tip
    BY <1>1 DEF WriterBelow
  <2>1. disk.head # None \/ fast = "head"
    BY <1>6, <1>7, <1>8
  <2>2. writer.h + Depth <= mem.tip
    BY <1>11, <2>1 DEF Spared, WriterBelow
  <2> QED BY <1>11, <2>2
<1>16. SnapOwners'
  <2> SUFFICES ASSUME NEW x \in Puts("snap")'
               PROVE  \/ x.by = "writer" /\ writer'.at = "put" /\ x.v.h = writer'.h
                      \/ x.by = "none" /\ x.v = None
                      \/ x.by = "fast" /\ fast = "snap"
    BY <1>1 DEF SnapOwners
  <2>1. CASE x \in Puts("snap")
    <3>1. \/ x.by = "writer" /\ writer.at = "put" /\ x.v.h = writer.h
          \/ x.by = "none" /\ x.v = None
          \/ x.by = "fast" /\ fast = "snap"
      BY <2>1 DEF Spared, SnapOwners
    <3> QED BY <1>9, <1>11, <3>1
  <2>2. CASE x = put /\ metaq' # Tail(metaq)
    BY <1>4, <1>11, <2>2
  <2> QED BY <1>5, <2>1, <2>2
<1> QED BY <1>12, <1>13, <1>14, <1>15, <1>16 DEF Spared

(* A reload, and the end of the clearing of another build's stores.        *)
LEMMA LoadSpared ==
  ASSUME StoreInv, Books, Load, disk.version, ~Loose(disk)
  PROVE  Spared'
<1> DEFINE wipe == /\ disk.rows # {} /\ disk.snap # None
                   /\ ~HeaderPathFits(disk) /\ ~SnapshotPathFits(disk)
           gone == Op("snap", None, "none")
<1>1. /\ page = "off" /\ metaq' = Deletions(disk) /\ mem' = Restored(disk)
      /\ UNCHANGED <<disk, writer, fast, discard>>
  BY DEF Load
<1>2. /\ writer.at = "idle" /\ fast = "idle" /\ DiskOk(disk)
  BY <1>1 DEF Books, Away, Fresh, Idle
<1>3. disk \in Disks /\ disk.head \in {None, At("honest", Anchor), At("forged", Anchor)}
  BY StoreFacts DEF Books, HeadsAtAnchor
<1>4. HeaderOn(disk) => HeaderPathFits(disk) /\ Restored(disk).base = Anchor
  BY <1>2, <1>3, RestoredChain DEF HeaderOn
<1>5. metaq' = IF wipe THEN <<gone>> ELSE <<>>
  <2>1. disk.head # None /\ disk.snap = disk.head => HeaderPathFits(disk)
    BY <1>4 DEF HeaderOn
  <2>2. Deletions(disk) = IF /\ disk.rows # {} /\ disk.snap # None
                             /\ ~HeaderPathFits(disk) /\ ~SnapshotPathFits(disk)
                          THEN <<Op("snap", None, "none")>> ELSE <<>>
    BY <2>1, DeletionsAre
  <2> QED BY <1>1, <2>2
<1>6. gone.op = "snap" /\ gone.v = None /\ gone.by = "none"
  BY DEF Op
<1> HIDE DEF gone
<1>7. Len(<<gone>>) = 1 /\ <<gone>>[1] = gone /\ Len(<<>>) = 0
  OBVIOUS
<1>8. /\ \A i \in 1..Len(metaq') : i = 1 /\ metaq'[i] = gone /\ wipe
      /\ \A x \in Elems(metaq)' : x = gone /\ wipe
  <2>1. \A i \in 1..Len(metaq') : i = 1 /\ metaq'[i] = gone /\ wipe
    BY <1>5, <1>7
  <2> QED BY <2>1 DEF Elems
<1> HIDE DEF wipe
<1>9. BlobSpared' /\ WriterBelow' /\ SnapOwners'
  BY <1>1, <1>2, <1>6, <1>8 DEF BlobSpared, WriterBelow, SnapOwners, Puts
<1>10. DropsFirst'
  BY <1>1, <1>4, <1>8 DEF DropsFirst, HeaderOn, wipe
<1>11. PinHolds'
  <2> SUFFICES ASSUME HeaderOn(disk) PROVE PinHolds'
    BY <1>1 DEF PinHolds, HeaderOn
  <2>1. Puts("snap")' = {}
    BY <1>4, <1>8 DEF wipe, Puts
  <2> QED BY <1>1, <1>2, <1>4, <2>1 DEF PinHolds
<1> QED BY <1>9, <1>10, <1>11 DEF Spared

LEMMA ClearedSpared ==
  ASSUME StoreInv, Books, Cleared
  PROVE  Spared'
<1>1. /\ page = "clearing" /\ Done("discard") /\ UNCHANGED <<disk, metaq, writer, fast, mem>>
  BY DEF Cleared
<1>2. Clearing
  BY <1>1 DEF Books
<1>3. disk = Blank(TRUE) /\ metaq = <<>>
  <2>1. PICK a, b : a = Clear /\ b = MarkVersion /\ a.by = "discard" /\ b.by = "discard"
    <3>1. Clear.by = "discard" /\ MarkVersion.by = "discard"
      BY DEF Clear, MarkVersion, Op
    <3> QED BY <3>1
  <2>2. /\ DOMAIN <<a, b>> = 1..2 /\ <<a, b>>[1] = a /\ DOMAIN <<b>> = 1..1 /\ <<b>>[1] = b
        /\ 1 \in 1..1 /\ 1 \in 1..2
    OBVIOUS
  <2>3. metaq # <<a, b>> /\ metaq # <<b>>
    BY <1>1, <2>1, <2>2 DEF Done
  <2> QED BY <1>2, <2>1, <2>3 DEF Clearing
<1>4. /\ disk.head = None /\ writer.at = "idle" /\ Elems(metaq)' = {}
      /\ \A i : i \notin 1..Len(metaq')
  <2>1. Len(<<>>) = 0 /\ \A i : i \notin 1..0
    OBVIOUS
  <2> QED BY <1>1, <1>2, <1>3, <2>1, ElemsOfNone DEF Blank, Clearing, Idle
<1>5. BlobSpared' /\ DropsFirst' /\ PinHolds' /\ WriterBelow' /\ SnapOwners'
  BY <1>1, <1>4 DEF BlobSpared, DropsFirst, PinHolds, WriterBelow, SnapOwners, Puts, HeaderOn
<1> QED BY <1>5 DEF Spared

LEMMA SparingKept ==
  ASSUME StoreInv, Reloadable, Sparing, Next
  PROVE  Sparing'
<1> SUFFICES ASSUME ~harmed', page' = "on" PROVE Spared'
  BY DEF Sparing
<1>1. ~harmed
  <2>1. harmed => harmed'
    BY DEF Next, Load, Cleared, Gone, CommitRow, LoseRow, CommitMeta, Extend, StaleFork,
           SnapshotTimer, SnapshotWritten, FastFails, Fast, FastPersist, FastEnd, FastSync,
           Backfill, StartBackfill, Batch, BatchStep, BatchEnd, Discard, DiscardVersion,
           DiscardReset, tab
  <2> QED BY <2>1
<1>2. Books
  BY <1>1 DEF Reloadable
<1>3. ~(\E upgrade \in BOOLEAN : Gone(upgrade)) /\ ~LoseRow /\ ~StaleFork
  BY DEF Gone, LoseRow, StaleFork
<1>4. CASE page # "on"
  <2>1. CASE Load
    <3>1. disk.version /\ ~Loose(disk)
      BY <2>1 DEF Load
    <3> QED BY <1>2, <2>1, <3>1, LoadSpared
  <2>2. CASE Cleared
    BY <1>2, <2>2, ClearedSpared
  <2>3. ~CommitMeta
    BY <1>4 DEF CommitMeta
  <2> QED BY <1>2, <1>3, <1>4, <2>1, <2>2, <2>3, OtherPages
<1>5. CASE page = "on"
  <2>1. On /\ Spared
    BY <1>1, <1>2, <1>5 DEF Books, On, Sparing
  <2>2. ~Load /\ ~Cleared
    BY <1>5 DEF Load, Cleared
  <2>3. CASE \/ CommitRow \/ Extend \/ FastFails \/ StartBackfill \/ BatchStep \/ BatchEnd
             \/ DiscardVersion \/ \E bad : Batch(bad)
    BY <2>1, <2>3, StillSpared
  <2>4. CASE \/ CommitMeta \/ SnapshotTimer \/ SnapshotWritten \/ Fast \/ DiscardReset
             \/ \E c \in Chains : FastSync(c)
    BY <2>1, <2>4, MetaSpared, TimerSpared, WrittenSpared, FastSpared, ResetSpared
  <2> QED BY <1>3, <2>2, <2>3, <2>4 DEF Next, Backfill, Discard
<1> QED BY <1>4, <1>5

LEMMA SparingInductive ==
  /\ Init => Sparing
  /\ StoreInv /\ Reloadable /\ Sparing /\ [Next]_vars => Sparing'
<1>1. ASSUME Init PROVE Sparing
  BY <1>1 DEF Init, Fresh, Sparing
<1>2. ASSUME Sparing, UNCHANGED vars PROVE Sparing'
  BY <1>2 DEF vars, tab, Sparing, Spared, BlobSpared, DropsFirst, PinHolds, WriterBelow,
              SnapOwners, Puts, Elems, HeaderOn, Under, RowsOf
<1> QED BY <1>1, <1>2, SparingKept

-----------------------------------------------------------------------------
(* What a reload makes of more rows.                                       *)

(* Without the blob it is the longest run of rows from the genesis up.     *)
LEMMA BestRun ==
  ASSUME NEW d \in Disks, d.version, ~HeaderPathFits(d)
  PROVE  /\ Restored(d).tip \in 0..Limit
         /\ \E c \in Chains : 1..Restored(d).tip \subseteq RowsOf(d, c)
         /\ \A c \in Chains : \A n \in 0..Limit : 1..n \subseteq RowsOf(d, c) => n <= Restored(d).tip
<1> DEFINE reach(c) == Run(RowsOf(d, c), 0)
<1>1. ASSUME NEW c \in Chains
      PROVE  /\ reach(c) \in 0..Limit /\ 1..reach(c) \subseteq RowsOf(d, c)
             /\ \A n \in 0..Limit : 1..n \subseteq RowsOf(d, c) => n <= reach(c)
  <2>1. RowsOf(d, c) \in SUBSET Heights /\ 0 \in 0..Limit /\ 0 + 1 = 1
    BY RowsFit, AnchorIs
  <2>2. reach(c) \in 0..Limit /\ (0 + 1)..reach(c) \subseteq RowsOf(d, c)
    BY <2>1, RunFits
  <2>3. \A n \in 0..Limit : n <= reach(c) <=> (0 + 1)..n \subseteq RowsOf(d, c)
    BY <2>1, RunReaches
  <2> HIDE DEF reach
  <2> QED BY <2>1, <2>2, <2>3
<1>2. CASE SnapshotPathFits(d)
  <2>1. d.snap.c \in Chains /\ d.snap.h \in Heights
    BY <1>2 DEF SnapshotPathFits, Disks, Mark
  <2>2. Restored(d).tip = reach(d.snap.c)
    BY <1>2 DEF Restored, WithSnapshot
  <2>3. ASSUME NEW c \in Chains, NEW n \in 0..Limit, 1..n \subseteq RowsOf(d, c)
        PROVE  n <= reach(d.snap.c)
    <3>1. CASE c = d.snap.c
      BY <1>1, <2>3, <3>1
    <3>2. CASE c # d.snap.c
      <4>1. c = Other(d.snap.c)
        BY <2>1, <3>2, OtherIs
      <4>2. d.snap.h <= reach(d.snap.c)
        <5>1. d.snap.h \in 1..reach(d.snap.c)
          BY <1>2, <2>1 DEF SnapshotPathFits
        <5> HIDE DEF reach
        <5> QED BY <1>1, <2>1, <5>1, AnchorIs
      <4>3. CASE n = 0
        <5> HIDE DEF reach
        <5> QED BY <1>1, <2>1, <4>3, AnchorIs
      <4>4. CASE n # 0
        <5>1. n \in RowsOf(d, c)
          BY <2>3, <4>4, AnchorIs
        <5>2. n <= d.snap.h
          BY <1>2, <4>1, <5>1 DEF SnapshotPathFits
        <5> HIDE DEF reach
        <5> QED BY <1>1, <2>1, <4>2, <5>2, AnchorIs
      <4> QED BY <4>3, <4>4
    <3> QED BY <3>1, <3>2
  <2> HIDE DEF reach
  <2> QED BY <1>1, <2>1, <2>2, <2>3
<1>3. CASE ~SnapshotPathFits(d)
  <2>1. Restored(d) = FullReplay(d)
    BY <1>3 DEF Restored
  <2>2. Restored(d).tip = IF reach("forged") > reach("honest") THEN reach("forged") ELSE reach("honest")
    BY <2>1 DEF FullReplay
  <2>3. "forged" \in Chains /\ "honest" \in Chains /\ \A c \in Chains : c = "forged" \/ c = "honest"
    BY DEF Chains
  <2> HIDE DEF reach
  <2>4. reach("forged") \in Nat /\ reach("honest") \in Nat
    BY <1>1, <2>3, AnchorIs
  <2>5. Restored(d).tip \in {reach("forged"), reach("honest")}
        /\ reach("forged") <= Restored(d).tip /\ reach("honest") <= Restored(d).tip
    BY <2>2, <2>4
  <2>6. ASSUME NEW c \in Chains, NEW n \in 0..Limit, 1..n \subseteq RowsOf(d, c)
        PROVE  n <= Restored(d).tip
    <3>1. n <= reach(c) /\ reach(c) <= Restored(d).tip /\ reach(c) \in Nat
      BY <1>1, <2>3, <2>4, <2>5, <2>6
    <3>2. Restored(d).tip \in Nat /\ n \in Nat
      BY <2>4, <2>5, AnchorIs
    <3> QED BY <3>1, <3>2
  <2> QED BY <1>1, <2>3, <2>5, <2>6
<1> QED BY <1>2, <1>3

LEMMA RestoresMore ==
  ASSUME NEW d \in Disks, NEW e \in Disks, d.version, e.version, DiskOk(d), DiskOk(e),
         ~Loose(d), ~Loose(e), d.rows \subseteq e.rows,
         d.head \in {None, At("honest", Anchor), At("forged", Anchor)},
         e.head \in {None, At("honest", Anchor), At("forged", Anchor)},
         HeaderOn(d) /\ HeaderOn(e) => e.head = d.head,
         HeaderOn(d) /\ ~HeaderOn(e) => Under(d)
  PROVE  Restored(d).tip <= Restored(e).tip
<1>1. \A c : RowsOf(d, c) \subseteq RowsOf(e, c)
  BY DEF RowsOf
<1>2. CASE HeaderOn(d)
  <2>1. HeaderPathFits(d)
    BY <1>2, RestoredChain DEF HeaderOn
  <2>2. d.head.h = Anchor /\ d.head.c \in Chains
    BY <1>2, HeadIs DEF HeaderOn
  <2>3. PICK n : n = Restored(d).tip
    OBVIOUS
  <2>4. n \in Anchor..Limit /\ (Anchor + 1)..n \subseteq RowsOf(d, d.head.c)
    <3>1. n = Run(RowsOf(d, d.head.c), Anchor)
      BY <2>1, <2>2, <2>3 DEF Restored, WithHeaders
    <3>2. RowsOf(d, d.head.c) \in SUBSET Heights
      BY <2>2, RowsFit
    <3> QED BY <3>1, <3>2, AnchorIs, RunFits
  <2>5. n \in 0..Limit
    BY <2>4, AnchorIs
  <2>6. CASE HeaderOn(e)
    <3>1. HeaderPathFits(e) /\ Restored(e).c = d.head.c
      BY <1>2, <2>6, RestoredChain DEF HeaderOn
    <3>2. (Anchor + 1)..n \subseteq RowsOf(e, Restored(e).c)
      BY <1>1, <2>4, <3>1
    <3> QED BY <2>3, <2>5, <3>1, <3>2, RestoredReaches
  <2>7. CASE ~HeaderOn(e)
    <3>1. ~HeaderPathFits(e)
      BY <2>7, RestoredChain DEF HeaderOn
    <3>2. 1..n \subseteq RowsOf(e, d.head.c)
      <4>1. 1..Anchor \subseteq RowsOf(d, d.head.c)
        BY <1>2, <2>7 DEF Under
      <4>2. \A i \in 1..n : i \in 1..Anchor \/ i \in (Anchor + 1)..n
        BY <2>4, AnchorIs
      <4> QED BY <1>1, <2>4, <4>1, <4>2
    <3> QED BY <2>2, <2>3, <2>5, <3>1, <3>2, BestRun
  <2> QED BY <2>6, <2>7
<1>3. CASE ~HeaderOn(d)
  <2>1. ~HeaderPathFits(d)
    BY <1>3, RestoredChain DEF HeaderOn
  <2>2. PICK n \in 0..Limit, c \in Chains : n = Restored(d).tip /\ 1..n \subseteq RowsOf(d, c)
    BY <2>1, BestRun
  <2>3. 1..n \subseteq RowsOf(e, c)
    BY <1>1, <2>2
  <2>4. CASE HeaderOn(e)
    <3>1. Anchor <= Restored(e).tip /\ Restored(e).tip \in Nat
      <4>1. Restored(e) \in Memories
        BY RestoredFormed DEF WellFormed
      <4>2. Restored(e).tip \in Nat
        BY <4>1, AnchorIs DEF Memories
      <4> QED BY <2>4, <4>2, RestoredChain DEF HeaderOn
    <3>2. CASE n < Anchor
      BY <2>2, <3>1, <3>2, AnchorIs
    <3>3. CASE ~(n < Anchor)
      <4>1. Anchor \in RowsOf(e, c)
        BY <2>2, <2>3, <3>3, AnchorIs
      <4>2. Restored(e).c = c
        BY <2>2, <4>1, RestoredChain
      <4> QED BY <2>2, <2>3, <4>2, RestoredReaches
    <3> QED BY <3>2, <3>3
  <2>5. CASE ~HeaderOn(e)
    <3>1. ~HeaderPathFits(e)
      BY <2>5, RestoredChain DEF HeaderOn
    <3> QED BY <2>2, <2>3, <3>1, BestRun
  <2> QED BY <2>4, <2>5
<1> QED BY <1>2, <1>3

(* The disk in order, as a state predicate of its own.                     *)
InOrderOnDisk == page = "on" /\ ~harmed => DiskOk(disk)

LEMMA WriteKeepsBlocks ==
  ASSUME StoreInv, Reloadable, Sparing, InOrderOnDisk,
         StoreInv', Reloadable', InOrderOnDisk', [Next]_vars,
         page' = "on", Sound, Sound'
  PROVE  Restored(disk').tip >= Restored(disk).tip
<1>1. ~harmed /\ ~harmed' /\ ~Loose(disk) /\ ~Loose(disk') /\ discard = "no" /\ discard' = "no"
  BY DEF Sound, Loose, RowsOf
<1>2. disk \in Disks /\ disk' \in Disks
  <2>1. disk \in Disks
    BY StoreFacts
  <2>2. disk' \in Disks
    BY DEF StoreInv, Held, Types
  <2> QED BY <2>1, <2>2
<1>3. CASE disk' = disk
  <2>1. Restored(disk) \in Memories
    BY <1>2, RestoredFormed DEF WellFormed
  <2>2. PICK n \in Nat : n = Restored(disk).tip
    BY <2>1, AnchorIs DEF Memories
  <2> QED BY <1>3, <2>2
<1>4. CASE disk' # disk
  <2>1. CommitRow \/ CommitMeta
    BY <1>4 DEF vars, Next, Load, Cleared, Gone, LoseRow, Extend, StaleFork, SnapshotTimer,
           SnapshotWritten, FastFails, Fast, FastPersist, FastEnd, FastSync, Backfill,
           StartBackfill, Batch, BatchStep, BatchEnd, Discard, DiscardVersion, DiscardReset
  <2>2. page = "on"
    BY <2>1 DEF CommitRow, CommitMeta, tab
  <2>3. On /\ Spared /\ DiskOk(disk)
    BY <1>1, <2>2 DEF Reloadable, Books, On, Sparing, InOrderOnDisk
  <2>4. /\ disk.version /\ disk.head \in {None, At("honest", Anchor), At("forged", Anchor)}
        /\ Puts("clear") = {} /\ Puts("version") = {}
    BY <1>1, <2>3 DEF On, HeadsAtAnchor, Running, Discarding
  <2>5. /\ disk'.version /\ disk'.head \in {None, At("honest", Anchor), At("forged", Anchor)}
        /\ DiskOk(disk')
    BY <1>1 DEF Reloadable, Books, HeadsAtAnchor, Running, Discarding, InOrderOnDisk
  <2>6. /\ disk.rows \subseteq disk'.rows
        /\ HeaderOn(disk) /\ HeaderOn(disk') => disk'.head = disk.head
        /\ HeaderOn(disk) /\ ~HeaderOn(disk') => Under(disk)
    <3>1. CASE CommitRow
      <4>1. disk' = [disk EXCEPT !.rows = @ \cup {Head(rowq)}]
        BY <3>1 DEF CommitRow
      <4>2. disk'.head = disk.head /\ disk'.snap = disk.snap /\ disk.rows \subseteq disk'.rows
        BY <1>2, <4>1 DEF Disks
      <4> QED BY <4>2 DEF HeaderOn
    <3>2. CASE CommitMeta
      <4> DEFINE o == Head(metaq)
      <4>1. /\ metaq \in Seq(MetaOps) /\ metaq # <<>> /\ o \in MetaOps /\ o = metaq[1]
            /\ o \in Elems(metaq) /\ disk' = Committed(disk, o)
        BY <2>3, <3>2, CommitMetaParts
      <4>2. 1 \in 1..Len(metaq)
        BY <4>1
      <4> HIDE DEF o
      <4>3. o.op \in {"head", "snap", "read"}
        BY <2>4, <4>1 DEF MetaOps, Puts
      <4>4. CASE o.op = "read"
        BY <1>4, <4>1, <4>4 DEF Committed
      <4>5. CASE o.op = "head"
        <5>1. disk'.head = o.v /\ disk'.snap = disk.snap /\ disk'.rows = disk.rows
          <6>1. disk' = [disk EXCEPT !.head = o.v]
            BY <4>1, <4>5 DEF Committed
          <6> QED BY <1>2, <6>1 DEF Disks
        <5>2. CASE o.v = None
          <6>1. disk.head = None \/ Under(disk)
            BY <2>3, <4>1, <4>5, <5>2 DEF Spared, BlobSpared, Puts
          <6> QED BY <5>1, <5>2, <6>1 DEF HeaderOn
        <5>3. CASE o.v # None
          <6>1. o.v = At(mem.c, Anchor)
            BY <2>3, <4>1, <4>2, <4>5, <5>3 DEF On, HeadsAtAnchor
          <6>2. HeaderOn(disk) => disk.head = At(mem.c, Anchor)
            <7> SUFFICES ASSUME HeaderOn(disk) PROVE disk.head = At(mem.c, Anchor)
              OBVIOUS
            <7>1. disk.head = At(disk.head.c, Anchor)
              BY <1>2, <2>4, HeadIs DEF HeaderOn
            <7>2. disk.head.c = mem.c
              BY <2>3 DEF On, Running, HeadOfChain, HeaderOn
            <7> QED BY <7>1, <7>2
          <6> QED BY <5>1, <5>3, <6>1, <6>2 DEF HeaderOn
        <5> QED BY <5>2, <5>3
      <4>6. CASE o.op = "snap"
        <5>1. disk'.head = disk.head /\ disk'.snap = o.v /\ disk'.rows = disk.rows
          <6>1. disk' = [disk EXCEPT !.snap = o.v]
            BY <4>1, <4>6 DEF Committed
          <6> QED BY <1>2, <6>1 DEF Disks
        <5>2. o \in Puts("snap")
          BY <4>1, <4>6 DEF Puts
        <5>3. HeaderOn(disk) /\ ~Under(disk) => o.v = disk.head
          <6> SUFFICES ASSUME HeaderOn(disk), ~Under(disk) PROVE o.v = disk.head
            OBVIOUS
          <6>1. CASE fast = "idle"
            BY <1>1, <2>3, <5>2, <6>1 DEF Spared, PinHolds
          <6>2. CASE fast # "idle"
            <7>1. metaq[1] # Op("head", At(mem.c, Anchor), "fast")
              BY <4>1, <4>6 DEF Op
            <7>2. disk.head = At(mem.c, Anchor) /\ \A x \in Puts("snap") : x.v = At(mem.c, Anchor)
              BY <2>3, <6>2, <7>1 DEF On, Running, FastAnchored
            <7> QED BY <5>2, <7>2
          <6> QED BY <6>1, <6>2
        <5> QED BY <5>1, <5>3 DEF HeaderOn
      <4> QED BY <4>3, <4>4, <4>5, <4>6
    <3> QED BY <2>1, <3>1, <3>2
  <2>7. PICK d, e \in Disks : d = disk /\ e = disk'
    BY <1>2
  <2>8. Restored(d).tip <= Restored(e).tip
    BY <1>1, <2>3, <2>4, <2>5, <2>6, <2>7, RestoresMore
  <2>9. \A x \in Disks : Restored(x).tip \in Nat
    <3> SUFFICES ASSUME NEW x \in Disks PROVE Restored(x).tip \in Nat
      OBVIOUS
    <3>1. Restored(x) \in Memories
      BY RestoredFormed DEF WellFormed
    <3> QED BY <3>1, AnchorIs DEF Memories
  <2> QED BY <2>7, <2>8, <2>9
<1> QED BY <1>3, <1>4

(* No write to either store costs a later reload blocks, at any point of a *)
(* snapshot, a fast sync, a backfill or a reload: persistSnapshot's pin on *)
(* the anchor, the blob's removal after the last body, and the order of    *)
(* the two halves of a fast sync's persist see to it, for every tip,       *)
(* anchor and size of a batch, without the faults harmed records.          *)
THEOREM WritesKeepBlocks == Spec => NoWriteLosesBlocks
<1> DEFINE Inv == StoreInv /\ Reloadable /\ Sparing /\ InOrderOnDisk
<1>1. StoreInv /\ Reloadable => InOrderOnDisk
  BY RunningLeaves DEF Reloadable, Books, On, InOrderOnDisk
<1>2. Init => StoreInv /\ Reloadable /\ Sparing
  BY StoreInductive, ReloadInductive, SparingInductive
<1>3. StoreInv /\ Reloadable /\ Sparing /\ [Next]_vars => (StoreInv /\ Reloadable /\ Sparing)'
  BY StoreInductive, ReloadInductive, SparingInductive
<1>4. Inv /\ Inv' /\ [Next]_vars =>
        [page' = "on" /\ Sound /\ Sound' => Restored(disk').tip >= Restored(disk).tip]_vars
  BY WriteKeepsBlocks
<1> HIDE DEF Inv
<1>5. Spec => [](StoreInv /\ Reloadable /\ Sparing)
  BY <1>2, <1>3, PTL DEF Spec
<1>6. StoreInv /\ Reloadable /\ Sparing => Inv
  BY <1>1 DEF Inv
<1> QED BY <1>4, <1>5, <1>6, PTL DEF Spec, NoWriteLosesBlocks
==============================================================================
