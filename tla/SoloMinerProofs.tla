--------------------------- MODULE SoloMinerProofs ---------------------------
(***************************************************************************)
(* SoloSound, proved for every tree of blocks, every bound of the orphan   *)
(* map and every number of faults: the types of the solo miner and of the  *)
(* helper server it posts to, that the server forgets no parked block, and *)
(* that a clean stop saves what the chain was at the signal.               *)
(***************************************************************************)
EXTENDS SoloMiner, TLAPS, WellFoundedInduction, SequenceTheorems

-----------------------------------------------------------------------------
(* StopSaves over the whole shutdown: the chain does not shrink after the  *)
(* signal, and the last write is of a chain read after it.                 *)
SavedSinceSignal ==
  /\ mode \in {"stopping", "flushing"} => Work[tip] >= Work[owed]
  /\ mode = "flushing" => Work[saving] >= Work[owed]
  /\ StopSaves

ServerInv == ServerTypeOK /\ OrphansDrained /\ SavedSinceSignal

MinerTypeOK ==
  /\ started \in BOOLEAN
  /\ at \in {"tip", "fetch", "add", "sleep", "sleepKept", "build", "dead"}
  /\ known \subseteq Block /\ mtip \in known
  /\ template \in known \cup {NoBlock} /\ (template # NoBlock => at # "dead")
  /\ found \subseteq solved /\ posting \subseteq solved \cap known
  /\ solved \subseteq Mine
  /\ target \in Nat /\ cursor \in Nat
  /\ batch \in Seq(Block) /\ (batch # <<>> => at = "add") /\ clock \in BOOLEAN

(* A template is built only after the first sync, and only that may give up. *)
TemplateAfterSync == template # NoBlock => started

IInv == ServerInv /\ MinerTypeOK /\ TemplateAfterSync

-----------------------------------------------------------------------------
(* The tree and the sequences.                                             *)

LEMMA LeastNat ==
  ASSUME NEW S \in SUBSET Nat, S # {}
  PROVE  \E m \in S : \A k \in S : m <= k
<1> DEFINE R == {ss \in Nat \X Nat : ss[1] < ss[2]}
<1>1. IsWellFoundedOn(R, Nat)
  BY NatLessThanWellFounded DEF OpToRel
<1> HIDE DEF R
<1>2. PICK m \in S : \A k \in S : ~ (<<k, m>> \in R)
  BY <1>1, WFMin
<1>3. ASSUME NEW k \in S PROVE m <= k
  <2>1. k \in Nat /\ m \in Nat
    OBVIOUS
  <2>2. ~ (k < m)
    BY <1>2, <2>1 DEF R
  <2> QED BY <2>1, <2>2
<1> QED BY <1>3

(* A block's ancestors have every height below its own.                    *)
LEMMA EveryHeight ==
  ASSUME NEW b \in Block, NEW h \in 0..Height[b]
  PROVE  \E x \in Ancestors[b] : Height[x] = h
<1> DEFINE Bad == {c \in Block : \E k \in 0..Height[c] : \A x \in Ancestors[c] : Height[x] # k}
           S == {Height[c] : c \in Bad}
<1>1. ASSUME Bad # {} PROVE FALSE
  <2>1. S \in SUBSET Nat
    BY BlockTree
  <2>2. PICK c \in Bad : \A d \in Bad : Height[c] <= Height[d]
    <3>1. S # {}
      BY <1>1
    <3>2. PICK m \in S : \A k \in S : m <= k
      <4> HIDE DEF S
      <4> QED BY <2>1, <3>1, LeastNat
    <3> QED BY <3>2
  <2>3. PICK k \in 0..Height[c] : \A x \in Ancestors[c] : Height[x] # k
    OBVIOUS
  <2>4. c \in Block /\ c # Genesis
    BY <2>3, BlockTree
  <2> DEFINE p == Parent[c]
  <2>5. /\ p \in Block /\ Height[c] = Height[p] + 1 /\ Ancestors[c] = {c} \cup Ancestors[p]
        /\ Height[p] \in Nat
    BY <2>4, BlockTree
  <2>6. p \notin Bad
    BY <2>2, <2>5
  <2>7. k # Height[c]
    BY <2>3, <2>5
  <2>8. k \in 0..Height[p]
    BY <2>5, <2>7
  <2>9. \E x \in Ancestors[p] : Height[x] = k
    BY <2>5, <2>6, <2>8
  <2> QED BY <2>3, <2>5, <2>9
<1> QED BY <1>1

LEMMA Removed ==
  ASSUME NEW S, NEW s \in Seq(S), NEW i \in 1..Len(s)
  PROVE  /\ RemoveAt(s, i) \in Seq(S) /\ Len(RemoveAt(s, i)) = Len(s) - 1
         /\ \A k \in 1..(Len(s) - 1) :
              RemoveAt(s, i)[k] = IF k < i THEN s[k] ELSE s[k + 1]
<1> DEFINE a == SubSeq(s, 1, i - 1)
           b == SubSeq(s, i + 1, Len(s))
<1>1. Len(s) \in Nat /\ i \in Nat /\ i >= 1 /\ i <= Len(s)
  OBVIOUS
<1>2. a \in Seq(S) /\ Len(a) = i - 1 /\ \A k \in 1..(i - 1) : a[k] = s[k]
  BY <1>1, SubSeqProperties
<1>3. b \in Seq(S) /\ Len(b) = Len(s) - i /\ \A k \in 1..(Len(s) - i) : b[k] = s[i + k]
  BY <1>1, SubSeqProperties
<1> HIDE DEF a, b
<1>4. /\ a \o b \in Seq(S) /\ Len(a \o b) = Len(s) - 1
      /\ \A k \in 1..(Len(s) - 1) : (a \o b)[k] = IF k <= Len(a) THEN a[k] ELSE b[k - Len(a)]
  <2>1. /\ a \o b \in Seq(S) /\ Len(a \o b) = Len(a) + Len(b)
        /\ \A k \in 1..(Len(a) + Len(b)) :
             (a \o b)[k] = IF k <= Len(a) THEN a[k] ELSE b[k - Len(a)]
    BY <1>2, <1>3, ConcatProperties
  <2>2. Len(a) + Len(b) = Len(s) - 1
    BY <1>1, <1>2, <1>3
  <2> QED BY <2>1, <2>2
<1>5. ASSUME NEW k \in 1..(Len(s) - 1)
      PROVE  (a \o b)[k] = IF k < i THEN s[k] ELSE s[k + 1]
  <2>1. CASE k < i
    BY <1>1, <1>2, <1>4, <2>1
  <2>2. CASE ~ (k < i)
    <3> DEFINE m == k - (i - 1)
    <3>1. m \in 1..(Len(s) - i) /\ i + m = k + 1 /\ ~ (k <= i - 1)
      BY <1>1, <2>2
    <3>2. (a \o b)[k] = b[m]
      BY <1>1, <1>2, <1>4, <3>1
    <3> HIDE DEF m
    <3>3. b[m] = s[i + m]
      BY <1>3, <3>1
    <3> QED BY <2>2, <3>1, <3>2, <3>3
  <2> QED BY <2>1, <2>2
<1>6. RemoveAt(s, i) = a \o b
  BY DEF RemoveAt, a, b
<1> QED BY <1>4, <1>5, <1>6

-----------------------------------------------------------------------------
(* The server's map of parked blocks.                                      *)

Parents(s) == [i \in DOMAIN s |-> Parent[s[i]]]

(* What the map holds: one block for each parent.                          *)
MapOK(s) ==
  /\ s \in Seq(Block) /\ Len(s) <= MaxOrphans
  /\ \A i, k \in DOMAIN s : Parent[s[i]] = Parent[s[k]] => i = k

LEMMA MapOfTypes ==
  ServerTypeOK => MapOK(orphans)
BY DEF ServerTypeOK, MapOK, IsInjective

(* A block is parked in the place of the one with its parent, or at the    *)
(* end; the oldest goes when the map is full.                              *)
LEMMA ParkedOK ==
  ASSUME MapOK(orphans), NEW b \in Block
  PROVE  /\ MapOK(Parked(b))
         /\ \A i \in DOMAIN Parked(b) :
              Parked(b)[i] = b \/ \E k \in DOMAIN orphans : Parked(b)[i] = orphans[k]
<1> DEFINE kept == IF Len(orphans) >= MaxOrphans THEN Tail(orphans) ELSE orphans
           same == { i \in DOMAIN kept : Parent[kept[i]] = Parent[b] }
           q == Parked(b)
<1>1. /\ kept \in Seq(Block) /\ Len(kept) < MaxOrphans
      /\ \A i, k \in DOMAIN kept : Parent[kept[i]] = Parent[kept[k]] => i = k
      /\ \A i \in DOMAIN kept : \E k \in DOMAIN orphans : kept[i] = orphans[k]
  <2>1. CASE Len(orphans) >= MaxOrphans
    <3>1. /\ orphans \in Seq(Block) /\ Len(orphans) \in Nat \ {0} /\ Len(orphans) = MaxOrphans
          /\ DOMAIN orphans = 1..Len(orphans) /\ MaxOrphans \in Nat
      BY <2>1, ServerStoreConstants DEF MapOK
    <3> DEFINE t == Tail(orphans)
    <3>2. /\ t \in Seq(Block) /\ Len(t) = MaxOrphans - 1 /\ DOMAIN t = 1..(MaxOrphans - 1)
          /\ \A i \in 1..(MaxOrphans - 1) : i + 1 \in DOMAIN orphans /\ t[i] = orphans[i + 1]
      BY <3>1
    <3>3. kept = t
      BY <2>1
    <3> HIDE DEF t, kept
    <3>4. \A i, k \in DOMAIN t : Parent[t[i]] = Parent[t[k]] => i = k
      <4> SUFFICES ASSUME NEW i \in 1..(MaxOrphans - 1), NEW k \in 1..(MaxOrphans - 1),
                          Parent[t[i]] = Parent[t[k]]
                   PROVE  i = k
        BY <3>2
      <4> DEFINE l == i + 1
                 m == k + 1
      <4>1. l \in DOMAIN orphans /\ m \in DOMAIN orphans /\ t[i] = orphans[l] /\ t[k] = orphans[m]
        BY <3>2
      <4> HIDE DEF l, m
      <4>2. l = m
        BY <4>1 DEF MapOK
      <4> QED BY <4>2 DEF l, m
    <3> QED BY <3>1, <3>2, <3>3, <3>4
  <2>2. CASE ~ (Len(orphans) >= MaxOrphans)
    BY <2>2, ServerStoreConstants DEF MapOK
  <2> QED BY <2>1, <2>2
<1>2. q = IF same = {} THEN Append(kept, b)
          ELSE [i \in DOMAIN kept |-> IF i \in same THEN b ELSE kept[i]]
  BY DEF Parked
<1> HIDE DEF kept, q
<1>3. DOMAIN kept = 1..Len(kept) /\ Len(kept) \in Nat
  BY <1>1
<1>4. CASE same = {}
  <2>1. /\ q \in Seq(Block) /\ Len(q) = Len(kept) + 1 /\ DOMAIN q = 1..(Len(kept) + 1)
        /\ \A i \in DOMAIN q : q[i] = IF i = Len(kept) + 1 THEN b ELSE kept[i]
    BY <1>1, <1>2, <1>4
  <2>2. \A i \in DOMAIN q : i = Len(kept) + 1 \/ i \in DOMAIN kept
    BY <1>3, <2>1
  <2>3. \A i \in DOMAIN kept : Parent[kept[i]] # Parent[b]
    BY <1>4
  <2>4. \A i, k \in DOMAIN q : Parent[q[i]] = Parent[q[k]] => i = k
    BY <1>1, <2>1, <2>2, <2>3
  <2>5. Len(q) <= MaxOrphans
    BY <1>1, <1>3, <2>1, ServerStoreConstants
  <2> QED BY <1>1, <2>1, <2>2, <2>4, <2>5 DEF MapOK, q
<1>5. CASE same # {}
  <2>1. /\ q = [i \in 1..Len(kept) |-> IF i \in same THEN b ELSE kept[i]]
        /\ \A i \in 1..Len(kept) : kept[i] \in Block
    <3>1. \A i \in 1..Len(kept) : kept[i] \in Block
      BY <1>1
    <3>2. q = [i \in DOMAIN kept |-> IF i \in same THEN b ELSE kept[i]]
      BY <1>2, <1>5
    <3> HIDE DEF same
    <3> QED BY <1>3, <3>1, <3>2
  <2>2. q \in [1..Len(kept) -> Block]
    BY <2>1
  <2>3. q \in Seq(Block) /\ Len(q) = Len(kept) /\ DOMAIN q = DOMAIN kept
    BY <1>3, <2>2
  <2>4. \A i \in DOMAIN q : q[i] = IF i \in same THEN b ELSE kept[i]
    BY <1>3, <2>1
  <2>5. \A i \in DOMAIN q : Parent[q[i]] = Parent[kept[i]]
    BY <2>3, <2>4
  <2>6. \A i, k \in DOMAIN q : Parent[q[i]] = Parent[q[k]] => i = k
    BY <1>1, <2>3, <2>5
  <2>7. Len(q) <= MaxOrphans
    BY <1>1, <1>3, <2>3, ServerStoreConstants
  <2> QED BY <1>1, <2>3, <2>4, <2>6, <2>7 DEF MapOK, q
<1> QED BY <1>4, <1>5

(* A drained block leaves the map.                                         *)
LEMMA DrainedOK ==
  ASSUME MapOK(orphans), NEW i \in DOMAIN orphans, NEW q, q = RemoveAt(orphans, i)
  PROVE  /\ MapOK(q)
         /\ \A k \in DOMAIN q : \E m \in DOMAIN orphans : m # i /\ q[k] = orphans[m]
<1> DEFINE n == Len(orphans)
<1>1. orphans \in Seq(Block) /\ n \in Nat /\ DOMAIN orphans = 1..n /\ n <= MaxOrphans
  BY DEF MapOK
<1>2. /\ q \in Seq(Block) /\ Len(q) = n - 1
      /\ \A k \in 1..(n - 1) : q[k] = IF k < i THEN orphans[k] ELSE orphans[k + 1]
  BY <1>1, Removed
<1> HIDE DEF n
<1> DEFINE Was(k) == IF k < i THEN k ELSE k + 1
<1>3. DOMAIN q = 1..(n - 1)
  BY <1>2
<1>4. \A k \in DOMAIN q : Was(k) \in DOMAIN orphans /\ Was(k) # i /\ q[k] = orphans[Was(k)]
  BY <1>1, <1>2, <1>3
<1>5. \A k, m \in DOMAIN q : Was(k) = Was(m) => k = m
  BY <1>1, <1>3
<1> HIDE DEF Was
<1>6. \A k, m \in DOMAIN q : Parent[q[k]] = Parent[q[m]] => k = m
  BY <1>4, <1>5 DEF MapOK
<1>7. Len(q) <= MaxOrphans
  BY <1>1, <1>2, ServerStoreConstants
<1> QED BY <1>2, <1>4, <1>6, <1>7 DEF MapOK

-----------------------------------------------------------------------------
(* The server's steps.                                                     *)

(* POST /block: the request is answered, its block parked or being added.  *)
LEMMA PostKeeps ==
  ASSUME ServerInv, NEW c \in Client, NEW b \in Block, Post(c, b)
  PROVE  ServerInv'
<1>1. /\ UNCHANGED <<mode, held, tip, saving, disk, owed, faults>>
      /\ handlers' \in {handlers, handlers \cup {[from |-> c, posted |-> b, adding |-> b]}}
      /\ dirty' \in {dirty, TRUE}
      /\ orphans' = orphans \/ (orphans' = Parked(b) /\ Parent[b] \notin held)
  BY DEF Post, signal
<1>2. MapOK(orphans)
  BY MapOfTypes DEF ServerInv
<1>3. MapOK(orphans') /\ \A i \in DOMAIN orphans' : Parent[orphans'[i]] \notin held
  <2>1. CASE orphans' = orphans
    BY <1>2, <2>1 DEF ServerInv, OrphansDrained
  <2>2. CASE orphans' = Parked(b) /\ Parent[b] \notin held
    <3>1. /\ MapOK(Parked(b))
          /\ \A i \in DOMAIN Parked(b) :
               Parked(b)[i] = b \/ \E k \in DOMAIN orphans : Parked(b)[i] = orphans[k]
      BY <1>2, ParkedOK
    <3> QED BY <2>2, <3>1 DEF ServerInv, OrphansDrained
  <2> QED BY <1>1, <2>1, <2>2
<1>4. handlers' \subseteq [from : Client, posted : Block, adding : Block]
  <2>1. [from |-> c, posted |-> b, adding |-> b] \in [from : Client, posted : Block, adding : Block]
    OBVIOUS
  <2> QED BY <1>1, <2>1 DEF ServerInv, ServerTypeOK
<1>5. dirty' \in BOOLEAN
  BY <1>1 DEF ServerInv, ServerTypeOK
<1>6. ServerTypeOK'
  BY <1>1, <1>3, <1>4, <1>5 DEF ServerInv, ServerTypeOK, MapOK, IsInjective
<1>7. OrphansDrained'
  BY <1>1, <1>3 DEF OrphansDrained
<1>8. SavedSinceSignal'
  BY <1>1 DEF ServerInv, SavedSinceSignal, StopSaves
<1> QED BY <1>6, <1>7, <1>8 DEF ServerInv

(* addBlock is through: the block that waited for it, if any, is next.     *)
LEMMA AdmitKeeps ==
  ASSUME ServerInv, NEW h \in handlers, Admit(h)
  PROVE  ServerInv'
<1> DEFINE a == h.adding
           next == Waiting(a)
           i == CHOOSE i \in next : TRUE
<1>1. /\ Running /\ held' = held \cup {a}
      /\ tip' = IF Work[a] > Work[tip] THEN a ELSE tip
      /\ orphans' = IF next = {} THEN orphans ELSE RemoveAt(orphans, i)
      /\ handlers' = (handlers \ {h}) \cup { [h EXCEPT !.adding = orphans[k]] : k \in next }
      /\ dirty' = (dirty \/ next = {})
      /\ UNCHANGED <<mode, saving, disk, owed, faults>>
  BY DEF Admit, Drain, signal
<1>2. h \in [from : Client, posted : Block, adding : Block] /\ a \in Block
  BY DEF ServerInv, ServerTypeOK
<1>3. next \subseteq DOMAIN orphans /\ \A k \in next : Parent[orphans[k]] = a
  BY DEF Waiting
<1>4. \A k \in DOMAIN orphans : Parent[orphans[k]] = a => k \in next
  BY DEF Waiting
<1> HIDE DEF next, a
<1>5. MapOK(orphans)
  BY MapOfTypes DEF ServerInv
<1>6. MapOK(orphans') /\ \A k \in DOMAIN orphans' : Parent[orphans'[k]] \notin held \cup {a}
  <2>1. CASE next = {}
    BY <1>1, <1>4, <1>5, <2>1 DEF ServerInv, OrphansDrained
  <2>2. CASE next # {}
    <3>1. i \in next /\ i \in DOMAIN orphans
      BY <1>3, <2>2
    <3> HIDE DEF i
    <3>2. /\ MapOK(orphans')
          /\ \A k \in DOMAIN orphans' : \E m \in DOMAIN orphans : m # i /\ orphans'[k] = orphans[m]
      BY <1>1, <1>5, <2>2, <3>1, DrainedOK
    <3>3. \A m \in DOMAIN orphans : m # i => Parent[orphans[m]] # a
      BY <1>3, <1>4, <1>5, <3>1 DEF MapOK
    <3> QED BY <3>2, <3>3 DEF ServerInv, OrphansDrained
  <2> QED BY <2>1, <2>2
<1>7. handlers' \subseteq [from : Client, posted : Block, adding : Block]
  <2>1. \A k \in next : orphans[k] \in Block
    BY <1>3, <1>5 DEF MapOK
  <2>2. \A x \in Block : [h EXCEPT !.adding = x] \in [from : Client, posted : Block, adding : Block]
    BY <1>2
  <2> QED BY <1>1, <2>1, <2>2 DEF ServerInv, ServerTypeOK
<1>8. /\ tip' \in held' /\ held' \subseteq Block /\ Work[tip'] >= Work[tip]
      /\ dirty' \in BOOLEAN
  <2>1. tip \in held /\ held \subseteq Block
    BY DEF ServerInv, ServerTypeOK
  <2>2. Work[tip] \in Nat /\ Work[a] \in Nat
    BY <1>2, <2>1, BlockTree
  <2>3. tip' \in held' /\ held' \subseteq Block /\ Work[tip'] >= Work[tip]
    BY <1>1, <1>2, <2>1, <2>2
  <2>4. dirty' \in BOOLEAN
    BY <1>1, Zenon
  <2> QED BY <2>3, <2>4
<1>9. ServerTypeOK'
  <2>1. IsInjective([k \in DOMAIN orphans |-> Parent[orphans[k]]])'
    BY <1>6 DEF MapOK, IsInjective
  <2>2. Len(orphans)' <= MaxOrphans /\ (orphans \in Seq(Block))'
    BY <1>6 DEF MapOK
  <2>3. /\ mode \in {"up", "stopping", "flushing", "down", "stopped"} /\ disk \in Block
        /\ saving \in Block \cup {NoBlock} /\ (mode = "flushing" => saving # NoBlock)
        /\ owed \in Block /\ faults \in 0..MaxFaults
    BY DEF ServerInv, ServerTypeOK
  <2> QED BY <1>1, <1>7, <1>8, <2>1, <2>2, <2>3 DEF ServerTypeOK
<1>10. OrphansDrained'
  BY <1>1, <1>6 DEF OrphansDrained
<1>11. SavedSinceSignal'
  <2>1. tip \in Block /\ tip' \in Block /\ owed \in Block
    BY <1>8 DEF ServerInv, ServerTypeOK
  <2>2. Work[tip] \in Nat /\ Work[tip'] \in Nat /\ Work[owed] \in Nat
    BY <2>1, BlockTree
  <2> QED BY <1>1, <1>8, <2>2 DEF ServerInv, SavedSinceSignal, StopSaves
<1> QED BY <1>9, <1>10, <1>11 DEF ServerInv

LEMMA RefuseKeeps ==
  ASSUME ServerInv, NEW h \in handlers, Refuse(h)
  PROVE  ServerInv'
BY DEF Refuse, signal, ServerInv, ServerTypeOK, OrphansDrained, SavedSinceSignal, StopSaves

(* Writes, the signal, crashes and starts.                                 *)
LEMMA StoreKeeps ==
  ASSUME ServerInv,
         \/ FlushStart \/ FlushDone \/ FlushFails
         \/ Signal \/ FlushLast \/ GiveUpFlush \/ Crash \/ Start \/ Upgrade
  PROVE  ServerInv'
<1> USE DEF memory, store, signal
<1>0. /\ Work[tip] \in Nat /\ Work[owed] \in Nat /\ tip \in Block /\ NoBlock \notin Block
      /\ faults \in 0..MaxFaults /\ MaxFaults \in Nat
  BY BlockTree, ServerStoreConstants DEF ServerInv, ServerTypeOK
<1>1. Fault => faults' \in 0..MaxFaults
  BY <1>0 DEF Fault
<1>2. ASSUME FlushStart PROVE ServerInv'
  BY <1>0, <1>2 DEF FlushStart, ServerInv, ServerTypeOK, OrphansDrained, SavedSinceSignal, StopSaves
<1>3. ASSUME FlushDone PROVE ServerInv'
  BY <1>0, <1>3 DEF FlushDone, ServerInv, ServerTypeOK, OrphansDrained, SavedSinceSignal, StopSaves, Running
<1>4. ASSUME FlushFails PROVE ServerInv'
  BY <1>0, <1>1, <1>4 DEF FlushFails, DirtyAfterFailure, Running, ServerInv, ServerTypeOK,
                          OrphansDrained, SavedSinceSignal, StopSaves
<1>5. ASSUME Signal PROVE ServerInv'
  BY <1>0, <1>1, <1>5 DEF Signal, ServerInv, ServerTypeOK, OrphansDrained, SavedSinceSignal, StopSaves
<1>6. ASSUME FlushLast PROVE ServerInv'
  BY <1>0, <1>6 DEF FlushLast, LastFlush, ServerInv, ServerTypeOK, OrphansDrained, SavedSinceSignal, StopSaves
<1>7. ASSUME GiveUpFlush PROVE ServerInv'
  BY <1>0, <1>7 DEF GiveUpFlush, ServerInv, ServerTypeOK, OrphansDrained, SavedSinceSignal, StopSaves
<1>8. ASSUME Crash PROVE ServerInv'
  BY <1>0, <1>1, <1>8 DEF Crash, ServerInv, ServerTypeOK, OrphansDrained, SavedSinceSignal, StopSaves
<1>9. ASSUME NEW file \in Block, Boot(file) PROVE ServerInv'
  <2>1. /\ mode' = "up" /\ disk' = file /\ held' = Ancestors[file] /\ tip' = file
        /\ orphans' = <<>> /\ handlers' = {} /\ dirty' = FALSE /\ saving' = NoBlock
        /\ owed' = Genesis /\ UNCHANGED faults
    BY <1>9 DEF Boot
  <2>2. file \in Ancestors[file] /\ Ancestors[file] \subseteq Block /\ Genesis \in Block
    BY BlockTree
  <2>3. <<>> \in Seq(Block) /\ Len(<<>>) = 0 /\ DOMAIN <<>> = {}
    OBVIOUS
  <2>4. ServerTypeOK'
    <3>1. IsInjective([i \in DOMAIN orphans |-> Parent[orphans[i]]])'
      BY <2>1, <2>3 DEF IsInjective
    <3>2. Len(orphans)' <= MaxOrphans /\ (orphans \in Seq(Block))'
      BY <2>1, <2>3, ServerStoreConstants
    <3> QED BY <1>0, <2>1, <2>2, <3>1, <3>2 DEF ServerTypeOK
  <2> QED BY <2>1, <2>3, <2>4 DEF ServerInv, OrphansDrained, SavedSinceSignal, StopSaves
<1>10. disk \in Block /\ Genesis \in Block
  BY BlockTree DEF ServerInv, ServerTypeOK
<1> QED BY <1>2, <1>3, <1>4, <1>5, <1>6, <1>7, <1>8, <1>9, <1>10 DEF Start, Upgrade

LEMMA ServerStepKeeps ==
  ASSUME ServerInv, ServerNext
  PROVE  ServerInv'
BY AdmitKeeps, RefuseKeeps, StoreKeeps DEF ServerNext, Serve

-----------------------------------------------------------------------------
(* The miner's steps.                                                      *)

LEMMA MinerFacts ==
  ASSUME IInv
  PROVE  /\ mtip \in Block /\ tip \in Block /\ known \subseteq Block /\ Mine \subseteq Block
         /\ Height[mtip] \in Nat /\ Height[tip] \in Nat
         /\ PullMax \in Nat \ {0} /\ Lookback \in Nat /\ NoBlock \notin Block
         /\ <<>> \in Seq(Block)
BY BlockTree, SoloMinerConstants, SMTT(30)
   DEF IInv, ServerInv, ServerTypeOK, MinerTypeOK

LEMMA MinusIsNat ==
  ASSUME NEW a \in Nat, NEW b \in Nat
  PROVE  Minus(a, b) \in Nat
BY DEF Minus

LEMMA LearnKeeps ==
  ASSUME IInv, NEW b \in Block, Learn(b)
  PROVE  known' = known \cup {b} /\ known' \subseteq Block /\ mtip' \in known'
BY DEF Learn, IInv, MinerTypeOK

(* sync: what it goes on with.                                             *)
LEMMA PullKeeps ==
  ASSUME IInv, NEW height \in Nat, NEW top \in Nat, PullFrom(height, top)
  PROVE  /\ at' \in {"fetch", "build"} /\ batch' = <<>>
         /\ target' \in Nat /\ cursor' \in Nat
BY DEF PullFrom, EndSync, LeaveSync

(* GET /blocks: the batch is a run of the server's chain.                  *)
LEMMA FetchKeeps ==
  ASSUME IInv, Fetch
  PROVE  MinerTypeOK'
<1> DEFINE top == Least(Height[tip], cursor + PullMax - 1)
           Pulled(i) == CHOOSE b \in Ancestors[tip] : Height[b] = cursor + i - 1
<1>1. /\ at = "fetch"
      /\ top < cursor => EndSync
      /\ ~ (top < cursor) => /\ at' = "add" /\ UNCHANGED <<target, cursor>>
                            /\ batch' = [i \in 1..(top - cursor + 1) |-> Pulled(i)]
      /\ UNCHANGED <<started, known, mtip, template, found, posting, solved, clock>>
  BY DEF Fetch, tree, grinding
<1>0. /\ cursor \in Nat /\ target \in Nat /\ Height[tip] \in Nat /\ PullMax \in Nat
      /\ tip \in Block /\ <<>> \in Seq(Block)
  BY MinerFacts DEF IInv, MinerTypeOK
<1>2. top \in Int /\ top <= Height[tip]
  BY <1>0 DEF Least
<1> HIDE DEF top
<1>3. CASE top < cursor
  <2>1. at' = "build" /\ batch' = <<>> /\ target' = 0 /\ cursor' = 0
    BY <1>1, <1>3 DEF EndSync, LeaveSync
  <2> QED BY <1>0, <1>1, <2>1 DEF IInv, MinerTypeOK
<1>4. CASE ~ (top < cursor)
  <2>1. \A i \in 1..(top - cursor + 1) : Pulled(i) \in Block
    <3> SUFFICES ASSUME NEW i \in 1..(top - cursor + 1) PROVE Pulled(i) \in Block
      OBVIOUS
    <3>1. cursor + i - 1 \in 0..Height[tip]
      BY <1>0, <1>2
    <3>2. \E b \in Ancestors[tip] : Height[b] = cursor + i - 1
      BY <1>0, <3>1, EveryHeight
    <3>3. Pulled(i) \in Ancestors[tip]
      BY <3>2
    <3> HIDE DEF Pulled
    <3> QED BY <1>0, <3>3, BlockTree
  <2> HIDE DEF Pulled
  <2>2. top - cursor + 1 \in Nat
    BY <1>0, <1>2, <1>4
  <2>3. batch' \in Seq(Block)
    <3> DEFINE n == top - cursor + 1
               s == [i \in 1..n |-> Pulled(i)]
    <3>1. s \in [1..n -> Block]
      BY <2>1
    <3>2. batch' = s
      BY <1>1, <1>4
    <3> HIDE DEF n, s
    <3> QED BY <2>2, <3>1, <3>2, SeqDef DEF n
  <2>4. at' = "add" /\ target' \in Nat /\ cursor' \in Nat
    BY <1>0, <1>1, <1>4
  <2> QED BY <1>1, <2>3, <2>4 DEF IInv, MinerTypeOK
<1> QED BY <1>3, <1>4

(* One block of a batch.                                                   *)
LEMMA AddKeeps ==
  ASSUME IInv, AddPulled
  PROVE  MinerTypeOK'
<1> DEFINE b == Head(batch)
<1>1. /\ at = "add" /\ batch # <<>> /\ UNCHANGED <<started, template, found, posting, solved, clock>>
      /\ \/ /\ Learn(b)
            /\ \/ Len(batch) > 1 /\ batch' = Tail(batch) /\ UNCHANGED <<at, target, cursor>>
               \/ PullFrom(Height[b] + 1, target)
         \/ EndSync /\ UNCHANGED tree
         \/ PullFrom(StepBack(cursor), target) /\ UNCHANGED tree
  BY DEF AddPulled, grinding
<1>2. /\ b \in Block /\ Tail(batch) \in Seq(Block) /\ target \in Nat /\ cursor \in Nat
      /\ batch \in Seq(Block)
  <2>1. batch \in Seq(Block) /\ target \in Nat /\ cursor \in Nat
    BY DEF IInv, MinerTypeOK
  <2>2. batch # <<>>
    BY <1>1
  <2> QED BY <2>1, <2>2
<1> HIDE DEF b
<1>3. Height[b] + 1 \in Nat /\ StepBack(cursor) \in Nat
  <2>1. Height[b] \in Nat /\ PullMax \in Nat
    BY <1>2, BlockTree, SoloMinerConstants
  <2>2. cursor \in Nat
    BY <1>2
  <2>3. Minus(cursor, PullMax) \in Nat
    BY <2>1, <2>2, MinusIsNat
  <2> QED BY <2>1, <2>3 DEF StepBack
<1>4. known \subseteq known' /\ known' \subseteq Block /\ mtip' \in known'
  BY <1>1, <1>2, LearnKeeps DEF tree, IInv, MinerTypeOK
<1>5. /\ at' \in {"fetch", "build", "add"} /\ batch' \in Seq(Block) /\ (batch' # <<>> => at' = "add")
      /\ target' \in Nat /\ cursor' \in Nat
  <2>1. CASE batch' = Tail(batch) /\ UNCHANGED <<at, target, cursor>>
    BY <1>1, <1>2, <2>1
  <2>2. CASE PullFrom(Height[b] + 1, target)
    BY <1>2, <1>3, <2>2, PullKeeps, MinerFacts
  <2>3. CASE EndSync
    BY <2>3, MinerFacts DEF EndSync, LeaveSync
  <2>4. CASE PullFrom(StepBack(cursor), target)
    BY <1>2, <1>3, <2>4, PullKeeps, MinerFacts
  <2> QED BY <1>1, <2>1, <2>2, <2>3, <2>4
<1> QED BY <1>1, <1>4, <1>5 DEF IInv, MinerTypeOK

(* The other steps of the main loop and of the native events.              *)
LEMMA MinerKeeps ==
  ASSUME IInv,
         \/ MainLoop \/ Exhausted \/ TimePasses
         \/ \E b \in Mine : Solve(b) \/ Finish(b) \/ Submit(b) \/ SubmitLost(b)
  PROVE  MinerTypeOK'
<1>0. /\ Height[tip] \in Nat /\ Minus(Height[mtip] + 1, Lookback) \in Nat
      /\ <<>> \in Seq(Block) /\ Mine \subseteq Block
  <2>1. Height[mtip] + 1 \in Nat /\ Lookback \in Nat
    BY MinerFacts
  <2>2. Minus(Height[mtip] + 1, Lookback) \in Nat
    BY <2>1, MinusIsNat
  <2> QED BY <2>2, MinerFacts
<1>1. ASSUME Build PROVE MinerTypeOK'
  BY <1>1 DEF Build, IInv, MinerTypeOK, tree, pull
<1>2. ASSUME WakeUp PROVE MinerTypeOK'
  BY <1>2 DEF WakeUp, IInv, MinerTypeOK, tree, grinding, pull
<1>3. ASSUME GetBestTip PROVE MinerTypeOK'
  <2>1. /\ PullFrom(Minus(Height[mtip] + 1, Lookback), Height[tip])
        /\ UNCHANGED <<started, known, mtip, template, found, posting, solved, clock>>
    BY <1>3 DEF GetBestTip, tree, grinding
  <2>2. at' \in {"fetch", "build"} /\ batch' = <<>> /\ target' \in Nat /\ cursor' \in Nat
    BY <1>0, <2>1, PullKeeps
  <2> QED BY <1>0, <2>1, <2>2 DEF IInv, MinerTypeOK
<1>4. ASSUME Unreachable PROVE MinerTypeOK'
  <2>1. /\ at' \in {"build", "dead"} /\ (at' = "dead" => ~ started) /\ batch' = <<>>
        /\ target' = 0 /\ cursor' = 0
        /\ UNCHANGED <<started, known, mtip, template, found, posting, solved, clock>>
    BY <1>4 DEF Unreachable, LeaveSync, tree, grinding
  <2> QED BY <1>0, <2>1 DEF IInv, MinerTypeOK, TemplateAfterSync
<1>5. ASSUME Exhausted PROVE MinerTypeOK'
  BY <1>5 DEF Exhausted, IInv, MinerTypeOK, tree, pull
<1>6. ASSUME TimePasses PROVE MinerTypeOK'
  BY <1>6 DEF TimePasses, IInv, MinerTypeOK, tree, grinding, pull
<1>7. ASSUME NEW b \in Mine, Solve(b) PROVE MinerTypeOK'
  BY <1>7 DEF Solve, IInv, MinerTypeOK, tree, pull
<1>8. ASSUME NEW b \in Mine, Finish(b) PROVE MinerTypeOK'
  <2>1. b \in Block
    BY <1>0
  <2>2. /\ b \in found /\ found' = found \ {b} /\ posting' = posting \cup {b} /\ Learn(b)
        /\ UNCHANGED <<started, at, template, solved, target, cursor, batch, clock>>
    BY <1>8 DEF Finish, pull
  <2>3. known' = known \cup {b} /\ known' \subseteq Block /\ mtip' \in known'
    BY <2>1, <2>2, LearnKeeps
  <2>4. /\ found \subseteq solved /\ posting \subseteq solved \cap known /\ solved \subseteq Mine
        /\ template \in known \cup {NoBlock} /\ (template # NoBlock => at # "dead")
        /\ at \in {"tip", "fetch", "add", "sleep", "sleepKept", "build", "dead"}
        /\ target \in Nat /\ cursor \in Nat /\ started \in BOOLEAN /\ clock \in BOOLEAN
        /\ batch \in Seq(Block) /\ (batch # <<>> => at = "add")
    BY DEF IInv, MinerTypeOK
  <2>5. found' \subseteq solved' /\ posting' \subseteq solved' \cap known'
    BY <2>2, <2>3, <2>4
  <2>6. template' \in known' \cup {NoBlock}
    BY <2>2, <2>3, <2>4
  <2> QED BY <2>2, <2>3, <2>4, <2>5, <2>6 DEF MinerTypeOK
<1>9. ASSUME NEW b \in Mine, Submit(b) PROVE MinerTypeOK'
  BY <1>9 DEF Submit, IInv, MinerTypeOK, tree, pull
<1>10. ASSUME NEW b \in Mine, SubmitLost(b) PROVE MinerTypeOK'
  BY <1>10 DEF SubmitLost, IInv, MinerTypeOK, tree, pull
<1> QED BY <1>1, <1>2, <1>3, <1>4, <1>5, <1>6, <1>7, <1>8, <1>9, <1>10, FetchKeeps, AddKeeps
        DEF MainLoop

LEMMA TemplateKeeps ==
  ASSUME IInv, [Next]_vars
  PROVE  TemplateAfterSync'
BY DEF IInv, TemplateAfterSync, Next, MainLoop, Build, WakeUp, GetBestTip, Fetch, AddPulled,
       Unreachable, Solve, Finish, Submit, SubmitLost, Exhausted, OtherPosts, TimePasses,
       grinding, minerVars, vars

-----------------------------------------------------------------------------
(* The two together.                                                       *)

LEMMA UnchangedServer ==
  ASSUME ServerInv, UNCHANGED <<mode, held, tip, orphans, handlers, dirty, saving, disk, owed>>,
         faults' \in 0..MaxFaults
  PROVE  ServerInv'
BY DEF ServerInv, ServerTypeOK, OrphansDrained, SavedSinceSignal, StopSaves

LEMMA InitInv == Init => IInv
<1> SUFFICES ASSUME Init PROVE IInv
  OBVIOUS
<1>1. /\ mode = "down" /\ held = {Genesis} /\ tip = Genesis /\ orphans = <<>>
      /\ handlers = {} /\ dirty = FALSE /\ saving = NoBlock /\ disk = Genesis
      /\ owed = Genesis /\ faults = 0
  BY DEF Init, ServerInit
<1>2. <<>> \in Seq(Block) /\ Len(<<>>) = 0 /\ DOMAIN <<>> = {}
  OBVIOUS
<1>3. ServerTypeOK
  <2>1. IsInjective([i \in DOMAIN orphans |-> Parent[orphans[i]]])
    BY <1>1, <1>2 DEF IsInjective
  <2>2. /\ Len(orphans) <= MaxOrphans /\ orphans \in Seq(Block) /\ 0 \in 0..MaxFaults
        /\ Genesis \in Block
    BY <1>1, <1>2, BlockTree, ServerStoreConstants
  <2> QED BY <1>1, <2>1, <2>2 DEF ServerTypeOK
<1>4. ServerInv
  BY <1>1, <1>2, <1>3 DEF ServerInv, OrphansDrained, SavedSinceSignal, StopSaves
<1>5. MinerTypeOK
  BY <1>2, BlockTree DEF Init, MinerTypeOK
<1> QED BY <1>4, <1>5 DEF IInv, TemplateAfterSync, Init

LEMMA NextKeeps ==
  ASSUME IInv, [Next]_vars
  PROVE  IInv'
<1> SUFFICES ServerInv' /\ MinerTypeOK'
  BY TemplateKeeps DEF IInv
<1> USE DEF serverVars, memory, store, signal, serverButFaults
<1>0. faults \in 0..MaxFaults /\ (Fault => faults' \in 0..MaxFaults) /\ ServerInv
  BY ServerStoreConstants DEF IInv, ServerInv, ServerTypeOK, Fault
<1>1. ASSUME MainLoop PROVE ServerInv' /\ MinerTypeOK'
  <2>1. UNCHANGED <<mode, held, tip, orphans, handlers, dirty, saving, disk, owed>>
    BY <1>1 DEF MainLoop, Build, WakeUp, GetBestTip, Fetch, AddPulled, Unreachable
  <2>2. faults' = faults \/ Fault
    BY <1>1 DEF MainLoop, Build, WakeUp, GetBestTip, Fetch, AddPulled, Unreachable
  <2> QED BY <1>0, <1>1, <2>1, <2>2, UnchangedServer, MinerKeeps DEF IInv
<1>2. ASSUME NEW b \in Mine, Solve(b) \/ Finish(b) \/ SubmitLost(b) PROVE ServerInv' /\ MinerTypeOK'
  <2>1. UNCHANGED serverVars
    BY <1>2 DEF Solve, Finish, SubmitLost
  <2> QED BY <1>0, <1>2, <2>1, UnchangedServer, MinerKeeps DEF IInv
<1>3. ASSUME NEW b \in Mine, Submit(b) PROVE ServerInv' /\ MinerTypeOK'
  <2>1. Post("solo", b) /\ "solo" \in Client /\ b \in Block
    BY <1>3, SoloMinerConstants DEF Submit
  <2> QED BY <1>0, <1>3, <2>1, PostKeeps, MinerKeeps DEF IInv
<1>4. ASSUME Exhausted \/ TimePasses PROVE ServerInv' /\ MinerTypeOK'
  <2>1. /\ UNCHANGED <<mode, held, tip, orphans, handlers, dirty, saving, disk, owed>>
        /\ faults' = faults \/ Fault
    BY <1>4 DEF Exhausted, TimePasses
  <2> QED BY <1>0, <1>4, <2>1, UnchangedServer, MinerKeeps DEF IInv
<1>5. ASSUME NEW b \in Block, OtherPosts(b) PROVE ServerInv' /\ MinerTypeOK'
  <2>1. Post("net", b) /\ "net" \in Client /\ UNCHANGED minerVars
    BY <1>5, SoloMinerConstants DEF OtherPosts
  <2>2. MinerTypeOK'
    BY <2>1 DEF IInv, MinerTypeOK, minerVars, tree, grinding, pull
  <2> QED BY <1>0, <2>1, <2>2, PostKeeps DEF IInv
<1>6. ASSUME ServerNext, UNCHANGED minerVars PROVE ServerInv' /\ MinerTypeOK'
  <2>1. MinerTypeOK'
    BY <1>6 DEF IInv, MinerTypeOK, minerVars, tree, grinding, pull
  <2> QED BY <1>0, <1>6, <2>1, ServerStepKeeps DEF IInv
<1>7. ASSUME UNCHANGED vars PROVE ServerInv' /\ MinerTypeOK'
  <2>1. UNCHANGED serverVars /\ UNCHANGED minerVars
    BY <1>7 DEF vars
  <2>2. MinerTypeOK'
    BY <2>1 DEF IInv, MinerTypeOK, minerVars, tree, grinding, pull
  <2> QED BY <1>0, <2>1, <2>2, UnchangedServer DEF IInv
<1> QED BY <1>1, <1>2, <1>3, <1>4, <1>5, <1>6, <1>7 DEF Next

(* Both programs keep their types; no block stays parked whose parent the  *)
(* server has; a server that was stopped and could write saved a chain at  *)
(* least as heavy as the one it had when the signal came.                  *)
THEOREM SoloIsSound == Spec => []SoloSound
<1>1. IInv => SoloSound
  BY DEF IInv, ServerInv, SavedSinceSignal, MinerTypeOK, SoloSound, TypeOK, ServerKeeps
<1>2. IInv /\ [Next]_vars => IInv'
  BY NextKeeps
<1> QED BY InitInv, <1>1, <1>2, PTL DEF Spec
=============================================================================
