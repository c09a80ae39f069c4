--------------------------- MODULE PoolClientProofs ---------------------------
(***************************************************************************)
(* Two components, the second of which drives the first.                   *)
(*                                                                         *)
(* The native process, under any client, for every number of threads,      *)
(* lanes and jobs, every size of the nonce space, and any offset, end and  *)
(* stride a job may have: what is reported exhausted was hashed, all of    *)
(* it, and its solutions reported. No constant, assumption or variable of  *)
(* PoolClient occurs in this part.                                         *)
(*                                                                         *)
(* The pool client and the process it drives stay in step, what is posted  *)
(* is what was hashed, a slot is given up only when all of it is done, and *)
(* none is ground twice: proved for every number of threads, lanes, jobs   *)
(* and registrations, every slot, and any order of what the pool, the      *)
(* threads and the network do.                                             *)
(***************************************************************************)
EXTENDS PoolClient, TLAPS, WellFoundedInduction, FiniteSetTheorems, SequenceTheorems

-----------------------------------------------------------------------------
(* The native process.                                                     *)

-----------------------------------------------------------------------------
(* Numbers.                                                                *)

(* A set of numbers that is not empty has a least element.                 *)
LEMMA LeastNumber ==
  ASSUME NEW S \in SUBSET Nat, S # {}
  PROVE  \E m \in S : \A k \in S : m <= k
<1> DEFINE R == {ss \in Nat \X Nat : ss[1] < ss[2]}
<1>1. IsWellFoundedOn(R, Nat)
  BY NatLessThanWellFounded DEF OpToRel
<1> HIDE DEF R
<1>2. PICK m \in S : \A k \in S : ~ (<<k, m>> \in R)
  BY <1>1, WFMin
<1>3. ASSUME NEW k \in S PROVE m <= k
  <2>1. k \in Nat /\ m \in Nat
    OBVIOUS
  <2>2. ~ (k < m)
    BY <1>2, <2>1 DEF R
  <2> QED BY <2>1, <2>2
<1> QED BY <1>3

LEMMA Quotient ==
  ASSUME NEW a \in Int, NEW b \in Int, b > 0
  PROVE  \E q \in Int : a = q * b + (a % b)
  BY SMTT(30)

(* What is left of a number modulo b.                                      *)
LEMMA Remainder ==
  ASSUME NEW a \in Nat, NEW b \in Nat \ {0}
  PROVE  a % b \in 0..(b - 1) /\ \E q \in Nat : a = q * b + (a % b)
<1> DEFINE r == a % b
<1>1. r \in 0..(b - 1)
  BY SMT
<1>2. PICK q \in Int : a = q * b + r
  <2>1. a \in Int /\ b \in Int /\ b > 0
    BY SMT
  <2> QED BY <2>1, Quotient, Zenon
<1> HIDE DEF r
<1>3. q >= 0
  <2> SUFFICES ASSUME q <= -1 PROVE FALSE
    BY SMT
  <2>1. q * b <= -b
    BY SMTT(30)
  <2>2. q * b \in Int
    BY SMT
  <2> QED BY <1>1, <1>2, <2>1, <2>2
<1>4. q \in Nat
  BY <1>3
<1> QED BY <1>1, <1>2, <1>4 DEF r

LEMMA RemainderUnique ==
  ASSUME NEW a \in Nat, NEW b \in Nat \ {0}, NEW q \in Nat, NEW r \in 0..(b - 1),
         a = q * b + r
  PROVE  a % b = r
  BY SMTT(30)

LEMMA SmallRemainder ==
  ASSUME NEW b \in Nat \ {0}, NEW r \in 0..(b - 1)
  PROVE  r % b = r
  BY SMT

LEMMA RemainderOfSum ==
  ASSUME NEW a \in Nat, NEW c \in Nat, NEW b \in Nat \ {0}
  PROVE  ((a % b) + c) % b = (a + c) % b
<1> DEFINE r == a % b
           s == (r + c) % b
<1>1. PICK q \in Nat : a = q * b + r
  BY Remainder
<1>2. r \in Nat /\ r + c \in Nat
  BY Remainder
<1>3. s \in 0..(b - 1) /\ \E p \in Nat : r + c = p * b + s
  BY <1>2, Remainder
<1>4. PICK p \in Nat : r + c = p * b + s
  BY <1>3
<1> HIDE DEF r, s
<1>5. a + c = (q + p) * b + s
  <2>1. (q + p) * b = q * b + p * b
    BY SMT
  <2>2. q * b \in Nat /\ p * b \in Nat
    BY SMT
  <2> QED BY <1>1, <1>2, <1>3, <1>4, <2>1, <2>2
<1>6. (a + c) % b = s
  BY <1>3, <1>5, RemainderUnique, a + c \in Nat, q + p \in Nat
<1> QED BY <1>6 DEF s, r

-----------------------------------------------------------------------------
(* The lanes of a batch.                                                   *)

LaneSet == SUBSET (0..(Lanes - 1))

Ordered(s, lanes) ==
  ToSet(s) = lanes /\ \A i, k \in DOMAIN s : i < k => s[i] < s[k]

LEMMA LanesFinite ==
  ASSUME NEW S \in LaneSet
  PROVE  IsFiniteSet(S) /\ Cardinality(S) \in Nat /\ (S # {} => Cardinality(S) # 0)
<1>1. Lanes \in Nat
  BY NativeConstants
<1>2. IsFiniteSet(0..(Lanes - 1))
  BY <1>1, FS_Interval
<1>3. IsFiniteSet(S)
  BY <1>2, FS_Subset DEF LaneSet
<1> QED BY <1>3, FS_CardinalityType, FS_EmptySet

LEMMA LastLane ==
  ASSUME NEW S \in LaneSet, S # {}
  PROVE  \E m \in S : \A k \in S : k <= m
<1> DEFINE R == {Lanes - k : k \in S}
<1>1. Lanes \in Nat /\ \A k \in S : k \in 0..(Lanes - 1)
  BY NativeConstants DEF LaneSet
<1>2. R \in SUBSET Nat /\ R # {}
  BY <1>1
<1>3. PICK r \in R : \A k \in R : r <= k
  BY <1>2, LeastNumber
<1>4. PICK m \in S : r = Lanes - m
  BY <1>3
<1>5. ASSUME NEW k \in S PROVE k <= m
  <2>1. Lanes - m <= Lanes - k
    BY <1>3, <1>4
  <2> QED BY <1>1, <2>1
<1> QED BY <1>5

LEMMA OrderExists ==
  ASSUME NEW S \in LaneSet
  PROVE  \E s \in [1..Cardinality(S) -> S] : Ordered(s, S)
<1> DEFINE HasOrder(U) == \E s \in [1..Cardinality(U) -> U] : Ordered(s, U)
           Sizes == {Cardinality(U) : U \in {V \in LaneSet : ~HasOrder(V)}}
<1> SUFFICES ASSUME Sizes # {} PROVE FALSE
  OBVIOUS
<1>1. Sizes \in SUBSET Nat
  BY LanesFinite
<1>2. PICK c \in Sizes : \A d \in Sizes : c <= d
  BY <1>1, LeastNumber
<1>3. PICK U \in LaneSet : ~HasOrder(U) /\ c = Cardinality(U)
  BY <1>2
<1>4. U # {}
  <2> SUFFICES ASSUME U = {} PROVE FALSE
    OBVIOUS
  <2>1. Cardinality(U) = 0
    BY FS_EmptySet
  <2> DEFINE s == [i \in 1..0 |-> 0]
  <2>2. s \in [1..0 -> U] /\ DOMAIN s = {}
    OBVIOUS
  <2>3. Ordered(s, U)
    BY <2>2 DEF Ordered, ToSet
  <2> QED BY <1>3, <2>1, <2>2, <2>3
<1>5. PICK m \in U : \A k \in U : k <= m
  BY <1>4, LastLane
<1> DEFINE V == U \ {m}
<1>6. V \in LaneSet /\ \A k \in U : k \in Nat
  BY DEF LaneSet
<1>7. IsFiniteSet(U) /\ c \in Nat /\ c # 0
  BY <1>3, <1>4, LanesFinite
<1>8. Cardinality(V) = c - 1
  BY <1>3, <1>7, FS_RemoveElement
<1>9. HasOrder(V)
  <2> SUFFICES ASSUME ~HasOrder(V) PROVE FALSE
    OBVIOUS
  <2>1. Cardinality(V) \in Sizes
    BY <1>6
  <2>2. c <= Cardinality(V)
    BY <1>2, <2>1, Zenon
  <2> QED BY <1>7, <1>8, <2>2
<1>10. PICK s \in [1..(c - 1) -> V] : Ordered(s, V)
  BY <1>8, <1>9
<1> DEFINE t == [i \in 1..c |-> IF i = c THEN m ELSE s[i]]
<1>11. t \in [1..c -> U]
  BY <1>7, <1>10
<1>12. ToSet(t) = U
  <2>1. ToSet(t) \subseteq U
    BY <1>11 DEF ToSet
  <2>2. ASSUME NEW k \in U PROVE k \in ToSet(t)
    <3>1. CASE k = m
      <4>1. c \in DOMAIN t /\ t[c] = m
        BY <1>7
      <4> QED BY <3>1, <4>1 DEF ToSet
    <3>2. CASE k # m
      <4>1. k \in ToSet(s)
        BY <1>10, <3>2 DEF Ordered
      <4>2. PICK i \in 1..(c - 1) : s[i] = k
        BY <1>10, <4>1 DEF ToSet
      <4>3. i \in DOMAIN t /\ t[i] = k
        BY <1>7, <4>2
      <4> QED BY <4>3 DEF ToSet
    <3> QED BY <3>1, <3>2
  <2> QED BY <2>1, <2>2
<1>13. ASSUME NEW i \in DOMAIN t, NEW k \in DOMAIN t, i < k PROVE t[i] < t[k]
  <2>1. i \in 1..(c - 1) /\ k \in 1..c /\ t[i] = s[i]
    BY <1>7, <1>13
  <2>2. s[i] \in V
    BY <1>10, <2>1
  <2>3. CASE k = c
    <3>1. s[i] <= m /\ s[i] # m /\ t[k] = m
      BY <1>5, <2>1, <2>2, <2>3
    <3> QED BY <1>6, <2>1, <2>2, <3>1
  <2>4. CASE k # c
    BY <1>7, <1>10, <1>13, <2>1, <2>4 DEF Ordered
  <2> QED BY <2>3, <2>4
<1>14. Ordered(t, U)
  BY <1>12, <1>13 DEF Ordered
<1> QED BY <1>3, <1>11, <1>14

LEMMA InOrderIsOrdered ==
  ASSUME NEW S \in LaneSet
  PROVE  InOrder(S) \in Seq(S) /\ Ordered(InOrder(S), S)
<1>1. \E s \in [1..Cardinality(S) -> S] : Ordered(s, S)
  BY OrderExists
<1>2. InOrder(S) \in [1..Cardinality(S) -> S] /\ Ordered(InOrder(S), S)
  BY <1>1 DEF InOrder, Ordered
<1> QED BY <1>2, LanesFinite

(* What a batch finds are nonces that solve; a continuous job finds all.   *)
LEMMA SolutionsFound ==
  ASSUME NEW t, t.id \in JobId, t.nonce \in Nat
  PROVE  /\ Solutions(t) \in Seq(Nonce)
         /\ Work[t.id].continuous =>
              ToSet(Solutions(t)) = {LaneNonce(t, lane) : lane \in Hits(t)}
         /\ Hits(t) # {} => Solutions(t) # <<>>
<1> DEFINE hits == InOrder(Hits(t))
           wanted == IF Work[t.id].continuous \/ hits = <<>> THEN hits ELSE <<Head(hits)>>
<1>1. Hits(t) \in LaneSet
  BY DEF Hits, ActiveLanes, LaneSet
<1>2. hits \in Seq(Hits(t)) /\ ToSet(hits) = Hits(t)
  BY <1>1, InOrderIsOrdered DEF Ordered
<1>3. wanted \in Seq(Hits(t))
  BY <1>2
<1>4. \A lane \in Hits(t) : LaneNonce(t, lane) \in Nonce
  <2> SUFFICES ASSUME NEW lane \in Hits(t) PROVE LaneNonce(t, lane) \in Nonce
    OBVIOUS
  <2>1. lane \in Nat
    BY <1>1 DEF LaneSet
  <2>2. Work[t.id].stride \in Nat /\ Space \in Nat \ {0}
    BY NativeConstants
  <2>3. Work[t.id].stride * lane \in Nat
    BY <2>1, <2>2
  <2>4. t.nonce + Work[t.id].stride * lane \in Nat
    BY <2>3
  <2> QED BY <2>2, <2>4, Remainder DEF LaneNonce, Nonce
<1>5. Solutions(t) = [i \in DOMAIN wanted |-> LaneNonce(t, wanted[i])]
  BY Zenon DEF Solutions
<1>6. Solutions(t) \in Seq(Nonce)
  <2> HIDE DEF wanted
  <2>1. Len(wanted) \in Nat /\ DOMAIN wanted = 1..Len(wanted)
    BY <1>3, ElementOfSeq
  <2>2. \A i \in 1..Len(wanted) : LaneNonce(t, wanted[i]) \in Nonce
    BY <1>3, <1>4, ElementOfSeq
  <2> DEFINE sol == [i \in 1..Len(wanted) |-> LaneNonce(t, wanted[i])]
  <2>3. sol \in [1..Len(wanted) -> Nonce]
    BY <2>2
  <2>4. sol \in Seq(Nonce)
    BY <2>1, <2>3, IsASeq
  <2> QED BY <1>5, <2>1, <2>4
<1>7. ASSUME Work[t.id].continuous
      PROVE  ToSet(Solutions(t)) = {LaneNonce(t, lane) : lane \in Hits(t)}
  <2>1. wanted = hits
    BY <1>7
  <2> HIDE DEF hits, wanted
  <2>2. ToSet(Solutions(t)) = {LaneNonce(t, hits[i]) : i \in DOMAIN hits}
    BY <1>5, <2>1 DEF ToSet
  <2>3. Hits(t) = {hits[i] : i \in DOMAIN hits}
    BY <1>2 DEF ToSet
  <2> QED BY <2>2, <2>3
<1>8. ASSUME Hits(t) # {} PROVE Solutions(t) # <<>>
  <2>1. hits # <<>>
    BY <1>2, <1>8 DEF ToSet
  <2>2. wanted # <<>>
    BY <1>2, <2>1
  <2> HIDE DEF wanted
  <2>3. DOMAIN wanted # {}
    <3>1. Len(wanted) \in Nat \ {0} /\ DOMAIN wanted = 1..Len(wanted)
      BY <1>3, <2>2, EmptySeq
    <3>2. 1 \in DOMAIN wanted
      BY <3>1
    <3> QED BY <3>2
  <2>4. DOMAIN Solutions(t) = DOMAIN wanted
    BY <1>5
  <2>5. DOMAIN <<>> = {}
    OBVIOUS
  <2> QED BY <2>3, <2>4, <2>5
<1> QED BY <1>6, <1>7, <1>8

-----------------------------------------------------------------------------
(* The nonces of a thread.                                                 *)

(* The j-th nonce a solo thread comes to.                                  *)
Cell(id, w, j) == (Work[id].offset + w + j * Work[id].stride) % Space

(* The nonces of its slot that are a pool thread's to hash.                *)
Stretch(id, w) ==
  { n \in Slot(id) : \E k \in Nat : n = Work[id].offset + w + k * Work[id].stride }

LEMMA JobNumbers ==
  ASSUME NEW id \in JobId
  PROVE  /\ Work[id].offset \in Nat /\ Work[id].stride \in Nat
         /\ HasEnd(id) => Work[id].end \in Nat
         /\ Work[id].continuous \in BOOLEAN
         /\ Space \in Nat \ {0} /\ Lanes \in Nat \ {0} /\ W \in Nat \ {0}
         /\ \A w \in Thread : w \in Nat
  BY NativeConstants DEF HasEnd, Thread

LEMMA CellType ==
  ASSUME NEW id \in JobId, NEW w \in Thread, NEW j \in Nat
  PROVE  /\ Work[id].offset + w + j * Work[id].stride \in Nat
         /\ Cell(id, w, j) \in Nonce
<1>1. Work[id].offset \in Nat /\ Work[id].stride \in Nat /\ w \in Nat /\ Space \in Nat \ {0}
  BY JobNumbers
<1>2. j * Work[id].stride \in Nat
  BY <1>1
<1>3. Work[id].offset + w + j * Work[id].stride \in Nat
  BY <1>1, <1>2
<1> QED BY <1>1, <1>3, Remainder DEF Cell, Nonce

LEMMA CellStep ==
  ASSUME NEW id \in JobId, NEW w \in Thread, NEW m \in Nat, NEW lane \in Nat
  PROVE  (Cell(id, w, m) + Work[id].stride * lane) % Space = Cell(id, w, m + lane)
<1> DEFINE base == Work[id].offset + w
           s == Work[id].stride
<1>1. base \in Nat /\ s \in Nat /\ Space \in Nat \ {0}
  BY JobNumbers
<1> HIDE DEF base, s
<1>2. m * s \in Nat /\ s * lane \in Nat
  BY <1>1
<1>3. (m + lane) * s = m * s + s * lane
  BY <1>1
<1>4. (((base + (m * s)) % Space) + (s * lane)) % Space = ((base + (m * s)) + (s * lane)) % Space
  BY <1>1, <1>2, RemainderOfSum, base + (m * s) \in Nat
<1>5. (base + (m * s)) + (s * lane) = base + ((m + lane) * s)
  BY <1>1, <1>2, <1>3
<1> QED BY <1>4, <1>5 DEF Cell, base, s

(* A thread that is back where it began has been everywhere it comes to.   *)
LEMMA CellPeriod ==
  ASSUME NEW id \in JobId, NEW w \in Thread, NEW p \in Nat \ {0},
         Cell(id, w, p) = Cell(id, w, 0), NEW j \in Nat
  PROVE  \E i \in 0..(p - 1) : Cell(id, w, j) = Cell(id, w, i)
<1> DEFINE Seen(k) == \E i \in 0..(p - 1) : Cell(id, w, k) = Cell(id, w, i)
           Unseen == {k \in Nat : ~Seen(k)}
<1> SUFFICES ASSUME Unseen # {} PROVE FALSE
  OBVIOUS
<1>1. PICK k \in Unseen : \A i \in Unseen : k <= i
  BY LeastNumber, Unseen \in SUBSET Nat
<1>2. k \in Nat /\ ~Seen(k)
  OBVIOUS
<1>3. k >= p
  BY <1>2
<1>4. k - p \in Nat /\ k - p < k /\ p + (k - p) = k /\ 0 + (k - p) = k - p
  BY <1>2, <1>3
<1>5. Seen(k - p)
  <2> SUFFICES ASSUME ~Seen(k - p) PROVE FALSE
    OBVIOUS
  <2>1. k - p \in Unseen
    BY <1>4
  <2>2. k <= k - p
    BY <1>1, <2>1, Zenon
  <2> QED BY <1>2, <1>4, <2>2
<1> DEFINE d == k - p
<1> HIDE DEF d
<1>6. Cell(id, w, k) = (Cell(id, w, p) + Work[id].stride * d) % Space
  <2>1. d \in Nat /\ p + d = k
    BY <1>4 DEF d
  <2>2. (Cell(id, w, p) + Work[id].stride * d) % Space = Cell(id, w, p + d)
    BY <2>1, CellStep, p \in Nat, SMTT(30)
  <2> QED BY <2>1, <2>2
<1>7. Cell(id, w, k - p) = (Cell(id, w, 0) + Work[id].stride * d) % Space
  <2>1. d \in Nat /\ 0 + d = k - p
    BY <1>4 DEF d
  <2>2. (Cell(id, w, 0) + Work[id].stride * d) % Space = Cell(id, w, 0 + d)
    BY <2>1, CellStep, 0 \in Nat
  <2> QED BY <2>1, <2>2
<1>8. Cell(id, w, k) = Cell(id, w, k - p)
  BY <1>6, <1>7
<1> QED BY <1>2, <1>5, <1>8

(* What a batch does to a nonce of a slot, k strides ahead of the thread:  *)
(* it is hashed, or it is still ahead of the thread, which is not through. *)
LEMMA SlotBatch ==
  ASSUME NEW t, t.id \in JobId, ValidJob(t.id), HasEnd(t.id), t.nonce \in Nonce,
         NEW n \in Slot(t.id), NEW k \in Nat, n = t.nonce + k * Work[t.id].stride
  PROVE  /\ k < Lanes => k \in ActiveLanes(t) /\ LaneNonce(t, k) = n
         /\ k >= Lanes => /\ ActiveLanes(t) = 0..(Lanes - 1)
                          /\ NextNonce(t) >= t.nonce
                          /\ NextNonce(t) < Work[t.id].end
                          /\ \E i \in Nat : n = NextNonce(t) + i * Work[t.id].stride
<1> DEFINE s == Work[t.id].stride
           e == Work[t.id].end
<1>1. s \in Nat /\ e \in Nat /\ Space \in Nat \ {0} /\ Lanes \in Nat \ {0}
  BY JobNumbers
<1>2. e < Space /\ n \in Nat /\ n < e /\ t.nonce \in Nat
  BY DEF ValidJob, Slot, Nonce
<1>3. ASSUME NEW j \in 0..k
      PROVE  /\ t.nonce + s * j \in Nat /\ t.nonce + s * j <= n /\ t.nonce + s * j >= t.nonce
             /\ (t.nonce + s * j) % Space = t.nonce + s * j
  <2> HIDE DEF s, e
  <2>1. j \in Nat /\ j <= k
    OBVIOUS
  <2>2. s * j <= k * s /\ s * j \in Nat /\ k * s \in Nat
    <3>1. s * j <= s * k
      BY <1>1, <2>1, SMTT(30)
    <3>2. s * k = k * s /\ s * j \in Nat /\ k * s \in Nat
      BY <1>1, <2>1
    <3> QED BY <3>1, <3>2
  <2>3. t.nonce + s * j \in Nat /\ t.nonce + s * j <= n
    <3>1. n = t.nonce + k * s
      BY DEF s
    <3> QED BY <1>2, <2>2, <3>1
  <2>4. t.nonce + s * j \in 0..(Space - 1)
    BY <1>1, <1>2, <2>3
  <2> QED BY <1>1, <1>2, <2>2, <2>3, <2>4, SmallRemainder
<1> HIDE DEF s, e
<1>4. ASSUME NEW j \in 0..k PROVE LaneNonce(t, j) = t.nonce + s * j /\ ~CutOff(t, j)
  <2>1. LaneNonce(t, j) = t.nonce + s * j
    BY <1>3 DEF LaneNonce, s
  <2>2. ~(LaneNonce(t, j) >= e)
    BY <1>2, <1>3, <2>1, <1>1
  <2> QED BY <2>1, <2>2 DEF CutOff, e
<1>5. ASSUME NEW j \in 0..(Lanes - 1), j <= k PROVE j \in ActiveLanes(t)
  <2>1. \A i \in 0..j : i \in 0..k
    BY <1>5
  <2> QED BY <1>4, <2>1 DEF ActiveLanes
<1>6. ASSUME k < Lanes PROVE k \in ActiveLanes(t) /\ LaneNonce(t, k) = n
  <2>1. k \in 0..(Lanes - 1) /\ k \in 0..k
    BY <1>1, <1>6
  <2>2. s * k = k * s
    BY <1>1
  <2> QED BY <1>4, <1>5, <2>1, <2>2 DEF s
<1>7. ASSUME k >= Lanes
      PROVE  /\ ActiveLanes(t) = 0..(Lanes - 1)
             /\ NextNonce(t) >= t.nonce /\ NextNonce(t) < e
             /\ \E i \in Nat : n = NextNonce(t) + i * s
  <2>1. ActiveLanes(t) = 0..(Lanes - 1)
    <3>1. ActiveLanes(t) \subseteq 0..(Lanes - 1)
      BY DEF ActiveLanes
    <3>2. \A j \in 0..(Lanes - 1) : j <= k
      BY <1>1, <1>7
    <3> QED BY <1>5, <3>1, <3>2
  <2>2. Lanes \in 0..k
    BY <1>1, <1>7
  <2>3. NextNonce(t) = t.nonce + s * Lanes
    BY <1>3, <2>2 DEF NextNonce, s
  <2>4. NextNonce(t) >= t.nonce /\ NextNonce(t) <= n
    BY <1>3, <2>2, <2>3
  <2>5. k - Lanes \in Nat /\ k * s = s * Lanes + (k - Lanes) * s /\ s * Lanes \in Nat
        /\ (k - Lanes) * s \in Nat /\ k * s \in Nat
    BY <1>1, <1>7, SMTT(30)
  <2>6. n = NextNonce(t) + (k - Lanes) * s
    BY <1>2, <2>3, <2>5 DEF s
  <2>7. NextNonce(t) < e
    BY <1>1, <1>2, <2>3, <2>4, <2>5
  <2>8. \E i \in Nat : n = NextNonce(t) + i * s
    BY <2>5, <2>6
  <2> QED BY <2>1, <2>4, <2>7, <2>8
<1> QED BY <1>6, <1>7 DEF s, e

(* What a batch does to the round of a solo thread that is at its m-th     *)
(* nonce: it hashes all its lanes, or those up to where the round ends.    *)
LEMMA SoloBatch ==
  ASSUME NEW t, t.id \in JobId, NEW w \in Thread, ~HasEnd(t.id), NEW m \in Nat,
         t.nonce = Cell(t.id, w, m), t.start = Cell(t.id, w, 0)
  PROVE  \E c \in 1..Lanes :
           /\ \A j \in 0..(c - 1) :
                j \in ActiveLanes(t) /\ LaneNonce(t, j) = Cell(t.id, w, m + j)
           /\ c < Lanes => Cell(t.id, w, m + c) = Cell(t.id, w, 0)
           /\ c = Lanes => ActiveLanes(t) = 0..(Lanes - 1)
<1> DEFINE Cuts == {lane \in 0..(Lanes - 1) : CutOff(t, lane)} \cup {Lanes}
<1>1. Lanes \in Nat \ {0}
  BY NativeConstants
<1>2. PICK c \in Cuts : \A k \in Cuts : c <= k
  BY <1>1, LeastNumber, Cuts \in SUBSET Nat
<1>3. \A j \in Nat : LaneNonce(t, j) = Cell(t.id, w, m + j)
  BY CellStep DEF LaneNonce
<1>4. c \in 1..Lanes
  <2>1. ~CutOff(t, 0)
    BY DEF CutOff
  <2> QED BY <1>1, <2>1
<1>5. ASSUME NEW j \in 0..(c - 1) PROVE j \in ActiveLanes(t)
  <2>1. \A k \in 0..j : k \in 0..(Lanes - 1) /\ k < c
    BY <1>1, <1>4
  <2>2. \A k \in 0..j : ~CutOff(t, k)
    BY <1>1, <1>2, <1>4, <2>1
  <2> QED BY <1>1, <1>4, <2>2 DEF ActiveLanes
<1>6. ASSUME c < Lanes PROVE Cell(t.id, w, m + c) = Cell(t.id, w, 0)
  <2>1. CutOff(t, c) /\ c \in Nat
    BY <1>1, <1>4, <1>6
  <2> QED BY <1>3, <2>1 DEF CutOff
<1>7. ASSUME c = Lanes PROVE ActiveLanes(t) = 0..(Lanes - 1)
  BY <1>5, <1>7 DEF ActiveLanes
<1>8. \A j \in 0..(c - 1) : j \in Nat
  BY <1>4
<1> QED BY <1>3, <1>4, <1>5, <1>6, <1>7, <1>8

-----------------------------------------------------------------------------
(* The inductive invariant.                                                *)

SolvedEvent == { Solved(id, w, n) : id \in JobId, w \in Thread, n \in Nonce }
ExhaustedEvent == { Exhausted(id, w) : id \in JobId, w \in Thread }
Result == SolvedEvent \cup ExhaustedEvent

ThreadState ==
  [pc : {"wait", "grind", "report", "clear", "exited"}, seen : Nat,
   id : JobId \cup {NoJob}, nonce : Nonce, start : Nonce, found : Seq(Nonce),
   dry : BOOLEAN]

TypeInv ==
  /\ stdin \in Seq(Command) /\ stdout \in Seq(Result \cup {CommandError})
  /\ told \in SUBSET Result
  /\ current \in JobId \cup {NoJob} /\ generation \in Nat /\ shutdown \in BOOLEAN
  /\ thread \in [Thread -> ThreadState]
  /\ \A w \in Thread : thread[w].seen <= generation
  /\ tried \in [JobId -> [Nonce -> Nat]]

InBatch(t) == t.pc \in {"grind", "report"}

(* What is ground is a valid job, and on the current generation the current *)
(* one: a thread between hashing and reporting included.                   *)
JobsValid ==
  /\ current # NoJob => ValidJob(current)
  /\ \A w \in Thread :
       InBatch(thread[w]) =>
         /\ thread[w].id \in JobId /\ ValidJob(thread[w].id)
         /\ thread[w].seen = generation => thread[w].id = current

(* A nonce of a slot is hashed and its solution reported.                  *)
Done(id, n) ==
  /\ tried[id][n] > 0
  /\ n \in Work[id].solve => \E v \in Thread : Solved(id, v, n) \in told

(* A nonce of a slot is ahead of the thread, or in its present batch, or   *)
(* ahead of that batch, which is not the last one.                         *)
Due(t, n) ==
  \/ t.pc = "grind" /\ \E k \in Nat : n = t.nonce + k * Work[t.id].stride
  \/ /\ t.pc = "report" /\ tried[t.id][n] > 0
     /\ n \in Work[t.id].solve => n \in ToSet(t.found)
  \/ /\ t.pc = "report" /\ ~Through(t)
     /\ \E k \in Nat : n = NextNonce(t) + k * Work[t.id].stride

PoolJob(id) == HasEnd(id) /\ Work[id].continuous

SlotAhead(w) ==
  InBatch(thread[w]) /\ PoolJob(thread[w].id) =>
    \A n \in Stretch(thread[w].id, w) : Done(thread[w].id, n) \/ Due(thread[w], n)

SlotTold ==
  \A id \in JobId, w \in Thread : PoolJob(id) /\ Exhausted(id, w) \in told =>
    \A n \in Stretch(id, w) : Done(id, n)

(* A solo thread's whole round is hashed, or all of it up to its nonce.    *)
Round(id, w) == \A j \in Nat : tried[id][Cell(id, w, j)] > 0

UpTo(t, w) ==
  \E m \in Nat :
    /\ \A j \in 0..(m - 1) : tried[t.id][Cell(t.id, w, j)] > 0
    /\ t.pc = "grind" => t.nonce = Cell(t.id, w, m)
    /\ t.pc = "report" => m > 0 /\ ~t.dry /\ NextNonce(t) = Cell(t.id, w, m)

(* A job that is not continuous ends with a solution.                      *)
Won(t) == t.pc = "report" /\ ~Work[t.id].continuous /\ t.found # <<>>

SoloAhead(w) ==
  InBatch(thread[w]) /\ ~HasEnd(thread[w].id) =>
    /\ thread[w].start = Cell(thread[w].id, w, 0)
    /\ Round(thread[w].id, w) \/ UpTo(thread[w], w) \/ Won(thread[w])

SoloTold ==
  \A id \in JobId, w \in Thread : ~HasEnd(id) /\ Exhausted(id, w) \in told =>
    Round(id, w)

(* A thread stays in a slot that leaves room for a batch of every thread.  *)
Room(id) == HasEnd(id) /\ Work[id].end + W + Work[id].stride * Lanes <= Space

Inside(w) ==
  InBatch(thread[w]) /\ Room(thread[w].id) => thread[w].nonce \in Slot(thread[w].id)

Ahead(w) == SlotAhead(w) /\ SoloAhead(w) /\ Inside(w)

IInv ==
  /\ TypeInv /\ JobsValid
  /\ \A w \in Thread : Ahead(w)
  /\ SlotTold /\ SoloTold /\ WithinSlot

-----------------------------------------------------------------------------
(* Events.                                                                 *)

LEMMA EmitResults ==
  ASSUME TypeInv, NEW events \in Seq(Result), Emit(events)
  PROVE  /\ stdout' \in Seq(Result \cup {CommandError})
         /\ told' = told \cup ToSet(events) /\ told' \in SUBSET Result
<1>1. stdout \in Seq(Result \cup {CommandError}) /\ told \in SUBSET Result
  BY DEF TypeInv
<1>2. events \in Seq(Result \cup {CommandError})
  BY SeqMonotonic
<1>3. stdout' = stdout \o events /\ told' = told \cup {e \in ToSet(events) : e.type # "error"}
  BY DEF Emit
<1>4. stdout' \in Seq(Result \cup {CommandError})
  BY <1>1, <1>2, <1>3, ConcatProperties
<1>5. ToSet(events) \subseteq Result
  BY ElementOfSeq DEF ToSet
<1>6. \A e \in Result : e.type # "error"
  BY DEF Result, SolvedEvent, ExhaustedEvent, Solved, Exhausted
<1>7. {e \in ToSet(events) : e.type # "error"} = ToSet(events)
  BY <1>5, <1>6
<1> QED BY <1>1, <1>3, <1>4, <1>5, <1>7

LEMMA EmitError ==
  ASSUME TypeInv, Emit(<<CommandError>>)
  PROVE  stdout' \in Seq(Result \cup {CommandError}) /\ told' = told
<1>1. stdout \in Seq(Result \cup {CommandError})
  BY DEF TypeInv
<1>2. stdout' = stdout \o <<CommandError>>
      /\ told' = told \cup {e \in ToSet(<<CommandError>>) : e.type # "error"}
  BY DEF Emit
<1>3. <<CommandError>> \in Seq(Result \cup {CommandError})
  OBVIOUS
<1>4. ToSet(<<CommandError>>) = {CommandError} /\ CommandError.type = "error"
  BY DEF ToSet, CommandError
<1> QED BY <1>1, <1>2, <1>3, <1>4, ConcatProperties

LEMMA EventsDiffer ==
  ASSUME NEW id \in JobId, NEW w \in Thread, NEW n \in Nonce,
         NEW j \in JobId, NEW v \in Thread
  PROVE  /\ Exhausted(id, w) = Exhausted(j, v) => id = j /\ w = v
         /\ Solved(id, w, n) # Exhausted(j, v)
  BY DEF Exhausted, Solved

LEMMA ReportEvents ==
  ASSUME NEW t, t.id \in JobId, t.found \in Seq(Nonce), NEW w \in Thread, NEW done
  PROVE  /\ ReportOf(t, w, done) \in Seq(Result)
         /\ \A n \in ToSet(t.found) : Solved(t.id, w, n) \in ToSet(ReportOf(t, w, done))
         /\ \A id \in JobId, v \in Thread :
              Exhausted(id, v) \in ToSet(ReportOf(t, w, done)) =>
                done /\ id = t.id /\ v = w
<1> DEFINE f == t.found
           sols == [i \in DOMAIN f |-> Solved(t.id, w, f[i])]
           last == IF done THEN <<Exhausted(t.id, w)>> ELSE <<>>
<1>1. Len(f) \in Nat /\ DOMAIN f = 1..Len(f) /\ \A i \in 1..Len(f) : f[i] \in Nonce
  BY ElementOfSeq
<1>2. \A i \in 1..Len(f) : Solved(t.id, w, f[i]) \in Result
  BY <1>1 DEF Result, SolvedEvent
<1>3. sols \in Seq(Result) /\ Len(sols) = Len(f) /\ \A i \in 1..Len(f) : sols[i] = Solved(t.id, w, f[i])
  <2> HIDE DEF f
  <2>1. sols \in [1..Len(f) -> Result]
    BY <1>1, <1>2
  <2> QED BY <1>1, <2>1
<1>4. last \in Seq(Result) /\ (done => last = <<Exhausted(t.id, w)>> /\ Len(last) = 1)
      /\ (~done => Len(last) = 0)
  <2>1. Exhausted(t.id, w) \in Result
    BY DEF Result, ExhaustedEvent
  <2> QED BY <2>1
<1>5. ReportOf(t, w, done) = sols \o last
  BY DEF ReportOf
<1> HIDE DEF sols, last, f
<1> DEFINE all == sols \o last
<1>6. all \in Seq(Result) /\ Len(all) = Len(sols) + Len(last)
      /\ \A i \in 1..(Len(sols) + Len(last)) :
           all[i] = IF i <= Len(sols) THEN sols[i] ELSE last[i - Len(sols)]
  <2>1. sols \in Seq(Result) /\ last \in Seq(Result)
    BY <1>3, <1>4
  <2> QED BY <2>1, ConcatProperties, Zenon
<1> HIDE DEF all
<1>7. Len(all) \in Nat /\ DOMAIN all = 1..Len(all) /\ Len(last) \in {0, 1}
  BY <1>4, <1>6
<1>8. ASSUME NEW n \in ToSet(t.found) PROVE Solved(t.id, w, n) \in ToSet(all)
  <2>1. PICK i \in 1..Len(f) : n = f[i]
    BY <1>1 DEF ToSet, f
  <2>2. i \in 1..Len(all) /\ all[i] = Solved(t.id, w, n)
    BY <1>1, <1>3, <1>6, <1>7, <2>1
  <2> QED BY <1>7, <2>2 DEF ToSet
<1>9. ASSUME NEW id \in JobId, NEW v \in Thread, Exhausted(id, v) \in ToSet(all)
      PROVE  done /\ id = t.id /\ v = w
  <2>1. PICK i \in 1..Len(all) : all[i] = Exhausted(id, v)
    BY <1>7, <1>9 DEF ToSet
  <2>2. ~(i <= Len(sols))
    <3> SUFFICES ASSUME i <= Len(sols) PROVE FALSE
      OBVIOUS
    <3>1. i \in 1..Len(f) /\ i \in 1..(Len(sols) + Len(last))
      BY <1>1, <1>3, <1>6, <1>7
    <3>2. all[i] = Solved(t.id, w, f[i]) /\ f[i] \in Nonce
      BY <1>1, <1>3, <1>6, <3>1
    <3> QED BY <2>1, <3>2 DEF Solved, Exhausted
  <2>3. i \in 1..(Len(sols) + Len(last)) /\ Len(sols) \in Nat
    BY <1>1, <1>3, <1>6, <1>7
  <2>4. i - Len(sols) = 1 /\ Len(last) = 1
    <3>1. i \in Int /\ i <= Len(sols) + Len(last) /\ i > Len(sols)
      BY <1>7, <2>2, <2>3
    <3>2. CASE Len(last) = 0
      BY <2>3, <3>1, <3>2
    <3>3. CASE Len(last) = 1
      BY <2>3, <3>1, <3>3
    <3> QED BY <1>7, <3>2, <3>3
  <2>5. done /\ last = <<Exhausted(t.id, w)>>
    BY <1>4, <2>4
  <2>6. all[i] = last[1]
    BY <1>6, <2>2, <2>3, <2>4
  <2>7. Exhausted(id, v) = Exhausted(t.id, w)
    BY <2>1, <2>5, <2>6
  <2> QED BY <2>5, <2>7 DEF Exhausted
<1> QED BY <1>5, <1>6, <1>8, <1>9 DEF all

-----------------------------------------------------------------------------
(* Types, and which job a thread grinds.                                   *)

LEMMA FirstNonce ==
  ASSUME NEW id \in JobId, NEW w \in Thread
  PROVE  /\ (Work[id].offset + w) % Space = Cell(id, w, 0)
         /\ Cell(id, w, 0) \in Nonce
<1>1. Work[id].offset + w + 0 * Work[id].stride = Work[id].offset + w
  BY JobNumbers
<1> QED BY <1>1, CellType, 0 \in Nat DEF Cell

LEMMA NextNonceType ==
  ASSUME NEW t, t.id \in JobId, t.nonce \in Nonce
  PROVE  NextNonce(t) \in Nonce
<1>1. Work[t.id].stride \in Nat /\ Lanes \in Nat /\ Space \in Nat \ {0} /\ t.nonce \in Nat
  BY JobNumbers DEF Nonce
<1>2. Work[t.id].stride * Lanes \in Nat
  BY <1>1
<1>3. t.nonce + Work[t.id].stride * Lanes \in Nat
  BY <1>1, <1>2
<1> QED BY <1>1, <1>3, Remainder DEF NextNonce, Nonce

LEMMA WaitingType ==
  ASSUME NEW seen \in Nat
  PROVE  Waiting(seen) \in ThreadState /\ ~InBatch(Waiting(seen)) /\ Waiting(seen).seen = seen
<1>1. 0 \in Nonce
  BY NativeConstants DEF Nonce
<1>2. <<>> \in Seq(Nonce)
  OBVIOUS
<1> QED BY <1>1, <1>2 DEF Waiting, ThreadState, InBatch

LEMMA ThreadReplaced ==
  ASSUME TypeInv, NEW w \in Thread, NEW r \in ThreadState,
         thread' = [thread EXCEPT ![w] = r]
  PROVE  /\ thread' \in [Thread -> ThreadState] /\ thread'[w] = r
         /\ \A v \in Thread : v # w => thread'[v] = thread[v]
  BY DEF TypeInv

(* What a thread may do to its own record and to the rest of the process.  *)
LEMMA TakeJobStep ==
  ASSUME TypeInv, JobsValid, NEW w \in Thread, TakeJob(w)
  PROVE  /\ current \in JobId /\ ValidJob(current) /\ generation # thread[w].seen
         /\ thread' = [thread EXCEPT ![w] = thread'[w]] /\ thread'[w] \in ThreadState
         /\ thread'[w].seen = generation
         /\ stdout' \in Seq(Result \cup {CommandError}) /\ told' \in SUBSET Result
         /\ \/ /\ HasEnd(current) /\ Cell(current, w, 0) >= Work[current].end
               /\ ~InBatch(thread'[w]) /\ told' = told \cup {Exhausted(current, w)}
            \/ /\ ~(HasEnd(current) /\ Cell(current, w, 0) >= Work[current].end)
               /\ thread'[w].pc = "grind" /\ thread'[w].id = current
               /\ thread'[w].nonce = Cell(current, w, 0)
               /\ thread'[w].start = Cell(current, w, 0)
               /\ told' = told
<1>1. current \in JobId /\ ValidJob(current) /\ generation \in Nat
      /\ thread \in [Thread -> ThreadState] /\ told \in SUBSET Result
      /\ stdout \in Seq(Result \cup {CommandError})
  BY DEF TypeInv, JobsValid, TakeJob
<1> DEFINE start == (Work[current].offset + w) % Space
<1>2. start = Cell(current, w, 0) /\ start \in Nonce
  BY <1>1, FirstNonce
<1>3. generation # thread[w].seen
  BY DEF TakeJob
<1>4. Waiting(generation) \in ThreadState /\ ~InBatch(Waiting(generation))
      /\ Waiting(generation).seen = generation
  BY <1>1, WaitingType
<1>5. CASE HasEnd(current) /\ start >= Work[current].end
  <2>1. Emit(<<Exhausted(current, w)>>) /\ thread' = [thread EXCEPT ![w] = Waiting(generation)]
    BY <1>5 DEF TakeJob
  <2>2. <<Exhausted(current, w)>> \in Seq(Result)
    BY <1>1 DEF Result, ExhaustedEvent
  <2>3. ToSet(<<Exhausted(current, w)>>) = {Exhausted(current, w)}
    BY DEF ToSet
  <2>4. stdout' \in Seq(Result \cup {CommandError}) /\ told' \in SUBSET Result
        /\ told' = told \cup {Exhausted(current, w)}
    BY <2>1, <2>2, <2>3, EmitResults
  <2>5. thread'[w] = Waiting(generation)
    BY <1>1, <2>1
  <2> QED BY <1>1, <1>2, <1>3, <1>4, <1>5, <2>1, <2>4, <2>5
<1>6. CASE ~(HasEnd(current) /\ start >= Work[current].end)
  <2> DEFINE r == [Waiting(generation) EXCEPT !.pc = "grind", !.id = current,
                                              !.nonce = start, !.start = start]
  <2>1. thread' = [thread EXCEPT ![w] = r] /\ stdout' = stdout /\ told' = told
    BY <1>6 DEF TakeJob
  <2>2. r \in ThreadState /\ r.seen = generation /\ r.pc = "grind" /\ r.id = current
        /\ r.nonce = start /\ r.start = start
    <3> HIDE DEF start
    <3>1. <<>> \in Seq(Nonce)
      OBVIOUS
    <3> QED BY <1>1, <1>2, <3>1 DEF ThreadState, Waiting
  <2>3. thread'[w] = r
    BY <1>1, <2>1
  <2> HIDE DEF r
  <2> QED BY <1>1, <1>2, <1>3, <1>6, <2>1, <2>2, <2>3
<1> QED BY <1>5, <1>6

LEMMA HashBatchStep ==
  ASSUME TypeInv, JobsValid, NEW w \in Thread, HashBatch(w)
  PROVE  LET t == thread[w]
             r == thread'[w]
             hashed == { LaneNonce(t, lane) : lane \in HashedLanes(t) }
         IN /\ t.pc = "grind" /\ t.id = current /\ current \in JobId /\ ValidJob(current)
            /\ t.nonce \in Nonce
            /\ thread' = [thread EXCEPT ![w] = r] /\ r \in ThreadState
            /\ r.pc = "report" /\ r.seen = t.seen /\ r.id = t.id /\ r.nonce = t.nonce
            /\ r.start = t.start /\ r.found = Solutions(t)
            /\ r.dry = (CutShort(t) /\ Solutions(t) = <<>>)
            /\ tried' = [tried EXCEPT ![t.id] =
                          [n \in Nonce |-> IF n \in hashed THEN @[n] + 1 ELSE @[n]]]
            /\ told' = told /\ stdout' = stdout /\ generation' = generation
            /\ current' = current /\ shutdown' = shutdown /\ stdin' = stdin
<1> DEFINE t == thread[w]
           dry == CutShort(t) /\ Solutions(t) = <<>>
           r == [t EXCEPT !.pc = "report", !.found = Solutions(t), !.dry = dry]
<1>1. thread \in [Thread -> ThreadState] /\ t \in ThreadState
  BY DEF TypeInv
<1>2. t.pc = "grind" /\ generation = t.seen
  BY DEF HashBatch
<1>3. t.id \in JobId /\ ValidJob(t.id) /\ t.id = current
  BY <1>2 DEF JobsValid, InBatch
<1>4. t.nonce \in Nonce /\ t.nonce \in Nat
  BY <1>1 DEF ThreadState, Nonce
<1>5. Solutions(t) \in Seq(Nonce)
  BY <1>3, <1>4, SolutionsFound
<1>6. thread' = [thread EXCEPT ![w].pc = "report", ![w].found = Solutions(t), ![w].dry = dry]
  BY Zenon DEF HashBatch
<1>7. dry \in BOOLEAN
  OBVIOUS
<1> HIDE DEF dry
<1>8. r \in ThreadState /\ r.pc = "report" /\ r.seen = t.seen /\ r.id = t.id
      /\ r.nonce = t.nonce /\ r.start = t.start /\ r.found = Solutions(t) /\ r.dry = dry
  <2> HIDE DEF t
  <2> QED BY <1>1, <1>5, <1>7 DEF ThreadState
<1>9. thread' = [thread EXCEPT ![w] = r] /\ thread'[w] = r
  BY <1>1, <1>6
<1>10. UNCHANGED <<stdin, stdout, current, generation, shutdown, told>>
  BY DEF HashBatch
<1>11. tried' = [tried EXCEPT ![t.id] =
         [n \in Nonce |-> IF n \in { LaneNonce(t, lane) : lane \in HashedLanes(t) }
                          THEN @[n] + 1 ELSE @[n]]]
  BY Zenon DEF HashBatch
<1> HIDE DEF t, r
<1> QED BY <1>2, <1>3, <1>4, <1>8, <1>9, <1>10, <1>11 DEF t, dry
DoneBy(t) == ~(~Work[t.id].continuous /\ t.found # <<>>) /\ Through(t)

LEMMA ReportStep ==
  ASSUME TypeInv, JobsValid, NEW w \in Thread, Report(w)
  PROVE  LET t == thread[w]
             r == thread'[w]
         IN /\ t.pc = "report" /\ t.id \in JobId /\ ValidJob(t.id) /\ t.nonce \in Nonce
            /\ t.found \in Seq(Nonce)
            /\ thread' = [thread EXCEPT ![w] = r] /\ r \in ThreadState /\ r.seen = t.seen
            /\ InBatch(r) => /\ ~Through(t) /\ ~Won(t) /\ r.pc = "grind" /\ r.id = t.id
                             /\ r.nonce = NextNonce(t) /\ r.start = t.start
            /\ stdout' \in Seq(Result \cup {CommandError}) /\ told' \in SUBSET Result
            /\ told' = told \cup ToSet(ReportOf(t, w, DoneBy(t)))
            /\ \/ current' = current /\ generation' = generation
               \/ current' = NoJob /\ generation' = generation + 1
            /\ tried' = tried /\ shutdown' = shutdown /\ stdin' = stdin
<1> DEFINE t == thread[w]
           once == ~Work[t.id].continuous
           won == once /\ t.found # <<>>
           done == ~won /\ Through(t)
           r == IF done THEN Waiting(t.seen)
                ELSE IF won THEN [t EXCEPT !.pc = "clear"]
                ELSE [t EXCEPT !.pc = "grind", !.nonce = NextNonce(t),
                               !.found = <<>>, !.dry = FALSE]
<1>1. thread \in [Thread -> ThreadState] /\ t \in ThreadState
  BY DEF TypeInv
<1>2. t.pc = "report"
  BY DEF Report
<1>3. t.id \in JobId /\ ValidJob(t.id)
  BY <1>2 DEF JobsValid, InBatch
<1>4. t.nonce \in Nonce /\ t.found \in Seq(Nonce) /\ t.seen \in Nat
  BY <1>1 DEF ThreadState
<1>5. NextNonce(t) \in Nonce
  BY <1>3, <1>4, NextNonceType
<1>6. done = DoneBy(t)
  BY DEF DoneBy
<1>7. thread' = [thread EXCEPT ![w] = r] /\ Emit(ReportOf(t, w, done))
      /\ UNCHANGED <<stdin, shutdown, tried>>
  BY Zenon DEF Report
<1>8. \/ current' = current /\ generation' = generation
      \/ current' = NoJob /\ generation' = generation + 1
  BY DEF Report, ClearCurrentJob, ReplaceJob
<1>9. ReportOf(t, w, DoneBy(t)) \in Seq(Result)
  <2> HIDE DEF t
  <2> QED BY <1>3, <1>4, ReportEvents
<1>10. stdout' \in Seq(Result \cup {CommandError}) /\ told' \in SUBSET Result
       /\ told' = told \cup ToSet(ReportOf(t, w, DoneBy(t)))
  BY <1>6, <1>7, <1>9, EmitResults
<1>11. r \in ThreadState /\ r.seen = t.seen
       /\ (InBatch(r) => /\ ~Through(t) /\ ~Won(t) /\ r.pc = "grind" /\ r.id = t.id
                         /\ r.nonce = NextNonce(t) /\ r.start = t.start)
  <2> HIDE DEF t
  <2>1. CASE done
    <3>1. r = Waiting(t.seen)
      BY <2>1
    <3> QED BY <1>4, <3>1, WaitingType
  <2>2. CASE ~done /\ won
    <3>1. r = [t EXCEPT !.pc = "clear"]
      BY <2>2
    <3> HIDE DEF r
    <3> QED BY <1>1, <3>1 DEF ThreadState, InBatch
  <2>3. CASE ~done /\ ~won
    <3>1. r = [t EXCEPT !.pc = "grind", !.nonce = NextNonce(t), !.found = <<>>, !.dry = FALSE]
      BY <2>3
    <3>2. ~Through(t)
      BY <2>3
    <3>3. <<>> \in Seq(Nonce)
      OBVIOUS
    <3>4. ~Won(t)
      BY <2>3 DEF Won
    <3> HIDE DEF r
    <3> QED BY <1>1, <1>5, <3>1, <3>2, <3>3, <3>4 DEF ThreadState, InBatch
  <2> QED BY <2>1, <2>2, <2>3
<1>12. thread'[w] = r
  BY <1>1, <1>7
<1> HIDE DEF r, t
<1> QED BY <1>2, <1>3, <1>4, <1>7, <1>8, <1>10, <1>11, <1>12 DEF t

(* The other steps of a thread: it neither hashes nor says anything.       *)
LEMMA QuietStep ==
  ASSUME TypeInv, JobsValid, NEW w \in Thread,
         LeaveLoop(w) \/ Superseded(w) \/ ClearSolved(w)
  PROVE  /\ thread' = [thread EXCEPT ![w] = thread'[w]] /\ thread'[w] \in ThreadState
         /\ thread'[w].seen = thread[w].seen /\ ~InBatch(thread'[w])
         /\ \/ current' = current /\ generation' = generation
            \/ current' = NoJob /\ generation' = generation + 1
         /\ UNCHANGED <<stdin, stdout, shutdown, tried, told>>
<1> DEFINE t == thread[w]
<1>1. thread \in [Thread -> ThreadState] /\ t \in ThreadState /\ t.seen \in Nat
  BY DEF TypeInv, ThreadState
<1>2. CASE LeaveLoop(w)
  <2> DEFINE r == [t EXCEPT !.pc = "exited"]
  <2>1. thread' = [thread EXCEPT ![w] = r] /\ thread'[w] = r
    BY <1>1, <1>2 DEF LeaveLoop
  <2>2. r \in ThreadState /\ r.seen = t.seen /\ ~InBatch(r)
    <3> HIDE DEF t
    <3> QED BY <1>1 DEF ThreadState, InBatch
  <2>3. UNCHANGED <<stdin, stdout, current, generation, shutdown, tried, told>>
    BY <1>2 DEF LeaveLoop
  <2> HIDE DEF r
  <2> QED BY <2>1, <2>2, <2>3
<1>3. CASE Superseded(w)
  <2>1. thread' = [thread EXCEPT ![w] = Waiting(t.seen)] /\ thread'[w] = Waiting(t.seen)
    BY <1>1, <1>3 DEF Superseded
  <2>2. UNCHANGED <<stdin, stdout, current, generation, shutdown, tried, told>>
    BY <1>3 DEF Superseded
  <2> QED BY <1>1, <2>1, <2>2, WaitingType
<1>4. CASE ClearSolved(w)
  <2>1. thread' = [thread EXCEPT ![w] = Waiting(t.seen)] /\ thread'[w] = Waiting(t.seen)
    BY <1>1, <1>4 DEF ClearSolved
  <2>2. UNCHANGED <<stdin, stdout, shutdown, tried, told>>
    BY <1>4 DEF ClearSolved
  <2>3. \/ current' = current /\ generation' = generation
        \/ current' = NoJob /\ generation' = generation + 1
    BY <1>4 DEF ClearSolved, ClearCurrentJob, ReplaceJob
  <2> QED BY <1>1, <2>1, <2>2, <2>3, WaitingType
<1> QED BY <1>2, <1>3, <1>4

LEMMA ReadStep ==
  ASSUME TypeInv, JobsValid, ReadCommand
  PROVE  /\ stdin' \in Seq(Command) /\ stdout' \in Seq(Result \cup {CommandError})
         /\ told' = told /\ thread' = thread /\ tried' = tried /\ shutdown' \in BOOLEAN
         /\ \/ current' = current /\ generation' \in {generation, generation + 1}
            \/ /\ current' \in JobId \cup {NoJob} /\ generation' = generation + 1
               /\ current' # NoJob => ValidJob(current')
<1> DEFINE cmd == Head(stdin)
<1>1. stdin \in Seq(Command) /\ stdin # <<>> /\ stdout \in Seq(Result \cup {CommandError})
      /\ shutdown \in BOOLEAN
  BY DEF TypeInv, ReadCommand
<1>2. cmd \in Command /\ Tail(stdin) \in Seq(Command)
  BY <1>1
<1>3. cmd.type = "start" => cmd.id \in JobId
  BY <1>2 DEF Command, Start, Stop, Shutdown
<1>4. stdin' \in Seq(Command) /\ thread' = thread /\ tried' = tried
  BY <1>2 DEF ReadCommand
<1>5. CASE cmd.type = "start" /\ ValidJob(cmd.id) /\ ReplaceJob(cmd.id)
           /\ UNCHANGED <<shutdown, stdout, told>>
  BY <1>1, <1>3, <1>4, <1>5 DEF ReplaceJob
<1>6. CASE Emit(<<CommandError>>) /\ UNCHANGED <<shutdown, current, generation>>
  BY <1>1, <1>4, <1>6, EmitError
<1>7. CASE ReplaceJob(NoJob) /\ UNCHANGED <<shutdown, stdout, told>>
  BY <1>1, <1>4, <1>7 DEF ReplaceJob
<1>8. CASE shutdown' = TRUE /\ generation' = generation + 1
           /\ UNCHANGED <<current, stdout, told>>
  BY <1>1, <1>4, <1>8
<1>9. \/ cmd.type = "start" /\ ValidJob(cmd.id) /\ ReplaceJob(cmd.id)
         /\ UNCHANGED <<shutdown, stdout, told>>
      \/ Emit(<<CommandError>>) /\ UNCHANGED <<shutdown, current, generation>>
      \/ ReplaceJob(NoJob) /\ UNCHANGED <<shutdown, stdout, told>>
      \/ shutdown' = TRUE /\ generation' = generation + 1 /\ UNCHANGED <<current, stdout, told>>
  BY DEF ReadCommand
<1> HIDE DEF cmd
<1> QED BY <1>5, <1>6, <1>7, <1>8, <1>9

-----------------------------------------------------------------------------
(* What is hashed and told stays so.                                       *)

Grows ==
  /\ told \subseteq told'
  /\ \A id \in JobId, n \in Nonce : tried[id][n] > 0 => tried'[id][n] > 0

LEMMA DoneStays ==
  ASSUME Grows, NEW id \in JobId, NEW n \in Slot(id), Done(id, n)
  PROVE  Done(id, n)'
<1>1. n \in Nonce
  BY DEF Slot
<1>2. tried'[id][n] > 0
  BY <1>1 DEF Grows, Done
<1>3. n \in Work[id].solve => \E v \in Thread : Solved(id, v, n) \in told'
  BY DEF Grows, Done
<1> QED BY <1>2, <1>3 DEF Done

LEMMA RoundStays ==
  ASSUME Grows, NEW id \in JobId, NEW w \in Thread, Round(id, w)
  PROVE  Round(id, w)'
<1> SUFFICES ASSUME NEW j \in Nat PROVE tried'[id][Cell(id, w, j)] > 0
  BY DEF Round, Cell
<1>1. tried[id][Cell(id, w, j)] > 0 /\ Cell(id, w, j) \in Nonce
  BY CellType DEF Round
<1> QED BY <1>1 DEF Grows

(* A thread that is not stepping is where it was.                          *)
LEMMA AheadStays ==
  ASSUME JobsValid, Grows, NEW w \in Thread, Ahead(w),
         thread'[w] = thread[w] \/ ~InBatch(thread'[w])
  PROVE  Ahead(w)'
<1> DEFINE t == thread[w]
<1>1. CASE ~InBatch(thread'[w])
  BY <1>1 DEF Ahead, SlotAhead, SoloAhead, Inside, InBatch
<1>2. CASE InBatch(thread'[w])
  <2>1. thread'[w] = t /\ InBatch(t) /\ t.id \in JobId
    BY <1>2 DEF JobsValid
  <2>2. ASSUME PoolJob(t.id), NEW n \in Stretch(t.id, w)
        PROVE  Done(t.id, n)' \/ Due(thread[w], n)'
    <3>1. n \in Slot(t.id) /\ n \in Nonce
      BY DEF Stretch, Slot
    <3>2. Done(t.id, n) \/ Due(t, n)
      BY <2>1, <2>2 DEF Ahead, SlotAhead
    <3>3. ASSUME Done(t.id, n) PROVE Done(t.id, n)'
      <4>1. \A id \in JobId : \A x \in Slot(id) : Done(id, x) => Done(id, x)'
        BY DoneStays
      <4>2. Done(t.id, n) => /\ tried'[t.id][n] > 0
                             /\ n \in Work[t.id].solve =>
                                  \E v \in Thread : Solved(t.id, v, n) \in told'
        BY <2>1, <3>1, <4>1 DEF Done
      <4> QED BY <2>1, <3>3, <4>2 DEF Done
    <3>4. ASSUME Due(t, n) PROVE Due(thread[w], n)'
      <4>1. tried[t.id][n] > 0 => tried'[t.id][n] > 0
        BY <2>1, <3>1 DEF Grows
      <4> QED BY <2>1, <3>4, <4>1 DEF Due, Through, NextNonce, HasEnd
    <3> QED BY <3>2, <3>3, <3>4
  <2>3. SlotAhead(w)'
    BY <2>1, <2>2 DEF SlotAhead, PoolJob, HasEnd, Stretch, Slot
  <2>4. ASSUME ~HasEnd(t.id) PROVE t.start = Cell(t.id, w, 0) /\ (Round(t.id, w)' \/ UpTo(thread[w], w)' \/ Won(t))
    <3>1. t.start = Cell(t.id, w, 0) /\ (Round(t.id, w) \/ UpTo(t, w) \/ Won(t))
      BY <2>1, <2>4 DEF Ahead, SoloAhead
    <3>2. ASSUME Round(t.id, w) PROVE Round(t.id, w)'
      BY <2>1, <3>2, RoundStays DEF Round, Cell
    <3>3. ASSUME UpTo(t, w) PROVE UpTo(thread[w], w)'
      <4>1. PICK m \in Nat :
              /\ \A j \in 0..(m - 1) : tried[t.id][Cell(t.id, w, j)] > 0
              /\ t.pc = "grind" => t.nonce = Cell(t.id, w, m)
              /\ t.pc = "report" => m > 0 /\ ~t.dry /\ NextNonce(t) = Cell(t.id, w, m)
        BY <3>3 DEF UpTo
      <4>2. \A j \in 0..(m - 1) : tried'[t.id][Cell(t.id, w, j)] > 0
        <5>1. \A j \in 0..(m - 1) : j \in Nat
          BY <4>1
        <5> QED BY <2>1, <4>1, <5>1, CellType DEF Grows
      <4> QED BY <2>1, <4>1, <4>2 DEF UpTo, Cell, NextNonce
    <3> QED BY <3>1, <3>2, <3>3
  <2>5. SoloAhead(w)'
    BY <2>1, <2>4 DEF SoloAhead, HasEnd, Cell, Won
  <2>6. Inside(w)'
    BY <2>1 DEF Ahead, Inside, Room, HasEnd, Slot
  <2> QED BY <2>3, <2>5, <2>6 DEF Ahead
<1> QED BY <1>1, <1>2

(* A thread is through only when it is done.                               *)
LEMMA ToldStays ==
  ASSUME Grows, SlotTold, SoloTold,
         \A id \in JobId, w \in Thread : Exhausted(id, w) \in told' =>
           \/ Exhausted(id, w) \in told
           \/ /\ PoolJob(id) => \A n \in Stretch(id, w) : Done(id, n)'
              /\ ~HasEnd(id) => Round(id, w)'
  PROVE  SlotTold' /\ SoloTold'
<1>1. ASSUME NEW id \in JobId, NEW w \in Thread, PoolJob(id), Exhausted(id, w) \in told',
             NEW n \in Stretch(id, w)
      PROVE  Done(id, n)'
  <2>1. n \in Slot(id)
    BY DEF Stretch
  <2>2. CASE Exhausted(id, w) \in told
    BY <1>1, <2>1, <2>2, DoneStays DEF SlotTold
  <2>3. CASE Exhausted(id, w) \notin told
    BY <1>1, <2>3
  <2> QED BY <2>2, <2>3
<1>2. ASSUME NEW id \in JobId, NEW w \in Thread, ~HasEnd(id), Exhausted(id, w) \in told'
      PROVE  Round(id, w)'
  <2>1. CASE Exhausted(id, w) \in told
    BY <1>2, <2>1, RoundStays DEF SoloTold
  <2>2. CASE Exhausted(id, w) \notin told
    BY <1>2, <2>2
  <2> QED BY <2>1, <2>2
<1>3. SlotTold'
  BY <1>1 DEF SlotTold, PoolJob, HasEnd, Stretch, Slot, Exhausted
<1>4. SoloTold'
  BY <1>2 DEF SoloTold, HasEnd, Exhausted
<1> QED BY <1>3, <1>4

-----------------------------------------------------------------------------
(* The steps of a thread.                                                  *)

(* A pool thread whose first nonce is below the end has not wrapped round. *)
LEMMA FirstOfStretch ==
  ASSUME NEW id \in JobId, NEW w \in Thread, HasEnd(id), ValidJob(id),
         Work[id].offset + w < Space
  PROVE  Cell(id, w, 0) = Work[id].offset + w
<1>1. Work[id].offset \in Nat /\ w \in Nat /\ Space \in Nat \ {0} /\ Work[id].stride \in Nat
  BY JobNumbers
<1>2. Work[id].offset + w \in 0..(Space - 1)
  BY <1>1
<1>3. (Work[id].offset + w) % Space = Work[id].offset + w
  BY <1>1, <1>2, SmallRemainder
<1> QED BY <1>3, FirstNonce

LEMMA StretchBegins ==
  ASSUME NEW id \in JobId, NEW w \in Thread, HasEnd(id), ValidJob(id),
         NEW n \in Stretch(id, w)
  PROVE  /\ Cell(id, w, 0) < Work[id].end
         /\ \E k \in Nat : n = Cell(id, w, 0) + k * Work[id].stride
<1>1. PICK k \in Nat : n = Work[id].offset + w + k * Work[id].stride
  BY DEF Stretch
<1>2. n < Work[id].end /\ n \in Nat
  BY DEF Stretch, Slot, Nonce
<1>3. Work[id].offset \in Nat /\ w \in Nat /\ Space \in Nat \ {0} /\ Work[id].stride \in Nat
      /\ Work[id].end \in Nat /\ Work[id].end < Space
  BY JobNumbers DEF ValidJob
<1>4. k * Work[id].stride \in Nat
  BY <1>3
<1>5. Work[id].offset + w <= n
  BY <1>1, <1>3, <1>4
<1>6. Cell(id, w, 0) = Work[id].offset + w
  BY <1>2, <1>3, <1>5, FirstOfStretch
<1> QED BY <1>1, <1>2, <1>3, <1>5, <1>6

LEMMA TakeJobCovers ==
  ASSUME IInv, NEW w \in Thread, TakeJob(w)
  PROVE  Grows /\ Ahead(w)' /\ SlotTold' /\ SoloTold' /\ WithinSlot'
<1>0. TypeInv /\ JobsValid /\ SlotTold /\ SoloTold /\ WithinSlot
  BY DEF IInv
<1>1. tried' = tried /\ current' = current /\ generation' = generation
  BY DEF TakeJob
<1>2. PICK id \in JobId : id = current
  BY <1>0, TakeJobStep
<1> DEFINE r == thread'[w]
<1>3. ValidJob(id)
      /\ \/ /\ HasEnd(id) /\ Cell(id, w, 0) >= Work[id].end
            /\ ~InBatch(r) /\ told' = told \cup {Exhausted(id, w)}
         \/ /\ ~(HasEnd(id) /\ Cell(id, w, 0) >= Work[id].end)
            /\ r.pc = "grind" /\ r.id = id /\ r.nonce = Cell(id, w, 0)
            /\ r.start = Cell(id, w, 0) /\ told' = told
  BY <1>0, <1>2, TakeJobStep
<1>4. Grows
  BY <1>1, <1>3 DEF Grows
<1>5. WithinSlot'
  BY <1>0, <1>1 DEF WithinSlot, HasEnd, Slot
<1>6. CASE /\ HasEnd(id) /\ Cell(id, w, 0) >= Work[id].end
           /\ ~InBatch(r) /\ told' = told \cup {Exhausted(id, w)}
  <2>1. Ahead(w)'
    BY <1>6 DEF Ahead, SlotAhead, SoloAhead, Inside, InBatch
  <2>2. Stretch(id, w) = {}
    <3> SUFFICES ASSUME NEW n \in Stretch(id, w) PROVE FALSE
      OBVIOUS
    <3>1. Cell(id, w, 0) < Work[id].end
      BY <1>3, <1>6, StretchBegins
    <3>2. Cell(id, w, 0) \in Nat /\ Work[id].end \in Nat
      BY <1>6, FirstNonce, JobNumbers DEF Nonce
    <3> QED BY <1>6, <3>1, <3>2
  <2>3. ASSUME NEW j \in JobId, NEW v \in Thread, Exhausted(j, v) \in told'
        PROVE  \/ Exhausted(j, v) \in told
               \/ /\ PoolJob(j) => \A n \in Stretch(j, v) : Done(j, n)'
                  /\ ~HasEnd(j) => Round(j, v)'
    <3>1. CASE Exhausted(j, v) = Exhausted(id, w)
      <4>1. j = id /\ v = w
        BY <3>1 DEF Exhausted
      <4> QED BY <1>6, <2>2, <4>1
    <3>2. CASE Exhausted(j, v) # Exhausted(id, w)
      BY <1>6, <2>3, <3>2
    <3> QED BY <3>1, <3>2
  <2>4. SlotTold' /\ SoloTold'
    BY <1>0, <1>4, <2>3, ToldStays
  <2> QED BY <1>4, <1>5, <2>1, <2>4
<1>7. CASE /\ ~(HasEnd(id) /\ Cell(id, w, 0) >= Work[id].end)
           /\ r.pc = "grind" /\ r.id = id /\ r.nonce = Cell(id, w, 0)
           /\ r.start = Cell(id, w, 0) /\ told' = told
  <2>1. SlotTold' /\ SoloTold'
    BY <1>0, <1>4, <1>7, ToldStays
  <2>2. SlotAhead(w)'
    <3> SUFFICES ASSUME PoolJob(id), NEW n \in Stretch(id, w)
                 PROVE  Due(thread[w], n)'
      BY <1>7 DEF SlotAhead, PoolJob, HasEnd, Stretch, Slot
    <3>1. \E k \in Nat : n = Cell(id, w, 0) + k * Work[id].stride
      BY <1>3, StretchBegins DEF PoolJob
    <3> QED BY <1>7, <3>1 DEF Due
  <2>3. SoloAhead(w)'
    <3>1. \A j \in 0..(0 - 1) : tried'[r.id][Cell(r.id, w, j)] > 0
      OBVIOUS
    <3>2. UpTo(thread[w], w)'
      BY <1>7, <3>1 DEF UpTo, Cell
    <3> QED BY <1>7, <3>2 DEF SoloAhead, Cell
  <2>4. Inside(w)'
    <3> SUFFICES ASSUME Room(id) PROVE Cell(id, w, 0) \in Slot(id)
      BY <1>7 DEF Inside, Room, HasEnd, Slot
    <3>1. Work[id].offset \in Nat /\ w \in Nat /\ w < W /\ Work[id].end \in Nat
          /\ Work[id].stride * Lanes \in Nat /\ Space \in Nat /\ W \in Nat
      BY JobNumbers DEF Room, Thread
    <3>2. Work[id].offset < Work[id].end
      BY <1>3 DEF ValidJob, Room
    <3>3. Work[id].offset + w < Space
      BY <3>1, <3>2 DEF Room
    <3>4. Cell(id, w, 0) = Work[id].offset + w /\ Cell(id, w, 0) \in Nonce
      BY <1>3, <3>3, FirstOfStretch, FirstNonce DEF Room
    <3>5. Cell(id, w, 0) < Work[id].end /\ Work[id].offset <= Cell(id, w, 0)
      BY <1>7, <3>1, <3>4 DEF Room
    <3> QED BY <3>4, <3>5 DEF Slot
  <2> QED BY <1>4, <1>5, <2>1, <2>2, <2>3, <2>4 DEF Ahead
<1> QED BY <1>3, <1>6, <1>7
(* Hashing: the job and thread records before and after, and the counts.   *)
LEMMA HashCounts ==
  ASSUME TypeInv, JobsValid, NEW w \in Thread, HashBatch(w)
  PROVE  /\ Grows
         /\ \A lane \in HashedLanes(thread[w]) :
              LaneNonce(thread[w], lane) \in Nonce =>
                tried'[thread[w].id][LaneNonce(thread[w], lane)] > 0
         /\ \A id \in JobId, n \in Nonce : tried'[id][n] > 0 =>
              \/ tried[id][n] > 0
              \/ /\ id = thread[w].id
                 /\ \E lane \in HashedLanes(thread[w]) : n = LaneNonce(thread[w], lane)
<1> DEFINE t == thread[w]
           hashed == { LaneNonce(t, lane) : lane \in HashedLanes(t) }
<1>1. tried \in [JobId -> [Nonce -> Nat]]
  BY DEF TypeInv
<1>2. t.id \in JobId /\ told' = told
      /\ tried' = [tried EXCEPT ![t.id] =
                     [n \in Nonce |-> IF n \in hashed THEN @[n] + 1 ELSE @[n]]]
  BY HashBatchStep
<1> HIDE DEF hashed, t
<1>3. \A id \in JobId, n \in Nonce : tried[id][n] \in Nat
  BY <1>1
<1>4. \A n \in Nonce : tried'[t.id][n] =
        IF n \in hashed THEN tried[t.id][n] + 1 ELSE tried[t.id][n]
  BY <1>1, <1>2
<1>5. \A id \in JobId : id # t.id => tried'[id] = tried[id]
  BY <1>1, <1>2
<1>6. Grows
  BY <1>2, <1>3, <1>4, <1>5 DEF Grows
<1>7. \A n \in Nonce : n \in hashed => tried'[t.id][n] > 0
  BY <1>2, <1>3, <1>4
<1>8. \A id \in JobId, n \in Nonce : tried'[id][n] > 0 =>
        tried[id][n] > 0 \/ (id = t.id /\ n \in hashed)
  BY <1>4, <1>5
<1>9. \A lane \in HashedLanes(t) : LaneNonce(t, lane) \in hashed
  BY DEF hashed
<1>10. \A n \in hashed : \E lane \in HashedLanes(t) : n = LaneNonce(t, lane)
  BY DEF hashed
<1> QED BY <1>6, <1>7, <1>8, <1>9, <1>10 DEF t

(* A batch is hashed to its last lane, unless a solution ends the job.     *)
LEMMA AllHashed ==
  ASSUME NEW t,
         Work[t.id].continuous \/ Hits(t) = {} \/ ActiveLanes(t) = 0..(Lanes - 1)
  PROVE  /\ HashedLanes(t) = ActiveLanes(t)
         /\ ActiveLanes(t) = 0..(Lanes - 1) => ~CutShort(t)
<1>1. Lanes \in Nat \ {0} /\ Lanes - 1 \in Int /\ 0 \in Int
  BY NativeConstants
<1>2. Cardinality(0..(Lanes - 1)) = IF 0 > Lanes - 1 THEN 0 ELSE (Lanes - 1) - 0 + 1
  BY <1>1, FS_Interval
<1>3. ActiveLanes(t) = 0..(Lanes - 1) => ~CutShort(t)
  BY <1>1, <1>2 DEF CutShort
<1>4. HashedLanes(t) = ActiveLanes(t)
  BY <1>3 DEF HashedLanes
<1> QED BY <1>3, <1>4

(* A nonce of the slot still due is hashed or still ahead.                 *)
LEMMA HashKeepsDue ==
  ASSUME TypeInv, JobsValid, NEW w \in Thread, HashBatch(w),
         PoolJob(thread[w].id), NEW n \in Slot(thread[w].id), Due(thread[w], n)
  PROVE  Due(thread[w], n)'
<1> DEFINE t == thread[w]
           r == thread'[w]
<1>1. /\ t.pc = "grind" /\ t.id \in JobId /\ ValidJob(t.id) /\ t.nonce \in Nonce
      /\ r.pc = "report" /\ r.id = t.id /\ r.nonce = t.nonce /\ r.found = Solutions(t)
      /\ r.dry = (CutShort(t) /\ Solutions(t) = <<>>)
  BY HashBatchStep
<1>2. PICK k \in Nat : n = t.nonce + k * Work[t.id].stride
  BY <1>1 DEF Due
<1>3. HasEnd(t.id) /\ Work[t.id].continuous /\ Lanes \in Nat /\ n \in Nonce
  BY NativeConstants DEF PoolJob, Slot
<1>4. /\ k < Lanes => k \in ActiveLanes(t) /\ LaneNonce(t, k) = n
      /\ k >= Lanes => /\ ActiveLanes(t) = 0..(Lanes - 1)
                       /\ NextNonce(t) >= t.nonce
                       /\ NextNonce(t) < Work[t.id].end
                       /\ \E i \in Nat : n = NextNonce(t) + i * Work[t.id].stride
  BY <1>1, <1>2, <1>3, SlotBatch
<1>5. CASE k < Lanes
  <2>1. tried'[t.id][n] > 0
    <3>1. k \in HashedLanes(t)
      BY <1>3, <1>4, <1>5, AllHashed
    <3> QED BY <1>3, <1>4, <1>5, <3>1, HashCounts
  <2>2. ASSUME n \in Work[t.id].solve PROVE n \in ToSet(Solutions(t))
    <3>1. k \in Hits(t)
      BY <1>4, <1>5, <2>2 DEF Hits
    <3>2. t.nonce \in Nat
      BY <1>1 DEF Nonce
    <3>3. ToSet(Solutions(t)) = {LaneNonce(t, lane) : lane \in Hits(t)}
      BY <1>1, <1>3, <3>2, SolutionsFound
    <3> QED BY <1>4, <1>5, <3>1, <3>3
  <2> QED BY <1>1, <2>1, <2>2 DEF Due
<1>6. CASE k >= Lanes
  <2>1. NextNonce(r) = NextNonce(t)
    BY <1>1 DEF NextNonce
  <2>2. ~CutShort(t)
    BY <1>4, <1>6, AllHashed
  <2>3. ~r.dry
    BY <1>1, <2>2, Zenon
  <2>4. NextNonce(t) \in Nat /\ t.nonce \in Nat /\ Work[t.id].end \in Nat
    BY <1>1, <1>3, NextNonceType, JobNumbers DEF Nonce
  <2>5. ~Through(r)
    BY <1>1, <1>3, <1>4, <1>6, <2>1, <2>3, <2>4 DEF Through
  <2>6. \E i \in Nat : n = NextNonce(r) + i * Work[r.id].stride
    BY <1>1, <1>4, <1>6, <2>1
  <2>7. Through(thread[w])' = Through(r) /\ NextNonce(thread[w])' = NextNonce(r)
    BY DEF Through, NextNonce, HasEnd
  <2> QED BY <1>1, <2>5, <2>6, <2>7 DEF Due
<1> QED BY <1>3, <1>5, <1>6

(* A solo thread comes one batch further, or to the end of its round.      *)
LEMMA HashKeepsRound ==
  ASSUME TypeInv, JobsValid, NEW w \in Thread, HashBatch(w),
         ~HasEnd(thread[w].id), thread[w].start = Cell(thread[w].id, w, 0),
         UpTo(thread[w], w), Work[thread[w].id].continuous \/ Hits(thread[w]) = {}
  PROVE  Round(thread[w].id, w)' \/ UpTo(thread[w], w)'
<1> DEFINE t == thread[w]
           r == thread'[w]
<1>1. /\ t.pc = "grind" /\ t.id \in JobId /\ t.nonce \in Nonce
      /\ r.pc = "report" /\ r.id = t.id /\ r.nonce = t.nonce
      /\ r.dry = (CutShort(t) /\ Solutions(t) = <<>>)
  BY HashBatchStep
<1>2. Lanes \in Nat \ {0}
  BY NativeConstants
<1>3. PICK m \in Nat : /\ \A j \in 0..(m - 1) : tried[t.id][Cell(t.id, w, j)] > 0
                       /\ t.nonce = Cell(t.id, w, m)
  BY <1>1 DEF UpTo
<1>4. PICK c \in 1..Lanes :
           /\ \A j \in 0..(c - 1) :
                j \in ActiveLanes(t) /\ LaneNonce(t, j) = Cell(t.id, w, m + j)
           /\ c < Lanes => Cell(t.id, w, m + c) = Cell(t.id, w, 0)
           /\ c = Lanes => ActiveLanes(t) = 0..(Lanes - 1)
  BY <1>1, <1>3, SoloBatch
<1>9. HashedLanes(t) = ActiveLanes(t)
  BY AllHashed
<1> HIDE DEF t, r
<1>5. \A j \in 0..(m + c - 1) : tried'[t.id][Cell(t.id, w, j)] > 0
  <2> SUFFICES ASSUME NEW j \in 0..(m + c - 1) PROVE tried'[t.id][Cell(t.id, w, j)] > 0
    OBVIOUS
  <2>1. j \in Nat /\ c \in Nat
    BY <1>2, <1>3, <1>4
  <2>2. Cell(t.id, w, j) \in Nonce
    BY <1>1, <2>1, CellType
  <2>3. CASE j < m
    <3>1. tried[t.id][Cell(t.id, w, j)] > 0
      BY <1>3, <2>1, <2>3
    <3> QED BY <1>1, <2>2, <3>1, HashCounts DEF Grows
  <2>4. CASE j >= m
    <3>1. j - m \in 0..(c - 1) /\ m + (j - m) = j
      BY <1>3, <2>1, <2>4
    <3>2. j - m \in ActiveLanes(t) /\ LaneNonce(t, j - m) = Cell(t.id, w, j)
      BY <1>4, <3>1
    <3> QED BY <1>9, <2>2, <3>2, HashCounts DEF t
  <2> QED BY <1>3, <2>1, <2>3, <2>4
<1>6. CASE c < Lanes
  <2>1. m + c \in Nat \ {0}
    BY <1>3, <1>4
  <2>2. Cell(t.id, w, m + c) = Cell(t.id, w, 0)
    BY <1>4, <1>6
  <2>3. \A j \in Nat : \E i \in 0..(m + c - 1) : Cell(t.id, w, j) = Cell(t.id, w, i)
    <3> DEFINE p == m + c
    <3>1. p \in Nat \ {0} /\ Cell(t.id, w, p) = Cell(t.id, w, 0)
      BY <2>1, <2>2
    <3> HIDE DEF p
    <3>2. \A j \in Nat : \E i \in 0..(p - 1) : Cell(t.id, w, j) = Cell(t.id, w, i)
      BY <1>1, <3>1, CellPeriod
    <3> QED BY <3>2 DEF p
  <2>4. \A j \in Nat : tried'[t.id][Cell(t.id, w, j)] > 0
    BY <1>5, <2>3
  <2> QED BY <1>1, <2>4 DEF Round, Cell, t, r
<1>7. CASE c = Lanes
  <2>1. ~CutShort(t)
    BY <1>4, <1>7, AllHashed
  <2>2. ~r.dry
    BY <1>1, <2>1, Zenon
  <2>3. m + Lanes \in Nat /\ m + Lanes > 0
    BY <1>2, <1>3
  <2>4. NextNonce(r) = Cell(t.id, w, m + Lanes)
    <3>1. (Cell(t.id, w, m) + Work[t.id].stride * Lanes) % Space = Cell(t.id, w, m + Lanes)
      BY <1>1, <1>2, <1>3, CellStep, Lanes \in Nat
    <3> QED BY <1>1, <1>3, <3>1 DEF NextNonce
  <2>5. \A j \in 0..((m + Lanes) - 1) : tried'[r.id][Cell(r.id, w, j)] > 0
    BY <1>1, <1>5, <1>7
  <2> QED BY <1>1, <2>2, <2>3, <2>4, <2>5 DEF UpTo, NextNonce, Cell, r
<1>8. c < Lanes \/ c = Lanes
  BY <1>2, <1>4
<1> QED BY <1>6, <1>7, <1>8

(* A batch in a slot with room stays in it.                                *)
LEMMA HashStaysInside ==
  ASSUME TypeInv, JobsValid, NEW w \in Thread, HashBatch(w), Inside(w),
         Room(thread[w].id), NEW lane \in ActiveLanes(thread[w])
  PROVE  LaneNonce(thread[w], lane) \in Slot(thread[w].id)
<1> DEFINE t == thread[w]
           s == Work[t.id].stride
           e == Work[t.id].end
<1>1. t.pc = "grind" /\ t.id \in JobId /\ t.nonce \in Nonce
  BY HashBatchStep
<1>2. t.nonce \in Slot(t.id) /\ HasEnd(t.id)
  BY <1>1 DEF Inside, InBatch, Room
<1>3. s \in Nat /\ e \in Nat /\ Lanes \in Nat /\ W \in Nat /\ Space \in Nat \ {0}
      /\ Work[t.id].offset \in Nat
  BY <1>1, <1>2, JobNumbers
<1>4. lane \in Nat /\ lane <= Lanes /\ ~CutOff(t, lane)
  <2>1. lane \in 0..(Lanes - 1) /\ \A k \in 0..lane : ~CutOff(t, k)
    BY DEF ActiveLanes
  <2> QED BY <1>3, <2>1
<1>5. Work[t.id].offset <= t.nonce /\ t.nonce < e /\ t.nonce \in Nat
  BY <1>2 DEF Slot, Nonce
<1>6. LaneNonce(t, lane) < e
  <2>1. LaneNonce(t, lane) \in Nat
    <3>1. s * lane \in Nat
      BY <1>3, <1>4
    <3>2. t.nonce + s * lane \in Nat
      BY <1>5, <3>1
    <3> QED BY <1>3, <3>2, Remainder DEF LaneNonce
  <2>2. ~(LaneNonce(t, lane) >= e)
    BY <1>2, <1>4 DEF CutOff
  <2> QED BY <1>3, <2>1, <2>2
<1>7. e + W + s * Lanes <= Space
  BY DEF Room
<1> HIDE DEF s, e
<1>8. s * lane <= s * Lanes /\ s * lane \in Nat /\ s * Lanes \in Nat
  BY <1>3, <1>4, SMTT(30)
<1>9. t.nonce + s * lane \in 0..(Space - 1)
  BY <1>3, <1>5, <1>7, <1>8
<1>10. LaneNonce(t, lane) = t.nonce + s * lane
  BY <1>3, <1>9, SmallRemainder DEF LaneNonce, s
<1> QED BY <1>3, <1>5, <1>6, <1>8, <1>9, <1>10 DEF Slot, Nonce, e
LEMMA HashBatchCovers ==
  ASSUME IInv, NEW w \in Thread, HashBatch(w)
  PROVE  Grows /\ Ahead(w)' /\ SlotTold' /\ SoloTold' /\ WithinSlot'
<1> DEFINE t == thread[w]
           r == thread'[w]
<1>0. TypeInv /\ JobsValid /\ SlotTold /\ SoloTold /\ WithinSlot /\ Ahead(w)
  BY DEF IInv
<1>1. /\ t.pc = "grind" /\ t.id \in JobId /\ t.nonce \in Nonce
      /\ r.pc = "report" /\ r.id = t.id /\ r.nonce = t.nonce /\ r.start = t.start
      /\ r.found = Solutions(t) /\ told' = told
  BY <1>0, HashBatchStep
<1>2. Grows
  BY <1>0, HashCounts
<1>3. SlotTold' /\ SoloTold'
  BY <1>0, <1>1, <1>2, ToldStays
<1>4. SlotAhead(w)'
  <2>1. ASSUME PoolJob(t.id), NEW n \in Stretch(t.id, w)
        PROVE  Done(t.id, n)' \/ Due(thread[w], n)'
    <3>1. n \in Slot(t.id)
      BY DEF Stretch
    <3>2. Done(t.id, n) \/ Due(t, n)
      BY <1>0, <1>1, <2>1 DEF Ahead, SlotAhead, InBatch
    <3>3. CASE Due(t, n)
      BY <1>0, <2>1, <3>1, <3>3, HashKeepsDue
    <3>4. CASE Done(t.id, n)
      <4>1. tried'[t.id][n] > 0
        BY <1>1, <1>2, <3>1, <3>4 DEF Grows, Done, Slot
      <4> QED BY <1>1, <3>4, <4>1 DEF Done
    <3> QED BY <3>2, <3>3, <3>4
  <2> QED BY <1>1, <2>1 DEF SlotAhead, Done, Stretch, Slot, PoolJob, HasEnd
<1>5. SoloAhead(w)'
  <2>1. ASSUME ~HasEnd(t.id)
        PROVE  /\ r.start = Cell(t.id, w, 0)
               /\ Round(t.id, w)' \/ UpTo(thread[w], w)' \/ Won(r)
    <3>1. t.start = Cell(t.id, w, 0) /\ (Round(t.id, w) \/ UpTo(t, w))
      BY <1>0, <1>1, <2>1 DEF Ahead, SoloAhead, InBatch, Won
    <3>2. CASE UpTo(t, w) /\ (Work[t.id].continuous \/ Hits(t) = {})
      BY <1>0, <1>1, <2>1, <3>1, <3>2, HashKeepsRound
    <3>4. CASE ~Work[t.id].continuous /\ Hits(t) # {}
      <4>1. t.nonce \in Nat
        BY <1>1 DEF Nonce
      <4>2. r.found # <<>>
        BY <1>1, <3>4, <4>1, SolutionsFound
      <4> QED BY <1>1, <3>1, <3>4, <4>2 DEF Won
    <3>3. CASE Round(t.id, w)
      <4>1. \A j \in Nat : tried'[t.id][Cell(t.id, w, j)] > 0
        BY <1>1, <1>2, <3>3, CellType DEF Grows, Round
      <4> QED BY <1>1, <3>1, <4>1 DEF Round, Cell
    <3> QED BY <1>1, <3>1, <3>2, <3>3, <3>4
  <2> QED BY <1>1, <2>1 DEF SoloAhead, HasEnd, Round, Cell, Won
<1>6. Inside(w)'
  <2>1. Room(t.id) => t.nonce \in Slot(t.id)
    BY <1>0, <1>1 DEF Ahead, Inside, InBatch
  <2> QED BY <1>1, <2>1 DEF Inside, Room, HasEnd, Slot
<1>7. WithinSlot'
  <2> SUFFICES ASSUME NEW id \in JobId, Room(id), NEW n \in Nonce, tried'[id][n] > 0
               PROVE  n \in Slot(id)
    BY DEF WithinSlot, Room, HasEnd, Slot
  <2>1. CASE tried[id][n] > 0
    BY <1>0, <2>1 DEF WithinSlot, Room
  <2>2. CASE id = t.id /\ \E lane \in ActiveLanes(t) : n = LaneNonce(t, lane)
    BY <1>0, <2>2, HashStaysInside DEF Ahead
  <2>3. HashedLanes(t) \subseteq ActiveLanes(t)
    BY DEF HashedLanes
  <2>4. \/ tried[id][n] > 0
        \/ id = t.id /\ \E lane \in HashedLanes(t) : n = LaneNonce(t, lane)
    BY <1>0, HashCounts
  <2> QED BY <2>1, <2>2, <2>3, <2>4
<1> QED BY <1>2, <1>3, <1>4, <1>5, <1>6, <1>7 DEF Ahead

(* What is through is done.                                                *)
LEMMA ThroughDone ==
  ASSUME IInv, NEW w \in Thread, Report(w), DoneBy(thread[w]), NEW id, id = thread[w].id
  PROVE  /\ PoolJob(id) => \A n \in Stretch(id, w) : Done(id, n)'
         /\ ~HasEnd(id) => Round(id, w)'
<1> DEFINE t == thread[w]
           r == thread'[w]
<1>0. TypeInv /\ JobsValid /\ Ahead(w)
  BY DEF IInv
<1>1. /\ t.pc = "report" /\ t.id \in JobId /\ t.found \in Seq(Nonce) /\ tried' = tried
      /\ told' = told \cup ToSet(ReportOf(t, w, DoneBy(t)))
      /\ r \in ThreadState
  BY <1>0, ReportStep
<1>2. Through(t)
  BY DEF DoneBy
<1>3. ASSUME PoolJob(t.id), NEW n \in Stretch(t.id, w)
      PROVE  /\ tried'[t.id][n] > 0
             /\ n \in Work[t.id].solve => \E v \in Thread : Solved(t.id, v, n) \in told'
  <2>1. Done(t.id, n) \/ Due(t, n)
    BY <1>0, <1>1, <1>3 DEF Ahead, SlotAhead, InBatch
  <2>2. CASE Done(t.id, n)
    BY <1>1, <2>2 DEF Done
  <2>3. CASE Due(t, n)
    <3>1. tried[t.id][n] > 0 /\ (n \in Work[t.id].solve => n \in ToSet(t.found))
      BY <1>1, <1>2, <2>3 DEF Due
    <3>2. n \in ToSet(t.found) => Solved(t.id, w, n) \in ToSet(ReportOf(t, w, DoneBy(t)))
      BY <1>1, ReportEvents
    <3> QED BY <1>1, <3>1, <3>2
  <2> QED BY <2>1, <2>2, <2>3
<1>4. ASSUME ~HasEnd(t.id), NEW j \in Nat
      PROVE  tried'[t.id][Cell(t.id, w, j)] > 0
  <2>1. t.start = Cell(t.id, w, 0) /\ (Round(t.id, w) \/ UpTo(t, w))
    BY <1>0, <1>1, <1>4 DEF Ahead, SoloAhead, InBatch, DoneBy, Won
  <2>2. CASE Round(t.id, w)
    BY <1>1, <2>2 DEF Round
  <2>3. CASE UpTo(t, w)
    <3>1. PICK m \in Nat : /\ \A i \in 0..(m - 1) : tried[t.id][Cell(t.id, w, i)] > 0
                           /\ m > 0 /\ ~t.dry /\ NextNonce(t) = Cell(t.id, w, m)
      BY <1>1, <2>3 DEF UpTo
    <3>2. Cell(t.id, w, m) = Cell(t.id, w, 0)
      BY <1>2, <1>4, <2>1, <3>1 DEF Through
    <3>3. \E i \in 0..(m - 1) : Cell(t.id, w, j) = Cell(t.id, w, i)
      <4>1. m \in Nat \ {0}
        BY <3>1
      <4> QED BY <1>1, <3>2, <4>1, CellPeriod
    <3> QED BY <1>1, <3>1, <3>3
  <2> QED BY <2>1, <2>2, <2>3
<1> QED BY <1>3, <1>4 DEF Done, Round, Cell

LEMMA ReportCovers ==
  ASSUME IInv, NEW w \in Thread, Report(w)
  PROVE  Grows /\ Ahead(w)' /\ SlotTold' /\ SoloTold' /\ WithinSlot'
<1> DEFINE t == thread[w]
           r == thread'[w]
<1>0. TypeInv /\ JobsValid /\ SlotTold /\ SoloTold /\ WithinSlot /\ Ahead(w)
  BY DEF IInv
<1>1. /\ t.pc = "report" /\ t.id \in JobId /\ ValidJob(t.id) /\ t.nonce \in Nonce
      /\ t.found \in Seq(Nonce) /\ tried' = tried
      /\ told' = told \cup ToSet(ReportOf(t, w, DoneBy(t)))
      /\ InBatch(r) => /\ ~Through(t) /\ ~Won(t) /\ r.pc = "grind" /\ r.id = t.id
                       /\ r.nonce = NextNonce(t) /\ r.start = t.start
  BY <1>0, ReportStep
<1>2. Grows
  BY <1>1 DEF Grows
<1>3. WithinSlot'
  BY <1>0, <1>1 DEF WithinSlot, HasEnd, Slot
<1>4. SlotTold' /\ SoloTold'
  <2>1. ASSUME NEW id \in JobId, NEW v \in Thread, Exhausted(id, v) \in told'
        PROVE  \/ Exhausted(id, v) \in told
               \/ /\ PoolJob(id) => \A n \in Stretch(id, v) : Done(id, n)'
                  /\ ~HasEnd(id) => Round(id, v)'
    <3>1. CASE Exhausted(id, v) \in told
      BY <3>1
    <3>2. CASE Exhausted(id, v) \in ToSet(ReportOf(t, w, DoneBy(t)))
      <4>1. DoneBy(t) /\ id = t.id /\ v = w
        BY <1>1, <3>2, ReportEvents
      <4> QED BY <4>1, ThroughDone
    <3> QED BY <1>1, <2>1, <3>1, <3>2
  <2> QED BY <1>0, <1>2, <2>1, ToldStays
<1>5. CASE ~InBatch(r)
  <2>1. Ahead(w)'
    BY <1>5 DEF Ahead, SlotAhead, SoloAhead, Inside, InBatch
  <2> QED BY <1>2, <1>3, <1>4, <2>1
<1>6. CASE InBatch(r)
  <2>1. ~Through(t) /\ ~Won(t) /\ r.pc = "grind" /\ r.id = t.id
        /\ r.nonce = NextNonce(t) /\ r.start = t.start
    BY <1>1, <1>6
  <2>2. ASSUME PoolJob(t.id), NEW n \in Stretch(t.id, w)
        PROVE  \/ /\ tried'[r.id][n] > 0
                  /\ n \in Work[r.id].solve => \E v \in Thread : Solved(r.id, v, n) \in told'
               \/ \E k \in Nat : n = r.nonce + k * Work[r.id].stride
    <3>1. Done(t.id, n) \/ Due(t, n)
      BY <1>0, <1>1, <2>2 DEF Ahead, SlotAhead, InBatch
    <3>2. CASE Done(t.id, n)
      BY <1>1, <2>1, <3>2 DEF Done
    <3>3. CASE Due(t, n)
      <4>1. \/ tried[t.id][n] > 0 /\ (n \in Work[t.id].solve => n \in ToSet(t.found))
            \/ \E k \in Nat : n = NextNonce(t) + k * Work[t.id].stride
        BY <1>1, <3>3 DEF Due
      <4>2. n \in ToSet(t.found) => Solved(t.id, w, n) \in ToSet(ReportOf(t, w, DoneBy(t)))
        BY <1>1, ReportEvents
      <4> QED BY <1>1, <2>1, <4>1, <4>2
    <3> QED BY <3>1, <3>2, <3>3
  <2>3. SlotAhead(w)'
    BY <2>1, <2>2 DEF SlotAhead, Done, Due, Stretch, Slot, PoolJob, HasEnd
  <2>4. SoloAhead(w)'
    <3>1. ASSUME ~HasEnd(t.id)
          PROVE  /\ r.start = Cell(t.id, w, 0)
                 /\ \/ \A j \in Nat : tried'[r.id][Cell(r.id, w, j)] > 0
                    \/ \E m \in Nat : /\ \A j \in 0..(m - 1) : tried'[r.id][Cell(r.id, w, j)] > 0
                                      /\ r.nonce = Cell(r.id, w, m)
      <4>1. t.start = Cell(t.id, w, 0) /\ (Round(t.id, w) \/ UpTo(t, w))
        BY <1>0, <1>1, <2>1, <3>1 DEF Ahead, SoloAhead, InBatch
      <4> QED BY <1>1, <2>1, <4>1 DEF Round, UpTo
    <3> QED BY <2>1, <3>1 DEF SoloAhead, HasEnd, Round, UpTo, Cell
  <2>5. Inside(w)'
    <3> SUFFICES ASSUME Room(t.id) PROVE NextNonce(t) \in Slot(t.id)
      BY <2>1 DEF Inside, Room, HasEnd, Slot
    <3>1. t.nonce \in Slot(t.id) /\ HasEnd(t.id)
      BY <1>0, <1>1 DEF Ahead, Inside, InBatch, Room
    <3>2. ~(NextNonce(t) >= Work[t.id].end) /\ ~(NextNonce(t) < t.nonce)
      BY <2>1, <3>1 DEF Through
    <3>3. NextNonce(t) \in Nonce /\ NextNonce(t) \in Nat /\ Work[t.id].end \in Nat
          /\ Work[t.id].offset \in Nat /\ t.nonce \in Nat
      BY <1>1, <3>1, NextNonceType, JobNumbers DEF Nonce
    <3> QED BY <3>1, <3>2, <3>3 DEF Slot
  <2> QED BY <1>2, <1>3, <1>4, <2>3, <2>4, <2>5 DEF Ahead
<1> QED BY <1>5, <1>6

-----------------------------------------------------------------------------
(* Every step.                                                             *)

(* A step of thread w that replaces its record, or of none.                *)
LEMMA TypesFollow ==
  ASSUME TypeInv, JobsValid, NEW w \in Thread,
         thread' = [thread EXCEPT ![w] = thread'[w]], thread'[w] \in ThreadState,
         stdin' \in Seq(Command), stdout' \in Seq(Result \cup {CommandError}),
         told' \in SUBSET Result, tried' \in [JobId -> [Nonce -> Nat]],
         shutdown' \in BOOLEAN,
         \/ current' = current /\ generation' = generation
         \/ current' = NoJob /\ generation' = generation + 1,
         thread'[w].seen <= generation,
         InBatch(thread'[w]) =>
           /\ thread'[w].id \in JobId /\ ValidJob(thread'[w].id)
           /\ thread'[w].seen = generation => thread'[w].id = current
  PROVE  TypeInv' /\ JobsValid'
<1>1. generation \in Nat /\ current \in JobId \cup {NoJob} /\ thread \in [Thread -> ThreadState]
      /\ \A v \in Thread : thread[v].seen <= generation /\ thread[v].seen \in Nat
  BY DEF TypeInv, ThreadState
<1>2. thread' \in [Thread -> ThreadState] /\ \A v \in Thread : v # w => thread'[v] = thread[v]
  BY <1>1
<1>3. thread'[w].seen \in Nat
  BY DEF ThreadState
<1>4. generation' \in Nat /\ generation <= generation' /\ current' \in JobId \cup {NoJob}
  BY <1>1
<1>5. ASSUME NEW v \in Thread PROVE thread'[v].seen <= generation'
  <2>1. thread'[v].seen <= generation /\ thread'[v].seen \in Nat
    BY <1>1, <1>2, <1>3
  <2> QED BY <1>1, <1>4, <2>1
<1>6. TypeInv'
  <2>1. /\ stdin' \in Seq(Command) /\ stdout' \in Seq(Result \cup {CommandError})
        /\ told' \in SUBSET Result
        /\ current' \in JobId \cup {NoJob} /\ generation' \in Nat /\ shutdown' \in BOOLEAN
        /\ thread' \in [Thread -> ThreadState]
        /\ \A v \in Thread : thread'[v].seen <= generation'
        /\ tried' \in [JobId -> [Nonce -> Nat]]
    BY <1>2, <1>4, <1>5
  <2> QED BY <2>1 DEF TypeInv
<1>7. ASSUME NEW v \in Thread, InBatch(thread'[v])
      PROVE  /\ thread'[v].id \in JobId /\ ValidJob(thread'[v].id)
             /\ thread'[v].seen = generation' => thread'[v].id = current'
  <2>1. thread'[v].seen <= generation /\ thread'[v].seen \in Nat
    BY <1>1, <1>2, <1>3
  <2>2. /\ thread'[v].id \in JobId /\ ValidJob(thread'[v].id)
        /\ thread'[v].seen = generation => thread'[v].id = current
    BY <1>2, <1>7 DEF JobsValid
  <2> QED BY <1>1, <2>1, <2>2
<1>8. current' # NoJob => ValidJob(current')
  BY DEF JobsValid
<1>9. JobsValid'
  BY <1>7, <1>8 DEF JobsValid, InBatch, ValidJob, HasEnd
<1> QED BY <1>6, <1>9

LEMMA TypesKept ==
  ASSUME TypeInv, JobsValid, NativeNext
  PROVE  TypeInv' /\ JobsValid'
<1>1. stdin \in Seq(Command) /\ stdout \in Seq(Result \cup {CommandError})
      /\ told \in SUBSET Result /\ shutdown \in BOOLEAN /\ generation \in Nat
      /\ tried \in [JobId -> [Nonce -> Nat]] /\ thread \in [Thread -> ThreadState]
      /\ current \in JobId \cup {NoJob}
      /\ \A v \in Thread : thread[v].seen <= generation /\ thread[v].seen \in Nat
  BY DEF TypeInv, ThreadState
<1>2. ASSUME NEW w \in Thread, TakeJob(w) PROVE TypeInv' /\ JobsValid'
  <2>1. UNCHANGED <<stdin, current, generation, shutdown, tried>>
    BY <1>2 DEF TakeJob
  <2>2. InBatch(thread'[w]) => thread'[w].id = current
    BY <1>2, TakeJobStep
  <2>3. /\ current \in JobId /\ ValidJob(current)
        /\ thread' = [thread EXCEPT ![w] = thread'[w]] /\ thread'[w] \in ThreadState
        /\ thread'[w].seen = generation
        /\ stdout' \in Seq(Result \cup {CommandError}) /\ told' \in SUBSET Result
    BY <1>2, TakeJobStep
  <2>4. thread'[w].seen <= generation
    BY <1>1, <2>3
  <2>5. InBatch(thread'[w]) =>
           /\ thread'[w].id \in JobId /\ ValidJob(thread'[w].id)
           /\ thread'[w].seen = generation => thread'[w].id = current
    BY <2>2, <2>3
  <2>6. stdin' \in Seq(Command) /\ tried' \in [JobId -> [Nonce -> Nat]] /\ shutdown' \in BOOLEAN
        /\ current' = current /\ generation' = generation
    BY <1>1, <2>1
  <2> QED BY <2>3, <2>4, <2>5, <2>6, TypesFollow
<1>3. ASSUME NEW w \in Thread, HashBatch(w) PROVE TypeInv' /\ JobsValid'
  <2> DEFINE t == thread[w]
             hashed == { LaneNonce(t, lane) : lane \in HashedLanes(t) }
             row == [n \in Nonce |-> IF n \in hashed THEN tried[t.id][n] + 1 ELSE tried[t.id][n]]
  <2>1. /\ t.id = current /\ current \in JobId /\ ValidJob(current)
        /\ thread' = [thread EXCEPT ![w] = thread'[w]] /\ thread'[w] \in ThreadState
        /\ thread'[w].seen = t.seen /\ thread'[w].id = t.id
        /\ tried' = [tried EXCEPT ![t.id] =
                      [n \in Nonce |-> IF n \in hashed THEN @[n] + 1 ELSE @[n]]]
        /\ told' = told /\ stdout' = stdout /\ generation' = generation
        /\ current' = current /\ shutdown' = shutdown /\ stdin' = stdin
    BY <1>3, HashBatchStep
  <2> HIDE DEF hashed
  <2>2. row \in [Nonce -> Nat]
    <3>1. \A n \in Nonce : tried[t.id][n] \in Nat
      BY <1>1, <2>1
    <3> QED BY <3>1
  <2>3. tried' = [tried EXCEPT ![t.id] = row]
    BY <1>1, <2>1
  <2>4. tried' \in [JobId -> [Nonce -> Nat]]
    <3> HIDE DEF row
    <3> QED BY <1>1, <2>1, <2>2, <2>3
  <2>5. thread'[w].seen <= generation
    BY <1>1, <2>1
  <2> HIDE DEF t, row
  <2> QED BY <1>1, <2>1, <2>4, <2>5, TypesFollow
<1>4. ASSUME NEW w \in Thread, Report(w) PROVE TypeInv' /\ JobsValid'
  <2> DEFINE t == thread[w]
  <2>1. /\ t.pc = "report" /\ t.id \in JobId /\ ValidJob(t.id)
        /\ thread' = [thread EXCEPT ![w] = thread'[w]] /\ thread'[w] \in ThreadState
        /\ thread'[w].seen = t.seen
        /\ InBatch(thread'[w]) => thread'[w].id = t.id
        /\ stdout' \in Seq(Result \cup {CommandError}) /\ told' \in SUBSET Result
        /\ \/ current' = current /\ generation' = generation
           \/ current' = NoJob /\ generation' = generation + 1
        /\ tried' = tried /\ shutdown' = shutdown /\ stdin' = stdin
    BY <1>4, ReportStep
  <2>2. t.seen = generation => t.id = current
    BY <2>1 DEF JobsValid, InBatch
  <2>3. thread'[w].seen <= generation
    BY <1>1, <2>1
  <2> HIDE DEF t
  <2> QED BY <1>1, <2>1, <2>2, <2>3, TypesFollow
<1>5. ASSUME NEW w \in Thread, LeaveLoop(w) \/ Superseded(w) \/ ClearSolved(w)
      PROVE  TypeInv' /\ JobsValid'
  <2>1. /\ thread' = [thread EXCEPT ![w] = thread'[w]] /\ thread'[w] \in ThreadState
        /\ thread'[w].seen = thread[w].seen /\ ~InBatch(thread'[w])
        /\ \/ current' = current /\ generation' = generation
           \/ current' = NoJob /\ generation' = generation + 1
        /\ UNCHANGED <<stdin, stdout, shutdown, tried, told>>
    BY <1>5, QuietStep
  <2>2. thread'[w].seen <= generation
    BY <1>1, <2>1
  <2> QED BY <1>1, <2>1, <2>2, TypesFollow
<1>6. ASSUME ReadCommand PROVE TypeInv' /\ JobsValid'
  <2>1. /\ stdin' \in Seq(Command) /\ stdout' \in Seq(Result \cup {CommandError})
        /\ told' = told /\ thread' = thread /\ tried' = tried /\ shutdown' \in BOOLEAN
        /\ \/ current' = current /\ generation' \in {generation, generation + 1}
           \/ /\ current' \in JobId \cup {NoJob} /\ generation' = generation + 1
              /\ current' # NoJob => ValidJob(current')
    BY <1>6, ReadStep
  <2>2. generation' \in Nat /\ generation <= generation' /\ current' \in JobId \cup {NoJob}
    BY <1>1, <2>1
  <2>3. \A v \in Thread : thread[v].seen <= generation'
    BY <1>1, <2>2
  <2>4. TypeInv'
    BY <1>1, <2>1, <2>2, <2>3 DEF TypeInv
  <2>5. current' # NoJob => ValidJob(current')
    BY <2>1 DEF JobsValid
  <2>6. ASSUME NEW v \in Thread, InBatch(thread[v])
        PROVE  /\ thread[v].id \in JobId /\ ValidJob(thread[v].id)
               /\ thread[v].seen = generation' => thread[v].id = current'
    BY <1>1, <2>1, <2>6 DEF JobsValid
  <2>7. JobsValid'
    BY <2>1, <2>5, <2>6 DEF JobsValid, InBatch, ValidJob, HasEnd
  <2> QED BY <2>4, <2>7
<1>7. ASSUME NEW commands \in Seq(Command), ClientWrites(commands)
      PROVE  TypeInv' /\ JobsValid'
  <2>1. stdin' \in Seq(Command) /\ UNCHANGED <<stdout, processVars>>
    BY <1>1, <1>7, ConcatProperties DEF ClientWrites
  <2> QED BY <2>1 DEF processVars, TypeInv, JobsValid, InBatch, ValidJob, HasEnd
<1>8. ASSUME ClientReads PROVE TypeInv' /\ JobsValid'
  <2>1. stdout' \in Seq(Result \cup {CommandError}) /\ UNCHANGED <<stdin, processVars>>
    <3> DEFINE Event == Result \cup {CommandError}
    <3>1. stdout \in Seq(Event) /\ stdout # <<>> /\ stdout' = Tail(stdout)
          /\ UNCHANGED <<stdin, processVars>>
      BY <1>1, <1>8 DEF ClientReads
    <3> HIDE DEF Event
    <3>2. Tail(stdout) \in Seq(Event)
      BY <3>1
    <3> QED BY <3>1, <3>2 DEF Event
  <2> QED BY <2>1 DEF processVars, TypeInv, JobsValid, InBatch, ValidJob, HasEnd
<1> QED BY <1>2, <1>3, <1>4, <1>5, <1>6, <1>7, <1>8 DEF NativeNext, ProcessNext, ThreadStep
(* A step in which nothing is hashed and nothing said.                     *)
LEMMA QuietCovers ==
  ASSUME IInv, told' = told, tried' = tried,
         \A w \in Thread : thread'[w] = thread[w] \/ ~InBatch(thread'[w])
  PROVE  (\A w \in Thread : Ahead(w)') /\ SlotTold' /\ SoloTold' /\ WithinSlot'
<1>1. JobsValid /\ SlotTold /\ SoloTold /\ WithinSlot /\ \A w \in Thread : Ahead(w)
  BY DEF IInv
<1>2. Grows
  BY DEF Grows
<1>3. \A w \in Thread : Ahead(w)'
  BY <1>1, <1>2, AheadStays
<1>4. SlotTold' /\ SoloTold'
  BY <1>1, <1>2, ToldStays
<1>5. WithinSlot'
  BY <1>1 DEF WithinSlot, HasEnd, Slot
<1> QED BY <1>3, <1>4, <1>5

LEMMA StepKeeps ==
  ASSUME IInv, NativeNext
  PROVE  IInv'
<1>1. TypeInv /\ JobsValid /\ \A w \in Thread : Ahead(w)
  BY DEF IInv
<1>2. TypeInv' /\ JobsValid'
  BY <1>1, TypesKept
<1> DEFINE Covers == (\A v \in Thread : Ahead(v)') /\ SlotTold' /\ SoloTold' /\ WithinSlot'
<1>3. ASSUME NEW w \in Thread, Grows, Ahead(w)', SlotTold', SoloTold', WithinSlot',
             thread' = [thread EXCEPT ![w] = thread'[w]]
      PROVE  Covers
  <2>1. \A v \in Thread : v # w => thread'[v] = thread[v]
    BY <1>1, <1>3 DEF TypeInv
  <2>2. ASSUME NEW v \in Thread PROVE Ahead(v)'
    <3>1. CASE v = w
      BY <1>3, <3>1
    <3>2. CASE v # w
      BY <1>1, <1>3, <2>1, <3>2, AheadStays
    <3> QED BY <3>1, <3>2
  <2> QED BY <1>3, <2>2
<1>4. ASSUME NEW w \in Thread, TakeJob(w) PROVE Covers
  <2>1. thread' = [thread EXCEPT ![w] = thread'[w]]
    BY <1>1, <1>4, TakeJobStep
  <2>2. Grows /\ Ahead(w)' /\ SlotTold' /\ SoloTold' /\ WithinSlot'
    BY <1>4, TakeJobCovers
  <2> QED BY <1>3, <2>1, <2>2
<1>5. ASSUME NEW w \in Thread, HashBatch(w) PROVE Covers
  <2>1. thread' = [thread EXCEPT ![w] = thread'[w]]
    BY <1>1, <1>5, HashBatchStep
  <2>2. Grows /\ Ahead(w)' /\ SlotTold' /\ SoloTold' /\ WithinSlot'
    BY <1>5, HashBatchCovers
  <2> QED BY <1>3, <2>1, <2>2
<1>6. ASSUME NEW w \in Thread, Report(w) PROVE Covers
  <2>1. thread' = [thread EXCEPT ![w] = thread'[w]]
    BY <1>1, <1>6, ReportStep
  <2>2. Grows /\ Ahead(w)' /\ SlotTold' /\ SoloTold' /\ WithinSlot'
    BY <1>6, ReportCovers
  <2> QED BY <1>3, <2>1, <2>2
<1>7. ASSUME NEW w \in Thread, LeaveLoop(w) \/ Superseded(w) \/ ClearSolved(w) PROVE Covers
  <2>1. /\ thread' = [thread EXCEPT ![w] = thread'[w]] /\ ~InBatch(thread'[w])
        /\ told' = told /\ tried' = tried
    BY <1>1, <1>7, QuietStep
  <2>2. \A v \in Thread : thread'[v] = thread[v] \/ ~InBatch(thread'[v])
    BY <1>1, <2>1 DEF TypeInv
  <2> QED BY <2>1, <2>2, QuietCovers
<1>8. ASSUME ReadCommand PROVE Covers
  <2>1. told' = told /\ thread' = thread /\ tried' = tried
    BY <1>1, <1>8, ReadStep
  <2> QED BY <2>1, QuietCovers
<1>9. ASSUME (\E commands \in Seq(Command) : ClientWrites(commands)) \/ ClientReads
      PROVE  Covers
  <2>1. told' = told /\ thread' = thread /\ tried' = tried
    BY <1>9 DEF ClientWrites, ClientReads, processVars
  <2> QED BY <2>1, QuietCovers
<1>10. Covers
  <2> HIDE DEF Covers
  <2> QED BY <1>4, <1>5, <1>6, <1>7, <1>8, <1>9 DEF NativeNext, ProcessNext, ThreadStep
<1> QED BY <1>2, <1>10 DEF IInv

LEMMA Begins == NativeInit => IInv
<1> SUFFICES ASSUME NativeInit PROVE IInv
  OBVIOUS
<1>1. \A w \in Thread : thread[w] = Waiting(0)
  BY DEF NativeInit
<1>2. Waiting(0) \in ThreadState /\ ~InBatch(Waiting(0)) /\ Waiting(0).seen = 0
  BY WaitingType, 0 \in Nat
<1>3. \A w \in Thread : ~InBatch(thread[w]) /\ thread[w].seen = 0
  BY <1>1, <1>2
<1>4. TypeInv
  <2>1. stdin \in Seq(Command) /\ stdout \in Seq(Result \cup {CommandError})
    BY DEF NativeInit
  <2>2. tried \in [JobId -> [Nonce -> Nat]]
    BY DEF NativeInit
  <2>3. thread \in [Thread -> ThreadState]
    BY <1>2 DEF NativeInit
  <2>4. current = NoJob /\ generation = 0 /\ shutdown = FALSE /\ told = {}
    BY DEF NativeInit
  <2>5. \A w \in Thread : thread[w].seen <= generation
    BY <1>3, <2>4
  <2> QED BY <2>1, <2>2, <2>3, <2>4, <2>5 DEF TypeInv
<1>5. JobsValid
  BY <1>3 DEF JobsValid, NativeInit
<1>6. \A w \in Thread : Ahead(w)
  BY <1>3 DEF Ahead, SlotAhead, SoloAhead, Inside
<1>7. SlotTold /\ SoloTold
  BY DEF SlotTold, SoloTold, NativeInit
<1>8. WithinSlot
  BY DEF WithinSlot, NativeInit
<1> QED BY <1>4, <1>5, <1>6, <1>7, <1>8 DEF IInv

(* The invariant gives the properties.                                     *)
LEMMA Suffices == IInv => Covered /\ NativeTypeOK
<1> SUFFICES ASSUME IInv PROVE Covered /\ NativeTypeOK
  OBVIOUS
<1>1. SlotDone
  <2> SUFFICES ASSUME NEW id \in JobId, HasEnd(id), Work[id].continuous,
                      Work[id].stride \in 1..W, AllThrough(id), NEW n \in Slot(id)
               PROVE  Done(id, n)
    BY DEF SlotDone, Done
  <2> DEFINE offset == Work[id].offset
             s == Work[id].stride
  <2>1. offset \in Nat /\ s \in Nat \ {0} /\ n \in Nat /\ offset <= n /\ W \in Nat /\ s <= W
    BY JobNumbers DEF Slot, Nonce
  <2> HIDE DEF offset, s
  <2>2. (n - offset) % s \in 0..(s - 1)
        /\ \E k \in Nat : n - offset = k * s + ((n - offset) % s)
    BY <2>1, Remainder, n - offset \in Nat
  <2>3. PICK w \in 0..(s - 1), k \in Nat : n - offset = k * s + w
    BY <2>2
  <2>4. w \in Thread
    BY <2>1, <2>3 DEF Thread
  <2>5. n = offset + w + k * s
    <3>1. k * s \in Nat
      BY <2>1
    <3> QED BY <2>1, <2>3, <3>1
  <2>6. n \in Stretch(id, w)
    BY <2>5 DEF Stretch, offset, s
  <2>7. Exhausted(id, w) \in told
    BY <2>4 DEF AllThrough
  <2> QED BY <2>4, <2>6, <2>7 DEF IInv, SlotTold, PoolJob
<1>2. SoloClassDone
  <2> SUFFICES ASSUME NEW id \in JobId, NEW w \in Thread, ~HasEnd(id),
                      Exhausted(id, w) \in told, NEW k \in 0..(Space - 1)
               PROVE  tried[id][Cell(id, w, k)] > 0
    BY DEF SoloClassDone, Cell
  <2> QED BY DEF IInv, SoloTold, Round
<1>3. GrindsCurrent
  BY DEF IInv, JobsValid, GrindsCurrent, InBatch
<1>4. Covered
  BY <1>1, <1>2, <1>3 DEF IInv, Covered
<1>5. NativeTypeOK
  <2>1. TypeInv
    BY DEF IInv
  <2>2. \A e \in told : e.id \in JobId /\ e.worker \in Thread
    BY <2>1 DEF TypeInv, Result, SolvedEvent, ExhaustedEvent, Solved, Exhausted
  <2>3. ASSUME NEW w \in Thread
        PROVE  /\ thread[w].pc \in {"wait", "grind", "report", "clear", "exited"}
               /\ thread[w].seen \in 0..generation
               /\ thread[w].id \in JobId \cup {NoJob}
               /\ thread[w].nonce \in Nonce /\ thread[w].start \in Nonce
    <3>1. thread[w] \in ThreadState /\ thread[w].seen <= generation /\ generation \in Nat
      BY <2>1 DEF TypeInv
    <3> QED BY <3>1 DEF ThreadState
  <2> QED BY <2>1, <2>2, <2>3 DEF NativeTypeOK, TypeInv
<1> QED BY <1>4, <1>5

-----------------------------------------------------------------------------
LEMMA NativeInductive == NativeSpec => []IInv
<1>1. IInv /\ UNCHANGED nativeVars => IInv'
  <2> SUFFICES ASSUME IInv, UNCHANGED nativeVars PROVE IInv'
    OBVIOUS
  <2>1. UNCHANGED <<stdin, stdout, current, generation, shutdown, thread, tried, told>>
    BY DEF nativeVars, processVars
  <2>2. (\A w \in Thread : Ahead(w)') /\ SlotTold' /\ SoloTold' /\ WithinSlot'
    BY <2>1, QuietCovers
  <2>3. TypeInv' /\ JobsValid'
    BY <2>1 DEF IInv, TypeInv, JobsValid, InBatch, ValidJob, HasEnd
  <2> QED BY <2>2, <2>3 DEF IInv
<1>2. IInv /\ [NativeNext]_nativeVars => IInv'
  BY <1>1, StepKeeps
<1> QED BY <1>2, Begins, PTL DEF NativeSpec

(* Whatever the client writes, in whatever order the threads run: a slot   *)
(* reported exhausted by all of them is hashed to its last nonce and every *)
(* solution reported; a solo round reported exhausted is complete, whether *)
(* or not the stride divides 2^32; no thread grinds anything but the       *)
(* current job on the current generation, nor leaves a slot that ends far  *)
(* enough from 2^32 (main.rs worker_loop, grind, grind_batch).             *)
THEOREM NativeCovers == NativeSpec => []Covered
  BY NativeInductive, Suffices, PTL

(* Generations, jobs and nonces have their types: next_nonce wraps round.  *)
THEOREM NativeTypes == NativeSpec => []NativeTypeOK
  BY NativeInductive, Suffices, PTL

-----------------------------------------------------------------------------
(* The pool client.                                                        *)

Event == Result \cup {CommandError}

(* The client has named the native jobs up to its counter: the process     *)
(* knows of no other.                                                      *)
Named(id) == id.n <= Counter

NamedOnly ==
  /\ \A i \in DOMAIN stdin : stdin[i].type = "start" => Named(stdin[i].id)
  /\ current # NoJob => Named(current)
  /\ \A w \in Thread : InBatch(thread[w]) => Named(thread[w].id)
  /\ \A e \in told : Named(e.id)

(* What is found was hashed, and solves.                                   *)
Hashed(id, n) == tried[id][n] > 0 /\ n \in Work[id].solve

FoundHashed ==
  /\ \A w \in Thread : thread[w].pc = "report" =>
       \A n \in ToSet(thread[w].found) : Hashed(thread[w].id, n)
  /\ \A e \in told : e.type = "solved" => Hashed(e.id, e.nonce)

(* A continuous job is never cleared for a solution.                       *)
NoneCleared == \A w \in Thread : thread[w].pc # "clear"

Heard == ToSet(stdout) \subseteq told \cup {CommandError}

Process == NamedOnly /\ FoundHashed /\ NoneCleared /\ Heard

(* The process that reads a Shutdown has read a Stop before it.            *)
StopFirst ==
  stdin # <<>> /\ Last(stdin) = Shutdown =>
    IF Len(stdin) = 1 THEN current = NoJob ELSE stdin[Len(stdin) - 1] = Stop

-----------------------------------------------------------------------------
(* The client.                                                             *)

Share == [id : JobId, worker : 1..MaxReg, job : 1..MaxPoolJobs, nonce : Nonce]
ShareState ==
  [id : JobId, worker : 1..MaxReg, job : 1..MaxPoolJobs, nonce : Nonce,
   at : {"sent", "backoff", "final", "stale"}]

IdsOK ==
  /\ poolJob \in 1..MaxPoolJobs /\ workerId \in 1..MaxReg
  /\ activePoolJob \in 0..MaxPoolJobs /\ activeNative \in JobId \cup {NoJob}

LoopOK ==
  /\ loop \in {"fetch", "sleep", "register", "register404", "sleepRegister", "ended"}
  /\ answer \in Unusable..MaxPoolJobs /\ (answer # Pending => loop = "fetch")
  /\ reregisterForFreshSlot \in BOOLEAN

IsKey(key) == key = NoJob \/ \E id \in JobId : key = Key(id)

KeysOK == IsKey(lastRestartKey) /\ IsKey(exhaustedKey)
CountsOK == exhaustedWorkers \subseteq Thread /\ slotFullyExhausted \in BOOLEAN
SharesOK == shares \in SUBSET ShareState /\ posted \in SUBSET Share

ClientTypes == IdsOK /\ LoopOK /\ KeysOK /\ CountsOK /\ SharesOK

(* The client's native job is of a worker id it had, or has, and, while it *)
(* holds a job of the pool, a start of that one.                           *)
ActiveMatches ==
  /\ activeNative # NoJob => activeNative.worker <= workerId
  /\ activePoolJob # 0 =>
       /\ activeNative # NoJob
       /\ activeNative.job = activePoolJob /\ activeNative.worker = workerId

(* A share posted is of the job its nonce was found for.                   *)
PostedHashed ==
  \A share \in posted :
    /\ share.worker = share.id.worker /\ share.job = share.id.job
    /\ Hashed(share.id, share.nonce)

Posted(n) ==
  \E share \in posted : /\ share.nonce = n /\ share.job = activeNative.job
                        /\ share.worker = activeNative.worker

AtWork == activePoolJob # 0 /\ loop # "ended"

(* What is left out as a duplicate has been posted.                        *)
SubmittedPosted ==
  loop # "ended" =>
    \A key \in submitted : \E share \in posted :
      key = <<share.worker, share.job, share.nonce>>

(* A solution of the job at hand is posted or in the pipe, and before the  *)
(* report that its thread is through.                                      *)
Delivered ==
  AtWork =>
    \A e \in told : e.type = "solved" /\ e.id = activeNative =>
      Posted(e.nonce) \/ e \in ToSet(stdout)

SolvedFirst ==
  AtWork =>
    \A i \in DOMAIN stdout : stdout[i].type = "exhausted" /\ stdout[i].id = activeNative =>
      \A n \in Stretch(activeNative, stdout[i].worker) : n \in Work[activeNative].solve =>
        \/ Posted(n)
        \/ \E k \in 1..(i - 1) : /\ stdout[k].type = "solved" /\ stdout[k].id = activeNative
                                 /\ stdout[k].nonce = n

(* A thread that counts as exhausted has hashed its part of the slot, and  *)
(* its solutions are posted.                                               *)
Finished(n) ==
  tried[activeNative][n] > 0 /\ (n \in Work[activeNative].solve => Posted(n))

ExhaustedDone ==
  AtWork => \A w \in exhaustedWorkers : \A n \in Stretch(activeNative, w) : Finished(n)

FullMeansAll == slotFullyExhausted => exhaustedWorkers = Thread

Reports == SubmittedPosted /\ Delivered /\ SolvedFirst /\ ExhaustedDone /\ FullMeansAll

(* After a slot is full the client registers before it polls again.        *)
Registers == loop # "fetch" /\ (loop = "sleep" => reregisterForFreshSlot)

FinishedBehind ==
  \A f \in finished : f[1] \in 1..workerId /\ (f[1] = workerId => Registers)

PoolInv ==
  /\ IInv /\ Process /\ ClientTypes /\ ActiveMatches
  /\ PostedHashed /\ Reports /\ FinishedBehind

-----------------------------------------------------------------------------
(* The jobs of a pool.                                                     *)

LEMMA PoolNumbers ==
  /\ MaxPoolJobs \in Nat \ {0} /\ MaxReg \in Nat \ {0} /\ MaxNative \in Nat \ {0}
  /\ \A id \in JobId : /\ id.n \in 1..MaxNative /\ id.worker \in 1..MaxReg
                       /\ id.job \in 1..MaxPoolJobs
                       /\ HasEnd(id) /\ Work[id].continuous /\ Work[id].stride = W
                       /\ PoolJob(id)
  BY PoolConstants DEF PoolJob

(* The threads of a pool client share out all of a slot.                   *)
LEMMA StretchesCover ==
  ASSUME NEW id \in JobId, NEW n \in Slot(id)
  PROVE  \E w \in Thread : n \in Stretch(id, w)
<1> DEFINE offset == Work[id].offset
<1>1. offset \in Nat /\ n \in Nat /\ offset <= n /\ W \in Nat \ {0} /\ Work[id].stride = W
  BY JobNumbers, PoolNumbers DEF Slot, Nonce
<1> HIDE DEF offset
<1>2. n - offset \in Nat
  BY <1>1
<1>3. (n - offset) % W \in 0..(W - 1) /\ \E k \in Nat : n - offset = k * W + ((n - offset) % W)
  BY <1>1, <1>2, Remainder
<1>4. PICK w \in 0..(W - 1), k \in Nat : n - offset = k * W + w
  BY <1>3
<1>5. k * W \in Nat
  BY <1>1
<1>6. n = offset + w + k * W
  BY <1>1, <1>4, <1>5
<1> QED BY <1>1, <1>6 DEF Stretch, Thread, offset

-----------------------------------------------------------------------------
(* Sequences.                                                              *)

LEMMA JoinedParts ==
  ASSUME NEW S, NEW s \in Seq(S), NEW t \in Seq(S)
  PROVE  /\ s \o t \in Seq(S) /\ Len(s) \in Nat /\ Len(t) \in Nat
         /\ Len(s \o t) = Len(s) + Len(t) /\ DOMAIN (s \o t) = 1..(Len(s) + Len(t))
         /\ \A i \in 1..Len(s) : (s \o t)[i] = s[i]
         /\ \A i \in 1..Len(t) : (s \o t)[Len(s) + i] = t[i]
         /\ \A i \in 1..(Len(s) + Len(t)) :
              i \in 1..Len(s) \/ \E k \in 1..Len(t) : i = Len(s) + k
<1> DEFINE st == s \o t
<1>1. Len(s) \in Nat /\ Len(t) \in Nat
  BY LenProperties
<1>2. st \in Seq(S) /\ Len(st) = Len(s) + Len(t)
      /\ \A i \in 1..(Len(s) + Len(t)) : st[i] = IF i <= Len(s) THEN s[i] ELSE t[i - Len(s)]
  BY ConcatProperties, Zenon
<1>3. DOMAIN st = 1..Len(st)
  BY <1>2, LenProperties
<1> HIDE DEF st
<1>4. ASSUME NEW i \in 1..Len(s) PROVE st[i] = s[i]
  BY <1>1, <1>2
<1>5. ASSUME NEW i \in 1..Len(t) PROVE st[Len(s) + i] = t[i]
  <2>1. Len(s) + i \in 1..(Len(s) + Len(t)) /\ ~(Len(s) + i <= Len(s)) /\ (Len(s) + i) - Len(s) = i
    BY <1>1
  <2> QED BY <1>2, <2>1
<1>6. ASSUME NEW i \in 1..(Len(s) + Len(t)), i \notin 1..Len(s)
      PROVE  \E k \in 1..Len(t) : i = Len(s) + k
  <2>1. i - Len(s) \in 1..Len(t) /\ i = Len(s) + (i - Len(s))
    BY <1>1, <1>6
  <2> QED BY <2>1
<1> QED BY <1>1, <1>2, <1>3, <1>4, <1>5, <1>6 DEF st

LEMMA TailParts ==
  ASSUME NEW S, NEW s \in Seq(S), s # <<>>
  PROVE  /\ Head(s) = s[1] /\ Head(s) \in S /\ Tail(s) \in Seq(S)
         /\ Len(s) \in Nat \ {0} /\ Len(Tail(s)) = Len(s) - 1
         /\ DOMAIN s = 1..Len(s) /\ DOMAIN Tail(s) = 1..(Len(s) - 1)
         /\ \A i \in 1..(Len(s) - 1) : Tail(s)[i] = s[i + 1]
<1>1. Head(s) \in S /\ Tail(s) \in Seq(S) /\ Len(Tail(s)) = Len(s) - 1
      /\ \A i \in 1..Len(Tail(s)) : Tail(s)[i] = s[i + 1]
  BY HeadTailProperties
<1>2. Len(s) \in Nat \ {0} /\ DOMAIN s = 1..Len(s) /\ DOMAIN Tail(s) = 1..Len(Tail(s))
  BY <1>1, EmptySeq, LenProperties
<1> QED BY <1>1, <1>2

-----------------------------------------------------------------------------
(* What the process says in a step.                                        *)

Says(events) ==
  /\ events \in Seq(Event)
  /\ stdout' = stdout \o events
  /\ told' = told \cup {e \in ToSet(events) : e.type # "error"}
  /\ \A i \in 1..Len(events) :
       /\ events[i].type # "error" =>
            \/ current # NoJob /\ events[i].id = current
            \/ \E w \in Thread : InBatch(thread[w]) /\ events[i].id = thread[w].id
       /\ events[i].type = "exhausted" => i = Len(events)
       /\ events[i].type = "solved" =>
            \E w \in Thread : /\ thread[w].pc = "report" /\ events[i].id = thread[w].id
                              /\ events[i].nonce \in ToSet(thread[w].found)

LEMMA SaysNothing ==
  ASSUME TypeInv, stdout' = stdout, told' = told
  PROVE  \E events : Says(events)
<1>1. stdout \in Seq(Event)
  BY DEF TypeInv, Event
<1>2. stdout \o <<>> = stdout
  BY <1>1, ConcatEmptySeq
<1>3. ToSet(<<>>) = {} /\ Len(<<>>) = 0 /\ <<>> \in Seq(Event)
  BY EmptySeq DEF ToSet
<1>4. told = told \cup {e \in ToSet(<<>>) : e.type # "error"}
  BY <1>3
<1>5. Says(<<>>)
  BY <1>2, <1>3, <1>4 DEF Says
<1> QED BY <1>5

LEMMA ReportOrder ==
  ASSUME NEW t, t.id \in JobId, t.found \in Seq(Nonce), NEW w \in Thread, NEW done,
         NEW i \in 1..Len(ReportOf(t, w, done))
  PROVE  LET e == ReportOf(t, w, done)[i]
         IN /\ e.id = t.id
            /\ e.type = "exhausted" => i = Len(ReportOf(t, w, done))
            /\ e.type = "solved" => e.nonce \in ToSet(t.found)
<1> DEFINE f == t.found
           sols == [k \in DOMAIN f |-> Solved(t.id, w, f[k])]
           last == IF done THEN <<Exhausted(t.id, w)>> ELSE <<>>
           all == ReportOf(t, w, done)
           e == all[i]
<1>1. Len(f) \in Nat /\ DOMAIN f = 1..Len(f) /\ \A k \in 1..Len(f) : f[k] \in Nonce
  BY ElementOfSeq, LenProperties
<1>2. \A k \in 1..Len(f) : Solved(t.id, w, f[k]) \in Result
  BY <1>1 DEF Result, SolvedEvent
<1>3. sols \in Seq(Result) /\ Len(sols) = Len(f) /\ \A k \in 1..Len(f) : sols[k] = Solved(t.id, w, f[k])
  <2> HIDE DEF f
  <2>1. sols \in [1..Len(f) -> Result]
    BY <1>1, <1>2
  <2> QED BY <1>1, <2>1
<1>4. last \in Seq(Result) /\ Len(last) \in {0, 1} /\ (Len(last) = 1 => last[1] = Exhausted(t.id, w))
  <2>1. Exhausted(t.id, w) \in Result
    BY DEF Result, ExhaustedEvent
  <2> QED BY <2>1
<1>5. all = sols \o last
  BY DEF ReportOf
<1> HIDE DEF sols, last, f, all
<1>6. /\ Len(all) = Len(sols) + Len(last) /\ Len(sols) \in Nat
      /\ \A k \in 1..Len(sols) : all[k] = sols[k]
      /\ \A k \in 1..Len(last) : all[Len(sols) + k] = last[k]
      /\ \A k \in 1..(Len(sols) + Len(last)) :
           k \in 1..Len(sols) \/ \E j \in 1..Len(last) : k = Len(sols) + j
  <2>1. sols \in Seq(Result) /\ last \in Seq(Result)
    BY <1>3, <1>4
  <2>2. /\ Len(sols \o last) = Len(sols) + Len(last) /\ Len(sols) \in Nat
        /\ \A k \in 1..Len(sols) : (sols \o last)[k] = sols[k]
        /\ \A k \in 1..Len(last) : (sols \o last)[Len(sols) + k] = last[k]
        /\ \A k \in 1..(Len(sols) + Len(last)) :
             k \in 1..Len(sols) \/ \E j \in 1..Len(last) : k = Len(sols) + j
    BY <2>1, JoinedParts
  <2> QED BY <1>5, <2>2
<1>7. i \in 1..(Len(sols) + Len(last))
  BY <1>6 DEF all
<1>8. CASE i \in 1..Len(sols)
  <2>1. i \in 1..Len(f) /\ e = Solved(t.id, w, f[i])
    BY <1>3, <1>6, <1>8
  <2>2. f[i] \in ToSet(f)
    BY <1>1, <2>1 DEF ToSet
  <2>3. e.id = t.id /\ e.type = "solved" /\ e.nonce = f[i]
    BY <2>1 DEF Solved
  <2> QED BY <2>2, <2>3 DEF f, all
<1>9. CASE \E j \in 1..Len(last) : i = Len(sols) + j
  <2>1. Len(last) = 1 /\ i = Len(sols) + 1
    <3>1. CASE Len(last) = 0
      BY <1>9, <3>1
    <3>2. CASE Len(last) = 1
      BY <1>9, <3>2
    <3> QED BY <1>4, <3>1, <3>2
  <2>2. 1 \in 1..Len(last)
    BY <2>1
  <2>3. all[Len(sols) + 1] = last[1]
    BY <1>6, <2>2
  <2>4. e = Exhausted(t.id, w) /\ i = Len(all)
    BY <1>4, <1>6, <2>1, <2>3
  <2>5. e.id = t.id /\ e.type = "exhausted"
    BY <2>4 DEF Exhausted
  <2> QED BY <2>4, <2>5 DEF all
<1> QED BY <1>6, <1>7, <1>8, <1>9

LEMMA ProcessSays ==
  ASSUME IInv, NoneCleared, ProcessNext
  PROVE  \E events : Says(events)
<1>1. TypeInv /\ JobsValid
  BY DEF IInv
<1>2. stdout \in Seq(Event) /\ Result \subseteq Event /\ CommandError \in Event
      /\ \A e \in Result : e.type # "error"
  BY <1>1 DEF TypeInv, Event, Result, SolvedEvent, ExhaustedEvent, Solved, Exhausted
<1>3. ASSUME NEW w \in Thread, TakeJob(w) PROVE \E events : Says(events)
  <2> DEFINE x == Exhausted(current, w)
  <2>1. current \in JobId /\ current # NoJob
    BY <1>1, <1>3, NativeConstants, TakeJobStep
  <2>2. CASE Emit(<<x>>)
    <3>1. x \in Result /\ x.type = "exhausted" /\ x.id = current
      BY <2>1 DEF Result, ExhaustedEvent, Exhausted
    <3> HIDE DEF x
    <3>2. <<x>> \in Seq(Event) /\ Len(<<x>>) = 1 /\ <<x>>[1] = x
      BY <1>2, <3>1
    <3>3. stdout' = stdout \o <<x>> /\ told' = told \cup {e \in ToSet(<<x>>) : e.type # "error"}
      BY <2>2 DEF Emit
    <3>4. Says(<<x>>)
      BY <2>1, <3>1, <3>2, <3>3 DEF Says
    <3> QED BY <3>4
  <2>3. CASE UNCHANGED <<stdout, told>>
    BY <1>1, <2>3, SaysNothing
  <2> QED BY <1>3, <2>2, <2>3 DEF TakeJob
<1>4. ASSUME NEW w \in Thread, Report(w) PROVE \E events : Says(events)
  <2> DEFINE t == thread[w]
             all == ReportOf(t, w, DoneBy(t))
  <2>1. t.pc = "report" /\ t.id \in JobId /\ t.found \in Seq(Nonce)
    BY <1>1, <1>4, ReportStep
  <2>2. Emit(all)
    BY <1>4 DEF Report, DoneBy
  <2>3. all \in Seq(Result)
    <3> HIDE DEF t
    <3> QED BY <2>1, ReportEvents
  <2>4. all \in Seq(Event)
    <3> HIDE DEF all
    <3> QED BY <1>2, <2>3, SeqMonotonic
  <2>5. \A i \in 1..Len(all) : /\ all[i].id = t.id
                               /\ all[i].type = "exhausted" => i = Len(all)
                               /\ all[i].type = "solved" => all[i].nonce \in ToSet(t.found)
    <3> HIDE DEF t
    <3> QED BY <2>1, ReportOrder
  <2>6. InBatch(t)
    BY <2>1 DEF InBatch
  <2> HIDE DEF all
  <2>7. Says(all)
    BY <2>1, <2>2, <2>4, <2>5, <2>6 DEF Says, Emit
  <2> QED BY <2>7
<1>5. ASSUME ReadCommand PROVE \E events : Says(events)
  <2>1. CASE Emit(<<CommandError>>)
    <3> DEFINE x == CommandError
    <3>1. x.type = "error"
      BY DEF CommandError
    <3> HIDE DEF x
    <3>2. x \in Event
      BY <1>2 DEF x
    <3>3. <<x>> \in Seq(Event) /\ Len(<<x>>) = 1 /\ <<x>>[1] = x
      BY <3>2
    <3>4. stdout' = stdout \o <<x>> /\ told' = told \cup {e \in ToSet(<<x>>) : e.type # "error"}
      BY <2>1 DEF Emit, x
    <3>5. Says(<<x>>)
      BY <3>1, <3>3, <3>4 DEF Says
    <3> QED BY <3>5
  <2>2. CASE UNCHANGED <<stdout, told>>
    BY <1>1, <2>2, SaysNothing
  <2> QED BY <1>5, <2>1, <2>2 DEF ReadCommand
<1>6. ASSUME NEW w \in Thread, HashBatch(w) \/ LeaveLoop(w) \/ Superseded(w) \/ ClearSolved(w)
      PROVE  \E events : Says(events)
  <2>1. stdout' = stdout /\ told' = told
    BY <1>6 DEF HashBatch, LeaveLoop, Superseded, ClearSolved
  <2> QED BY <1>1, <2>1, SaysNothing
<1> QED BY <1>3, <1>4, <1>5, <1>6 DEF ProcessNext, ThreadStep
-----------------------------------------------------------------------------
(* What a step of the process does besides.                                *)

(* The job that is current, and the commands that are left.                *)
Reads ==
  \/ stdin' = stdin /\ current' = current
  \/ /\ stdin # <<>> /\ stdin' = Tail(stdin)
     /\ LET cmd == Head(stdin)
        IN \/ /\ cmd.type = "start"
              /\ current' = IF ValidJob(cmd.id) THEN cmd.id ELSE current
           \/ cmd.type = "stop" /\ current' = NoJob
           \/ cmd.type = "shutdown" /\ current' = current

NowHashed(id, n) == tried'[id][n] > 0 /\ n \in Work[id].solve

(* What a thread takes up is current; what it newly found was hashed.      *)
Moves ==
  /\ Grows
  /\ \A w \in Thread :
       /\ thread'[w].pc # "clear"
       /\ InBatch(thread'[w]) =>
            \/ InBatch(thread[w]) /\ thread'[w].id = thread[w].id
            \/ current # NoJob /\ thread'[w].id = current
       /\ thread'[w].pc = "report" =>
            \/ thread'[w] = thread[w]
            \/ /\ thread'[w].id \in JobId
               /\ \A n \in ToSet(thread'[w].found) : NowHashed(thread'[w].id, n)

LEMMA HashFinds ==
  ASSUME TypeInv, JobsValid, NEW w \in Thread, HashBatch(w),
         NEW n \in ToSet(thread'[w].found)
  PROVE  NowHashed(thread'[w].id, n)
<1> DEFINE t == thread[w]
<1>1. /\ t.id \in JobId /\ t.nonce \in Nonce /\ thread'[w].id = t.id
      /\ thread'[w].found = Solutions(t)
  BY HashBatchStep
<1>2. Work[t.id].continuous /\ t.nonce \in Nat
  BY <1>1, PoolNumbers DEF Nonce
<1>3. Solutions(t) \in Seq(Nonce) /\ ToSet(Solutions(t)) = {LaneNonce(t, lane) : lane \in Hits(t)}
  <2> HIDE DEF t
  <2> QED BY <1>1, <1>2, SolutionsFound
<1>4. PICK lane \in Hits(t) : n = LaneNonce(t, lane)
  BY <1>1, <1>3
<1>5. lane \in HashedLanes(t) /\ n \in Work[t.id].solve
  <2>1. HashedLanes(t) = ActiveLanes(t)
    <3> HIDE DEF t
    <3> QED BY <1>2, AllHashed
  <2> QED BY <1>4, <2>1 DEF Hits
<1>6. n \in Nonce
  <2>1. DOMAIN Solutions(t) = 1..Len(Solutions(t))
        /\ \A i \in 1..Len(Solutions(t)) : Solutions(t)[i] \in Nonce
    BY <1>3, LenProperties, ElementOfSeq
  <2> QED BY <1>1, <2>1 DEF ToSet
<1>7. tried'[t.id][n] > 0
  <2>1. \A k \in HashedLanes(t) : LaneNonce(t, k) \in Nonce => tried'[t.id][LaneNonce(t, k)] > 0
    BY HashCounts
  <2> HIDE DEF t
  <2> QED BY <1>4, <1>5, <1>6, <2>1
<1> QED BY <1>1, <1>5, <1>7 DEF NowHashed

LEMMA Changed ==
  ASSUME TypeInv, NEW w \in Thread, NEW r, thread' = [thread EXCEPT ![w] = r]
  PROVE  thread'[w] = r /\ \A v \in Thread : v # w => thread'[v] = thread[v]
  BY DEF TypeInv

LEMMA ProcessMoves ==
  ASSUME IInv, NoneCleared, ProcessNext
  PROVE  Moves /\ Reads
<1>1. TypeInv /\ JobsValid /\ \A w \in Thread : thread[w].pc # "clear"
  BY DEF IInv, NoneCleared
<1> DEFINE Own(w) ==
       /\ thread'[w].pc # "clear"
       /\ InBatch(thread'[w]) =>
            \/ InBatch(thread[w]) /\ thread'[w].id = thread[w].id
            \/ current # NoJob /\ thread'[w].id = current
       /\ thread'[w].pc = "report" =>
            \/ thread'[w] = thread[w]
            \/ /\ thread'[w].id \in JobId
               /\ \A n \in ToSet(thread'[w].found) : NowHashed(thread'[w].id, n)
<1>2. ASSUME NEW w \in Thread, thread'[w] = thread[w] PROVE Own(w)
  BY <1>1, <1>2
<1>3. ASSUME NEW w \in Thread, thread' = [thread EXCEPT ![w] = thread'[w]], Own(w), Grows
      PROVE  Moves
  <2>1. \A v \in Thread : v # w => thread'[v] = thread[v]
    BY <1>1, <1>3, Changed
  <2>2. \A v \in Thread : Own(v)
    <3> HIDE DEF Own
    <3> QED BY <1>2, <1>3, <2>1
  <2> QED BY <1>3, <2>2 DEF Moves
<1>4. told' = told /\ tried' = tried => Grows
  BY DEF Grows
<1>5. ASSUME NEW w \in Thread, TakeJob(w) PROVE Moves /\ Reads
  <2>1. /\ current \in JobId /\ thread' = [thread EXCEPT ![w] = thread'[w]]
        /\ InBatch(thread'[w]) => thread'[w].pc = "grind" /\ thread'[w].id = current
    BY <1>1, <1>5, TakeJobStep
  <2>2. stdin' = stdin /\ current' = current /\ tried' = tried
    BY <1>5 DEF TakeJob
  <2>3. told \subseteq told' /\ (InBatch(thread'[w]) \/ thread'[w].pc = "wait")
    <3>1. CASE HasEnd(current) /\ (Work[current].offset + w) % Space >= Work[current].end
      <4>1. Emit(<<Exhausted(current, w)>>) /\ thread' = [thread EXCEPT ![w] = Waiting(generation)]
        BY <1>5, <3>1 DEF TakeJob
      <4>2. thread'[w] = Waiting(generation)
        BY <1>1, <4>1, Changed
      <4> QED BY <4>1, <4>2 DEF Emit, Waiting
    <3>2. CASE ~(HasEnd(current) /\ (Work[current].offset + w) % Space >= Work[current].end)
      <4>1. told' = told
        BY <1>5, <3>2 DEF TakeJob
      <4>2. thread'[w].pc = "grind"
        BY <1>1, <1>5, <3>2, FirstNonce, TakeJobStep
      <4> QED BY <4>1, <4>2 DEF InBatch
    <3> QED BY <3>1, <3>2
  <2>4. Grows
    BY <2>2, <2>3 DEF Grows
  <2>5. Own(w)
    BY <2>1, <2>3, NativeConstants DEF InBatch
  <2> HIDE DEF Own
  <2> QED BY <1>3, <2>1, <2>2, <2>4, <2>5 DEF Reads
<1>6. ASSUME NEW w \in Thread, HashBatch(w) PROVE Moves /\ Reads
  <2>1. /\ thread' = [thread EXCEPT ![w] = thread'[w]] /\ thread'[w].pc = "report"
        /\ thread[w].pc = "grind" /\ thread'[w].id = thread[w].id /\ thread[w].id \in JobId
    BY <1>1, <1>6, HashBatchStep
  <2>2. stdin' = stdin /\ current' = current
    BY <1>6 DEF HashBatch
  <2>3. Grows
    BY <1>1, <1>6, HashCounts
  <2>4. \A n \in ToSet(thread'[w].found) : NowHashed(thread'[w].id, n)
    BY <1>1, <1>6, HashFinds
  <2>5. Own(w)
    BY <2>1, <2>4 DEF InBatch
  <2> HIDE DEF Own
  <2> QED BY <1>3, <2>1, <2>2, <2>3, <2>5 DEF Reads
<1>7. ASSUME NEW w \in Thread, Report(w) PROVE Moves /\ Reads
  <2> DEFINE t == thread[w]
             done == DoneBy(t)
  <2>1. /\ t.pc = "report" /\ t.id \in JobId /\ thread' = [thread EXCEPT ![w] = thread'[w]]
        /\ InBatch(thread'[w]) => thread'[w].pc = "grind" /\ thread'[w].id = t.id
        /\ told' = told \cup ToSet(ReportOf(t, w, done)) /\ tried' = tried
    BY <1>1, <1>7, ReportStep
  <2>2. Work[t.id].continuous /\ HasEnd(t.id)
    BY <2>1, PoolNumbers
  <2>3. stdin' = stdin /\ current' = current
    BY <1>7, <2>2 DEF Report
  <2>4. Grows
    BY <2>1 DEF Grows
  <2>5. thread'[w].pc # "clear"
    <3>1. thread' = [thread EXCEPT ![w] =
                       IF Through(t) THEN Waiting(t.seen)
                       ELSE [t EXCEPT !.pc = "grind", !.nonce = NextNonce(t),
                                      !.found = <<>>, !.dry = FALSE]]
      BY <1>7, <2>2 DEF Report
    <3>2. thread'[w] = IF Through(t) THEN Waiting(t.seen)
                       ELSE [t EXCEPT !.pc = "grind", !.nonce = NextNonce(t),
                                      !.found = <<>>, !.dry = FALSE]
      BY <1>1, <3>1, Changed
    <3>3. CASE Through(t)
      BY <3>2, <3>3 DEF Waiting
    <3>4. CASE ~Through(t)
      <4>1. t \in ThreadState
        BY <1>1 DEF TypeInv
      <4> HIDE DEF t
      <4>2. [t EXCEPT !.pc = "grind", !.nonce = NextNonce(t), !.found = <<>>, !.dry = FALSE].pc
              = "grind"
        BY <4>1 DEF ThreadState
      <4> QED BY <3>2, <3>4, <4>2
    <3> QED BY <3>3, <3>4
  <2>6. Own(w)
    BY <2>1, <2>5 DEF InBatch
  <2> HIDE DEF Own
  <2> QED BY <1>3, <2>1, <2>3, <2>4, <2>6 DEF Reads
<1>8. ASSUME NEW w \in Thread, LeaveLoop(w) \/ Superseded(w) \/ ClearSolved(w)
      PROVE  Moves /\ Reads
  <2>1. /\ thread' = [thread EXCEPT ![w] = thread'[w]] /\ ~InBatch(thread'[w])
        /\ UNCHANGED <<stdin, shutdown, tried, told>>
    BY <1>1, <1>8, QuietStep
  <2>2. ~ClearSolved(w)
    BY <1>1 DEF ClearSolved
  <2>3. current' = current
    BY <1>8, <2>2 DEF LeaveLoop, Superseded
  <2>4. thread'[w].pc # "clear"
    <3>1. CASE LeaveLoop(w)
      <4>1. thread' = [thread EXCEPT ![w] = [thread[w] EXCEPT !.pc = "exited"]]
        BY <3>1 DEF LeaveLoop
      <4>2. thread'[w] = [thread[w] EXCEPT !.pc = "exited"] /\ thread[w] \in ThreadState
        BY <1>1, <4>1, Changed DEF TypeInv
      <4> QED BY <4>2 DEF ThreadState
    <3>2. CASE Superseded(w)
      <4>1. thread'[w] = Waiting(thread[w].seen)
        BY <1>1, <3>2, Changed DEF Superseded
      <4> QED BY <4>1 DEF Waiting
    <3> QED BY <1>8, <2>2, <3>1, <3>2
  <2>5. Own(w)
    BY <2>1, <2>4 DEF InBatch
  <2>6. Grows
    BY <1>4, <2>1
  <2> HIDE DEF Own
  <2> QED BY <1>3, <2>1, <2>3, <2>5, <2>6 DEF Reads
<1>9. ASSUME ReadCommand PROVE Moves /\ Reads
  <2>1. told' = told /\ thread' = thread /\ tried' = tried
    BY <1>1, <1>9, ReadStep
  <2>2. Grows
    BY <1>4, <2>1
  <2>3. Moves
    BY <1>2, <2>1, <2>2 DEF Moves
  <2>4. Reads
    BY <1>9 DEF ReadCommand, ReplaceJob, Reads
  <2> QED BY <2>3, <2>4
<1> QED BY <1>5, <1>6, <1>7, <1>8, <1>9 DEF ProcessNext, ThreadStep
-----------------------------------------------------------------------------
(* The process and its pipes.                                              *)

LEMMA CounterType ==
  ASSUME ClientTypes
  PROVE  Counter \in Nat /\ \A id \in JobId : id.n \in Nat
  BY PoolNumbers DEF ClientTypes, IdsOK, Counter

LEMMA EventTypes ==
  /\ \A e \in Result : e.id \in JobId /\ e.worker \in Thread /\ e.type \in {"solved", "exhausted"}
  /\ \A e \in Result : e.type = "solved" => e.nonce \in Nonce
  /\ \A e \in Result : e.type = "exhausted" => e = Exhausted(e.id, e.worker)
  /\ CommandError.type = "error"
  BY DEF Result, SolvedEvent, ExhaustedEvent, Solved, Exhausted, CommandError

LEMMA CommandTypes ==
  \A c \in Command : /\ c.type \in {"start", "stop", "shutdown"}
                     /\ c.type = "start" => c.id \in JobId /\ c = Start(c.id)
                     /\ c.type = "stop" => c = Stop
                     /\ c.type = "shutdown" => c = Shutdown
  BY DEF Command, Start, Stop, Shutdown

LEMMA PipeTypes ==
  ASSUME IInv
  PROVE  stdin \in Seq(Command) /\ stdout \in Seq(Event) /\ told \in SUBSET Result
  BY DEF IInv, TypeInv, Event

LEMMA ProcessKept ==
  ASSUME IInv, ClientTypes, Process, ProcessNext, Counter' = Counter
  PROVE  IInv' /\ Process'
<1>1. NoneCleared /\ NamedOnly /\ FoundHashed /\ Heard
  BY DEF Process
<1>2. IInv'
  BY StepKeeps DEF NativeNext
<1>3. Moves /\ Reads
  BY <1>1, ProcessMoves
<1>4. PICK events : Says(events)
  BY <1>1, ProcessSays
<1>5. stdin \in Seq(Command) /\ stdout \in Seq(Event) /\ told \in SUBSET Result
  BY PipeTypes
<1>6. told' \in SUBSET Result
  BY <1>2 DEF IInv, TypeInv
<1>7. NoneCleared'
  BY <1>3 DEF Moves, NoneCleared
<1>8. \A e \in told' : e \in told \/ \E i \in 1..Len(events) : e = events[i] /\ e.type # "error"
  <2>1. DOMAIN events = 1..Len(events)
    BY <1>4, LenProperties DEF Says
  <2> QED BY <1>4, <2>1 DEF Says, ToSet
<1>9. NamedOnly'
  <2>1. \A id : Named(id) <=> id.n <= Counter'
    BY DEF Named
  <2>2. ASSUME NEW i \in DOMAIN stdin', stdin'[i].type = "start" PROVE stdin'[i].id.n <= Counter
    <3>1. CASE stdin' = stdin
      BY <1>1, <2>2, <3>1 DEF NamedOnly, Named
    <3>2. CASE stdin # <<>> /\ stdin' = Tail(stdin)
      <4>1. /\ Len(stdin) \in Nat \ {0} /\ DOMAIN stdin = 1..Len(stdin)
            /\ DOMAIN Tail(stdin) = 1..(Len(stdin) - 1)
            /\ \A k \in 1..(Len(stdin) - 1) : Tail(stdin)[k] = stdin[k + 1]
        BY <1>5, <3>2, TailParts
      <4>2. i \in 1..(Len(stdin) - 1) /\ i + 1 \in DOMAIN stdin
        BY <3>2, <4>1
      <4>3. stdin'[i] = stdin[i + 1]
        BY <3>2, <4>1, <4>2
      <4> QED BY <1>1, <2>2, <4>2, <4>3 DEF NamedOnly, Named
    <3> QED BY <1>3, <3>1, <3>2 DEF Reads
  <2>3. current' # NoJob => current'.n <= Counter
    <3>1. CASE current' = current
      BY <1>1, <3>1 DEF NamedOnly, Named
    <3>2. CASE stdin # <<>> /\ Head(stdin).type = "start" /\ current' = Head(stdin).id
      <4>1. Head(stdin) = stdin[1] /\ 1 \in DOMAIN stdin
        BY <1>5, <3>2, TailParts
      <4> QED BY <1>1, <3>2, <4>1 DEF NamedOnly, Named
    <3> QED BY <1>3, <3>1, <3>2 DEF Reads
  <2>4. ASSUME NEW w \in Thread, InBatch(thread'[w]) PROVE thread'[w].id.n <= Counter
    BY <1>1, <1>3, <2>4 DEF Moves, NamedOnly, Named
  <2>5. ASSUME NEW e \in told' PROVE e.id.n <= Counter
    <3>1. CASE e \in told
      BY <1>1, <3>1 DEF NamedOnly, Named
    <3>2. CASE \E i \in 1..Len(events) : e = events[i] /\ e.type # "error"
      BY <1>1, <1>4, <3>2 DEF Says, NamedOnly, Named
    <3> QED BY <1>8, <3>1, <3>2
  <2> QED BY <2>2, <2>3, <2>4, <2>5 DEF NamedOnly, Named, InBatch
<1>10. FoundHashed'
  <2>1. \A id \in JobId, n \in Nonce : tried[id][n] > 0 => tried'[id][n] > 0
    BY <1>3 DEF Moves, Grows
  <2>2. ASSUME NEW w \in Thread, thread[w].pc = "report", NEW n \in ToSet(thread[w].found)
        PROVE  NowHashed(thread[w].id, n)
    <3>1. thread[w] \in ThreadState /\ thread[w].id \in JobId
      BY <2>2 DEF IInv, TypeInv, JobsValid, InBatch
    <3>2. n \in Nonce
      <4>1. thread[w].found \in Seq(Nonce)
        BY <3>1 DEF ThreadState
      <4> QED BY <4>1, LenProperties, ElementOfSeq DEF ToSet
    <3>3. tried[thread[w].id][n] > 0 /\ n \in Work[thread[w].id].solve
      BY <1>1, <2>2 DEF FoundHashed, Hashed
    <3> QED BY <2>1, <3>1, <3>2, <3>3 DEF NowHashed
  <2>3. ASSUME NEW w \in Thread, thread'[w].pc = "report", NEW n \in ToSet(thread'[w].found)
        PROVE  NowHashed(thread'[w].id, n)
    <3>1. CASE thread'[w] = thread[w]
      <4>1. thread[w].pc = "report" /\ n \in ToSet(thread[w].found)
        BY <2>3, <3>1
      <4> QED BY <2>2, <3>1, <4>1
    <3> QED BY <1>3, <2>3, <3>1 DEF Moves
  <2>4. ASSUME NEW e \in told', e.type = "solved" PROVE NowHashed(e.id, e.nonce)
    <3>1. CASE e \in told
      <4>1. e.id \in JobId /\ e.nonce \in Nonce
        BY <1>5, <2>4, <3>1, EventTypes
      <4>2. tried[e.id][e.nonce] > 0 /\ e.nonce \in Work[e.id].solve
        BY <1>1, <2>4, <3>1 DEF FoundHashed, Hashed
      <4> QED BY <2>1, <4>1, <4>2 DEF NowHashed
    <3>2. CASE \E i \in 1..Len(events) : e = events[i] /\ e.type # "error"
      <4>1. PICK w \in Thread : /\ thread[w].pc = "report" /\ e.id = thread[w].id
                                /\ e.nonce \in ToSet(thread[w].found)
        BY <1>4, <2>4, <3>2 DEF Says
      <4> QED BY <2>2, <4>1
    <3> QED BY <1>8, <3>1, <3>2
  <2> QED BY <2>3, <2>4 DEF FoundHashed, Hashed, NowHashed
<1>11. Heard'
  <2>1. /\ stdout' \in Seq(Event)
        /\ DOMAIN stdout' = 1..(Len(stdout) + Len(events)) /\ Len(stdout) \in Nat
        /\ \A i \in 1..Len(stdout) : stdout'[i] = stdout[i]
        /\ \A i \in 1..Len(events) : stdout'[Len(stdout) + i] = events[i]
        /\ \A i \in 1..(Len(stdout) + Len(events)) :
             i \in 1..Len(stdout) \/ \E k \in 1..Len(events) : i = Len(stdout) + k
    <3>1. events \in Seq(Event) /\ stdout' = stdout \o events
      BY <1>4 DEF Says
    <3> DEFINE all == stdout \o events
    <3>2. /\ all \in Seq(Event)
          /\ DOMAIN all = 1..(Len(stdout) + Len(events)) /\ Len(stdout) \in Nat
          /\ \A i \in 1..Len(stdout) : all[i] = stdout[i]
          /\ \A i \in 1..Len(events) : all[Len(stdout) + i] = events[i]
          /\ \A i \in 1..(Len(stdout) + Len(events)) :
               i \in 1..Len(stdout) \/ \E k \in 1..Len(events) : i = Len(stdout) + k
      BY <1>5, <3>1, JoinedParts
    <3>3. stdout' = all
      BY <3>1
    <3> HIDE DEF all
    <3> QED BY <3>2, <3>3
  <2>2. DOMAIN stdout = 1..Len(stdout) /\ DOMAIN events = 1..Len(events)
        /\ \A i \in 1..Len(events) : events[i] \in Event
    BY <1>4, <1>5, LenProperties, ElementOfSeq DEF Says
  <2>3. ASSUME NEW i \in 1..Len(stdout) PROVE stdout[i] \in told' \cup {CommandError}
    BY <1>1, <1>4, <2>2 DEF Heard, Says, ToSet
  <2>4. ASSUME NEW i \in 1..Len(events) PROVE events[i] \in told' \cup {CommandError}
    <3>1. CASE events[i] = CommandError
      BY <3>1
    <3>2. CASE events[i] # CommandError
      <4>1. events[i].type # "error"
        BY <2>2, <3>2, EventTypes DEF Event
      <4>2. events[i] \in ToSet(events)
        BY <2>2 DEF ToSet
      <4> QED BY <1>4, <4>1, <4>2 DEF Says
    <3> QED BY <3>1, <3>2
  <2>5. ASSUME NEW e \in ToSet(stdout') PROVE e \in told' \cup {CommandError}
    <3>1. PICK i \in 1..(Len(stdout) + Len(events)) : e = stdout'[i]
      BY <2>1 DEF ToSet
    <3> QED BY <2>1, <2>3, <2>4, <3>1
  <2> QED BY <2>5 DEF Heard
<1> QED BY <1>2, <1>7, <1>9, <1>10, <1>11 DEF Process

(* The client writes: nothing but jobs it has named.                       *)
LEMMA WriteKept ==
  ASSUME IInv, ClientTypes, Process, NEW commands \in Seq(Command), ClientWrites(commands),
         Counter' \in Nat, Counter <= Counter',
         \A i \in 1..Len(commands) : commands[i].type = "start" => commands[i].id.n <= Counter'
  PROVE  IInv' /\ Process'
<1>1. IInv'
  BY StepKeeps DEF NativeNext
<1>2. /\ stdin' = stdin \o commands /\ stdout' = stdout /\ current' = current
      /\ thread' = thread /\ tried' = tried /\ told' = told
  BY DEF ClientWrites, processVars
<1>3. NamedOnly /\ FoundHashed /\ NoneCleared /\ Heard
  BY DEF Process
<1>4. Counter \in Nat /\ \A id \in JobId : id.n \in Nat
  BY CounterType
<1>5. \A id \in JobId : Named(id) => id.n <= Counter'
  BY <1>4 DEF Named
<1>6. stdin \in Seq(Command) /\ told \in SUBSET Result /\ current \in JobId \cup {NoJob}
      /\ \A w \in Thread : InBatch(thread[w]) => thread[w].id \in JobId
  BY DEF IInv, TypeInv, JobsValid
<1>7. NamedOnly'
  <2>1. /\ DOMAIN stdin' = 1..(Len(stdin) + Len(commands))
        /\ \A i \in 1..Len(stdin) : stdin'[i] = stdin[i]
        /\ \A i \in 1..Len(commands) : stdin'[Len(stdin) + i] = commands[i]
        /\ \A i \in 1..(Len(stdin) + Len(commands)) :
             i \in 1..Len(stdin) \/ \E k \in 1..Len(commands) : i = Len(stdin) + k
    BY <1>2, <1>6, JoinedParts
  <2>2. ASSUME NEW i \in 1..Len(stdin), stdin[i].type = "start" PROVE stdin[i].id.n <= Counter'
    <3>1. i \in DOMAIN stdin /\ stdin[i] \in Command
      BY <1>6, LenProperties, ElementOfSeq
    <3>2. stdin[i].id \in JobId
      BY <2>2, <3>1, CommandTypes
    <3>3. Named(stdin[i].id)
      BY <1>3, <2>2, <3>1 DEF NamedOnly
    <3> QED BY <1>5, <3>2, <3>3
  <2>3. ASSUME NEW i \in DOMAIN stdin', stdin'[i].type = "start"
        PROVE  stdin'[i].id.n <= Counter'
    <3>1. CASE i \in 1..Len(stdin)
      BY <2>1, <2>2, <2>3, <3>1
    <3>2. CASE \E k \in 1..Len(commands) : i = Len(stdin) + k
      BY <2>1, <2>3, <3>2
    <3> QED BY <2>1, <3>1, <3>2
  <2>4. \A e \in told : e.id.n <= Counter'
    BY <1>3, <1>5, <1>6, EventTypes DEF NamedOnly
  <2>5. current # NoJob => current.n <= Counter'
    BY <1>3, <1>5, <1>6 DEF NamedOnly
  <2>6. \A w \in Thread : InBatch(thread[w]) => thread[w].id.n <= Counter'
    BY <1>3, <1>5, <1>6 DEF NamedOnly
  <2> QED BY <1>2, <2>3, <2>4, <2>5, <2>6 DEF NamedOnly, Named, InBatch
<1>8. FoundHashed' /\ NoneCleared' /\ Heard'
  BY <1>2, <1>3 DEF FoundHashed, NoneCleared, Heard, Hashed, ToSet
<1> QED BY <1>1, <1>7, <1>8 DEF Process

(* Neither writing nor reading.                                            *)
LEMMA RestKept ==
  ASSUME IInv, Process, UNCHANGED nativeVars, Counter' = Counter
  PROVE  IInv' /\ Process'
<1>1. UNCHANGED <<stdin, stdout, current, generation, shutdown, thread, tried, told>>
  BY DEF nativeVars, processVars
<1>2. IInv'
  <2>1. (\A w \in Thread : Ahead(w)') /\ SlotTold' /\ SoloTold' /\ WithinSlot'
    BY <1>1, QuietCovers
  <2>2. TypeInv' /\ JobsValid'
    BY <1>1 DEF IInv, TypeInv, JobsValid, InBatch, ValidJob, HasEnd
  <2> QED BY <2>1, <2>2 DEF IInv
<1>3. Process'
  BY <1>1 DEF Process, NamedOnly, FoundHashed, NoneCleared, Heard, Hashed, ToSet, Named, InBatch
<1> QED BY <1>2, <1>3

LEMMA ReadKept ==
  ASSUME IInv, Process, ClientReads, Counter' = Counter
  PROVE  IInv' /\ Process'
<1>1. IInv'
  BY StepKeeps DEF NativeNext
<1>2. /\ stdin' = stdin /\ stdout # <<>> /\ stdout' = Tail(stdout) /\ current' = current
      /\ thread' = thread /\ tried' = tried /\ told' = told
  BY DEF ClientReads, processVars
<1>3. stdout \in Seq(Event)
  BY PipeTypes
<1>4. ToSet(stdout') \subseteq ToSet(stdout)
  <2>1. /\ Len(stdout) \in Nat \ {0} /\ DOMAIN stdout = 1..Len(stdout)
        /\ DOMAIN Tail(stdout) = 1..(Len(stdout) - 1)
        /\ \A i \in 1..(Len(stdout) - 1) : Tail(stdout)[i] = stdout[i + 1]
    BY <1>2, <1>3, TailParts
  <2>2. \A i \in 1..(Len(stdout) - 1) : i + 1 \in DOMAIN stdout
    BY <2>1
  <2> QED BY <1>2, <2>1, <2>2 DEF ToSet
<1>5. Process'
  BY <1>2, <1>4 DEF Process, NamedOnly, FoundHashed, NoneCleared, Heard, Hashed, Named, InBatch
<1> QED BY <1>1, <1>5
-----------------------------------------------------------------------------
(* What was reported of the job at hand, over a step of the process.       *)

LEMMA PostedStays ==
  ASSUME posted \subseteq posted', activeNative' = activeNative, NEW n, Posted(n)
  PROVE  Posted(n)'
  BY DEF Posted

LEMMA FinishedStays ==
  ASSUME IInv, ClientTypes, Grows, posted \subseteq posted', activeNative' = activeNative,
         activeNative # NoJob, NEW w \in Thread, NEW n \in Stretch(activeNative, w), Finished(n)
  PROVE  Finished(n)'
<1>1. activeNative \in JobId
  BY DEF ClientTypes, IdsOK, CountsOK
<1>2. n \in Nonce
  BY DEF Stretch, Slot
<1>3. tried'[activeNative][n] > 0
  BY <1>1, <1>2 DEF Grows, Finished
<1>4. n \in Work[activeNative].solve => Posted(n)'
  BY PostedStays DEF Finished
<1> QED BY <1>3, <1>4 DEF Finished

LEMMA ProcessReports ==
  ASSUME IInv, ClientTypes, Process, ActiveMatches, Reports, ProcessNext, UNCHANGED clientVars
  PROVE  Reports'
<1>1. /\ UNCHANGED <<poolJob, loop, answer, reregisterForFreshSlot, workerId, activePoolJob>>
      /\ UNCHANGED <<activeNative, exhaustedWorkers, slotFullyExhausted, submitted, shares, posted>>
  BY DEF clientVars, round, assigned, counts, outbox
<1>2. IInv' /\ Process'
  BY <1>1, ProcessKept DEF Counter
<1>3. Moves
  BY ProcessMoves DEF Process
<1>4. PICK events : Says(events)
  BY ProcessSays DEF Process
<1>5. SubmittedPosted /\ Delivered /\ SolvedFirst /\ ExhaustedDone /\ FullMeansAll
  BY DEF Reports
<1>6. SubmittedPosted' /\ FullMeansAll'
  BY <1>1, <1>5 DEF SubmittedPosted, FullMeansAll
<1> SUFFICES ASSUME AtWork' PROVE Delivered' /\ SolvedFirst' /\ ExhaustedDone'
  BY <1>6 DEF Reports, Delivered, SolvedFirst, ExhaustedDone
<1> DEFINE a == activeNative
<1>7. AtWork /\ a \in JobId /\ a # NoJob
  BY <1>1 DEF AtWork, ActiveMatches, ClientTypes, IdsOK
<1>8. /\ stdout \in Seq(Event) /\ events \in Seq(Event) /\ told' \in SUBSET Result
      /\ stdout' = stdout \o events
  BY <1>2, <1>4, PipeTypes DEF Says, IInv, TypeInv
<1>9. /\ DOMAIN stdout' = 1..(Len(stdout) + Len(events))
      /\ Len(stdout) \in Nat /\ Len(events) \in Nat
      /\ \A i \in 1..Len(stdout) : stdout'[i] = stdout[i]
      /\ \A i \in 1..Len(events) : stdout'[Len(stdout) + i] = events[i]
      /\ \A i \in 1..(Len(stdout) + Len(events)) :
           i \in 1..Len(stdout) \/ \E k \in 1..Len(events) : i = Len(stdout) + k
  <2> DEFINE all == stdout \o events
  <2>1. /\ DOMAIN all = 1..(Len(stdout) + Len(events))
        /\ Len(stdout) \in Nat /\ Len(events) \in Nat
        /\ \A i \in 1..Len(stdout) : all[i] = stdout[i]
        /\ \A i \in 1..Len(events) : all[Len(stdout) + i] = events[i]
        /\ \A i \in 1..(Len(stdout) + Len(events)) :
             i \in 1..Len(stdout) \/ \E k \in 1..Len(events) : i = Len(stdout) + k
    BY <1>8, JoinedParts
  <2>2. stdout' = all
    BY <1>8
  <2> HIDE DEF all
  <2> QED BY <2>1, <2>2
<1>10. DOMAIN stdout = 1..Len(stdout) /\ DOMAIN events = 1..Len(events)
  BY <1>8, LenProperties
<1>11. ToSet(stdout') = ToSet(stdout) \cup ToSet(events)
  <2>1. \A i \in 1..Len(stdout) : i \in 1..(Len(stdout) + Len(events))
    BY <1>9
  <2>2. \A i \in 1..Len(events) : Len(stdout) + i \in 1..(Len(stdout) + Len(events))
    BY <1>9
  <2>3. ASSUME NEW i \in 1..(Len(stdout) + Len(events))
        PROVE  stdout'[i] \in ToSet(stdout) \cup ToSet(events)
    <3>1. CASE i \in 1..Len(stdout)
      BY <1>9, <1>10, <3>1 DEF ToSet
    <3>2. CASE \E k \in 1..Len(events) : i = Len(stdout) + k
      BY <1>9, <1>10, <3>2 DEF ToSet
    <3> QED BY <1>9, <3>1, <3>2
  <2>4. ASSUME NEW i \in 1..Len(stdout) PROVE stdout[i] \in ToSet(stdout')
    BY <1>9, <2>1 DEF ToSet
  <2>5. ASSUME NEW i \in 1..Len(events) PROVE events[i] \in ToSet(stdout')
    BY <1>9, <2>2 DEF ToSet
  <2>6. ToSet(stdout') \subseteq ToSet(stdout) \cup ToSet(events)
    BY <1>9, <2>3 DEF ToSet
  <2>7. ToSet(stdout) \subseteq ToSet(stdout') /\ ToSet(events) \subseteq ToSet(stdout')
    BY <1>10, <2>4, <2>5 DEF ToSet
  <2> QED BY <2>6, <2>7
<1>12. \A n : Posted(n) => Posted(n)'
  BY <1>1, PostedStays
<1>13. Delivered'
  <2> SUFFICES ASSUME NEW e \in told', e.type = "solved", e.id = a
               PROVE  Posted(e.nonce)' \/ e \in ToSet(stdout')
    BY <1>1 DEF Delivered
  <2>1. CASE e \in told
    BY <1>5, <1>7, <1>11, <1>12, <2>1 DEF Delivered
  <2>2. CASE e \in ToSet(events)
    BY <1>11, <2>2
  <2> QED BY <1>4, <2>1, <2>2 DEF Says
<1>14. SolvedFirst'
  <2> SUFFICES ASSUME NEW i \in DOMAIN stdout', stdout'[i].type = "exhausted",
                      stdout'[i].id = a, NEW n \in Stretch(a, stdout'[i].worker),
                      n \in Work[a].solve
               PROVE  \/ Posted(n)'
                      \/ \E k \in 1..(i - 1) : /\ stdout'[k].type = "solved" /\ stdout'[k].id = a
                                               /\ stdout'[k].nonce = n
    BY <1>1 DEF SolvedFirst, Stretch, Slot, Nonce
  <2>1. CASE i \in 1..Len(stdout)
    <3>1. i \in DOMAIN stdout /\ stdout[i] = stdout'[i]
      BY <1>9, <1>10, <2>1
    <3>2. CASE Posted(n)
      BY <1>12, <3>2
    <3>3. CASE \E k \in 1..(i - 1) : /\ stdout[k].type = "solved" /\ stdout[k].id = a
                                     /\ stdout[k].nonce = n
      <4>1. \A k \in 1..(i - 1) : stdout'[k] = stdout[k]
        BY <1>9, <2>1
      <4> QED BY <3>3, <4>1
    <3> QED BY <1>5, <1>7, <3>1, <3>2, <3>3 DEF SolvedFirst
  <2>2. CASE \E k \in 1..Len(events) : i = Len(stdout) + k
    <3>1. PICK k \in 1..Len(events) : i = Len(stdout) + k
      BY <2>2
    <3>2. stdout'[i] = events[k]
      BY <1>9, <3>1
    <3>3. i = Len(stdout) + Len(events)
      BY <1>4, <3>1, <3>2 DEF Says
    <3> DEFINE x == events[k]
    <3>4. x \in told' /\ x \in Event /\ x.type = "exhausted" /\ x.id = a
      <4>1. x \in ToSet(events)
        BY <1>10 DEF ToSet
      <4>2. x.type = "exhausted" /\ x.id = a /\ x.type # "error"
        BY <3>2
      <4>3. x \in Event
        BY <1>8, ElementOfSeq
      <4> HIDE DEF x
      <4> QED BY <1>4, <4>1, <4>2, <4>3 DEF Says
    <3>5. x.worker \in Thread /\ Exhausted(a, x.worker) \in told'
      BY <1>8, <3>4, EventTypes
    <3>6. n \in Stretch(a, x.worker) /\ PoolJob(a)
      BY <1>7, <3>2, PoolNumbers
    <3>7. \E v \in Thread : Solved(a, v, n) \in told'
      <4>1. PICK b \in JobId, u \in Thread : b = a /\ u = x.worker
        BY <1>7, <3>5
      <4>2. Exhausted(b, u) \in told' /\ n \in Stretch(b, u) /\ PoolJob(b)
        BY <3>5, <3>6, <4>1
      <4>3. Done(b, n)'
        BY <1>2, <4>2 DEF IInv, SlotTold, PoolJob, HasEnd, Stretch, Slot, Nonce
      <4> QED BY <3>4, <4>1, <4>3, <3>2 DEF Done
    <3>8. PICK v \in Thread : Solved(a, v, n) \in told'
      BY <3>7
    <3> DEFINE y == Solved(a, v, n)
    <3>9. y \in told' /\ y.type = "solved" /\ y.id = a /\ y.nonce = n
      BY <3>8 DEF Solved
    <3>10. CASE Posted(n)'
      BY <3>10
    <3>11. CASE y \in ToSet(stdout')
      <4>1. PICK j \in 1..(Len(stdout) + Len(events)) : stdout'[j] = y
        BY <1>9, <3>11 DEF ToSet
      <4>2. j # i
        <5>1. stdout'[j].type = "solved" /\ stdout'[i].type = "exhausted"
          BY <3>2, <3>4, <3>9, <4>1
        <5> QED BY <5>1
      <4>3. j \in 1..(i - 1)
        BY <1>9, <3>3, <4>1, <4>2
      <4> HIDE DEF y
      <4> QED BY <3>9, <4>1, <4>3
    <3>12. Posted(n)' \/ y \in ToSet(stdout')
      <4>1. \A e \in told' : e.type = "solved" /\ e.id = a =>
              Posted(e.nonce)' \/ e \in ToSet(stdout')
        BY <1>1, <1>13 DEF Delivered
      <4> HIDE DEF y, a
      <4> QED BY <3>9, <4>1
    <3> QED BY <3>10, <3>11, <3>12
  <2> QED BY <1>9, <2>1, <2>2
<1>15. ExhaustedDone'
  <2> SUFFICES ASSUME NEW w \in exhaustedWorkers, NEW n \in Stretch(a, w) PROVE Finished(n)'
    BY <1>1 DEF ExhaustedDone, Stretch, Slot, Nonce
  <2>1. w \in Thread
    BY DEF ClientTypes, IdsOK, CountsOK
  <2>2. Finished(n)
    BY <1>5, <1>7 DEF ExhaustedDone
  <2> QED BY <1>1, <1>3, <1>7, <2>1, <2>2, FinishedStays DEF Moves
<1> QED BY <1>13, <1>14, <1>15
-----------------------------------------------------------------------------
(* The main loop.                                                          *)

LEMMA LoopOnward ==
  ASSUME LoopOK, NEW rereg \in BOOLEAN, Iterate(rereg)
  PROVE  LoopOK' /\ loop' # "ended" /\ (rereg => Registers')
<1>1. MaxPoolJobs \in Nat
  BY PoolNumbers
<1>2. loop' = (IF rereg THEN "register" ELSE "fetch") /\ reregisterForFreshSlot' = FALSE
      /\ answer' = Pending
  BY DEF Iterate
<1>3. loop' \in {"register", "fetch"} /\ (rereg => loop' = "register")
  <2>1. CASE rereg
    <3>1. loop' = "register"
      BY <1>2, <2>1, Zenon
    <3> QED BY <3>1
  <2>2. CASE ~rereg
    <3>1. loop' = "fetch"
      BY <1>2, <2>2, Zenon
    <3> QED BY <2>2, <3>1
  <2> QED BY <2>1, <2>2
<1>4. LoopOK'
  <2>1. loop' \in {"register", "fetch"} /\ reregisterForFreshSlot' = FALSE /\ answer' = 0
    BY <1>2, <1>3 DEF Pending
  <2>2. answer' \in Unusable..MaxPoolJobs /\ (answer' # Pending => loop' = "fetch")
    BY <1>1, <2>1 DEF Pending, Unusable
  <2> QED BY <2>1, <2>2 DEF LoopOK
<1>5. loop' # "ended" /\ (rereg => Registers')
  BY <1>3 DEF Registers
<1> QED BY <1>4, <1>5

LEMMA LoopWaits ==
  ASSUME LoopOK, WaitAt(loop'),
         loop' \in {"sleep", "register", "register404", "sleepRegister", "ended"}
  PROVE  LoopOK'
<1>1. MaxPoolJobs \in Nat
  BY PoolNumbers
<1> QED BY <1>1 DEF LoopOK, WaitAt, Pending, Unusable

LEMMA LoopWakes ==
  ASSUME LoopOK, NEW rereg \in BOOLEAN, WakePoll(rereg)
  PROVE  /\ LoopOK' /\ (loop = "ended" <=> loop' = "ended")
         /\ rereg => Registers'
         /\ rereg = reregisterForFreshSlot /\ Registers => Registers'
<1>1. MaxPoolJobs \in Nat
  BY PoolNumbers
<1>2. CASE loop = "fetch"
  <2>1. loop' = "sleep" /\ answer' = Pending /\ reregisterForFreshSlot' = rereg
    BY <1>2 DEF WakePoll, AbortPoll
  <2> QED BY <1>1, <1>2, <2>1 DEF LoopOK, Registers, Pending, Unusable
<1>3. CASE loop = "sleep"
  <2>1. Iterate(rereg)
    BY <1>3 DEF WakePoll
  <2>2. Registers => reregisterForFreshSlot
    BY <1>3 DEF Registers
  <2> QED BY <1>3, <2>1, <2>2, LoopOnward
<1>4. CASE loop = "sleepRegister"
  <2>1. Iterate(TRUE)
    BY <1>4 DEF WakePoll
  <2> QED BY <1>4, <2>1, LoopOnward
<1>5. CASE loop \notin {"fetch", "sleep", "sleepRegister"}
  <2>1. UNCHANGED <<loop, answer>> /\ reregisterForFreshSlot' = rereg
    BY <1>5 DEF WakePoll
  <2> QED BY <1>5, <2>1 DEF LoopOK, Registers
<1> QED BY <1>2, <1>3, <1>4, <1>5

(* A step that changes nothing of the books.                               *)
LEMMA BooksRest ==
  ASSUME PoolInv, UNCHANGED <<stdout, told, tried, posted, assigned, counts, submitted>>,
         workerId' = workerId, finished' = finished,
         loop = "ended" => loop' = "ended", Registers => Registers'
  PROVE  ActiveMatches' /\ PostedHashed' /\ Reports' /\ FinishedBehind'
<1>1. UNCHANGED <<activePoolJob, activeNative, exhaustedWorkers, slotFullyExhausted>>
  BY DEF assigned, counts
<1>2. ActiveMatches' /\ PostedHashed'
  BY <1>1 DEF PoolInv, ActiveMatches, PostedHashed, Hashed
<1>3. Reports'
  <2>1. SubmittedPosted /\ Delivered /\ SolvedFirst /\ ExhaustedDone /\ FullMeansAll
    BY DEF PoolInv, Reports
  <2>2. AtWork' => AtWork
    BY <1>1 DEF AtWork
  <2>3. \A n : Posted(n) => Posted(n)'
    BY <1>1, PostedStays
  <2>4. SubmittedPosted' /\ FullMeansAll'
    BY <1>1, <2>1 DEF SubmittedPosted, FullMeansAll
  <2>5. Delivered'
    BY <1>1, <2>1, <2>2, <2>3 DEF Delivered, ToSet
  <2>6. SolvedFirst'
    BY <1>1, <2>1, <2>2, <2>3 DEF SolvedFirst, Stretch, Slot, Nonce
  <2>7. ExhaustedDone'
    BY <1>1, <2>1, <2>2, <2>3 DEF ExhaustedDone, Stretch, Slot, Nonce, Finished
  <2> QED BY <2>4, <2>5, <2>6, <2>7 DEF Reports
<1>4. FinishedBehind'
  BY DEF PoolInv, FinishedBehind
<1> QED BY <1>2, <1>3, <1>4
-----------------------------------------------------------------------------
(* The client's steps, one by one.                                         *)

LEMMA InvParts ==
  ASSUME PoolInv
  PROVE  /\ IInv /\ Process /\ ActiveMatches /\ PostedHashed /\ Reports /\ FinishedBehind
         /\ ClientTypes /\ IdsOK /\ LoopOK /\ KeysOK /\ CountsOK /\ SharesOK
         /\ Counter \in Nat
  BY CounterType DEF PoolInv, ClientTypes

LEMMA ShareMoves ==
  ASSUME SharesOK, NEW s \in shares, NEW at \in {"sent", "backoff", "final", "stale"},
         posted' = posted, Becomes(s, at)
  PROVE  SharesOK'
<1>1. s \in ShareState
  BY DEF SharesOK
<1>2. [s EXCEPT !.at = at] \in ShareState
  BY <1>1 DEF ShareState
<1> QED BY <1>2 DEF SharesOK, Becomes

(* A step that only the client's loop, its requests or the pool take part  *)
(* in.                                                                     *)
LEMMA OwnStep ==
  ASSUME PoolInv, UNCHANGED <<nativeVars, assigned, keys, counts, submitted, posted>>,
         workerId' = workerId, finished' = finished, poolJob' \in 1..MaxPoolJobs,
         LoopOK', loop = "ended" => loop' = "ended", Registers => Registers', SharesOK'
  PROVE  PoolInv'
<1>1. /\ UNCHANGED <<stdout, told, tried>>
      /\ UNCHANGED <<activePoolJob, activeNative, exhaustedWorkers, slotFullyExhausted>>
      /\ UNCHANGED <<lastRestartKey, exhaustedKey>>
  BY DEF nativeVars, processVars, assigned, keys, counts
<1>2. IInv' /\ Process'
  BY <1>1, InvParts, RestKept DEF Counter
<1>3. ActiveMatches' /\ PostedHashed' /\ Reports' /\ FinishedBehind'
  BY <1>1, BooksRest
<1>4. ClientTypes'
  BY <1>1, InvParts DEF ClientTypes, IdsOK, KeysOK, IsKey, Key, CountsOK
<1> QED BY <1>2, <1>3, <1>4 DEF PoolInv

(* The same, and the process is told to stop.                              *)
LEMMA StopStep ==
  ASSUME PoolInv, NEW commands \in {<<Stop>>, <<Stop, Shutdown>>}, Send(commands),
         UNCHANGED <<stdout, processVars, assigned, counts, submitted, posted>>,
         workerId' = workerId, finished' = finished, poolJob' = poolJob, KeysOK',
         LoopOK', loop = "ended" => loop' = "ended", Registers => Registers', SharesOK'
  PROVE  PoolInv'
<1>1. /\ UNCHANGED <<stdout, told, tried>>
      /\ UNCHANGED <<activePoolJob, activeNative, exhaustedWorkers, slotFullyExhausted>>
  BY DEF processVars, assigned, counts
<1>2. commands \in Seq(Command) /\ \A i \in 1..Len(commands) : commands[i].type # "start"
  <2>1. Stop \in Command /\ Shutdown \in Command /\ Stop.type = "stop" /\ Shutdown.type = "shutdown"
    BY DEF Command, Stop, Shutdown
  <2>2. CASE commands = <<Stop>>
    <3>1. commands \in Seq(Command) /\ Len(commands) = 1 /\ commands[1] = Stop
      BY <2>1, <2>2
    <3>2. \A i \in 1..Len(commands) : i = 1
      BY <3>1
    <3> QED BY <2>1, <3>1, <3>2
  <2>3. CASE commands = <<Stop, Shutdown>>
    <3>1. /\ commands \in Seq(Command) /\ Len(commands) = 2
          /\ commands[1] = Stop /\ commands[2] = Shutdown
      BY <2>1, <2>3
    <3>2. \A i \in 1..Len(commands) : i = 1 \/ i = 2
      BY <3>1
    <3> QED BY <2>1, <3>1, <3>2
  <2> QED BY <2>2, <2>3
<1>3. ClientWrites(commands)
  BY DEF ClientWrites, Send
<1>4. Counter' = Counter /\ Counter \in Nat
  BY <1>1, InvParts DEF Counter
<1>5. Counter' \in Nat /\ Counter <= Counter'
  BY <1>4
<1>6. IInv' /\ Process'
  BY <1>2, <1>3, <1>5, InvParts, WriteKept
<1>7. ActiveMatches' /\ PostedHashed' /\ Reports' /\ FinishedBehind'
  BY <1>1, BooksRest
<1>8. ClientTypes'
  BY <1>1, InvParts DEF ClientTypes, IdsOK, CountsOK
<1> QED BY <1>6, <1>7, <1>8 DEF PoolInv

LEMMA StopClientKeeps ==
  ASSUME PoolInv, StopClient
  PROVE  PoolInv'
<1>1. /\ loop' = "ended" /\ WaitAt(loop') /\ Send(<<Stop, Shutdown>>) /\ shares' = {}
      /\ UNCHANGED <<stdout, processVars, assigned, counts, submitted, posted>>
      /\ UNCHANGED <<poolJob, workerId, keys, finished>>
  BY DEF StopClient, WaitAt
<1>2. LoopOK'
  BY <1>1, InvParts, LoopWaits
<1>3. KeysOK' /\ SharesOK'
  BY <1>1, InvParts DEF keys, KeysOK, IsKey, Key, SharesOK
<1>4. Registers'
  BY <1>1 DEF Registers
<1> QED BY <1>1, <1>2, <1>3, <1>4, StopStep

LEMMA LoopStepsKeep ==
  ASSUME PoolInv,
         \/ SleepOver \/ ReceiveNoJob \/ NewPoolJob
         \/ \E a \in {poolJob, Forgotten, Unusable} : Answer(a)
         \/ /\ loop = "register" /\ WaitAt("sleepRegister")
            /\ UNCHANGED <<nativeVars, poolJob, workerId, assigned, keys, counts, outbox, finished>>
  PROVE  PoolInv'
<1>1. LoopOK /\ SharesOK /\ IdsOK
  BY InvParts
<1>2. CASE SleepOver
  <2>1. /\ loop \in {"sleep", "sleepRegister"}
        /\ Iterate(loop = "sleepRegister" \/ reregisterForFreshSlot)
        /\ UNCHANGED <<nativeVars, assigned, keys, counts, submitted, posted>>
        /\ UNCHANGED <<workerId, finished, poolJob, shares>>
    BY <1>2 DEF SleepOver, outbox
  <2>2. Registers => (loop = "sleepRegister" \/ reregisterForFreshSlot)
    BY <2>1 DEF Registers
  <2>3. LoopOK' /\ (Registers => Registers')
    <3> DEFINE rereg == loop = "sleepRegister" \/ reregisterForFreshSlot
    <3>1. rereg \in BOOLEAN
      OBVIOUS
    <3> HIDE DEF rereg
    <3>2. LoopOK' /\ (rereg => Registers')
      BY <1>1, <2>1, <3>1, LoopOnward DEF rereg
    <3> QED BY <2>2, <3>2 DEF rereg
  <2>4. SharesOK'
    BY <1>1, <2>1 DEF SharesOK
  <2>5. poolJob' \in 1..MaxPoolJobs /\ loop # "ended"
    BY <1>1, <2>1 DEF IdsOK
  <2> QED BY <2>1, <2>3, <2>4, <2>5, OwnStep
<1>3. CASE ReceiveNoJob
  <2>1. /\ loop = "fetch" /\ WaitAt(loop') /\ loop' \in {"register404", "sleep"}
        /\ UNCHANGED <<nativeVars, assigned, keys, counts, submitted, posted>>
        /\ UNCHANGED <<workerId, finished, poolJob, shares>>
    BY <1>3 DEF ReceiveNoJob, WaitAt, outbox
  <2>2. LoopOK'
    BY <1>1, <2>1, LoopWaits
  <2>3. SharesOK' /\ ~Registers
    BY <1>1, <2>1 DEF SharesOK, Registers
  <2>4. poolJob' \in 1..MaxPoolJobs
    BY <1>1, <2>1 DEF IdsOK
  <2> QED BY <2>1, <2>2, <2>3, <2>4, OwnStep
<1>4. CASE NewPoolJob
  <2>1. /\ UNCHANGED <<nativeVars, assigned, keys, counts, submitted, posted>>
        /\ UNCHANGED <<workerId, finished, shares, loop, answer, reregisterForFreshSlot>>
        /\ poolJob < MaxPoolJobs /\ poolJob' = poolJob + 1
    BY <1>4 DEF NewPoolJob, round, outbox
  <2>2. poolJob' \in 1..MaxPoolJobs
    BY <1>1, <2>1, PoolNumbers DEF IdsOK
  <2>3. LoopOK' /\ SharesOK' /\ (Registers => Registers')
    BY <1>1, <2>1 DEF LoopOK, SharesOK, Registers
  <2> QED BY <2>1, <2>2, <2>3, OwnStep
<1>5. ASSUME NEW a \in {poolJob, Forgotten, Unusable}, Answer(a) PROVE PoolInv'
  <2>1. /\ UNCHANGED <<nativeVars, assigned, keys, counts, submitted, posted>>
        /\ UNCHANGED <<workerId, finished, poolJob, shares, loop, reregisterForFreshSlot>>
        /\ loop = "fetch" /\ answer' = a
    BY <1>5 DEF Answer, outbox
  <2>2. a \in Unusable..MaxPoolJobs /\ poolJob' \in 1..MaxPoolJobs
    BY <1>1, <2>1, PoolNumbers DEF IdsOK, Forgotten, Unusable
  <2>3. LoopOK' /\ SharesOK' /\ ~Registers
    BY <1>1, <2>1, <2>2 DEF LoopOK, SharesOK, Registers
  <2> QED BY <2>1, <2>2, <2>3, OwnStep
<1>6. ASSUME loop = "register", WaitAt("sleepRegister"),
             UNCHANGED <<nativeVars, poolJob, workerId, assigned, keys, counts, outbox, finished>>
      PROVE  PoolInv'
  <2>1. /\ UNCHANGED <<nativeVars, assigned, keys, counts, submitted, posted>>
        /\ UNCHANGED <<workerId, finished, poolJob, shares>>
        /\ loop' = "sleepRegister" /\ WaitAt(loop')
    BY <1>6 DEF WaitAt, outbox
  <2>2. LoopOK'
    BY <1>1, <2>1, LoopWaits
  <2>3. SharesOK' /\ Registers' /\ poolJob' \in 1..MaxPoolJobs
    BY <1>1, <2>1 DEF SharesOK, Registers, IdsOK
  <2> QED BY <1>6, <2>1, <2>2, <2>3, OwnStep
<1> QED BY <1>2, <1>3, <1>4, <1>5, <1>6

LEMMA ShareStepsKeep ==
  ASSUME PoolInv, NEW s \in shares,
         ShareUnanswered(s) \/ Resend(s) \/ Verdict(s) \/ Judge(s)
  PROVE  PoolInv'
<1>1. LoopOK /\ SharesOK /\ IdsOK /\ KeysOK
  BY InvParts
<1>2. ASSUME UNCHANGED <<nativeVars, poolJob, round, workerId, assigned, keys, counts,
                         submitted, posted, finished>>,
             SharesOK'
      PROVE  PoolInv'
  <2>1. UNCHANGED <<loop, answer, reregisterForFreshSlot>>
    BY <1>2 DEF round
  <2>2. LoopOK' /\ (Registers => Registers') /\ poolJob' \in 1..MaxPoolJobs
    BY <1>1, <1>2, <2>1 DEF LoopOK, Registers, IdsOK
  <2> QED BY <1>2, <2>1, <2>2, OwnStep
<1>3. CASE ShareUnanswered(s)
  <2>1. SharesOK'
    BY <1>1, <1>3, ShareMoves DEF ShareUnanswered
  <2> QED BY <1>2, <1>3, <2>1 DEF ShareUnanswered
<1>4. CASE Resend(s)
  <2>1. CASE Becomes(s, "sent")
    <3>1. SharesOK'
      BY <1>1, <1>4, <2>1, ShareMoves DEF Resend
    <3> QED BY <1>2, <1>4, <3>1 DEF Resend
  <2>2. CASE shares' = shares \ {s}
    <3>1. SharesOK'
      BY <1>1, <1>4, <2>2 DEF SharesOK, Resend
    <3> QED BY <1>2, <1>4, <3>1 DEF Resend
  <2> QED BY <1>4, <2>1, <2>2 DEF Resend
<1>5. CASE Judge(s)
  <2>1. Becomes(s, "final") \/ Becomes(s, "stale")
    BY <1>5 DEF Judge
  <2>2. SharesOK'
    BY <1>1, <1>5, <2>1, ShareMoves DEF Judge
  <2> QED BY <1>2, <1>5, <2>2 DEF Judge
<1>6. CASE Verdict(s)
  <2>1. SharesOK'
    BY <1>1, <1>6 DEF Verdict, SharesOK
  <2>2. CASE s.at # "stale"
    <3>1. UNCHANGED <<nativeVars, poolJob, round, workerId, assigned, keys, counts,
                      submitted, posted, finished>>
      BY <1>6, <2>2 DEF Verdict, nativeVars
    <3> QED BY <1>2, <2>1, <3>1
  <2>3. CASE s.at = "stale"
    <3>1. /\ ForgetKeys /\ Send(<<Stop>>) /\ WakePoll(reregisterForFreshSlot)
          /\ UNCHANGED <<stdout, processVars, assigned, counts, submitted, posted>>
          /\ UNCHANGED <<workerId, finished, poolJob>>
      BY <1>6, <2>3 DEF Verdict
    <3>2. reregisterForFreshSlot \in BOOLEAN
      BY <1>1 DEF LoopOK
    <3>3. LoopOK' /\ (loop = "ended" <=> loop' = "ended") /\ (Registers => Registers')
      BY <1>1, <3>1, <3>2, LoopWakes
    <3>4. KeysOK'
      BY <3>1 DEF ForgetKeys, KeysOK, IsKey
    <3> QED BY <2>1, <3>1, <3>3, <3>4, StopStep
  <2> QED BY <2>2, <2>3
<1> QED BY <1>3, <1>4, <1>5, <1>6
(* A job that is new: the process has never heard of it.                   *)
LEMMA ReceiveJobKeeps ==
  ASSUME PoolInv, ReceiveJob
  PROVE  PoolInv'
<1> DEFINE id == NextId(answer)
<1>1. /\ IInv /\ Process /\ LoopOK /\ IdsOK /\ KeysOK /\ SharesOK /\ CountsOK /\ ClientTypes
      /\ FinishedBehind /\ PostedHashed /\ Reports /\ Counter \in Nat
  BY InvParts
<1>2. /\ loop = "fetch" /\ answer > 0 /\ Counter < MaxNative
      /\ UNCHANGED <<stdout, processVars, poolJob, workerId, shares, posted, finished>>
  BY DEF ReceiveJob
<1>3. ~Registers
  BY <1>2 DEF Registers
<1>4. CASE /\ IF exhaustedKey # NoJob THEN Iterate(TRUE) ELSE WaitAt("sleep")
           /\ UNCHANGED <<stdin, assigned, keys, counts, submitted>>
  <2>1. LoopOK'
    <3>1. CASE Iterate(TRUE)
      BY <1>1, <3>1, LoopOnward
    <3>2. CASE WaitAt("sleep")
      <4>1. loop' = "sleep" /\ WaitAt(loop')
        BY <3>2 DEF WaitAt
      <4> QED BY <1>1, <4>1, LoopWaits
    <3> QED BY <1>4, <3>1, <3>2
  <2>2. SharesOK' /\ poolJob' \in 1..MaxPoolJobs
    BY <1>1, <1>2 DEF SharesOK, IdsOK
  <2>3. UNCHANGED nativeVars
    BY <1>2, <1>4 DEF nativeVars
  <2> QED BY <1>2, <1>3, <1>4, <2>1, <2>2, <2>3, OwnStep
<1>5. CASE Grind(id)
  <2>1. id \in JobId /\ id.n = Counter + 1 /\ id.worker = workerId /\ id.job = answer /\ id # NoJob
    <3>1. answer \in 1..MaxPoolJobs /\ workerId \in 1..MaxReg
      BY <1>1, <1>2, PoolNumbers DEF LoopOK, IdsOK, Unusable
    <3>2. Counter + 1 \in 1..MaxNative
      BY <1>1, <1>2, PoolNumbers
    <3>3. id = [n |-> Counter + 1, worker |-> workerId, job |-> answer]
      BY DEF NextId
    <3> HIDE DEF id
    <3> QED BY <3>1, <3>2, <3>3, PoolConstants, NativeConstants
  <2>2. /\ activeNative' = id /\ activePoolJob' = id.job
        /\ lastRestartKey' = Key(id) /\ exhaustedKey' = NoJob
        /\ exhaustedWorkers' = {} /\ slotFullyExhausted' = FALSE /\ submitted' = {}
        /\ stdin' = stdin \o <<Start(id)>> /\ Iterate(FALSE)
    BY <1>5 DEF Grind, Send
  <2> HIDE DEF id
  <2>3. Counter' = Counter + 1
    BY <2>1, <2>2 DEF Counter
  <2>4. <<Start(id)>> \in Seq(Command) /\ Len(<<Start(id)>>) = 1 /\ <<Start(id)>>[1] = Start(id)
    BY <2>1 DEF Command
  <2>5. IInv' /\ Process'
    <3>1. ClientWrites(<<Start(id)>>)
      BY <1>2, <2>2 DEF ClientWrites
    <3>2. \A i \in 1..Len(<<Start(id)>>) :
            <<Start(id)>>[i].type = "start" => <<Start(id)>>[i].id.n <= Counter'
      <4>1. \A i \in 1..Len(<<Start(id)>>) : <<Start(id)>>[i] = Start(id)
        BY <2>4
      <4>2. Start(id).id.n <= Counter'
        BY <1>1, <2>1, <2>3 DEF Start
      <4> QED BY <4>1, <4>2
    <3>3. Counter' \in Nat /\ Counter <= Counter'
      BY <1>1, <2>3
    <3> QED BY <1>1, <2>4, <3>1, <3>2, <3>3, WriteKept
  <2>6. ClientTypes'
    <3>1. LoopOK'
      BY <1>1, <2>2, LoopOnward
    <3>2. IdsOK'
      BY <1>1, <1>2, <2>1, <2>2, PoolNumbers DEF IdsOK
    <3>3. KeysOK'
      BY <2>1, <2>2 DEF KeysOK, IsKey, Key
    <3>4. CountsOK' /\ SharesOK'
      BY <1>1, <1>2, <2>2 DEF CountsOK, SharesOK
    <3> QED BY <3>1, <3>2, <3>3, <3>4 DEF ClientTypes
  <2>7. ActiveMatches'
    <3>1. workerId' = workerId /\ workerId \in Nat
      BY <1>1, <1>2, PoolNumbers DEF IdsOK
    <3> QED BY <2>1, <2>2, <3>1 DEF ActiveMatches
  <2>8. PostedHashed'
    BY <1>1, <1>2 DEF PostedHashed, Hashed, processVars
  <2>9. \A e \in told : e.id # id
    <3>1. told \in SUBSET Result
      BY <1>1, PipeTypes
    <3>2. ASSUME NEW e \in told PROVE e.id # id
      <4>1. e.id \in JobId /\ e.id.n <= Counter
        BY <1>1, <3>1, EventTypes DEF Process, NamedOnly, Named
      <4>2. e.id.n \in Nat
        BY <1>1, <4>1, CounterType
      <4> QED BY <1>1, <2>1, <4>1, <4>2
    <3> QED BY <3>2
  <2>10. \A i \in DOMAIN stdout : stdout[i].type = "exhausted" => stdout[i].id # id
    <3>1. ToSet(stdout) \subseteq told \cup {CommandError}
      BY <1>1 DEF Process, Heard
    <3> QED BY <2>9, <3>1, EventTypes DEF ToSet
  <2>11. Reports'
    <3>1. stdout' = stdout /\ told' = told
      BY <1>2 DEF processVars
    <3>2. SubmittedPosted' /\ FullMeansAll'
      BY <2>2 DEF SubmittedPosted, FullMeansAll
    <3>3. ExhaustedDone'
      BY <2>2 DEF ExhaustedDone
    <3>4. Delivered'
      BY <2>2, <2>9, <3>1 DEF Delivered
    <3>5. SolvedFirst'
      BY <2>2, <2>10, <3>1 DEF SolvedFirst
    <3> QED BY <3>2, <3>3, <3>4, <3>5 DEF Reports
  <2>12. FinishedBehind'
    BY <1>1, <1>2, <1>3 DEF FinishedBehind
  <2> QED BY <2>5, <2>6, <2>7, <2>8, <2>11, <2>12 DEF PoolInv
<1> QED BY <1>4, <1>5 DEF ReceiveJob

LEMMA ReregisterKeeps ==
  ASSUME PoolInv, Reregister
  PROVE  PoolInv'
<1>1. /\ IInv /\ Process /\ LoopOK /\ IdsOK /\ KeysOK /\ SharesOK /\ CountsOK /\ ClientTypes
      /\ FinishedBehind /\ PostedHashed /\ ActiveMatches /\ Counter \in Nat
  BY InvParts
<1>2. /\ workerId < MaxReg /\ workerId' = workerId + 1 /\ activePoolJob' = 0
      /\ lastRestartKey' = NoJob /\ exhaustedKey' = NoJob
      /\ exhaustedWorkers' = {} /\ slotFullyExhausted' = FALSE /\ submitted' = {}
      /\ stdin' = stdin \o <<Stop>> /\ Iterate(FALSE)
      /\ UNCHANGED <<stdout, processVars, poolJob, activeNative, shares, posted, finished>>
  BY DEF Reregister, RegisterReturns, Send
<1>3. Counter' = Counter
  BY <1>2 DEF Counter
<1>4. IInv' /\ Process'
  <2>1. ClientWrites(<<Stop>>)
    BY <1>2 DEF ClientWrites
  <2>2. <<Stop>> \in Seq(Command) /\ Len(<<Stop>>) = 1 /\ <<Stop>>[1] = Stop
    BY DEF Command
  <2>3. \A i \in 1..Len(<<Stop>>) : <<Stop>>[i].type = "start" => <<Stop>>[i].id.n <= Counter'
    <3>1. \A i \in 1..Len(<<Stop>>) : <<Stop>>[i] = Stop
      BY <2>2
    <3>2. Stop.type # "start"
      BY DEF Stop
    <3> QED BY <3>1, <3>2
  <2>4. Counter' \in Nat /\ Counter <= Counter'
    BY <1>1, <1>3
  <2> QED BY <1>1, <2>1, <2>2, <2>3, <2>4, WriteKept
<1>5. ClientTypes'
  <2>1. LoopOK'
    BY <1>1, <1>2, LoopOnward
  <2>2. IdsOK'
    BY <1>1, <1>2, PoolNumbers DEF IdsOK
  <2>3. KeysOK' /\ CountsOK' /\ SharesOK'
    BY <1>1, <1>2 DEF KeysOK, IsKey, CountsOK, SharesOK
  <2> QED BY <2>1, <2>2, <2>3 DEF ClientTypes
<1>6. workerId \in Nat
  BY <1>1, PoolNumbers DEF IdsOK
<1>7. ActiveMatches'
  <2>1. activeNative # NoJob => activeNative.worker \in Nat
    BY <1>1, PoolNumbers DEF IdsOK
  <2> QED BY <1>1, <1>2, <1>6, <2>1 DEF ActiveMatches
<1>8. PostedHashed'
  BY <1>1, <1>2 DEF PostedHashed, Hashed, processVars
<1>9. Reports'
  BY <1>2 DEF Reports, SubmittedPosted, FullMeansAll, Delivered, SolvedFirst, ExhaustedDone, AtWork
<1>10. FinishedBehind'
  <2> SUFFICES ASSUME NEW f \in finished PROVE f[1] \in 1..workerId' /\ f[1] # workerId'
    BY <1>2 DEF FinishedBehind
  <2>1. f[1] \in 1..workerId
    BY <1>1 DEF FinishedBehind
  <2> QED BY <1>2, <1>6, <2>1
<1> QED BY <1>4, <1>5, <1>7, <1>8, <1>9, <1>10 DEF PoolInv
-----------------------------------------------------------------------------
(* The client reads an event.                                              *)

(* What is left in the pipe when its first event has been dealt with.      *)
LEMMA HeadTaken ==
  ASSUME PoolInv, ClientReads, posted \subseteq posted', UNCHANGED assigned,
         loop = "ended" <=> loop' = "ended", NEW e, e = Head(stdout),
         AtWork /\ e.type = "solved" /\ e.id = activeNative => Posted(e.nonce)'
  PROVE  Delivered' /\ SolvedFirst'
<1>1. /\ UNCHANGED <<activePoolJob, activeNative, told, tried>>
      /\ stdout # <<>> /\ stdout' = Tail(stdout)
  BY DEF assigned, ClientReads, processVars
<1>2. Delivered /\ SolvedFirst /\ stdout \in Seq(Event)
  BY InvParts, PipeTypes DEF Reports
<1>3. /\ e = stdout[1] /\ Len(stdout) \in Nat \ {0} /\ DOMAIN stdout = 1..Len(stdout)
      /\ DOMAIN stdout' = 1..(Len(stdout) - 1)
      /\ \A i \in 1..(Len(stdout) - 1) : stdout'[i] = stdout[i + 1]
  BY <1>1, <1>2, TailParts
<1>4. AtWork' <=> AtWork
  BY <1>1 DEF AtWork
<1>5. \A n : Posted(n) => Posted(n)'
  BY <1>1, PostedStays
<1>8. AtWork /\ e.type = "solved" /\ e.id = activeNative =>
        \E share \in posted' : /\ share.nonce = e.nonce /\ share.job = activeNative'.job
                               /\ share.worker = activeNative'.worker
  BY DEF Posted
<1>6. Delivered'
  <2> SUFFICES ASSUME AtWork, NEW x \in told, x.type = "solved", x.id = activeNative
               PROVE  Posted(x.nonce)' \/ x \in ToSet(stdout')
    BY <1>1, <1>4 DEF Delivered
  <2>1. CASE Posted(x.nonce)
    BY <1>5, <2>1
  <2>2. CASE x \in ToSet(stdout)
    <3>1. PICK i \in 1..Len(stdout) : x = stdout[i]
      BY <1>3, <2>2 DEF ToSet
    <3>2. CASE i = 1
      <4>1. e.type = "solved" /\ e.id = activeNative /\ e.nonce = x.nonce
        BY <1>3, <3>1, <3>2
      <4> QED BY <1>8, <4>1 DEF Posted
    <3>3. CASE i # 1
      <4>1. i - 1 \in 1..(Len(stdout) - 1) /\ (i - 1) + 1 = i
        BY <1>3, <3>3
      <4>2. stdout'[i - 1] = x
        BY <1>3, <3>1, <4>1
      <4> QED BY <1>3, <4>1, <4>2 DEF ToSet
    <3> QED BY <3>2, <3>3
  <2> QED BY <1>2, <2>1, <2>2 DEF Delivered
<1>7. SolvedFirst'
  <2> SUFFICES ASSUME AtWork, NEW i \in DOMAIN stdout', stdout'[i].type = "exhausted",
                      stdout'[i].id = activeNative,
                      NEW n \in Stretch(activeNative, stdout'[i].worker),
                      n \in Work[activeNative].solve
               PROVE  \/ Posted(n)'
                      \/ \E k \in 1..(i - 1) : /\ stdout'[k].type = "solved"
                                               /\ stdout'[k].id = activeNative
                                               /\ stdout'[k].nonce = n
    BY <1>1, <1>4, SMTT(30) DEF SolvedFirst, Stretch, Slot, Nonce
  <2>1. i \in 1..(Len(stdout) - 1) /\ i + 1 \in DOMAIN stdout /\ stdout'[i] = stdout[i + 1]
        /\ (i + 1) - 1 = i
    BY <1>3
  <2>2. \/ Posted(n)
        \/ \E k \in 1..i : /\ stdout[k].type = "solved" /\ stdout[k].id = activeNative
                           /\ stdout[k].nonce = n
    BY <1>2, <2>1 DEF SolvedFirst
  <2>3. CASE Posted(n)
    BY <1>5, <2>3
  <2>4. ASSUME NEW k \in 1..i, stdout[k].type = "solved", stdout[k].id = activeNative,
               stdout[k].nonce = n
        PROVE  \/ Posted(n)'
               \/ \E j \in 1..(i - 1) : /\ stdout'[j].type = "solved"
                                        /\ stdout'[j].id = activeNative
                                        /\ stdout'[j].nonce = n
    <3>1. CASE k = 1
      <4>1. e.type = "solved" /\ e.id = activeNative /\ e.nonce = n
        BY <1>3, <2>4, <3>1
      <4> QED BY <1>8, <4>1 DEF Posted
    <3>2. CASE k # 1
      <4>1. k - 1 \in 1..(i - 1) /\ k - 1 \in 1..(Len(stdout) - 1) /\ (k - 1) + 1 = k
        BY <1>3, <2>1, <3>2
      <4>2. stdout'[k - 1] = stdout[k]
        BY <1>3, <4>1
      <4> QED BY <2>4, <4>1, <4>2
    <3> QED BY <3>1, <3>2
  <2> QED BY <2>2, <2>3, <2>4
<1> QED BY <1>6, <1>7

LEMMA HeadTold ==
  ASSUME PoolInv, stdout # <<>>, NEW e, e = Head(stdout)
  PROVE  e.type # "error" => e \in told /\ e \in Result
<1>1. stdout \in Seq(Event) /\ told \in SUBSET Result /\ ToSet(stdout) \subseteq told \cup {CommandError}
  BY InvParts, PipeTypes DEF Process, Heard
<1>2. Head(stdout) = stdout[1] /\ 1 \in DOMAIN stdout
  BY <1>1, TailParts
<1>3. Head(stdout) \in ToSet(stdout)
  BY <1>2 DEF ToSet
<1> QED BY <1>1, <1>3, EventTypes

LEMMA Triples ==
  \A a, b, c, d, e, f : <<a, b, c>> = <<d, e, f>> => a = d /\ b = e /\ c = f
  OBVIOUS

LEMMA SolvedKeeps ==
  ASSUME PoolInv, stdout # <<>>, stdout' = Tail(stdout), NEW e, e = Head(stdout),
         e.type = "solved", OnSolved(e), UNCHANGED <<processVars, poolJob, workerId, assigned>>
  PROVE  PoolInv'
<1> DEFINE share == ShareOf(e.id, e.nonce)
           key == <<share.worker, share.job, share.nonce>>
           new == Wanted(share) /\ key \notin submitted
<1>1. /\ IInv /\ Process /\ LoopOK /\ IdsOK /\ KeysOK /\ SharesOK /\ CountsOK /\ ClientTypes
      /\ FinishedBehind /\ PostedHashed /\ ActiveMatches /\ Reports
  BY InvParts
<1>2. /\ UNCHANGED <<stdin, round, keys, counts, finished>>
      /\ IF new
         THEN /\ submitted' = submitted \cup {key}
              /\ IF loop = "ended" THEN UNCHANGED <<shares, posted>>
                 ELSE /\ shares' = shares \cup
                           {[id |-> e.id, worker |-> share.worker, job |-> share.job,
                             nonce |-> e.nonce, at |-> "sent"]}
                      /\ posted' = posted \cup {share}
         ELSE UNCHANGED outbox
  BY Zenon DEF OnSolved
<1>3. /\ UNCHANGED <<loop, answer, reregisterForFreshSlot, lastRestartKey, exhaustedKey>>
      /\ UNCHANGED <<exhaustedWorkers, slotFullyExhausted, activePoolJob, activeNative>>
      /\ UNCHANGED <<tried, told>>
  BY <1>2 DEF round, keys, counts, assigned, processVars
<1>4. ClientReads
  BY <1>2 DEF ClientReads
<1>5. IInv' /\ Process'
  BY <1>1, <1>3, <1>4, ReadKept DEF Counter
<1>6. e \in told /\ e \in Result /\ e.id \in JobId /\ e.nonce \in Nonce
  BY HeadTold, EventTypes
<1>7. Hashed(e.id, e.nonce)
  BY <1>1, <1>6 DEF Process, FoundHashed
<1>8. /\ share.id = e.id /\ share.worker = e.id.worker /\ share.job = e.id.job
      /\ share.nonce = e.nonce /\ share \in Share
  BY <1>6, PoolNumbers DEF ShareOf, Share
<1>9. [id |-> e.id, worker |-> share.worker, job |-> share.job, nonce |-> e.nonce, at |-> "sent"]
        \in ShareState
  <2> HIDE DEF share
  <2> QED BY <1>6, <1>8, PoolNumbers DEF ShareState
<1> HIDE DEF share, key
<1>10. posted \subseteq posted' /\ posted' \subseteq posted \cup {share}
       /\ shares' \in SUBSET ShareState
  <2>1. shares \in SUBSET ShareState
    BY <1>1 DEF SharesOK
  <2>2. CASE new /\ loop # "ended"
    BY <1>2, <1>9, <2>1, <2>2
  <2>3. CASE ~(new /\ loop # "ended")
    BY <1>2, <2>1, <2>3 DEF outbox
  <2> QED BY <2>2, <2>3
<1>11. ClientTypes'
  <2>1. SharesOK'
    BY <1>1, <1>8, <1>10 DEF SharesOK
  <2>2. LoopOK' /\ IdsOK' /\ KeysOK' /\ CountsOK'
    BY <1>1, <1>3 DEF LoopOK, IdsOK, KeysOK, IsKey, Key, CountsOK
  <2> QED BY <2>1, <2>2 DEF ClientTypes
<1>12. ActiveMatches'
  BY <1>1, <1>3 DEF ActiveMatches
<1>13. PostedHashed'
  <2> SUFFICES ASSUME NEW sh \in posted'
               PROVE  sh.worker = sh.id.worker /\ sh.job = sh.id.job /\ Hashed(sh.id, sh.nonce)
    BY <1>3 DEF PostedHashed, Hashed
  <2>1. CASE sh \in posted
    BY <1>1, <2>1 DEF PostedHashed
  <2>2. CASE sh = share
    BY <1>7, <1>8, <2>2
  <2> QED BY <1>10, <2>1, <2>2
<1>14. SubmittedPosted'
  <2> SUFFICES ASSUME loop # "ended", NEW k \in submitted'
               PROVE  \E sh \in posted' : k = <<sh.worker, sh.job, sh.nonce>>
    BY <1>3 DEF SubmittedPosted
  <2>1. CASE k \in submitted
    <3>1. \E sh \in posted : k = <<sh.worker, sh.job, sh.nonce>>
      BY <1>1, <2>1 DEF Reports, SubmittedPosted
    <3> QED BY <1>10, <3>1
  <2>2. CASE k \notin submitted
    <3>1. k = key /\ posted' = posted \cup {share}
      BY <1>2, <2>2 DEF outbox
    <3> QED BY <3>1 DEF key
  <2> QED BY <2>1, <2>2
<1>15. ASSUME AtWork, e.id = activeNative PROVE Posted(e.nonce)'
  <2>1. Wanted(share) /\ loop # "ended"
    BY <1>1, <1>8, <1>15 DEF Wanted, AtWork, ActiveMatches
  <2>2. \E sh \in posted' : key = <<sh.worker, sh.job, sh.nonce>>
    <3>1. key \in submitted'
      BY <1>2, <2>1 DEF outbox
    <3> QED BY <1>3, <1>14, <2>1, <3>1 DEF SubmittedPosted
  <2>3. PICK sh \in posted' : key = <<sh.worker, sh.job, sh.nonce>>
    BY <2>2
  <2>4. sh.worker = share.worker /\ sh.job = share.job /\ sh.nonce = share.nonce
    BY <2>3, Triples DEF key
  <2>5. share.worker = activeNative'.worker /\ share.job = activeNative'.job /\ share.nonce = e.nonce
    BY <1>3, <1>8, <1>15
  <2> QED BY <2>4, <2>5 DEF Posted
<1>16. Delivered' /\ SolvedFirst'
  <2>1. loop = "ended" <=> loop' = "ended"
    BY <1>3
  <2>2. UNCHANGED assigned
    OBVIOUS
  <2>3. AtWork /\ e.type = "solved" /\ e.id = activeNative => Posted(e.nonce)'
    BY <1>15
  <2> QED BY <1>4, <1>10, <2>1, <2>2, <2>3, HeadTaken
<1>17. ExhaustedDone' /\ FullMeansAll'
  <2>1. ExhaustedDone /\ FullMeansAll
    BY <1>1 DEF Reports
  <2>2. \A n : Posted(n) => Posted(n)'
    BY <1>3, <1>10, PostedStays
  <2> QED BY <1>3, <2>1, <2>2 DEF ExhaustedDone, FullMeansAll, Finished, AtWork, Stretch, Slot, Nonce
<1>18. FinishedBehind'
  BY <1>1, <1>2, <1>3 DEF FinishedBehind, Registers
<1> QED BY <1>5, <1>11, <1>12, <1>13, <1>14, <1>16, <1>17, <1>18 DEF PoolInv, Reports

(* Events that no part of the books is about.                              *)
LEMMA EventRead ==
  ASSUME PoolInv, ClientReads, NEW e, e = Head(stdout), e.type # "solved",
         UNCHANGED <<poolJob, workerId, assigned, outbox>>,
         KeysOK', LoopOK', CountsOK', loop = "ended" <=> loop' = "ended"
  PROVE  /\ IInv' /\ Process' /\ ClientTypes' /\ ActiveMatches' /\ PostedHashed'
         /\ SubmittedPosted' /\ Delivered' /\ SolvedFirst'
<1>1. UNCHANGED <<activePoolJob, activeNative, submitted, shares, posted, told, tried>>
  BY DEF assigned, outbox, ClientReads, processVars
<1>2. IInv' /\ Process'
  BY <1>1, InvParts, ReadKept DEF Counter
<1>3. ClientTypes'
  BY <1>1, InvParts DEF ClientTypes, IdsOK, SharesOK
<1>4. ActiveMatches' /\ PostedHashed'
  BY <1>1, InvParts DEF ActiveMatches, PostedHashed, Hashed
<1>5. SubmittedPosted'
  BY <1>1, InvParts DEF Reports, SubmittedPosted
<1>6. posted \subseteq posted'
  BY <1>1
<1>7. Delivered' /\ SolvedFirst'
  BY <1>6, HeadTaken
<1> QED BY <1>2, <1>3, <1>4, <1>5, <1>7

LEMMA ErrorKeeps ==
  ASSUME PoolInv, ClientReads, NEW e, e = Head(stdout), e.type # "solved",
         UNCHANGED <<round, keys, counts, outbox, finished, poolJob, workerId, assigned>>
  PROVE  PoolInv'
<1>1. /\ UNCHANGED <<loop, answer, reregisterForFreshSlot, lastRestartKey, exhaustedKey>>
      /\ UNCHANGED <<exhaustedWorkers, slotFullyExhausted, activePoolJob, activeNative>>
      /\ UNCHANGED <<posted, tried>>
  BY DEF round, keys, counts, assigned, outbox, ClientReads, processVars
<1>2. KeysOK' /\ LoopOK' /\ CountsOK'
  BY <1>1, InvParts DEF LoopOK, KeysOK, IsKey, Key, CountsOK
<1>3. /\ IInv' /\ Process' /\ ClientTypes' /\ ActiveMatches' /\ PostedHashed'
      /\ SubmittedPosted' /\ Delivered' /\ SolvedFirst'
  BY <1>1, <1>2, EventRead
<1>4. ExhaustedDone' /\ FullMeansAll'
  <2>1. ExhaustedDone /\ FullMeansAll
    BY InvParts DEF Reports
  <2> QED BY <1>1, <2>1 DEF ExhaustedDone, FullMeansAll, Finished, Posted, AtWork, Stretch, Slot, Nonce
<1>5. FinishedBehind'
  BY <1>1, InvParts DEF FinishedBehind, Registers
<1> QED BY <1>3, <1>4, <1>5 DEF PoolInv, Reports

(* The part of a thread whose report the client reads is done.             *)
LEMMA HeadFinished ==
  ASSUME PoolInv, stdout # <<>>, NEW e, e = Head(stdout), e.type = "exhausted",
         e.id = activeNative, AtWork, NEW n \in Stretch(activeNative, e.worker)
  PROVE  e.worker \in Thread /\ Finished(n)
<1>1. e \in told /\ e \in Result
  BY HeadTold
<1>2. e.id \in JobId /\ e.worker \in Thread /\ Exhausted(e.id, e.worker) \in told
  BY <1>1, EventTypes
<1>3. n \in Stretch(e.id, e.worker) /\ PoolJob(e.id)
  BY <1>2, PoolNumbers
<1>4. Done(e.id, n)
  BY <1>2, <1>3, InvParts DEF IInv, SlotTold
<1>5. tried[activeNative][n] > 0
  BY <1>4 DEF Done
<1>6. n \in Work[activeNative].solve => Posted(n)
  <2>1. stdout \in Seq(Event) /\ SolvedFirst
    BY InvParts, PipeTypes DEF Reports
  <2>2. stdout[1] = e /\ 1 \in DOMAIN stdout
    BY <2>1, TailParts
  <2>3. ~ \E k \in 1..(1 - 1) : TRUE
    OBVIOUS
  <2> QED BY <2>1, <2>2, <2>3 DEF SolvedFirst
<1> QED BY <1>2, <1>5, <1>6 DEF Finished

LEMMA ExhaustedKeeps ==
  ASSUME PoolInv, stdout # <<>>, stdout' = Tail(stdout), NEW e, e = Head(stdout),
         e.type = "exhausted", OnExhausted(e),
         UNCHANGED <<processVars, poolJob, workerId, assigned>>
  PROVE  PoolInv'
<1>1. /\ LoopOK /\ KeysOK /\ CountsOK /\ IdsOK /\ FinishedBehind /\ ActiveMatches
      /\ ExhaustedDone /\ FullMeansAll
  BY InvParts DEF Reports
<1>2. ClientReads
  BY DEF OnExhausted, ClientReads
<1>3. CASE ~Counts(e)
  <2>1. UNCHANGED <<round, keys, counts, outbox, finished, poolJob, workerId, assigned>>
    BY <1>3 DEF OnExhausted
  <2> QED BY <1>2, <2>1, ErrorKeeps
<1>4. CASE Counts(e)
  <2>1. /\ e.id = activeNative /\ exhaustedWorkers' = exhaustedWorkers \cup {e.worker}
        /\ UNCHANGED <<poolJob, workerId, assigned, outbox>> /\ ~slotFullyExhausted
    BY <1>4 DEF OnExhausted, Counts
  <2>2. UNCHANGED <<activePoolJob, activeNative, posted, tried>>
    BY <2>1 DEF assigned, outbox, processVars
  <2>3. e.id \in JobId /\ e.worker \in Thread
    BY HeadTold, EventTypes
  <2>4. exhaustedWorkers' \subseteq Thread
    BY <1>1, <2>1, <2>3 DEF CountsOK
  <2>5. ASSUME KeysOK', LoopOK', slotFullyExhausted' \in BOOLEAN,
               loop = "ended" <=> loop' = "ended", FullMeansAll', FinishedBehind'
        PROVE  PoolInv'
    <3>1. CountsOK'
      BY <2>4, <2>5 DEF CountsOK
    <3>2. /\ IInv' /\ Process' /\ ClientTypes' /\ ActiveMatches' /\ PostedHashed'
          /\ SubmittedPosted' /\ Delivered' /\ SolvedFirst'
      BY <1>2, <2>1, <2>5, <3>1, EventRead
    <3>3. ExhaustedDone'
      <4> SUFFICES ASSUME AtWork', NEW w \in exhaustedWorkers', NEW n \in Stretch(activeNative, w)
                   PROVE  Finished(n)'
        BY <2>2 DEF ExhaustedDone, Stretch, Slot, Nonce
      <4>1. AtWork
        BY <2>2, <2>5 DEF AtWork
      <4>2. CASE w \in exhaustedWorkers
        BY <1>1, <2>2, <4>1, <4>2 DEF ExhaustedDone, Finished, Posted
      <4>3. CASE w = e.worker
        <5>1. n \in Stretch(activeNative, e.worker)
          BY <4>3
        <5>2. Finished(n)
          BY <2>1, <4>1, <5>1, HeadFinished
        <5> QED BY <2>2, <5>2 DEF Finished, Posted
      <4> QED BY <2>1, <4>2, <4>3
    <3> QED BY <2>5, <3>2, <3>3 DEF PoolInv, Reports
  <2>6. CASE exhaustedWorkers' # Thread
    <3>1. UNCHANGED <<slotFullyExhausted, lastRestartKey, exhaustedKey, finished>>
          /\ UNCHANGED <<loop, answer, reregisterForFreshSlot>>
      BY <1>4, <2>6 DEF OnExhausted, keys, round
    <3>2. KeysOK' /\ LoopOK' /\ slotFullyExhausted' \in BOOLEAN
      BY <1>1, <3>1 DEF KeysOK, IsKey, Key, LoopOK, CountsOK
    <3>3. FullMeansAll' /\ FinishedBehind'
      BY <1>1, <2>1, <3>1 DEF FullMeansAll, FinishedBehind, Registers
    <3> QED BY <2>5, <3>1, <3>2, <3>3
  <2>7. CASE exhaustedWorkers' = Thread
    <3>1. /\ slotFullyExhausted' = TRUE /\ exhaustedKey' = lastRestartKey
          /\ lastRestartKey' = NoJob /\ WakePoll(TRUE)
          /\ finished' = finished \cup {<<activeNative.worker, activeNative.job>>}
      BY <1>4, <2>7 DEF OnExhausted, SlotFull
    <3>2. KeysOK' /\ slotFullyExhausted' \in BOOLEAN /\ FullMeansAll'
      BY <1>1, <2>7, <3>1 DEF KeysOK, IsKey, Key, FullMeansAll
    <3>3. LoopOK' /\ (loop = "ended" <=> loop' = "ended") /\ Registers'
      <4>1. TRUE \in BOOLEAN
        OBVIOUS
      <4> QED BY <1>1, <3>1, <4>1, LoopWakes
    <3>4. FinishedBehind'
      <4>1. activeNative.worker \in 1..workerId
        <5>1. activeNative # NoJob /\ activeNative.worker \in 1..MaxReg /\ MaxReg \in Nat
          BY <2>1, <2>3, NativeConstants, PoolNumbers
        <5>2. activeNative.worker <= workerId /\ workerId \in 1..MaxReg
          BY <1>1, <5>1 DEF ActiveMatches, IdsOK
        <5> QED BY <5>1, <5>2
      <4> SUFFICES ASSUME NEW f \in finished' PROVE f[1] \in 1..workerId
        BY <3>3 DEF FinishedBehind
      <4>2. CASE f \in finished
        BY <1>1, <4>2 DEF FinishedBehind
      <4>3. CASE f = <<activeNative.worker, activeNative.job>>
        BY <4>1, <4>3
      <4> QED BY <3>1, <4>2, <4>3
    <3> QED BY <2>5, <3>2, <3>3, <3>4
  <2> QED BY <2>6, <2>7
<1> QED BY <1>3, <1>4

LEMMA EventsKeep ==
  ASSUME PoolInv, OnNativeEvent
  PROVE  PoolInv'
<1>1. /\ stdout # <<>> /\ stdout' = Tail(stdout)
      /\ UNCHANGED <<processVars, poolJob, workerId, assigned>>
  BY DEF OnNativeEvent
<1>2. PICK e : e = Head(stdout)
  OBVIOUS
<1>3. \/ e.type = "solved" /\ OnSolved(e)
      \/ e.type = "exhausted" /\ OnExhausted(e)
      \/ /\ e.type = "error"
         /\ UNCHANGED <<stdin, round, keys, counts, outbox, finished>>
  BY <1>2 DEF OnNativeEvent
<1>4. CASE e.type = "solved" /\ OnSolved(e)
  BY <1>1, <1>2, <1>4, SolvedKeeps
<1>5. CASE e.type = "exhausted" /\ OnExhausted(e)
  BY <1>1, <1>2, <1>5, ExhaustedKeeps
<1>6. CASE /\ e.type = "error"
           /\ UNCHANGED <<stdin, round, keys, counts, outbox, finished>>
  <2>1. ClientReads
    BY <1>1, <1>6 DEF ClientReads
  <2> QED BY <1>1, <1>2, <1>6, <2>1, ErrorKeeps
<1> QED BY <1>3, <1>4, <1>5, <1>6

-----------------------------------------------------------------------------
(* The client and the process together.                                    *)

LEMMA NativeKeeps ==
  ASSUME PoolInv, Native
  PROVE  PoolInv'
<1>1. ProcessNext /\ UNCHANGED clientVars
  BY DEF Native
<1>2. /\ UNCHANGED <<poolJob, loop, answer, reregisterForFreshSlot, workerId, activePoolJob>>
      /\ UNCHANGED <<activeNative, lastRestartKey, exhaustedKey, exhaustedWorkers>>
      /\ UNCHANGED <<slotFullyExhausted, shares, posted, finished>>
  BY <1>1 DEF clientVars, round, assigned, keys, counts, outbox
<1>3. IInv' /\ Process'
  BY <1>1, <1>2, InvParts, ProcessKept DEF Counter
<1>4. ClientTypes' /\ ActiveMatches' /\ FinishedBehind'
  BY <1>2, InvParts DEF ClientTypes, IdsOK, LoopOK, KeysOK, IsKey, Key, CountsOK, SharesOK,
     ActiveMatches, FinishedBehind, Registers
<1>5. PostedHashed'
  <2>1. Grows
    BY <1>1, InvParts, ProcessMoves DEF Process, Moves
  <2> SUFFICES ASSUME NEW share \in posted
               PROVE  /\ share.worker = share.id.worker /\ share.job = share.id.job
                      /\ tried'[share.id][share.nonce] > 0
                      /\ share.nonce \in Work[share.id].solve
    BY <1>2 DEF PostedHashed, Hashed
  <2>2. share.id \in JobId /\ share.nonce \in Nonce
    BY InvParts DEF SharesOK, Share
  <2> QED BY <2>1, <2>2, InvParts DEF PostedHashed, Hashed, Grows
<1>6. Reports'
  BY <1>1, InvParts, ProcessReports
<1> QED BY <1>3, <1>4, <1>5, <1>6 DEF PoolInv

LEMMA RestKeeps ==
  ASSUME PoolInv, UNCHANGED vars
  PROVE  PoolInv'
<1>1. /\ UNCHANGED <<nativeVars, assigned, keys, counts, submitted, posted>>
      /\ UNCHANGED <<poolJob, loop, answer, reregisterForFreshSlot, workerId, shares, finished>>
  BY DEF vars, clientVars, round, outbox
<1>2. LoopOK' /\ SharesOK' /\ (Registers => Registers') /\ poolJob' \in 1..MaxPoolJobs
  BY <1>1, InvParts DEF LoopOK, SharesOK, Registers, IdsOK
<1> QED BY <1>1, <1>2, OwnStep

LEMMA PoolBegins ==
  ASSUME PoolInit
  PROVE  PoolInv
<1>1. IInv
  BY Begins DEF PoolInit
<1>2. Process
  BY DEF PoolInit, NativeInit, Process, NamedOnly, FoundHashed, NoneCleared, Heard, InBatch,
     Waiting, ToSet
<1>3. ClientTypes
  <2>1. IdsOK /\ LoopOK
    <3>1. MaxPoolJobs \in Nat \ {0} /\ MaxReg \in Nat \ {0}
      BY PoolNumbers
    <3>2. 1 \in 1..MaxPoolJobs /\ 1 \in 1..MaxReg /\ 0 \in 0..MaxPoolJobs /\ 0 \in -2..MaxPoolJobs
      BY <3>1
    <3> QED BY <3>2 DEF PoolInit, IdsOK, LoopOK, Pending, Unusable
  <2> QED BY <2>1 DEF PoolInit, ClientTypes, KeysOK, IsKey, CountsOK, SharesOK
<1>4. ActiveMatches /\ PostedHashed /\ FinishedBehind
  BY NativeConstants DEF PoolInit, ActiveMatches, PostedHashed, FinishedBehind
<1>5. Reports
  <2>1. Thread # {}
    BY NativeConstants DEF Thread
  <2> QED BY <2>1 DEF PoolInit, Reports, SubmittedPosted, Delivered, SolvedFirst, ExhaustedDone,
        FullMeansAll, AtWork
<1> QED BY <1>1, <1>2, <1>3, <1>4, <1>5 DEF PoolInv

LEMMA PoolStep ==
  ASSUME PoolInv, [Next]_vars
  PROVE  PoolInv'
<1>1. CASE Native
  BY <1>1, NativeKeeps
<1>2. CASE ClientStep
  BY <1>2, LoopStepsKeep, ReceiveJobKeeps, EventsKeep DEF ClientStep
<1>3. CASE Reregister
  BY <1>3, ReregisterKeeps
<1>4. CASE RegisterFails
  BY <1>4, LoopStepsKeep, StopClientKeeps DEF RegisterFails
<1>5. CASE Abort
  BY <1>5, StopClientKeeps DEF Abort
<1>6. CASE \E s \in shares : ShareUnanswered(s) \/ Resend(s) \/ Verdict(s) \/ Judge(s)
  BY <1>6, ShareStepsKeep
<1>7. CASE NewPoolJob \/ \E a \in {poolJob, Forgotten, Unusable} : Answer(a)
  BY <1>7, LoopStepsKeep
<1>8. CASE UNCHANGED vars
  BY <1>8, RestKeeps
<1> QED BY <1>1, <1>2, <1>3, <1>4, <1>5, <1>6, <1>7, <1>8 DEF Next

(* The inductive invariant.                                                *)
LEMMA PoolInductive == Spec => []PoolInv
<1>1. PoolInit => PoolInv
  BY PoolBegins
<1>2. PoolInv /\ [Next]_vars => PoolInv'
  BY PoolStep
<1> QED BY <1>1, <1>2, PTL DEF Spec

(* The books of the client have their types through everything that the    *)
(* pool and the process may do.                                            *)
THEOREM PoolTypeCorrect == Spec => []PoolTypeOK
<1>1. PoolInv => PoolTypeOK
  BY DEF PoolInv, ClientTypes, IdsOK, LoopOK, KeysOK, IsKey, CountsOK, SharesOK, ShareState,
     PoolTypeOK
<1> QED BY <1>1, PoolInductive, PTL

-----------------------------------------------------------------------------
(* The pool client is a client of the process.                             *)

LEMMA OneMore ==
  ASSUME NEW S, NEW s \in Seq(S), NEW a \in S
  PROVE  LET st == Append(s, a)
         IN st \in Seq(S) /\ st # <<>> /\ Len(st) = Len(s) + 1 /\ Len(s) \in Nat /\ Last(st) = a
            /\ \A i \in 1..Len(s) : st[i] = s[i]
<1> DEFINE st == Append(s, a)
<1>1. /\ st \in Seq(S) /\ Len(st) = Len(s) + 1 /\ st[Len(s) + 1] = a
      /\ \A i \in 1..Len(s) : st[i] = s[i]
  BY AppendProperties
<1>2. Len(s) \in Nat
  BY LenProperties
<1>3. st # <<>>
  BY <1>1, <1>2
<1>4. Last(st) = a
  BY <1>1 DEF Last
<1> QED BY <1>1, <1>2, <1>3, <1>4

LEMMA OneCommand ==
  ASSUME IInv, NEW c \in Command, stdin' = stdin \o <<c>>
  PROVE  /\ <<c>> \in Seq(Command) /\ stdin' # <<>> /\ Last(stdin') = c
<1>1. stdin \in Seq(Command)
  BY PipeTypes
<1>2. PICK s \in Seq(Command) : s = stdin
  BY <1>1
<1>3. s \o <<c>> = Append(s, c)
  BY AppendIsConcat
<1>4. Append(s, c) # <<>> /\ Last(Append(s, c)) = c
  BY OneMore
<1>5. <<c>> \in Seq(Command)
  OBVIOUS
<1>6. stdin' = Append(s, c)
  BY <1>2, <1>3
<1> QED BY <1>4, <1>5, <1>6

LEMMA TwoCommands ==
  ASSUME IInv, stdin' = stdin \o <<Stop, Shutdown>>
  PROVE  /\ <<Stop, Shutdown>> \in Seq(Command) /\ stdin' # <<>> /\ Last(stdin') = Shutdown
         /\ Len(stdin') # 1 /\ stdin'[Len(stdin') - 1] = Stop
<1>1. stdin \in Seq(Command)
  BY PipeTypes
<1>2. PICK s \in Seq(Command) : s = stdin
  BY <1>1
<1>3. PICK a, b \in Command : a = Stop /\ b = Shutdown
  BY DEF Command
<1>4. PICK u \in Seq(Command) : u = <<a, b>> /\ Len(u) = 2 /\ u[1] = a /\ u[2] = b
  <2>1. <<a, b>> \in Seq(Command) /\ Len(<<a, b>>) = 2 /\ <<a, b>>[1] = a /\ <<a, b>>[2] = b
    OBVIOUS
  <2> QED BY <2>1
<1>5. PICK st \in Seq(Command) : st = s \o u
  BY ConcatProperties
<1>6. /\ Len(st) = Len(s) + Len(u)
      /\ \A i \in 1..(Len(s) + Len(u)) : st[i] = IF i <= Len(s) THEN s[i] ELSE u[i - Len(s)]
  BY <1>5, ConcatProperties
<1>7. PICK len \in Nat : len = Len(s)
  BY LenProperties
<1>8. /\ Len(st) = len + 2
      /\ \A i \in 1..(len + 2) : st[i] = IF i <= len THEN s[i] ELSE u[i - len]
  BY <1>4, <1>6, <1>7
<1>9. st[len + 2] = b /\ st[len + 1] = a
  <2>1. /\ len + 2 \in 1..(len + 2) /\ len + 1 \in 1..(len + 2)
        /\ ~(len + 2 <= len) /\ ~(len + 1 <= len) /\ (len + 2) - len = 2 /\ (len + 1) - len = 1
    OBVIOUS
  <2> QED BY <1>4, <1>8, <2>1
<1>10. Len(st) - 1 = len + 1 /\ Len(st) # 1 /\ Len(st) # 0
  BY <1>8
<1>11. st # <<>>
  BY <1>10
<1>12. stdin' = st /\ <<Stop, Shutdown>> = u
  BY <1>2, <1>3, <1>4, <1>5
<1> QED BY <1>3, <1>8, <1>9, <1>10, <1>11, <1>12 DEF Last

LEMMA StepIsNative ==
  ASSUME PoolInv, [Next]_vars
  PROVE  [NativeNext]_nativeVars
<1>1. IInv
  BY InvParts
<1>2. ASSUME NEW c \in Command, stdin' = stdin \o <<c>>, UNCHANGED <<stdout, processVars>>
      PROVE  NativeNext
  <2>1. <<c>> \in Seq(Command) /\ ClientWrites(<<c>>)
    BY <1>1, <1>2, OneCommand DEF ClientWrites
  <2> QED BY <2>1 DEF NativeNext
<1>3. CASE Native
  BY <1>3 DEF Native, NativeNext
<1>4. CASE SleepOver \/ ReceiveNoJob \/ NewPoolJob
           \/ \E a \in {poolJob, Forgotten, Unusable} : Answer(a)
  BY <1>4 DEF SleepOver, ReceiveNoJob, NewPoolJob, Answer
<1>5. CASE ReceiveJob
  <2>1. CASE UNCHANGED stdin
    BY <1>5, <2>1 DEF ReceiveJob, nativeVars
  <2>2. CASE Grind(NextId(answer))
    <3>1. NextId(answer) \in JobId
      <4>1. answer \in 1..MaxPoolJobs /\ workerId \in 1..MaxReg
        BY <1>5, InvParts, PoolNumbers DEF LoopOK, IdsOK, Unusable, ReceiveJob
      <4>2. Counter + 1 \in 1..MaxNative
        BY <1>5, InvParts, PoolNumbers DEF ReceiveJob
      <4> QED BY <4>1, <4>2, PoolConstants DEF NextId
    <3>2. Start(NextId(answer)) \in Command
      BY <3>1 DEF Command
    <3> QED BY <1>2, <1>5, <2>2, <3>2 DEF ReceiveJob, Grind, Send
  <2> QED BY <1>5, <2>1, <2>2 DEF ReceiveJob
<1>6. Stop \in Command
  BY DEF Command
<1>7. CASE Reregister
  BY <1>2, <1>6, <1>7 DEF Reregister, Send
<1>8. CASE StopClient
  <2>1. <<Stop, Shutdown>> \in Seq(Command) /\ ClientWrites(<<Stop, Shutdown>>)
    BY <1>1, <1>8, TwoCommands DEF StopClient, Send, ClientWrites
  <2> QED BY <2>1 DEF NativeNext
<1>9. CASE RegisterFails \/ Abort
  BY <1>8, <1>9 DEF RegisterFails, Abort
<1>10. CASE OnNativeEvent
  <2>1. stdin' = stdin
    BY <1>10 DEF OnNativeEvent, OnSolved, OnExhausted
  <2>2. ClientReads
    BY <1>10, <2>1 DEF OnNativeEvent, ClientReads
  <2> QED BY <2>2 DEF NativeNext
<1>11. ASSUME NEW s \in shares, ShareUnanswered(s) \/ Resend(s) \/ Judge(s) \/ Verdict(s)
       PROVE  [NativeNext]_nativeVars
  <2>1. CASE Verdict(s)
    <3>1. CASE s.at = "stale"
      BY <1>2, <1>6, <2>1, <3>1 DEF Verdict, Send
    <3>2. CASE s.at # "stale"
      BY <2>1, <3>2 DEF Verdict, nativeVars
    <3> QED BY <3>1, <3>2
  <2>2. CASE ShareUnanswered(s) \/ Resend(s) \/ Judge(s)
    BY <2>2 DEF ShareUnanswered, Resend, Judge
  <2> QED BY <1>11, <2>1, <2>2
<1>12. CASE UNCHANGED vars
  BY <1>12 DEF vars
<1> QED BY <1>3, <1>4, <1>5, <1>7, <1>9, <1>10, <1>11, <1>12 DEF Next, ClientStep

(* The process that the pool client drives is the native process: what     *)
(* that promises under any client holds here.                              *)
THEOREM DrivesNative == Spec => NativeSpec
<1>1. PoolInit => NativeInit
  BY DEF PoolInit
<1>2. PoolInv /\ [Next]_vars => [NativeNext]_nativeVars
  BY StepIsNative
<1> QED BY <1>1, <1>2, PoolInductive, PTL DEF Spec, NativeSpec

-----------------------------------------------------------------------------
(* What the process is to do once it has read its commands.                *)

LEMMA SettledRead ==
  ASSUME IInv, Reads, StopFirst, \A id \in JobId : ValidJob(id)
  PROVE  Settled' = Settled /\ StopFirst'
<1>1. stdin \in Seq(Command)
  BY PipeTypes
<1>2. CASE stdin' = stdin /\ current' = current
  BY <1>2 DEF Settled, StopFirst
<1> SUFFICES ASSUME stdin # <<>>, stdin' = Tail(stdin) PROVE Settled' = Settled /\ StopFirst'
  BY <1>2 DEF Reads
<1>3. /\ Head(stdin) = stdin[1] /\ Head(stdin) \in Command /\ Tail(stdin) \in Seq(Command)
      /\ Len(stdin) \in Nat \ {0} /\ Len(Tail(stdin)) = Len(stdin) - 1
      /\ \A i \in 1..(Len(stdin) - 1) : Tail(stdin)[i] = stdin[i + 1]
  BY <1>1, TailParts
<1>4. CASE Len(stdin) = 1
  <2>1. stdin' = <<>> /\ Last(stdin) = Head(stdin)
    BY <1>3, <1>4, EmptySeq DEF Last
  <2>2. Settled' = current' /\ StopFirst'
    BY <2>1 DEF Settled, StopFirst
  <2>3. Settled = IF Head(stdin).type = "start" THEN Head(stdin).id ELSE NoJob
    BY <2>1 DEF Settled
  <2>4. \/ stdin' = stdin /\ current' = current
        \/ /\ Head(stdin).type = "start"
           /\ current' = IF ValidJob(Head(stdin).id) THEN Head(stdin).id ELSE current
        \/ Head(stdin).type = "stop" /\ current' = NoJob
        \/ Head(stdin).type = "shutdown" /\ current' = current
    BY DEF Reads
  <2>5. stdin' # stdin
    BY <2>1
  <2>6. CASE Head(stdin).type = "start"
    <3>1. Head(stdin).id \in JobId
      BY <1>3, <2>6, CommandTypes
    <3>2. ValidJob(Head(stdin).id)
      BY <3>1
    <3> QED BY <2>2, <2>3, <2>4, <2>5, <2>6, <3>2
  <2>7. CASE Head(stdin).type = "stop"
    BY <2>2, <2>3, <2>4, <2>5, <2>7
  <2>8. CASE Head(stdin).type = "shutdown"
    <3>1. Head(stdin) = Shutdown
      BY <1>3, <2>8, CommandTypes
    <3>2. current = NoJob
      BY <1>4, <2>1, <3>1 DEF StopFirst
    <3> QED BY <2>2, <2>3, <2>4, <2>5, <2>8, <3>2
  <2> QED BY <2>4, <2>5, <2>6, <2>7, <2>8
<1>5. CASE Len(stdin) # 1
  <2>1. /\ Len(stdin) - 1 \in 1..(Len(stdin) - 1) /\ (Len(stdin) - 1) + 1 = Len(stdin)
        /\ Len(stdin) - 1 # 0
    BY <1>3, <1>5
  <2>2. Last(stdin') = Last(stdin) /\ stdin' # <<>> /\ Len(stdin') = Len(stdin) - 1
    <3>1. Tail(stdin)[Len(stdin) - 1] = stdin[Len(stdin)]
      BY <1>3, <2>1
    <3>2. Tail(stdin) # <<>>
      BY <1>3, <2>1
    <3> QED BY <1>3, <3>1, <3>2 DEF Last
  <2>3. Settled' = Settled
    BY <2>2 DEF Settled
  <2>4. ASSUME Last(stdin) = Shutdown
        PROVE  IF Len(stdin') = 1 THEN current' = NoJob ELSE stdin'[Len(stdin') - 1] = Stop
    <3>1. stdin[Len(stdin) - 1] = Stop
      BY <1>5, <2>4 DEF StopFirst
    <3>2. CASE Len(stdin') = 1
      <4>1. Head(stdin) = Stop
        BY <1>3, <2>2, <3>1, <3>2
      <4>2. current' = NoJob
        <5>1. stdin' # stdin
          <6>1. Len(stdin') # Len(stdin)
            <7>1. PICK len \in Nat : len = Len(stdin)
              BY <1>3
            <7>2. len - 1 # len
              OBVIOUS
            <7> QED BY <2>2, <7>1, <7>2
          <6> QED BY <6>1
        <5>2. Head(stdin).type = "stop"
          BY <4>1 DEF Stop
        <5> QED BY <5>1, <5>2 DEF Reads
      <4> QED BY <3>2, <4>2
    <3>3. CASE Len(stdin') # 1
      <4>1. /\ Len(stdin') - 1 \in 1..(Len(stdin) - 1)
            /\ (Len(stdin') - 1) + 1 = Len(stdin) - 1
        BY <1>3, <1>5, <2>2, <3>3
      <4>2. Tail(stdin)[Len(stdin') - 1] = stdin[Len(stdin) - 1]
        BY <1>3, <4>1
      <4> QED BY <3>1, <3>3, <4>2
    <3> QED BY <3>2, <3>3
  <2>5. StopFirst'
    BY <2>2, <2>4 DEF StopFirst
  <2> QED BY <2>3, <2>5
<1> QED BY <1>4, <1>5

LEMMA SettledStarts ==
  ASSUME IInv, NEW id \in JobId, stdin' = stdin \o <<Start(id)>>
  PROVE  Settled' = id /\ StopFirst'
<1>1. Start(id) \in Command /\ Start(id).type = "start" /\ Start(id).id = id
      /\ Start(id) # Shutdown
  BY DEF Command, Start, Shutdown
<1>2. stdin' # <<>> /\ Last(stdin') = Start(id)
  BY <1>1, OneCommand
<1> QED BY <1>1, <1>2 DEF Settled, StopFirst

LEMMA SettledStops ==
  ASSUME IInv, stdin' = stdin \o <<Stop>>
  PROVE  Settled' = NoJob /\ StopFirst'
<1>1. Stop \in Command /\ Stop.type = "stop" /\ Stop # Shutdown
  BY DEF Command, Stop, Shutdown
<1>2. stdin' # <<>> /\ Last(stdin') = Stop
  BY <1>1, OneCommand
<1> QED BY <1>1, <1>2 DEF Settled, StopFirst

LEMMA SettledEnds ==
  ASSUME IInv, stdin' = stdin \o <<Stop, Shutdown>>
  PROVE  Settled' = NoJob /\ StopFirst'
<1>1. Shutdown.type = "shutdown"
  BY DEF Shutdown
<1>2. /\ stdin' # <<>> /\ Last(stdin') = Shutdown
      /\ Len(stdin') # 1 /\ stdin'[Len(stdin') - 1] = Stop
  BY TwoCommands
<1> QED BY <1>1, <1>2 DEF Settled, StopFirst

LEMMA InStepStays ==
  ASSUME InStep, StopFirst, Settled' = Settled, StopFirst',
         activeNative' = activeNative, workerId' = workerId,
         lastRestartKey' \in {lastRestartKey, NoJob}, loop = "ended" => loop' = "ended"
  PROVE  InStep' /\ StopFirst'
  BY DEF InStep, Key

LEMMA PoolInStep ==
  ASSUME PoolInv, InStep, StopFirst, [Next]_vars, \A id \in JobId : ValidJob(id)
  PROVE  InStep' /\ StopFirst'
<1>1. IInv /\ LoopOK /\ IdsOK /\ Counter \in Nat
  BY InvParts
<1>2. ASSUME UNCHANGED <<stdin, current>> PROVE Settled' = Settled /\ StopFirst'
  BY <1>2 DEF Settled, StopFirst
<1>3. CASE Native
  <2>1. UNCHANGED <<activeNative, workerId, lastRestartKey, loop>>
    BY <1>3 DEF Native, clientVars, round, assigned, keys
  <2>2. Reads
    BY <1>3, InvParts, ProcessMoves DEF Native, Process
  <2> QED BY <1>1, <2>1, <2>2, SettledRead, InStepStays
<1>4. CASE SleepOver \/ ReceiveNoJob \/ NewPoolJob
           \/ \E a \in {poolJob, Forgotten, Unusable} : Answer(a)
  <2>1. UNCHANGED <<stdin, current, activeNative, workerId, lastRestartKey>>
    BY <1>4 DEF SleepOver, ReceiveNoJob, NewPoolJob, Answer, nativeVars, processVars, assigned, keys
  <2>2. loop = "ended" => loop' = "ended"
    BY <1>4 DEF SleepOver, ReceiveNoJob, NewPoolJob, Answer
  <2> QED BY <1>2, <2>1, <2>2, InStepStays
<1>5. CASE ReceiveJob
  <2>1. loop = "fetch" /\ UNCHANGED <<current, workerId>>
    BY <1>5 DEF ReceiveJob, processVars
  <2>2. CASE UNCHANGED <<stdin, assigned, keys, counts, submitted>>
    <3>1. UNCHANGED <<stdin, activeNative, lastRestartKey>>
      BY <2>2 DEF assigned, keys
    <3> QED BY <1>2, <2>1, <3>1, InStepStays
  <2>3. CASE Grind(NextId(answer))
    <3>1. PICK id : id = NextId(answer)
      OBVIOUS
    <3>2. id \in JobId /\ id.worker = workerId
      <4>1. answer \in 1..MaxPoolJobs /\ workerId \in 1..MaxReg
        BY <1>1, <1>5, PoolNumbers DEF LoopOK, IdsOK, Unusable, ReceiveJob
      <4>2. Counter + 1 \in 1..MaxNative
        BY <1>1, <1>5, PoolNumbers DEF ReceiveJob
      <4> QED BY <3>1, <4>1, <4>2, PoolConstants DEF NextId
    <3>3. /\ activeNative' = id /\ lastRestartKey' = Key(id) /\ stdin' = stdin \o <<Start(id)>>
      BY <2>3, <3>1 DEF Grind, Send
    <3>4. Settled' = id /\ StopFirst'
      BY <1>1, <3>2, <3>3, SettledStarts
    <3> QED BY <2>1, <3>2, <3>3, <3>4 DEF InStep, Key
  <2> QED BY <1>5, <2>2, <2>3 DEF ReceiveJob
<1>6. CASE Reregister
  <2>1. stdin' = stdin \o <<Stop>> /\ lastRestartKey' = NoJob
    BY <1>6 DEF Reregister, Send
  <2>2. Settled' = NoJob /\ StopFirst'
    BY <1>1, <2>1, SettledStops
  <2> QED BY <2>1, <2>2 DEF InStep
<1>7. CASE StopClient
  <2>1. stdin' = stdin \o <<Stop, Shutdown>> /\ loop' = "ended"
    BY <1>7 DEF StopClient, Send, WaitAt
  <2>2. Settled' = NoJob /\ StopFirst'
    BY <1>1, <2>1, SettledEnds
  <2> QED BY <2>1, <2>2 DEF InStep
<1>8. CASE RegisterFails
  <2>1. CASE WaitAt("sleepRegister") /\ UNCHANGED <<nativeVars, workerId, assigned, keys>>
             /\ loop = "register"
    <3>1. UNCHANGED <<stdin, current, activeNative, workerId, lastRestartKey>>
      BY <2>1 DEF nativeVars, processVars, assigned, keys
    <3> QED BY <1>2, <2>1, <3>1, InStepStays
  <2> QED BY <1>7, <1>8, <2>1 DEF RegisterFails
<1>9. CASE Abort
  BY <1>7, <1>9 DEF Abort
<1>10. CASE OnNativeEvent
  <2>1. UNCHANGED <<stdin, current, activeNative, workerId>>
    BY <1>10 DEF OnNativeEvent, OnSolved, OnExhausted, processVars, assigned
  <2>2. PICK e : e = Head(stdout)
    OBVIOUS
  <2>3. CASE OnSolved(e) \/ UNCHANGED <<round, keys>>
    BY <1>2, <2>1, <2>3, InStepStays DEF OnSolved, round, keys
  <2>4. CASE OnExhausted(e)
    <3>1. CASE UNCHANGED <<keys, round>>
      BY <1>2, <2>1, <3>1, InStepStays DEF round, keys
    <3>2. CASE SlotFull
      <4>1. lastRestartKey' = NoJob /\ WakePoll(TRUE) /\ TRUE \in BOOLEAN
        BY <3>2 DEF SlotFull
      <4>2. loop = "ended" => loop' = "ended"
        BY <1>1, <4>1, LoopWakes
      <4> QED BY <1>2, <2>1, <4>1, <4>2, InStepStays
    <3> QED BY <2>4, <3>1, <3>2 DEF OnExhausted
  <2> QED BY <1>10, <2>2, <2>3, <2>4 DEF OnNativeEvent
<1>11. ASSUME NEW s \in shares, ShareUnanswered(s) \/ Resend(s) \/ Judge(s) \/ Verdict(s)
       PROVE  InStep' /\ StopFirst'
  <2>1. CASE Verdict(s) /\ s.at = "stale"
    <3>1. stdin' = stdin \o <<Stop>> /\ lastRestartKey' = NoJob
      BY <2>1 DEF Verdict, Send, ForgetKeys
    <3>2. Settled' = NoJob /\ StopFirst'
      BY <1>1, <3>1, SettledStops
    <3> QED BY <3>1, <3>2 DEF InStep
  <2>2. CASE ~(Verdict(s) /\ s.at = "stale")
    <3>1. UNCHANGED <<stdin, processVars, assigned, keys, workerId, round>>
      BY <1>11, <2>2 DEF ShareUnanswered, Resend, Judge, Verdict, nativeVars
    <3>2. UNCHANGED <<stdin, current, activeNative, workerId, lastRestartKey, loop>>
      BY <3>1 DEF processVars, assigned, keys, round
    <3> QED BY <1>2, <3>2, InStepStays
  <2> QED BY <2>1, <2>2
<1>12. CASE UNCHANGED vars
  <2>1. UNCHANGED <<stdin, current, activeNative, workerId, lastRestartKey, loop>>
    BY <1>12 DEF vars, nativeVars, processVars, clientVars, assigned, keys, round
  <2> QED BY <1>2, <2>1, InStepStays
<1> QED BY <1>3, <1>4, <1>5, <1>6, <1>8, <1>9, <1>10, <1>11, <1>12 DEF Next, ClientStep

(* Client and process stay in step, through pipes and across restarts,     *)
(* registrations and late verdicts, if the process takes every slot that   *)
(* the pool hands out for a job. The client's own test of a slot,          *)
(* isValidSlot, does not see to that: ValidSlotsGround.                    *)
THEOREM ClientInStep ==
  ASSUME \A id \in JobId : ValidJob(id)
  PROVE  Spec => []InStep
<1>1. PoolInit => InStep /\ StopFirst
  BY DEF PoolInit, NativeInit, InStep, StopFirst, Settled
<1>2. PoolInv /\ InStep /\ StopFirst /\ [Next]_vars => InStep' /\ StopFirst'
  BY PoolInStep
<1> QED BY <1>1, <1>2, PoolInductive, PTL DEF Spec

-----------------------------------------------------------------------------
(* What is reported to the pool.                                           *)

LEMMA PostedInSlot ==
  ASSUME PoolInv, \A id \in JobId : Room(id)
  PROVE  SharesMatchWork
<1> SUFFICES ASSUME NEW share \in posted
             PROVE  /\ share.worker = share.id.worker /\ share.job = share.id.job
                    /\ share.nonce \in Slot(share.id) /\ share.nonce \in Work[share.id].solve
  BY DEF SharesMatchWork
<1>1. share.id \in JobId /\ share.nonce \in Nonce
  BY InvParts DEF SharesOK, Share
<1>2. /\ share.worker = share.id.worker /\ share.job = share.id.job
      /\ tried[share.id][share.nonce] > 0 /\ share.nonce \in Work[share.id].solve
  BY InvParts DEF PostedHashed, Hashed
<1>3. Room(share.id)
  BY <1>1
<1>4. share.nonce \in Slot(share.id)
  BY <1>1, <1>2, <1>3, InvParts DEF IInv, WithinSlot, Room
<1> QED BY <1>2, <1>4

(* This needs nothing of the slots but that they have an end.              *)
LEMMA FullIsHashed ==
  ASSUME PoolInv
  PROVE  SlotFullIsFull
<1> SUFFICES ASSUME slotFullyExhausted, AtWork, NEW n \in Slot(activeNative)
             PROVE  Finished(n)
  BY DEF SlotFullIsFull, AtWork, Finished, Posted
<1>1. activeNative \in JobId
  BY InvParts DEF AtWork, ActiveMatches, IdsOK
<1>2. PICK w \in Thread : n \in Stretch(activeNative, w)
  BY <1>1, StretchesCover
<1>3. w \in exhaustedWorkers
  BY InvParts DEF Reports, FullMeansAll
<1> QED BY <1>2, <1>3, InvParts DEF Reports, ExhaustedDone

(* What is reported to the pool is what was hashed for it, if the slots    *)
(* that it hands out end far enough from 2^32: every share posted is a     *)
(* solution of its job in the slot of its worker id, however late it is    *)
(* found, and a slot is given up only when all of it was hashed and each   *)
(* of its solutions posted.                                                *)
THEOREM ReportsWhatWasHashed ==
  ASSUME \A id \in JobId : Room(id)
  PROVE  Spec => []WorkCounted
<1>1. PoolInv => WorkCounted
  BY PostedInSlot, FullIsHashed DEF WorkCounted
<1> QED BY <1>1, PoolInductive, PTL

(* Near 2^32 a lane's nonce may wrap round to one below the slot; that the *)
(* slot is done before it is given up holds all the same.                  *)
THEOREM GivenUpWhenDone == Spec => []SlotFullIsFull
<1>1. PoolInv => SlotFullIsFull
  BY FullIsHashed
<1> QED BY <1>1, PoolInductive, PTL

(* No slot that is counted as finished is started again under the worker   *)
(* id and the job it was finished for: the client registers in between,    *)
(* whatever its loop is at when the last report comes.                     *)
THEOREM NeverRegrinds == Spec => NoRegrind
<1>1. ASSUME PoolInv, [Next]_vars, activeNative' # activeNative
      PROVE  <<activeNative'.worker, activeNative'.job>> \notin finished
  <2>1. ReceiveJob
    <3>1. CASE Native \/ UNCHANGED vars
      BY <1>1, <3>1 DEF Native, vars, clientVars, assigned
    <3>2. CASE SleepOver \/ ReceiveNoJob \/ OnNativeEvent \/ Reregister \/ StopClient
      BY <1>1, <3>2 DEF SleepOver, ReceiveNoJob, OnNativeEvent, Reregister, StopClient, assigned
    <3>3. CASE RegisterFails \/ Abort
      BY <1>1, <3>2, <3>3 DEF RegisterFails, Abort, assigned
    <3>4. CASE NewPoolJob \/ \E a \in {poolJob, Forgotten, Unusable} : Answer(a)
      BY <1>1, <3>4 DEF NewPoolJob, Answer, assigned
    <3>5. CASE \E s \in shares : ShareUnanswered(s) \/ Resend(s) \/ Verdict(s) \/ Judge(s)
      BY <1>1, <3>5 DEF ShareUnanswered, Resend, Verdict, Judge, assigned
    <3> QED BY <1>1, <3>1, <3>2, <3>3, <3>4, <3>5 DEF Next, ClientStep
  <2>2. loop = "fetch" /\ activeNative' = NextId(answer)
    BY <1>1, <2>1 DEF ReceiveJob, Grind, assigned
  <2>3. activeNative'.worker = workerId
    BY <2>2 DEF NextId
  <2>4. ~Registers
    BY <2>2 DEF Registers
  <2>5. \A f \in finished : f[1] # workerId
    BY <1>1, <2>4, InvParts DEF FinishedBehind
  <2> QED BY <2>3, <2>5
<1>2. PoolInv /\ [Next]_vars =>
        [activeNative' # activeNative =>
           <<activeNative'.worker, activeNative'.job>> \notin finished]_vars
  BY <1>1
<1> QED BY <1>2, PoolInductive, PTL DEF Spec, NoRegrind
==============================================================================
