----------------------------- MODULE GossipProofs -----------------------------
(***************************************************************************)
(* GossipSound, proved for any nodes and links, any tree of blocks, sets   *)
(* of transactions and budgets, every size of the orphan map and of a page *)
(* of blocks: the nodes' books agree, and when nothing is on its way any   *)
(* more no orphan waits whose branch has not been missed.                  *)
(***************************************************************************)
EXTENDS Gossip, TLAPS, WellFoundedInduction, FiniteSetTheorems, SequenceTheorems

-----------------------------------------------------------------------------
(* Induction, over sets instead of predicates.                             *)

(* A set of numbers that is not empty has a least element.                 *)
LEMMA LeastNumber ==
  ASSUME NEW S \in SUBSET Nat, S # {}
  PROVE  \E m \in S : \A k \in S : m <= k
<1> DEFINE R == {ss \in Nat \X Nat : ss[1] < ss[2]}
<1>1. IsWellFoundedOn(R, Nat)
  BY NatLessThanWellFounded DEF OpToRel
<1> HIDE DEF R
<1>2. PICK m \in S : \A k \in S : ~ (<<k, m>> \in R)
  BY <1>1, WFMin
<1>3. ASSUME NEW k \in S PROVE m <= k
  <2>1. k \in Nat /\ m \in Nat
    OBVIOUS
  <2>2. ~ (k < m)
    BY <1>2, <2>1 DEF R
  <2> QED BY <2>1, <2>2
<1> QED BY <1>3

(* What holds of 0, and of a number's successor with it, holds up to n.    *)
LEMMA Ladder ==
  ASSUME NEW n \in Nat, NEW D, 0 \in D,
         \A k \in 0..(n - 1) : k \in D => k + 1 \in D
  PROVE  \A k \in 0..n : k \in D
<1> DEFINE Bad == {k \in 0..n : k \notin D}
<1>1. SUFFICES ASSUME Bad # {} PROVE FALSE
  OBVIOUS
<1>2. Bad \in SUBSET Nat
  OBVIOUS
<1>3. PICK m \in Bad : \A k \in Bad : m <= k
  BY <1>1, <1>2, LeastNumber
<1>4. m \in 0..n /\ m # 0
  BY <1>3
<1>5. m - 1 \in 0..(n - 1) /\ m - 1 \notin Bad
  BY <1>3, <1>4
<1>6. m - 1 \in D
  BY <1>5
<1>7. (m - 1) + 1 \in D
  BY <1>5, <1>6
<1> QED BY <1>3, <1>4, <1>7

(* What holds of a set once it holds of it less any one element, holds of  *)
(* every subset of a finite set.                                           *)
LEMMA SetLadder ==
  ASSUME NEW S, IsFiniteSet(S), NEW D,
         \A T \in SUBSET S : (\A x \in T : T \ {x} \in D) => T \in D
  PROVE  \A T \in SUBSET S : T \in D
<1> DEFINE Bad == {T \in SUBSET S : T \notin D}
           Sizes == {Cardinality(T) : T \in Bad}
<1>1. SUFFICES ASSUME Bad # {} PROVE FALSE
  OBVIOUS
<1>2. \A T \in SUBSET S : IsFiniteSet(T) /\ Cardinality(T) \in Nat
  BY FS_Subset, FS_CardinalityType
<1>3. Sizes \in SUBSET Nat /\ Sizes # {}
  BY <1>1, <1>2
<1>4. PICK m \in Sizes : \A k \in Sizes : m <= k
  BY <1>3, LeastNumber
<1>5. PICK T \in Bad : m = Cardinality(T)
  BY <1>4
<1>6. ASSUME NEW x \in T PROVE T \ {x} \in D
  <2>1. T \ {x} \in SUBSET S /\ IsFiniteSet(T) /\ IsFiniteSet(T \ {x})
    BY <1>2, <1>5
  <2>2. Cardinality(T \ {x}) = Cardinality(T) - 1
    BY <2>1, FS_RemoveElement
  <2>3. ~ (m <= Cardinality(T \ {x}))
    BY <1>2, <1>5, <2>1, <2>2
  <2>4. T \ {x} \notin Bad
    BY <1>4, <2>3
  <2> QED BY <2>1, <2>4
<1> QED BY <1>5, <1>6

-----------------------------------------------------------------------------
(* Recursion over the subsets of a finite set, and folds.                  *)

(* h takes {} to b, and T to G of c[T] and of what it takes T less c[T] to. *)
Solves(h, S, b, c, G) ==
  \A T \in SUBSET S :
    h[T] = IF T = {} THEN b ELSE G[<<c[T], h[T \ {c[T]}]>>]

Chooses(c, S) == \A T \in SUBSET S : T # {} => c[T] \in T

(* Such a function exists: sizes are climbed one by one.                   *)
LEMMA Recursion ==
  ASSUME NEW S, IsFiniteSet(S), NEW V, NEW b \in V,
         NEW c, Chooses(c, S), NEW G \in [S \X V -> V]
  PROVE  \E h \in [SUBSET S -> V] : Solves(h, S, b, c, G)
<1> USE DEF Solves, Chooses
<1> DEFINE Eq(h, T) == h[T] = IF T = {} THEN b ELSE G[<<c[T], h[T \ {c[T]}]>>]
           UpTo(k) == \E h \in [SUBSET S -> V] :
                        \A T \in SUBSET S : Cardinality(T) <= k => Eq(h, T)
           D == {k \in Nat : UpTo(k)}
           n == Cardinality(S)
<1>1. \A T \in SUBSET S : IsFiniteSet(T) /\ Cardinality(T) \in Nat /\ Cardinality(T) <= n
  BY FS_Subset, FS_CardinalityType
<1>2. n \in Nat
  BY FS_CardinalityType
<1>3. UpTo(0)
  <2>1. \A T \in SUBSET S : Cardinality(T) <= 0 => T = {}
    BY <1>1, FS_EmptySet
  <2> DEFINE h == [T \in SUBSET S |-> b]
  <2>2. h \in [SUBSET S -> V] /\ \A T \in SUBSET S : Cardinality(T) <= 0 => Eq(h, T)
    BY <2>1
  <2> QED BY <2>2
<1>4. ASSUME NEW k \in Nat, UpTo(k) PROVE UpTo(k + 1)
  <2>1. PICK h \in [SUBSET S -> V] : \A T \in SUBSET S : Cardinality(T) <= k => Eq(h, T)
    BY <1>4
  <2> DEFINE g == [T \in SUBSET S |-> IF T = {} THEN b ELSE G[<<c[T], h[T \ {c[T]}]>>]]
  <2>2. \A T \in SUBSET S : T # {} =>
          <<c[T], h[T \ {c[T]}]>> \in S \X V
    <3> SUFFICES ASSUME NEW T \in SUBSET S, T # {} PROVE <<c[T], h[T \ {c[T]}]>> \in S \X V
      OBVIOUS
    <3>1. c[T] \in T /\ T \ {c[T]} \in SUBSET S
      OBVIOUS
    <3> QED BY <3>1
  <2>3. g \in [SUBSET S -> V]
    BY <2>2
  <2>4. \A T \in SUBSET S : Cardinality(T) <= k => g[T] = h[T]
    BY <2>1
  <2>5. ASSUME NEW T \in SUBSET S, Cardinality(T) <= k + 1 PROVE Eq(g, T)
    <3>1. CASE T = {}
      BY <3>1
    <3>2. CASE T # {}
      <4> DEFINE U == T \ {c[T]}
      <4>1. c[T] \in T /\ U \in SUBSET S
        BY <3>2
      <4>2. Cardinality(U) = Cardinality(T) - 1
        BY <1>1, <4>1, FS_RemoveElement
      <4>3. Cardinality(U) <= k
        BY <1>1, <2>5, <4>1, <4>2
      <4>4. g[U] = h[U]
        BY <2>4, <4>1, <4>3
      <4> QED BY <3>2, <4>4
    <3> QED BY <3>1, <3>2
  <2> QED BY <2>3, <2>5
<1>5. n \in D
  <2>1. 0 \in D
    BY <1>3
  <2>2. ASSUME NEW k \in 0..(n - 1), k \in D PROVE k + 1 \in D
    <3>1. k \in Nat /\ UpTo(k)
      BY <2>2
    <3>2. UpTo(k + 1)
      BY <3>1, <1>4
    <3> HIDE DEF UpTo
    <3> QED BY <3>1, <3>2
  <2> HIDE DEF D, n
  <2>3. \A k \in 0..n : k \in D
    BY <1>2, <2>1, <2>2, Ladder
  <2> QED BY <1>2, <2>3
<1>6. PICK h \in [SUBSET S -> V] : \A T \in SUBSET S : Cardinality(T) <= n => Eq(h, T)
  BY <1>5
<1> QED BY <1>1, <1>6

(* The beginnings of 1..n, from which FoldLeft takes the last index off.   *)
LEMMA Beginnings ==
  ASSUME NEW n \in Nat
  PROVE  /\ IsFiniteSet(1..n)
         /\ \A T \in SUBSET (1..n) : T # {} => Max(T) \in T
         /\ \A k \in 1..n : /\ 1..k \in SUBSET (1..n) /\ 1..k # {}
                            /\ Max(1..k) = k /\ (1..k) \ {k} = 1..(k - 1)
<1>1. IsFiniteSet(1..n)
  BY FS_Interval
<1>2. ASSUME NEW T \in SUBSET (1..n), T # {} PROVE Max(T) \in T
  <2> DEFINE D == {n - t : t \in T}
  <2>1. D \in SUBSET Nat /\ D # {}
    <3>1. \A t \in T : n - t \in Nat
      BY <1>2
    <3>2. PICK t \in T : TRUE
      BY <1>2
    <3>3. n - t \in D
      BY <3>2
    <3> QED BY <3>1, <3>3
  <2>2. PICK d \in D : \A e \in D : d <= e
    BY <2>1, LeastNumber
  <2>3. PICK t \in T : d = n - t
    BY <2>2
  <2>4. ASSUME NEW u \in T PROVE t >= u
    <3>1. n - u \in D
      OBVIOUS
    <3>2. d <= n - u
      BY <2>2, <3>1
    <3> QED BY <1>2, <2>3, <3>2
  <2> QED BY <2>4 DEF Max
<1>3. ASSUME NEW k \in 1..n PROVE Max(1..k) = k
  <2>1. k \in 1..k /\ \A u \in 1..k : k >= u
    BY <1>3
  <2>2. \A t \in 1..k : (\A u \in 1..k : t >= u) => t = k
    BY <2>1
  <2> QED BY <2>1, <2>2 DEF Max
<1>4. ASSUME NEW k \in 1..n
      PROVE  1..k \in SUBSET (1..n) /\ 1..k # {} /\ (1..k) \ {k} = 1..(k - 1)
  OBVIOUS
<1> QED BY <1>1, <1>2, <1>3, <1>4

(* The recursion of a FoldLeft over a sequence of length n has a solution. *)
FoldEq(h, n, b, G) ==
  h = [T \in SUBSET (1..n) |-> IF T = {} THEN b ELSE G[<<Max(T), h[T \ {Max(T)}]>>]]

(* And one that solves the equation of a fold over 1..n.                   *)
LEMMA FoldSolution ==
  ASSUME NEW n \in Nat, NEW V, NEW b \in V, NEW G \in [(1..n) \X V -> V]
  PROVE  \E h \in [SUBSET (1..n) -> V] : FoldEq(h, n, b, G)
<1>1. PICK S : S = 1..n
  OBVIOUS
<1>2. PICK c : c = [T \in SUBSET S |-> Max(T)]
  OBVIOUS
<1>3. IsFiniteSet(S) /\ Chooses(c, S)
  BY <1>1, <1>2, Beginnings DEF Chooses
<1>4. G \in [S \X V -> V]
  BY <1>1
<1>5. PICK h \in [SUBSET S -> V] : Solves(h, S, b, c, G)
  BY <1>3, <1>4, Recursion
<1>6. \A T \in SUBSET S :
        h[T] = IF T = {} THEN b ELSE G[<<Max(T), h[T \ {Max(T)}]>>]
  BY <1>2, <1>5 DEF Solves
<1>7. h = [T \in SUBSET S |->
             IF T = {} THEN b ELSE G[<<Max(T), h[T \ {Max(T)}]>>]]
  BY <1>6
<1> QED BY <1>1, <1>7 DEF FoldEq

(* For a concrete step, G is the step as a function.                       *)
LEMMA StepArgument ==
  ASSUME NEW n \in Nat, NEW V, NEW h \in [SUBSET (1..n) -> V],
         NEW T \in SUBSET (1..n), T # {}
  PROVE  /\ Max(T) \in 1..n /\ T \ {Max(T)} \in SUBSET (1..n)
         /\ <<Max(T), h[T \ {Max(T)}]>> \in (1..n) \X V
<1>1. Max(T) \in 1..n /\ T \ {Max(T)} \in SUBSET (1..n)
  BY Beginnings
<1> QED BY <1>1

-----------------------------------------------------------------------------
(* The tree of blocks.                                                     *)

(* A block is the highest of its branch, which has one block a height.     *)
LEMMA Branch ==
  ASSUME NEW b \in Block
  PROVE  /\ b \in Ancestors[b] /\ IsFiniteSet(Ancestors[b])
         /\ \A x \in Ancestors[b] : x \in Block /\ Height[x] <= Height[b]
         /\ \A h \in 0..Height[b] : \E x \in Ancestors[b] : Height[x] = h
<1> USE BlockTree
<1> DEFINE Fine(c) ==
             /\ c \in Ancestors[c] /\ IsFiniteSet(Ancestors[c])
             /\ \A x \in Ancestors[c] : x \in Block /\ Height[x] <= Height[c]
             /\ \A h \in 0..Height[c] : \E x \in Ancestors[c] : Height[x] = h
           D == {k \in Nat : \A c \in Block : Height[c] = k => Fine(c)}
           n == Height[b]
<1>1. n \in Nat
  OBVIOUS
<1>2. ASSUME NEW c \in Block \ {Genesis}
      PROVE  /\ Parent[c] \in Block /\ Height[c] = Height[Parent[c]] + 1
             /\ Height[Parent[c]] \in Nat /\ Height[c] \in Nat
             /\ Ancestors[c] = {c} \cup Ancestors[Parent[c]]
  OBVIOUS
<1>3. 0 \in D
  <2>1. ASSUME NEW c \in Block, Height[c] = 0 PROVE Fine(c)
    <3>1. c = Genesis
      BY <1>2, <2>1
    <3>2. Ancestors[c] = {c} /\ IsFiniteSet({c})
      BY <3>1, FS_Singleton
    <3> QED BY <2>1, <3>2
  <2> QED BY <2>1
<1>4. ASSUME NEW k \in 0..(n - 1), k \in D PROVE k + 1 \in D
  <2>1. ASSUME NEW c \in Block, Height[c] = k + 1 PROVE Fine(c)
    <3>1. c # Genesis
      BY <2>1
    <3>2. PICK p : p = Parent[c]
      OBVIOUS
    <3>3. p \in Block /\ Height[p] = k /\ Ancestors[c] = {c} \cup Ancestors[p]
      BY <1>2, <2>1, <3>1, <3>2
    <3>4. Fine(p)
      BY <1>4, <3>3
    <3>5. IsFiniteSet(Ancestors[c])
      BY <3>3, <3>4, FS_AddElement
    <3>6. \A x \in Ancestors[c] : x \in Block /\ Height[x] <= Height[c]
      <4>1. ASSUME NEW x \in Ancestors[c] PROVE x \in Block /\ Height[x] <= Height[c]
        <5>1. CASE x = c
          BY <2>1, <5>1
        <5>2. CASE x \in Ancestors[p]
          <6>1. x \in Block /\ Height[x] <= Height[p] /\ Height[x] \in Nat
            BY <3>4, <5>2
          <6> QED BY <2>1, <3>3, <6>1
        <5> QED BY <3>3, <4>1, <5>1, <5>2
      <4> QED BY <4>1
    <3>7. ASSUME NEW h \in 0..Height[c] PROVE \E x \in Ancestors[c] : Height[x] = h
      <4>1. CASE h = Height[c]
        BY <3>3, <4>1
      <4>2. CASE h # Height[c]
        <5>1. h \in 0..Height[p]
          BY <2>1, <3>3, <3>7, <4>2
        <5>2. PICK x \in Ancestors[p] : Height[x] = h
          BY <3>4, <5>1
        <5> QED BY <3>3, <5>2
      <4> QED BY <4>1, <4>2
    <3> HIDE DEF D
    <3> QED BY <3>3, <3>5, <3>6, <3>7
  <2> HIDE DEF Fine
  <2> QED BY <2>1
<1>5. n \in D
  <2> HIDE DEF D, n
  <2>1. \A k \in 0..n : k \in D
    BY <1>1, <1>3, <1>4, Ladder
  <2> QED BY <1>1, <2>1
<1> QED BY <1>5

(* Of two blocks on one branch the lower is below the higher.              *)
LEMMA OneBranch ==
  ASSUME NEW b \in Block, NEW x \in Ancestors[b], NEW y \in Ancestors[b],
         Height[x] <= Height[y]
  PROVE  x \in Ancestors[y]
<1> USE BlockTree
<1>1. x \in Block /\ y \in Block /\ Ancestors[y] \subseteq Ancestors[b]
  BY Branch
<1>2. Height[x] \in 0..Height[y]
  BY <1>1
<1>3. PICK z \in Ancestors[y] : Height[z] = Height[x]
  BY <1>1, <1>2, Branch
<1> QED BY <1>1, <1>3

(* What is below another block is below its parent.                        *)
LEMMA BelowParent ==
  ASSUME NEW b \in Block, NEW x \in Ancestors[b], x # b
  PROVE  /\ b # Genesis /\ Parent[b] \in Block /\ x \in Ancestors[Parent[b]]
         /\ Parent[b] \in Ancestors[b]
         /\ Height[b] = Height[Parent[b]] + 1 /\ Height[Parent[b]] \in Nat
<1> USE BlockTree
<1>1. b # Genesis /\ Parent[b] \in Block /\ Ancestors[b] = {b} \cup Ancestors[Parent[b]]
  OBVIOUS
<1>2. Parent[b] \in Ancestors[Parent[b]]
  BY <1>1, Branch
<1> QED BY <1>1, <1>2

(* Blocks of different heights can be put in order.                        *)
LEMMA Ordered ==
  ASSUME NEW S \in SUBSET Block, IsFiniteSet(S),
         \A x, y \in S : Height[x] = Height[y] => x = y
  PROVE  /\ OldestFirst(S) \in Seq(Block) /\ ToSet(OldestFirst(S)) = S
         /\ Len(OldestFirst(S)) = Cardinality(S)
<1> USE BlockTree
<1> DEFINE Rising(q, m) == \A i, j \in 1..m : i < j => Height[q[i]] < Height[q[j]]
           HasTop(T) == T = {} \/ \E x \in T : \A y \in T : Height[y] <= Height[x]
           Tops == {T \in SUBSET S : HasTop(T)}
           InOrder(T) == \E q \in [1..Cardinality(T) -> T] : Rising(q, Cardinality(T))
           Lists == {T \in SUBSET S : InOrder(T)}
<1>1. \A x \in S : Height[x] \in Nat
  OBVIOUS
<1>2. \A T \in SUBSET S : IsFiniteSet(T) /\ Cardinality(T) \in Nat
  BY FS_Subset, FS_CardinalityType
<1>3. \A T \in SUBSET S : T \in Tops
  <2>1. ASSUME NEW T \in SUBSET S, \A x \in T : T \ {x} \in Tops PROVE T \in Tops
    <3>1. CASE T = {}
      BY <3>1
    <3>2. CASE T # {}
      <4>1. PICK x \in T : TRUE
        BY <3>2
      <4>2. T \ {x} \in Tops
        BY <2>1
      <4>3. CASE T \ {x} = {}
        BY <1>1, <4>3
      <4>4. CASE \E z \in T \ {x} : \A y \in T \ {x} : Height[y] <= Height[z]
        <5>1. PICK z \in T \ {x} : \A y \in T \ {x} : Height[y] <= Height[z]
          BY <4>4
        <5>2. CASE Height[z] <= Height[x]
          <6>1. \A y \in T : Height[y] <= Height[x]
            BY <1>1, <5>1, <5>2
          <6> QED BY <6>1
        <5>3. CASE ~ (Height[z] <= Height[x])
          <6>1. \A y \in T : Height[y] <= Height[z]
            BY <1>1, <5>1, <5>3
          <6> QED BY <6>1
        <5> QED BY <5>2, <5>3
      <4> QED BY <4>2, <4>3, <4>4
    <3> QED BY <3>1, <3>2
  <2> HIDE DEF Tops
  <2> QED BY <2>1, SetLadder
<1>4. \A T \in SUBSET S : T \in Lists
  <2>1. ASSUME NEW T \in SUBSET S, \A x \in T : T \ {x} \in Lists PROVE T \in Lists
    <3>1. CASE T = {}
      <4>1. Cardinality(T) = 0
        BY <3>1, FS_EmptySet
      <4>2. [i \in 1..0 |-> 0] \in [1..0 -> T] /\ Rising([i \in 1..0 |-> 0], 0)
        OBVIOUS
      <4> QED BY <4>1, <4>2
    <3>2. CASE T # {}
      <4>1. PICK x \in T : \A y \in T : Height[y] <= Height[x]
        BY <1>3, <3>2
      <4>2. PICK m \in Nat : m = Cardinality(T \ {x})
        BY <1>2
      <4>3. Cardinality(T) = m + 1
        <5>1. IsFiniteSet(T \ {x}) /\ T = (T \ {x}) \cup {x}
          BY <1>2
        <5> QED BY <4>2, <5>1, FS_AddElement
      <4>4. PICK p \in [1..m -> T \ {x}] : Rising(p, m)
        BY <2>1, <4>2
      <4> DEFINE q == [i \in 1..(m + 1) |-> IF i = m + 1 THEN x ELSE p[i]]
      <4>5. q \in [1..(m + 1) -> T]
        <5>1. \A i \in 1..(m + 1) : i = m + 1 \/ i \in 1..m
          OBVIOUS
        <5> QED BY <5>1
      <4>6. Rising(q, m + 1)
        <5> SUFFICES ASSUME NEW i \in 1..(m + 1), NEW j \in 1..(m + 1), i < j
                     PROVE  Height[q[i]] < Height[q[j]]
          OBVIOUS
        <5>1. i \in 1..m /\ q[i] = p[i] /\ p[i] \in T \ {x}
          OBVIOUS
        <5>2. CASE j = m + 1
          <6>1. q[j] = x
            BY <5>2
          <6>2. Height[p[i]] <= Height[x] /\ Height[p[i]] # Height[x]
            BY <4>1, <5>1
          <6> QED BY <1>1, <5>1, <6>1, <6>2
        <5>3. CASE j # m + 1
          <6>1. j \in 1..m /\ q[j] = p[j]
            BY <5>3
          <6> QED BY <4>4, <5>1, <6>1
        <5> QED BY <5>2, <5>3
      <4> HIDE DEF q
      <4> QED BY <4>3, <4>5, <4>6
    <3> QED BY <3>1, <3>2
  <2> HIDE DEF Lists
  <2> QED BY <2>1, SetLadder
<1>5. PICK n \in Nat : n = Cardinality(S)
  BY <1>2
<1>6. PICK q : q = OldestFirst(S)
  OBVIOUS
<1>7. q \in [1..n -> S] /\ Rising(q, n)
  <2>1. \E f \in [1..n -> S] : \A i, j \in DOMAIN f : i < j => Height[f[i]] < Height[f[j]]
    <3>1. S \in Lists
      BY <1>4
    <3>2. PICK f \in [1..n -> S] : Rising(f, n)
      BY <1>5, <3>1
    <3> QED BY <3>2
  <2>2. q \in [1..n -> S] /\ \A i, j \in DOMAIN q : i < j => Height[q[i]] < Height[q[j]]
    BY <1>5, <1>6, <2>1 DEF OldestFirst
  <2> QED BY <2>2
<1>8. \A i \in 1..n : q[i] \in S
  BY <1>7
<1>9. Cardinality(ToSet(q)) = n
  <2>1. ToSet(q) = {q[i] : i \in 1..n}
    BY <1>7 DEF ToSet
  <2>2. \A i, j \in 1..n : q[i] = q[j] => i = j
    <3> SUFFICES ASSUME NEW i \in 1..n, NEW j \in 1..n, q[i] = q[j], i # j PROVE FALSE
      OBVIOUS
    <3>1. Height[q[i]] \in Nat
      BY <1>1, <1>8
    <3>2. i < j \/ j < i
      OBVIOUS
    <3> QED BY <1>7, <3>1, <3>2
  <2>3. q \in Bijection(1..n, ToSet(q))
    <3>1. q \in [1..n -> ToSet(q)]
      BY <1>7, <2>1
    <3> QED BY <1>7, <2>1, <2>2, <3>1 DEF Bijection, Injection, Surjection, IsInjective
  <2> QED BY <2>3, FS_CountingElements DEF ExistsBijection
<1>10. ToSet(q) = S
  <2>1. ToSet(q) \in SUBSET S
    BY <1>7 DEF ToSet
  <2> QED BY <1>5, <1>9, <2>1, FS_Subset
<1>11. q \in Seq(Block) /\ Len(q) = n
  <2>1. q \in Seq(S) /\ Len(q) = n
    BY <1>7
  <2> QED BY <2>1, SeqMonotonic
<1> QED BY <1>5, <1>6, <1>10, <1>11

(* A finite set can be listed.                                             *)
LEMMA Listed ==
  ASSUME NEW S, IsFiniteSet(S)
  PROVE  SetToSeq(S) \in Seq(S)
<1>1. PICK n \in Nat : ExistsBijection(1..n, S)
  BY FS_NatBijection
<1>2. n = Cardinality(S)
  BY <1>1, FS_CountingElements
<1>3. PICK f : f \in Bijection(1..n, S)
  BY <1>1 DEF ExistsBijection
<1>4. f \in [1..n -> S] /\ IsInjective(f)
  BY <1>3 DEF Bijection, Injection
<1>5. SetToSeq(S) \in [1..n -> S]
  BY <1>2, <1>4 DEF SetToSeq
<1> QED BY <1>5

-----------------------------------------------------------------------------
(* What the handlers are folded from.                                      *)

(* A run through the beginnings of a sequence.                             *)
LEMMA Climb ==
  ASSUME NEW n \in Nat, NEW g, NEW D, g[{}] \in D[0],
         \A k \in 1..n : g[1..(k - 1)] \in D[k - 1] => g[1..k] \in D[k]
  PROVE  g[1..n] \in D[n]
<1> DEFINE E == {k \in 0..n : g[1..k] \in D[k]}
<1>1. 1..0 = {}
  OBVIOUS
<1>2. 0 \in E
  <2>1. g[1..0] \in D[0]
    BY <1>1
  <2> QED BY <2>1
<1>3. ASSUME NEW k \in 0..(n - 1), k \in E PROVE k + 1 \in E
  <2>1. k + 1 \in 1..n /\ (k + 1) - 1 = k /\ g[1..k] \in D[k]
    BY <1>3
  <2>2. g[1..((k + 1) - 1)] \in D[(k + 1) - 1] => g[1..(k + 1)] \in D[k + 1]
    BY <2>1
  <2>3. g[1..(k + 1)] \in D[k + 1]
    BY <2>1, <2>2
  <2> QED BY <2>1, <2>3
<1>4. \A k \in 0..n : k \in E
  <2> HIDE DEF E
  <2> QED BY <1>2, <1>3, Ladder
<1> QED BY <1>4

OneAParent(q) == \A i, j \in DOMAIN q : Parent[q[i]] = Parent[q[j]] => i = j

(* Without takes elements out and leaves the others as they are.           *)
LEMMA WithoutFacts ==
  ASSUME NEW q \in Seq(Block), NEW out
  PROVE  /\ Without(q, out) \in Seq(Block) /\ ToSet(Without(q, out)) = ToSet(q) \ out
         /\ Len(Without(q, out)) <= Len(q)
         /\ OneAParent(q) => OneAParent(Without(q, out))
<1> DEFINE V == Seq(Block)
           Eq(h) == h = [T \in SUBSET DOMAIN q |->
                      IF T = {} THEN <<>>
                      ELSE IF q[Max(T)] \in out THEN h[T \ {Max(T)}]
                           ELSE Append(h[T \ {Max(T)}], q[Max(T)])]
           Kept(k, s) == /\ s \in V /\ Len(s) <= k
                         /\ \A i \in 1..Len(s) : \E j \in 1..k : s[i] = q[j] /\ q[j] \notin out
                         /\ \A j \in 1..k : q[j] \in out \/ \E i \in 1..Len(s) : s[i] = q[j]
                         /\ OneAParent(q) => OneAParent(s)
<1>1. PICK n \in Nat : n = Len(q) /\ DOMAIN q = 1..n /\ \A k \in 1..n : q[k] \in Block
  BY LenProperties
<1>2. PICK G : G = [a \in (1..n) \X V |-> IF q[a[1]] \in out THEN a[2] ELSE Append(a[2], q[a[1]])]
  OBVIOUS
<1>3. G \in [(1..n) \X V -> V]
  <2>1. ASSUME NEW a \in (1..n) \X V
        PROVE  (IF q[a[1]] \in out THEN a[2] ELSE Append(a[2], q[a[1]])) \in V
    <3>1. a[1] \in 1..n /\ a[2] \in V /\ q[a[1]] \in Block
      BY <1>1
    <3>2. Append(a[2], q[a[1]]) \in V
      BY <3>1, AppendProperties
    <3> QED BY <3>1, <3>2
  <2> HIDE DEF V
  <2> QED BY <1>2, <2>1
<1>4. PICK b : b = <<>> /\ b \in V
  BY EmptySeq
<1>5. PICK h \in [SUBSET (1..n) -> V] : FoldEq(h, n, b, G)
  <2> HIDE DEF V
  <2> QED BY <1>3, <1>4, FoldSolution
<1>6. ASSUME NEW T \in SUBSET (1..n), T # {}
      PROVE  G[<<Max(T), h[T \ {Max(T)}]>>]
               = IF q[Max(T)] \in out THEN h[T \ {Max(T)}]
                 ELSE Append(h[T \ {Max(T)}], q[Max(T)])
  <2>1. <<Max(T), h[T \ {Max(T)}]>> \in (1..n) \X V
    <3> HIDE DEF V
    <3> QED BY <1>5, <1>6, StepArgument
  <2> HIDE DEF V
  <2> QED BY <1>2, <2>1
<1>7. Eq(h)
  <2> HIDE DEF V
  <2> QED BY <1>1, <1>4, <1>5, <1>6 DEF FoldEq
<1>8. PICK g : Eq(g) /\ Without(q, out) = g[DOMAIN q]
  <2> DEFINE g == CHOOSE f : Eq(f)
  <2>1. Eq(g)
    BY <1>7
  <2>2. Without(q, out) = g[DOMAIN q]
    BY DEF Without, FoldLeft, MapThenFoldSet
  <2> QED BY <2>1, <2>2
<1>9. g[{}] = <<>>
  BY <1>8
<1>10. ASSUME NEW k \in 1..n
       PROVE  g[1..k] = IF q[k] \in out THEN g[1..(k - 1)] ELSE Append(g[1..(k - 1)], q[k])
  <2>1. 1..k \in SUBSET (1..n) /\ 1..k # {} /\ Max(1..k) = k /\ (1..k) \ {k} = 1..(k - 1)
    BY Beginnings
  <2>2. g[1..k] = IF q[Max(1..k)] \in out THEN g[(1..k) \ {Max(1..k)}]
                  ELSE Append(g[(1..k) \ {Max(1..k)}], q[Max(1..k)])
    BY <1>1, <1>8, <2>1
  <2> QED BY <2>1, <2>2
<1>11. PICK D : D = [k \in 0..n |-> {s \in V : Kept(k, s)}]
  OBVIOUS
<1>12. g[{}] \in D[0]
  <2>1. Kept(0, <<>>)
    BY EmptySeq DEF OneAParent
  <2> QED BY <1>9, <1>11, <2>1
<1>13. ASSUME NEW k \in 1..n, g[1..(k - 1)] \in D[k - 1] PROVE g[1..k] \in D[k]
  <2>1. PICK s \in V : s = g[1..(k - 1)] /\ Kept(k - 1, s)
    BY <1>11, <1>13
  <2>2. k - 1 \in 0..n /\ k \in 0..n /\ q[k] \in Block /\ Len(s) \in Nat /\ DOMAIN s = 1..Len(s)
    BY <1>1, LenProperties
  <2>3. CASE q[k] \in out
    <3>1. Kept(k, s)
      BY <2>1, <2>2, <2>3
    <3> QED BY <1>10, <1>11, <2>1, <2>2, <2>3, <3>1
  <2>4. CASE q[k] \notin out
    <3>1. PICK t : t = Append(s, q[k])
      OBVIOUS
    <3>2. /\ t \in V /\ Len(t) = Len(s) + 1 /\ \A i \in 1..Len(s) : t[i] = s[i]
          /\ t[Len(s) + 1] = q[k]
      BY <2>2, <3>1, AppendProperties
    <3>3. ASSUME NEW i \in 1..Len(t) PROVE \E j \in 1..k : t[i] = q[j] /\ q[j] \notin out
      <4>1. CASE i = Len(t)
        BY <2>2, <2>4, <3>2, <4>1
      <4>2. CASE i # Len(t)
        <5>1. i \in 1..Len(s)
          BY <2>2, <3>2, <4>2
        <5>2. PICK j \in 1..(k - 1) : s[i] = q[j] /\ q[j] \notin out
          BY <2>1, <5>1
        <5> QED BY <3>2, <5>1, <5>2
      <4> QED BY <4>1, <4>2
    <3>4. ASSUME NEW j \in 1..k PROVE q[j] \in out \/ \E i \in 1..Len(t) : t[i] = q[j]
      <4>1. CASE j = k
        BY <2>2, <3>2, <4>1
      <4>2. CASE j # k
        <5>1. j \in 1..(k - 1)
          BY <4>2
        <5>2. q[j] \in out \/ \E i \in 1..Len(s) : s[i] = q[j]
          BY <2>1, <5>1
        <5> QED BY <2>2, <3>2, <5>2
      <4> QED BY <4>1, <4>2
    <3>5. ASSUME OneAParent(q) PROVE OneAParent(t)
      <4>1. OneAParent(s)
        BY <2>1, <3>5
      <4>2. ASSUME NEW i \in 1..Len(s) PROVE Parent[s[i]] # Parent[q[k]]
        <5>1. PICK j \in 1..(k - 1) : s[i] = q[j]
          BY <2>1
        <5> QED BY <1>1, <3>5, <5>1 DEF OneAParent
      <4>3. DOMAIN t = 1..(Len(s) + 1)
        BY <3>2, LenProperties
      <4> SUFFICES ASSUME NEW i \in 1..(Len(s) + 1), NEW j \in 1..(Len(s) + 1),
                          Parent[t[i]] = Parent[t[j]]
                   PROVE  i = j
        BY <4>3 DEF OneAParent
      <4>4. i \in 1..Len(s) \/ i = Len(s) + 1
        BY <2>2
      <4>5. j \in 1..Len(s) \/ j = Len(s) + 1
        BY <2>2
      <4> QED BY <2>2, <3>2, <4>1, <4>2, <4>4, <4>5 DEF OneAParent
    <3>6. Len(t) <= k
      BY <2>1, <2>2, <3>2
    <3>7. Kept(k, t)
      BY <3>2, <3>3, <3>4, <3>5, <3>6
    <3> HIDE DEF Kept, V
    <3> QED BY <1>10, <1>11, <2>1, <2>2, <2>4, <3>1, <3>2, <3>7
  <2> QED BY <2>3, <2>4
<1>14. g[1..n] \in D[n]
  BY <1>12, <1>13, Climb
<1>15. PICK s \in V : s = Without(q, out) /\ Kept(n, s)
  <2> HIDE DEF Kept, V, Eq
  <2>1. n \in 0..n
    OBVIOUS
  <2>2. Without(q, out) = g[1..n]
    BY <1>1, <1>8
  <2>3. D[n] = {s \in V : Kept(n, s)}
    BY <1>11, <2>1
  <2> QED BY <1>14, <2>2, <2>3
<1>16. ToSet(s) = ToSet(q) \ out
  <2>1. ToSet(s) = {s[i] : i \in 1..Len(s)} /\ ToSet(q) = {q[j] : j \in 1..n}
    <3>1. s \in Seq(Block)
      BY <1>15
    <3> QED BY <1>1, <3>1, LenProperties DEF ToSet
  <2>2. /\ \A i \in 1..Len(s) : \E j \in 1..n : s[i] = q[j] /\ q[j] \notin out
        /\ \A j \in 1..n : q[j] \in out \/ \E i \in 1..Len(s) : s[i] = q[j]
    BY <1>15
  <2> HIDE DEF Kept, V, Eq
  <2> QED BY <2>1, <2>2
<1> QED BY <1>1, <1>15, <1>16

-----------------------------------------------------------------------------
(* A block is added.                                                       *)

(* What a chain confirms, its ancestors confirm a part of.                 *)
LEMMA OnChainFacts ==
  ASSUME NEW b \in Block
  PROVE  /\ OnChain(b) \subseteq Tx
         /\ \A x \in Ancestors[b] : OnChain(x) \subseteq OnChain(b)
         /\ \A x \in Ancestors[b] : x # b => OnChain(b) = Confirms[b] \cup OnChain(Parent[b])
<1> USE BlockTree, GossipConstants
<1>1. \A x \in Ancestors[b] : x \in Block /\ Ancestors[x] \subseteq Ancestors[b]
  BY Branch
<1>2. OnChain(b) \subseteq Tx
  BY <1>1 DEF OnChain
<1>3. ASSUME NEW x \in Ancestors[b], x # b PROVE OnChain(b) = Confirms[b] \cup OnChain(Parent[b])
  <2>1. Ancestors[b] = {b} \cup Ancestors[Parent[b]]
    BY <1>3, BelowParent
  <2> QED BY <2>1 DEF OnChain
<1> QED BY <1>1, <1>2, <1>3 DEF OnChain

(* The tip moves, or it does not, and the pool with it.                    *)
LEMMA AddFacts ==
  ASSUME NEW s \in Local, NEW b \in Block
  PROVE  /\ Add(s, b) \in Local
         /\ Add(s, b).known = s.known \cup {b} /\ Add(s, b).orphans = s.orphans
         /\ Add(s, b).missed = s.missed /\ Add(s, b).asked = s.asked
         /\ \/ Add(s, b).tip = s.tip /\ Add(s, b).pool = s.pool
            \/ /\ Add(s, b).tip = b
               /\ Add(s, b).pool = (s.pool \cup OnChain(s.tip)) \ OnChain(b)
<1>1. s.tip \in Block
  BY DEF Local
<1>2. OnChain(s.tip) \subseteq Tx
  BY <1>1, OnChainFacts
<1>3. PICK u : u = [s EXCEPT !.known = @ \cup {b}]
  OBVIOUS
<1>4. /\ u \in Local /\ u.known = s.known \cup {b} /\ u.orphans = s.orphans
      /\ u.missed = s.missed /\ u.asked = s.asked /\ u.tip = s.tip /\ u.pool = s.pool
  BY <1>3 DEF Local
<1>5. PICK t : t = [u EXCEPT !.tip = b, !.pool = (@ \cup OnChain(u.tip)) \ OnChain(b)]
  OBVIOUS
<1>6. /\ t \in Local /\ t.known = u.known /\ t.orphans = u.orphans
      /\ t.missed = u.missed /\ t.asked = u.asked /\ t.tip = b
      /\ t.pool = (u.pool \cup OnChain(u.tip)) \ OnChain(b)
  BY <1>2, <1>4, <1>5 DEF Local
<1>7. Add(s, b) = IF Work[b] > Work[s.tip] THEN t ELSE u
  BY <1>3, <1>5 DEF Add, MoveTip
<1> QED BY <1>4, <1>6, <1>7

(* Blocks are added one after the other.                                   *)
LEMMA AddsFacts ==
  ASSUME NEW s \in Local, NEW q \in Seq(Block), NEW T,
         s.pool \subseteq T, s.pool \cap OnChain(s.tip) = {}, OnChain(s.tip) \subseteq T,
         \A b \in ToSet(q) : OnChain(b) \subseteq T
  PROVE  LET t == FoldLeft(Add, s, q)
         IN  /\ t \in Local /\ t.known = s.known \cup ToSet(q) /\ t.orphans = s.orphans
             /\ t.missed = s.missed /\ t.asked = s.asked /\ t.tip \in {s.tip} \cup ToSet(q)
             /\ t.pool \subseteq T /\ t.pool \cap OnChain(t.tip) = {}
<1> DEFINE Eq(h) == h = [A \in SUBSET DOMAIN q |->
                      IF A = {} THEN s ELSE Add(h[A \ {Max(A)}], q[Max(A)])]
           Added(k, t) ==
             /\ t \in Local /\ t.known = s.known \cup {q[i] : i \in 1..k} /\ t.orphans = s.orphans
             /\ t.missed = s.missed /\ t.asked = s.asked /\ t.tip \in {s.tip} \cup ToSet(q)
             /\ t.pool \subseteq T /\ t.pool \cap OnChain(t.tip) = {}
<1>1. PICK n \in Nat : n = Len(q) /\ DOMAIN q = 1..n /\ \A k \in 1..n : q[k] \in Block
  BY LenProperties
<1>2. PICK G : G = [a \in (1..n) \X Local |-> Add(a[2], q[a[1]])]
  OBVIOUS
<1>3. G \in [(1..n) \X Local -> Local]
  <2>1. ASSUME NEW a \in (1..n) \X Local PROVE Add(a[2], q[a[1]]) \in Local
    <3>1. a[1] \in 1..n /\ a[2] \in Local /\ q[a[1]] \in Block
      BY <1>1
    <3> QED BY <3>1, AddFacts
  <2> QED BY <1>2, <2>1
<1>4. PICK h \in [SUBSET (1..n) -> Local] : FoldEq(h, n, s, G)
  BY <1>3, FoldSolution
<1>5. ASSUME NEW A \in SUBSET (1..n), A # {}
      PROVE  G[<<Max(A), h[A \ {Max(A)}]>>] = Add(h[A \ {Max(A)}], q[Max(A)])
  <2>1. <<Max(A), h[A \ {Max(A)}]>> \in (1..n) \X Local
    BY <1>4, <1>5, StepArgument
  <2> QED BY <1>2, <2>1
<1>6. Eq(h)
  BY <1>1, <1>4, <1>5 DEF FoldEq
<1>7. PICK g : Eq(g) /\ FoldLeft(Add, s, q) = g[DOMAIN q]
  <2> DEFINE g == CHOOSE f : Eq(f)
  <2>1. Eq(g)
    BY <1>6
  <2>2. FoldLeft(Add, s, q) = g[DOMAIN q]
    BY DEF FoldLeft, MapThenFoldSet
  <2> QED BY <2>1, <2>2
<1>8. g[{}] = s
  BY <1>7
<1>9. ASSUME NEW k \in 1..n PROVE g[1..k] = Add(g[1..(k - 1)], q[k])
  <2>1. 1..k \in SUBSET (1..n) /\ 1..k # {} /\ Max(1..k) = k /\ (1..k) \ {k} = 1..(k - 1)
    BY Beginnings
  <2>2. g[1..k] = Add(g[(1..k) \ {Max(1..k)}], q[Max(1..k)])
    BY <1>1, <1>7, <2>1
  <2> QED BY <2>1, <2>2
<1>10. PICK D : D = [k \in 0..n |-> {t \in Local : Added(k, t)}]
  OBVIOUS
<1>11. g[{}] \in D[0]
  <2>1. Added(0, s)
    OBVIOUS
  <2> QED BY <1>8, <1>10, <2>1
<1>12. ASSUME NEW k \in 1..n, g[1..(k - 1)] \in D[k - 1] PROVE g[1..k] \in D[k]
  <2>1. PICK t \in Local : t = g[1..(k - 1)] /\ Added(k - 1, t)
    BY <1>10, <1>12
  <2>2. k - 1 \in 0..n /\ k \in 0..n /\ q[k] \in Block /\ q[k] \in ToSet(q)
    BY <1>1 DEF ToSet
  <2>3. PICK u : u = Add(t, q[k])
    OBVIOUS
  <2>4. /\ u \in Local /\ u.known = t.known \cup {q[k]} /\ u.orphans = t.orphans
        /\ u.missed = t.missed /\ u.asked = t.asked
        /\ \/ u.tip = t.tip /\ u.pool = t.pool
           \/ u.tip = q[k] /\ u.pool = (t.pool \cup OnChain(t.tip)) \ OnChain(q[k])
    BY <2>2, <2>3, AddFacts
  <2>5. {q[i] : i \in 1..k} = {q[i] : i \in 1..(k - 1)} \cup {q[k]}
    OBVIOUS
  <2>6. OnChain(t.tip) \subseteq T
    BY <2>1
  <2>7. u.pool \subseteq T /\ u.pool \cap OnChain(u.tip) = {} /\ u.tip \in {s.tip} \cup ToSet(q)
    BY <2>1, <2>2, <2>4, <2>6
  <2>8. Added(k, u)
    BY <2>1, <2>4, <2>5, <2>7
  <2> HIDE DEF Added
  <2> QED BY <1>9, <1>10, <2>1, <2>2, <2>3, <2>4, <2>8
<1>13. g[1..n] \in D[n]
  BY <1>11, <1>12, Climb
<1>14. Added(n, FoldLeft(Add, s, q))
  <2> HIDE DEF Added, Eq
  <2>1. n \in 0..n
    OBVIOUS
  <2>2. FoldLeft(Add, s, q) = g[1..n]
    BY <1>1, <1>7
  <2>3. D[n] = {t \in Local : Added(n, t)}
    BY <1>10, <2>1
  <2> QED BY <1>13, <2>2, <2>3
<1>15. ToSet(q) = {q[i] : i \in 1..n}
  BY <1>1 DEF ToSet
<1> QED BY <1>14, <1>15

-----------------------------------------------------------------------------
(* The elements of a sequence.                                             *)

(* The elements of a sequence are its items.                               *)
LEMMA Elements ==
  ASSUME NEW S, NEW q \in Seq(S)
  PROVE  /\ ToSet(q) \in SUBSET S /\ IsFiniteSet(ToSet(q))
         /\ \A e \in ToSet(q) : \E i \in 1..Len(q) : q[i] = e
         /\ \A i \in 1..Len(q) : q[i] \in ToSet(q)
<1>1. PICK n \in Nat : n = Len(q) /\ DOMAIN q = 1..n /\ q \in [1..n -> S]
  BY LenProperties
<1>2. ToSet(q) = {q[i] : i \in 1..n}
  BY <1>1 DEF ToSet
<1>3. IsFiniteSet(ToSet(q))
  <2>1. IsFiniteSet(1..n)
    BY FS_Interval
  <2>2. q \in [1..n -> ToSet(q)] /\ \A e \in ToSet(q) : \E i \in 1..n : q[i] = e
    BY <1>1, <1>2
  <2>3. q \in Surjection(1..n, ToSet(q))
    BY <2>2 DEF Surjection
  <2> QED BY <2>1, <2>3, FS_Surjection DEF ExistsSurjection
<1>4. ToSet(q) \in SUBSET S
  BY <1>1, <1>2
<1>5. \A e \in ToSet(q) : \E i \in 1..Len(q) : q[i] = e
  BY <1>1, <1>2
<1>6. \A i \in 1..Len(q) : q[i] \in ToSet(q)
  BY <1>1, <1>2
<1> QED BY <1>3, <1>4, <1>5, <1>6

(* A sequence with an element at its end.                                  *)
LEMMA Appended ==
  ASSUME NEW S, NEW q \in Seq(S), NEW e \in S
  PROVE  /\ Append(q, e) \in Seq(S) /\ ToSet(Append(q, e)) = ToSet(q) \cup {e}
         /\ Len(Append(q, e)) = Len(q) + 1 /\ Append(q, e)[Len(q) + 1] = e
         /\ \A i \in 1..Len(q) : Append(q, e)[i] = q[i]
<1>1. PICK n \in Nat : n = Len(q) /\ DOMAIN q = 1..n
  BY LenProperties
<1>2. PICK t : t = Append(q, e)
  OBVIOUS
<1>3. /\ t \in Seq(S) /\ Len(t) = n + 1 /\ t[n + 1] = e /\ \A i \in 1..n : t[i] = q[i]
  BY <1>1, <1>2, AppendProperties
<1>4. DOMAIN t = 1..(n + 1)
  BY <1>3, LenProperties
<1>5. ToSet(t) = {t[i] : i \in 1..(n + 1)} /\ ToSet(q) = {q[i] : i \in 1..n}
  BY <1>1, <1>4 DEF ToSet
<1>6. ToSet(t) = ToSet(q) \cup {e}
  <2>1. \A i \in 1..(n + 1) : i \in 1..n \/ i = n + 1
    OBVIOUS
  <2>2. \A i \in 1..n : i \in 1..(n + 1)
    OBVIOUS
  <2>3. n + 1 \in 1..(n + 1)
    OBVIOUS
  <2> QED BY <1>3, <1>5, <2>1, <2>2, <2>3
<1> QED BY <1>1, <1>2, <1>3, <1>6

(* A sequence without its head.                                            *)
LEMMA Beheaded ==
  ASSUME NEW S, NEW q \in Seq(S), q # <<>>
  PROVE  /\ Head(q) \in S /\ Head(q) \in ToSet(q) /\ Tail(q) \in Seq(S)
         /\ ToSet(q) = {Head(q)} \cup ToSet(Tail(q))
         /\ Len(Tail(q)) = Len(q) - 1 /\ Len(q) \in Nat \ {0}
         /\ \A i \in 1..Len(Tail(q)) : Tail(q)[i] = q[i + 1]
<1>1. PICK n \in Nat : n = Len(q) /\ DOMAIN q = 1..n /\ q \in [1..n -> S]
  BY LenProperties
<1>2. n # 0
  BY <1>1, EmptySeq
<1>3. PICK t : t = Tail(q)
  OBVIOUS
<1>4. /\ t \in Seq(S) /\ Len(t) = n - 1 /\ Head(q) = q[1] /\ Head(q) \in S
      /\ \A i \in 1..(n - 1) : t[i] = q[i + 1]
  BY <1>1, <1>3, HeadTailProperties
<1>5. DOMAIN t = 1..(n - 1)
  BY <1>4, LenProperties
<1>6. ToSet(t) = {t[i] : i \in 1..(n - 1)} /\ ToSet(q) = {q[i] : i \in 1..n}
  BY <1>1, <1>5 DEF ToSet
<1>7. ToSet(q) = {q[1]} \cup ToSet(t)
  <2>1. \A i \in 1..n : i = 1 \/ i - 1 \in 1..(n - 1)
    OBVIOUS
  <2>2. \A i \in 1..(n - 1) : i + 1 \in 1..n
    OBVIOUS
  <2>3. \A i \in 1..n : (i - 1) + 1 = i
    OBVIOUS
  <2>4. 1 \in 1..n
    BY <1>2
  <2>5. \A i \in 1..n : q[i] = q[1] \/ q[i] \in ToSet(t)
    <3> TAKE i \in 1..n
    <3>1. CASE i # 1
      <4>1. t[i - 1] = q[i]
        BY <1>4, <2>1, <2>3, <3>1
      <4> QED BY <1>6, <2>1, <3>1, <4>1
    <3> QED BY <3>1
  <2>6. \A i \in 1..(n - 1) : t[i] \in ToSet(q)
    BY <1>4, <1>6, <2>2
  <2> QED BY <1>6, <2>4, <2>5, <2>6
<1> QED BY <1>1, <1>2, <1>3, <1>4, <1>7

-----------------------------------------------------------------------------
(* Orphans are drained.                                                    *)

(* What is unlocked hangs together: no two of one height, the branches     *)
(* below known, and no other orphan waits for one of them.                 *)
LEMMA UnlockedFacts ==
  ASSUME NEW s \in Local, NEW b \in Block, OneAParent(s.orphans)
  PROVE  /\ Unlocked(s, b) \in SUBSET Block /\ IsFiniteSet(Unlocked(s, b))
         /\ Unlocked(s, b) \subseteq ToSet(s.orphans)
         /\ \A x, y \in Unlocked(s, b) : Height[x] = Height[y] => x = y
         /\ \A o \in Unlocked(s, b) : Ancestors[o] \subseteq Ancestors[b] \cup Unlocked(s, b)
         /\ \A o \in ToSet(s.orphans) \ Unlocked(s, b) : \A w \in Ancestors[o] :
              Ancestors[o] \ Ancestors[w] \subseteq ToSet(s.orphans)
                => /\ w # b /\ w \notin Unlocked(s, b)
                   /\ (Ancestors[o] \ Ancestors[w]) \cap Unlocked(s, b) = {}
<1> USE BlockTree
<1>1. PICK O : O = ToSet(s.orphans)
  OBVIOUS
<1>2. PICK out : out = Unlocked(s, b)
  OBVIOUS
<1>3. out = {o \in O : b \in Ancestors[o] /\ Ancestors[o] \ Ancestors[b] \subseteq O}
  BY <1>1, <1>2 DEF Unlocked
<1>4. s.orphans \in Seq(Block)
  BY DEF Local
<1>5. O \in SUBSET Block /\ IsFiniteSet(O)
  BY <1>1, <1>4, Elements
<1>6. out \in SUBSET Block /\ IsFiniteSet(out) /\ out \subseteq O
  <2>1. out \in SUBSET O
    BY <1>3
  <2> QED BY <1>5, <2>1, FS_Subset
<1>7. ASSUME NEW x \in O, NEW y \in O, Parent[x] = Parent[y] PROVE x = y
  <2> HIDE BlockTree
  <2>1. \A e \in O : \E i \in 1..Len(s.orphans) : s.orphans[i] = e
    BY <1>1, <1>4, Elements
  <2>2. PICK i \in 1..Len(s.orphans) : s.orphans[i] = x
    BY <1>7, <2>1
  <2>3. PICK j \in 1..Len(s.orphans) : s.orphans[j] = y
    BY <1>7, <2>1
  <2>4. DOMAIN s.orphans = 1..Len(s.orphans)
    BY <1>4, LenProperties
  <2>5. i = j
    BY <1>7, <2>2, <2>3, <2>4 DEF OneAParent
  <2> QED BY <2>2, <2>3, <2>5
<1>8. ASSUME NEW o \in out, NEW z \in Ancestors[o], z \notin Ancestors[b]
      PROVE  z \in out
  <2>1. o \in Block /\ z \in Block /\ b \in Ancestors[o] /\ z \in O
    BY <1>3, <1>6, <1>8, Branch
  <2>2. Height[b] <= Height[z] \/ Height[z] <= Height[b]
    <3>1. Height[b] \in Nat /\ Height[z] \in Nat
      BY <2>1
    <3> QED BY <3>1
  <2>3. b \in Ancestors[z]
    BY <1>8, <2>1, <2>2, OneBranch
  <2>4. Ancestors[z] \subseteq Ancestors[o]
    BY <1>8, <2>1
  <2> QED BY <1>3, <1>8, <2>1, <2>3, <2>4
<1>9. \A x, y \in out : Height[x] = Height[y] => x = y
  <2> DEFINE W == out \cup {b}
             D == {k \in Nat : \A x, y \in W : Height[x] = Height[b] + k /\ Height[y] = Height[b] + k => x = y}
  <2>1. \A x \in W : x \in Block /\ b \in Ancestors[x] /\ Height[x] \in Nat /\ Height[b] \in Nat /\ Height[b] <= Height[x]
    <3> TAKE x \in W
    <3>1. x \in Block /\ b \in Ancestors[x]
      BY <1>3, <1>6, Branch
    <3>2. Height[b] <= Height[x]
      BY <3>1, Branch
    <3> QED BY <3>1, <3>2
  <2>2. \A x \in W : Height[x] = Height[b] => x = b
    <3> TAKE x \in W
    <3>1. x \in Block /\ b \in Ancestors[x] /\ x \in Ancestors[x]
      BY <2>1, Branch
    <3> QED BY <3>1
  <2>3. 0 \in D
    <3>1. \A x \in W : Height[x] = Height[b] + 0 => x = b
      BY <2>1, <2>2
    <3> HIDE DEF W
    <3> QED BY <3>1
  <2>4. ASSUME NEW x \in W, Height[x] # Height[b]
        PROVE  /\ x \in O /\ Parent[x] \in W
               /\ Height[x] = Height[Parent[x]] + 1 /\ Height[Parent[x]] \in Nat
    <3>1. x # b /\ x \in out
      BY <2>4
    <3>2. x \in Block /\ b \in Ancestors[x]
      BY <2>1
    <3>3. /\ Parent[x] \in Block /\ b \in Ancestors[Parent[x]] /\ Parent[x] \in Ancestors[x]
          /\ Height[x] = Height[Parent[x]] + 1 /\ Height[Parent[x]] \in Nat
      BY <3>1, <3>2, BelowParent
    <3>4. CASE Parent[x] \in Ancestors[b]
      <4>1. Height[Parent[x]] <= Height[b] /\ Height[b] <= Height[Parent[x]]
        BY <3>3, <3>4, Branch
      <4>2. Height[Parent[x]] = Height[b]
        BY <2>1, <3>3, <4>1
      <4>3. Parent[x] = b
        BY <3>2, <3>3, <4>2
      <4> QED BY <1>6, <3>1, <3>3, <4>3
    <3>5. CASE Parent[x] \notin Ancestors[b]
      <4>1. Parent[x] \in out
        BY <1>8, <3>1, <3>3, <3>5
      <4> QED BY <1>6, <3>1, <3>3, <4>1
    <3> QED BY <3>4, <3>5
  <2>5. ASSUME NEW k \in Nat, k \in D PROVE k + 1 \in D
    <3>1. ASSUME NEW x \in W, NEW y \in W,
                 Height[x] = Height[b] + (k + 1), Height[y] = Height[b] + (k + 1)
          PROVE  x = y
      <4>1. Height[b] \in Nat
        BY <2>1
      <4>2. Height[x] # Height[b] /\ Height[y] # Height[b]
        BY <3>1, <4>1
      <4>3. /\ x \in O /\ Parent[x] \in W /\ Height[x] = Height[Parent[x]] + 1
            /\ Height[Parent[x]] \in Nat
        BY <2>4, <4>2
      <4>4. /\ y \in O /\ Parent[y] \in W /\ Height[y] = Height[Parent[y]] + 1
            /\ Height[Parent[y]] \in Nat
        BY <2>4, <4>2
      <4>5. Height[Parent[x]] = Height[b] + k /\ Height[Parent[y]] = Height[b] + k
        BY <3>1, <4>1, <4>3, <4>4
      <4>6. Parent[x] = Parent[y]
        BY <2>5, <4>3, <4>4, <4>5
      <4> QED BY <1>7, <4>3, <4>4, <4>6
    <3> QED BY <2>5, <3>1
  <2>6. ASSUME NEW x \in out, NEW y \in out, Height[x] = Height[y] PROVE x = y
    <3>1. x \in W /\ y \in W
      OBVIOUS
    <3>2. PICK n \in Nat : n = Height[x] - Height[b] /\ Height[x] = Height[b] + n
      <4>1. Height[x] \in Nat /\ Height[b] \in Nat /\ Height[b] <= Height[x]
        BY <2>1, <3>1
      <4> QED BY <4>1
    <3>3. n \in D
      <4> HIDE DEF D, W
      <4>1. \A k \in 0..n : k \in D
        BY <2>3, <2>5, Ladder
      <4> QED BY <4>1
    <3> QED BY <2>6, <3>1, <3>2, <3>3
  <2> QED BY <2>6
<1>10. ASSUME NEW o \in O \ out, NEW w \in Ancestors[o], Ancestors[o] \ Ancestors[w] \subseteq O
       PROVE  /\ w # b /\ w \notin out
              /\ (Ancestors[o] \ Ancestors[w]) \cap out = {}
  <2>1. o \in Block /\ w \in Block /\ Ancestors[w] \subseteq Ancestors[o]
    BY <1>5, Branch
  <2>2. w # b
    BY <1>3, <1>10
  <2>3. w \notin out
    <3> SUFFICES ASSUME w \in out PROVE FALSE
      OBVIOUS
    <3>1. b \in Ancestors[o] /\ Ancestors[w] \ Ancestors[b] \subseteq O
      BY <1>3, <2>1
    <3> QED BY <1>3, <1>10, <3>1
  <2>4. ASSUME NEW y \in Ancestors[o], y \notin Ancestors[w], y \in out PROVE FALSE
    <3>1. y \in Block /\ Height[y] \in Nat /\ Height[w] \in Nat
      BY <1>6, <2>1
    <3>2. w \in Ancestors[y]
      BY <2>1, <2>4, <3>1, OneBranch
    <3>3. /\ Ancestors[w] \subseteq Ancestors[y] /\ Ancestors[y] \subseteq Ancestors[o]
          /\ b \in Ancestors[y] /\ Ancestors[y] \ Ancestors[b] \subseteq O
      BY <1>3, <2>1, <2>4, <3>1, <3>2
    <3>4. Ancestors[o] \ Ancestors[b] \subseteq O
      BY <1>10, <3>3
    <3> QED BY <1>3, <1>10, <3>3, <3>4
  <2> QED BY <2>2, <2>3, <2>4
<1>11. \A o \in out : Ancestors[o] \subseteq Ancestors[b] \cup out
  BY <1>8
<1> QED BY <1>1, <1>2, <1>6, <1>9, <1>10, <1>11

-----------------------------------------------------------------------------
(* The inductive invariant.                                                *)

(* The transactions that are no longer to come.                            *)
Settled == Tx \ left.txs

(* What a node holds agrees with itself, T the transactions there are.     *)
LocalOk(s, T) ==
  /\ s \in Local
  /\ Genesis \in s.known /\ s.tip \in s.known
  /\ \A b \in s.known : Ancestors[b] \subseteq s.known /\ OnChain(b) \subseteq T
  /\ s.pool \subseteq T /\ s.pool \cap OnChain(s.tip) = {}
  /\ Len(s.orphans) <= MaxOrphans /\ OneAParent(s.orphans)

(* A message names what its sender, or the one it asks, knows.             *)
MsgOk(msg, mine, theirs, T) ==
  /\ msg \in Message /\ msg.txs \subseteq T
  /\ msg.t \in {"hello", "block", "blocks"} => msg.b \in mine
  /\ msg.t = "getBlock" => msg.b \in theirs
  /\ msg.t \in {"getTx", "tx"} => msg.txs # {}

(* An orphan waits for a block of C, or a part of its branch was missed.   *)
Waits(s, o, C) ==
  \/ Ancestors[o] \cap s.missed # {}
  \/ \E b \in Ancestors[o] \ s.known :
       b \in C /\ Ancestors[o] \ Ancestors[b] \subseteq ToSet(s.orphans)

(* The blocks on their way to n in the channels c, and those asked for.    *)
Heading(c, n) == {b \in Block : \E m \in Node : BlockMsg(b) \in ToSet(c[m][n])}
Asked(out) == {b \in Block : \E m \in Node : GetBlock(b) \in ToSet(out[m])}
Coming(n) == Heading(chan, n) \cup Asked(chan[n])

Known == UNION {node[n].known : n \in Node}

GTypes ==
  /\ node \in [Node -> Local] /\ chan \in [Node -> [Node -> Seq(Message)]]
  /\ linked \subseteq Node \X Node /\ \A n \in Node : <<n, n>> \notin linked

GLeft ==
  /\ left \in Budget
  /\ \E u \in Budgets : /\ left.links = u.links /\ left.first \subseteq u.first
                        /\ left.blocks \subseteq u.blocks
                        /\ left.txs \subseteq u.txs /\ left.drops \in 0..u.drops

GMail ==
  \A n, m \in Node : \A msg \in ToSet(chan[n][m]) :
    MsgOk(msg, node[n].known, node[m].known, Settled)

GParked ==
  \A n \in Node : \A o \in ToSet(node[n].orphans) :
    o \in Known /\ Waits(node[n], o, Coming(n))

GInv ==
  /\ GTypes /\ GLeft /\ GMail /\ GParked
  /\ \A n \in Node : LocalOk(node[n], Settled)
  /\ Known \cap left.blocks = {}

Draft == [s : Local, out : [Node -> Seq(Message)]]

(* A node as it works through a handler: what it held and sent, it still   *)
(* holds and sends; it may know, and hold as orphans, the blocks of U.     *)
Working(n, C, U, T) ==
  {d \in Draft :
     /\ LocalOk(d.s, T)
     /\ node[n].known \subseteq d.s.known /\ d.s.known \subseteq U
     /\ ToSet(d.s.orphans) \subseteq U
     /\ \A m \in Node : ToSet(chan[n][m]) \subseteq ToSet(d.out[m])
     /\ \A m \in Node : \A msg \in ToSet(d.out[m]) :
          MsgOk(msg, d.s.known, node[m].known, T)
     /\ \A o \in ToSet(d.s.orphans) : Waits(d.s, o, C \cup Asked(d.out))}

-----------------------------------------------------------------------------
(* A block is handled.                                                     *)

(* A block whose parent is known is added, with the orphans it unlocks.    *)
LEMMA DrainFacts ==
  ASSUME NEW s, NEW T, LocalOk(s, T), NEW b \in Block, Parent[b] \in s.known,
         OnChain(b) \subseteq T,
         \A o \in ToSet(s.orphans) : OnChain(o) \subseteq T
  PROVE  LET t == DrainOrphans(Add(s, b), b)
         IN  /\ LocalOk(t, T)
             /\ t.known = s.known \cup {b} \cup Unlocked(s, b)
             /\ ToSet(t.orphans) = ToSet(s.orphans) \ Unlocked(s, b)
             /\ t.missed = s.missed /\ t.asked = s.asked
<1>1. PICK out : out = Unlocked(s, b)
  OBVIOUS
<1>2. s \in Local /\ OneAParent(s.orphans) /\ s.orphans \in Seq(Block) /\ s.tip \in Block /\ s.known \in SUBSET Block
  BY DEF LocalOk, Local
<1>3. PICK a : a = Add(s, b)
  OBVIOUS
<1>4. /\ a \in Local /\ a.known = s.known \cup {b} /\ a.orphans = s.orphans
      /\ a.missed = s.missed /\ a.asked = s.asked
      /\ \/ a.tip = s.tip /\ a.pool = s.pool
         \/ a.tip = b /\ a.pool = (s.pool \cup OnChain(s.tip)) \ OnChain(b)
  BY <1>2, <1>3, AddFacts
<1>5. Unlocked(a, b) = out
  BY <1>1, <1>4 DEF Unlocked
<1>6. /\ out \in SUBSET Block /\ IsFiniteSet(out) /\ out \subseteq ToSet(s.orphans)
      /\ \A x, y \in out : Height[x] = Height[y] => x = y
      /\ \A o \in out : Ancestors[o] \subseteq Ancestors[b] \cup out
  BY <1>1, <1>2, UnlockedFacts
<1>7. PICK q : q = OldestFirst(out)
  OBVIOUS
<1>8. q \in Seq(Block) /\ ToSet(q) = out
  BY <1>6, <1>7, Ordered
<1>9. PICK w : w = Without(s.orphans, out)
  OBVIOUS
<1>10. /\ w \in Seq(Block) /\ ToSet(w) = ToSet(s.orphans) \ out
       /\ Len(w) <= Len(s.orphans) /\ OneAParent(w)
  BY <1>2, <1>9, WithoutFacts
<1>11. PICK e : e = [a EXCEPT !.orphans = w]
  OBVIOUS
<1>12. /\ e \in Local /\ e.known = a.known /\ e.orphans = w /\ e.missed = s.missed
       /\ e.asked = s.asked /\ e.tip = a.tip /\ e.pool = a.pool
  BY <1>4, <1>10, <1>11 DEF Local
<1>13. OnChain(s.tip) \subseteq T /\ s.pool \subseteq T /\ s.pool \cap OnChain(s.tip) = {}
       /\ s.tip \in s.known
  BY DEF LocalOk
<1>14. /\ e.pool \subseteq T /\ e.pool \cap OnChain(e.tip) = {} /\ OnChain(e.tip) \subseteq T
       /\ e.tip \in s.known \cup {b}
  BY <1>4, <1>12, <1>13
<1>15. PICK t : t = FoldLeft(Add, e, q)
  OBVIOUS
<1>16. /\ t \in Local /\ t.known = e.known \cup out /\ t.orphans = w
       /\ t.missed = s.missed /\ t.asked = s.asked /\ t.tip \in {e.tip} \cup out
       /\ t.pool \subseteq T /\ t.pool \cap OnChain(t.tip) = {}
  <2>1. \A x \in ToSet(q) : OnChain(x) \subseteq T
    BY <1>6, <1>8
  <2> QED BY <1>8, <1>12, <1>14, <1>15, <2>1, AddsFacts
<1>17. t = DrainOrphans(Add(s, b), b)
  BY <1>3, <1>4, <1>5, <1>7, <1>9, <1>11, <1>15 DEF DrainOrphans
<1>18. t.known = s.known \cup {b} \cup out
  BY <1>4, <1>12, <1>16
<1>19. \A x \in t.known : Ancestors[x] \subseteq t.known /\ OnChain(x) \subseteq T
  <2>1. Ancestors[b] \subseteq s.known \cup {b}
    <3>1. Ancestors[b] = {b} \/ Ancestors[b] = {b} \cup Ancestors[Parent[b]]
      BY BlockTree
    <3>2. Ancestors[Parent[b]] \subseteq s.known
      BY DEF LocalOk
    <3> QED BY <3>1, <3>2
  <2>2. \A x \in s.known : Ancestors[x] \subseteq s.known /\ OnChain(x) \subseteq T
    BY DEF LocalOk
  <2>3. \A x \in out : Ancestors[x] \subseteq s.known \cup {b} \cup out /\ OnChain(x) \subseteq T
    BY <1>6, <2>1
  <2> QED BY <1>18, <2>1, <2>2, <2>3
<1>20. Len(w) <= MaxOrphans
  <2>1. Len(w) \in Nat /\ Len(s.orphans) \in Nat /\ Len(s.orphans) <= MaxOrphans
    BY <1>2, <1>10, LenProperties DEF LocalOk
  <2> QED BY <1>10, <2>1, GossipConstants
<1>21. LocalOk(t, T)
  <2>1. Genesis \in t.known /\ t.tip \in t.known
    BY <1>14, <1>16, <1>18 DEF LocalOk
  <2> QED BY <1>10, <1>16, <1>19, <1>20, <2>1 DEF LocalOk
<1> QED BY <1>1, <1>10, <1>16, <1>17, <1>18, <1>21

(* The orphan map takes a block: at the cap its oldest entry goes, and a   *)
(* block of the same parent makes room.                                    *)
LEMMA ParkFacts ==
  ASSUME NEW s, NEW T, LocalOk(s, T), NEW b \in Block
  PROVE  /\ LocalOk(Park(s, b), T)
         /\ Park(s, b).known = s.known
         /\ b \in ToSet(Park(s, b).orphans)
         /\ ToSet(Park(s, b).orphans) \subseteq ToSet(s.orphans) \cup {b}
         /\ s.missed \cup (ToSet(s.orphans) \ ToSet(Park(s, b).orphans)) = Park(s, b).missed
<1>1. /\ s \in Local /\ OneAParent(s.orphans) /\ s.orphans \in Seq(Block)
      /\ Len(s.orphans) <= MaxOrphans /\ Len(s.orphans) \in Nat
      /\ ToSet(s.orphans) \in SUBSET Block
  <2>1. s \in Local /\ OneAParent(s.orphans) /\ Len(s.orphans) <= MaxOrphans
    BY DEF LocalOk
  <2>2. s.orphans \in Seq(Block)
    BY <2>1 DEF Local
  <2> QED BY <2>1, <2>2, LenProperties, Elements
<1> DEFINE full == Len(s.orphans) >= MaxOrphans
<1>2. PICK kept : kept = IF full THEN Tail(s.orphans) ELSE s.orphans
  OBVIOUS
<1>3. /\ kept \in Seq(Block) /\ ToSet(kept) \subseteq ToSet(s.orphans) /\ OneAParent(kept)
      /\ Len(kept) \in Nat /\ Len(kept) < MaxOrphans /\ MaxOrphans \in Nat \ {0}
  <2>1. MaxOrphans \in Nat \ {0}
    BY GossipConstants
  <2>2. CASE full
    <3>1. s.orphans # <<>>
      BY <1>1, <2>1, <2>2, EmptySeq
    <3>2. PICK q : q = s.orphans
      OBVIOUS
    <3>3. q \in Seq(Block) /\ q # <<>> /\ kept = Tail(q)
      BY <1>1, <1>2, <2>2, <3>1, <3>2
    <3>4. /\ kept \in Seq(Block) /\ ToSet(kept) \subseteq ToSet(q)
          /\ Len(kept) = Len(q) - 1
          /\ \A i \in 1..Len(kept) : kept[i] = q[i + 1]
      BY <3>3, Beheaded
    <3>5. PICK n \in Nat : n = Len(kept) /\ DOMAIN kept = 1..n
      BY <3>4, LenProperties
    <3>6. DOMAIN q = 1..(n + 1) /\ Len(q) = n + 1
      BY <1>1, <3>2, <3>4, <3>5, LenProperties
    <3>7. OneAParent(kept)
      <4> SUFFICES ASSUME NEW i \in 1..n, NEW j \in 1..n, Parent[kept[i]] = Parent[kept[j]]
                   PROVE  i = j
        BY <3>5 DEF OneAParent
      <4>1. i + 1 \in 1..(n + 1) /\ j + 1 \in 1..(n + 1)
        OBVIOUS
      <4>2. kept[i] = q[i + 1] /\ kept[j] = q[j + 1]
        BY <3>4, <3>5
      <4>3. i + 1 = j + 1
        BY <1>1, <3>2, <3>6, <4>1, <4>2 DEF OneAParent
      <4> QED BY <4>3
    <3> QED BY <1>1, <2>1, <3>2, <3>4, <3>5, <3>6, <3>7
  <2>3. CASE ~full
    BY <1>1, <1>2, <2>1, <2>3
  <2> QED BY <2>2, <2>3
<1>4. PICK n \in Nat : n = Len(kept) /\ DOMAIN kept = 1..n /\ n + 1 <= MaxOrphans
  BY <1>3, LenProperties
<1> DEFINE I == {i \in 1..Len(kept) : Parent[kept[i]] = Parent[b]}
           same == IF I # {} THEN Min(I) ELSE 0
<1>5. I = {} \/ Min(I) \in I
  <2>1. I \in SUBSET Nat
    BY <1>4
  <2>2. ASSUME I # {} PROVE Min(I) \in I
    <3> HIDE DEF I
    <3>1. \E m \in I : \A k \in I : m <= k
      BY <2>1, <2>2, LeastNumber
    <3> QED BY <3>1 DEF Min
  <2> QED BY <2>2
<1>6. PICK now : now = IF same = 0 THEN Append(kept, b) ELSE ReplaceAt(kept, same, b)
  OBVIOUS
<1>7. /\ now \in Seq(Block) /\ b \in ToSet(now) /\ ToSet(now) \subseteq ToSet(kept) \cup {b}
      /\ Len(now) <= MaxOrphans /\ OneAParent(now)
  <2>1. CASE I = {}
    <3>1. now = Append(kept, b)
      BY <1>6, <2>1
    <3>2. /\ now \in Seq(Block) /\ ToSet(now) = ToSet(kept) \cup {b} /\ Len(now) = n + 1
          /\ now[n + 1] = b /\ \A i \in 1..n : now[i] = kept[i]
      BY <1>3, <1>4, <3>1, Appended
    <3>3. DOMAIN now = 1..(n + 1)
      BY <3>2, LenProperties
    <3>4. \A i \in 1..n : Parent[kept[i]] # Parent[b]
      BY <1>4, <2>1
    <3>5. OneAParent(now)
      <4> SUFFICES ASSUME NEW i \in 1..(n + 1), NEW j \in 1..(n + 1), Parent[now[i]] = Parent[now[j]]
                   PROVE  i = j
        BY <3>3 DEF OneAParent
      <4> HIDE DEF I
      <4>1. (i \in 1..n \/ i = n + 1) /\ (j \in 1..n \/ j = n + 1)
        OBVIOUS
      <4>2. CASE i \in 1..n /\ j \in 1..n
        BY <1>3, <1>4, <3>2, <4>2 DEF OneAParent
      <4> QED BY <3>2, <3>4, <4>1, <4>2
    <3> QED BY <1>4, <3>2, <3>5
  <2>2. CASE I # {}
    <3>1. PICK k \in 1..n : k = same /\ Parent[kept[k]] = Parent[b]
      BY <1>4, <1>5, <2>2
    <3> HIDE DEF I, same
    <3>2. now = [kept EXCEPT ![k] = b]
      BY <1>6, <3>1 DEF ReplaceAt
    <3>3. kept \in [1..n -> Block]
      BY <1>3, <1>4, LenProperties
    <3>4. now \in [1..n -> Block] /\ now[k] = b /\ \A i \in 1..n : i # k => now[i] = kept[i]
      BY <3>2, <3>3
    <3>5. now \in Seq(Block) /\ Len(now) = n /\ DOMAIN now = 1..n
      BY <3>4
    <3>6. ToSet(now) = {now[i] : i \in 1..n} /\ ToSet(kept) = {kept[i] : i \in 1..n}
      BY <1>4, <3>5 DEF ToSet
    <3>7. b \in ToSet(now) /\ ToSet(now) \subseteq ToSet(kept) \cup {b}
      BY <3>4, <3>6
    <3>8. OneAParent(now)
      <4> SUFFICES ASSUME NEW i \in 1..n, NEW j \in 1..n, Parent[now[i]] = Parent[now[j]]
                   PROVE  i = j
        BY <3>5 DEF OneAParent
      <4>1. Parent[now[i]] = Parent[kept[i]]
        BY <3>1, <3>4
      <4>2. Parent[now[j]] = Parent[kept[j]]
        BY <3>1, <3>4
      <4> QED BY <1>3, <1>4, <4>1, <4>2 DEF OneAParent
    <3> QED BY <1>3, <1>4, <3>5, <3>7, <3>8
  <2> QED BY <2>1, <2>2
<1>8. PICK t : t = [s EXCEPT !.orphans = now, !.missed = @ \cup (ToSet(s.orphans) \ ToSet(now))]
  OBVIOUS
<1>9. t = Park(s, b)
  <2>1. SelectInSeq(kept, LAMBDA o : Parent[o] = Parent[b]) = same
    BY DEF SelectInSeq
  <2> HIDE DEF same, I
  <2> QED BY <1>2, <1>6, <1>8, <2>1 DEF Park
<1>10. /\ t \in Local /\ t.known = s.known /\ t.orphans = now
       /\ t.missed = s.missed \cup (ToSet(s.orphans) \ ToSet(now))
       /\ t.tip = s.tip /\ t.pool = s.pool
  <2> HIDE DEF same, I
  <2>1. now \in Seq(Block) /\ ToSet(s.orphans) \ ToSet(now) \in SUBSET Block
    BY <1>1, <1>7
  <2> QED BY <1>1, <1>8, <2>1 DEF Local
<1>11. LocalOk(t, T)
  <2> HIDE DEF same, I
  <2> QED BY <1>7, <1>10 DEF LocalOk
<1> HIDE DEF same, I
<1> QED BY <1>3, <1>7, <1>9, <1>10, <1>11

-----------------------------------------------------------------------------
(* Messages are sent.                                                      *)

(* Send adds one message to one channel.                                   *)
LEMMA SendFacts ==
  ASSUME NEW d \in Draft, NEW m \in Node, NEW msg \in Message
  PROVE  /\ Send(d, m, msg) \in Draft /\ Send(d, m, msg).s = d.s
         /\ ToSet(Send(d, m, msg).out[m]) = ToSet(d.out[m]) \cup {msg}
         /\ \A k \in Node : k # m => Send(d, m, msg).out[k] = d.out[k]
<1>1. PICK out : out = d.out
  OBVIOUS
<1>2. out \in [Node -> Seq(Message)] /\ d.s \in Local
  BY <1>1 DEF Draft
<1>3. PICK q : q = Append(out[m], msg)
  OBVIOUS
<1>4. q \in Seq(Message) /\ ToSet(q) = ToSet(out[m]) \cup {msg}
  BY <1>2, <1>3, Appended
<1>5. PICK o : o = [out EXCEPT ![m] = q]
  OBVIOUS
<1>6. o \in [Node -> Seq(Message)] /\ o[m] = q /\ \A k \in Node : k # m => o[k] = out[k]
  BY <1>2, <1>4, <1>5
<1>7. Send(d, m, msg) = [d EXCEPT !.out = o]
  BY <1>1, <1>3, <1>5 DEF Send
<1>8. /\ [d EXCEPT !.out = o].out = o /\ [d EXCEPT !.out = o].s = d.s
      /\ [d EXCEPT !.out = o] \in Draft
  BY <1>6 DEF Draft
<1> QED BY <1>1, <1>4, <1>6, <1>7, <1>8

(* Broadcast adds one message to each channel of the peers.                *)
LEMMA BroadcastFacts ==
  ASSUME NEW d \in Draft, NEW ms, NEW msg \in Message
  PROVE  /\ Broadcast(d, ms, msg) \in Draft /\ Broadcast(d, ms, msg).s = d.s
         /\ \A k \in Node : ToSet(Broadcast(d, ms, msg).out[k])
                              = IF k \in ms THEN ToSet(d.out[k]) \cup {msg} ELSE ToSet(d.out[k])
<1>1. PICK out : out = d.out
  OBVIOUS
<1>2. out \in [Node -> Seq(Message)] /\ d.s \in Local
  BY <1>1 DEF Draft
<1>3. PICK o : o = [m \in Node |-> IF m \in ms THEN Append(out[m], msg) ELSE out[m]]
  OBVIOUS
<1>4. \A k \in Node : /\ Append(out[k], msg) \in Seq(Message)
                      /\ ToSet(Append(out[k], msg)) = ToSet(out[k]) \cup {msg}
  BY <1>2, Appended
<1>5. o \in [Node -> Seq(Message)]
  BY <1>2, <1>3, <1>4
<1>6. \A k \in Node : ToSet(o[k]) = IF k \in ms THEN ToSet(out[k]) \cup {msg} ELSE ToSet(out[k])
  <2> TAKE k \in Node
  <2>1. o[k] = IF k \in ms THEN Append(out[k], msg) ELSE out[k]
    BY <1>3
  <2> QED BY <1>4, <2>1
<1>7. Broadcast(d, ms, msg) = [d EXCEPT !.out = o]
  BY <1>1, <1>3 DEF Broadcast
<1>8. /\ [d EXCEPT !.out = o].out = o /\ [d EXCEPT !.out = o].s = d.s
      /\ [d EXCEPT !.out = o] \in Draft
  BY <1>5 DEF Draft
<1> QED BY <1>1, <1>6, <1>7, <1>8

-----------------------------------------------------------------------------
(* What a handler does, step by step.                                      *)

(* An orphan still waits when more of what it lacks is coming.             *)
LEMMA WaitsMore ==
  ASSUME NEW s, NEW o, NEW C, NEW D, Waits(s, o, C),
         \A b \in Ancestors[o] \ s.known : b \in C => b \in D
  PROVE  Waits(s, o, D)
BY DEF Waits

(* The node changes, its outgoing messages do not.                         *)
LEMMA StateWorks ==
  ASSUME NEW n \in Node, NEW C, NEW D, NEW U, NEW T, NEW d \in Working(n, C, U, T),
         NEW s, LocalOk(s, T), d.s.known \subseteq s.known, s.known \subseteq U,
         ToSet(s.orphans) \subseteq U,
         \A o \in ToSet(s.orphans) : Waits(s, o, D \cup Asked(d.out))
  PROVE  [d EXCEPT !.s = s] \in Working(n, D, U, T)
<1>1. d \in Draft
  BY DEF Working
<1>2. s \in Local
  BY DEF LocalOk
<1>3. PICK e : e = [d EXCEPT !.s = s]
  OBVIOUS
<1>4. e \in Draft /\ e.s = s /\ e.out = d.out
  BY <1>1, <1>2, <1>3 DEF Draft
<1>5. \A m \in Node : \A msg \in ToSet(d.out[m]) : MsgOk(msg, s.known, node[m].known, T)
  <2>1. ASSUME NEW m \in Node, NEW msg \in ToSet(d.out[m])
        PROVE  MsgOk(msg, s.known, node[m].known, T)
    <3>1. MsgOk(msg, d.s.known, node[m].known, T)
      BY DEF Working
    <3> QED BY <3>1 DEF MsgOk
  <2> QED BY <2>1
<1>6. /\ node[n].known \subseteq d.s.known
      /\ \A m \in Node : ToSet(chan[n][m]) \subseteq ToSet(d.out[m])
  BY DEF Working
<1>7. node[n].known \subseteq e.s.known
  BY <1>4, <1>6
<1> QED BY <1>3, <1>4, <1>5, <1>6, <1>7 DEF Working

(* A message is sent: what it asks for is on its way.                      *)
LEMMA SendWorks ==
  ASSUME NEW n \in Node, NEW C, NEW D, NEW U, NEW T, NEW d \in Working(n, C, U, T),
         NEW m \in Node, NEW msg, MsgOk(msg, d.s.known, node[m].known, T),
         \A x \in C : x \in D \/ (x \in Block /\ msg = GetBlock(x))
  PROVE  /\ Send(d, m, msg) \in Working(n, D, U, T) /\ Send(d, m, msg).s = d.s
         /\ msg \in ToSet(Send(d, m, msg).out[m])
<1>1. d \in Draft /\ msg \in Message
  BY DEF Working, MsgOk
<1>2. PICK e : e = Send(d, m, msg)
  OBVIOUS
<1>3. /\ e \in Draft /\ e.s = d.s /\ ToSet(e.out[m]) = ToSet(d.out[m]) \cup {msg}
      /\ \A k \in Node : k # m => e.out[k] = d.out[k]
  <2>1. /\ Send(d, m, msg) \in Draft /\ Send(d, m, msg).s = d.s
        /\ ToSet(Send(d, m, msg).out[m]) = ToSet(d.out[m]) \cup {msg}
        /\ \A k \in Node : k # m => Send(d, m, msg).out[k] = d.out[k]
    BY <1>1, SendFacts
  <2> QED BY <1>2, <2>1
<1>4. \A k \in Node : ToSet(d.out[k]) \subseteq ToSet(e.out[k])
  BY <1>3
<1>5. \A k \in Node : ToSet(chan[n][k]) \subseteq ToSet(e.out[k])
  BY <1>4 DEF Working
<1>6. ASSUME NEW k \in Node, NEW g \in ToSet(e.out[k]) PROVE MsgOk(g, e.s.known, node[k].known, T)
  <2>1. CASE g \in ToSet(d.out[k])
    BY <1>3, <2>1 DEF Working
  <2>2. CASE g \notin ToSet(d.out[k])
    <3>1. k = m /\ g = msg
      BY <1>3, <1>6, <2>2
    <3> QED BY <1>3, <3>1
  <2> QED BY <2>1, <2>2
<1>7. \A x \in C \cup Asked(d.out) : x \in D \cup Asked(e.out)
  <2>1. \A x \in Asked(d.out) : x \in Asked(e.out)
    BY <1>4 DEF Asked
  <2>2. \A x \in Block : msg = GetBlock(x) => x \in Asked(e.out)
    BY <1>3 DEF Asked
  <2> QED BY <2>1, <2>2
<1>8. \A o \in ToSet(d.s.orphans) : Waits(d.s, o, D \cup Asked(e.out))
  <2> TAKE o \in ToSet(d.s.orphans)
  <2>1. Waits(d.s, o, C \cup Asked(d.out))
    BY DEF Working
  <2> QED BY <1>7, <2>1, WaitsMore
<1>9. /\ LocalOk(d.s, T) /\ node[n].known \subseteq d.s.known /\ d.s.known \subseteq U
      /\ ToSet(d.s.orphans) \subseteq U
  BY DEF Working
<1>10. msg \in ToSet(e.out[m])
  BY <1>3
<1> QED BY <1>2, <1>3, <1>5, <1>6, <1>8, <1>9, <1>10 DEF Working

(* Broadcasting what the node knows keeps a handler at work.               *)
LEMMA BroadcastWorks ==
  ASSUME NEW n \in Node, NEW C, NEW U, NEW T, NEW d \in Working(n, C, U, T),
         NEW ms, NEW msg, \A m \in Node : MsgOk(msg, d.s.known, node[m].known, T)
  PROVE  Broadcast(d, ms, msg) \in Working(n, C, U, T) /\ Broadcast(d, ms, msg).s = d.s
<1>1. d \in Draft /\ msg \in Message
  BY DEF Working, MsgOk
<1>2. PICK e : e = Broadcast(d, ms, msg)
  OBVIOUS
<1>3. /\ e \in Draft /\ e.s = d.s
      /\ \A k \in Node : ToSet(e.out[k]) = IF k \in ms THEN ToSet(d.out[k]) \cup {msg}
                                           ELSE ToSet(d.out[k])
  BY <1>1, <1>2, BroadcastFacts
<1>4. \A k \in Node : ToSet(d.out[k]) \subseteq ToSet(e.out[k])
  BY <1>3
<1>5. \A k \in Node : ToSet(chan[n][k]) \subseteq ToSet(e.out[k])
  BY <1>4 DEF Working
<1>6. ASSUME NEW k \in Node, NEW g \in ToSet(e.out[k]) PROVE MsgOk(g, e.s.known, node[k].known, T)
  <2>1. CASE g \in ToSet(d.out[k])
    BY <1>3, <2>1 DEF Working
  <2>2. CASE g \notin ToSet(d.out[k])
    <3>1. g = msg
      BY <1>3, <1>6, <2>2
    <3> QED BY <1>3, <3>1
  <2> QED BY <2>1, <2>2
<1>7. \A x \in C \cup Asked(d.out) : x \in C \cup Asked(e.out)
  BY <1>4 DEF Asked
<1>8. \A o \in ToSet(d.s.orphans) : Waits(d.s, o, C \cup Asked(e.out))
  <2> TAKE o \in ToSet(d.s.orphans)
  <2>1. Waits(d.s, o, C \cup Asked(d.out))
    BY DEF Working
  <2> QED BY <1>7, <2>1, WaitsMore
<1>9. /\ LocalOk(d.s, T) /\ node[n].known \subseteq d.s.known /\ d.s.known \subseteq U
      /\ ToSet(d.s.orphans) \subseteq U
  BY DEF Working
<1> QED BY <1>2, <1>3, <1>5, <1>6, <1>8, <1>9 DEF Working

-----------------------------------------------------------------------------
(* A block is handled.                                                     *)

(* The orphans that are left wait for another block.                       *)
LEMMA DrainWaits ==
  ASSUME NEW s, NEW T, LocalOk(s, T), NEW b \in Block, NEW t, NEW C,
         \A o \in ToSet(s.orphans) : Waits(s, o, C \cup {b}),
         t.known = s.known \cup {b} \cup Unlocked(s, b),
         ToSet(t.orphans) = ToSet(s.orphans) \ Unlocked(s, b), t.missed = s.missed
  PROVE  \A o \in ToSet(t.orphans) : Waits(t, o, C)
<1> SUFFICES ASSUME NEW o \in ToSet(t.orphans), Ancestors[o] \cap s.missed = {}
             PROVE  Waits(t, o, C)
  BY DEF Waits
<1>1. s \in Local /\ OneAParent(s.orphans)
  BY DEF LocalOk
<1>2. o \in ToSet(s.orphans) \ Unlocked(s, b)
  OBVIOUS
<1>3. PICK w \in Ancestors[o] \ s.known :
        w \in C \cup {b} /\ Ancestors[o] \ Ancestors[w] \subseteq ToSet(s.orphans)
  BY <1>2 DEF Waits
<1>4. /\ w # b /\ w \notin Unlocked(s, b)
      /\ (Ancestors[o] \ Ancestors[w]) \cap Unlocked(s, b) = {}
  BY <1>1, <1>2, <1>3, UnlockedFacts
<1>5. w \in Ancestors[o] \ t.known /\ w \in C
  BY <1>3, <1>4
<1>6. Ancestors[o] \ Ancestors[w] \subseteq ToSet(t.orphans)
  BY <1>3, <1>4
<1> QED BY <1>5, <1>6 DEF Waits

(* An orphan waits for its parent, and the others for what they waited for.*)
LEMMA ParkWaits ==
  ASSUME NEW s, NEW T, LocalOk(s, T), NEW b \in Block, b \notin s.known,
         Parent[b] \notin s.known, NEW t, NEW C,
         \A o \in ToSet(s.orphans) : Waits(s, o, C \cup {b}),
         t.known = s.known, b \in ToSet(t.orphans),
         ToSet(t.orphans) \subseteq ToSet(s.orphans) \cup {b},
         t.missed = s.missed \cup (ToSet(s.orphans) \ ToSet(t.orphans))
  PROVE  \A o \in ToSet(t.orphans) : Waits(t, o, C \cup {Parent[b]})
<1> SUFFICES ASSUME NEW o \in ToSet(t.orphans), Ancestors[o] \cap t.missed = {}
             PROVE  Waits(t, o, C \cup {Parent[b]})
  BY DEF Waits
<1>1. b # Genesis /\ s.known \in SUBSET Block /\ ToSet(s.orphans) \in SUBSET Block
  <2>1. s \in Local /\ Genesis \in s.known
    BY DEF LocalOk
  <2>2. s.orphans \in Seq(Block) /\ s.known \in SUBSET Block
    BY <2>1 DEF Local
  <2> QED BY <2>1, <2>2, Elements
<1>2. Parent[b] \in Block /\ Ancestors[b] = {b} \cup Ancestors[Parent[b]]
  BY <1>1, BlockTree
<1>3. Parent[b] \in Ancestors[Parent[b]]
  BY <1>2, Branch
<1>4. ASSUME b \in Ancestors[o], Ancestors[o] \ Ancestors[b] \subseteq ToSet(t.orphans)
      PROVE  Waits(t, o, C \cup {Parent[b]})
  <2>1. Ancestors[o] \ Ancestors[Parent[b]] \subseteq ToSet(t.orphans)
    BY <1>2, <1>4
  <2>2. o \in Block
    BY <1>1
  <2>3. Ancestors[b] \subseteq Ancestors[o]
    BY <1>4, <2>2, BlockTree
  <2>4. Parent[b] \in Ancestors[o] \ t.known
    BY <1>2, <1>3, <2>3
  <2> QED BY <2>1, <2>4 DEF Waits
<1>5. CASE o = b
  <2>1. b \in Ancestors[b]
    BY Branch
  <2> QED BY <1>4, <1>5, <2>1
<1>6. CASE o # b
  <2>1. o \in ToSet(s.orphans) /\ Ancestors[o] \cap s.missed = {}
    BY <1>6
  <2>2. PICK w \in Ancestors[o] \ s.known :
          w \in C \cup {b} /\ Ancestors[o] \ Ancestors[w] \subseteq ToSet(s.orphans)
    BY <2>1 DEF Waits
  <2>3. Ancestors[o] \ Ancestors[w] \subseteq ToSet(t.orphans)
    BY <2>2
  <2>4. CASE w = b
    BY <1>4, <2>2, <2>3, <2>4
  <2>5. CASE w # b
    <3>1. w \in Ancestors[o] \ t.known /\ w \in C
      BY <2>2, <2>5
    <3> QED BY <2>3, <3>1 DEF Waits
  <2> QED BY <2>4, <2>5
<1> QED BY <1>5, <1>6

(* handleIncomingBlock: known, added and drained, or parked.               *)
LEMMA BlockHandled ==
  ASSUME NEW n \in Node, NEW from \in Node, NEW C, NEW U \in SUBSET Block, NEW T,
         \A x \in U : OnChain(x) \subseteq T, LocalOk(node[from], T),
         NEW b \in U, b \in node[from].known, NEW d \in Working(n, C \cup {b}, U, T)
  PROVE  HandleIncomingBlock(n, d, b, from) \in Working(n, C, U, T)
<1>1. d \in Draft /\ LocalOk(d.s, T) /\ b \in Block /\ d.s.known \subseteq U
      /\ ToSet(d.s.orphans) \subseteq U
  BY DEF Working
<1>2. PICK A : A = Asked(d.out)
  OBVIOUS
<1>3. \A o \in ToSet(d.s.orphans) : Waits(d.s, o, (C \cup A) \cup {b})
  <2>1. \A o \in ToSet(d.s.orphans) : Waits(d.s, o, (C \cup {b}) \cup A)
    BY <1>2 DEF Working
  <2>2. (C \cup {b}) \cup A = (C \cup A) \cup {b}
    OBVIOUS
  <2> QED BY <2>1, <2>2
<1>4. CASE b \in d.s.known
  <2>1. \A o \in ToSet(d.s.orphans) : Waits(d.s, o, C \cup A)
    BY <1>3, <1>4, WaitsMore
  <2>2. HandleIncomingBlock(n, d, b, from) = d
    BY <1>4 DEF HandleIncomingBlock
  <2> QED BY <1>2, <2>1, <2>2 DEF Working
<1>5. CASE b \notin d.s.known /\ Parent[b] \in d.s.known
  <2>1. PICK t : t = DrainOrphans(Add(d.s, b), b)
    OBVIOUS
  <2>2. /\ LocalOk(t, T) /\ t.known = d.s.known \cup {b} \cup Unlocked(d.s, b)
        /\ ToSet(t.orphans) = ToSet(d.s.orphans) \ Unlocked(d.s, b)
        /\ t.missed = d.s.missed
    BY <1>1, <1>5, <2>1, DrainFacts
  <2>3. \A o \in ToSet(t.orphans) : Waits(t, o, C \cup A)
    BY <1>1, <1>3, <2>2, DrainWaits
  <2>4. Unlocked(d.s, b) \subseteq ToSet(d.s.orphans)
    BY DEF Unlocked
  <2>5. d.s.known \subseteq t.known /\ t.known \subseteq U /\ ToSet(t.orphans) \subseteq U
    BY <1>1, <2>2, <2>4
  <2>6. PICK e : e = [d EXCEPT !.s = t]
    OBVIOUS
  <2>7. e \in Working(n, C, U, T) /\ e.s = t
    <3>1. e \in Working(n, C, U, T)
      BY <1>2, <2>2, <2>3, <2>5, <2>6, StateWorks
    <3> QED BY <1>1, <2>6, <3>1 DEF Draft
  <2>8. \A m \in Node : MsgOk(BlockMsg(b), e.s.known, node[m].known, T)
    <3>1. b \in e.s.known
      BY <2>2, <2>7
    <3>2. BlockMsg(b) \in Message /\ BlockMsg(b).t = "block" /\ BlockMsg(b).b = b /\ BlockMsg(b).txs = {}
      BY <1>1 DEF BlockMsg, Msg, Message, Types
    <3> QED BY <3>1, <3>2 DEF MsgOk
  <2>9. HandleIncomingBlock(n, d, b, from) = Broadcast(e, Peers(n) \ {from}, BlockMsg(b))
    <3>1. [d EXCEPT !.s = DrainOrphans(Add(@, b), b)] = e
      BY <2>1, <2>6
    <3> QED BY <1>5, <3>1 DEF HandleIncomingBlock
  <2> QED BY <2>7, <2>8, <2>9, BroadcastWorks
<1>6. CASE b \notin d.s.known /\ Parent[b] \notin d.s.known
  <2>1. PICK t : t = Park(d.s, b)
    OBVIOUS
  <2>2. /\ LocalOk(t, T) /\ t.known = d.s.known /\ b \in ToSet(t.orphans)
        /\ ToSet(t.orphans) \subseteq ToSet(d.s.orphans) \cup {b}
        /\ t.missed = d.s.missed \cup (ToSet(d.s.orphans) \ ToSet(t.orphans))
    BY <1>1, <2>1, ParkFacts
  <2>3. \A o \in ToSet(t.orphans) : Waits(t, o, (C \cup A) \cup {Parent[b]})
    BY <1>1, <1>3, <1>6, <2>2, ParkWaits
  <2>4. \A o \in ToSet(t.orphans) : Waits(t, o, (C \cup {Parent[b]}) \cup A)
    <3>1. (C \cup A) \cup {Parent[b]} = (C \cup {Parent[b]}) \cup A
      OBVIOUS
    <3> QED BY <2>3, <3>1
  <2>5. d.s.known \subseteq t.known /\ t.known \subseteq U /\ ToSet(t.orphans) \subseteq U
    BY <1>1, <2>2
  <2>6. PICK e : e = [d EXCEPT !.s = t]
    OBVIOUS
  <2>7. e \in Working(n, C \cup {Parent[b]}, U, T)
    BY <1>2, <2>2, <2>4, <2>5, <2>6, StateWorks
  <2>8. Parent[b] \in node[from].known /\ Parent[b] \in Block
    <3>1. b # Genesis /\ Ancestors[b] \subseteq node[from].known
      BY <1>1, <1>6 DEF LocalOk
    <3>2. Parent[b] \in Block /\ Ancestors[b] = {b} \cup Ancestors[Parent[b]]
      BY <1>1, <3>1, BlockTree
    <3>3. Parent[b] \in Ancestors[Parent[b]]
      BY <3>2, Branch
    <3> QED BY <3>1, <3>2, <3>3
  <2>9. MsgOk(GetBlock(Parent[b]), e.s.known, node[from].known, T)
    <3>1. /\ GetBlock(Parent[b]) \in Message /\ GetBlock(Parent[b]).t = "getBlock"
          /\ GetBlock(Parent[b]).b = Parent[b] /\ GetBlock(Parent[b]).txs = {}
      BY <2>8 DEF GetBlock, Msg, Message, Types
    <3> QED BY <2>8, <3>1 DEF MsgOk
  <2>10. HandleIncomingBlock(n, d, b, from) = Send(e, from, GetBlock(Parent[b]))
    <3>1. [d EXCEPT !.s = Park(@, b)] = e
      BY <2>1, <2>6
    <3> QED BY <1>6, <3>1 DEF HandleIncomingBlock
  <2>11. \A x \in C \cup {Parent[b]} :
           x \in C \/ (x \in Block /\ GetBlock(Parent[b]) = GetBlock(x))
    BY <2>8
  <2>12. Send(e, from, GetBlock(Parent[b])) \in Working(n, C, U, T)
    BY <2>7, <2>9, <2>11, SendWorks
  <2> QED BY <2>10, <2>12
<1> QED BY <1>4, <1>5, <1>6

(* A batch of blocks is handled, one after the other.                      *)
LEMMA BlocksHandled ==
  ASSUME NEW n \in Node, NEW from \in Node, NEW C, NEW U \in SUBSET Block, NEW T,
         \A x \in U : OnChain(x) \subseteq T, LocalOk(node[from], T),
         node[from].known \subseteq U, NEW b \in node[from].known, NEW low \in Nat,
         NEW d \in Working(n, C, U, T)
  PROVE  OnBlocks(n, d, b, low, from) \in Working(n, C, U, T)
<1> DEFINE V == Working(n, C, U, T)
           batch == {x \in Ancestors[b] : Height[x] >= low}
<1>1. /\ b \in Block /\ batch \in SUBSET Block /\ IsFiniteSet(batch)
      /\ \A x, y \in batch : Height[x] = Height[y] => x = y
      /\ batch \subseteq node[from].known
  <2>1. b \in Block
    OBVIOUS
  <2>2. IsFiniteSet(Ancestors[b]) /\ batch \in SUBSET Ancestors[b] /\ Ancestors[b] \subseteq Block
    BY <2>1, Branch
  <2>3. IsFiniteSet(batch)
    BY <2>2, FS_Subset
  <2>4. Ancestors[b] \subseteq node[from].known
    BY DEF LocalOk
  <2>5. \A x, y \in Ancestors[b] : Height[x] = Height[y] => x = y
    BY <2>1, BlockTree
  <2> QED BY <2>1, <2>2, <2>3, <2>4, <2>5
<1>2. PICK q : q = OldestFirst(batch)
  OBVIOUS
<1>3. q \in Seq(Block) /\ ToSet(q) = batch
  <2> HIDE DEF batch
  <2> QED BY <1>1, <1>2, Ordered
<1>4. PICK N \in Nat : N = Len(q) /\ DOMAIN q = 1..N
  BY <1>3, LenProperties
<1>5. \A k \in 1..N : q[k] \in batch
  BY <1>3, <1>4, Elements
<1>6. ASSUME NEW e \in V, NEW x \in batch PROVE HandleIncomingBlock(n, e, x, from) \in V
  <2>1. x \in U /\ x \in node[from].known
    BY <1>1
  <2>2. e \in Working(n, C \cup {x}, U, T)
    <3>1. \A o \in ToSet(e.s.orphans) : Waits(e.s, o, (C \cup {x}) \cup Asked(e.out))
      <4> TAKE o \in ToSet(e.s.orphans)
      <4>1. Waits(e.s, o, C \cup Asked(e.out))
        BY DEF Working
      <4> QED BY <4>1, WaitsMore
    <3> QED BY <3>1 DEF Working
  <2> HIDE DEF batch
  <2> QED BY <2>1, <2>2, BlockHandled
<1> HIDE DEF V, batch
<1> DEFINE Eq(h) == h = [A \in SUBSET DOMAIN q |->
                      IF A = {} THEN d
                      ELSE HandleIncomingBlock(n, h[A \ {Max(A)}], q[Max(A)], from)]
<1>7. PICK G : G = [a \in (1..N) \X V |-> HandleIncomingBlock(n, a[2], q[a[1]], from)]
  OBVIOUS
<1>8. G \in [(1..N) \X V -> V]
  <2>1. ASSUME NEW a \in (1..N) \X V PROVE HandleIncomingBlock(n, a[2], q[a[1]], from) \in V
    <3>1. a[1] \in 1..N /\ a[2] \in V /\ q[a[1]] \in batch
      BY <1>5
    <3> QED BY <1>6, <3>1
  <2> QED BY <1>7, <2>1
<1>9. PICK h \in [SUBSET (1..N) -> V] : FoldEq(h, N, d, G)
  <2>1. d \in V
    BY DEF V
  <2> QED BY <1>8, <2>1, FoldSolution
<1>10. ASSUME NEW A \in SUBSET (1..N), A # {}
       PROVE  G[<<Max(A), h[A \ {Max(A)}]>>]
                = HandleIncomingBlock(n, h[A \ {Max(A)}], q[Max(A)], from)
  <2>1. <<Max(A), h[A \ {Max(A)}]>> \in (1..N) \X V
    BY <1>9, <1>10, StepArgument
  <2> QED BY <1>7, <2>1
<1>11. Eq(h)
  BY <1>4, <1>9, <1>10 DEF FoldEq
<1>12. PICK g : Eq(g) /\ OnBlocks(n, d, b, low, from) = g[DOMAIN q]
  <2> DEFINE g == CHOOSE f : Eq(f)
  <2>1. Eq(g)
    BY <1>11
  <2>2. OnBlocks(n, d, b, low, from) = g[DOMAIN q]
    BY <1>2 DEF OnBlocks, FoldLeft, MapThenFoldSet, batch
  <2> QED BY <2>1, <2>2
<1>13. g[{}] = d
  BY <1>12
<1>14. ASSUME NEW k \in 1..N
       PROVE  g[1..k] = HandleIncomingBlock(n, g[1..(k - 1)], q[k], from)
  <2>1. 1..k \in SUBSET (1..N) /\ 1..k # {} /\ Max(1..k) = k /\ (1..k) \ {k} = 1..(k - 1)
    BY Beginnings
  <2>2. g[1..k] = HandleIncomingBlock(n, g[(1..k) \ {Max(1..k)}], q[Max(1..k)], from)
    BY <1>4, <1>12, <2>1
  <2> QED BY <2>1, <2>2
<1> HIDE DEF Eq
<1>15. PICK D : D = [k \in 0..N |-> V]
  OBVIOUS
<1>16. g[{}] \in D[0]
  BY <1>13, <1>15 DEF V
<1>17. ASSUME NEW k \in 1..N, g[1..(k - 1)] \in D[k - 1] PROVE g[1..k] \in D[k]
  <2>1. k - 1 \in 0..N /\ k \in 0..N
    OBVIOUS
  <2>2. g[1..(k - 1)] \in V /\ q[k] \in batch
    BY <1>5, <1>15, <1>17, <2>1
  <2> QED BY <1>6, <1>14, <1>15, <2>1, <2>2
<1>18. g[1..N] \in D[N]
  BY <1>16, <1>17, Climb
<1> QED BY <1>4, <1>12, <1>15, <1>18 DEF V

-----------------------------------------------------------------------------
(* The other messages.                                                     *)

(* hello asks for what the sender knows.                                   *)
LEMMA HelloHandled ==
  ASSUME NEW n \in Node, NEW from \in Node, NEW C, NEW U \in SUBSET Block, NEW T,
         NEW b \in Block, b \in node[from].known, NEW d \in Working(n, C, U, T)
  PROVE  OnHello(d, b, from) \in Working(n, C, U, T)
<1>1. d \in Draft /\ LocalOk(d.s, T)
  BY DEF Working
<1>2. d.s.tip \in Block /\ Height[d.s.tip] + 1 \in Nat
  <2>1. d.s.tip \in Block
    BY <1>1 DEF Draft, Local
  <2> QED BY <2>1, BlockTree
<1>3. MsgOk(GetBlocks(Height[d.s.tip] + 1), d.s.known, node[from].known, T)
  <2>1. PICK low \in Nat : low = Height[d.s.tip] + 1
    BY <1>2
  <2>2. GetBlocks(low) \in Message /\ GetBlocks(low).t = "getBlocks" /\ GetBlocks(low).txs = {}
    BY DEF GetBlocks, Msg, Message, Types
  <2> QED BY <2>1, <2>2 DEF MsgOk
<1>4. MsgOk(GetBlock(b), d.s.known, node[from].known, T)
  <2>1. /\ GetBlock(b) \in Message /\ GetBlock(b).t = "getBlock"
        /\ GetBlock(b).b = b /\ GetBlock(b).txs = {}
    BY DEF GetBlock, Msg, Message, Types
  <2> QED BY <2>1 DEF MsgOk
<1>5. Send(d, from, GetBlocks(Height[d.s.tip] + 1)) \in Working(n, C, U, T)
  BY <1>3, SendWorks
<1>6. Send(d, from, GetBlock(b)) \in Working(n, C, U, T)
  BY <1>4, SendWorks
<1> QED BY <1>5, <1>6 DEF OnHello

(* getBlock is answered: what was asked for is on its way.                 *)
LEMMA GetBlockHandled ==
  ASSUME NEW n \in Node, NEW from \in Node, NEW C, NEW U \in SUBSET Block, NEW T,
         NEW b \in Block, b \in node[n].known, NEW d \in Working(n, C, U, T)
  PROVE  /\ OnGetBlock(d, b, from) \in Working(n, C, U, T)
         /\ BlockMsg(b) \in ToSet(OnGetBlock(d, b, from).out[from])
<1>1. b \in d.s.known
  BY DEF Working
<1>2. MsgOk(BlockMsg(b), d.s.known, node[from].known, T)
  <2>1. /\ BlockMsg(b) \in Message /\ BlockMsg(b).t = "block"
        /\ BlockMsg(b).b = b /\ BlockMsg(b).txs = {}
    BY DEF BlockMsg, Msg, Message, Types
  <2> QED BY <1>1, <2>1 DEF MsgOk
<1>3. OnGetBlock(d, b, from) = Send(d, from, BlockMsg(b))
  BY <1>1 DEF OnGetBlock
<1> QED BY <1>2, <1>3, SendWorks

(* getBlocks is answered with a page of the tip's chain.                   *)
LEMMA GetBlocksHandled ==
  ASSUME NEW n \in Node, NEW from \in Node, NEW C, NEW U \in SUBSET Block, NEW T,
         NEW low \in Nat, NEW d \in Working(n, C, U, T)
  PROVE  OnGetBlocks(d, low, from) \in Working(n, C, U, T)
<1>1. d \in Draft /\ LocalOk(d.s, T)
  BY DEF Working
<1>2. PICK tip \in Block : tip = d.s.tip
  BY <1>1 DEF Draft, Local
<1>3. PICK top \in Nat : top = Height[tip]
  BY BlockTree
<1>4. RangeMax \in Nat \ {0} /\ OverFetch \in Nat
  BY GossipConstants
<1>5. PICK bot : bot = IF top + 1 - (RangeMax + OverFetch) > low
                       THEN top + 1 - (RangeMax + OverFetch) ELSE low
  OBVIOUS
<1>6. PICK high : high = IF bot + RangeMax - 1 < top THEN bot + RangeMax - 1 ELSE top
  OBVIOUS
<1>7. PICK last : last = CHOOSE x \in Ancestors[tip] : Height[x] = high
  OBVIOUS
<1>8. bot \in Nat
  BY <1>4, <1>5
<1>9. high \in 0..Height[tip]
  BY <1>3, <1>4, <1>6, <1>8
<1>10. last \in Ancestors[tip]
  BY <1>7, <1>9, Branch
<1>11. last \in d.s.known /\ last \in Block
  <2>1. Ancestors[tip] \subseteq d.s.known
    BY <1>1, <1>2 DEF LocalOk
  <2> QED BY <1>10, <2>1, Branch
<1>12. MsgOk(Blocks(last, bot), d.s.known, node[from].known, T)
  <2>1. /\ Blocks(last, bot) \in Message /\ Blocks(last, bot).t = "blocks"
        /\ Blocks(last, bot).b = last /\ Blocks(last, bot).txs = {}
    BY <1>8, <1>11 DEF Blocks, Msg, Message, Types
  <2> QED BY <1>11, <2>1 DEF MsgOk
<1>13. Send(d, from, Blocks(last, bot)) \in Working(n, C, U, T)
  BY <1>12, SendWorks
<1>14. OnGetBlocks(d, low, from) = IF bot > top THEN d ELSE Send(d, from, Blocks(last, bot))
  BY <1>2, <1>3, <1>5, <1>6, <1>7 DEF OnGetBlocks
<1> QED BY <1>13, <1>14

(* The mempool or the outstanding requests change, nothing else.           *)
LEMMA BooksWork ==
  ASSUME NEW n \in Node, NEW C, NEW U, NEW T, NEW d \in Working(n, C, U, T),
         NEW t \in Local, t.known = d.s.known, t.tip = d.s.tip,
         t.orphans = d.s.orphans, t.missed = d.s.missed,
         t.pool \subseteq T, t.pool \cap OnChain(t.tip) = {}
  PROVE  [d EXCEPT !.s = t] \in Working(n, C, U, T)
<1>1. /\ LocalOk(d.s, T) /\ d.s.known \subseteq U /\ ToSet(d.s.orphans) \subseteq U
      /\ \A o \in ToSet(d.s.orphans) : Waits(d.s, o, C \cup Asked(d.out))
  BY DEF Working
<1>2. LocalOk(t, T)
  BY <1>1 DEF LocalOk
<1>3. \A o \in ToSet(t.orphans) : Waits(t, o, C \cup Asked(d.out))
  BY <1>1 DEF Waits
<1> QED BY <1>1, <1>2, <1>3, StateWorks

(* A transaction may be asked for and passed on.                           *)
LEMMA TxMsgOk ==
  ASSUME NEW T \in SUBSET Tx, NEW x \in T, NEW mine, NEW theirs
  PROVE  MsgOk(TxMsg(x), mine, theirs, T) /\ MsgOk(GetTx(x), mine, theirs, T)
<1>1. NoBlock \in Block \cup {NoBlock} /\ {x} \in SUBSET Tx /\ 0 \in Nat
  OBVIOUS
<1>2. /\ TxMsg(x) \in Message /\ TxMsg(x).t = "tx" /\ TxMsg(x).txs = {x}
      /\ GetTx(x) \in Message /\ GetTx(x).t = "getTx" /\ GetTx(x).txs = {x}
  BY <1>1 DEF TxMsg, GetTx, Msg, Message, Types
<1> QED BY <1>2 DEF MsgOk

(* tx: dropped, or pooled and passed on.                                   *)
LEMMA TxHandled ==
  ASSUME NEW n \in Node, NEW from \in Node, NEW C, NEW U, NEW T \in SUBSET Tx,
         NEW x \in T, NEW d \in Working(n, C, U, T)
  PROVE  OnTx(n, d, x, from) \in Working(n, C, U, T)
<1>1. d \in Draft /\ LocalOk(d.s, T)
  BY DEF Working
<1>2. PICK s \in Local : s = d.s
  BY <1>1 DEF Draft
<1>3. PICK h : h = [s EXCEPT !.asked = @ \ {x}]
  OBVIOUS
<1>4. /\ h \in Local /\ h.known = s.known /\ h.tip = s.tip /\ h.orphans = s.orphans
      /\ h.missed = s.missed /\ h.pool = s.pool
  BY <1>3 DEF Local
<1>5. PICK heard : heard = [d EXCEPT !.s.asked = @ \ {x}]
  OBVIOUS
<1>6. heard = [d EXCEPT !.s = h]
  BY <1>2, <1>3, <1>5
<1>7. s.pool \subseteq T /\ s.pool \cap OnChain(s.tip) = {}
  BY <1>1, <1>2 DEF LocalOk
<1>8. heard \in Working(n, C, U, T) /\ heard.s = h
  <2>1. heard \in Working(n, C, U, T)
    BY <1>2, <1>4, <1>6, <1>7, BooksWork
  <2> QED BY <1>1, <1>6, <2>1 DEF Draft
<1>9. CASE x \in s.pool \cup OnChain(s.tip)
  BY <1>2, <1>5, <1>8, <1>9 DEF OnTx
<1>10. CASE x \notin s.pool \cup OnChain(s.tip)
  <2>1. PICK t : t = [h EXCEPT !.pool = @ \cup {x}]
    OBVIOUS
  <2>2. /\ t \in Local /\ t.known = h.known /\ t.tip = h.tip /\ t.orphans = h.orphans
        /\ t.missed = h.missed /\ t.pool = h.pool \cup {x}
    BY <1>4, <2>1 DEF Local
  <2>3. PICK e : e = [heard EXCEPT !.s.pool = @ \cup {x}]
    OBVIOUS
  <2>4. e = [heard EXCEPT !.s = t]
    BY <1>8, <2>1, <2>3
  <2>5. t.pool \subseteq T /\ t.pool \cap OnChain(t.tip) = {}
    BY <1>4, <1>7, <1>10, <2>2
  <2>6. e \in Working(n, C, U, T)
    BY <1>8, <2>2, <2>4, <2>5, BooksWork
  <2>7. OnTx(n, d, x, from) = Broadcast(e, Peers(n) \ {from}, TxMsg(x))
    BY <1>2, <1>5, <1>10, <2>3 DEF OnTx
  <2>8. \A m \in Node : MsgOk(TxMsg(x), e.s.known, node[m].known, T)
    BY TxMsgOk
  <2> QED BY <2>6, <2>7, <2>8, BroadcastWorks
<1> QED BY <1>9, <1>10

(* getTx is answered if the transaction is pending.                        *)
LEMMA GetTxHandled ==
  ASSUME NEW n \in Node, NEW from \in Node, NEW C, NEW U, NEW T \in SUBSET Tx,
         NEW x, NEW d \in Working(n, C, U, T)
  PROVE  OnGetTx(d, x, from) \in Working(n, C, U, T)
<1>1. CASE x \in d.s.pool
  <2>1. x \in T
    BY <1>1 DEF Working, LocalOk
  <2>2. MsgOk(TxMsg(x), d.s.known, node[from].known, T)
    BY <2>1, TxMsgOk
  <2>3. Send(d, from, TxMsg(x)) \in Working(n, C, U, T)
    BY <2>2, SendWorks
  <2> QED BY <1>1, <2>3 DEF OnGetTx
<1>2. CASE x \notin d.s.pool
  BY <1>2 DEF OnGetTx
<1> QED BY <1>1, <1>2

(* Every transaction that is missing is asked for.                         *)
LEMMA InvTxsHandled ==
  ASSUME NEW n \in Node, NEW from \in Node, NEW C, NEW U, NEW T \in SUBSET Tx,
         NEW txs \in SUBSET T, NEW d \in Working(n, C, U, T)
  PROVE  OnInvTxs(d, txs, from) \in Working(n, C, U, T)
<1> DEFINE V == Working(n, C, U, T)
<1>1. d \in Draft /\ LocalOk(d.s, T)
  BY DEF Working
<1>2. PICK s \in Local : s = d.s
  BY <1>1 DEF Draft
<1>3. PICK missing : missing = txs \ (s.pool \cup s.asked)
  OBVIOUS
<1>4. missing \in SUBSET T /\ IsFiniteSet(missing)
  <2>1. missing \in SUBSET Tx
    BY <1>3
  <2>2. IsFiniteSet(missing)
    BY <2>1, GossipConstants, FS_Subset
  <2> QED BY <1>3, <2>2
<1>5. PICK q : q = SetToSeq(missing)
  OBVIOUS
<1>6. q \in Seq(missing)
  BY <1>4, <1>5, Listed
<1>7. PICK N \in Nat : N = Len(q) /\ DOMAIN q = 1..N /\ \A k \in 1..N : q[k] \in missing
  BY <1>6, LenProperties
<1>8. PICK t : t = [s EXCEPT !.asked = @ \cup missing]
  OBVIOUS
<1>9. /\ t \in Local /\ t.known = s.known /\ t.tip = s.tip /\ t.orphans = s.orphans
      /\ t.missed = s.missed /\ t.pool = s.pool
  BY <1>4, <1>8 DEF Local
<1>10. PICK d0 : d0 = [d EXCEPT !.s.asked = @ \cup missing]
  OBVIOUS
<1>11. d0 \in V
  <2>1. d0 = [d EXCEPT !.s = t]
    BY <1>2, <1>8, <1>10
  <2>2. s.pool \subseteq T /\ s.pool \cap OnChain(s.tip) = {}
    BY <1>1, <1>2 DEF LocalOk
  <2> QED BY <1>2, <1>9, <2>1, <2>2, BooksWork
<1>12. ASSUME NEW e \in V, NEW x \in missing PROVE Send(e, from, GetTx(x)) \in V
  <2>1. MsgOk(GetTx(x), e.s.known, node[from].known, T)
    BY <1>4, TxMsgOk
  <2> QED BY <2>1, SendWorks
<1> HIDE DEF V
<1> DEFINE Eq(h) == h = [A \in SUBSET DOMAIN q |->
                      IF A = {} THEN d0 ELSE Send(h[A \ {Max(A)}], from, GetTx(q[Max(A)]))]
<1>13. PICK G : G = [a \in (1..N) \X V |-> Send(a[2], from, GetTx(q[a[1]]))]
  OBVIOUS
<1>14. G \in [(1..N) \X V -> V]
  <2>1. ASSUME NEW a \in (1..N) \X V PROVE Send(a[2], from, GetTx(q[a[1]])) \in V
    <3>1. a[1] \in 1..N /\ a[2] \in V /\ q[a[1]] \in missing
      BY <1>7
    <3> QED BY <1>12, <3>1
  <2> QED BY <1>13, <2>1
<1>15. PICK h \in [SUBSET (1..N) -> V] : FoldEq(h, N, d0, G)
  BY <1>11, <1>14, FoldSolution
<1>16. ASSUME NEW A \in SUBSET (1..N), A # {}
       PROVE  G[<<Max(A), h[A \ {Max(A)}]>>]
                = Send(h[A \ {Max(A)}], from, GetTx(q[Max(A)]))
  <2>1. <<Max(A), h[A \ {Max(A)}]>> \in (1..N) \X V
    BY <1>15, <1>16, StepArgument
  <2> QED BY <1>13, <2>1
<1>17. Eq(h)
  BY <1>7, <1>15, <1>16 DEF FoldEq
<1>18. PICK g : Eq(g) /\ OnInvTxs(d, txs, from) = g[DOMAIN q]
  <2> DEFINE g == CHOOSE f : Eq(f)
  <2>1. Eq(g)
    BY <1>17
  <2>2. OnInvTxs(d, txs, from) = g[DOMAIN q]
    BY <1>2, <1>3, <1>5, <1>10 DEF OnInvTxs, FoldLeft, MapThenFoldSet
  <2> QED BY <2>1, <2>2
<1>19. g[{}] = d0
  BY <1>18
<1>20. ASSUME NEW k \in 1..N PROVE g[1..k] = Send(g[1..(k - 1)], from, GetTx(q[k]))
  <2>1. 1..k \in SUBSET (1..N) /\ 1..k # {} /\ Max(1..k) = k /\ (1..k) \ {k} = 1..(k - 1)
    BY Beginnings
  <2>2. g[1..k] = Send(g[(1..k) \ {Max(1..k)}], from, GetTx(q[Max(1..k)]))
    BY <1>7, <1>18, <2>1
  <2> QED BY <2>1, <2>2
<1> HIDE DEF Eq
<1>21. PICK D : D = [k \in 0..N |-> V]
  OBVIOUS
<1>22. g[{}] \in D[0]
  BY <1>11, <1>19, <1>21
<1>23. ASSUME NEW k \in 1..N, g[1..(k - 1)] \in D[k - 1] PROVE g[1..k] \in D[k]
  <2>1. k - 1 \in 0..N /\ k \in 0..N
    OBVIOUS
  <2>2. g[1..(k - 1)] \in V /\ q[k] \in missing
    BY <1>7, <1>21, <1>23, <2>1
  <2> QED BY <1>12, <1>20, <1>21, <2>1, <2>2
<1>24. g[1..N] \in D[N]
  BY <1>22, <1>23, Climb
<1> QED BY <1>7, <1>18, <1>21, <1>24 DEF V

(* A message is handled: what a block message brought is no longer awaited.*)
LEMMA Handled ==
  ASSUME NEW n \in Node, NEW from \in Node, NEW C, NEW U \in SUBSET Block,
         NEW T \in SUBSET Tx, \A x \in U : OnChain(x) \subseteq T,
         LocalOk(node[from], T), node[from].known \subseteq U,
         NEW msg, MsgOk(msg, node[from].known, node[n].known, T),
         NEW D, \A x \in D : x \in C \/ (msg.t = "block" /\ x = msg.b),
         NEW d \in Working(n, D, U, T)
  PROVE  /\ OnIncoming(n, d, msg, from) \in Working(n, C, U, T)
         /\ msg.t = "getBlock" => BlockMsg(msg.b) \in ToSet(OnIncoming(n, d, msg, from).out[from])
<1>1. /\ msg \in Message /\ msg.txs \subseteq T /\ msg.low \in Nat
      /\ msg.t \in Types
      /\ msg.t \in {"hello", "block", "blocks"} => msg.b \in node[from].known
      /\ msg.t = "getBlock" => msg.b \in node[n].known
      /\ msg.t \in {"getTx", "tx"} => msg.txs # {}
  BY DEF MsgOk, Message
<1>2. PICK t : t = msg.t
  OBVIOUS
<1>3. ASSUME NEW E, \A x \in D : x \in E PROVE d \in Working(n, E, U, T)
  <2>1. \A o \in ToSet(d.s.orphans) : Waits(d.s, o, E \cup Asked(d.out))
    <3> TAKE o \in ToSet(d.s.orphans)
    <3>1. Waits(d.s, o, D \cup Asked(d.out))
      BY DEF Working
    <3>2. \A b \in Ancestors[o] \ d.s.known : b \in D \cup Asked(d.out) => b \in E \cup Asked(d.out)
      BY <1>3
    <3> QED BY <3>1, <3>2, WaitsMore
  <2> QED BY <2>1 DEF Working
<1>4. t # "block" => d \in Working(n, C, U, T)
  BY <1>2, <1>3
<1>5. CASE t = "block"
  <2>1. \A x \in D : x \in C \cup {msg.b}
    OBVIOUS
  <2>2. d \in Working(n, C \cup {msg.b}, U, T)
    BY <1>3, <2>1
  <2>3. HandleIncomingBlock(n, d, msg.b, from) \in Working(n, C, U, T)
    BY <1>1, <1>2, <1>5, <2>2, BlockHandled
  <2> QED BY <1>2, <1>5, <2>3 DEF OnIncoming
<1>6. CASE t = "hello"
  <2>1. OnHello(d, msg.b, from) \in Working(n, C, U, T)
    BY <1>1, <1>2, <1>4, <1>6, HelloHandled
  <2> QED BY <1>2, <1>6, <2>1 DEF OnIncoming
<1>7. CASE t = "getBlock"
  <2>1. d \in Working(n, C, U, T) /\ msg.b \in node[n].known
    BY <1>1, <1>2, <1>4, <1>7
  <2>2. msg.b \in Block
    BY <2>1 DEF Working
  <2>3. /\ OnGetBlock(d, msg.b, from) \in Working(n, C, U, T)
        /\ BlockMsg(msg.b) \in ToSet(OnGetBlock(d, msg.b, from).out[from])
    BY <2>1, <2>2, GetBlockHandled
  <2> QED BY <1>2, <1>7, <2>3 DEF OnIncoming
<1>8. CASE t = "getBlocks"
  <2>1. OnGetBlocks(d, msg.low, from) \in Working(n, C, U, T)
    BY <1>1, <1>4, <1>8, GetBlocksHandled
  <2> QED BY <1>2, <1>8, <2>1 DEF OnIncoming
<1>9. CASE t = "blocks"
  <2>1. OnBlocks(n, d, msg.b, msg.low, from) \in Working(n, C, U, T)
    BY <1>1, <1>2, <1>4, <1>9, BlocksHandled
  <2> QED BY <1>2, <1>9, <2>1 DEF OnIncoming
<1>10. CASE t = "invTxs"
  <2>1. OnInvTxs(d, msg.txs, from) \in Working(n, C, U, T)
    BY <1>1, <1>4, <1>10, InvTxsHandled
  <2> QED BY <1>2, <1>10, <2>1 DEF OnIncoming
<1>11. PICK x : x = CHOOSE y \in msg.txs : TRUE
  OBVIOUS
<1>12. CASE t = "getTx"
  <2>1. OnGetTx(d, x, from) \in Working(n, C, U, T)
    BY <1>4, <1>12, GetTxHandled
  <2> QED BY <1>2, <1>11, <1>12, <2>1 DEF OnIncoming
<1>13. CASE t = "tx"
  <2>1. x \in T
    BY <1>1, <1>2, <1>11, <1>13
  <2>2. OnTx(n, d, x, from) \in Working(n, C, U, T)
    BY <1>4, <1>13, <2>1, TxHandled
  <2> QED BY <1>2, <1>11, <1>13, <2>2 DEF OnIncoming
<1> QED BY <1>1, <1>2, <1>5, <1>6, <1>7, <1>8, <1>9, <1>10, <1>12, <1>13 DEF Types

-----------------------------------------------------------------------------
(* The invariant holds at first, and a handler's end keeps it.             *)

(* What the nodes know together is closed under ancestors.                 *)
LEMMA KnownFacts ==
  ASSUME GInv
  PROVE  /\ Known \in SUBSET Block
         /\ \A n \in Node : node[n] \in Local /\ node[n].known \subseteq Known
         /\ \A x \in Known : Ancestors[x] \subseteq Known /\ OnChain(x) \subseteq Settled
         /\ \A n \in Node : ToSet(node[n].orphans) \subseteq Known
         /\ Settled \in SUBSET Tx
<1>1. \A n \in Node : node[n] \in Local
  BY DEF GInv, GTypes
<1>2. \A n \in Node : node[n].known \in SUBSET Block
  BY <1>1 DEF Local
<1>3. \A n \in Node : \A x \in node[n].known :
        Ancestors[x] \subseteq node[n].known /\ OnChain(x) \subseteq Settled
  BY DEF GInv, LocalOk
<1>4. \A n \in Node : node[n].known \subseteq Known
  BY DEF Known
<1>5. \A x \in Known : \E n \in Node : x \in node[n].known
  BY DEF Known
<1>6. Known \in SUBSET Block
  BY <1>2, <1>5
<1>7. \A x \in Known : Ancestors[x] \subseteq Known /\ OnChain(x) \subseteq Settled
  BY <1>3, <1>4, <1>5
<1>8. \A n \in Node : ToSet(node[n].orphans) \subseteq Known
  BY DEF GInv, GParked
<1> QED BY <1>1, <1>4, <1>6, <1>7, <1>8 DEF Settled

(* A node's books agree when more transactions are settled.                *)
LEMMA MoreSettled ==
  ASSUME NEW s, NEW T, NEW R, T \subseteq R, LocalOk(s, T)
  PROVE  LocalOk(s, R)
BY DEF LocalOk

(* A message stays in order when either end knows more.                    *)
LEMMA MoreKnown ==
  ASSUME NEW msg, NEW mine, NEW theirs, NEW T, MsgOk(msg, mine, theirs, T),
         NEW mine2, NEW theirs2, NEW R,
         mine \subseteq mine2, theirs \subseteq theirs2, T \subseteq R
  PROVE  MsgOk(msg, mine2, theirs2, R)
BY DEF MsgOk

(* How every handler begins.                                               *)
LEMMA DoingWorks ==
  ASSUME GInv, NEW n \in Node, NEW U, Known \subseteq U, NEW T, Settled \subseteq T
  PROVE  /\ Doing(n) \in Working(n, Heading(chan, n), U, T)
         /\ Doing(n).s = node[n] /\ Doing(n).out = chan[n]
<1>1. PICK d : d = Doing(n)
  OBVIOUS
<1>2. d.s = node[n] /\ d.out = chan[n]
  BY <1>1 DEF Doing
<1>3. d \in Draft
  BY <1>1 DEF Doing, Draft, GInv, GTypes
<1>4. LocalOk(d.s, T)
  <2>1. LocalOk(node[n], Settled)
    BY DEF GInv
  <2> QED BY <1>2, <2>1, MoreSettled
<1>5. d.s.known \subseteq U /\ ToSet(d.s.orphans) \subseteq U
  BY <1>2, KnownFacts
<1>6. ASSUME NEW m \in Node, NEW msg \in ToSet(d.out[m])
      PROVE  MsgOk(msg, d.s.known, node[m].known, T)
  <2>1. MsgOk(msg, node[n].known, node[m].known, Settled)
    BY <1>2 DEF GInv, GMail
  <2> QED BY <1>2, <2>1, MoreKnown
<1>7. \A o \in ToSet(d.s.orphans) : Waits(d.s, o, Heading(chan, n) \cup Asked(d.out))
  BY <1>2 DEF GInv, GParked, Coming
<1> QED BY <1>1, <1>2, <1>3, <1>4, <1>5, <1>6, <1>7 DEF Working

(* A handler may as well know of more blocks.                              *)
LEMMA MoreMay ==
  ASSUME NEW n \in Node, NEW C, NEW U, NEW T, NEW W, U \subseteq W
  PROVE  Working(n, C, U, T) \subseteq Working(n, C, W, T)
BY DEF Working

(* The node is what the handler leaves, and so are the messages it sends;  *)
(* c is what was on its way without the message that was handled.          *)
LEMMA Becomes ==
  ASSUME GInv, NEW n \in Node, NEW U \in SUBSET Block, Known \subseteq U,
         NEW c \in [Node -> [Node -> Seq(Message)]], c[n] = chan[n],
         \A k, m \in Node : ToSet(c[k][m]) \subseteq ToSet(chan[k][m]),
         NEW d \in Working(n, Heading(c, n), U, Settled'),
         \A k \in Node \ {n} : \A b \in Coming(k) :
           b \in Heading(c, k) \cup Asked(c[k]) \/ BlockMsg(b) \in ToSet(d.out[k]),
         Settled \subseteq Settled', U \subseteq Known \cup d.s.known,
         node' = [node EXCEPT ![n] = d.s], chan' = [c EXCEPT ![n] = d.out],
         linked' = linked, GLeft', U \cap left'.blocks = {}
  PROVE  GInv'
<1>1. /\ d \in Draft /\ LocalOk(d.s, Settled') /\ node[n].known \subseteq d.s.known
      /\ d.s.known \subseteq U /\ ToSet(d.s.orphans) \subseteq U
      /\ \A m \in Node : ToSet(chan[n][m]) \subseteq ToSet(d.out[m])
      /\ \A m \in Node : \A msg \in ToSet(d.out[m]) :
           MsgOk(msg, d.s.known, node[m].known, Settled')
      /\ \A o \in ToSet(d.s.orphans) : Waits(d.s, o, Heading(c, n) \cup Asked(d.out))
  BY DEF Working
<1>2. node \in [Node -> Local] /\ chan \in [Node -> [Node -> Seq(Message)]]
  BY DEF GInv, GTypes
<1>3. d.s \in Local /\ d.out \in [Node -> Seq(Message)]
  BY <1>1 DEF Draft
<1>4. /\ node' \in [Node -> Local] /\ node'[n] = d.s
      /\ \A k \in Node : k # n => node'[k] = node[k]
  BY <1>2, <1>3
<1>5. /\ chan' \in [Node -> [Node -> Seq(Message)]] /\ chan'[n] = d.out
      /\ \A k \in Node : k # n => chan'[k] = c[k]
  BY <1>3
<1>6. \A k \in Node : node[k].known \subseteq node'[k].known
  BY <1>1, <1>4
<1>7. Known' = U
  <2>1. Known' = UNION {node'[k].known : k \in Node}
    BY DEF Known
  <2>2. \A k \in Node : node'[k].known \subseteq U
    BY <1>1, <1>4, KnownFacts
  <2>3. Known \subseteq Known'
    BY <1>6, <2>1 DEF Known
  <2>4. d.s.known \subseteq Known'
    BY <1>4, <2>1
  <2> QED BY <2>1, <2>2, <2>3, <2>4
<1>8. GTypes'
  BY <1>4, <1>5 DEF GInv, GTypes
<1>9. GMail'
  <2>1. ASSUME NEW k \in Node, NEW m \in Node, NEW msg \in ToSet(chan'[k][m])
        PROVE  MsgOk(msg, node'[k].known, node'[m].known, Settled')
    <3>1. CASE k = n
      <4>1. MsgOk(msg, d.s.known, node[m].known, Settled')
        BY <1>1, <1>5, <2>1, <3>1
      <4> QED BY <1>4, <1>6, <3>1, <4>1, MoreKnown
    <3>2. CASE k # n
      <4>1. msg \in ToSet(chan[k][m])
        BY <1>5, <2>1, <3>2
      <4>2. MsgOk(msg, node[k].known, node[m].known, Settled)
        BY <4>1 DEF GInv, GMail
      <4>3. node[k].known \subseteq node'[k].known /\ node[m].known \subseteq node'[m].known
        BY <1>6
      <4>4. Settled \subseteq Settled'
        OBVIOUS
      <4> QED BY ONLY <4>2, <4>3, <4>4, MoreKnown
    <3> QED BY <3>1, <3>2
  <2> QED BY <2>1 DEF GMail, MsgOk
<1>10. \A k \in Node : LocalOk(node'[k], Settled')
  <2> TAKE k \in Node
  <2>1. CASE k = n
    BY <1>1, <1>4, <2>1
  <2>2. CASE k # n
    <3>1. LocalOk(node[k], Settled)
      BY DEF GInv
    <3> QED BY <1>4, <2>2, <3>1, MoreSettled
  <2> QED BY <2>1, <2>2
<1>11. ASSUME NEW k \in Node PROVE Heading(c, k) \subseteq Heading(chan', k)
  <2>1. \A m \in Node : ToSet(c[m][k]) \subseteq ToSet(chan'[m][k])
    BY <1>1, <1>5
  <2> QED BY <2>1 DEF Heading
<1>12. GParked'
  <2>1. ASSUME NEW k \in Node, NEW o \in ToSet(node'[k].orphans)
        PROVE  o \in Known' /\ Waits(node'[k], o, Coming(k)')
    <3>1. Coming(k)' = Heading(chan', k) \cup Asked(chan'[k])
      BY DEF Coming, Heading, Asked
    <3>2. CASE k = n
      <4>1. o \in U /\ Waits(d.s, o, Heading(c, n) \cup Asked(d.out))
        BY <1>1, <1>4, <2>1, <3>2
      <4>2. \A b \in Ancestors[o] \ d.s.known :
              b \in Heading(c, n) \cup Asked(d.out) => b \in Coming(k)'
        BY <1>5, <1>11, <3>1, <3>2
      <4>3. Waits(d.s, o, Coming(k)')
        BY <4>1, <4>2, WaitsMore
      <4>4. node'[k] = d.s
        BY <1>4, <3>2
      <4> QED BY <1>7, <4>1, <4>3, <4>4
    <3>3. CASE k # n
      <4>1. node'[k] = node[k]
        BY <1>4, <3>3
      <4>2. o \in Known /\ Waits(node[k], o, Coming(k))
        BY <2>1, <4>1 DEF GInv, GParked
      <4>3. \A b \in Coming(k) : b \in Coming(k)'
        <5> TAKE b \in Coming(k)
        <5>1. CASE b \in Heading(c, k) \cup Asked(c[k])
          BY <1>5, <1>11, <3>1, <3>3, <5>1
        <5>2. CASE BlockMsg(b) \in ToSet(d.out[k])
          <6>1. b \in Block
            BY DEF Coming, Heading, Asked
          <6>2. b \in Heading(chan', k)
            BY <1>5, <5>2, <6>1 DEF Heading
          <6> QED BY <3>1, <6>2
        <5> QED BY <3>3, <5>1, <5>2
      <4>4. Waits(node[k], o, Coming(k)')
        BY <4>2, <4>3, WaitsMore
      <4> QED BY <1>7, <4>1, <4>2, <4>4
    <3> QED BY <3>2, <3>3
  <2> QED BY <2>1 DEF GParked, Waits
<1>13. Known' \cap left'.blocks = {}
  BY <1>7
<1> QED BY <1>8, <1>9, <1>10, <1>12, <1>13 DEF GInv, LocalOk

(* The nodes start with books that agree.                                  *)
LEMMA InitGInv ==
  Init => GInv
<1> SUFFICES ASSUME Init PROVE GInv
  OBVIOUS
<1>1. PICK s : s = [known |-> {Genesis}, tip |-> Genesis, orphans |-> <<>>,
                    pool |-> {}, asked |-> {}, missed |-> {}]
  OBVIOUS
<1>2. Genesis \in Block /\ Ancestors[Genesis] = {Genesis} /\ Confirms[Genesis] = {}
  BY BlockTree, GossipConstants
<1>3. <<>> \in Seq(Block) /\ <<>> \in Seq(Message) /\ Len(<<>>) = 0 /\ ToSet(<<>>) = {}
      /\ OneAParent(<<>>)
  BY EmptySeq DEF ToSet, OneAParent
<1>4. s \in Local
  BY <1>1, <1>2, <1>3 DEF Local
<1>5. /\ node = [n \in Node |-> s] /\ chan = [n \in Node |-> [m \in Node |-> <<>>]]
      /\ left \in Budgets /\ linked = Pairs(left.first)
  BY <1>1 DEF Init
<1>6. /\ left \in Budget /\ left.first \subseteq left.links /\ Genesis \notin left.blocks
      /\ \A l \in left.links : Cardinality(l) = 2
  BY <1>5, GossipBudgets
<1>7. OnChain(Genesis) = {}
  BY <1>2 DEF OnChain
<1>8. LocalOk(s, Settled)
  <2>1. 0 <= MaxOrphans
    BY GossipConstants
  <2>2. /\ s.known = {Genesis} /\ s.tip = Genesis /\ s.orphans = <<>> /\ s.pool = {}
    BY <1>1
  <2> QED BY <1>2, <1>3, <1>4, <1>7, <2>1, <2>2 DEF LocalOk
<1>9. GTypes
  <2>1. \A n \in Node : <<n, n>> \notin linked
    <3> SUFFICES ASSUME NEW n \in Node, <<n, n>> \in linked PROVE FALSE
      OBVIOUS
    <3>1. {n, n} \in left.links
      BY <1>5, <1>6 DEF Pairs
    <3>2. Cardinality({n}) = 1
      BY FS_Singleton
    <3>3. {n, n} = {n}
      OBVIOUS
    <3> QED BY <1>6, <3>1, <3>2, <3>3
  <2>2. linked \subseteq Node \X Node
    BY <1>5 DEF Pairs
  <2> QED BY <1>3, <1>4, <1>5, <2>1, <2>2 DEF GTypes
<1>10. GLeft
  <2>1. left.drops \in 0..left.drops
    BY <1>6 DEF Budget
  <2> QED BY <1>5, <1>6, <2>1 DEF GLeft
<1>11. GMail
  BY <1>3, <1>5 DEF GMail
<1>12. GParked
  BY <1>1, <1>3, <1>5 DEF GParked
<1>13. Known \cap left.blocks = {}
  <2>1. \A n \in Node : node[n].known = {Genesis}
    BY <1>1, <1>5
  <2> QED BY <1>6, <2>1 DEF Known
<1> QED BY <1>5, <1>8, <1>9, <1>10, <1>11, <1>12, <1>13 DEF GInv

-----------------------------------------------------------------------------
(* Every action keeps the invariant.                                       *)

(* A message that is handled settles no transaction.                       *)
LEMMA SameSettled ==
  ASSUME left' = left
  PROVE  Settled' = Settled
BY DEF Settled

(* Whatever message arrives, by the handler of its type.                   *)
LEMMA ReceiveKeeps ==
  ASSUME GInv, NEW n \in Node, NEW from \in Node, Receive(n, from)
  PROVE  GInv'
<1>1. <<n, from>> \in linked /\ chan[from][n] # <<>> /\ linked' = linked /\ left' = left
  BY DEF Receive
<1>2. n # from
  BY <1>1 DEF GInv, GTypes
<1>3. chan \in [Node -> [Node -> Seq(Message)]]
  BY DEF GInv, GTypes
<1>4. PICK q \in Seq(Message) : q = chan[from][n] /\ q # <<>>
  BY <1>1, <1>3
<1>5. PICK msg : msg = Head(q)
  OBVIOUS
<1>6. PICK r : r = Tail(q)
  OBVIOUS
<1>7. msg \in Message /\ r \in Seq(Message) /\ ToSet(q) = {msg} \cup ToSet(r)
  BY <1>4, <1>5, <1>6, Beheaded
<1>8. MsgOk(msg, node[from].known, node[n].known, Settled)
  BY <1>4, <1>7 DEF GInv, GMail
<1>9. PICK c : c = [chan EXCEPT ![from] = [chan[from] EXCEPT ![n] = r]]
  OBVIOUS
<1>10. /\ c \in [Node -> [Node -> Seq(Message)]] /\ c[n] = chan[n]
       /\ c[from][n] = r
       /\ \A k, m \in Node : k # from \/ m # n => c[k][m] = chan[k][m]
  <2>1. [chan[from] EXCEPT ![n] = r] \in [Node -> Seq(Message)]
    BY <1>3, <1>7
  <2> QED BY <1>2, <1>3, <1>9, <2>1
<1>11. \A k, m \in Node : ToSet(c[k][m]) \subseteq ToSet(chan[k][m])
  <2> TAKE k, m \in Node
  <2>1. CASE k = from /\ m = n
    BY <1>4, <1>7, <1>10, <2>1
  <2>2. CASE ~(k = from /\ m = n)
    BY <1>10, <2>2
  <2> QED BY <2>1, <2>2
<1>12. PICK d : d = OnIncoming(n, Doing(n), msg, from)
  OBVIOUS
<1>13. node' = [node EXCEPT ![n] = d.s] /\ chan' = [chan EXCEPT ![n] = d.out, ![from][n] = Tail(@)]
  BY <1>4, <1>5, <1>12 DEF Receive
<1>14. chan' = [c EXCEPT ![n] = d.out]
  <2>1. chan' = [[chan EXCEPT ![n] = d.out] EXCEPT ![from] = [chan[from] EXCEPT ![n] = r]]
    BY <1>2, <1>3, <1>4, <1>6, <1>13
  <2> QED BY <1>2, <1>3, <1>9, <2>1
<1>15. Doing(n) \in Working(n, Heading(chan, n), Known, Settled)
  BY DoingWorks
<1>16. \A x \in Heading(chan, n) : x \in Heading(c, n) \/ (msg.t = "block" /\ x = msg.b)
  <2> TAKE x \in Heading(chan, n)
  <2>1. PICK m \in Node : BlockMsg(x) \in ToSet(chan[m][n])
    BY DEF Heading
  <2>2. x \in Block
    BY DEF Heading
  <2>3. CASE BlockMsg(x) \in ToSet(c[m][n])
    BY <2>2, <2>3 DEF Heading
  <2>4. CASE BlockMsg(x) \notin ToSet(c[m][n])
    <3>1. BlockMsg(x) = msg
      BY <1>4, <1>7, <1>10, <2>1, <2>4
    <3>2. BlockMsg(x).t = "block" /\ BlockMsg(x).b = x
      BY DEF BlockMsg, Msg
    <3> QED BY <3>1, <3>2
  <2> QED BY <2>3, <2>4
<1>17. /\ d \in Working(n, Heading(c, n), Known, Settled)
       /\ msg.t = "getBlock" => BlockMsg(msg.b) \in ToSet(d.out[from])
  <2>1. LocalOk(node[from], Settled)
    BY DEF GInv
  <2>2. /\ Known \in SUBSET Block /\ Settled \in SUBSET Tx /\ node[from].known \subseteq Known
        /\ \A x \in Known : OnChain(x) \subseteq Settled
    BY KnownFacts
  <2>3. /\ OnIncoming(n, Doing(n), msg, from) \in Working(n, Heading(c, n), Known, Settled)
        /\ msg.t = "getBlock"
             => BlockMsg(msg.b) \in ToSet(OnIncoming(n, Doing(n), msg, from).out[from])
    BY <1>8, <1>15, <1>16, <2>1, <2>2, Handled
  <2> QED BY <1>12, <2>3
<1>18. ASSUME NEW k \in Node \ {n}, NEW b \in Coming(k)
       PROVE  b \in Heading(c, k) \cup Asked(c[k]) \/ BlockMsg(b) \in ToSet(d.out[k])
  <2>1. b \in Block /\ \E m \in Node : BlockMsg(b) \in ToSet(chan[m][k]) \/ GetBlock(b) \in ToSet(chan[k][m])
    BY DEF Coming, Heading, Asked
  <2>2. PICK m \in Node : BlockMsg(b) \in ToSet(chan[m][k]) \/ GetBlock(b) \in ToSet(chan[k][m])
    BY <2>1
  <2>3. CASE BlockMsg(b) \in ToSet(chan[m][k])
    <3>1. c[m][k] = chan[m][k]
      BY <1>10
    <3> QED BY <2>1, <2>3, <3>1 DEF Heading
  <2>4. CASE GetBlock(b) \in ToSet(chan[k][m])
    <3>1. CASE GetBlock(b) \in ToSet(c[k][m])
      BY <2>1, <3>1 DEF Asked
    <3>2. CASE GetBlock(b) \notin ToSet(c[k][m])
      <4>1. k = from /\ m = n
        BY <1>10, <2>4, <3>2
      <4>2. GetBlock(b) = msg
        BY <1>4, <1>7, <1>10, <2>4, <3>2, <4>1
      <4>3. GetBlock(b).t = "getBlock" /\ GetBlock(b).b = b
        BY DEF GetBlock, Msg
      <4> QED BY <1>17, <4>1, <4>2, <4>3
    <3> QED BY <3>1, <3>2
  <2> QED BY <2>2, <2>3, <2>4
<1>19. GLeft' /\ Known \cap left'.blocks = {}
  BY <1>1 DEF GInv, GLeft
<1>20. Settled' = Settled
  BY <1>1, SameSettled
<1>21. d \in Working(n, Heading(c, n), Known, Settled')
  BY <1>17, <1>20
<1>22. c \in [Node -> [Node -> Seq(Message)]] /\ c[n] = chan[n]
  BY <1>10
<1>23. node' = [node EXCEPT ![n] = d.s] /\ linked' = linked
  BY <1>1, <1>13
<1>24. /\ Known \in SUBSET Block /\ Known \subseteq Known /\ Settled \subseteq Settled'
       /\ Known \subseteq Known \cup d.s.known
  BY <1>20, KnownFacts
<1> QED BY <1>11, <1>14, <1>18, <1>19, <1>21, <1>22, <1>23, <1>24, Becomes

(* A step of one node that reads no message.                               *)
LEMMA BecomeKeeps ==
  ASSUME GInv, NEW n \in Node, NEW U \in SUBSET Block, Known \subseteq U,
         NEW d \in Working(n, Heading(chan, n), U, Settled'),
         Settled \subseteq Settled', U \subseteq Known \cup d.s.known,
         Become(n, d), linked' = linked, GLeft', U \cap left'.blocks = {}
  PROVE  GInv'
<1>1. chan \in [Node -> [Node -> Seq(Message)]]
  BY DEF GInv, GTypes
<1>2. node' = [node EXCEPT ![n] = d.s] /\ chan' = [chan EXCEPT ![n] = d.out]
  BY DEF Become
<1>3. \A k \in Node \ {n} : \A b \in Coming(k) :
        b \in Heading(chan, k) \cup Asked(chan[k]) \/ BlockMsg(b) \in ToSet(d.out[k])
  BY DEF Coming
<1>4. \A k, m \in Node : ToSet(chan[k][m]) \subseteq ToSet(chan[k][m])
  OBVIOUS
<1> QED BY <1>1, <1>2, <1>3, <1>4, Becomes

(* announceMempool tells only of pending transactions.                     *)
LEMMA AnnounceWorks ==
  ASSUME NEW n \in Node, NEW C, NEW U, NEW T \in SUBSET Tx, NEW d \in Working(n, C, U, T), NEW ms
  PROVE  Announce(n, d, ms) \in Working(n, C, U, T) /\ Announce(n, d, ms).s = d.s
<1>1. d.s.pool \subseteq T
  BY DEF Working, LocalOk
<1>2. PICK pool \in SUBSET T : pool = d.s.pool
  BY <1>1
<1>3. \A m \in Node : MsgOk(InvTxs(pool), d.s.known, node[m].known, T)
  <2>1. NoBlock \in Block \cup {NoBlock} /\ pool \in SUBSET Tx /\ 0 \in Nat
    OBVIOUS
  <2>2. /\ InvTxs(pool) \in Message /\ InvTxs(pool).t = "invTxs" /\ InvTxs(pool).txs = pool
    BY <2>1 DEF InvTxs, Msg, Message, Types
  <2> QED BY <2>2 DEF MsgOk
<1>4. /\ Broadcast(d, ms, InvTxs(pool)) \in Working(n, C, U, T)
      /\ Broadcast(d, ms, InvTxs(pool)).s = d.s
  BY <1>3, BroadcastWorks
<1> QED BY <1>2, <1>4 DEF Announce

(* The timer forgets the outstanding requests and announces.               *)
LEMMA TimerKeeps ==
  ASSUME GInv, NEW n \in Node, Timer(n)
  PROVE  GInv'
<1>1. linked' = linked /\ left' = left /\ Become(n, Rebroadcast(n))
  BY DEF Timer
<1>2. Settled' = Settled
  BY <1>1, SameSettled
<1>3. PICK C : C = Heading(chan, n)
  OBVIOUS
<1>4. Doing(n) \in Working(n, C, Known, Settled) /\ Doing(n).s = node[n]
  BY <1>3, DoingWorks
<1>5. PICK s \in Local : s = node[n]
  BY KnownFacts
<1>6. PICK t : t = [s EXCEPT !.asked = {}]
  OBVIOUS
<1>7. /\ t \in Local /\ t.known = s.known /\ t.tip = s.tip /\ t.orphans = s.orphans
      /\ t.missed = s.missed /\ t.pool = s.pool
  BY <1>6 DEF Local
<1>8. PICK e : e = [Doing(n) EXCEPT !.s.asked = {}]
  OBVIOUS
<1>9. e \in Working(n, C, Known, Settled) /\ e.s.known = node[n].known
  <2>1. e = [Doing(n) EXCEPT !.s = t]
    BY <1>4, <1>5, <1>6, <1>8
  <2>2. s.pool \subseteq Settled /\ s.pool \cap OnChain(s.tip) = {}
    BY <1>5 DEF GInv, LocalOk
  <2>3. e \in Working(n, C, Known, Settled)
    BY <1>4, <1>5, <1>7, <2>1, <2>2, BooksWork
  <2>4. Doing(n) \in Draft
    BY <1>4 DEF Working
  <2>5. e.s = t
    BY <2>1, <2>4 DEF Draft
  <2> QED BY <1>5, <1>7, <2>3, <2>5
<1>10. Rebroadcast(n) \in Working(n, C, Known, Settled)
  BY <1>8, <1>9, KnownFacts, AnnounceWorks DEF Rebroadcast
<1>11. GLeft' /\ Known \cap left'.blocks = {}
  BY <1>1 DEF GInv, GLeft
<1> QED BY <1>1, <1>2, <1>3, <1>10, <1>11, KnownFacts, BecomeKeeps

(* A transaction of the wallet becomes settled.                            *)
LEMMA SubmitKeeps ==
  ASSUME GInv, NEW n \in Node, NEW x \in Tx, Submit(n, x)
  PROVE  GInv'
<1>1. /\ x \in left.txs /\ left' = [left EXCEPT !.txs = @ \ {x}] /\ linked' = linked
      /\ Become(n, Broadcast([Doing(n) EXCEPT !.s.pool = @ \cup {x}], Peers(n), TxMsg(x)))
  BY DEF Submit
<1>2. left \in Budget /\ left' \in Budget /\ left'.txs = left.txs \ {x}
      /\ left'.links = left.links /\ left'.first = left.first
      /\ left'.blocks = left.blocks /\ left'.drops = left.drops
  <2>1. left \in Budget
    BY DEF GInv, GLeft
  <2> QED BY <1>1, <2>1 DEF Budget
<1>3. GLeft'
  <2>1. PICK u \in Budgets : /\ left.links = u.links /\ left.first \subseteq u.first
                             /\ left.blocks \subseteq u.blocks
                             /\ left.txs \subseteq u.txs /\ left.drops \in 0..u.drops
    BY DEF GInv, GLeft
  <2> QED BY <1>2, <2>1 DEF GLeft
<1>4. /\ Settled \subseteq Settled' /\ Settled' \in SUBSET Tx /\ x \in Settled' /\ x \notin Settled
      /\ Known \cap left'.blocks = {}
  BY <1>1, <1>2 DEF Settled, GInv
<1>5. PICK C : C = Heading(chan, n)
  OBVIOUS
<1>6. Doing(n) \in Working(n, C, Known, Settled') /\ Doing(n).s = node[n]
  BY <1>4, <1>5, DoingWorks
<1>7. PICK s \in Local : s = node[n]
  BY KnownFacts
<1>8. PICK t : t = [s EXCEPT !.pool = @ \cup {x}]
  OBVIOUS
<1>9. /\ t \in Local /\ t.known = s.known /\ t.tip = s.tip /\ t.orphans = s.orphans
      /\ t.missed = s.missed /\ t.pool = s.pool \cup {x}
  BY <1>8 DEF Local
<1>10. PICK e : e = [Doing(n) EXCEPT !.s.pool = @ \cup {x}]
  OBVIOUS
<1>11. t.pool \subseteq Settled' /\ t.pool \cap OnChain(t.tip) = {}
  <2>1. s.pool \subseteq Settled /\ s.pool \cap OnChain(s.tip) = {} /\ OnChain(s.tip) \subseteq Settled
    BY <1>7 DEF GInv, LocalOk
  <2> QED BY <1>4, <1>9, <2>1
<1>12. e \in Working(n, C, Known, Settled')
  <2>1. e = [Doing(n) EXCEPT !.s = t]
    BY <1>6, <1>7, <1>8, <1>10
  <2> QED BY <1>6, <1>7, <1>9, <1>11, <2>1, BooksWork
<1>13. PICK d : d = Broadcast(e, Peers(n), TxMsg(x))
  OBVIOUS
<1>14. d \in Working(n, C, Known, Settled') /\ Become(n, d)
  <2>1. \A m \in Node : MsgOk(TxMsg(x), e.s.known, node[m].known, Settled')
    BY <1>4, TxMsgOk
  <2> QED BY <1>1, <1>10, <1>12, <1>13, <2>1, BroadcastWorks
<1> QED BY <1>1, <1>3, <1>4, <1>5, <1>14, KnownFacts, BecomeKeeps

(* A node comes to know more blocks: its orphans wait as before, if no     *)
(* other node knows these blocks or they count as missed.                  *)
LEMMA KnowsMore ==
  ASSUME GInv, NEW n \in Node, NEW s, NEW new, s.orphans = node[n].orphans,
         node[n].missed \subseteq s.missed, s.known = node[n].known \cup new,
         \A x \in new : x \in s.missed \/ x \notin Known
  PROVE  \A o \in ToSet(s.orphans) : Waits(s, o, Coming(n))
<1> SUFFICES ASSUME NEW o \in ToSet(s.orphans), Ancestors[o] \cap s.missed = {}
             PROVE  Waits(s, o, Coming(n))
  BY DEF Waits
<1>1. o \in Known /\ Waits(node[n], o, Coming(n))
  BY DEF GInv, GParked
<1>2. Ancestors[o] \subseteq Known
  BY <1>1, KnownFacts
<1>3. PICK w \in Ancestors[o] \ node[n].known :
        w \in Coming(n) /\ Ancestors[o] \ Ancestors[w] \subseteq ToSet(node[n].orphans)
  BY <1>1 DEF Waits
<1>4. w \in Ancestors[o] \ s.known
  BY <1>2, <1>3
<1> QED BY <1>3, <1>4 DEF Waits

(* A node that has come to know more blocks, and tells of its tip.         *)
LEMMA GrownWorks ==
  ASSUME GInv, NEW n \in Node, NEW U \in SUBSET Block, Known \subseteq U, NEW s,
         LocalOk(s, Settled), node[n].known \subseteq s.known, s.known \subseteq U,
         ToSet(s.orphans) \subseteq U,
         \A o \in ToSet(s.orphans) : Waits(s, o, Coming(n))
  PROVE  /\ [Doing(n) EXCEPT !.s = s] \in Working(n, Heading(chan, n), U, Settled)
         /\ [Doing(n) EXCEPT !.s = s].s = s
         /\ GossipTip(n, s) \in Working(n, Heading(chan, n), U, Settled)
         /\ GossipTip(n, s).s = s
<1>1. PICK d : d = Doing(n)
  OBVIOUS
<1>2. d \in Working(n, Heading(chan, n), U, Settled) /\ d.s = node[n] /\ d.out = chan[n]
  BY <1>1, DoingWorks
<1>3. \A o \in ToSet(s.orphans) : Waits(s, o, Heading(chan, n) \cup Asked(d.out))
  BY <1>2 DEF Coming
<1>4. PICK e : e = [d EXCEPT !.s = s]
  OBVIOUS
<1>5. e \in Working(n, Heading(chan, n), U, Settled)
  BY <1>2, <1>3, <1>4, StateWorks
<1>6. e.s = s
  <2>1. d \in Draft
    BY <1>2 DEF Working
  <2> QED BY <1>4, <2>1 DEF Draft
<1>7. s.tip \in s.known /\ s.tip \in Block
  BY DEF LocalOk, Local
<1>8. \A m \in Node : MsgOk(BlockMsg(s.tip), e.s.known, node[m].known, Settled)
  <2>1. /\ BlockMsg(s.tip) \in Message /\ BlockMsg(s.tip).t = "block"
        /\ BlockMsg(s.tip).b = s.tip /\ BlockMsg(s.tip).txs = {}
    BY <1>7 DEF BlockMsg, Msg, Message, Types
  <2> QED BY <1>6, <1>7, <2>1 DEF MsgOk
<1>9. GossipTip(n, s) = Broadcast(e, Peers(n), BlockMsg(s.tip))
  BY <1>1, <1>4 DEF GossipTip
<1>10. GossipTip(n, s) \in Working(n, Heading(chan, n), U, Settled) /\ GossipTip(n, s).s = s
  BY <1>5, <1>6, <1>8, <1>9, BroadcastWorks
<1> QED BY <1>1, <1>4, <1>5, <1>6, <1>10

(* What is taken out of the blocks to come.                                *)
LEMMA LeftLess ==
  ASSUME GInv, NEW new, left' = [left EXCEPT !.blocks = @ \ new]
  PROVE  /\ GLeft' /\ Settled' = Settled /\ left'.blocks = left.blocks \ new
         /\ (Known \cup new) \cap left'.blocks = {}
<1>1. left \in Budget /\ left' \in Budget /\ left'.txs = left.txs
      /\ left'.links = left.links /\ left'.first = left.first
      /\ left'.blocks = left.blocks \ new /\ left'.drops = left.drops
  <2>1. left \in Budget
    BY DEF GInv, GLeft
  <2> QED BY <2>1 DEF Budget
<1>2. GLeft'
  <2>1. PICK u \in Budgets : /\ left.links = u.links /\ left.first \subseteq u.first
                             /\ left.blocks \subseteq u.blocks
                             /\ left.txs \subseteq u.txs /\ left.drops \in 0..u.drops
    BY DEF GInv, GLeft
  <2> QED BY <1>1, <2>1 DEF GLeft
<1>3. Known \cap left.blocks = {}
  BY DEF GInv
<1> QED BY <1>1, <1>2, <1>3 DEF Settled

(* A block is mined on the miner's own tip.                                *)
LEMMA MineKeeps ==
  ASSUME GInv, NEW n \in Node, NEW b \in Block, Mine(n, b)
  PROVE  GInv'
<1>1. /\ b \in left.blocks /\ Parent[b] = node[n].tip /\ Confirms[b] \subseteq node[n].pool
      /\ left' = [left EXCEPT !.blocks = @ \ {b}] /\ linked' = linked
      /\ Become(n, GossipTip(n, Add(node[n], b)))
  BY DEF Mine
<1>2. LocalOk(node[n], Settled)
  BY DEF GInv
<1>3. PICK s \in Local : s = node[n]
  BY KnownFacts
<1>4. /\ Genesis \in s.known /\ s.tip \in s.known /\ s.pool \subseteq Settled
      /\ s.pool \cap OnChain(s.tip) = {}
      /\ \A x \in s.known : Ancestors[x] \subseteq s.known /\ OnChain(x) \subseteq Settled
  BY <1>2, <1>3 DEF LocalOk
<1>5. s.known \subseteq Known /\ Known \in SUBSET Block /\ ToSet(s.orphans) \subseteq Known
  BY <1>3, KnownFacts
<1>6. b \notin Known /\ b # Genesis
  BY <1>1, <1>4, <1>5 DEF GInv
<1>7. Ancestors[b] = {b} \cup Ancestors[s.tip]
  BY <1>1, <1>3, <1>6, BlockTree
<1>8. OnChain(b) \subseteq Settled
  <2>1. OnChain(b) = Confirms[b] \cup OnChain(s.tip)
    BY <1>7 DEF OnChain
  <2> QED BY <1>1, <1>3, <1>4, <2>1
<1>9. PICK a : a = Add(s, b)
  OBVIOUS
<1>10. /\ a \in Local /\ a.known = s.known \cup {b} /\ a.orphans = s.orphans
       /\ a.missed = s.missed
       /\ \/ a.tip = s.tip /\ a.pool = s.pool
          \/ a.tip = b /\ a.pool = (s.pool \cup OnChain(s.tip)) \ OnChain(b)
  BY <1>9, AddFacts
<1>11. LocalOk(a, Settled)
  <2>1. \A x \in a.known : Ancestors[x] \subseteq a.known /\ OnChain(x) \subseteq Settled
    BY <1>4, <1>7, <1>8, <1>10
  <2>2. a.pool \subseteq Settled /\ a.pool \cap OnChain(a.tip) = {}
    BY <1>4, <1>10
  <2>3. Genesis \in a.known /\ a.tip \in a.known
    BY <1>4, <1>10
  <2>4. Len(a.orphans) <= MaxOrphans /\ OneAParent(a.orphans)
    BY <1>2, <1>3, <1>10 DEF LocalOk
  <2> QED BY <1>10, <2>1, <2>2, <2>3, <2>4 DEF LocalOk
<1>12. PICK U \in SUBSET Block : U = Known \cup {b}
  BY <1>5
<1>13. \A o \in ToSet(a.orphans) : Waits(a, o, Coming(n))
  <2>1. \A x \in {b} : x \in a.missed \/ x \notin Known
    BY <1>6
  <2> QED BY <1>3, <1>10, <2>1, KnowsMore
<1>14. PICK d : d = GossipTip(n, a)
  OBVIOUS
<1>15. d \in Working(n, Heading(chan, n), U, Settled) /\ d.s = a
  <2>1. /\ Known \subseteq U /\ node[n].known \subseteq a.known /\ a.known \subseteq U
        /\ ToSet(a.orphans) \subseteq U
    BY <1>3, <1>5, <1>10, <1>12
  <2> QED BY <1>11, <1>13, <1>14, <2>1, GrownWorks
<1>16. GLeft' /\ Settled' = Settled /\ U \cap left'.blocks = {}
  BY <1>1, <1>12, LeftLess
<1>17. Known \subseteq U /\ U \subseteq Known \cup d.s.known
  BY <1>10, <1>12, <1>15
<1>18. Become(n, d) /\ linked' = linked /\ Settled \subseteq Settled'
  BY <1>1, <1>3, <1>9, <1>14, <1>16
<1>19. d \in Working(n, Heading(chan, n), U, Settled')
  BY <1>15, <1>16
<1> QED BY <1>16, <1>17, <1>18, <1>19, BecomeKeeps

(* A branch comes from a helper: its blocks count as missed.               *)
LEMMA PullKeeps ==
  ASSUME GInv, NEW n \in Node, NEW b \in Block, Pull(n, b)
  PROVE  GInv'
<1>1. LocalOk(node[n], Settled)
  BY DEF GInv
<1>2. PICK s \in Local : s = node[n]
  BY KnownFacts
<1>3. /\ Genesis \in s.known /\ s.tip \in s.known /\ s.pool \subseteq Settled
      /\ s.pool \cap OnChain(s.tip) = {}
      /\ \A x \in s.known : Ancestors[x] \subseteq s.known /\ OnChain(x) \subseteq Settled
  BY <1>1, <1>2 DEF LocalOk
<1>4. s.known \subseteq Known /\ Known \in SUBSET Block /\ ToSet(s.orphans) \subseteq Known
  BY <1>2, KnownFacts
<1>5. PICK new : new = Ancestors[b] \ s.known
  OBVIOUS
<1>6. /\ new \in SUBSET Block /\ IsFiniteSet(new)
      /\ \A x, y \in new : Height[x] = Height[y] => x = y
      /\ \A x \in Ancestors[b] : Ancestors[x] \subseteq Ancestors[b]
  <2>1. IsFiniteSet(Ancestors[b]) /\ new \in SUBSET Ancestors[b] /\ Ancestors[b] \subseteq Block
    BY <1>5, Branch
  <2>2. IsFiniteSet(new)
    BY <2>1, FS_Subset
  <2> QED BY <2>1, <2>2, BlockTree
<1>7. PICK q : q = OldestFirst(new)
  OBVIOUS
<1>8. q \in Seq(Block) /\ ToSet(q) = new
  BY <1>6, <1>7, Ordered
<1>9. PICK f : f = FoldLeft(Add, s, q)
  OBVIOUS
<1>10. PICK t : t = [f EXCEPT !.missed = @ \cup new]
  OBVIOUS
<1>11. /\ OnChain(b) \cap left.txs = {} /\ linked' = linked
       /\ left' = [left EXCEPT !.blocks = @ \ new]
       /\ Become(n, IF t.tip = s.tip THEN [Doing(n) EXCEPT !.s = t] ELSE GossipTip(n, t))
  BY <1>2, <1>5, <1>7, <1>9, <1>10 DEF Pull
<1>12. \A x \in Ancestors[b] : OnChain(x) \subseteq Settled
  <2>1. OnChain(b) \subseteq Settled
    BY <1>11, OnChainFacts DEF Settled
  <2> QED BY <2>1, OnChainFacts
<1>13. /\ f \in Local /\ f.known = s.known \cup new /\ f.orphans = s.orphans
       /\ f.missed = s.missed /\ f.tip \in {s.tip} \cup new
       /\ f.pool \subseteq Settled /\ f.pool \cap OnChain(f.tip) = {}
  <2>1. \A x \in ToSet(q) : OnChain(x) \subseteq Settled
    BY <1>5, <1>8, <1>12
  <2>2. OnChain(s.tip) \subseteq Settled
    BY <1>3
  <2> QED BY <1>3, <1>8, <1>9, <2>1, <2>2, AddsFacts
<1>14. /\ t \in Local /\ t.known = f.known /\ t.orphans = f.orphans
       /\ t.missed = s.missed \cup new /\ t.tip = f.tip /\ t.pool = f.pool
  BY <1>6, <1>10, <1>13 DEF Local
<1>15. LocalOk(t, Settled)
  <2>1. t.known = s.known \cup Ancestors[b]
    BY <1>5, <1>13, <1>14
  <2>2. \A x \in t.known : Ancestors[x] \subseteq t.known /\ OnChain(x) \subseteq Settled
    BY <1>3, <1>6, <1>12, <2>1
  <2>3. Genesis \in t.known /\ t.tip \in t.known
    BY <1>3, <1>13, <1>14
  <2>4. Len(t.orphans) <= MaxOrphans /\ OneAParent(t.orphans)
    BY <1>1, <1>2, <1>13, <1>14 DEF LocalOk
  <2> QED BY <1>13, <1>14, <2>2, <2>3, <2>4 DEF LocalOk
<1>16. PICK U \in SUBSET Block : U = Known \cup new
  BY <1>4, <1>6
<1>17. \A o \in ToSet(t.orphans) : Waits(t, o, Coming(n))
  <2>1. \A x \in new : x \in t.missed \/ x \notin Known
    BY <1>14
  <2>2. t.orphans = node[n].orphans /\ node[n].missed \subseteq t.missed
        /\ t.known = node[n].known \cup new
    BY <1>2, <1>13, <1>14
  <2> QED BY <2>1, <2>2, KnowsMore
<1>18. PICK d : d = IF t.tip = s.tip THEN [Doing(n) EXCEPT !.s = t] ELSE GossipTip(n, t)
  OBVIOUS
<1>19. d \in Working(n, Heading(chan, n), U, Settled) /\ d.s = t
  <2>1. /\ Known \subseteq U /\ node[n].known \subseteq t.known /\ t.known \subseteq U
        /\ ToSet(t.orphans) \subseteq U
    BY <1>2, <1>4, <1>13, <1>14, <1>16
  <2> QED BY <1>15, <1>17, <1>18, <2>1, GrownWorks
<1>20. GLeft' /\ Settled' = Settled /\ U \cap left'.blocks = {}
  BY <1>11, <1>16, LeftLess
<1>21. Known \subseteq U /\ U \subseteq Known \cup d.s.known
  BY <1>13, <1>14, <1>16, <1>19
<1>22. Become(n, d) /\ linked' = linked /\ Settled \subseteq Settled'
  BY <1>11, <1>18, <1>20
<1>23. d \in Working(n, Heading(chan, n), U, Settled')
  BY <1>19, <1>20
<1> QED BY <1>20, <1>21, <1>22, <1>23, BecomeKeeps

-----------------------------------------------------------------------------
(* Links come up and die.                                                  *)

(* What a new connection is sent, it may be sent.                          *)
LEMMA GreetFacts ==
  ASSUME GInv, NEW n \in Node, NEW m \in Node
  PROVE  /\ Greet(n, m) \in [Node -> Seq(Message)]
         /\ \A k \in Node : ToSet(chan[n][k]) \subseteq ToSet(Greet(n, m)[k])
         /\ \A k \in Node : \A msg \in ToSet(Greet(n, m)[k]) :
              MsgOk(msg, node[n].known, node[k].known, Settled)
<1>1. PICK d : d = Doing(n)
  OBVIOUS
<1>2. PICK C : C = Heading(chan, n)
  OBVIOUS
<1>3. d \in Working(n, C, Known, Settled) /\ d.s = node[n]
  BY <1>1, <1>2, DoingWorks
<1>4. LocalOk(node[n], Settled)
  BY DEF GInv
<1>5. node[n].tip \in node[n].known /\ node[n].tip \in Block
  BY <1>4 DEF LocalOk, Local
<1>6. MsgOk(Hello(node[n].tip), d.s.known, node[m].known, Settled)
  <2>1. /\ Hello(node[n].tip) \in Message /\ Hello(node[n].tip).t = "hello"
        /\ Hello(node[n].tip).b = node[n].tip /\ Hello(node[n].tip).txs = {}
    BY <1>5 DEF Hello, Msg, Message, Types
  <2> QED BY <1>3, <1>5, <2>1 DEF MsgOk
<1>7. PICK e : e = Send(d, m, Hello(node[n].tip))
  OBVIOUS
<1>8. e \in Working(n, C, Known, Settled) /\ e.s = d.s
  BY <1>3, <1>6, <1>7, SendWorks
<1>9. PICK f : f = Announce(n, e, {m})
  OBVIOUS
<1>10. f \in Working(n, C, Known, Settled) /\ f.s = node[n]
  <2>1. Settled \in SUBSET Tx
    BY KnownFacts
  <2> QED BY <1>3, <1>8, <1>9, <2>1, AnnounceWorks
<1>11. Greet(n, m) = f.out
  BY <1>1, <1>7, <1>9 DEF Greet
<1> QED BY <1>10, <1>11 DEF Working, Draft

(* A link that comes up takes no message away.                             *)
LEMMA OpenKeeps ==
  ASSUME GInv, NEW n \in Node, NEW m \in Node, Open(n, m)
  PROVE  GInv'
<1>1. /\ {n, m} \in left.links /\ linked' = linked \cup {<<n, m>>, <<m, n>>}
      /\ chan' = [chan EXCEPT ![n] = Greet(n, m), ![m] = Greet(m, n)]
      /\ node' = node /\ left' = left
  BY DEF Open
<1>2. n # m
  <2> SUFFICES ASSUME n = m PROVE FALSE
    OBVIOUS
  <2>1. PICK u \in Budgets : left.links = u.links
    BY DEF GInv, GLeft
  <2>2. Cardinality({n, m}) = 2
    BY <1>1, <2>1, GossipBudgets
  <2>3. {n, m} = {n}
    OBVIOUS
  <2>4. Cardinality({n}) = 1
    BY FS_Singleton
  <2> QED BY <2>2, <2>3, <2>4
<1>3. /\ linked \subseteq Node \X Node /\ \A k \in Node : <<k, k>> \notin linked
      /\ node \in [Node -> Local] /\ chan \in [Node -> [Node -> Seq(Message)]]
  BY DEF GInv, GTypes
<1>4. Greet(n, m) \in [Node -> Seq(Message)] /\ Greet(m, n) \in [Node -> Seq(Message)]
  BY GreetFacts
<1>5. /\ chan' \in [Node -> [Node -> Seq(Message)]]
      /\ chan'[n] = Greet(n, m) /\ chan'[m] = Greet(m, n)
      /\ \A k \in Node : k # n /\ k # m => chan'[k] = chan[k]
  BY <1>1, <1>2, <1>3, <1>4
<1>6. GTypes'
  <2>1. linked' \subseteq Node \X Node
    BY <1>1, <1>3
  <2>2. \A k \in Node : <<k, k>> \notin linked'
    BY <1>1, <1>2, <1>3
  <2> QED BY <1>1, <1>3, <1>5, <2>1, <2>2 DEF GTypes
<1>7. \A k, j \in Node : ToSet(chan[k][j]) \subseteq ToSet(chan'[k][j])
  <2> TAKE k, j \in Node
  <2>1. CASE k = n
    BY <1>5, <2>1, GreetFacts
  <2>2. CASE k = m
    BY <1>5, <2>2, GreetFacts
  <2>3. CASE k # n /\ k # m
    BY <1>5, <2>3
  <2> QED BY <2>1, <2>2, <2>3
<1>8. Settled' = Settled /\ Known' = Known
  BY <1>1 DEF Settled, Known
<1>9. GMail'
  <2>1. ASSUME NEW k \in Node, NEW j \in Node, NEW msg \in ToSet(chan'[k][j])
        PROVE  MsgOk(msg, node[k].known, node[j].known, Settled)
    <3>1. CASE k = n
      BY <1>5, <2>1, <3>1, GreetFacts
    <3>2. CASE k = m
      BY <1>5, <2>1, <3>2, GreetFacts
    <3>3. CASE k # n /\ k # m
      BY <1>5, <2>1, <3>3 DEF GInv, GMail
    <3> QED BY <3>1, <3>2, <3>3
  <2> QED BY <1>1, <1>8, <2>1 DEF GMail, MsgOk
<1>10. GParked'
  <2>1. ASSUME NEW k \in Node, NEW o \in ToSet(node[k].orphans)
        PROVE  o \in Known /\ Waits(node[k], o, Coming(k)')
    <3>1. o \in Known /\ Waits(node[k], o, Coming(k))
      BY DEF GInv, GParked
    <3>2. \A b \in Coming(k) : b \in Coming(k)'
      BY <1>7 DEF Coming, Heading, Asked
    <3> QED BY <3>1, <3>2, WaitsMore
  <2> QED BY <1>1, <1>8, <2>1 DEF GParked, Waits
<1>11. GLeft' /\ Known \cap left'.blocks = {} /\ \A k \in Node : LocalOk(node[k], Settled)
  BY <1>1 DEF GInv, GLeft
<1> QED BY <1>1, <1>6, <1>8, <1>9, <1>10, <1>11 DEF GInv, LocalOk

(* The blocks named by the messages of a type.                             *)
LEMMA BlockedFacts ==
  ASSUME NEW q \in Seq(Message), NEW t
  PROVE  /\ \A msg \in ToSet(q) : msg.t = t => msg.b \in Blocked(q, t)
         /\ \A x \in Blocked(q, t) : \E msg \in ToSet(q) : msg.t = t /\ msg.b = x
<1>1. DOMAIN q = 1..Len(q)
  BY LenProperties
<1>2. \A i \in 1..Len(q) : q[i] \in ToSet(q)
  BY Elements
<1>3. \A e \in ToSet(q) : \E i \in 1..Len(q) : q[i] = e
  BY Elements
<1> QED BY <1>1, <1>2, <1>3 DEF Blocked

(* A link dies: the blocks that were coming over it are missed.            *)
LEMMA DropKeeps ==
  ASSUME GInv, NEW n \in Node, NEW m \in Node, Drop(n, m)
  PROVE  GInv'
<1>1. /\ left.drops > 0 /\ left' = [left EXCEPT !.drops = @ - 1, !.first = @ \ {{n, m}}]
      /\ <<n, m>> \in linked /\ linked' = linked \ {<<n, m>>, <<m, n>>}
  BY DEF Drop
<1>2. n # m
  BY <1>1 DEF GInv, GTypes
<1>3. /\ linked \subseteq Node \X Node /\ \A k \in Node : <<k, k>> \notin linked
      /\ node \in [Node -> Local] /\ chan \in [Node -> [Node -> Seq(Message)]]
  BY DEF GInv, GTypes
<1>4. ASSUME NEW k \in Node, NEW j \in Node PROVE LostTo(k, j) \in SUBSET Block
  <2>1. chan[k][j] \in Seq(Message) /\ chan[j][k] \in Seq(Message)
    BY <1>3
  <2>2. /\ \A g \in ToSet(chan[j][k]) : g.t = "block" => g.b \in node[j].known
        /\ \A g \in ToSet(chan[k][j]) : g.t = "getBlock" => g.b \in node[j].known
    BY DEF GInv, GMail, MsgOk
  <2>3. node[j].known \in SUBSET Block
    BY <1>3 DEF Local
  <2>4. Blocked(chan[j][k], "block") \subseteq Block
    BY <2>1, <2>2, <2>3, BlockedFacts
  <2>5. Blocked(chan[k][j], "getBlock") \subseteq Block
    BY <2>1, <2>2, <2>3, BlockedFacts
  <2> QED BY <2>4, <2>5 DEF LostTo
<1>5. PICK a : a = [node[n] EXCEPT !.missed = @ \cup LostTo(n, m)]
  OBVIOUS
<1>6. PICK z : z = [node[m] EXCEPT !.missed = @ \cup LostTo(m, n)]
  OBVIOUS
<1>7. /\ a \in Local /\ a.known = node[n].known /\ a.tip = node[n].tip
      /\ a.orphans = node[n].orphans /\ a.pool = node[n].pool
      /\ a.missed = node[n].missed \cup LostTo(n, m)
  <2>1. node[n] \in Local /\ LostTo(n, m) \in SUBSET Block
    BY <1>3, <1>4
  <2> QED BY <1>5, <2>1 DEF Local
<1>8. /\ z \in Local /\ z.known = node[m].known /\ z.tip = node[m].tip
      /\ z.orphans = node[m].orphans /\ z.pool = node[m].pool
      /\ z.missed = node[m].missed \cup LostTo(m, n)
  <2>1. node[m] \in Local /\ LostTo(m, n) \in SUBSET Block
    BY <1>3, <1>4
  <2> QED BY <1>6, <2>1 DEF Local
<1>9. node' = [node EXCEPT ![n] = a, ![m] = z]
  BY <1>2, <1>3, <1>5, <1>6 DEF Drop
<1>10. /\ node' \in [Node -> Local] /\ node'[n] = a /\ node'[m] = z
       /\ \A k \in Node : k # n /\ k # m => node'[k] = node[k]
  BY <1>2, <1>3, <1>7, <1>8, <1>9
<1>11. \A k \in Node : /\ node'[k].known = node[k].known /\ node'[k].tip = node[k].tip
                       /\ node'[k].orphans = node[k].orphans /\ node'[k].pool = node[k].pool
                       /\ node[k].missed \subseteq node'[k].missed
  BY <1>7, <1>8, <1>10
<1>12. PICK p : p = [chan[n] EXCEPT ![m] = <<>>]
  OBVIOUS
<1>13. PICK r : r = [chan[m] EXCEPT ![n] = <<>>]
  OBVIOUS
<1>14. /\ p \in [Node -> Seq(Message)] /\ p[m] = <<>> /\ \A j \in Node : j # m => p[j] = chan[n][j]
       /\ r \in [Node -> Seq(Message)] /\ r[n] = <<>> /\ \A j \in Node : j # n => r[j] = chan[m][j]
  <2>1. <<>> \in Seq(Message) /\ chan[n] \in [Node -> Seq(Message)] /\ chan[m] \in [Node -> Seq(Message)]
    BY <1>3, EmptySeq
  <2> QED BY <1>12, <1>13, <2>1
<1>15. chan' = [chan EXCEPT ![n] = p, ![m] = r]
  BY <1>2, <1>3, <1>12, <1>13 DEF Drop
<1>16. /\ chan' \in [Node -> [Node -> Seq(Message)]] /\ chan'[n] = p /\ chan'[m] = r
       /\ \A k \in Node : k # n /\ k # m => chan'[k] = chan[k]
  BY <1>2, <1>3, <1>14, <1>15
<1>17. ASSUME NEW k \in Node, NEW j \in Node
       PROVE  \/ chan'[k][j] = chan[k][j]
              \/ chan'[k][j] = <<>> /\ ((k = n /\ j = m) \/ (k = m /\ j = n))
  BY <1>14, <1>16
<1>18. ToSet(<<>>) = {}
  BY DEF ToSet
<1>19. GTypes'
  <2>1. linked' \subseteq Node \X Node /\ \A k \in Node : <<k, k>> \notin linked'
    BY <1>1, <1>3
  <2> QED BY <1>10, <1>16, <2>1 DEF GTypes
<1>20. left \in Budget /\ left' \in Budget /\ left'.txs = left.txs
       /\ left'.links = left.links /\ left'.first \subseteq left.first
       /\ left'.blocks = left.blocks /\ left'.drops = left.drops - 1
       /\ left.drops \in Nat \ {0}
  <2>1. left \in Budget
    BY DEF GInv, GLeft
  <2>2. left.drops \in Nat /\ left.first \in SUBSET SUBSET Node
    BY <2>1 DEF Budget
  <2>3. PICK k : k = left.drops - 1
    OBVIOUS
  <2>4. k \in Nat /\ left.drops \in Nat \ {0}
    BY <1>1, <2>2, <2>3
  <2>5. PICK f : f = left.first \ {{n, m}}
    OBVIOUS
  <2>6. f \in SUBSET SUBSET Node /\ f \subseteq left.first
    BY <2>2, <2>5
  <2>7. left' = [left EXCEPT !.drops = k, !.first = f]
    BY <1>1, <2>1, <2>3, <2>5 DEF Budget
  <2>8. left' \in Budget /\ left'.txs = left.txs /\ left'.links = left.links
        /\ left'.first = f /\ left'.blocks = left.blocks /\ left'.drops = k
    BY <2>1, <2>4, <2>6, <2>7 DEF Budget
  <2> QED BY <2>1, <2>3, <2>4, <2>6, <2>8
<1>21. GLeft'
  <2>1. PICK u \in Budgets : /\ left.links = u.links /\ left.first \subseteq u.first
                             /\ left.blocks \subseteq u.blocks
                             /\ left.txs \subseteq u.txs /\ left.drops \in 0..u.drops
    BY DEF GInv, GLeft
  <2>2. u.drops \in Nat
    BY <2>1, GossipBudgets DEF Budget
  <2>3. left'.drops \in 0..u.drops
    <3>1. left.drops \in Nat \ {0} /\ left.drops <= u.drops /\ left'.drops = left.drops - 1
      BY <1>20, <2>1, <2>2
    <3> QED BY <2>2, <3>1
  <2> QED BY <1>20, <2>1, <2>3 DEF GLeft
<1>22. Settled' = Settled /\ Known' = Known
  <2>1. Known' = UNION {node'[k].known : k \in Node}
    BY DEF Known
  <2>2. Known' = Known
    BY <1>11, <2>1 DEF Known
  <2> QED BY <1>20, <2>2 DEF Settled
<1>23. GMail'
  <2>1. ASSUME NEW k \in Node, NEW j \in Node, NEW msg \in ToSet(chan'[k][j])
        PROVE  MsgOk(msg, node'[k].known, node'[j].known, Settled')
    <3>1. msg \in ToSet(chan[k][j])
      BY <1>17, <1>18, <2>1
    <3>2. MsgOk(msg, node[k].known, node[j].known, Settled)
      BY <3>1 DEF GInv, GMail
    <3> QED BY <1>11, <1>22, <3>2
  <2> QED BY <2>1 DEF GMail, MsgOk
<1>24. ASSUME NEW k \in Node PROVE LocalOk(node'[k], Settled')
  <2>1. LocalOk(node[k], Settled)
    BY DEF GInv
  <2>2. node'[k] \in Local
    BY <1>10
  <2> QED BY <1>11, <1>22, <2>1, <2>2 DEF LocalOk
<1>25. ASSUME NEW k \in Node, NEW b \in Coming(k)
       PROVE  b \in Coming(k)' \/ b \in node'[k].missed
  <2>1. b \in Block
    BY DEF Coming, Heading, Asked
  <2>2. PICK j \in Node : BlockMsg(b) \in ToSet(chan[j][k]) \/ GetBlock(b) \in ToSet(chan[k][j])
    BY DEF Coming, Heading, Asked
  <2>3. CASE chan'[j][k] = chan[j][k] /\ chan'[k][j] = chan[k][j]
    <3>1. BlockMsg(b) \in ToSet(chan'[j][k]) \/ GetBlock(b) \in ToSet(chan'[k][j])
      BY <2>2, <2>3
    <3> QED BY <2>1, <3>1 DEF Coming, Heading, Asked
  <2>4. CASE ~(chan'[j][k] = chan[j][k] /\ chan'[k][j] = chan[k][j])
    <3>1. (k = n /\ j = m) \/ (k = m /\ j = n)
      BY <1>17, <2>4
    <3>2. b \in LostTo(k, j)
      <4>1. chan[j][k] \in Seq(Message) /\ chan[k][j] \in Seq(Message)
        BY <1>3
      <4>2. /\ BlockMsg(b).t = "block" /\ BlockMsg(b).b = b
            /\ GetBlock(b).t = "getBlock" /\ GetBlock(b).b = b
        BY DEF BlockMsg, GetBlock, Msg
      <4>3. b \in Blocked(chan[j][k], "block") \/ b \in Blocked(chan[k][j], "getBlock")
        BY <2>2, <4>1, <4>2, BlockedFacts
      <4> QED BY <4>3 DEF LostTo
    <3> QED BY <1>7, <1>8, <1>10, <3>1, <3>2
  <2> QED BY <2>3, <2>4
<1>26. GParked'
  <2>1. ASSUME NEW k \in Node, NEW o \in ToSet(node'[k].orphans)
        PROVE  o \in Known' /\ Waits(node'[k], o, Coming(k)')
    <3>1. o \in Known /\ Waits(node[k], o, Coming(k))
      BY <1>11, <2>1 DEF GInv, GParked
    <3>2. CASE Ancestors[o] \cap node'[k].missed # {}
      BY <1>22, <3>1, <3>2 DEF Waits
    <3>3. CASE Ancestors[o] \cap node'[k].missed = {}
      <4>1. PICK w \in Ancestors[o] \ node[k].known :
              w \in Coming(k) /\ Ancestors[o] \ Ancestors[w] \subseteq ToSet(node[k].orphans)
        BY <1>11, <3>1, <3>3 DEF Waits
      <4>2. w \in Coming(k)'
        BY <1>25, <3>3, <4>1
      <4>3. w \in Ancestors[o] \ node'[k].known
            /\ Ancestors[o] \ Ancestors[w] \subseteq ToSet(node'[k].orphans)
        BY <1>11, <4>1
      <4> QED BY <1>22, <3>1, <4>2, <4>3 DEF Waits
    <3> QED BY <3>2, <3>3
  <2> QED BY <2>1 DEF GParked, Waits
<1>27. Known' \cap left'.blocks = {}
  BY <1>20, <1>22 DEF GInv
<1> QED BY <1>19, <1>21, <1>23, <1>24, <1>26, <1>27 DEF GInv, LocalOk

-----------------------------------------------------------------------------

(* Every step keeps the books in agreement.                                *)
LEMMA StepGInv ==
  GInv /\ [Next]_vars => GInv'
<1> SUFFICES ASSUME GInv, [Next]_vars PROVE GInv'
  OBVIOUS
<1>1. ASSUME NEW n \in Node, NEW m \in Node, Receive(n, m) PROVE GInv'
  BY <1>1, ReceiveKeeps
<1>2. ASSUME NEW n \in Node, NEW m \in Node, Open(n, m) PROVE GInv'
  BY <1>2, OpenKeeps
<1>3. ASSUME NEW n \in Node, NEW m \in Node, Drop(n, m) PROVE GInv'
  BY <1>3, DropKeeps
<1>4. ASSUME NEW n \in Node, Timer(n) PROVE GInv'
  BY <1>4, TimerKeeps
<1>5. ASSUME NEW n \in Node, NEW x \in Tx, Submit(n, x) PROVE GInv'
  BY <1>5, SubmitKeeps
<1>6. ASSUME NEW n \in Node, NEW b \in Block, Mine(n, b) PROVE GInv'
  BY <1>6, MineKeeps
<1>7. ASSUME NEW n \in Node, NEW b \in Block, Pull(n, b) PROVE GInv'
  BY <1>7, PullKeeps
<1>8. CASE UNCHANGED vars
  <2>1. node' = node /\ linked' = linked /\ chan' = chan /\ left' = left
    BY <1>8 DEF vars
  <2>2. Settled' = Settled /\ Known' = Known
    BY <2>1 DEF Settled, Known
  <2>3. \A k \in Node : Coming(k)' = Coming(k)
    BY <2>1 DEF Coming, Heading, Asked
  <2>4. GTypes' /\ GLeft'
    BY <2>1 DEF GInv, GTypes, GLeft
  <2>5. GMail'
    BY <2>1, <2>2 DEF GInv, GMail, MsgOk
  <2>6. GParked'
    BY <2>1, <2>2, <2>3 DEF GInv, GParked, Waits
  <2>7. \A k \in Node : LocalOk(node'[k], Settled')
    BY <2>1, <2>2 DEF GInv
  <2>8. Known' \cap left'.blocks = {}
    BY <2>1, <2>2 DEF GInv
  <2> QED BY <2>4, <2>5, <2>6, <2>7, <2>8 DEF GInv, LocalOk
<1> QED BY <1>1, <1>2, <1>3, <1>4, <1>5, <1>6, <1>7, <1>8 DEF Next, Deliver

(* Whatever is parked waits for what is on its way: when nothing is, a     *)
(* part of its branch was missed.                                          *)
LEMMA GInvSound ==
  GInv => GossipSound
<1> SUFFICES ASSUME GInv PROVE GossipSound
  OBVIOUS
<1>1. TypeOK
  <2>1. \A n \in Node :
          /\ Len(node[n].orphans) <= MaxOrphans
          /\ OneAParent(node[n].orphans)
          /\ node[n].pool \cap OnChain(node[n].tip) = {}
    BY DEF GInv, LocalOk
  <2> QED BY <2>1 DEF TypeOK, GInv, GTypes, GLeft, OneAParent
<1>2. ASSUME Quiet, NEW n \in Node, NEW o \in ToSet(node[n].orphans)
      PROVE  Ancestors[o] \cap node[n].missed # {}
  <2>1. \A k, m \in Node : ToSet(chan[k][m]) = {}
    BY <1>2 DEF Quiet, ToSet
  <2>2. Coming(n) = {}
    BY <2>1 DEF Coming, Heading, Asked
  <2>3. Waits(node[n], o, Coming(n))
    BY DEF GInv, GParked
  <2> QED BY <2>2, <2>3 DEF Waits
<1>3. NoOrphanLeft
  BY <1>2 DEF NoOrphanLeft
<1> QED BY <1>1, <1>3 DEF GossipSound

(* The nodes' books agree at every step (peer.ts, PeerNetwork), and what   *)
(* handleIncomingBlock parks is drained, or its branch was missed.         *)
THEOREM BooksAgree ==
  Spec => []GossipSound
<1>1. Spec => []GInv
  BY InitGInv, StepGInv, PTL DEF Spec
<1> QED BY <1>1, GInvSound, PTL
=============================================================================
