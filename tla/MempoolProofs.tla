---------------------------- MODULE MempoolProofs ----------------------------
(***************************************************************************)
(* Ledger and mempool, proved for every set of addresses and transactions, *)
(* every schedule of rewards, every limit of the pool and every depth of a *)
(* reorg: coins are conserved, no account is overdrawn, and the pool holds *)
(* nothing the chain has used up.                                          *)
(***************************************************************************)
EXTENDS Mempool, TLAPS, WellFoundedInduction, FiniteSetTheorems, SequenceTheorems

-----------------------------------------------------------------------------
(* Induction, over sets instead of predicates.                             *)

(* A set of numbers that is not empty has a least element.                 *)
LEMMA LeastNumber ==
  ASSUME NEW S \in SUBSET Nat, S # {}
  PROVE  \E m \in S : \A k \in S : m <= k
<1> DEFINE R == {ss \in Nat \X Nat : ss[1] < ss[2]}
<1>1. IsWellFoundedOn(R, Nat)
  BY NatLessThanWellFounded DEF OpToRel
<1> HIDE DEF R
<1>2. PICK m \in S : \A k \in S : ~ (<<k, m>> \in R)
  BY <1>1, WFMin
<1>3. ASSUME NEW k \in S PROVE m <= k
  <2>1. k \in Nat /\ m \in Nat
    OBVIOUS
  <2>2. ~ (k < m)
    BY <1>2, <2>1 DEF R
  <2> QED BY <2>1, <2>2
<1> QED BY <1>3

(* What holds of 0, and of a number's successor with it, holds up to n.    *)
LEMMA Ladder ==
  ASSUME NEW n \in Nat, NEW D, 0 \in D,
         \A k \in 0..(n - 1) : k \in D => k + 1 \in D
  PROVE  \A k \in 0..n : k \in D
<1> DEFINE Bad == {k \in 0..n : k \notin D}
<1>1. SUFFICES ASSUME Bad # {} PROVE FALSE
  OBVIOUS
<1>2. Bad \in SUBSET Nat
  OBVIOUS
<1>3. PICK m \in Bad : \A k \in Bad : m <= k
  BY <1>1, <1>2, LeastNumber
<1>4. m \in 0..n /\ m # 0
  BY <1>3
<1>5. m - 1 \in 0..(n - 1) /\ m - 1 \notin Bad
  BY <1>3, <1>4
<1>6. m - 1 \in D
  BY <1>5
<1>7. (m - 1) + 1 \in D
  BY <1>5, <1>6
<1> QED BY <1>3, <1>4, <1>7

(* What holds of a set once it holds of it less any one element, holds of  *)
(* every subset of a finite set.                                           *)
LEMMA SetLadder ==
  ASSUME NEW S, IsFiniteSet(S), NEW D,
         \A T \in SUBSET S : (\A x \in T : T \ {x} \in D) => T \in D
  PROVE  \A T \in SUBSET S : T \in D
<1> DEFINE Bad == {T \in SUBSET S : T \notin D}
           Sizes == {Cardinality(T) : T \in Bad}
<1>1. SUFFICES ASSUME Bad # {} PROVE FALSE
  OBVIOUS
<1>2. \A T \in SUBSET S : IsFiniteSet(T) /\ Cardinality(T) \in Nat
  BY FS_Subset, FS_CardinalityType
<1>3. Sizes \in SUBSET Nat /\ Sizes # {}
  BY <1>1, <1>2
<1>4. PICK m \in Sizes : \A k \in Sizes : m <= k
  BY <1>3, LeastNumber
<1>5. PICK T \in Bad : m = Cardinality(T)
  BY <1>4
<1>6. ASSUME NEW x \in T PROVE T \ {x} \in D
  <2>1. T \ {x} \in SUBSET S /\ IsFiniteSet(T) /\ IsFiniteSet(T \ {x})
    BY <1>2, <1>5
  <2>2. Cardinality(T \ {x}) = Cardinality(T) - 1
    BY <2>1, FS_RemoveElement
  <2>3. ~ (m <= Cardinality(T \ {x}))
    BY <1>2, <1>5, <2>1, <2>2
  <2>4. T \ {x} \notin Bad
    BY <1>4, <2>3
  <2> QED BY <2>1, <2>4
<1> QED BY <1>5, <1>6

-----------------------------------------------------------------------------
(* Recursion over the subsets of a finite set, and folds.                  *)

(* h takes {} to b, and T to G of c[T] and of what it takes T less c[T] to. *)
Solves(h, S, b, c, G) ==
  \A T \in SUBSET S :
    h[T] = IF T = {} THEN b ELSE G[<<c[T], h[T \ {c[T]}]>>]

Chooses(c, S) == \A T \in SUBSET S : T # {} => c[T] \in T

LEMMA Recursion ==
  ASSUME NEW S, IsFiniteSet(S), NEW V, NEW b \in V,
         NEW c, Chooses(c, S), NEW G \in [S \X V -> V]
  PROVE  \E h \in [SUBSET S -> V] : Solves(h, S, b, c, G)
<1> USE DEF Solves, Chooses
<1> DEFINE Eq(h, T) == h[T] = IF T = {} THEN b ELSE G[<<c[T], h[T \ {c[T]}]>>]
           UpTo(k) == \E h \in [SUBSET S -> V] :
                        \A T \in SUBSET S : Cardinality(T) <= k => Eq(h, T)
           D == {k \in Nat : UpTo(k)}
           n == Cardinality(S)
<1>1. \A T \in SUBSET S : IsFiniteSet(T) /\ Cardinality(T) \in Nat /\ Cardinality(T) <= n
  BY FS_Subset, FS_CardinalityType
<1>2. n \in Nat
  BY FS_CardinalityType
<1>3. UpTo(0)
  <2>1. \A T \in SUBSET S : Cardinality(T) <= 0 => T = {}
    BY <1>1, FS_EmptySet
  <2> DEFINE h == [T \in SUBSET S |-> b]
  <2>2. h \in [SUBSET S -> V] /\ \A T \in SUBSET S : Cardinality(T) <= 0 => Eq(h, T)
    BY <2>1
  <2> QED BY <2>2
<1>4. ASSUME NEW k \in Nat, UpTo(k) PROVE UpTo(k + 1)
  <2>1. PICK h \in [SUBSET S -> V] : \A T \in SUBSET S : Cardinality(T) <= k => Eq(h, T)
    BY <1>4
  <2> DEFINE g == [T \in SUBSET S |-> IF T = {} THEN b ELSE G[<<c[T], h[T \ {c[T]}]>>]]
  <2>2. \A T \in SUBSET S : T # {} =>
          <<c[T], h[T \ {c[T]}]>> \in S \X V
    <3> SUFFICES ASSUME NEW T \in SUBSET S, T # {} PROVE <<c[T], h[T \ {c[T]}]>> \in S \X V
      OBVIOUS
    <3>1. c[T] \in T /\ T \ {c[T]} \in SUBSET S
      OBVIOUS
    <3> QED BY <3>1
  <2>3. g \in [SUBSET S -> V]
    BY <2>2
  <2>4. \A T \in SUBSET S : Cardinality(T) <= k => g[T] = h[T]
    BY <2>1
  <2>5. ASSUME NEW T \in SUBSET S, Cardinality(T) <= k + 1 PROVE Eq(g, T)
    <3>1. CASE T = {}
      BY <3>1
    <3>2. CASE T # {}
      <4> DEFINE U == T \ {c[T]}
      <4>1. c[T] \in T /\ U \in SUBSET S
        BY <3>2
      <4>2. Cardinality(U) = Cardinality(T) - 1
        BY <1>1, <4>1, FS_RemoveElement
      <4>3. Cardinality(U) <= k
        BY <1>1, <2>5, <4>1, <4>2
      <4>4. g[U] = h[U]
        BY <2>4, <4>1, <4>3
      <4> QED BY <3>2, <4>4
    <3> QED BY <3>1, <3>2
  <2> QED BY <2>3, <2>5
<1>5. n \in D
  <2>1. 0 \in D
    BY <1>3
  <2>2. ASSUME NEW k \in 0..(n - 1), k \in D PROVE k + 1 \in D
    <3>1. k \in Nat /\ UpTo(k)
      BY <2>2
    <3>2. UpTo(k + 1)
      BY <3>1, <1>4
    <3> HIDE DEF UpTo
    <3> QED BY <3>1, <3>2
  <2> HIDE DEF D, n
  <2>3. \A k \in 0..n : k \in D
    BY <1>2, <2>1, <2>2, Ladder
  <2> QED BY <1>2, <2>3
<1>6. PICK h \in [SUBSET S -> V] : \A T \in SUBSET S : Cardinality(T) <= n => Eq(h, T)
  BY <1>5
<1> QED BY <1>1, <1>6

(* The beginnings of 1..n, from which FoldLeft takes the last index off.   *)
LEMMA Beginnings ==
  ASSUME NEW n \in Nat
  PROVE  /\ IsFiniteSet(1..n)
         /\ \A T \in SUBSET (1..n) : T # {} => Max(T) \in T
         /\ \A k \in 1..n : /\ 1..k \in SUBSET (1..n) /\ 1..k # {}
                            /\ Max(1..k) = k /\ (1..k) \ {k} = 1..(k - 1)
<1>1. IsFiniteSet(1..n)
  BY FS_Interval
<1>2. ASSUME NEW T \in SUBSET (1..n), T # {} PROVE Max(T) \in T
  <2> DEFINE D == {n - t : t \in T}
  <2>1. D \in SUBSET Nat /\ D # {}
    <3>1. \A t \in T : n - t \in Nat
      BY <1>2
    <3>2. PICK t \in T : TRUE
      BY <1>2
    <3>3. n - t \in D
      BY <3>2
    <3> QED BY <3>1, <3>3
  <2>2. PICK d \in D : \A e \in D : d <= e
    BY <2>1, LeastNumber
  <2>3. PICK t \in T : d = n - t
    BY <2>2
  <2>4. ASSUME NEW u \in T PROVE t >= u
    <3>1. n - u \in D
      OBVIOUS
    <3>2. d <= n - u
      BY <2>2, <3>1
    <3> QED BY <1>2, <2>3, <3>2
  <2> QED BY <2>4 DEF Max
<1>3. ASSUME NEW k \in 1..n PROVE Max(1..k) = k
  <2>1. k \in 1..k /\ \A u \in 1..k : k >= u
    BY <1>3
  <2>2. \A t \in 1..k : (\A u \in 1..k : t >= u) => t = k
    BY <2>1
  <2> QED BY <2>1, <2>2 DEF Max
<1>4. ASSUME NEW k \in 1..n
      PROVE  1..k \in SUBSET (1..n) /\ 1..k # {} /\ (1..k) \ {k} = 1..(k - 1)
  OBVIOUS
<1> QED BY <1>1, <1>2, <1>3, <1>4

(* The recursion of a FoldLeft over a sequence of length n has a solution. *)
FoldEq(h, n, b, G) ==
  h = [T \in SUBSET (1..n) |-> IF T = {} THEN b ELSE G[<<Max(T), h[T \ {Max(T)}]>>]]

LEMMA FoldSolution ==
  ASSUME NEW n \in Nat, NEW V, NEW b \in V, NEW G \in [(1..n) \X V -> V]
  PROVE  \E h \in [SUBSET (1..n) -> V] : FoldEq(h, n, b, G)
<1>1. PICK S : S = 1..n
  OBVIOUS
<1>2. PICK c : c = [T \in SUBSET S |-> Max(T)]
  OBVIOUS
<1>3. IsFiniteSet(S) /\ Chooses(c, S)
  BY <1>1, <1>2, Beginnings DEF Chooses
<1>4. G \in [S \X V -> V]
  BY <1>1
<1>5. PICK h \in [SUBSET S -> V] : Solves(h, S, b, c, G)
  BY <1>3, <1>4, Recursion
<1>6. \A T \in SUBSET S :
        h[T] = IF T = {} THEN b ELSE G[<<Max(T), h[T \ {Max(T)}]>>]
  BY <1>2, <1>5 DEF Solves
<1>7. h = [T \in SUBSET S |->
             IF T = {} THEN b ELSE G[<<Max(T), h[T \ {Max(T)}]>>]]
  BY <1>6
<1> QED BY <1>1, <1>7 DEF FoldEq

(* For a concrete step, G is the step as a function.                       *)
LEMMA StepArgument ==
  ASSUME NEW n \in Nat, NEW V, NEW h \in [SUBSET (1..n) -> V],
         NEW T \in SUBSET (1..n), T # {}
  PROVE  /\ Max(T) \in 1..n /\ T \ {Max(T)} \in SUBSET (1..n)
         /\ <<Max(T), h[T \ {Max(T)}]>> \in (1..n) \X V
<1>1. Max(T) \in 1..n /\ T \ {Max(T)} \in SUBSET (1..n)
  BY Beginnings
<1> QED BY <1>1

-----------------------------------------------------------------------------
(* The fees of a block.                                                    *)

FeesRun(r, txs) ==
  /\ r \in [0..Len(txs) -> Nat] /\ r[0] = 0
  /\ \A k \in 1..Len(txs) : r[k] = r[k - 1] + txs[k].fee

LEMMA FeesFold ==
  ASSUME NEW txs \in Seq(Tx)
  PROVE  \E r : FeesRun(r, txs) /\ Fees(txs) = r[Len(txs)]
<1> DEFINE n == Len(txs)
           Eq(h) == h = [T \in SUBSET DOMAIN txs |->
                           IF T = {} THEN 0 ELSE h[T \ {Max(T)}] + txs[Max(T)].fee]
<1>1. n \in Nat /\ DOMAIN txs = 1..n /\ \A k \in 1..n : txs[k].fee \in Nat
  BY MempoolAssumption DEF WellFormedTx
<1>2. PICK G : G = [p \in (1..n) \X Nat |-> p[2] + txs[p[1]].fee]
  OBVIOUS
<1>3. G \in [(1..n) \X Nat -> Nat]
  BY <1>1, <1>2
<1>4. PICK h \in [SUBSET (1..n) -> Nat] : FoldEq(h, n, 0, G)
  BY <1>1, <1>3, FoldSolution
<1>5. ASSUME NEW T \in SUBSET (1..n), T # {}
      PROVE  G[<<Max(T), h[T \ {Max(T)}]>>] = h[T \ {Max(T)}] + txs[Max(T)].fee
  BY <1>1, <1>2, <1>5, StepArgument
<1>6. Eq(h)
  BY <1>1, <1>4, <1>5 DEF FoldEq
<1>7. PICK g : Eq(g) /\ Fees(txs) = g[DOMAIN txs]
  <2> DEFINE g == CHOOSE f : Eq(f)
  <2>1. Eq(g)
    BY <1>6
  <2>2. Fees(txs) = g[DOMAIN txs]
    BY DEF Fees, FoldLeft, MapThenFoldSet
  <2> QED BY <2>1, <2>2
<1>8. PICK r : r = [k \in 0..n |-> g[1..k]]
  OBVIOUS
<1>9. r[0] = 0
  <2>1. r[0] = g[{}]
    BY <1>1, <1>8
  <2> QED BY <1>7, <2>1
<1>10. ASSUME NEW k \in 1..n PROVE r[k] = r[k - 1] + txs[k].fee
  <2>1. r[k] = g[1..k] /\ r[k - 1] = g[1..(k - 1)]
    BY <1>1, <1>8
  <2>2. /\ 1..k \in SUBSET (1..n) /\ 1..k # {}
        /\ Max(1..k) = k /\ (1..k) \ {k} = 1..(k - 1)
    BY <1>1, Beginnings
  <2>3. g[1..k] = g[1..(k - 1)] + txs[k].fee
    BY <1>1, <1>7, <2>2
  <2> QED BY <2>1, <2>3
<1>11. \A k \in 0..n : r[k] \in Nat
  <2>1. PICK D : D = {k \in 0..n : r[k] \in Nat}
    OBVIOUS
  <2>2. 0 \in D /\ \A k \in 0..(n - 1) : k \in D => k + 1 \in D
    BY <1>1, <1>9, <1>10, <2>1
  <2>3. \A k \in 0..n : k \in D
    BY <1>1, <2>2, Ladder
  <2> QED BY <2>1, <2>3
<1>12. r \in [0..n -> Nat] /\ r[n] = Fees(txs)
  <2>1. r \in [0..n -> Nat]
    BY <1>8, <1>11
  <2>2. n \in 0..n /\ 1..n = DOMAIN txs
    BY <1>1
  <2> QED BY <1>7, <1>8, <2>1, <2>2
<1> QED BY <1>9, <1>10, <1>12 DEF FeesRun

-----------------------------------------------------------------------------
(* Sums over finite sets, in whatever order.                               *)

SumFor(h, f, S) ==
  /\ h \in [SUBSET S -> Int] /\ h[{}] = 0
  /\ \A T \in SUBSET S : \A x \in T : h[T] = f[x] + h[T \ {x}]

Total(f) == (CHOOSE h : SumFor(h, f, DOMAIN f))[DOMAIN f]

(* The recursion of a MapThenSumSet, with the elements of f chosen by Elem. *)
Elem(T) == CHOOSE x \in T : TRUE

SumEq(h, f, S) == h = [T \in SUBSET S |-> IF T = {} THEN 0 ELSE f[Elem(T)] + h[T \ {Elem(T)}]]

(* It has a solution.                                                      *)
LEMMA SumSolution ==
  ASSUME NEW S, IsFiniteSet(S), NEW f \in [S -> Int]
  PROVE  \E h \in [SUBSET S -> Int] : SumEq(h, f, S)
<1>1. PICK c : c = [T \in SUBSET S |-> Elem(T)]
  OBVIOUS
<1>2. Chooses(c, S)
  BY <1>1 DEF Chooses, Elem
<1>3. PICK G : G = [p \in S \X Int |-> f[p[1]] + p[2]]
  OBVIOUS
<1>4. G \in [S \X Int -> Int]
  BY <1>3
<1>5. 0 \in Int
  OBVIOUS
<1>6. PICK h \in [SUBSET S -> Int] : Solves(h, S, 0, c, G)
  BY <1>2, <1>4, <1>5, Recursion
<1>7. ASSUME NEW T \in SUBSET S
      PROVE  h[T] = IF T = {} THEN 0 ELSE f[Elem(T)] + h[T \ {Elem(T)}]
  <2>1. CASE T = {}
    BY <1>6, <2>1 DEF Solves
  <2>2. CASE T # {}
    <3>1. Elem(T) \in S /\ T \ {Elem(T)} \in SUBSET S /\ c[T] = Elem(T)
      BY <1>1, <1>2, <2>2 DEF Chooses
    <3>2. G[<<Elem(T), h[T \ {Elem(T)}]>>] = f[Elem(T)] + h[T \ {Elem(T)}]
      BY <1>3, <3>1
    <3>3. h[T] = G[<<c[T], h[T \ {c[T]}]>>]
      BY <1>6, <2>2 DEF Solves
    <3> QED BY <2>2, <3>1, <3>2, <3>3
  <2> QED BY <2>1, <2>2
<1>8. h = [T \in SUBSET S |-> IF T = {} THEN 0 ELSE f[Elem(T)] + h[T \ {Elem(T)}]]
  BY <1>7
<1> QED BY <1>8 DEF SumEq

(* A solution is the sum, whichever element comes first.                   *)
LEMMA SumOrder ==
  ASSUME NEW S, IsFiniteSet(S), NEW f \in [S -> Int], NEW h, SumEq(h, f, S)
  PROVE  SumFor(h, f, S)
<1>1. h = [T \in SUBSET S |-> h[T]] /\ h[{}] = 0
  BY DEF SumEq
<1>2. ASSUME NEW T \in SUBSET S, T # {}
      PROVE  /\ Elem(T) \in T /\ f[Elem(T)] \in Int
             /\ h[T] = f[Elem(T)] + h[T \ {Elem(T)}]
  <2>1. Elem(T) \in T
    BY <1>2 DEF Elem
  <2> QED BY <1>2, <2>1 DEF SumEq
<1>3. ASSUME NEW T \in SUBSET S PROVE h[T] \in Int
  <2>1. PICK D : D = {U \in SUBSET S : h[U] \in Int}
    OBVIOUS
  <2>2. ASSUME NEW U \in SUBSET S, \A x \in U : U \ {x} \in D PROVE U \in D
    <3>1. CASE U = {}
      BY <1>1, <2>1, <3>1
    <3>2. CASE U # {}
      <4>1. Elem(U) \in U /\ f[Elem(U)] \in Int /\ h[U] = f[Elem(U)] + h[U \ {Elem(U)}]
        BY <1>2, <3>2
      <4>2. h[U \ {Elem(U)}] \in Int
        BY <2>1, <2>2, <4>1
      <4> QED BY <2>1, <4>1, <4>2
    <3> QED BY <3>1, <3>2
  <2>3. T \in D
    BY <2>2, SetLadder
  <2> QED BY <2>1, <2>3
<1>4. ASSUME NEW T \in SUBSET S, NEW x \in T PROVE h[T] = f[x] + h[T \ {x}]
  <2>1. PICK D : D = {U \in SUBSET S : \A y \in U : h[U] = f[y] + h[U \ {y}]}
    OBVIOUS
  <2>2. ASSUME NEW U \in SUBSET S, \A y \in U : U \ {y} \in D, NEW y \in U
        PROVE  h[U] = f[y] + h[U \ {y}]
    <3>1. PICK a \in U : f[a] \in Int /\ h[U] = f[a] + h[U \ {a}]
      BY <1>2
    <3>2. CASE y = a
      BY <3>1, <3>2
    <3>3. CASE y # a
      <4> DEFINE R == (U \ {a}) \ {y}
      <4>1. R = (U \ {y}) \ {a} /\ y \in U \ {a} /\ a \in U \ {y}
        BY <3>3
      <4>2. h[U \ {a}] = f[y] + h[R] /\ h[U \ {y}] = f[a] + h[R]
        BY <2>1, <2>2, <4>1
      <4>3. h[R] \in Int /\ f[y] \in Int
        BY <1>3
      <4> QED BY <3>1, <4>2, <4>3
    <3> QED BY <3>2, <3>3
  <2>3. \A U \in SUBSET S : (\A y \in U : U \ {y} \in D) => U \in D
    BY <2>1, <2>2
  <2>4. T \in D
    BY <2>3, SetLadder
  <2> QED BY <2>1, <2>4
<1>5. h \in [SUBSET S -> Int]
  BY <1>1, <1>3
<1> QED BY <1>1, <1>4, <1>5 DEF SumFor

LEMMA TotalExists ==
  ASSUME NEW S, IsFiniteSet(S), NEW f \in [S -> Int]
  PROVE  \E h : SumFor(h, f, S) /\ Total(f) = h[S]
<1>1. \E h : SumFor(h, f, S)
  BY SumSolution, SumOrder
<1>2. DOMAIN f = S
  OBVIOUS
<1> QED BY <1>1, <1>2 DEF Total

(* Two sums agree on the sets on which the functions agree.                *)
LEMMA SumsAgree ==
  ASSUME NEW S, NEW R, IsFiniteSet(R), R \subseteq S, NEW f, NEW g, \A x \in R : f[x] = g[x],
         NEW h, SumFor(h, f, S), NEW k, SumFor(k, g, R)
  PROVE  h[R] = k[R]
<1>1. PICK D : D = {T \in SUBSET R : h[T] = k[T]}
  OBVIOUS
<1>2. ASSUME NEW T \in SUBSET R, \A x \in T : T \ {x} \in D PROVE T \in D
  <2>1. CASE T = {}
    BY <1>1, <2>1 DEF SumFor
  <2>2. CASE T # {}
    <3>1. PICK x \in T : TRUE
      BY <2>2
    <3>2. h[T] = f[x] + h[T \ {x}] /\ k[T] = g[x] + k[T \ {x}]
      BY <3>1 DEF SumFor
    <3>3. h[T \ {x}] = k[T \ {x}] /\ f[x] = g[x]
      BY <1>1, <1>2, <3>1
    <3> QED BY <1>1, <3>2, <3>3
  <2> QED BY <2>1, <2>2
<1>3. R \in D
  BY <1>2, SetLadder
<1> QED BY <1>1, <1>3

(* One element can be taken out of a total.                                *)
LEMMA TotalSplit ==
  ASSUME NEW S, IsFiniteSet(S), NEW f \in [S -> Int], NEW x \in S
  PROVE  /\ Total([y \in S \ {x} |-> f[y]]) \in Int
         /\ Total(f) = f[x] + Total([y \in S \ {x} |-> f[y]])
<1>1. PICK R : R = S \ {x}
  OBVIOUS
<1>2. PICK g : g = [y \in R |-> f[y]]
  OBVIOUS
<1>3. IsFiniteSet(R) /\ g \in [R -> Int] /\ R \subseteq S /\ \A y \in R : f[y] = g[y]
  BY <1>1, <1>2, FS_Subset
<1>4. PICK h : SumFor(h, f, S) /\ Total(f) = h[S]
  BY TotalExists
<1>5. PICK k : SumFor(k, g, R) /\ Total(g) = k[R]
  BY <1>3, TotalExists
<1>6. h[R] = k[R]
  BY <1>3, <1>4, <1>5, SumsAgree
<1>7. h[S] = f[x] + h[R] /\ h[R] \in Int
  BY <1>1, <1>3, <1>4 DEF SumFor
<1> QED BY <1>1, <1>2, <1>4, <1>5, <1>6, <1>7

LEMMA TotalEmpty ==
  ASSUME NEW f, DOMAIN f = {}, f \in [{} -> Int]
  PROVE  Total(f) = 0
<1>1. IsFiniteSet({})
  BY FS_EmptySet
<1>2. PICK h : SumFor(h, f, {}) /\ Total(f) = h[{}]
  BY <1>1, TotalExists
<1> QED BY <1>2 DEF SumFor

LEMMA TotalZero ==
  ASSUME NEW S, IsFiniteSet(S), NEW f \in [S -> Int], \A x \in S : f[x] = 0
  PROVE  Total(f) = 0
<1>1. PICK h : SumFor(h, f, S) /\ Total(f) = h[S]
  BY TotalExists
<1>2. PICK D : D = {T \in SUBSET S : h[T] = 0}
  OBVIOUS
<1>3. ASSUME NEW T \in SUBSET S, \A x \in T : T \ {x} \in D PROVE T \in D
  <2>1. CASE T = {}
    BY <1>1, <1>2, <2>1 DEF SumFor
  <2>2. CASE T # {}
    <3>1. PICK x \in T : TRUE
      BY <2>2
    <3>2. h[T] = f[x] + h[T \ {x}] /\ h[T \ {x}] = 0 /\ f[x] = 0
      BY <1>1, <1>2, <1>3, <3>1 DEF SumFor
    <3> QED BY <1>2, <3>2
  <2> QED BY <2>1, <2>2
<1>4. S \in D
  BY <1>3, SetLadder
<1> QED BY <1>1, <1>2, <1>4

-----------------------------------------------------------------------------
(* The sums of the ledger as totals.                                       *)

Amounts(locks) == [l \in locks |-> l.amount]

LEMMA BalanceTotal ==
  ASSUME NEW s, s.balance \in [Addr -> Int]
  PROVE  /\ MapThenSumSet(LAMBDA a : s.balance[a], Addr) = Total(s.balance)
         /\ Total(s.balance) \in Int
<1> DEFINE Eq(h) == h = [T \in SUBSET Addr |->
              IF T = {} THEN 0
              ELSE s.balance[CHOOSE x \in T : TRUE] + h[T \ {CHOOSE x \in T : TRUE}]]
<1>1. IsFiniteSet(Addr)
  BY LedgerConstants
<1>2. \E h : Eq(h)
  <2>1. PICK h : SumEq(h, s.balance, Addr)
    BY <1>1, SumSolution
  <2> QED BY <2>1 DEF SumEq, Elem
<1>3. PICK h : Eq(h) /\ MapThenSumSet(LAMBDA a : s.balance[a], Addr) = h[Addr]
  <2> DEFINE h == CHOOSE g : Eq(g)
  <2>1. Eq(h)
    BY <1>2
  <2>2. MapThenSumSet(LAMBDA a : s.balance[a], Addr) = h[Addr]
    BY DEF MapThenSumSet, MapThenFoldSet
  <2> QED BY <2>1, <2>2
<1>4. SumEq(h, s.balance, Addr)
  BY <1>3 DEF SumEq, Elem
<1>5. SumFor(h, s.balance, Addr)
  BY <1>1, <1>4, SumOrder
<1>6. PICK k : SumFor(k, s.balance, Addr) /\ Total(s.balance) = k[Addr]
  BY <1>1, TotalExists
<1>7. h[Addr] = k[Addr]
  BY <1>1, <1>5, <1>6, SumsAgree
<1>8. k[Addr] \in Int
  BY <1>6 DEF SumFor
<1> QED BY <1>3, <1>6, <1>7, <1>8

LEMMA LockTotal ==
  ASSUME NEW locks, IsFiniteSet(locks), \A l \in locks : l.amount \in Int
  PROVE  /\ MapThenSumSet(LAMBDA l : l.amount, locks) = Total(Amounts(locks))
         /\ Total(Amounts(locks)) \in Int
<1> DEFINE Eq(h) == h = [T \in SUBSET locks |->
              IF T = {} THEN 0
              ELSE (CHOOSE x \in T : TRUE).amount + h[T \ {CHOOSE x \in T : TRUE}]]
<1>1. PICK f : f = Amounts(locks)
  OBVIOUS
<1>2. f \in [locks -> Int] /\ \A l \in locks : f[l] = l.amount
  BY <1>1 DEF Amounts
<1>3. \A h : Eq(h) <=> SumEq(h, f, locks)
  <2>1. \A T \in SUBSET locks : T # {} => f[Elem(T)] = (CHOOSE x \in T : TRUE).amount
    <3> SUFFICES ASSUME NEW T \in SUBSET locks, T # {}
                 PROVE  f[Elem(T)] = (CHOOSE x \in T : TRUE).amount
      OBVIOUS
    <3>1. Elem(T) \in T
      BY DEF Elem
    <3>2. f[Elem(T)] = Elem(T).amount
      BY <1>2, <3>1
    <3> QED BY <3>2 DEF Elem
  <2>2. \A T : Elem(T) = CHOOSE x \in T : TRUE
    BY DEF Elem
  <2>3. ASSUME NEW h, NEW T \in SUBSET locks
        PROVE  (IF T = {} THEN 0
                ELSE (CHOOSE x \in T : TRUE).amount + h[T \ {CHOOSE x \in T : TRUE}])
               = (IF T = {} THEN 0 ELSE f[Elem(T)] + h[T \ {Elem(T)}])
    <3>1. CASE T = {}
      BY <3>1
    <3>2. CASE T # {}
      <4>1. f[Elem(T)] = (CHOOSE x \in T : TRUE).amount
        BY <2>1, <3>2
      <4> QED BY <2>2, <3>2, <4>1, Zenon
    <3> QED BY <3>1, <3>2
  <2>4. ASSUME NEW h
        PROVE  [T \in SUBSET locks |-> IF T = {} THEN 0
                  ELSE (CHOOSE x \in T : TRUE).amount + h[T \ {CHOOSE x \in T : TRUE}]]
               = [T \in SUBSET locks |-> IF T = {} THEN 0 ELSE f[Elem(T)] + h[T \ {Elem(T)}]]
    BY <2>3, Zenon
  <2> QED BY <2>4, Zenon DEF SumEq
<1>4. \E h : Eq(h)
  <2>1. PICK h : SumEq(h, f, locks)
    BY <1>2, SumSolution
  <2> HIDE DEF Eq
  <2> QED BY <1>3, <2>1
<1>5. PICK h : Eq(h) /\ MapThenSumSet(LAMBDA l : l.amount, locks) = h[locks]
  <2> DEFINE h == CHOOSE g : Eq(g)
  <2>1. Eq(h)
    BY <1>4
  <2>2. MapThenSumSet(LAMBDA l : l.amount, locks) = h[locks]
    BY DEF MapThenSumSet, MapThenFoldSet
  <2> QED BY <2>1, <2>2
<1>6. SumFor(h, f, locks)
  BY <1>2, <1>3, <1>5, SumOrder
<1>7. PICK k : SumFor(k, f, locks) /\ Total(f) = k[locks]
  BY <1>2, TotalExists
<1>8. h[locks] = k[locks]
  BY <1>6, <1>7, SumsAgree
<1>9. k[locks] \in Int
  BY <1>7 DEF SumFor
<1> QED BY <1>1, <1>5, <1>7, <1>8, <1>9

Rewards(n) == MapThenSumSet(BlockReward, 1..n)

LEMMA RewardTotal ==
  ASSUME NEW n \in Nat, \A k \in 1..n : BlockReward(k) \in Int
  PROVE  /\ Rewards(n) = Total([k \in 1..n |-> BlockReward(k)])
         /\ Rewards(n) \in Int
<1> DEFINE Eq(h) == h = [T \in SUBSET (1..n) |->
              IF T = {} THEN 0
              ELSE BlockReward(CHOOSE x \in T : TRUE) + h[T \ {CHOOSE x \in T : TRUE}]]
<1>0. PICK S : S = 1..n
  OBVIOUS
<1>1. PICK f : f = [k \in S |-> BlockReward(k)]
  OBVIOUS
<1>2. f \in [S -> Int] /\ (\A k \in S : f[k] = BlockReward(k)) /\ IsFiniteSet(S)
  BY <1>0, <1>1, Beginnings
<1>3. \A h : Eq(h) <=> SumEq(h, f, S)
  <2>1. \A T \in SUBSET S : T # {} => f[Elem(T)] = BlockReward(CHOOSE x \in T : TRUE)
    <3> SUFFICES ASSUME NEW T \in SUBSET S, T # {}
                 PROVE  f[Elem(T)] = BlockReward(CHOOSE x \in T : TRUE)
      OBVIOUS
    <3>1. Elem(T) \in T
      BY DEF Elem
    <3>2. f[Elem(T)] = BlockReward(Elem(T))
      BY <1>2, <3>1
    <3> QED BY <3>2 DEF Elem
  <2>2. \A T : Elem(T) = CHOOSE x \in T : TRUE
    BY DEF Elem
  <2>3. ASSUME NEW h, NEW T \in SUBSET S
        PROVE  (IF T = {} THEN 0
                ELSE BlockReward(CHOOSE x \in T : TRUE) + h[T \ {CHOOSE x \in T : TRUE}])
               = (IF T = {} THEN 0 ELSE f[Elem(T)] + h[T \ {Elem(T)}])
    <3>1. CASE T = {}
      BY <3>1
    <3>2. CASE T # {}
      <4>1. f[Elem(T)] = BlockReward(CHOOSE x \in T : TRUE)
        BY <2>1, <3>2
      <4> QED BY <2>2, <3>2, <4>1, Zenon
    <3> QED BY <3>1, <3>2
  <2>4. ASSUME NEW h
        PROVE  [T \in SUBSET S |-> IF T = {} THEN 0
                  ELSE BlockReward(CHOOSE x \in T : TRUE) + h[T \ {CHOOSE x \in T : TRUE}]]
               = [T \in SUBSET S |-> IF T = {} THEN 0 ELSE f[Elem(T)] + h[T \ {Elem(T)}]]
    BY <2>3, Zenon
  <2> QED BY <1>0, <2>4, Zenon DEF SumEq
<1>4. \E h : Eq(h)
  <2>1. PICK h : SumEq(h, f, S)
    BY <1>2, SumSolution
  <2> HIDE DEF Eq
  <2> QED BY <1>3, <2>1
<1>5. PICK h : Eq(h) /\ Rewards(n) = h[1..n]
  <2> DEFINE h == CHOOSE g : Eq(g)
  <2>1. Eq(h)
    BY <1>4
  <2>2. Rewards(n) = h[1..n]
    BY DEF Rewards, MapThenSumSet, MapThenFoldSet
  <2> QED BY <2>1, <2>2
<1>6. SumFor(h, f, S)
  BY <1>2, <1>3, <1>5, SumOrder
<1>7. PICK k : SumFor(k, f, S) /\ Total(f) = k[S]
  BY <1>2, TotalExists
<1>8. h[S] = k[S]
  BY <1>2, <1>6, <1>7, SumsAgree
<1>9. k[S] \in Int
  BY <1>7 DEF SumFor
<1> QED BY <1>0, <1>1, <1>5, <1>7, <1>8, <1>9

-----------------------------------------------------------------------------
(* Rewards.                                                                *)

Shifted(n) ==
  FoldLeft(LAMBDA reward, i : reward \div 2, InitialReward, [i \in 1..n |-> i])

LEMMA ShiftedNat ==
  ASSUME NEW n \in Nat
  PROVE  Shifted(n) \in Nat
<1> DEFINE Eq(h) == h = [T \in SUBSET DOMAIN [i \in 1..n |-> i] |->
              IF T = {} THEN InitialReward ELSE h[T \ {Max(T)}] \div 2]
<1>1. DOMAIN [i \in 1..n |-> i] = 1..n /\ InitialReward \in Nat
  BY LedgerConstants
<1>2. PICK G : G = [p \in (1..n) \X Nat |-> p[2] \div 2]
  OBVIOUS
<1>3. G \in [(1..n) \X Nat -> Nat]
  BY <1>2
<1>4. PICK h \in [SUBSET (1..n) -> Nat] : FoldEq(h, n, InitialReward, G)
  BY <1>1, <1>3, FoldSolution
<1>5. ASSUME NEW T \in SUBSET (1..n), T # {}
      PROVE  G[<<Max(T), h[T \ {Max(T)}]>>] = h[T \ {Max(T)}] \div 2
  BY <1>2, <1>5, StepArgument
<1>6. Eq(h)
  BY <1>1, <1>4, <1>5 DEF FoldEq
<1>7. PICK g : Eq(g) /\ Shifted(n) = g[DOMAIN [i \in 1..n |-> i]]
  <2> DEFINE g == CHOOSE f : Eq(f)
  <2>1. Eq(g)
    BY <1>6
  <2>2. Shifted(n) = g[DOMAIN [i \in 1..n |-> i]]
    BY DEF Shifted, FoldLeft, MapThenFoldSet
  <2> QED BY <2>1, <2>2
<1>8. g = [T \in SUBSET (1..n) |-> IF T = {} THEN InitialReward ELSE g[T \ {Max(T)}] \div 2]
  BY <1>1, <1>7
<1>9. PICK D : D = {k \in 0..n : g[1..k] \in Nat}
  OBVIOUS
<1>10. 0 \in D
  <2>1. 1..0 = {} /\ g[{}] = InitialReward
    BY <1>8
  <2> QED BY <1>1, <1>9, <2>1
<1>11. ASSUME NEW k \in 0..(n - 1), k \in D PROVE k + 1 \in D
  <2>1. k + 1 \in 1..n /\ (k + 1) - 1 = k
    OBVIOUS
  <2>2. /\ 1..(k + 1) \in SUBSET (1..n) /\ 1..(k + 1) # {}
        /\ (1..(k + 1)) \ {Max(1..(k + 1))} = 1..k
    BY <2>1, Beginnings
  <2>3. g[1..(k + 1)] = g[1..k] \div 2
    BY <1>8, <2>2
  <2> QED BY <1>9, <1>11, <2>1, <2>3
<1>12. n \in D
  <2>1. \A k \in 0..n : k \in D
    BY <1>10, <1>11, Ladder
  <2> QED BY <2>1
<1> QED BY <1>1, <1>7, <1>9, <1>12

LEMMA RewardNat ==
  ASSUME NEW height \in Nat
  PROVE  BlockReward(height) \in Nat
<1> DEFINE halvings == height \div HalvingInterval
<1>1. halvings \in Nat
  BY LedgerConstants, SMTT(30)
<1>2. BlockReward(height) = IF halvings >= 64 THEN 0 ELSE Shifted(halvings)
  BY DEF BlockReward, Shifted
<1> HIDE DEF halvings
<1> QED BY <1>1, <1>2, ShiftedNat

LEMMA RewardsGrow ==
  ASSUME NEW n \in Nat
  PROVE  /\ Rewards(0) = 0 /\ Rewards(n) \in Int
         /\ Rewards(n + 1) = Rewards(n) + BlockReward(n + 1)
<1>1. \A k \in Nat : BlockReward(k) \in Int
  BY RewardNat
<1>2. Rewards(0) = 0
  <2>1. PICK f : f = [k \in 1..0 |-> BlockReward(k)]
    OBVIOUS
  <2>2. DOMAIN f = {} /\ f \in [{} -> Int]
    BY <2>1
  <2>3. Total(f) = 0
    BY <2>2, TotalEmpty
  <2>4. 0 \in Nat /\ \A k \in 1..0 : BlockReward(k) \in Int
    BY <1>1
  <2>5. Rewards(0) = Total([k \in 1..0 |-> BlockReward(k)])
    BY <2>4, RewardTotal
  <2> QED BY <2>1, <2>3, <2>5
<1>3. PICK S : S = 1..(n + 1)
  OBVIOUS
<1>4. IsFiniteSet(S) /\ n + 1 \in S /\ S \ {n + 1} = 1..n
  <2>1. n + 1 \in S /\ S \ {n + 1} = 1..n
    BY <1>3
  <2>2. IsFiniteSet(S)
    BY <1>3, Beginnings
  <2> QED BY <2>1, <2>2
<1>5. PICK f : f = [k \in S |-> BlockReward(k)]
  OBVIOUS
<1>6. f \in [S -> Int] /\ f[n + 1] = BlockReward(n + 1)
  BY <1>1, <1>3, <1>4, <1>5
<1>7. [k \in S \ {n + 1} |-> f[k]] = [k \in 1..n |-> BlockReward(k)]
  BY <1>3, <1>4, <1>5
<1>8. Total(f) = f[n + 1] + Total([k \in S \ {n + 1} |-> f[k]])
  BY <1>4, <1>6, TotalSplit
<1>9. Rewards(n) = Total([k \in 1..n |-> BlockReward(k)]) /\ Rewards(n) \in Int
  BY <1>1, RewardTotal
<1>10. Rewards(n + 1) = Total(f)
  BY <1>1, <1>3, <1>5, RewardTotal
<1>11. BlockReward(n + 1) \in Int
  BY <1>1
<1> QED BY <1>2, <1>6, <1>7, <1>8, <1>9, <1>10, <1>11

-----------------------------------------------------------------------------
(* States, and what a transaction does to one.                             *)

LockRecords == [id : {t.id : t \in Tx}, amount : Nat, script : Nat, created : Nat]
States == [balance : [Addr -> Int], nonce : [Addr -> Int], locks : SUBSET LockRecords]

(* The lock with this id was made by a Lock whose nonce is gone.           *)
Made(id, s) == \E u \in Tx : u.kind = "lock" /\ u.id = id /\ u.nonce < s.nonce[u.from]

(* No account is overdrawn, and a lock is known by its id.                 *)
GoodState(s) ==
  /\ s \in States /\ IsFiniteSet(s.locks)
  /\ \A a \in Addr : s.balance[a] \in Nat /\ s.nonce[a] \in Nat
  /\ \A l, m \in s.locks : l.id = m.id => l = m
  /\ \A l \in s.locks : Made(l.id, s)

(* The state shows that this transaction was applied, and it cannot be     *)
(* again: its nonce is gone, or its lock, which cannot come back.          *)
Spent(tx, s) ==
  IF Debits(tx) THEN tx.nonce < s.nonce[tx.from]
  ELSE (\A l \in s.locks : l.id # tx.lock) /\ Made(tx.lock, s)

(* What applying a transaction keeps: what was spent stays so.             *)
KeepsSpent(s, t) == \A u \in Tx : Spent(u, s) => Spent(u, t)

LEMMA TxFacts ==
  ASSUME NEW tx \in Tx
  PROVE  /\ tx.kind \in {"transfer", "lock", "redeem"}
         /\ tx.amount \in Nat /\ tx.fee \in Nat /\ tx.nonce \in Nat /\ tx.script \in Nat
         /\ Cost(tx) = tx.amount + tx.fee /\ Cost(tx) \in Nat
         /\ tx.kind # "redeem" => tx.from \in Addr
         /\ tx.kind # "lock" => tx.to \in Addr
<1>1. WellFormedTx(tx)
  BY MempoolAssumption
<1> QED BY <1>1 DEF WellFormedTx, Debits, Cost

LEMMA CreditTotal ==
  ASSUME NEW f \in [Addr -> Int], NEW a \in Addr, NEW v \in Int
  PROVE  /\ [f EXCEPT ![a] = @ + v] \in [Addr -> Int]
         /\ Total(f) \in Int /\ Total([f EXCEPT ![a] = @ + v]) = Total(f) + v
<1>1. PICK g : g = [f EXCEPT ![a] = @ + v]
  OBVIOUS
<1>2. g \in [Addr -> Int] /\ g[a] = f[a] + v /\ IsFiniteSet(Addr) /\ f[a] \in Int
  BY <1>1, LedgerConstants
<1>3. [y \in Addr \ {a} |-> g[y]] = [y \in Addr \ {a} |-> f[y]]
  BY <1>1
<1>4. Total(g) = g[a] + Total([y \in Addr \ {a} |-> g[y]])
  BY <1>2, TotalSplit, ZenonT(60)
<1>5. /\ Total(f) = f[a] + Total([y \in Addr \ {a} |-> f[y]])
      /\ Total([y \in Addr \ {a} |-> f[y]]) \in Int
  BY <1>2, TotalSplit, ZenonT(60)
<1> QED BY <1>1, <1>2, <1>3, <1>4, <1>5

LEMMA LockSplit ==
  ASSUME NEW locks, IsFiniteSet(locks), \A l \in locks : l.amount \in Int, NEW l \in locks
  PROVE  /\ Total(Amounts(locks \ {l})) \in Int
         /\ Total(Amounts(locks)) = l.amount + Total(Amounts(locks \ {l}))
<1>1. PICK f : f = Amounts(locks)
  OBVIOUS
<1>2. f \in [locks -> Int] /\ f[l] = l.amount
  BY <1>1 DEF Amounts
<1>3. [y \in locks \ {l} |-> f[y]] = Amounts(locks \ {l})
  BY <1>1 DEF Amounts
<1>4. /\ Total([y \in locks \ {l} |-> f[y]]) \in Int
      /\ Total(f) = f[l] + Total([y \in locks \ {l} |-> f[y]])
  BY <1>2, TotalSplit, ZenonT(60)
<1> QED BY <1>1, <1>2, <1>3, <1>4

LEMMA SupplyParts ==
  ASSUME NEW s \in States, IsFiniteSet(s.locks)
  PROVE  /\ Supply(s) = Total(s.balance) + Total(Amounts(s.locks))
         /\ Total(s.balance) \in Int /\ Total(Amounts(s.locks)) \in Int
<1>1. s.balance \in [Addr -> Int] /\ \A l \in s.locks : l.amount \in Int
  BY DEF States, LockRecords
<1>2. /\ MapThenSumSet(LAMBDA a : s.balance[a], Addr) = Total(s.balance)
      /\ Total(s.balance) \in Int
  BY <1>1, BalanceTotal
<1>3. PICK locks : locks = s.locks
  OBVIOUS
<1>4. /\ MapThenSumSet(LAMBDA l : l.amount, locks) = Total(Amounts(locks))
      /\ Total(Amounts(locks)) \in Int
  BY <1>1, <1>3, LockTotal
<1>5. Supply(s) = MapThenSumSet(LAMBDA a : s.balance[a], Addr)
                  + MapThenSumSet(LAMBDA l : l.amount, s.locks)
  BY DEF Supply
<1> QED BY <1>2, <1>3, <1>4, <1>5

-----------------------------------------------------------------------------
(* One transaction.                                                        *)

(* What holds of the state after it.                                       *)
TxStep(s, tx, t) ==
  /\ GoodState(t) /\ Supply(t) + tx.fee = Supply(s)
  /\ Spent(tx, t) /\ KeepsSpent(s, t)

(* Debiting costs the sender a nonce; nobody's nonce comes back.           *)
LEMMA DebitFacts ==
  ASSUME NEW s, GoodState(s), NEW tx \in Tx, Debits(tx), CanDebit(s, tx)
  PROVE  /\ Debited(s, tx) \in States /\ Debited(s, tx).locks = s.locks
         /\ \A a \in Addr : /\ Debited(s, tx).balance[a] \in Nat
                            /\ Debited(s, tx).nonce[a] \in Nat
                            /\ Debited(s, tx).nonce[a] >= s.nonce[a]
         /\ tx.nonce < Debited(s, tx).nonce[tx.from]
         /\ Total(Debited(s, tx).balance) = Total(s.balance) - Cost(tx)
<1>1. /\ tx.from \in Addr /\ Cost(tx) \in Nat /\ tx.nonce \in Nat
  BY TxFacts DEF Debits
<1>2. /\ s.balance \in [Addr -> Int] /\ s.nonce \in [Addr -> Int] /\ s.locks \in SUBSET LockRecords
      /\ s = [balance |-> s.balance, nonce |-> s.nonce, locks |-> s.locks]
      /\ \A a \in Addr : s.balance[a] \in Nat /\ s.nonce[a] \in Nat
  BY DEF GoodState, States
<1>3. s.balance[tx.from] >= Cost(tx) /\ s.nonce[tx.from] = tx.nonce
  BY DEF CanDebit
<1>4. PICK b : b = [s.balance EXCEPT ![tx.from] = @ - Cost(tx)]
  OBVIOUS
<1>5. PICK n : n = [s.nonce EXCEPT ![tx.from] = @ + 1]
  OBVIOUS
<1>6. /\ Debited(s, tx).balance = b /\ Debited(s, tx).nonce = n
      /\ Debited(s, tx).locks = s.locks /\ Debited(s, tx) \in States
  <2>1. PICK r : r = [balance |-> s.balance, nonce |-> s.nonce, locks |-> s.locks]
    OBVIOUS
  <2>2. PICK q : q = [r EXCEPT !.balance[tx.from] = @ - Cost(tx), !.nonce[tx.from] = @ + 1]
    OBVIOUS
  <2>3. s = r /\ q = Debited(s, tx)
    BY <1>2, <2>1, <2>2 DEF Debited
  <2>4. q.balance = b /\ q.nonce = n /\ q.locks = s.locks
    BY <1>4, <1>5, <2>1, <2>2
  <2>5. q \in States
    <3>1. r \in States /\ s.balance[tx.from] - Cost(tx) \in Int /\ s.nonce[tx.from] + 1 \in Int
      BY <1>1, <1>2, <2>1 DEF States
    <3>2. [r EXCEPT !.balance[tx.from] = @ - Cost(tx)] \in States
      BY <2>1, <3>1 DEF States
    <3>3. q = [[r EXCEPT !.balance[tx.from] = @ - Cost(tx)] EXCEPT !.nonce[tx.from] = @ + 1]
      BY <2>1, <2>2
    <3>4. [r EXCEPT !.balance[tx.from] = @ - Cost(tx)].nonce[tx.from] + 1 \in Int
      BY <2>1, <3>1
    <3> QED BY <3>2, <3>3, <3>4 DEF States
  <2> QED BY <2>3, <2>4, <2>5
<1>7. b \in [Addr -> Int] /\ n \in [Addr -> Int]
  BY <1>1, <1>2, <1>4, <1>5
<1>8. \A a \in Addr : b[a] \in Nat /\ n[a] \in Nat /\ n[a] >= s.nonce[a]
  BY <1>1, <1>2, <1>3, <1>4, <1>5
<1>9. n[tx.from] = tx.nonce + 1
  BY <1>1, <1>2, <1>3, <1>5
<1>10. Total(b) = Total(s.balance) - Cost(tx)
  <2>1. PICK v \in Int : v = 0 - Cost(tx)
    BY <1>1
  <2>2. b = [s.balance EXCEPT ![tx.from] = @ + v]
    BY <1>1, <1>2, <1>4, <2>1
  <2>3. Total(s.balance) \in Int /\ Total(b) = Total(s.balance) + v
    BY <1>1, <1>2, <2>2, CreditTotal
  <2> QED BY <1>1, <2>1, <2>3
<1> QED BY <1>1, <1>2, <1>6, <1>7, <1>8, <1>9, <1>10 DEF States

LEMMA CreditFacts ==
  ASSUME NEW s \in States, NEW a \in Addr, NEW v \in Nat,
         \A c \in Addr : s.balance[c] \in Nat
  PROVE  /\ Credited(s, a, v) \in States
         /\ Credited(s, a, v).locks = s.locks /\ Credited(s, a, v).nonce = s.nonce
         /\ \A c \in Addr : Credited(s, a, v).balance[c] \in Nat
         /\ Total(Credited(s, a, v).balance) = Total(s.balance) + v
<1>1. /\ s.balance \in [Addr -> Int]
      /\ s = [balance |-> s.balance, nonce |-> s.nonce, locks |-> s.locks]
  BY DEF States
<1>2. PICK b : b = [s.balance EXCEPT ![a] = @ + v]
  OBVIOUS
<1>3. Credited(s, a, v) = [balance |-> b, nonce |-> s.nonce, locks |-> s.locks]
  BY <1>1, <1>2 DEF Credited
<1>4. b \in [Addr -> Int] /\ Total(b) = Total(s.balance) + v
  BY <1>1, <1>2, CreditTotal
<1>5. \A c \in Addr : b[c] \in Nat
  BY <1>1, <1>2
<1> QED BY <1>3, <1>4, <1>5 DEF States

(* Nonces that grow keep what they spent.                                  *)
LEMMA NoncesKeep ==
  ASSUME NEW s, GoodState(s), NEW t \in States,
         \A a \in Addr : t.nonce[a] >= s.nonce[a]
  PROVE  /\ \A id : Made(id, s) => Made(id, t)
         /\ \A u \in Tx : Debits(u) /\ Spent(u, s) => Spent(u, t)
<1>1. \A a \in Addr : s.nonce[a] \in Int /\ t.nonce[a] \in Int
  BY DEF GoodState, States
<1>2. ASSUME NEW u \in Tx, u.kind # "redeem", u.nonce < s.nonce[u.from]
      PROVE  u.nonce < t.nonce[u.from]
  <2>1. u.from \in Addr /\ u.nonce \in Nat
    BY <1>2, TxFacts
  <2> QED BY <1>1, <1>2, <2>1
<1>3. ASSUME NEW id, Made(id, s) PROVE Made(id, t)
  BY <1>2, <1>3 DEF Made
<1>4. ASSUME NEW u \in Tx, Debits(u), Spent(u, s) PROVE Spent(u, t)
  BY <1>2, <1>4 DEF Spent, Debits
<1> QED BY <1>3, <1>4

LEMMA TransferStep ==
  ASSUME NEW s, GoodState(s), NEW tx \in Tx, tx.kind = "transfer", CanDebit(s, tx)
  PROVE  TxStep(s, tx, Credited(Debited(s, tx), tx.to, tx.amount))
<1>1. PICK d : d = Debited(s, tx)
  OBVIOUS
<1>2. PICK t : t = Credited(d, tx.to, tx.amount)
  OBVIOUS
<1>3. /\ Debits(tx) /\ tx.to \in Addr /\ tx.amount \in Nat /\ tx.fee \in Nat
      /\ Cost(tx) = tx.amount + tx.fee
  BY TxFacts DEF Debits
<1>4. /\ d \in States /\ d.locks = s.locks
      /\ \A a \in Addr : d.balance[a] \in Nat /\ d.nonce[a] \in Nat /\ d.nonce[a] >= s.nonce[a]
      /\ tx.nonce < d.nonce[tx.from]
      /\ Total(d.balance) = Total(s.balance) - Cost(tx)
  BY <1>1, <1>3, DebitFacts
<1>5. /\ t \in States /\ t.locks = s.locks /\ t.nonce = d.nonce
      /\ \A a \in Addr : t.balance[a] \in Nat
      /\ Total(t.balance) = Total(d.balance) + tx.amount
  BY <1>2, <1>3, <1>4, CreditFacts
<1>6. /\ \A id : Made(id, s) => Made(id, t)
      /\ \A u \in Tx : Debits(u) /\ Spent(u, s) => Spent(u, t)
  BY <1>4, <1>5, NoncesKeep
<1>7. GoodState(t)
  BY <1>4, <1>5, <1>6 DEF GoodState
<1>8. Supply(t) + tx.fee = Supply(s)
  <2>1. s \in States /\ IsFiniteSet(s.locks) /\ IsFiniteSet(t.locks)
    BY <1>5 DEF GoodState
  <2>2. /\ Supply(s) = Total(s.balance) + Total(Amounts(s.locks))
        /\ Total(s.balance) \in Int /\ Total(Amounts(s.locks)) \in Int
    BY <2>1, SupplyParts
  <2>3. Supply(t) = Total(t.balance) + Total(Amounts(t.locks))
    BY <1>5, <2>1, SupplyParts
  <2> QED BY <1>3, <1>4, <1>5, <2>2, <2>3
<1>9. Spent(tx, t)
  BY <1>3, <1>4, <1>5 DEF Spent
<1>10. KeepsSpent(s, t)
  BY <1>5, <1>6 DEF KeepsSpent, Spent
<1> QED BY <1>1, <1>2, <1>7, <1>8, <1>9, <1>10 DEF TxStep

LEMMA LockStep ==
  ASSUME NEW s, GoodState(s), NEW tx \in Tx, tx.kind = "lock", CanDebit(s, tx),
         \A l \in s.locks : l.id # tx.id, NEW height \in Nat
  PROVE  TxStep(s, tx, Locked(s, tx, height))
<1>1. PICK d : d = Debited(s, tx)
  OBVIOUS
<1>2. PICK l : l = [id |-> tx.id, amount |-> tx.amount, script |-> tx.script, created |-> height]
  OBVIOUS
<1>3. PICK t : t = Locked(s, tx, height)
  OBVIOUS
<1>4. /\ Debits(tx) /\ tx.amount \in Nat /\ tx.fee \in Nat /\ tx.script \in Nat
      /\ Cost(tx) = tx.amount + tx.fee
  BY TxFacts DEF Debits
<1>5. /\ d \in States /\ d.locks = s.locks
      /\ \A a \in Addr : d.balance[a] \in Nat /\ d.nonce[a] \in Nat /\ d.nonce[a] >= s.nonce[a]
      /\ tx.nonce < d.nonce[tx.from]
      /\ Total(d.balance) = Total(s.balance) - Cost(tx)
  BY <1>1, <1>4, DebitFacts
<1>6. /\ l \in LockRecords /\ l.id = tx.id /\ l.amount = tx.amount /\ l \notin s.locks
      /\ \A m \in s.locks : m.id # l.id
  BY <1>2, <1>4 DEF LockRecords
<1>7. /\ t = [balance |-> d.balance, nonce |-> d.nonce, locks |-> s.locks \cup {l}]
      /\ t \in States
  <2>1. t = [d EXCEPT !.locks = @ \cup {l}]
    BY <1>1, <1>2, <1>3 DEF Locked
  <2>2. /\ d = [balance |-> d.balance, nonce |-> d.nonce, locks |-> d.locks]
        /\ d.balance \in [Addr -> Int] /\ d.nonce \in [Addr -> Int]
        /\ d.locks \in SUBSET LockRecords
    BY <1>5 DEF States
  <2>3. t = [balance |-> d.balance, nonce |-> d.nonce, locks |-> s.locks \cup {l}]
    BY <1>5, <2>1, <2>2
  <2>4. s.locks \cup {l} \in SUBSET LockRecords
    BY <1>5, <1>6, <2>2
  <2> QED BY <2>2, <2>3, <2>4 DEF States
<1>8. /\ \A id : Made(id, s) => Made(id, t)
      /\ \A u \in Tx : Debits(u) /\ Spent(u, s) => Spent(u, t)
  BY <1>5, <1>7, NoncesKeep
<1>9. Made(tx.id, t)
  BY <1>5, <1>7 DEF Made
<1>10. IsFiniteSet(s.locks) /\ IsFiniteSet(t.locks)
  BY <1>7, FS_AddElement DEF GoodState
<1>11. GoodState(t)
  <2>1. \A a \in Addr : t.balance[a] \in Nat /\ t.nonce[a] \in Nat
    BY <1>5, <1>7
  <2>2. \A m, k \in t.locks : m.id = k.id => m = k
    BY <1>6, <1>7 DEF GoodState
  <2>3. \A m \in t.locks : Made(m.id, t)
    BY <1>6, <1>7, <1>8, <1>9 DEF GoodState
  <2> QED BY <1>7, <1>10, <2>1, <2>2, <2>3 DEF GoodState
<1>12. Supply(t) + tx.fee = Supply(s)
  <2>1. s \in States
    BY DEF GoodState
  <2>2. /\ Supply(s) = Total(s.balance) + Total(Amounts(s.locks))
        /\ Total(s.balance) \in Int /\ Total(Amounts(s.locks)) \in Int
    BY <1>10, <2>1, SupplyParts
  <2>3. Supply(t) = Total(t.balance) + Total(Amounts(t.locks))
    BY <1>7, <1>10, SupplyParts
  <2>4. PICK L : L = t.locks
    OBVIOUS
  <2>5. IsFiniteSet(L) /\ (\A m \in L : m.amount \in Int) /\ l \in L /\ L \ {l} = s.locks
    BY <1>6, <1>7, <1>10, <2>4 DEF States, LockRecords
  <2>6. Total(Amounts(L)) = l.amount + Total(Amounts(s.locks))
    BY <2>5, LockSplit
  <2> QED BY <1>4, <1>5, <1>6, <1>7, <2>2, <2>3, <2>4, <2>6
<1>13. Spent(tx, t)
  BY <1>4, <1>5, <1>7 DEF Spent
<1>14. KeepsSpent(s, t)
  <2>1. ASSUME NEW u \in Tx, Spent(u, s), ~ Debits(u) PROVE Spent(u, t)
    <3>1. (\A m \in s.locks : m.id # u.lock) /\ Made(u.lock, s)
      BY <2>1 DEF Spent
    <3>2. u.lock # tx.id
      <4>1. PICK v \in Tx : v.kind = "lock" /\ v.id = u.lock /\ v.nonce < s.nonce[v.from]
        BY <3>1 DEF Made
      <4>2. SUFFICES ASSUME u.lock = tx.id PROVE FALSE
        OBVIOUS
      <4>3. v = tx
        BY <4>1, <4>2, MempoolAssumption
      <4>4. s.nonce[tx.from] = tx.nonce /\ tx.nonce \in Nat
        BY TxFacts DEF CanDebit
      <4> QED BY <4>1, <4>3, <4>4
    <3> QED BY <1>6, <1>7, <1>8, <2>1, <3>1, <3>2 DEF Spent
  <2> QED BY <1>8, <2>1 DEF KeepsSpent
<1> QED BY <1>3, <1>11, <1>12, <1>13, <1>14 DEF TxStep

LEMMA RedeemStep ==
  ASSUME NEW s, GoodState(s), NEW tx \in Tx, tx.kind = "redeem",
         \E l \in s.locks : Opens(tx, l)
  PROVE  TxStep(s, tx, Redeemed(s, tx))
<1>1. PICK l \in s.locks : l.id = tx.lock /\ l.amount = tx.amount /\ tx.fee <= l.amount
  BY DEF Opens
<1>2. /\ ~ Debits(tx) /\ tx.to \in Addr /\ tx.amount \in Nat /\ tx.fee \in Nat
  BY TxFacts DEF Debits
<1>3. PICK v \in Nat : v = tx.amount - tx.fee
  BY <1>1, <1>2
<1>4. /\ s.balance \in [Addr -> Int] /\ s.nonce \in [Addr -> Int] /\ s.locks \in SUBSET LockRecords
      /\ s = [balance |-> s.balance, nonce |-> s.nonce, locks |-> s.locks]
      /\ \A a \in Addr : s.balance[a] \in Nat /\ s.nonce[a] \in Nat
  BY DEF GoodState, States
<1>5. {m \in s.locks : m.id # tx.lock} = s.locks \ {l}
  BY <1>1 DEF GoodState
<1>6. PICK d : d = [balance |-> s.balance, nonce |-> s.nonce, locks |-> s.locks \ {l}]
  OBVIOUS
<1>7. d \in States /\ d.balance = s.balance /\ d.nonce = s.nonce /\ d.locks = s.locks \ {l}
  BY <1>4, <1>6 DEF States
<1>8. PICK t : t = Credited(d, tx.to, v)
  OBVIOUS
<1>9. t = Redeemed(s, tx)
  BY <1>3, <1>4, <1>5, <1>6, <1>8 DEF Redeemed
<1>10. /\ t \in States /\ t.locks = s.locks \ {l} /\ t.nonce = s.nonce
       /\ \A a \in Addr : t.balance[a] \in Nat
       /\ Total(t.balance) = Total(s.balance) + v
  BY <1>2, <1>4, <1>7, <1>8, CreditFacts
<1>11. /\ \A id : Made(id, s) => Made(id, t)
       /\ \A u \in Tx : Debits(u) /\ Spent(u, s) => Spent(u, t)
  BY <1>4, <1>10, NoncesKeep
<1>12. IsFiniteSet(s.locks) /\ IsFiniteSet(t.locks)
  BY <1>10, FS_RemoveElement DEF GoodState
<1>13. GoodState(t)
  BY <1>4, <1>10, <1>11, <1>12 DEF GoodState
<1>14. Supply(t) + tx.fee = Supply(s)
  <2>1. s \in States /\ \A m \in s.locks : m.amount \in Int
    BY <1>4 DEF GoodState, LockRecords
  <2>2. /\ Supply(s) = Total(s.balance) + Total(Amounts(s.locks))
        /\ Total(s.balance) \in Int /\ Total(Amounts(s.locks)) \in Int
    BY <1>12, <2>1, SupplyParts
  <2>3. Supply(t) = Total(t.balance) + Total(Amounts(t.locks))
    BY <1>10, <1>12, SupplyParts
  <2>4. PICK L : L = s.locks
    OBVIOUS
  <2>5. Total(Amounts(L)) = l.amount + Total(Amounts(L \ {l})) /\ Total(Amounts(L \ {l})) \in Int
    BY <1>1, <1>12, <2>1, <2>4, LockSplit
  <2> QED BY <1>1, <1>2, <1>3, <1>10, <2>2, <2>3, <2>4, <2>5
<1>15. Spent(tx, t)
  <2>1. Made(tx.lock, t)
    BY <1>1, <1>11 DEF GoodState
  <2>2. \A m \in t.locks : m.id # tx.lock
    BY <1>5, <1>10
  <2> QED BY <1>2, <2>1, <2>2 DEF Spent
<1>16. KeepsSpent(s, t)
  BY <1>10, <1>11 DEF KeepsSpent, Spent
<1> QED BY <1>9, <1>13, <1>14, <1>15, <1>16 DEF TxStep

(* applyTx moves coins, and makes or burns none.                           *)
LEMMA AppliedStep ==
  ASSUME NEW s, GoodState(s), NEW tx \in Tx, NEW height \in Nat, Applies(s, tx, height)
  PROVE  TxStep(s, tx, AfterTx(s, tx, height))
<1>1. tx.kind \in {"transfer", "lock", "redeem"}
  BY TxFacts
<1>2. CASE tx.kind = "transfer"
  <2>1. CanDebit(s, tx)
    BY <1>2 DEF Applies, Debits
  <2>2. AfterTx(s, tx, height) = Credited(Debited(s, tx), tx.to, tx.amount)
    BY <1>2 DEF AfterTx
  <2> QED BY <1>2, <2>1, <2>2, TransferStep
<1>3. CASE tx.kind = "lock"
  <2>1. CanDebit(s, tx) /\ \A l \in s.locks : l.id # tx.id
    BY <1>3 DEF Applies, Debits
  <2>2. AfterTx(s, tx, height) = Locked(s, tx, height)
    BY <1>3 DEF AfterTx
  <2> QED BY <1>3, <2>1, <2>2, LockStep
<1>4. CASE tx.kind = "redeem"
  <2>1. \E l \in s.locks : Opens(tx, l)
    BY <1>4 DEF Applies
  <2>2. AfterTx(s, tx, height) = Redeemed(s, tx)
    BY <1>4 DEF AfterTx
  <2> QED BY <1>4, <2>1, <2>2, RedeemStep
<1> QED BY <1>1, <1>2, <1>3, <1>4

-----------------------------------------------------------------------------
(* One block.                                                              *)

GoodStates == {s \in States : GoodState(s)}
Accumulators == [ok : BOOLEAN, state : GoodStates]

(* What is spent cannot be applied, nor what excludes it.                  *)
LEMMA SpentNotAgain ==
  ASSUME NEW s, GoodState(s), NEW tx \in Tx, NEW u \in Tx, Spent(u, s), SameSlot(tx, u)
  PROVE  /\ \A height : ~ Applies(s, tx, height)
         /\ ~ Admissible(tx, s)
<1>1. tx.nonce \in Nat /\ u.nonce \in Nat /\ (Debits(u) => u.from \in Addr)
  BY TxFacts DEF Debits
<1>2. CASE Debits(u)
  <2>1. Debits(tx) /\ tx.from = u.from /\ tx.nonce = u.nonce /\ u.nonce < s.nonce[u.from]
    BY <1>2 DEF SameSlot, Spent
  <2>2. s.nonce[u.from] \in Int
    BY <1>1, <1>2 DEF GoodState
  <2> QED BY <1>1, <2>1, <2>2 DEF Applies, CanDebit, Admissible
<1>3. CASE ~ Debits(u)
  <2>1. ~ Debits(tx) /\ tx.lock = u.lock /\ \A l \in s.locks : l.id # u.lock
    BY <1>3 DEF SameSlot, Spent
  <2> QED BY <2>1 DEF Applies, Admissible, Opens, Debits
<1> QED BY <1>2, <1>3

LEMMA ApplyTxTyped ==
  ASSUME NEW acc \in Accumulators, NEW tx \in Tx, NEW height \in Nat
  PROVE  /\ ApplyTx(acc, tx, height) \in Accumulators
         /\ ApplyTx(acc, tx, height).ok =>
              /\ acc.ok /\ Applies(acc.state, tx, height)
              /\ TxStep(acc.state, tx, ApplyTx(acc, tx, height).state)
<1>1. acc.ok \in BOOLEAN /\ acc.state \in States /\ GoodState(acc.state)
  BY DEF Accumulators, GoodStates
<1>2. CASE acc.ok /\ Applies(acc.state, tx, height)
  <2>1. PICK t : t = AfterTx(acc.state, tx, height)
    OBVIOUS
  <2>2. ApplyTx(acc, tx, height) = [ok |-> TRUE, state |-> t]
    BY <1>2, <2>1 DEF ApplyTx
  <2>3. TxStep(acc.state, tx, t)
    BY <1>1, <1>2, <2>1, AppliedStep
  <2>4. t \in GoodStates
    BY <2>3 DEF TxStep, GoodStates, GoodState
  <2> QED BY <1>2, <2>2, <2>3, <2>4 DEF Accumulators
<1>3. CASE ~ (acc.ok /\ Applies(acc.state, tx, height))
  <2>1. ApplyTx(acc, tx, height) = [acc EXCEPT !.ok = FALSE]
    BY <1>3 DEF ApplyTx
  <2> QED BY <2>1 DEF Accumulators
<1> QED BY <1>2, <1>3

ApplyRun(r, s, height, txs) ==
  /\ r \in [0..Len(txs) -> Accumulators] /\ r[0] = [ok |-> TRUE, state |-> s]
  /\ \A k \in 1..Len(txs) : r[k] = ApplyTx(r[k - 1], txs[k], height)

LEMMA ApplyFold ==
  ASSUME NEW s, GoodState(s), NEW height \in Nat, NEW txs \in Seq(Tx)
  PROVE  \E r : ApplyRun(r, s, height, txs) /\ ApplyTxs(s, height, txs) = r[Len(txs)]
<1> DEFINE n == Len(txs)
           b == [ok |-> TRUE, state |-> s]
           Eq(h) == h = [T \in SUBSET DOMAIN txs |->
                           IF T = {} THEN [ok |-> TRUE, state |-> s]
                           ELSE ApplyTx(h[T \ {Max(T)}], txs[Max(T)], height)]
<1>1. n \in Nat /\ DOMAIN txs = 1..n /\ \A k \in 1..n : txs[k] \in Tx
  OBVIOUS
<1>2. b \in Accumulators
  BY DEF Accumulators, GoodStates, GoodState
<1>3. PICK G : G = [p \in (1..n) \X Accumulators |-> ApplyTx(p[2], txs[p[1]], height)]
  OBVIOUS
<1>4. G \in [(1..n) \X Accumulators -> Accumulators]
  <2>1. \A p \in (1..n) \X Accumulators : ApplyTx(p[2], txs[p[1]], height) \in Accumulators
    BY <1>1, ApplyTxTyped
  <2> QED BY <1>3, <2>1
<1> HIDE DEF b
<1>5. PICK h \in [SUBSET (1..n) -> Accumulators] : FoldEq(h, n, b, G)
  BY <1>1, <1>2, <1>4, FoldSolution
<1>6. ASSUME NEW T \in SUBSET (1..n), T # {}
      PROVE  G[<<Max(T), h[T \ {Max(T)}]>>] = ApplyTx(h[T \ {Max(T)}], txs[Max(T)], height)
  BY <1>1, <1>3, <1>6, StepArgument
<1>7. Eq(h)
  BY <1>1, <1>5, <1>6 DEF FoldEq, b
<1>8. PICK g : Eq(g) /\ ApplyTxs(s, height, txs) = g[DOMAIN txs]
  <2> DEFINE g == CHOOSE f : Eq(f)
  <2>1. Eq(g)
    BY <1>7
  <2>2. ApplyTxs(s, height, txs) = g[DOMAIN txs]
    BY DEF ApplyTxs, FoldLeft, MapThenFoldSet
  <2> QED BY <2>1, <2>2
<1>9. PICK r : r = [k \in 0..n |-> g[1..k]]
  OBVIOUS
<1>10. r[0] = b
  <2>1. r[0] = g[{}]
    BY <1>1, <1>9
  <2> QED BY <1>8, <2>1 DEF b
<1>11. ASSUME NEW k \in 1..n PROVE r[k] = ApplyTx(r[k - 1], txs[k], height)
  <2>1. r[k] = g[1..k] /\ r[k - 1] = g[1..(k - 1)]
    BY <1>1, <1>9
  <2>2. /\ 1..k \in SUBSET (1..n) /\ 1..k # {}
        /\ Max(1..k) = k /\ (1..k) \ {k} = 1..(k - 1)
    BY <1>1, Beginnings
  <2>3. g[1..k] = ApplyTx(g[1..(k - 1)], txs[k], height)
    BY <1>1, <1>8, <2>2
  <2> QED BY <2>1, <2>3
<1>12. \A k \in 0..n : r[k] \in Accumulators
  <2>1. PICK D : D = {k \in 0..n : r[k] \in Accumulators}
    OBVIOUS
  <2>2. 0 \in D
    BY <1>1, <1>2, <1>10, <2>1
  <2>3. ASSUME NEW k \in 0..(n - 1), k \in D PROVE k + 1 \in D
    <3>1. k + 1 \in 1..n /\ (k + 1) - 1 = k /\ r[k] \in Accumulators
      BY <1>1, <2>1, <2>3
    <3>2. r[k + 1] = ApplyTx(r[k], txs[k + 1], height) /\ txs[k + 1] \in Tx
      BY <1>1, <1>11, <3>1
    <3>3. r[k + 1] \in Accumulators
      BY <3>1, <3>2, ApplyTxTyped
    <3> QED BY <2>1, <3>1, <3>3
  <2>4. \A k \in 0..n : k \in D
    BY <1>1, <2>2, <2>3, Ladder
  <2> QED BY <2>1, <2>4
<1>13. r \in [0..n -> Accumulators] /\ r[n] = ApplyTxs(s, height, txs)
  <2>1. r \in [0..n -> Accumulators]
    BY <1>9, <1>12
  <2>2. n \in 0..n /\ 1..n = DOMAIN txs
    BY <1>1
  <2> QED BY <1>8, <1>9, <2>1, <2>2
<1> QED BY <1>10, <1>11, <1>13 DEF ApplyRun, b

(* What holds of the state after a block: nothing is lost but the reward   *)
(* is new, and no two transactions of the block, nor one of them and one   *)
(* that was spent before, exclude one another.                             *)
BlockStep(s, height, txs, t) ==
  /\ GoodState(t) /\ Supply(t) = Supply(s) + BlockReward(height)
  /\ KeepsSpent(s, t)
  /\ \A i \in DOMAIN txs : Spent(txs[i], t)
  /\ \A i \in DOMAIN txs : \A u \in Tx : Spent(u, s) => ~ SameSlot(txs[i], u)
  /\ \A i, j \in DOMAIN txs : i < j => ~ SameSlot(txs[j], txs[i])

(* The same of the run of its transactions, and of each of its parts.      *)
PartStep(r, f, s, txs, k) ==
  /\ \A j \in 0..k : r[j].ok
  /\ Supply(r[k].state) + f[k] = Supply(s)
  /\ KeepsSpent(s, r[k].state)
  /\ \A i \in 1..k : Spent(txs[i], r[k].state)
  /\ \A i \in 1..k : \A u \in Tx : Spent(u, s) => ~ SameSlot(txs[i], u)
  /\ \A i, j \in 1..k : i < j => ~ SameSlot(txs[j], txs[i])

LEMMA RunKeeps ==
  ASSUME NEW s, GoodState(s), NEW height \in Nat, NEW txs \in Seq(Tx),
         NEW r, ApplyRun(r, s, height, txs), NEW f, FeesRun(f, txs)
  PROVE  \A k \in 0..Len(txs) : r[k].ok => PartStep(r, f, s, txs, k)
<1>1. PICK n \in Nat : n = Len(txs)
  OBVIOUS
<1>2. \A k \in 1..n : txs[k] \in Tx /\ txs[k].fee \in Nat
  BY <1>1, TxFacts
<1>3. /\ r \in [0..n -> Accumulators] /\ r[0] = [ok |-> TRUE, state |-> s]
      /\ \A k \in 1..n : r[k] = ApplyTx(r[k - 1], txs[k], height)
  BY <1>1 DEF ApplyRun
<1>4. /\ f \in [0..n -> Nat] /\ f[0] = 0
      /\ \A k \in 1..n : f[k] = f[k - 1] + txs[k].fee
  BY <1>1 DEF FeesRun
<1>5. PICK D : D = {k \in 0..n : r[k].ok => PartStep(r, f, s, txs, k)}
  OBVIOUS
<1>6. 0 \in D
  <2>1. Supply(s) \in Int
    <3>1. s \in States /\ IsFiniteSet(s.locks)
      BY DEF GoodState
    <3> QED BY <3>1, SupplyParts
  <2>2. KeepsSpent(s, s)
    BY DEF KeepsSpent
  <2>3. Supply(r[0].state) + f[0] = Supply(s)
    BY <1>3, <1>4, <2>1
  <2>4. r[0].ok /\ r[0].state = s /\ 0..0 = {0} /\ 1..0 = {}
    BY <1>3
  <2>5. PartStep(r, f, s, txs, 0)
    BY <2>2, <2>3, <2>4 DEF PartStep
  <2> QED BY <1>5, <2>5
<1>7. ASSUME NEW k \in 0..(n - 1), k \in D PROVE k + 1 \in D
  <2>1. PICK m : m = k + 1
    OBVIOUS
  <2>2. m \in 1..n /\ m \in 0..n /\ m - 1 = k /\ k \in 0..n /\ k \in Nat
    BY <2>1
  <2>3. /\ r[k] \in Accumulators /\ txs[m] \in Tx /\ txs[m].fee \in Nat
        /\ r[m] = ApplyTx(r[k], txs[m], height)
    BY <1>2, <1>3, <2>2
  <2>4. SUFFICES ASSUME r[m].ok PROVE PartStep(r, f, s, txs, m)
    BY <1>5, <2>1, <2>2
  <2>5. PICK v : v = r[k].state
    OBVIOUS
  <2>6. PICK t : t = r[m].state
    OBVIOUS
  <2>7. r[k].ok /\ Applies(v, txs[m], height) /\ TxStep(v, txs[m], t)
    BY <2>3, <2>4, <2>5, <2>6, ApplyTxTyped
  <2>8. PartStep(r, f, s, txs, k)
    BY <1>5, <1>7, <2>7
  <2>9. GoodState(v) /\ GoodState(t)
    BY <2>3, <2>5, <2>7 DEF Accumulators, GoodStates, TxStep
  <2>10. \A j \in 0..m : r[j].ok
    BY <2>1, <2>2, <2>4, <2>8 DEF PartStep
  <2>11. Supply(t) + f[m] = Supply(s)
    <3>1. /\ f[m] = f[k] + txs[m].fee /\ f[k] \in Nat
          /\ Supply(v) + f[k] = Supply(s) /\ Supply(t) + txs[m].fee = Supply(v)
      BY <1>4, <2>2, <2>5, <2>7, <2>8 DEF PartStep, TxStep
    <3>2. Supply(t) \in Int
      <4>1. t \in States /\ IsFiniteSet(t.locks)
        BY <2>9 DEF GoodState
      <4> QED BY <4>1, SupplyParts
    <3> QED BY <2>3, <3>1, <3>2
  <2>12. KeepsSpent(s, t) /\ KeepsSpent(v, t)
    BY <2>5, <2>7, <2>8 DEF PartStep, TxStep, KeepsSpent
  <2>13. \A i \in 1..m : i = m \/ i \in 1..k
    BY <2>1, <2>2
  <2>14. \A i \in 1..k : i \in 1..n /\ txs[i] \in Tx /\ Spent(txs[i], v)
    BY <1>2, <2>2, <2>5, <2>8 DEF PartStep
  <2>15. \A i \in 1..m : Spent(txs[i], t)
    <3>1. Spent(txs[m], t)
      BY <2>7 DEF TxStep
    <3>2. \A i \in 1..k : Spent(txs[i], t)
      BY <2>12, <2>14 DEF KeepsSpent
    <3> QED BY <2>13, <3>1, <3>2
  <2>16. \A i \in 1..m : \A u \in Tx : Spent(u, s) => ~ SameSlot(txs[i], u)
    <3>1. ASSUME NEW u \in Tx, Spent(u, s) PROVE ~ SameSlot(txs[m], u)
      <4>1. Spent(u, v)
        BY <2>5, <2>8, <3>1 DEF PartStep, KeepsSpent
      <4> QED BY <2>3, <2>7, <2>9, <4>1, SpentNotAgain
    <3>2. \A i \in 1..k : \A u \in Tx : Spent(u, s) => ~ SameSlot(txs[i], u)
      BY <2>8 DEF PartStep
    <3> QED BY <2>13, <3>1, <3>2
  <2>17. \A i, j \in 1..m : i < j => ~ SameSlot(txs[j], txs[i])
    <3>1. \A i, j \in 1..k : i < j => ~ SameSlot(txs[j], txs[i])
      BY <2>8 DEF PartStep
    <3>2. ASSUME NEW i \in 1..k PROVE ~ SameSlot(txs[m], txs[i])
      BY <2>3, <2>7, <2>9, <2>14, SpentNotAgain
    <3>3. \A i \in 1..k : ~ (m < i)
      BY <2>1, <2>2
    <3> QED BY <2>2, <2>13, <3>1, <3>2, <3>3
  <2> QED BY <2>6, <2>10, <2>11, <2>12, <2>15, <2>16, <2>17 DEF PartStep
<1>8. \A k \in 0..n : k \in D
  BY <1>6, <1>7, Ladder
<1> QED BY <1>1, <1>5, <1>8

LEMMA AppliedBlock ==
  ASSUME NEW s, GoodState(s), NEW height \in Nat, NEW miner \in Addr, NEW txs \in Seq(Tx),
         ApplyBlockTxs(s, height, miner, txs).ok
  PROVE  BlockStep(s, height, txs, ApplyBlockTxs(s, height, miner, txs).state)
<1>1. PICK r : ApplyRun(r, s, height, txs) /\ ApplyTxs(s, height, txs) = r[Len(txs)]
  BY ApplyFold
<1>2. PICK f : FeesRun(f, txs) /\ Fees(txs) = f[Len(txs)]
  BY FeesFold
<1>3. PICK n \in Nat : n = Len(txs) /\ DOMAIN txs = 1..n
  OBVIOUS
<1>4. PICK acc \in Accumulators : acc = r[n]
  BY <1>1, <1>3 DEF ApplyRun
<1>5. PICK v \in Nat : v = BlockReward(height) + f[n]
  BY <1>2, <1>3, RewardNat, SMTT(30) DEF FeesRun
<1>6. PICK d : d = acc.state
  OBVIOUS
<1>7. PICK t : t = Credited(d, miner, v)
  OBVIOUS
<1>8. ApplyBlockTxs(s, height, miner, txs) = [acc EXCEPT !.state = Credited(@, miner, v)]
  BY <1>1, <1>2, <1>3, <1>4, <1>5 DEF ApplyBlockTxs
<1>9. acc.ok /\ t = ApplyBlockTxs(s, height, miner, txs).state
  BY <1>6, <1>7, <1>8 DEF Accumulators
<1>10. PartStep(r, f, s, txs, n)
  <2>1. r[n].ok /\ n \in 0..n
    BY <1>3, <1>4, <1>9
  <2> QED BY <1>1, <1>2, <1>3, <2>1, RunKeeps
<1>11. GoodState(d) /\ d \in States /\ IsFiniteSet(d.locks)
  BY <1>6 DEF Accumulators, GoodStates, GoodState
<1>12. /\ t \in States /\ t.locks = d.locks /\ t.nonce = d.nonce
       /\ \A a \in Addr : t.balance[a] \in Nat
       /\ Total(t.balance) = Total(d.balance) + v
  BY <1>7, <1>11, CreditFacts DEF GoodState
<1>13. /\ \A id : Made(id, d) => Made(id, t)
       /\ \A u \in Tx : Spent(u, d) => Spent(u, t)
  BY <1>12 DEF Made, Spent
<1>14. GoodState(t)
  BY <1>11, <1>12, <1>13 DEF GoodState
<1>15. Supply(t) = Supply(s) + BlockReward(height)
  <2>1. /\ Supply(d) = Total(d.balance) + Total(Amounts(d.locks))
        /\ Total(d.balance) \in Int /\ Total(Amounts(d.locks)) \in Int
    BY <1>11, SupplyParts
  <2>2. Supply(t) = Total(t.balance) + Total(Amounts(t.locks))
    BY <1>11, <1>12, SupplyParts
  <2>3. Supply(d) + f[n] = Supply(s)
    BY <1>4, <1>6, <1>10 DEF PartStep
  <2>4. f[n] \in Nat /\ BlockReward(height) \in Nat
    BY <1>2, <1>3, RewardNat DEF FeesRun
  <2> QED BY <1>5, <1>12, <2>1, <2>2, <2>3, <2>4, SMTT(30)
<1>16. /\ \A u \in Tx : Spent(u, s) => Spent(u, d)
       /\ \A i \in 1..n : txs[i] \in Tx /\ Spent(txs[i], d)
  BY <1>3, <1>4, <1>6, <1>10 DEF PartStep, KeepsSpent
<1>17. KeepsSpent(s, t) /\ \A i \in DOMAIN txs : Spent(txs[i], t)
  BY <1>3, <1>13, <1>16 DEF KeepsSpent
<1>18. /\ \A i \in DOMAIN txs : \A u \in Tx : Spent(u, s) => ~ SameSlot(txs[i], u)
       /\ \A i, j \in DOMAIN txs : i < j => ~ SameSlot(txs[j], txs[i])
  BY <1>3, <1>10 DEF PartStep
<1> QED BY <1>9, <1>14, <1>15, <1>17, <1>18 DEF BlockStep

(* An empty block applies, and one whose only transaction does.            *)
LEMMA SmallBlocks ==
  ASSUME NEW s, GoodState(s), NEW height \in Nat, NEW miner
  PROVE  /\ ApplyBlockTxs(s, height, miner, << >>).ok
         /\ \A tx \in Tx : Applies(s, tx, height) => ApplyBlockTxs(s, height, miner, <<tx>>).ok
<1>1. ASSUME NEW txs \in Seq(Tx), NEW n \in 0..1, Len(txs) = n,
             n = 1 => Applies(s, txs[1], height)
      PROVE  ApplyBlockTxs(s, height, miner, txs).ok
  <2>1. PICK r : ApplyRun(r, s, height, txs) /\ ApplyTxs(s, height, txs) = r[Len(txs)]
    BY ApplyFold
  <2>2. PICK acc \in Accumulators : acc = r[n]
    BY <1>1, <2>1 DEF ApplyRun
  <2>3. ApplyBlockTxs(s, height, miner, txs)
          = [acc EXCEPT !.state = Credited(@, miner, BlockReward(height) + Fees(txs))]
    BY <1>1, <2>1, <2>2 DEF ApplyBlockTxs
  <2>4. r[0] = [ok |-> TRUE, state |-> s]
    BY <2>1 DEF ApplyRun
  <2>5. ASSUME n = 1 PROVE r[1].ok
    <3>1. Applies(s, txs[1], height) /\ 1 \in 1..Len(txs) /\ 1 - 1 = 0
      BY <1>1, <2>5
    <3>2. r[1] = ApplyTx(r[0], txs[1], height)
      BY <2>1, <3>1 DEF ApplyRun
    <3>3. r[0].ok /\ r[0].state = s
      BY <2>4
    <3> QED BY <3>1, <3>2, <3>3 DEF ApplyTx
  <2>6. acc.ok
    BY <1>1, <2>2, <2>4, <2>5
  <2> QED BY <2>3, <2>6 DEF Accumulators
<1>2. ApplyBlockTxs(s, height, miner, << >>).ok
  <2>1. PICK e \in Seq(Tx) : e = << >>
    BY EmptySeq
  <2>2. PICK n \in 0..1 : n = Len(e) /\ n # 1
    BY <2>1
  <2>3. ApplyBlockTxs(s, height, miner, e).ok
    BY <1>1, <2>2
  <2> QED BY <2>1, <2>3
<1>3. ASSUME NEW tx \in Tx, Applies(s, tx, height)
      PROVE  ApplyBlockTxs(s, height, miner, <<tx>>).ok
  <2>1. <<tx>> \in Seq(Tx) /\ Len(<<tx>>) = 1 /\ <<tx>>[1] = tx /\ 1 \in 0..1
    OBVIOUS
  <2> QED BY <1>1, <1>3, <2>1
<1> QED BY <1>2, <1>3

-----------------------------------------------------------------------------
(* The chain.                                                              *)

Blocks == [txs : Seq(Tx), post : GoodStates]

OnChain(c) == UNION {ToSet(c[i].txs) : i \in DOMAIN c}

(* Every block's state is sound and holds the rewards so far, what a block *)
(* or one below it applied is spent, and of the transactions that exclude  *)
(* one another the chain has one.                                          *)
GoodChain(c) ==
  /\ c \in Seq(Blocks) /\ c # << >>
  /\ \A i \in DOMAIN c : Supply(c[i].post) = Rewards(i - 1)
  /\ \A i, k \in DOMAIN c : k <= i => \A t \in ToSet(c[k].txs) : Spent(t, c[i].post)
  /\ \A t, u \in OnChain(c) : SameSlot(t, u) => t = u

(* d begins with the first m blocks of c.                                  *)
Shares(c, d, m) == m <= Len(d) /\ \A i \in 1..m : d[i] = c[i]

LEMMA ChainFacts ==
  ASSUME NEW c, GoodChain(c)
  PROVE  /\ Len(c) \in Nat \ {0} /\ DOMAIN c = 1..Len(c) /\ Len(c) \in DOMAIN c
         /\ \A i \in DOMAIN c : /\ c[i].txs \in Seq(Tx) /\ ToSet(c[i].txs) \subseteq Tx
                                /\ GoodState(c[i].post)
         /\ \A t \in OnChain(c) : t \in Tx /\ Spent(t, c[Len(c)].post)
<1>1. c \in Seq(Blocks) /\ c # << >>
  BY DEF GoodChain
<1>2. Len(c) \in Nat \ {0} /\ DOMAIN c = 1..Len(c) /\ Len(c) \in DOMAIN c
  BY <1>1, EmptySeq, LenProperties
<1>3. ASSUME NEW i \in DOMAIN c
      PROVE  /\ c[i].txs \in Seq(Tx) /\ ToSet(c[i].txs) \subseteq Tx
             /\ GoodState(c[i].post)
  <2>1. c[i] \in Blocks
    BY <1>1, <1>2, <1>3
  <2>2. c[i].txs \in Seq(Tx) /\ c[i].post \in GoodStates
    BY <2>1 DEF Blocks
  <2> QED BY <2>2 DEF GoodStates, ToSet
<1>4. ASSUME NEW t \in OnChain(c) PROVE t \in Tx /\ Spent(t, c[Len(c)].post)
  <2>1. PICK k \in DOMAIN c : t \in ToSet(c[k].txs)
    BY <1>4 DEF OnChain
  <2>2. k <= Len(c)
    BY <1>2
  <2> QED BY <1>2, <1>3, <2>1, <2>2 DEF GoodChain
<1> QED BY <1>2, <1>3, <1>4

LEMMA SlotFacts ==
  /\ \A t \in Tx : SameSlot(t, t)
  /\ \A t, u \in Tx : SameSlot(t, u) => SameSlot(u, t)
  BY DEF SameSlot

(* A block that applies keeps the chain good.                              *)
LEMMA ExtendGood ==
  ASSUME NEW c, GoodChain(c), NEW miner \in Addr, NEW txs \in Seq(Tx),
         ApplyBlockTxs(c[Len(c)].post, Len(c), miner, txs).ok
  PROVE  /\ GoodChain(Extend(c, miner, txs))
         /\ Len(Extend(c, miner, txs)) = Len(c) + 1
         /\ Shares(c, Extend(c, miner, txs), Len(c))
<1>1. PICK n : n = Len(c)
  OBVIOUS
<1>2. PICK s : s = c[n].post
  OBVIOUS
<1>3. /\ n \in Nat \ {0} /\ DOMAIN c = 1..n /\ n \in DOMAIN c /\ GoodState(s)
      /\ \A t \in OnChain(c) : t \in Tx /\ Spent(t, s)
  BY <1>1, <1>2, ChainFacts
<1>4. PICK t : t = ApplyBlockTxs(s, n, miner, txs).state
  OBVIOUS
<1>5. BlockStep(s, n, txs, t)
  BY <1>1, <1>2, <1>3, <1>4, AppliedBlock
<1>6. PICK b : b = [txs |-> txs, post |-> t]
  OBVIOUS
<1>7. PICK d : d = Append(c, b)
  OBVIOUS
<1>8. d = Extend(c, miner, txs)
  BY <1>1, <1>2, <1>4, <1>6, <1>7 DEF Extend
<1>9. b \in Blocks /\ b.txs = txs /\ b.post = t /\ GoodState(t)
  BY <1>5, <1>6 DEF Blocks, GoodStates, BlockStep, GoodState
<1>10. /\ d \in Seq(Blocks) /\ d # << >> /\ Len(d) = n + 1
       /\ DOMAIN d = 1..(n + 1) /\ d[n + 1] = b
       /\ \A i \in 1..n : d[i] = c[i]
  <2>1. c \in Seq(Blocks)
    BY DEF GoodChain
  <2>2. d \in Seq(Blocks) /\ Len(d) = n + 1 /\ d[n + 1] = b /\ \A i \in 1..n : d[i] = c[i]
    BY <1>1, <1>7, <1>9, <2>1, AppendProperties
  <2> QED BY <1>3, <2>2, EmptySeq, LenProperties
<1>11. ASSUME NEW i \in DOMAIN d PROVE Supply(d[i].post) = Rewards(i - 1)
  <2>1. CASE i \in 1..n
    BY <1>3, <1>10, <2>1 DEF GoodChain
  <2>2. CASE i = n + 1
    <3>1. Supply(s) = Rewards(n - 1)
      BY <1>2, <1>3 DEF GoodChain
    <3>2. Supply(t) = Supply(s) + BlockReward(n)
      BY <1>5 DEF BlockStep
    <3>3. n - 1 \in Nat /\ (n - 1) + 1 = n /\ i - 1 = n
      BY <1>3, <2>2
    <3>4. Rewards(n) = Rewards(n - 1) + BlockReward(n)
      BY <3>3, RewardsGrow
    <3> QED BY <1>9, <1>10, <2>2, <3>1, <3>2, <3>3, <3>4
  <2> QED BY <1>3, <1>10, <1>11, <2>1, <2>2
<1>12. \A u \in ToSet(txs) : u \in Tx /\ Spent(u, t)
  BY <1>5 DEF BlockStep, ToSet
<1>13. ASSUME NEW i \in DOMAIN d, NEW k \in DOMAIN d, k <= i, NEW u \in ToSet(d[k].txs)
       PROVE  Spent(u, d[i].post)
  <2>1. CASE i \in 1..n
    <3>1. k \in 1..n
      BY <1>3, <1>10, <1>13, <2>1
    <3> QED BY <1>3, <1>10, <1>13, <2>1, <3>1 DEF GoodChain
  <2>2. CASE i = n + 1 /\ k \in 1..n
    <3>1. u \in OnChain(c)
      BY <1>3, <1>10, <1>13, <2>2 DEF OnChain
    <3> QED BY <1>3, <1>5, <1>9, <1>10, <2>2, <3>1 DEF BlockStep, KeepsSpent
  <2>3. CASE i = n + 1 /\ k = n + 1
    BY <1>9, <1>10, <1>12, <1>13, <2>3
  <2> QED BY <1>3, <1>10, <1>13, <2>1, <2>2, <2>3
<1>14. \A u \in OnChain(d) : u \in OnChain(c) \/ u \in ToSet(txs)
  <2>1. SUFFICES ASSUME NEW u \in OnChain(d) PROVE u \in OnChain(c) \/ u \in ToSet(txs)
    OBVIOUS
  <2>2. PICK k \in 1..(n + 1) : u \in ToSet(d[k].txs)
    BY <1>10 DEF OnChain
  <2>3. CASE k \in 1..n
    BY <1>3, <1>10, <2>2, <2>3 DEF OnChain
  <2>4. CASE k = n + 1
    BY <1>9, <1>10, <2>2, <2>4
  <2> QED BY <1>3, <2>2, <2>3, <2>4
<1>15. ASSUME NEW u \in OnChain(d), NEW v \in OnChain(d), SameSlot(u, v) PROVE u = v
  <2>1. \A x \in ToSet(txs) : \A y \in OnChain(c) : ~ SameSlot(x, y) /\ ~ SameSlot(y, x)
    BY <1>3, <1>5, <1>12, SlotFacts DEF BlockStep, ToSet
  <2>2. CASE u \in ToSet(txs) /\ v \in ToSet(txs)
    <3>1. PICK i, j \in DOMAIN txs : u = txs[i] /\ v = txs[j]
      BY <2>2 DEF ToSet
    <3>2. SameSlot(v, u)
      BY <1>12, <1>15, <2>2, SlotFacts
    <3>3. ~ (i < j) /\ ~ (j < i)
      BY <1>5, <1>15, <3>1, <3>2 DEF BlockStep
    <3>4. i \in Nat /\ j \in Nat
      BY LenProperties
    <3> QED BY <3>1, <3>3, <3>4
  <2>3. CASE u \in OnChain(c) /\ v \in OnChain(c)
    BY <1>15, <2>3 DEF GoodChain
  <2> QED BY <1>14, <1>15, <2>1, <2>2, <2>3
<1>16. GoodChain(d)
  BY <1>10, <1>11, <1>13, <1>15 DEF GoodChain
<1> QED BY <1>1, <1>3, <1>8, <1>10, <1>16 DEF Shares

(* So does leaving off its last blocks.                                    *)
LEMMA PrefixGood ==
  ASSUME NEW c, GoodChain(c), NEW m \in 1..Len(c)
  PROVE  /\ GoodChain(SubSeq(c, 1, m)) /\ Len(SubSeq(c, 1, m)) = m
         /\ Shares(c, SubSeq(c, 1, m), m)
<1>1. PICK d : d = SubSeq(c, 1, m)
  OBVIOUS
<1>2. c \in Seq(Blocks) /\ Len(c) \in Nat \ {0} /\ DOMAIN c = 1..Len(c)
  BY ChainFacts DEF GoodChain
<1>3. m \in Nat \ {0} /\ m <= Len(c)
  BY <1>2
<1>4. d \in Seq(Blocks) /\ Len(d) = m /\ DOMAIN d = 1..m /\ \A i \in 1..m : d[i] = c[i]
  BY <1>1, <1>2, <1>3, SubSeqProperties, LenProperties
<1>5. d # << >>
  BY <1>3, <1>4, EmptySeq
<1>6. \A i \in DOMAIN d : i \in DOMAIN c /\ d[i] = c[i]
  BY <1>2, <1>3, <1>4
<1>7. OnChain(d) \subseteq OnChain(c)
  BY <1>6 DEF OnChain
<1>8. GoodChain(d)
  BY <1>4, <1>5, <1>6, <1>7 DEF GoodChain
<1> QED BY <1>1, <1>3, <1>4, <1>8 DEF Shares

GoodChains == {c \in Seq(Blocks) : GoodChain(c)}

(* The genesis.                                                            *)
LEMMA GenesisGood == GoodChain(<<Block0>>)
<1>1. PICK s : s = EmptyState
  OBVIOUS
<1>2. /\ s \in States /\ s.locks = {}
      /\ \A a \in Addr : s.balance[a] = 0 /\ s.nonce[a] = 0
  BY <1>1 DEF EmptyState, States
<1>3. GoodState(s)
  BY <1>2, FS_EmptySet DEF GoodState
<1>4. Supply(s) = 0
  <2>1. Supply(s) = Total(s.balance) + Total(Amounts(s.locks))
    BY <1>2, FS_EmptySet, SupplyParts
  <2>2. PICK f : f = Amounts(s.locks)
    OBVIOUS
  <2>3. f \in [{} -> Int] /\ DOMAIN f = {}
    BY <1>2, <2>2 DEF Amounts
  <2>4. Total(f) = 0
    BY <2>3, TotalEmpty
  <2>0. s.balance \in [Addr -> Int] /\ IsFiniteSet(Addr)
    BY <1>2, LedgerConstants DEF States
  <2>5. Total(s.balance) = 0
    BY <1>2, <2>0, TotalZero
  <2> QED BY <2>1, <2>2, <2>4, <2>5
<1>5. Rewards(0) = 0
  BY RewardsGrow
<1>6. PICK b : b = Block0
  OBVIOUS
<1>7. b \in Blocks /\ b.txs = << >> /\ b.post = s
  BY <1>1, <1>2, <1>3, <1>6, EmptySeq DEF Block0, Blocks, GoodStates
<1>8. PICK c : c = <<b>>
  OBVIOUS
<1>9. c \in Seq(Blocks) /\ c # << >> /\ DOMAIN c = {1} /\ c[1] = b /\ 1 - 1 = 0
  BY <1>7, <1>8
<1>10. ToSet(b.txs) = {} /\ OnChain(c) = {}
  BY <1>7, <1>9 DEF ToSet, OnChain
<1>11. GoodChain(c)
  BY <1>4, <1>5, <1>7, <1>9, <1>10 DEF GoodChain
<1> QED BY <1>6, <1>8, <1>11

LEMMA ConcatSet ==
  ASSUME NEW a \in Seq(Tx), NEW b \in Seq(Tx)
  PROVE  a \o b \in Seq(Tx) /\ ToSet(a \o b) = ToSet(a) \cup ToSet(b)
<1>1. PICK c : c = a \o b
  OBVIOUS
<1>2. Len(a) \in Nat /\ Len(b) \in Nat /\ DOMAIN a = 1..Len(a) /\ DOMAIN b = 1..Len(b)
  BY LenProperties
<1>3. /\ c \in Seq(Tx) /\ Len(c) = Len(a) + Len(b) /\ DOMAIN c = 1..(Len(a) + Len(b))
      /\ \A i \in 1..(Len(a) + Len(b)) : c[i] = IF i <= Len(a) THEN a[i] ELSE b[i - Len(a)]
  BY <1>1, <1>2, ConcatProperties, LenProperties
<1>4. ASSUME NEW i \in DOMAIN c PROVE c[i] \in ToSet(a) \cup ToSet(b)
  <2>1. CASE i <= Len(a)
    BY <1>2, <1>3, <1>4, <2>1 DEF ToSet
  <2>2. CASE ~ (i <= Len(a))
    <3>1. i - Len(a) \in DOMAIN b /\ c[i] = b[i - Len(a)]
      BY <1>2, <1>3, <1>4, <2>2
    <3> QED BY <3>1 DEF ToSet
  <2> QED BY <2>1, <2>2
<1>5. ASSUME NEW i \in DOMAIN a PROVE a[i] \in ToSet(c)
  <2>1. i \in DOMAIN c /\ c[i] = a[i]
    BY <1>2, <1>3, <1>5
  <2> QED BY <2>1 DEF ToSet
<1>6. ASSUME NEW i \in DOMAIN b PROVE b[i] \in ToSet(c)
  <2>1. i + Len(a) \in DOMAIN c /\ c[i + Len(a)] = b[i]
    BY <1>2, <1>3, <1>6
  <2> QED BY <2>1 DEF ToSet
<1>7. ToSet(c) = ToSet(a) \cup ToSet(b)
  BY <1>4, <1>5, <1>6 DEF ToSet
<1> QED BY <1>1, <1>3, <1>7

(* The chains n blocks longer than c that begin with it.                   *)
Longer(c, n) == {d \in GoodChains : Len(d) = Len(c) + n /\ Shares(c, d, Len(c))}

LEMMA OneLongerGood ==
  ASSUME NEW c, GoodChain(c), NEW k \in Nat, NEW d \in Longer(c, k)
  PROVE  OneLonger(d) \subseteq Longer(c, k + 1)
<1>1. GoodChain(d) /\ Len(d) = Len(c) + k /\ Shares(c, d, Len(c))
  BY DEF Longer, GoodChains
<1>2. Len(c) \in Nat /\ Len(d) \in Nat \ {0} /\ GoodState(d[Len(d)].post)
  BY <1>1, ChainFacts
<1>3. ASSUME NEW m \in Others, NEW txs \in Seq(Tx),
             ApplyBlockTxs(d[Len(d)].post, Len(d), m, txs).ok
      PROVE  Extend(d, m, txs) \in Longer(c, k + 1)
  <2>1. PICK e : e = Extend(d, m, txs)
    OBVIOUS
  <2>2. m \in Addr
    BY MempoolAssumption
  <2>3. GoodChain(e) /\ Len(e) = Len(d) + 1 /\ Shares(d, e, Len(d))
    BY <1>1, <1>3, <2>1, <2>2, ExtendGood
  <2>4. Len(e) = Len(c) + (k + 1)
    BY <1>1, <1>2, <2>3
  <2>5. Shares(c, e, Len(c))
    BY <1>1, <1>2, <2>3, <2>4 DEF Shares
  <2>6. e \in GoodChains
    BY <2>3 DEF GoodChains, GoodChain
  <2> QED BY <2>1, <2>4, <2>5, <2>6 DEF Longer
<1>4. ASSUME NEW m \in Others PROVE Extend(d, m, << >>) \in Longer(c, k + 1)
  <2>1. << >> \in Seq(Tx)
    BY EmptySeq
  <2>2. ApplyBlockTxs(d[Len(d)].post, Len(d), m, << >>).ok
    BY <1>2, SmallBlocks
  <2> QED BY <1>3, <2>1, <2>2
<1>5. ASSUME NEW m \in Others, NEW t \in Tx, Applies(d[Len(d)].post, t, Len(d))
      PROVE  Extend(d, m, <<t>>) \in Longer(c, k + 1)
  <2>1. <<t>> \in Seq(Tx)
    OBVIOUS
  <2>2. ApplyBlockTxs(d[Len(d)].post, Len(d), m, <<t>>).ok
    BY <1>2, <1>5, SmallBlocks
  <2> QED BY <1>3, <2>1, <2>2
<1> QED BY <1>4, <1>5 DEF OneLonger

LEMMA ExtensionsGood ==
  ASSUME NEW c, GoodChain(c), NEW n \in Nat
  PROVE  Extensions(c, n) \subseteq Longer(c, n)
<1> DEFINE Eq(h) == h = [T \in SUBSET DOMAIN [i \in 1..n |-> i] |->
                           IF T = {} THEN {c} ELSE UNION {OneLonger(d) : d \in h[T \ {Max(T)}]}]
<1>1. DOMAIN [i \in 1..n |-> i] = 1..n
  OBVIOUS
<1>3. \A d \in GoodChains : OneLonger(d) \subseteq GoodChains
  <2>1. SUFFICES ASSUME NEW d \in GoodChains PROVE OneLonger(d) \subseteq GoodChains
    OBVIOUS
  <2>2. GoodChain(d) /\ Len(d) \in Nat
    BY ChainFacts DEF GoodChains
  <2>3. d \in Longer(d, 0)
    BY <2>2 DEF Longer, Shares
  <2>4. OneLonger(d) \subseteq Longer(d, 0 + 1)
    BY <2>2, <2>3, OneLongerGood
  <2> QED BY <2>4 DEF Longer
<1>4. PICK G : G = [p \in (1..n) \X SUBSET GoodChains |-> UNION {OneLonger(d) : d \in p[2]}]
  OBVIOUS
<1>5. G \in [(1..n) \X SUBSET GoodChains -> SUBSET GoodChains]
  <2>1. \A p \in (1..n) \X SUBSET GoodChains : UNION {OneLonger(d) : d \in p[2]} \in SUBSET GoodChains
    BY <1>3
  <2> QED BY <1>4, <2>1
<1>6. {c} \in SUBSET GoodChains
  BY DEF GoodChains, GoodChain
<1>7. PICK h \in [SUBSET (1..n) -> SUBSET GoodChains] : FoldEq(h, n, {c}, G)
  BY <1>5, <1>6, FoldSolution
<1>8. ASSUME NEW T \in SUBSET (1..n), T # {}
      PROVE  G[<<Max(T), h[T \ {Max(T)}]>>] = UNION {OneLonger(d) : d \in h[T \ {Max(T)}]}
  BY <1>4, <1>8, StepArgument
<1>9. Eq(h)
  BY <1>1, <1>7, <1>8 DEF FoldEq
<1>10. PICK g : Eq(g) /\ Extensions(c, n) = g[DOMAIN [i \in 1..n |-> i]]
  <2> DEFINE g == CHOOSE f : Eq(f)
  <2>1. Eq(g)
    BY <1>9
  <2>2. Extensions(c, n) = g[DOMAIN [i \in 1..n |-> i]]
    BY DEF Extensions, FoldLeft, MapThenFoldSet
  <2> QED BY <2>1, <2>2
<1>11. g = [T \in SUBSET (1..n) |-> IF T = {} THEN {c} ELSE UNION {OneLonger(d) : d \in g[T \ {Max(T)}]}]
  BY <1>1, <1>10
<1>12. PICK D : D = {k \in 0..n : g[1..k] \subseteq Longer(c, k)}
  OBVIOUS
<1>13. 0 \in D
  <2>1. 1..0 = {} /\ g[{}] = {c}
    BY <1>11
  <2>2. c \in Longer(c, 0)
    <3>1. Len(c) \in Nat /\ c \in GoodChains
      BY ChainFacts DEF GoodChains, GoodChain
    <3> QED BY <3>1 DEF Longer, Shares
  <2> QED BY <1>12, <2>1, <2>2
<1>14. ASSUME NEW k \in 0..(n - 1), k \in D PROVE k + 1 \in D
  <2>1. k + 1 \in 1..n /\ (k + 1) - 1 = k /\ k \in Nat /\ k + 1 \in 0..n
    OBVIOUS
  <2>2. /\ 1..(k + 1) \in SUBSET (1..n) /\ 1..(k + 1) # {}
        /\ (1..(k + 1)) \ {Max(1..(k + 1))} = 1..k
    BY <2>1, Beginnings
  <2>3. g[1..(k + 1)] = UNION {OneLonger(d) : d \in g[1..k]}
    BY <1>11, <2>2
  <2>4. \A d \in g[1..k] : OneLonger(d) \subseteq Longer(c, k + 1)
    BY <1>12, <1>14, <2>1, OneLongerGood
  <2> QED BY <1>12, <2>1, <2>3, <2>4
<1>15. n \in D
  <2>1. \A k \in 0..n : k \in D
    BY <1>13, <1>14, Ladder
  <2> QED BY <2>1
<1> QED BY <1>1, <1>10, <1>12, <1>15

(* The empty blocks every behaviour starts from.                           *)
Founded == FoldLeft(LAMBDA c, m : Extend(c, m, << >>), <<Block0>>, Founders)

LEMMA InitGood == GoodChain(Founded) /\ Len(Founded) = 1 + Len(Founders)
<1> DEFINE Eq(h) == h = [T \in SUBSET DOMAIN Founders |->
                           IF T = {} THEN <<Block0>>
                           ELSE Extend(h[T \ {Max(T)}], Founders[Max(T)], << >>)]
<1>0. Founders \in Seq(Addr)
  BY MempoolAssumption
<1>1. PICK n \in Nat : /\ n = Len(Founders) /\ DOMAIN Founders = 1..n
                       /\ \A k \in 1..n : Founders[k] \in Addr
  BY <1>0, LenProperties
<1>2. ASSUME NEW d \in GoodChains, NEW m \in Addr
      PROVE  Extend(d, m, << >>) \in GoodChains /\ Len(Extend(d, m, << >>)) = Len(d) + 1
  <2>1. GoodChain(d) /\ GoodState(d[Len(d)].post) /\ Len(d) \in Nat
    BY ChainFacts DEF GoodChains
  <2>2. << >> \in Seq(Tx)
    BY EmptySeq
  <2>3. ApplyBlockTxs(d[Len(d)].post, Len(d), m, << >>).ok
    BY <2>1, SmallBlocks
  <2> QED BY <2>1, <2>2, <2>3, ExtendGood DEF GoodChains, GoodChain
<1>3. PICK b : b = <<Block0>>
  OBVIOUS
<1>4. b \in GoodChains /\ Len(b) = 1
  BY <1>3, GenesisGood DEF GoodChains, GoodChain
<1>5. PICK G : G = [p \in (1..n) \X GoodChains |-> Extend(p[2], Founders[p[1]], << >>)]
  OBVIOUS
<1>6. G \in [(1..n) \X GoodChains -> GoodChains]
  BY <1>1, <1>2, <1>5
<1>7. PICK h \in [SUBSET (1..n) -> GoodChains] : FoldEq(h, n, b, G)
  BY <1>1, <1>4, <1>6, FoldSolution
<1>8. ASSUME NEW T \in SUBSET (1..n), T # {}
      PROVE  G[<<Max(T), h[T \ {Max(T)}]>>] = Extend(h[T \ {Max(T)}], Founders[Max(T)], << >>)
  BY <1>1, <1>5, <1>8, StepArgument
<1>9. Eq(h)
  BY <1>1, <1>3, <1>7, <1>8 DEF FoldEq
<1>10. PICK g : Eq(g) /\ Founded = g[DOMAIN Founders]
  <2> DEFINE g == CHOOSE f : Eq(f)
  <2>1. Eq(g)
    BY <1>9
  <2>2. Founded = g[DOMAIN Founders]
    BY DEF Founded, FoldLeft, MapThenFoldSet
  <2> QED BY <2>1, <2>2
<1>11. PICK D : D = {k \in 0..n : g[1..k] \in GoodChains /\ Len(g[1..k]) = 1 + k}
  OBVIOUS
<1>12. 0 \in D
  <2>1. 1..0 = {} /\ {} \in SUBSET DOMAIN Founders
    OBVIOUS
  <2>2. g[{}] = b
    BY <1>3, <1>10, <2>1
  <2>3. g[1..0] = b /\ 0 \in 0..n /\ 1 + 0 = 1
    BY <2>1, <2>2
  <2> QED BY <1>4, <1>11, <2>3
<1>13. ASSUME NEW k \in 0..(n - 1), k \in D PROVE k + 1 \in D
  <2>1. k + 1 \in 1..n /\ (k + 1) - 1 = k /\ k \in Nat /\ k + 1 \in 0..n
    BY <1>1
  <2>2. /\ 1..(k + 1) \in SUBSET (1..n) /\ 1..(k + 1) # {}
        /\ Max(1..(k + 1)) = k + 1 /\ (1..(k + 1)) \ {Max(1..(k + 1))} = 1..k
    BY <1>1, <2>1, Beginnings
  <2>3. g[1..(k + 1)] = Extend(g[1..k], Founders[k + 1], << >>)
    BY <1>1, <1>10, <2>2
  <2>4. g[1..k] \in GoodChains /\ Len(g[1..k]) = 1 + k /\ Founders[k + 1] \in Addr
    BY <1>1, <1>11, <1>13, <2>1
  <2>5. g[1..(k + 1)] \in GoodChains /\ Len(g[1..(k + 1)]) = (1 + k) + 1
    BY <1>2, <2>3, <2>4
  <2> QED BY <1>11, <2>1, <2>5
<1>14. n \in D
  <2>1. \A k \in 0..n : k \in D
    BY <1>1, <1>12, <1>13, Ladder
  <2> QED BY <1>1, <2>1
<1> QED BY <1>1, <1>10, <1>11, <1>14 DEF GoodChains

(* The transactions above a height are those of its blocks there.          *)
Above(c, height) == UNION {ToSet(c[i].txs) : i \in (height + 2)..Len(c)}

LEMMA TxsAboveSet ==
  ASSUME NEW c, GoodChain(c), NEW height \in 0..(Len(c) - 1)
  PROVE  /\ TxsAbove(c, height) \in Seq(Tx)
         /\ ToSet(TxsAbove(c, height)) = Above(c, height)
<1>1. PICK L \in Nat : L = Len(c) /\ DOMAIN c = 1..L
  BY ChainFacts
<1>2. PICK n \in Nat : n = L - 1 - height
  BY <1>1
<1> DEFINE Eq(h) == h = [T \in SUBSET DOMAIN [i \in 1..(Len(c) - 1 - height) |-> i] |->
                           IF T = {} THEN << >>
                           ELSE h[T \ {Max(T)}] \o
                                c[Len(c) + 1 - [i \in 1..(Len(c) - 1 - height) |-> i][Max(T)]].txs]
<1>3. /\ DOMAIN [i \in 1..(Len(c) - 1 - height) |-> i] = 1..n
      /\ \A k \in 1..n : [i \in 1..(Len(c) - 1 - height) |-> i][k] = k
  BY <1>1, <1>2
<1>4. \A k \in 1..n : /\ L + 1 - k \in 1..L /\ c[L + 1 - k].txs \in Seq(Tx)
  <2>1. \A k \in 1..n : L + 1 - k \in 1..L
    BY <1>1, <1>2
  <2> QED BY <1>1, <2>1, ChainFacts
<1>5. PICK G : G = [p \in (1..n) \X Seq(Tx) |-> p[2] \o c[L + 1 - p[1]].txs]
  OBVIOUS
<1>6. G \in [(1..n) \X Seq(Tx) -> Seq(Tx)]
  <2>1. \A p \in (1..n) \X Seq(Tx) : p[2] \o c[L + 1 - p[1]].txs \in Seq(Tx)
    BY <1>4, ConcatProperties
  <2> QED BY <1>5, <2>1
<1>7. << >> \in Seq(Tx)
  BY EmptySeq
<1>8. PICK h \in [SUBSET (1..n) -> Seq(Tx)] : FoldEq(h, n, << >>, G)
  BY <1>6, <1>7, FoldSolution
<1>9. ASSUME NEW T \in SUBSET (1..n), T # {}
      PROVE  G[<<Max(T), h[T \ {Max(T)}]>>]
               = h[T \ {Max(T)}] \o
                 c[Len(c) + 1 - [i \in 1..(Len(c) - 1 - height) |-> i][Max(T)]].txs
  BY <1>1, <1>3, <1>5, <1>9, StepArgument
<1>10. Eq(h)
  BY <1>3, <1>8, <1>9 DEF FoldEq
<1>11. PICK g : Eq(g) /\ TxsAbove(c, height) = g[DOMAIN [i \in 1..(Len(c) - 1 - height) |-> i]]
  <2> DEFINE g == CHOOSE f : Eq(f)
  <2>1. Eq(g)
    BY <1>10, ZenonT(60)
  <2>2. TxsAbove(c, height) = g[DOMAIN [i \in 1..(Len(c) - 1 - height) |-> i]]
    BY DEF TxsAbove, FoldLeft, MapThenFoldSet
  <2> QED BY <2>1, <2>2
<1>12. g[{}] = << >>
  BY <1>3, <1>11
<1>13. ASSUME NEW k \in 1..n PROVE g[1..k] = g[1..(k - 1)] \o c[L + 1 - k].txs
  <2>0. [i \in 1..(Len(c) - 1 - height) |-> i][k] = k
    BY <1>3
  <2>1. /\ 1..k \in SUBSET (1..n) /\ 1..k # {} /\ Max(1..k) = k
        /\ (1..k) \ {k} = 1..(k - 1)
    BY Beginnings
  <2>2. g[1..k] = g[(1..k) \ {Max(1..k)}] \o
                  c[Len(c) + 1 - [i \in 1..(Len(c) - 1 - height) |-> i][Max(1..k)]].txs
    BY <1>3, <1>11, <2>1
  <2> QED BY <1>1, <2>0, <2>1, <2>2
<1>14. PICK D : D = {k \in 0..n : /\ g[1..k] \in Seq(Tx)
                                  /\ ToSet(g[1..k]) = UNION {ToSet(c[L + 1 - i].txs) : i \in 1..k}}
  OBVIOUS
<1>15. 0 \in D
  <2>1. PICK e : e = << >>
    OBVIOUS
  <2>2. e \in Seq(Tx) /\ ToSet(e) = {}
    BY <1>7, <2>1 DEF ToSet
  <2>3. 1..0 = {} /\ UNION {ToSet(c[L + 1 - i].txs) : i \in 1..0} = {}
    OBVIOUS
  <2>4. g[1..0] = e /\ 0 \in 0..n
    BY <1>12, <2>1, <2>3
  <2> QED BY <1>14, <2>2, <2>3, <2>4
<1>16. ASSUME NEW k \in 0..(n - 1), k \in D PROVE k + 1 \in D
  <2>1. PICK m : m = k + 1
    OBVIOUS
  <2>2. m \in 1..n /\ m - 1 = k /\ m \in 0..n
    BY <2>1
  <2>3. PICK a \in Seq(Tx) : a = g[1..k] /\ ToSet(a) = UNION {ToSet(c[L + 1 - i].txs) : i \in 1..k}
    BY <1>14, <1>16
  <2>4. PICK b \in Seq(Tx) : b = c[L + 1 - m].txs
    BY <1>4, <2>2
  <2>5. g[1..m] = a \o b
    BY <1>13, <2>2, <2>3, <2>4
  <2>6. a \o b \in Seq(Tx) /\ ToSet(a \o b) = ToSet(a) \cup ToSet(b)
    BY ConcatSet
  <2>7. ToSet(a) \cup ToSet(b) = UNION {ToSet(c[L + 1 - i].txs) : i \in 1..m}
    <3>1. \A i \in 1..m : i = m \/ i \in 1..k
      BY <2>1, <2>2
    <3>2. \A i \in 1..k : i \in 1..m
      BY <2>1, <2>2
    <3> QED BY <2>2, <2>3, <2>4, <3>1, <3>2
  <2> QED BY <1>14, <2>1, <2>2, <2>5, <2>6, <2>7
<1>17. n \in D
  <2>1. \A k \in 0..n : k \in D
    BY <1>15, <1>16, Ladder
  <2> QED BY <2>1
<1>18. UNION {ToSet(c[L + 1 - i].txs) : i \in 1..n} = Above(c, height)
  <2>1. ASSUME NEW i \in 1..n PROVE L + 1 - i \in (height + 2)..L
    BY <1>1, <1>2
  <2>2. ASSUME NEW j \in (height + 2)..L PROVE L + 1 - j \in 1..n /\ L + 1 - (L + 1 - j) = j
    BY <1>1, <1>2
  <2>3. ASSUME NEW t, t \in UNION {ToSet(c[L + 1 - i].txs) : i \in 1..n} PROVE t \in Above(c, height)
    <3>1. PICK i \in 1..n : t \in ToSet(c[L + 1 - i].txs)
      BY <2>3
    <3>2. L + 1 - i \in (height + 2)..Len(c)
      BY <1>1, <2>1
    <3> QED BY <3>1, <3>2 DEF Above
  <2>4. ASSUME NEW t, t \in Above(c, height)
        PROVE  t \in UNION {ToSet(c[L + 1 - i].txs) : i \in 1..n}
    <3>1. PICK j \in (height + 2)..L : t \in ToSet(c[j].txs)
      BY <1>1, <2>4 DEF Above
    <3>2. PICK i \in 1..n : L + 1 - i = j
      BY <2>2
    <3> QED BY <3>1, <3>2
  <2> QED BY <2>3, <2>4
<1> QED BY <1>3, <1>11, <1>14, <1>17, <1>18, ZenonT(60)

-----------------------------------------------------------------------------
(* The pool.                                                               *)

PoolEntries == [tx : Tx, age : 0..TtlAge]

OneEach(p) == \A e, f \in p : SameSlot(e.tx, f.tx) => e = f

GoodPool(p) ==
  /\ p \subseteq PoolEntries /\ IsFiniteSet(p)
  /\ Cardinality(p) <= MaxPool /\ OneEach(p)

(* A pool that was base before some of these transactions were offered to  *)
(* it at a tip with state s: what is new was admitted, what is gone was    *)
(* out-bid by one that was.                                                *)
Offered(p, base, txs, s) ==
  /\ GoodPool(p)
  /\ \A e \in p : e \in base \/ (e.age = 0 /\ e.tx \in txs /\ Admissible(e.tx, s))
  /\ \A e \in base \ p : \E t \in txs : Admissible(t, s) /\ t.fee > e.tx.fee

LEMMA AddOffered ==
  ASSUME NEW s, NEW base, NEW txs, NEW p, Offered(p, base, txs, s),
         NEW tx \in Tx, tx \in txs, NEW q \in Add(p, tx, s)
  PROVE  Offered(q, base, txs, s)
<1>1. PICK rivals : rivals = {e \in p : SameSlot(e.tx, tx)}
  OBVIOUS
<1>2. PICK rest : rest = p \ rivals
  OBVIOUS
<1>3. PICK new : new = Fresh(tx)
  OBVIOUS
<1>4. /\ GoodPool(p) /\ p \subseteq PoolEntries /\ IsFiniteSet(p) /\ Cardinality(p) \in Nat
      /\ Cardinality(p) <= MaxPool /\ MaxPool \in Nat
  BY FS_CardinalityType, MempoolAssumption DEF Offered, GoodPool
<1>5. new \in PoolEntries /\ new.tx = tx /\ new.age = 0
  BY <1>3, MempoolAssumption DEF Fresh, PoolEntries
<1>6. CASE q = p
  BY <1>6
<1>7. CASE q # p
  <2>1. /\ ~ (tx \in Txs(p) \/ ~ Admissible(tx, s) \/ \E r \in rivals : tx.fee <= r.tx.fee)
        /\ q \in IF HasRoom(rest) THEN {rest \cup {new}}
                 ELSE IF \E e \in Cheapest(rest) : e.tx.fee >= tx.fee THEN {rest}
                 ELSE {(rest \ {worst}) \cup {new} : worst \in Cheapest(rest)}
    BY <1>1, <1>2, <1>3, <1>7 DEF Add, Without
  <2>2. Admissible(tx, s) /\ \A r \in rivals : tx.fee > r.tx.fee
    <3>1. \A r \in rivals : r.tx.fee \in Nat
      BY <1>1, <1>4, TxFacts DEF PoolEntries
    <3> QED BY <2>1, <3>1, TxFacts
  <2>3. IsFiniteSet(rest) /\ Cardinality(rest) \in Nat /\ Cardinality(rest) <= Cardinality(p)
    BY <1>2, <1>4, FS_Subset, FS_CardinalityType
  <2>4. \A e \in rest : ~ SameSlot(e.tx, tx) /\ ~ SameSlot(tx, e.tx)
    BY <1>1, <1>2, <1>4, SlotFacts DEF PoolEntries
  <2>5. new \notin rest
    BY <1>5, <2>4, SlotFacts
  <2>6. PICK worst : \/ q = rest \cup {new} /\ Cardinality(rest) < MaxPool
                     \/ q = rest
                     \/ /\ q = (rest \ {worst}) \cup {new} /\ worst \in rest
                        /\ worst.tx.fee < tx.fee
    <3>1. CASE HasRoom(rest)
      BY <2>1, <3>1 DEF HasRoom
    <3>2. CASE ~ HasRoom(rest) /\ \E e \in Cheapest(rest) : e.tx.fee >= tx.fee
      BY <2>1, <3>2
    <3>3. CASE ~ HasRoom(rest) /\ ~ \E e \in Cheapest(rest) : e.tx.fee >= tx.fee
      <4>1. PICK w \in Cheapest(rest) : q = (rest \ {w}) \cup {new}
        BY <2>1, <3>3
      <4>2. w \in rest /\ ~ (w.tx.fee >= tx.fee)
        BY <3>3 DEF Cheapest
      <4>3. w.tx.fee \in Nat /\ tx.fee \in Nat
        BY <1>2, <1>4, <4>2, TxFacts DEF PoolEntries
      <4> QED BY <4>1, <4>2, <4>3
    <3> QED BY <3>1, <3>2, <3>3
  <2>7. IsFiniteSet(q) /\ Cardinality(q) <= MaxPool
    <3>1. CASE q = rest \cup {new} /\ Cardinality(rest) < MaxPool
      <4>1. IsFiniteSet(q) /\ Cardinality(q) = Cardinality(rest) + 1
        BY <2>3, <2>5, <3>1, FS_AddElement
      <4> QED BY <1>4, <2>3, <3>1, <4>1
    <3>2. CASE q = rest
      BY <1>4, <2>3, <3>2
    <3>3. CASE q = (rest \ {worst}) \cup {new} /\ worst \in rest
      <4>1. IsFiniteSet(rest \ {worst}) /\ Cardinality(rest \ {worst}) = Cardinality(rest) - 1
        BY <2>3, <3>3, FS_RemoveElement
      <4>2. new \notin rest \ {worst}
        BY <2>5
      <4>3. IsFiniteSet(q) /\ Cardinality(q) = Cardinality(rest \ {worst}) + 1
        BY <3>3, <4>1, <4>2, FS_AddElement
      <4> QED BY <1>4, <2>3, <4>1, <4>3
    <3> QED BY <2>6, <3>1, <3>2, <3>3
  <2>8. q \subseteq rest \cup {new} /\ rest \subseteq p
    BY <1>2, <2>6
  <2>9. GoodPool(q)
    <3>1. q \subseteq PoolEntries
      BY <1>4, <1>5, <2>8
    <3>2. OneEach(q)
      BY <1>4, <1>5, <2>4, <2>8 DEF GoodPool, OneEach
    <3> QED BY <2>7, <3>1, <3>2 DEF GoodPool
  <2>10. \A e \in q : e \in base \/ (e.age = 0 /\ e.tx \in txs /\ Admissible(e.tx, s))
    BY <1>5, <2>2, <2>8 DEF Offered
  <2>11. ASSUME NEW e \in base \ q PROVE \E t \in txs : Admissible(t, s) /\ t.fee > e.tx.fee
    <3>1. CASE e \notin p
      BY <2>11, <3>1 DEF Offered
    <3>2. CASE e \in p
      <4>1. e \in rivals \/ e = worst
        BY <1>2, <2>6, <2>11, <3>2
      <4>2. e.tx.fee \in Nat /\ tx.fee \in Nat
        BY <1>4, <3>2, TxFacts DEF PoolEntries
      <4>3. tx.fee > e.tx.fee
        <5>1. CASE e \in rivals
          BY <2>2, <5>1
        <5>2. CASE e \notin rivals
          BY <1>2, <2>6, <2>11, <3>2, <4>2, <5>2
        <5> QED BY <5>1, <5>2
      <4> QED BY <2>2, <4>3
    <3> QED BY <3>1, <3>2
  <2> QED BY <2>9, <2>10, <2>11 DEF Offered
<1> QED BY <1>6, <1>7

Offers(base, txs, s) == {p \in SUBSET PoolEntries : Offered(p, base, txs, s)}

(* The pools after the first k of a sequence of transactions.              *)
AddRun(r, base, txs, s) ==
  /\ r \in [0..Len(txs) -> SUBSET Offers(base, ToSet(txs), s)] /\ r[0] = {base}
  /\ \A k \in 1..Len(txs) : r[k] = UNION {Add(p, txs[k], s) : p \in r[k - 1]}

LEMMA AddAllFold ==
  ASSUME NEW s, NEW base, GoodPool(base), NEW txs \in Seq(Tx)
  PROVE  \E r : AddRun(r, base, txs, s) /\ AddAll(base, txs, s) = r[Len(txs)]
<1> DEFINE Eq(h) == h = [T \in SUBSET DOMAIN txs |->
                           IF T = {} THEN {base}
                           ELSE UNION {Add(p, txs[Max(T)], s) : p \in h[T \ {Max(T)}]}]
<1>1. PICK n \in Nat : n = Len(txs) /\ DOMAIN txs = 1..n /\ \A k \in 1..n : txs[k] \in Tx
  BY LenProperties
<1>2. PICK V : V = SUBSET Offers(base, ToSet(txs), s)
  OBVIOUS
<1>3. {base} \in V
  <2>1. base \in SUBSET PoolEntries /\ Offered(base, base, ToSet(txs), s)
    BY DEF Offered, GoodPool
  <2> QED BY <1>2, <2>1 DEF Offers
<1>4. ASSUME NEW k \in 1..n, NEW ps \in V PROVE UNION {Add(p, txs[k], s) : p \in ps} \in V
  <2>1. txs[k] \in Tx /\ txs[k] \in ToSet(txs)
    BY <1>1 DEF ToSet
  <2>2. ASSUME NEW p \in ps, NEW q \in Add(p, txs[k], s)
        PROVE  q \in Offers(base, ToSet(txs), s)
    <3>1. Offered(p, base, ToSet(txs), s)
      BY <1>2 DEF Offers
    <3>2. Offered(q, base, ToSet(txs), s)
      BY <2>1, <3>1, AddOffered
    <3> QED BY <3>2 DEF Offers, Offered, GoodPool
  <2> QED BY <1>2, <2>2
<1>5. PICK G : G = [a \in (1..n) \X V |-> UNION {Add(p, txs[a[1]], s) : p \in a[2]}]
  OBVIOUS
<1>6. G \in [(1..n) \X V -> V]
  BY <1>4, <1>5
<1>7. PICK b : b = {base}
  OBVIOUS
<1>8. PICK h \in [SUBSET (1..n) -> V] : FoldEq(h, n, b, G)
  BY <1>3, <1>6, <1>7, FoldSolution
<1>9. ASSUME NEW T \in SUBSET (1..n), T # {}
      PROVE  G[<<Max(T), h[T \ {Max(T)}]>>] = UNION {Add(p, txs[Max(T)], s) : p \in h[T \ {Max(T)}]}
  BY <1>5, <1>9, StepArgument
<1>10. Eq(h)
  BY <1>1, <1>7, <1>8, <1>9 DEF FoldEq
<1>11. PICK g : Eq(g) /\ AddAll(base, txs, s) = g[DOMAIN txs]
  <2> DEFINE g == CHOOSE f : Eq(f)
  <2>1. Eq(g)
    BY <1>10
  <2>2. AddAll(base, txs, s) = g[DOMAIN txs]
    BY DEF AddAll, FoldLeft, MapThenFoldSet
  <2> QED BY <2>1, <2>2
<1>12. PICK r : r = [k \in 0..n |-> g[1..k]]
  OBVIOUS
<1>13. r[0] = {base}
  <2>1. 1..0 = {} /\ {} \in SUBSET DOMAIN txs
    OBVIOUS
  <2>2. g[{}] = {base}
    BY <1>11, <2>1
  <2>3. r[0] = g[{}]
    BY <1>12, <2>1
  <2> QED BY <2>2, <2>3
<1>14. ASSUME NEW k \in 1..n PROVE r[k] = UNION {Add(p, txs[k], s) : p \in r[k - 1]}
  <2>1. r[k] = g[1..k] /\ r[k - 1] = g[1..(k - 1)]
    BY <1>12
  <2>2. /\ 1..k \in SUBSET (1..n) /\ 1..k # {}
        /\ Max(1..k) = k /\ (1..k) \ {k} = 1..(k - 1)
    BY Beginnings
  <2>3. g[1..k] = UNION {Add(p, txs[Max(1..k)], s) : p \in g[(1..k) \ {Max(1..k)}]}
    BY <1>1, <1>11, <2>2
  <2> QED BY <2>1, <2>2, <2>3, ZenonT(60)
<1>15. \A k \in 0..n : r[k] \in V
  <2>1. PICK D : D = {k \in 0..n : r[k] \in V}
    OBVIOUS
  <2>2. 0 \in D
    <3>1. 0 \in 0..n
      OBVIOUS
    <3> QED BY <1>3, <1>13, <2>1, <3>1
  <2>3. ASSUME NEW k \in 0..(n - 1), k \in D PROVE k + 1 \in D
    <3>1. k + 1 \in 1..n /\ (k + 1) - 1 = k /\ k + 1 \in 0..n /\ r[k] \in V
      BY <2>1, <2>3
    <3>2. r[k + 1] = UNION {Add(p, txs[k + 1], s) : p \in r[k]}
      BY <1>14, <3>1
    <3> QED BY <1>4, <2>1, <3>1, <3>2
  <2>4. \A k \in 0..n : k \in D
    BY <2>2, <2>3, Ladder
  <2> QED BY <2>1, <2>4
<1>16. r \in [0..n -> V] /\ r[n] = AddAll(base, txs, s)
  <2>1. r \in [0..n -> V]
    BY <1>12, <1>15
  <2>2. n \in 0..n /\ 1..n = DOMAIN txs
    BY <1>1
  <2> QED BY <1>11, <1>12, <2>1, <2>2
<1> QED BY <1>1, <1>2, <1>13, <1>14, <1>16 DEF AddRun

LEMMA AddAllOffered ==
  ASSUME NEW s, NEW base, GoodPool(base), NEW txs \in Seq(Tx), NEW p \in AddAll(base, txs, s)
  PROVE  Offered(p, base, ToSet(txs), s)
<1>1. PICK r : AddRun(r, base, txs, s) /\ AddAll(base, txs, s) = r[Len(txs)]
  BY AddAllFold
<1>2. Len(txs) \in 0..Len(txs)
  BY LenProperties
<1>3. r[Len(txs)] \in SUBSET Offers(base, ToSet(txs), s)
  BY <1>1, <1>2 DEF AddRun
<1> QED BY <1>1, <1>3 DEF Offers

(* Pruning keeps nothing whose nonce the chain has consumed.               *)
LEMMA PruneFacts ==
  ASSUME NEW s, GoodState(s), NEW p \in SUBSET PoolEntries
  PROVE  /\ PruneUnminable(p, s) \subseteq p
         /\ \A e \in PruneUnminable(p, s) : ~ Consumed(e, s)
         /\ \A e \in p : e.age < GraceAge /\ ~ Consumed(e, s) => e \in PruneUnminable(p, s)
<1>1. PruneUnminable(p, s) \subseteq p
  BY DEF PruneUnminable
<1>2. ASSUME NEW e \in PruneUnminable(p, s), Consumed(e, s) PROVE FALSE
  <2>1. e \in p /\ e.tx \in Tx /\ Debits(e.tx) /\ e.tx.nonce < s.nonce[e.tx.from]
    BY <1>1, <1>2 DEF Consumed, PoolEntries
  <2>2. e.tx.nonce \in Nat /\ e.tx.from \in Addr
    BY <2>1, TxFacts DEF Debits
  <2>3. s.nonce[e.tx.from] \in Nat
    BY <2>2 DEF GoodState
  <2>4. ASSUME NEW a \in Addr, e \in MineablePrefix(p, a, s) PROVE FALSE
    <3>1. PICK mine : mine = Pending(p, a)
      OBVIOUS
    <3>2. PICK upTo : upTo = {f \in mine : f.tx.nonce <= e.tx.nonce}
      OBVIOUS
    <3>3. e \in mine /\ {f.tx.nonce : f \in upTo} = s.nonce[a]..e.tx.nonce
      BY <2>4, <3>1, <3>2 DEF MineablePrefix
    <3>4. e \in upTo
      BY <2>2, <3>2, <3>3
    <3>5. e.tx.from = a
      BY <3>1, <3>3 DEF Pending
    <3>6. e.tx.nonce \in s.nonce[a]..e.tx.nonce
      BY <3>3, <3>4
    <3> QED BY <2>1, <2>2, <2>3, <3>5, <3>6
  <2>5. e \notin Mineable(p, s)
    BY <2>4 DEF Mineable
  <2>6. e \in Unminable(p, s)
    BY <2>1, <2>5 DEF Unminable
  <2> QED BY <1>2, <2>6 DEF PruneUnminable
<1>3. ASSUME NEW e \in p, e.age < GraceAge, ~ Consumed(e, s) PROVE e \in PruneUnminable(p, s)
  <2>1. e.age \in 0..TtlAge
    BY DEF PoolEntries
  <2>2. e.age < TtlAge
    BY <1>3, <2>1, MempoolAssumption
  <2> QED BY <1>3, <2>2 DEF PruneUnminable
<1> QED BY <1>1, <1>2, <1>3

LEMMA ImageFinite ==
  ASSUME NEW S, IsFiniteSet(S), NEW f, DOMAIN f = S, f = [x \in S |-> f[x]]
  PROVE  /\ IsFiniteSet({f[x] : x \in S})
         /\ Cardinality({f[x] : x \in S}) <= Cardinality(S)
<1>1. PICK T : T = {f[x] : x \in S}
  OBVIOUS
<1>2. f \in Surjection(S, T)
  BY <1>1 DEF Surjection
<1> QED BY <1>1, <1>2, FS_Surjection

(* The template is a block that applies.                                   *)
LEMMA TemplateApplies ==
  ASSUME NEW s, GoodState(s), NEW height \in Nat,
         NEW p \in SUBSET PoolEntries, IsFiniteSet(p), NEW txs \in Templates(p, s, height)
  PROVE  txs \in Seq(Tx) /\ ApplyBlockTxs(s, height, Me, txs).ok
<1>1. Me \in Addr /\ Capacity \in Nat
  BY MempoolAssumption
<1>2. << >> \in Seq(Tx) /\ ApplyBlockTxs(s, height, Me, << >>).ok
  BY EmptySeq, SmallBlocks
<1>3. PICK some \in SelectForBlock(p, s, height) :
        txs = IF ApplyBlockTxs(s, height, Me, some).ok THEN some ELSE << >>
  BY DEF Templates
<1>4. PICK S : S = Txs(Eligible(p, s, height))
  OBVIOUS
<1>5. S \subseteq Tx /\ IsFiniteSet(S)
  <2>1. \A a : Pending(p, a) \subseteq p
    BY DEF Pending
  <2>2. \A a : MineablePrefix(p, a, s) \subseteq p
    BY <2>1 DEF MineablePrefix
  <2>3. Mineable(p, s) \subseteq p
    BY <2>2 DEF Mineable
  <2>4. PICK E : E = Eligible(p, s, height)
    OBVIOUS
  <2>5. E \subseteq p
    BY <2>3, <2>4 DEF Eligible
  <2>6. S = {e.tx : e \in E}
    BY <1>4, <2>4 DEF Txs
  <2>7. IsFiniteSet(E)
    BY <2>5, FS_Subset
  <2>8. PICK f : f = [e \in E |-> e.tx]
    OBVIOUS
  <2>9. S = {f[e] : e \in E} /\ DOMAIN f = E /\ f = [e \in E |-> f[e]]
    BY <2>6, <2>8
  <2>10. IsFiniteSet(S)
    BY <2>7, <2>9, ImageFinite
  <2> QED BY <2>5, <2>6, <2>10 DEF PoolEntries
<1>6. PICK q \in SetToSeqs(S) : some = Firsts(q, Capacity)
  BY <1>4 DEF SelectForBlock
<1>7. q \in Seq(Tx)
  <2>1. q \in [1..Cardinality(S) -> S] /\ Cardinality(S) \in Nat
    BY <1>5, <1>6, FS_CardinalityType DEF SetToSeqs
  <2> QED BY <1>5, <2>1, IsASeq
<1>8. some \in Seq(Tx)
  <2>1. PICK m : m = IF Len(q) < Capacity THEN Len(q) ELSE Capacity
    OBVIOUS
  <2>2. m \in 0..Len(q) /\ Len(q) \in Nat
    BY <1>1, <1>7, <2>1, LenProperties
  <2>3. SubSeq(q, 1, m) \in Seq(Tx)
    <3>1. \A i \in 1..m : q[i] \in Tx
      BY <1>7, <2>2, LenProperties
    <3> QED BY <1>7, <2>2, <3>1, SubSeqProperties
  <2> QED BY <1>6, <2>1, <2>3 DEF Firsts
<1> QED BY <1>2, <1>3, <1>8

(* Nothing pending is spent on the chain.                                  *)
Clear(p, c) ==
  \A e \in p : ~ Consumed(e, c[Len(c)].post) /\ e.tx \notin OnChain(c)

LEMMA Admitted ==
  ASSUME NEW c, GoodChain(c), NEW tx \in Tx, Admissible(tx, c[Len(c)].post),
         NEW e, e.tx = tx
  PROVE  ~ Consumed(e, c[Len(c)].post) /\ tx \notin OnChain(c)
<1>1. PICK s : s = c[Len(c)].post
  OBVIOUS
<1>2. GoodState(s) /\ \A t \in OnChain(c) : Spent(t, s)
  BY <1>1, ChainFacts
<1>3. tx \notin OnChain(c)
  BY <1>1, <1>2, SlotFacts, SpentNotAgain
<1>4. ~ Consumed(e, s)
  <2>1. Debits(tx) => /\ tx.nonce >= s.nonce[tx.from]
                      /\ tx.nonce \in Nat /\ s.nonce[tx.from] \in Nat
    BY <1>1, <1>2, TxFacts DEF Admissible, GoodState, Debits
  <2> QED BY <2>1 DEF Consumed
<1> QED BY <1>1, <1>3, <1>4

(* The blocks up to a height, and those above it.                          *)
LEMMA ChainParts ==
  ASSUME NEW c, GoodChain(c), NEW height \in 0..(Len(c) - 1)
  PROVE  /\ Above(c, height) \subseteq OnChain(c)
         /\ \A t \in OnChain(c) : t \in Above(c, height) \/ \E i \in 1..(height + 1) : t \in ToSet(c[i].txs)
         /\ \A i \in 1..(height + 1) : ToSet(c[i].txs) \subseteq OnChain(c)
<1>1. Len(c) \in Nat /\ DOMAIN c = 1..Len(c)
  BY ChainFacts
<1>2. \A i \in (height + 2)..Len(c) : i \in DOMAIN c
  BY <1>1
<1>3. \A i \in 1..(height + 1) : i \in DOMAIN c
  BY <1>1
<1>4. \A i \in DOMAIN c : i \in (height + 2)..Len(c) \/ i \in 1..(height + 1)
  BY <1>1
<1>5. Above(c, height) \subseteq OnChain(c)
  BY <1>2 DEF Above, OnChain
<1>6. \A i \in 1..(height + 1) : ToSet(c[i].txs) \subseteq OnChain(c)
  BY <1>3 DEF OnChain
<1>7. \A t \in OnChain(c) : t \in Above(c, height) \/ \E i \in 1..(height + 1) : t \in ToSet(c[i].txs)
  <2>1. SUFFICES ASSUME NEW t \in OnChain(c)
                 PROVE  t \in Above(c, height) \/ \E i \in 1..(height + 1) : t \in ToSet(c[i].txs)
    OBVIOUS
  <2>2. PICK i \in DOMAIN c : t \in ToSet(c[i].txs)
    BY DEF OnChain
  <2>3. CASE i \in (height + 2)..Len(c)
    BY <2>2, <2>3 DEF Above
  <2>4. CASE i \in 1..(height + 1)
    BY <2>2, <2>4
  <2> QED BY <1>4, <2>3, <2>4
<1> QED BY <1>5, <1>6, <1>7

(* A change of the tip: the new chain shares the blocks up to the fork.    *)
TipChange(fork, old, new) ==
  /\ GoodChain(old) /\ GoodChain(new)
  /\ fork \in 0..(Len(old) - 1) /\ Shares(old, new, fork + 1)

LEMMA ReconcileClear ==
  ASSUME NEW fork, NEW old, NEW new, TipChange(fork, old, new),
         GoodPool(pool), Clear(pool, old), NEW p \in Reconcile(fork, old, new)
  PROVE  GoodPool(p) /\ Clear(p, new)
<1>1. PICK s : s = new[Len(new)].post
  OBVIOUS
<1>2. GoodState(s) /\ Len(new) \in Nat /\ Len(old) \in Nat
  BY <1>1, ChainFacts DEF TipChange
<1>3. fork \in 0..(Len(new) - 1) /\ fork \in 0..(Len(old) - 1)
  BY <1>2 DEF TipChange, Shares
<1>4. PICK q \in AddAll(pool, TxsAbove(old, fork), s) :
        p = PruneUnminable({e \in q : e.tx \notin ToSet(TxsAbove(new, fork))}, s)
  BY <1>1 DEF Reconcile
<1>5. PICK txs \in Seq(Tx) : txs = TxsAbove(old, fork)
  BY <1>3, TxsAboveSet DEF TipChange
<1>6. ToSet(TxsAbove(new, fork)) = Above(new, fork)
  BY <1>3, TxsAboveSet DEF TipChange
<1>7. Offered(q, pool, ToSet(txs), s)
  BY <1>4, <1>5, AddAllOffered
<1>8. PICK kept : kept = {e \in q : e.tx \notin Above(new, fork)}
  OBVIOUS
<1>9. p = PruneUnminable(kept, s) /\ q \subseteq PoolEntries /\ kept \in SUBSET PoolEntries
  BY <1>4, <1>6, <1>7, <1>8 DEF Offered, GoodPool
<1>10. p \subseteq kept /\ p \subseteq q /\ \A e \in p : ~ Consumed(e, s)
  BY <1>2, <1>8, <1>9, PruneFacts
<1>11. GoodPool(p)
  <2>1. GoodPool(q)
    BY <1>7 DEF Offered
  <2>2. IsFiniteSet(p) /\ Cardinality(p) <= Cardinality(q)
    BY <1>10, <2>1, FS_Subset DEF GoodPool
  <2>3. Cardinality(p) \in Nat /\ Cardinality(q) \in Nat /\ MaxPool \in Nat
    BY <2>1, <2>2, FS_CardinalityType, MempoolAssumption DEF GoodPool
  <2> QED BY <1>10, <2>1, <2>2, <2>3 DEF GoodPool, OneEach
<1>12. ASSUME NEW e \in p PROVE e.tx \notin OnChain(new)
  <2>1. e \in q /\ e.tx \notin Above(new, fork) /\ e.tx \in Tx
    BY <1>8, <1>9, <1>10 DEF PoolEntries
  <2>2. CASE e \in pool
    <3>1. \A i \in 1..(fork + 1) : e.tx \notin ToSet(old[i].txs)
      BY <1>3, <2>2, ChainParts DEF Clear, TipChange
    <3>2. \A i \in 1..(fork + 1) : e.tx \notin ToSet(new[i].txs)
      BY <3>1 DEF TipChange, Shares
    <3> QED BY <1>3, <2>1, <3>2, ChainParts DEF TipChange
  <2>3. CASE Admissible(e.tx, s)
    BY <1>1, <2>1, <2>3, Admitted DEF TipChange
  <2> QED BY <1>7, <2>1, <2>2, <2>3 DEF Offered
<1> QED BY <1>1, <1>10, <1>11, <1>12 DEF Clear

-----------------------------------------------------------------------------
(* The invariant.                                                          *)

ChainBounded == Len(Founders) < Len(chain) /\ Len(chain) <= MaxHeight + 1

IInv ==
  /\ GoodChain(chain) /\ ChainBounded
  /\ GoodPool(pool) /\ Clear(pool, chain)

(* The tip changes of Next: what they share with the chain, and how long   *)
(* the new one is.                                                         *)
OnTip(fork) ==
  /\ TipChange(fork, chain, chain') /\ Len(chain') = Len(chain) + 1
  /\ Len(chain') <= MaxHeight + 1
  /\ pool' \in Reconcile(fork, chain, chain')

LEMMA MineOwnTip ==
  ASSUME IInv, MineOwn
  PROVE  OnTip(Height)
<1>1. /\ Len(chain) \in Nat \ {0} /\ GoodState(TipState) /\ Len(chain) \in Nat
      /\ GoodChain(chain)
  BY ChainFacts DEF IInv, TipState
<1>2. PICK txs \in Templates(pool, TipState, Len(chain)) :
        OnTipChanged(Height, Extend(chain, Me, txs))
  BY DEF MineOwn
<1>3. pool \in SUBSET PoolEntries /\ IsFiniteSet(pool)
  BY DEF IInv, GoodPool
<1>4. txs \in Seq(Tx) /\ ApplyBlockTxs(TipState, Len(chain), Me, txs).ok
  BY <1>1, <1>3, TemplateApplies
<1>5. chain' = Extend(chain, Me, txs) /\ pool' \in Reconcile(Height, chain, chain')
  BY <1>2 DEF OnTipChanged
<1>6. /\ GoodChain(chain') /\ Len(chain') = Len(chain) + 1
      /\ Shares(chain, chain', Len(chain))
  BY <1>1, <1>4, <1>5, ExtendGood, MempoolAssumption DEF TipState
<1>7. Height < MaxHeight /\ Height = Len(chain) - 1 /\ MaxHeight \in Nat
  BY MempoolAssumption DEF MineOwn, Height
<1>8. Len(chain') <= MaxHeight + 1 /\ Height \in 0..(Len(chain) - 1) /\ Height + 1 = Len(chain)
  BY <1>1, <1>6, <1>7
<1> QED BY <1>1, <1>5, <1>6, <1>8 DEF OnTip, TipChange

LEMMA NetworkBranchTip ==
  ASSUME IInv, NetworkBranch
  PROVE  \E fork : OnTip(fork)
<1>1. /\ Len(chain) \in Nat \ {0} /\ GoodChain(chain)
      /\ MaxHeight \in Nat /\ MaxReorg \in Nat /\ Len(Founders) \in Nat
  BY ChainFacts, MempoolAssumption, LenProperties DEF IInv
<1>2. PICK displaced \in 0..MaxReorg :
        /\ Height - displaced >= Len(Founders) /\ Height + 1 <= MaxHeight
        /\ \E new \in Extensions(SubSeq(chain, 1, Len(chain) - displaced), displaced + 1) :
              OnTipChanged(Height - displaced, new)
  BY DEF NetworkBranch
<1>3. PICK m : m = Len(chain) - displaced
  OBVIOUS
<1>4. PICK c : c = SubSeq(chain, 1, m)
  OBVIOUS
<1>5. PICK new \in Extensions(c, displaced + 1) : OnTipChanged(Height - displaced, new)
  BY <1>2, <1>3, <1>4
<1>6. /\ displaced \in Nat /\ m \in 1..Len(chain) /\ Height = Len(chain) - 1
      /\ Height - displaced = m - 1
  BY <1>1, <1>2, <1>3 DEF Height
<1>7. GoodChain(c) /\ Len(c) = m /\ Shares(chain, c, m)
  BY <1>1, <1>4, <1>6, PrefixGood
<1>8. new \in Longer(c, displaced + 1)
  BY <1>6, <1>7, ExtensionsGood
<1>9. GoodChain(new) /\ Len(new) = m + (displaced + 1) /\ Shares(c, new, m)
  BY <1>7, <1>8 DEF Longer, GoodChains
<1>10. Len(new) = Len(chain) + 1 /\ Len(new) <= MaxHeight + 1
  BY <1>1, <1>2, <1>3, <1>6, <1>9
<1>11. Shares(chain, new, m)
  BY <1>6, <1>7, <1>9 DEF Shares
<1>12. chain' = new /\ pool' \in Reconcile(m - 1, chain, chain')
  BY <1>5, <1>6 DEF OnTipChanged
<1>13. m - 1 \in 0..(Len(chain) - 1) /\ (m - 1) + 1 = m
  BY <1>1, <1>6
<1>14. OnTip(m - 1)
  BY <1>1, <1>9, <1>10, <1>11, <1>12, <1>13 DEF OnTip, TipChange
<1> QED BY <1>14

LEMMA TickKeeps ==
  ASSUME IInv, Tick
  PROVE  GoodPool(pool') /\ Clear(pool', chain)
<1>1. PICK f : f = [e \in pool |-> [e EXCEPT !.age = IF @ < TtlAge THEN @ + 1 ELSE @]]
  OBVIOUS
<1>2. pool' = {f[e] : e \in pool} /\ DOMAIN f = pool /\ f = [e \in pool |-> f[e]]
  BY <1>1 DEF Tick
<1>3. GoodPool(pool) /\ Clear(pool, chain) /\ IsFiniteSet(pool) /\ pool \subseteq PoolEntries
  BY DEF IInv, GoodPool
<1>4. ASSUME NEW e \in pool PROVE f[e] \in PoolEntries /\ f[e].tx = e.tx
  <2>1. e \in PoolEntries /\ e.age \in 0..TtlAge /\ TtlAge \in Nat
    BY <1>3, MempoolAssumption DEF PoolEntries
  <2>2. (IF e.age < TtlAge THEN e.age + 1 ELSE e.age) \in 0..TtlAge
    BY <2>1
  <2>3. f[e] = [e EXCEPT !.age = IF e.age < TtlAge THEN e.age + 1 ELSE e.age]
    BY <1>1
  <2> QED BY <2>1, <2>2, <2>3 DEF PoolEntries
<1>5. IsFiniteSet(pool') /\ Cardinality(pool') <= MaxPool
  <2>1. IsFiniteSet(pool') /\ Cardinality(pool') <= Cardinality(pool)
    BY <1>2, <1>3, ImageFinite
  <2>2. Cardinality(pool) <= MaxPool /\ Cardinality(pool) \in Nat
        /\ Cardinality(pool') \in Nat /\ MaxPool \in Nat
    BY <1>3, <2>1, FS_CardinalityType, MempoolAssumption DEF GoodPool
  <2> QED BY <2>1, <2>2
<1>6. OneEach(pool')
  <2>1. ASSUME NEW e \in pool, NEW g \in pool, SameSlot(f[e].tx, f[g].tx) PROVE f[e] = f[g]
    BY <1>3, <1>4, <2>1 DEF GoodPool, OneEach
  <2> QED BY <1>2, <2>1 DEF OneEach
<1>7. Clear(pool', chain)
  BY <1>2, <1>3, <1>4 DEF Clear, Consumed
<1> QED BY <1>2, <1>4, <1>5, <1>6, <1>7 DEF GoodPool

LEMMA AddTxKeeps ==
  ASSUME IInv, AddTx
  PROVE  GoodPool(pool') /\ Clear(pool', chain)
<1>1. PICK tx \in Tx : pool' \in Add(pool, tx, TipState)
  BY DEF AddTx
<1>2. GoodChain(chain) /\ GoodPool(pool) /\ Clear(pool, chain)
  BY DEF IInv
<1>3. Offered(pool, pool, {tx}, TipState)
  BY <1>2 DEF Offered
<1>4. Offered(pool', pool, {tx}, TipState)
  BY <1>1, <1>3, AddOffered
<1>5. ASSUME NEW e \in pool'
      PROVE  ~ Consumed(e, chain[Len(chain)].post) /\ e.tx \notin OnChain(chain)
  <2>1. CASE e \in pool
    BY <1>2, <2>1 DEF Clear
  <2>2. CASE e.tx \in {tx} /\ Admissible(e.tx, TipState)
    BY <1>2, <2>2, Admitted DEF TipState
  <2> QED BY <1>4, <2>1, <2>2 DEF Offered
<1> QED BY <1>4, <1>5 DEF Offered, Clear

LEMMA Invariance == Spec => []IInv
<1>1. Init => IInv
  <2> SUFFICES ASSUME Init PROVE IInv
    OBVIOUS
  <2>1. chain = Founded /\ pool = {}
    BY DEF Init, Founded
  <2>2. GoodChain(chain) /\ Len(chain) = 1 + Len(Founders)
    BY <2>1, InitGood
  <2>3. ChainBounded
    BY <2>2, MempoolAssumption, LenProperties DEF ChainBounded
  <2>4. GoodPool(pool) /\ Clear(pool, chain)
    BY <2>1, FS_EmptySet, MempoolAssumption DEF GoodPool, OneEach, Clear
  <2> QED BY <2>2, <2>3, <2>4 DEF IInv
<1>2. IInv /\ [Next]_vars => IInv'
  <2> SUFFICES ASSUME IInv, [Next]_vars PROVE IInv'
    OBVIOUS
  <2>1. ASSUME NEW fork, OnTip(fork) PROVE IInv'
    <3>1. TipChange(fork, chain, chain') /\ GoodPool(pool) /\ Clear(pool, chain)
      BY <2>1 DEF IInv, OnTip
    <3>2. GoodPool(pool') /\ Clear(pool', chain')
      BY <2>1, <3>1, ReconcileClear DEF OnTip
    <3>3. GoodChain(chain')
      BY <3>1 DEF TipChange
    <3>4. Len(Founders) < Len(chain') /\ Len(chain') <= MaxHeight + 1
      <4>1. Len(chain) \in Nat /\ Len(Founders) \in Nat
        BY <3>1, ChainFacts, LenProperties, MempoolAssumption DEF TipChange
      <4> QED BY <2>1, <4>1 DEF IInv, ChainBounded, OnTip
    <3> QED BY <3>2, <3>3, <3>4 DEF IInv, ChainBounded
  <2>2. CASE AddTx
    <3>1. chain' = chain
      BY <2>2 DEF AddTx
    <3>2. GoodPool(pool') /\ Clear(pool', chain)
      BY <2>2, AddTxKeeps
    <3> QED BY <3>1, <3>2 DEF IInv, ChainBounded
  <2>3. CASE MineOwn
    BY <2>1, <2>3, MineOwnTip
  <2>4. CASE NetworkBranch
    BY <2>1, <2>4, NetworkBranchTip
  <2>5. CASE Tick
    <3>1. chain' = chain
      BY <2>5 DEF Tick
    <3>2. GoodPool(pool') /\ Clear(pool', chain)
      BY <2>5, TickKeeps
    <3> QED BY <3>1, <3>2 DEF IInv, ChainBounded
  <2>6. CASE UNCHANGED vars
    BY <2>6 DEF vars, IInv, ChainBounded
  <2> QED BY <2>2, <2>3, <2>4, <2>5, <2>6 DEF Next
<1> QED BY <1>1, <1>2, PTL DEF Spec

-----------------------------------------------------------------------------
(* The results.                                                            *)

(* The pool never exceeds its limit, and no account is ever overdrawn.     *)
THEOREM MempoolTyped == Spec => []TypeOK
<1>1. IInv => TypeOK
  <2> SUFFICES ASSUME IInv PROVE TypeOK
    OBVIOUS
  <2>1. /\ Len(chain) \in Nat \ {0} /\ GoodState(TipState)
        /\ Len(Founders) \in Nat /\ MaxHeight \in Nat
    BY ChainFacts, MempoolAssumption, LenProperties DEF IInv, TipState
  <2>2. Height \in 0..MaxHeight
    BY <2>1 DEF IInv, ChainBounded, Height
  <2>3. pool \subseteq [tx : Tx, age : 0..TtlAge] /\ Cardinality(pool) <= MaxPool
    BY DEF IInv, GoodPool, PoolEntries
  <2> QED BY <2>1, <2>2, <2>3 DEF TypeOK, GoodState
<1> QED BY <1>1, Invariance, PTL

(* Coins are made by block rewards alone, in every block of the chain,     *)
(* whatever the network mines and reorganises.                             *)
THEOREM CoinsConserved == Spec => []SupplyConserved
<1>1. IInv => SupplyConserved
  BY DEF IInv, GoodChain, SupplyConserved, Rewards
<1> QED BY <1>1, Invariance, PTL

(* The pool holds one transaction of those that exclude one another, and   *)
(* none that the chain has confirmed or whose nonce it has consumed.       *)
THEOREM PoolInStep == Spec => []PoolFollowsChain
<1>1. IInv => PoolFollowsChain
  <2> SUFFICES ASSUME IInv PROVE PoolFollowsChain
    OBVIOUS
  <2>1. OnePerSlot
    BY DEF IInv, GoodPool, OneEach, OnePerSlot
  <2>2. ASSUME NEW e \in pool
        PROVE  /\ ~ Consumed(e, TipState)
               /\ \A i \in DOMAIN chain : e.tx \notin ToSet(chain[i].txs)
    BY DEF IInv, Clear, OnChain, TipState
  <2> QED BY <2>1, <2>2 DEF PoolFollowsChain, NothingConsumed
<1> QED BY <1>1, Invariance, PTL

(* The last block both chains have is the fork's, or one above it that the *)
(* new branch mined again.                                                 *)
LEMMA CommonFacts ==
  ASSUME NEW fork, OnTip(fork)
  PROVE  /\ Common \in Nat \ {0} /\ Common <= Len(chain) /\ fork + 1 <= Common
         /\ \A j \in 1..Common : chain'[j] = chain[j]
<1>1. PICK c : c = chain
  OBVIOUS
<1>2. PICK d : d = chain'
  OBVIOUS
<1>3. /\ GoodChain(c) /\ GoodChain(d) /\ Len(d) = Len(c) + 1
      /\ fork \in 0..(Len(c) - 1) /\ \A i \in 1..(fork + 1) : d[i] = c[i]
  BY <1>1, <1>2 DEF OnTip, TipChange, Shares
<1>4. PICK n \in Nat \ {0} : /\ n = Len(c) /\ DOMAIN c = 1..n
                             /\ DOMAIN d = 1..(n + 1) /\ Len(d) = n + 1
  BY <1>3, ChainFacts
<1>5. c \in Seq(Blocks) /\ d \in Seq(Blocks)
  BY <1>3 DEF GoodChain
<1>6. \A i \in 1..n : /\ DOMAIN SubSeq(c, 1, i) = 1..i /\ DOMAIN SubSeq(d, 1, i) = 1..i
                      /\ \A j \in 1..i : SubSeq(c, 1, i)[j] = c[j] /\ SubSeq(d, 1, i)[j] = d[j]
                      /\ SubSeq(c, 1, i) \in Seq(Blocks) /\ SubSeq(d, 1, i) \in Seq(Blocks)
                      /\ Len(SubSeq(c, 1, i)) = i /\ Len(SubSeq(d, 1, i)) = i
  <2>1. SUFFICES ASSUME NEW i \in 1..n
                 PROVE  /\ DOMAIN SubSeq(c, 1, i) = 1..i /\ DOMAIN SubSeq(d, 1, i) = 1..i
                        /\ \A j \in 1..i : SubSeq(c, 1, i)[j] = c[j] /\ SubSeq(d, 1, i)[j] = d[j]
                        /\ SubSeq(c, 1, i) \in Seq(Blocks) /\ SubSeq(d, 1, i) \in Seq(Blocks)
                        /\ Len(SubSeq(c, 1, i)) = i /\ Len(SubSeq(d, 1, i)) = i
    OBVIOUS
  <2>2. /\ SubSeq(c, 1, i) \in Seq(Blocks) /\ Len(SubSeq(c, 1, i)) = i
        /\ \A j \in 1..i : SubSeq(c, 1, i)[j] = c[j]
    BY <1>4, <1>5, SubSeqProperties
  <2>3. /\ SubSeq(d, 1, i) \in Seq(Blocks) /\ Len(SubSeq(d, 1, i)) = i
        /\ \A j \in 1..i : SubSeq(d, 1, i)[j] = d[j]
    BY <1>4, <1>5, SubSeqProperties
  <2> QED BY <2>2, <2>3, LenProperties
<1> DEFINE Parting(i) == /\ SubSeq(c, 1, i) = SubSeq(d, 1, i)
                      /\ (i = Len(c) \/ c[i + 1] # d[i + 1])
<1>7. ASSUME NEW i \in 1..n, \A j \in 1..i : c[j] = d[j]
      PROVE  SubSeq(c, 1, i) = SubSeq(d, 1, i)
  BY <1>6, <1>7, SeqEqual
<1>8. \E i \in DOMAIN c : Parting(i)
  <2>1. PICK diff : diff = {j \in 1..n : c[j] # d[j]}
    OBVIOUS
  <2>2. CASE diff = {}
    <3>1. \A j \in 1..n : c[j] = d[j]
      BY <2>1, <2>2
    <3>2. n \in 1..n
      OBVIOUS
    <3>3. SubSeq(c, 1, n) = SubSeq(d, 1, n)
      BY <1>7, <3>1, <3>2
    <3> QED BY <1>4, <3>2, <3>3
  <2>3. CASE diff # {}
    <3>1. diff \in SUBSET Nat
      BY <2>1
    <3>2. PICK m \in diff : \A j \in diff : m <= j
      BY <2>3, <3>1, LeastNumber
    <3>3. m \in 1..n /\ c[m] # d[m] /\ m # 1
      BY <1>3, <1>4, <2>1, <3>2
    <3>4. PICK i : i = m - 1
      OBVIOUS
    <3>5. i \in 1..n /\ i + 1 = m /\ \A j \in 1..i : j \in 1..n /\ ~ (m <= j)
      BY <3>3, <3>4
    <3>6. \A j \in 1..i : c[j] = d[j]
      BY <2>1, <3>2, <3>5
    <3>7. SubSeq(c, 1, i) = SubSeq(d, 1, i)
      BY <1>7, <3>5, <3>6
    <3> QED BY <1>4, <3>3, <3>5, <3>7
  <2> QED BY <2>2, <2>3
<1>9. Common \in DOMAIN c /\ Parting(Common)
  BY <1>1, <1>2, <1>8 DEF Common
<1>10. \A j \in 1..Common : c[j] = d[j]
  BY <1>4, <1>6, <1>9
<1>11. fork + 1 <= Common
  <2>1. SUFFICES ASSUME ~ (fork + 1 <= Common) PROVE FALSE
    OBVIOUS
  <2>2. Common + 1 \in 1..(fork + 1) /\ Common # n
    BY <1>3, <1>4, <1>9, <2>1
  <2> QED BY <1>3, <1>4, <1>9, <2>2
<1> QED BY <1>1, <1>2, <1>4, <1>9, <1>10, <1>11

(* What a tip change puts back and what it confirms, by the blocks above   *)
(* the fork: whatever more they hold is spent on both chains.              *)
LEMMA BranchTxs ==
  ASSUME NEW fork, OnTip(fork)
  PROVE  /\ RestoredTxs \subseteq Above(chain, fork) /\ RestoredTxs \subseteq Tx
         /\ \A t \in Above(chain, fork) : t \in RestoredTxs \/ t \in OnChain(chain')
         /\ \A t \in Above(chain', fork) :
              t \in ConfirmedTxs \/ (t \in OnChain(chain) /\ t \in OnChain(chain'))
<1>1. PICK k \in Nat \ {0} :
        /\ k = Common /\ k <= Len(chain) /\ fork + 1 <= k
        /\ \A j \in 1..k : chain'[j] = chain[j]
  BY CommonFacts
<1>2. /\ GoodChain(chain) /\ GoodChain(chain') /\ Len(chain') = Len(chain) + 1
      /\ fork \in 0..(Len(chain) - 1) /\ Len(chain) \in Nat
      /\ DOMAIN chain = 1..Len(chain) /\ DOMAIN chain' = 1..Len(chain')
  BY ChainFacts DEF OnTip, TipChange
<1>3. k - 1 \in 0..(Len(chain) - 1) /\ k - 1 \in 0..(Len(chain') - 1) /\ (k - 1) + 2 = k + 1
  BY <1>1, <1>2
<1>4. RestoredTxs = Above(chain, k - 1)
  BY <1>1, <1>2, <1>3, TxsAboveSet DEF RestoredTxs
<1>5. ConfirmedTxs = Above(chain', k - 1)
  BY <1>1, <1>2, <1>3, TxsAboveSet DEF ConfirmedTxs
<1>6. RestoredTxs \subseteq Above(chain, fork)
  <2>1. \A i \in (k + 1)..Len(chain) : i \in (fork + 2)..Len(chain)
    BY <1>1, <1>2
  <2> QED BY <1>3, <1>4, <2>1 DEF Above
<1>7. RestoredTxs \subseteq Tx
  BY <1>2, <1>3, <1>4, ChainParts, ChainFacts
<1>8. ASSUME NEW t \in Above(chain, fork)
      PROVE  t \in RestoredTxs \/ t \in OnChain(chain')
  <2>1. PICK i \in (fork + 2)..Len(chain) : t \in ToSet(chain[i].txs)
    BY <1>8 DEF Above
  <2>2. CASE i <= k
    <3>1. i \in 1..k /\ i \in DOMAIN chain'
      BY <1>1, <1>2, <2>2
    <3> QED BY <1>1, <2>1, <3>1 DEF OnChain
  <2>3. CASE ~ (i <= k)
    <3>1. i \in (k + 1)..Len(chain)
      BY <1>1, <1>2, <2>3
    <3> QED BY <1>3, <1>4, <2>1, <3>1 DEF Above
  <2> QED BY <2>2, <2>3
<1>9. ASSUME NEW t \in Above(chain', fork)
      PROVE  t \in ConfirmedTxs \/ (t \in OnChain(chain) /\ t \in OnChain(chain'))
  <2>1. PICK i \in (fork + 2)..Len(chain') : t \in ToSet(chain'[i].txs)
    BY <1>9 DEF Above
  <2>2. CASE i <= k
    <3>1. i \in 1..k /\ i \in DOMAIN chain' /\ i \in DOMAIN chain
      BY <1>1, <1>2, <2>2
    <3> QED BY <1>1, <2>1, <3>1 DEF OnChain
  <2>3. CASE ~ (i <= k)
    <3>1. i \in (k + 1)..Len(chain')
      BY <1>1, <1>2, <2>3
    <3> QED BY <1>3, <1>5, <2>1, <3>1 DEF Above
  <2> QED BY <2>2, <2>3
<1> QED BY <1>6, <1>7, <1>8, <1>9

(* Of a transition that changes the tip: nothing in its grace is dropped   *)
(* without a reason.                                                       *)
LEMMA GraceStep ==
  ASSUME IInv, NEW fork, OnTip(fork), NEW e \in pool, e.age < GraceAge, e \notin pool'
  PROVE  \/ e.tx \in ConfirmedTxs
         \/ Consumed(e, TipState')
         \/ \E t \in RestoredTxs : t.fee > e.tx.fee
<1>1. PICK s : s = TipState'
  OBVIOUS
<1>2. /\ GoodChain(chain) /\ GoodChain(chain') /\ GoodPool(pool) /\ Clear(pool, chain)
      /\ s = chain'[Len(chain')].post /\ GoodState(s)
  BY <1>1, ChainFacts DEF IInv, OnTip, TipChange, TipState
<1>3. fork \in 0..(Len(chain) - 1) /\ fork \in 0..(Len(chain') - 1)
  BY <1>2, ChainFacts DEF OnTip, TipChange
<1>4. PICK q \in AddAll(pool, TxsAbove(chain, fork), s) :
        pool' = PruneUnminable({x \in q : x.tx \notin ToSet(TxsAbove(chain', fork))}, s)
  BY <1>2 DEF OnTip, Reconcile
<1>5. PICK txs \in Seq(Tx) : txs = TxsAbove(chain, fork) /\ ToSet(txs) = Above(chain, fork)
  BY <1>2, <1>3, TxsAboveSet
<1>6. ToSet(TxsAbove(chain', fork)) = Above(chain', fork)
  BY <1>2, <1>3, TxsAboveSet
<1>7. Offered(q, pool, ToSet(txs), s)
  BY <1>2, <1>4, <1>5, AddAllOffered
<1>8. CASE e \notin q
  <2>1. PICK t \in Above(chain, fork) : Admissible(t, s) /\ t.fee > e.tx.fee
    BY <1>5, <1>7, <1>8 DEF Offered
  <2>2. t \in Tx
    BY <1>2, <1>3, <2>1, ChainParts, ChainFacts
  <2>3. t \notin OnChain(chain')
    <3>1. PICK x : x = Fresh(t)
      OBVIOUS
    <3>2. x.tx = t
      BY <3>1 DEF Fresh
    <3> QED BY <1>2, <2>1, <2>2, <3>2, Admitted
  <2>4. t \in RestoredTxs
    BY <2>1, <2>3, BranchTxs
  <2> QED BY <2>1, <2>4
<1>9. CASE e \in q /\ e.tx \in Above(chain', fork)
  <2>1. e.tx \notin OnChain(chain)
    BY <1>2 DEF Clear
  <2> QED BY <1>9, <2>1, BranchTxs
<1>10. CASE e \in q /\ e.tx \notin Above(chain', fork)
  <2>1. PICK kept : kept = {x \in q : x.tx \notin Above(chain', fork)}
    OBVIOUS
  <2>2. e \in kept /\ kept \in SUBSET PoolEntries /\ pool' = PruneUnminable(kept, s)
    BY <1>4, <1>6, <1>7, <1>10, <2>1 DEF Offered, GoodPool
  <2>3. Consumed(e, s)
    BY <1>2, <2>2, PruneFacts
  <2> QED BY <1>1, <2>3
<1> QED BY <1>8, <1>9, <1>10

(* t waits in p, or one that base had holds its slot.                      *)
Waits(t, p, base) ==
  Fresh(t) \in p \/ \E e \in base : SameSlot(e.tx, t) /\ e.tx.fee >= t.fee

(* Offering another transaction of the same chain to a pool with room      *)
(* makes t wait if it is t, and leaves it waiting if not.                  *)
LEMMA OfferKeeps ==
  ASSUME NEW s, NEW base, NEW txs \in SUBSET Tx, NEW p, Offered(p, base, txs, s),
         NEW tx \in txs, NEW q \in Add(p, tx, s), NEW t \in txs, Admissible(t, s),
         \A u, v \in txs : SameSlot(u, v) => u = v,
         Admissible(tx, s) /\ tx \notin Txs(p) => Cardinality(p) < MaxPool,
         tx = t \/ Waits(t, p, base)
  PROVE  Waits(t, q, base)
<1>1. PICK rivals : rivals = {e \in p : SameSlot(e.tx, tx)}
  OBVIOUS
<1>2. PICK rest : rest = p \ rivals
  OBVIOUS
<1>3. PICK new : new = Fresh(tx)
  OBVIOUS
<1>4. GoodPool(p) /\ p \subseteq PoolEntries /\ IsFiniteSet(p) /\ t \in Tx /\ tx \in Tx
  BY DEF Offered, GoodPool
<1>5. \A e \in p : e \in PoolEntries /\ e.tx \in Tx /\ e = [tx |-> e.tx, age |-> e.age]
  BY <1>4 DEF PoolEntries
<1>6. ASSUME NEW e \in p, SameSlot(e.tx, t), e.tx.fee >= t.fee PROVE Waits(t, p, base)
  <2>1. CASE e \in base
    BY <1>6, <2>1 DEF Waits
  <2>2. CASE e \notin base
    <3>1. e.age = 0 /\ e.tx \in txs
      BY <2>2 DEF Offered
    <3>2. e.tx = t
      BY <1>6, <3>1
    <3> QED BY <1>5, <3>1, <3>2 DEF Waits, Fresh
  <2> QED BY <2>1, <2>2
<1>7. CASE q = p
  <2>1. CASE tx # t
    BY <1>7, <2>1
  <2>2. CASE tx = t
    <3>1. CASE t \in Txs(p)
      <4>1. PICK e \in p : e.tx = t
        BY <3>1 DEF Txs
      <4>2. SameSlot(e.tx, t) /\ e.tx.fee >= t.fee
        BY <1>4, <4>1, SlotFacts, TxFacts
      <4> QED BY <1>6, <1>7, <4>2
    <3>2. CASE \E r \in rivals : t.fee <= r.tx.fee
      <4>1. PICK r \in rivals : t.fee <= r.tx.fee
        BY <3>2
      <4>2. r \in p /\ SameSlot(r.tx, t) /\ r.tx.fee \in Nat /\ t.fee \in Nat
        BY <1>1, <1>4, <1>5, <2>2, <4>1, TxFacts
      <4>3. r.tx.fee >= t.fee
        BY <4>1, <4>2
      <4> QED BY <1>6, <1>7, <4>2, <4>3
    <3>3. CASE ~ (t \in Txs(p)) /\ ~ \E r \in rivals : t.fee <= r.tx.fee
      <4>1. HasRoom(rest)
        <5>1. Cardinality(p) < MaxPool /\ Cardinality(rest) <= Cardinality(p)
              /\ Cardinality(rest) \in Nat /\ Cardinality(p) \in Nat /\ MaxPool \in Nat
          BY <1>2, <1>4, <2>2, <3>3, FS_Subset, FS_CardinalityType, MempoolAssumption
        <5> QED BY <5>1 DEF HasRoom
      <4>2. q = rest \cup {new}
        BY <1>1, <1>2, <1>3, <2>2, <3>3, <4>1 DEF Add, Without
      <4> QED BY <1>3, <2>2, <4>2 DEF Waits
    <3> QED BY <3>1, <3>2, <3>3
  <2> QED BY <2>1, <2>2
<1>8. CASE q # p
  <2>1. /\ ~ (tx \in Txs(p) \/ ~ Admissible(tx, s) \/ \E r \in rivals : tx.fee <= r.tx.fee)
        /\ q \in IF HasRoom(rest) THEN {rest \cup {new}}
                 ELSE IF \E e \in Cheapest(rest) : e.tx.fee >= tx.fee THEN {rest}
                 ELSE {(rest \ {worst}) \cup {new} : worst \in Cheapest(rest)}
    BY <1>1, <1>2, <1>3, <1>8 DEF Add, Without
  <2>2. HasRoom(rest)
    <3>1. Cardinality(p) < MaxPool /\ Cardinality(rest) <= Cardinality(p)
          /\ Cardinality(rest) \in Nat /\ Cardinality(p) \in Nat /\ MaxPool \in Nat
      BY <1>2, <1>4, <2>1, FS_Subset, FS_CardinalityType, MempoolAssumption
    <3> QED BY <3>1 DEF HasRoom
  <2>3. q = rest \cup {new}
    BY <2>1, <2>2
  <2>4. CASE tx = t
    BY <1>3, <2>3, <2>4 DEF Waits
  <2>5. CASE tx # t
    <3>1. CASE Fresh(t) \in p
      <4>1. Fresh(t).tx = t
        BY DEF Fresh
      <4>2. ~ SameSlot(t, tx)
        BY <2>5
      <4>3. Fresh(t) \in rest
        BY <1>1, <1>2, <3>1, <4>1, <4>2
      <4> QED BY <2>3, <4>3 DEF Waits
    <3>2. CASE ~ (Fresh(t) \in p)
      BY <2>5, <3>2 DEF Waits
    <3> QED BY <3>1, <3>2
  <2> QED BY <2>4, <2>5
<1> QED BY <1>7, <1>8

(* So they all wait when all of them have been offered.                    *)
LEMMA AllWait ==
  ASSUME NEW s, NEW base, GoodPool(base), NEW txs \in Seq(Tx),
         NEW R \in SUBSET Tx, IsFiniteSet(R), Cardinality(base) + Cardinality(R) <= MaxPool,
         \A u \in ToSet(txs) : Admissible(u, s) => u \in R,
         \A u, v \in ToSet(txs) : SameSlot(u, v) => u = v,
         NEW t \in ToSet(txs), Admissible(t, s), NEW p \in AddAll(base, txs, s)
  PROVE  Waits(t, p, base)
<1>1. PICK r : AddRun(r, base, txs, s) /\ AddAll(base, txs, s) = r[Len(txs)]
  BY AddAllFold
<1>2. PICK n \in Nat : n = Len(txs) /\ DOMAIN txs = 1..n /\ \A k \in 1..n : txs[k] \in Tx
  BY LenProperties
<1>3. PICK S : S = ToSet(txs)
  OBVIOUS
<1>4. S \in SUBSET Tx /\ \A k \in 1..n : txs[k] \in S
  BY <1>2, <1>3 DEF ToSet
<1>5. /\ r \in [0..n -> SUBSET Offers(base, S, s)]
      /\ \A k \in 1..n : r[k] = UNION {Add(q, txs[k], s) : q \in r[k - 1]}
  BY <1>1, <1>2, <1>3 DEF AddRun
<1>6. PICK m \in 1..n : txs[m] = t
  BY <1>2 DEF ToSet
<1>7. \A k \in 0..n : \A q \in r[k] : Offered(q, base, S, s)
  BY <1>5 DEF Offers
<1>8. ASSUME NEW q, Offered(q, base, S, s), NEW tx \in S, Admissible(tx, s), tx \notin Txs(q)
      PROVE  Cardinality(q) < MaxPool
  <2>1. PICK f : f = [u \in R |-> Fresh(u)]
    OBVIOUS
  <2>2. PICK F : F = {f[u] : u \in R}
    OBVIOUS
  <2>3. IsFiniteSet(F) /\ Cardinality(F) <= Cardinality(R)
    <3>1. DOMAIN f = R /\ f = [u \in R |-> f[u]]
      BY <2>1
    <3> QED BY <2>2, <3>1, ImageFinite
  <2>4. IsFiniteSet(base) /\ IsFiniteSet(base \cup F)
    BY <2>3, FS_Union DEF GoodPool
  <2>5. Cardinality(base \cup F) <= Cardinality(base) + Cardinality(F)
    <3>1. /\ Cardinality(base \cup F)
               = Cardinality(base) + Cardinality(F) - Cardinality(base \cap F)
          /\ IsFiniteSet(base \cap F)
      BY <2>3, <2>4, FS_Union, FS_Subset
    <3>2. Cardinality(base \cap F) \in Nat /\ Cardinality(base) \in Nat /\ Cardinality(F) \in Nat
      BY <2>3, <2>4, <3>1, FS_CardinalityType
    <3> QED BY <3>1, <3>2
  <2>6. Fresh(tx) \in base \cup F
    BY <1>3, <1>8, <2>1, <2>2
  <2>7. Fresh(tx) \notin q
    <3>1. Fresh(tx).tx = tx
      BY DEF Fresh
    <3> QED BY <1>8, <3>1 DEF Txs
  <2>8. q \subseteq (base \cup F) \ {Fresh(tx)}
    <3>1. ASSUME NEW e \in q PROVE e \in base \cup F
      <4>1. CASE e \in base
        BY <4>1
      <4>2. CASE e \notin base
        <5>1. e.age = 0 /\ e.tx \in R /\ e \in PoolEntries
          BY <1>3, <1>8, <4>2 DEF Offered, GoodPool
        <5>2. e = Fresh(e.tx)
          BY <5>1 DEF PoolEntries, Fresh
        <5> QED BY <2>1, <2>2, <5>1, <5>2
      <4> QED BY <4>1, <4>2
    <3> QED BY <2>7, <3>1
  <2>9. /\ IsFiniteSet((base \cup F) \ {Fresh(tx)})
        /\ Cardinality((base \cup F) \ {Fresh(tx)}) = Cardinality(base \cup F) - 1
    BY <2>4, <2>6, FS_RemoveElement
  <2>10. Cardinality(q) <= Cardinality((base \cup F) \ {Fresh(tx)}) /\ IsFiniteSet(q)
    BY <2>8, <2>9, FS_Subset
  <2>11. /\ Cardinality(q) \in Nat /\ Cardinality(base) \in Nat /\ Cardinality(F) \in Nat
         /\ Cardinality(R) \in Nat /\ Cardinality(base \cup F) \in Nat /\ MaxPool \in Nat
    BY <2>3, <2>4, <2>10, FS_CardinalityType, MempoolAssumption
  <2> QED BY <2>3, <2>5, <2>9, <2>10, <2>11
<1>9. PICK D : D = {k \in 0..n : m <= k => \A q \in r[k] : Waits(t, q, base)}
  OBVIOUS
<1>10. 0 \in D
  BY <1>6, <1>9
<1>11. ASSUME NEW k \in 0..(n - 1), k \in D PROVE k + 1 \in D
  <2>1. PICK j : j = k + 1
    OBVIOUS
  <2>2. j \in 1..n /\ j - 1 = k /\ j \in 0..n /\ k \in 0..n
    BY <2>1
  <2>3. SUFFICES ASSUME m <= j, NEW q \in r[j] PROVE Waits(t, q, base)
    BY <1>9, <2>1, <2>2
  <2>4. PICK o \in r[k] : q \in Add(o, txs[j], s)
    BY <1>5, <2>2, <2>3
  <2>5. Offered(o, base, S, s) /\ txs[j] \in S
    BY <1>4, <1>7, <2>2, <2>4
  <2>6. txs[j] = t \/ Waits(t, o, base)
    <3>1. CASE m = j
      BY <1>6, <3>1
    <3>2. CASE m # j
      <4>1. m <= k
        BY <1>6, <2>1, <2>2, <2>3, <3>2
      <4> QED BY <1>9, <1>11, <2>4, <4>1
    <3> QED BY <3>1, <3>2
  <2>7. Admissible(txs[j], s) /\ txs[j] \notin Txs(o) => Cardinality(o) < MaxPool
    BY <1>8, <2>5
  <2> QED BY <1>3, <1>4, <2>4, <2>5, <2>6, <2>7, OfferKeeps
<1>12. n \in D
  <2>1. \A k \in 0..n : k \in D
    BY <1>10, <1>11, Ladder
  <2> QED BY <2>1
<1> QED BY <1>1, <1>2, <1>6, <1>9, <1>12

(* Of the same transition: a displaced transaction that the new tip admits *)
(* is pending again.                                                       *)
LEMMA ReturnStep ==
  ASSUME IInv, NEW fork, OnTip(fork), NEW t \in RestoredTxs \ ConfirmedTxs,
         Admissible(t, TipState')
  PROVE  \/ t \in Txs(pool')
         \/ \E e \in pool : SameSlot(e.tx, t) /\ e.tx.fee >= t.fee
         \/ Cardinality(pool) + Cardinality(RestoredTxs) > MaxPool
<1>1. PICK s : s = TipState'
  OBVIOUS
<1>2. /\ GoodChain(chain) /\ GoodChain(chain') /\ GoodPool(pool)
      /\ s = chain'[Len(chain')].post /\ GoodState(s)
  BY <1>1, ChainFacts DEF IInv, OnTip, TipChange, TipState
<1>3. fork \in 0..(Len(chain) - 1) /\ fork \in 0..(Len(chain') - 1)
  BY <1>2, ChainFacts DEF OnTip, TipChange
<1>4. PICK q \in AddAll(pool, TxsAbove(chain, fork), s) :
        pool' = PruneUnminable({x \in q : x.tx \notin ToSet(TxsAbove(chain', fork))}, s)
  BY <1>2 DEF OnTip, Reconcile
<1>5. PICK txs \in Seq(Tx) : txs = TxsAbove(chain, fork) /\ ToSet(txs) = Above(chain, fork)
  BY <1>2, <1>3, TxsAboveSet
<1>6. ToSet(TxsAbove(chain', fork)) = Above(chain', fork)
  BY <1>2, <1>3, TxsAboveSet
<1>7. Offered(q, pool, ToSet(txs), s)
  BY <1>2, <1>4, <1>5, AddAllOffered
<1>8. PICK R \in SUBSET Tx : R = RestoredTxs
  BY BranchTxs
<1>9. IsFiniteSet(R)
  <2>1. Common - 1 \in 0..(Len(chain) - 1)
    BY <1>2, CommonFacts, ChainFacts
  <2>2. PICK back \in Seq(Tx) : back = TxsAbove(chain, Common - 1)
    BY <1>2, <2>1, TxsAboveSet
  <2>3. R = {back[i] : i \in DOMAIN back}
    BY <1>8, <2>2 DEF RestoredTxs, ToSet
  <2>4. IsFiniteSet(DOMAIN back)
    BY LenProperties, FS_Interval
  <2>5. back = [i \in DOMAIN back |-> back[i]]
    BY LenProperties
  <2> QED BY <2>3, <2>4, <2>5, ImageFinite
<1>10. SUFFICES ASSUME Cardinality(pool) + Cardinality(R) <= MaxPool,
                       ~ \E e \in pool : SameSlot(e.tx, t) /\ e.tx.fee >= t.fee
                PROVE  t \in Txs(pool')
  <2>1. Cardinality(pool) \in Nat /\ Cardinality(R) \in Nat /\ MaxPool \in Nat
    BY <1>2, <1>9, FS_CardinalityType, MempoolAssumption DEF GoodPool
  <2> QED BY <1>8, <2>1
<1>11. ASSUME NEW u \in Tx, Admissible(u, s) PROVE u \notin OnChain(chain')
  <2>1. PICK x : x = Fresh(u)
    OBVIOUS
  <2>2. x.tx = u
    BY <2>1 DEF Fresh
  <2> QED BY <1>2, <1>11, <2>2, Admitted
<1>12. Above(chain, fork) \subseteq OnChain(chain) /\ Above(chain, fork) \subseteq Tx
  BY <1>2, <1>3, ChainParts, ChainFacts
<1>13. \A u \in ToSet(txs) : Admissible(u, s) => u \in R
  BY <1>5, <1>8, <1>11, <1>12, BranchTxs
<1>14. \A u, v \in ToSet(txs) : SameSlot(u, v) => u = v
  BY <1>2, <1>5, <1>12 DEF GoodChain
<1>15. t \in ToSet(txs) /\ Admissible(t, s) /\ t \in Tx
  BY <1>1, <1>5, <1>12, BranchTxs
<1>16. Waits(t, q, pool)
  BY <1>2, <1>4, <1>5, <1>9, <1>10, <1>13, <1>14, <1>15, AllWait
<1>17. PICK e \in q : e = Fresh(t)
  BY <1>10, <1>16 DEF Waits
<1>18. e.tx = t /\ e.age = 0
  BY <1>17 DEF Fresh
<1>19. t \notin Above(chain', fork)
  BY <1>11, <1>15, BranchTxs
<1>20. PICK kept : kept = {x \in q : x.tx \notin Above(chain', fork)}
  OBVIOUS
<1>21. e \in kept /\ kept \in SUBSET PoolEntries /\ pool' = PruneUnminable(kept, s)
  BY <1>4, <1>6, <1>7, <1>17, <1>18, <1>19, <1>20 DEF Offered, GoodPool
<1>22. ~ Consumed(e, s) /\ e.age < GraceAge
  BY <1>2, <1>15, <1>18, Admitted, MempoolAssumption
<1>23. e \in pool'
  BY <1>2, <1>21, <1>22, PruneFacts
<1> QED BY <1>18, <1>23 DEF Txs

(* No tip change loses a transaction that still has a chance: what is      *)
(* young stays unless it is confirmed, used up or out-bid, and what a      *)
(* reorg displaces comes back while there is room.                         *)
THEOREM NothingLost == Spec => TipChangeKeeps
<1>1. ASSUME IInv, [Next]_vars, chain' # chain PROVE \E fork : OnTip(fork)
  <2>1. CASE AddTx
    BY <1>1, <2>1 DEF AddTx
  <2>2. CASE MineOwn
    BY <1>1, <2>2, MineOwnTip
  <2>3. CASE NetworkBranch
    BY <1>1, <2>3, NetworkBranchTip
  <2>4. CASE Tick
    BY <1>1, <2>4 DEF Tick
  <2>5. CASE UNCHANGED vars
    BY <1>1, <2>5 DEF vars
  <2> QED BY <1>1, <2>1, <2>2, <2>3, <2>4, <2>5 DEF Next
<1>2. IInv /\ [Next]_vars =>
        [chain' # chain =>
           \A e \in pool :
             e.age < GraceAge /\ e \notin pool' =>
               \/ e.tx \in ConfirmedTxs
               \/ Consumed(e, TipState')
               \/ \E t \in RestoredTxs : t.fee > e.tx.fee]_vars
  BY <1>1, GraceStep
<1>3. IInv /\ [Next]_vars =>
        [chain' # chain =>
           \A t \in RestoredTxs \ ConfirmedTxs :
             Admissible(t, TipState') =>
               \/ t \in Txs(pool')
               \/ \E e \in pool : SameSlot(e.tx, t) /\ e.tx.fee >= t.fee
               \/ Cardinality(pool) + Cardinality(RestoredTxs) > MaxPool]_vars
  BY <1>1, ReturnStep
<1>4. Spec => GraceHonoured
  BY <1>2, Invariance, PTL DEF Spec, GraceHonoured
<1>5. Spec => DisplacedReturn
  BY <1>3, Invariance, PTL DEF Spec, DisplacedReturn
<1> QED BY <1>4, <1>5 DEF TipChangeKeeps
==============================================================================
