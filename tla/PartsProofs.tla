----------------------------- MODULE PartsProofs -----------------------------
(***************************************************************************)
(* The safety properties of the small parts, proved for every value of     *)
(* their constants: the links of the peers, the browser miner, the         *)
(* heartbeats, the backups, the archive and the retargeting. Each part has *)
(* an inductive invariant of its own; the parts share no state, so that a  *)
(* step of one leaves the others' alone.                                   *)
(***************************************************************************)
EXTENDS MCParts, TLAPS, FiniteSetTheorems, SequenceTheorems

-----------------------------------------------------------------------------
(* An instance has copies of the library's operators.                      *)

LEMMA LinkCopies ==
  /\ \A U : L!Cardinality(U) = Cardinality(U) /\ L!IsFiniteSet(U) = IsFiniteSet(U)
  /\ \A U : L!Max(U) = Max(U) /\ L!Min(U) = Min(U)
  /\ \A U, k : L!kSubset(k, U) = {s \in SUBSET U : Cardinality(s) = k}
<1>1. \A U : L!Cardinality(U) = Cardinality(U)
  BY DEF L!Cardinality, Cardinality
<1>2. \A U : L!IsFiniteSet(U) = IsFiniteSet(U)
  BY DEF L!IsFiniteSet, IsFiniteSet
<1>3. \A U : L!Max(U) = Max(U) /\ L!Min(U) = Min(U)
  BY DEF L!Max, Max, L!Min, Min
<1>4. \A U, k : L!kSubset(k, U) = {s \in SUBSET U : Cardinality(s) = k}
  BY <1>1 DEF L!kSubset
<1> QED BY <1>1, <1>2, <1>3, <1>4

(* A set of numbers that is not empty has a least element.                 *)
LEMMA LeastNumber ==
  ASSUME NEW U \in SUBSET Nat, U # {}
  PROVE  \E i \in U : \A j \in U : i <= j
<1> DEFINE R == {ss \in Nat \X Nat : ss[1] < ss[2]}
<1>1. IsWellFoundedOn(R, Nat)
  BY NatLessThanWellFounded DEF OpToRel
<1> HIDE DEF R
<1>2. PICK i \in U : \A j \in U : ~ (<<j, i>> \in R)
  BY <1>1, WFMin
<1>3. ASSUME NEW j \in U PROVE i <= j
  <2>1. i \in Nat /\ j \in Nat
    OBVIOUS
  <2>2. ~ (j < i)
    BY <1>2, <2>1 DEF R
  <2> QED BY <2>1, <2>2
<1> QED BY <1>3

(* A set has at most as many images as members.                            *)
LEMMA FiniteImage ==
  ASSUME NEW U, IsFiniteSet(U), NEW f, DOMAIN f = U, f = [x \in U |-> f[x]]
  PROVE  IsFiniteSet({f[x] : x \in U})
<1> DEFINE V == {f[x] : x \in U}
<1>1. f \in Surjection(U, V)
  BY DEF Surjection
<1> QED BY <1>1, FS_Surjection

(* There is a number that no connection between two ids has yet.           *)
LEMMA NumberFree ==
  ASSUME NEW X, IsFiniteSet(X), NEW e, NEW d
  PROVE  LET k == L!Min({i \in 1..(L!Cardinality(X) + 1) : <<e, d, i>> \notin X})
         IN  k \in Nat /\ <<e, d, k>> \notin X
<1> DEFINE size == Cardinality(X)
           free == {i \in 1..(size + 1) : <<e, d, i>> \notin X}
           f == [i \in 1..(size + 1) |-> <<e, d, i>>]
<1>1. size \in Nat
  BY FS_CardinalityType
<1>2. free # {}
  <2> SUFFICES ASSUME free = {} PROVE FALSE
    OBVIOUS
  <2> HIDE DEF size
  <2>1. \A i \in 1..(size + 1) : <<e, d, i>> \in X
    OBVIOUS
  <2>2. f \in Injection(1..(size + 1), X)
    BY <2>1 DEF Injection, IsInjective
  <2>3. Cardinality(1..(size + 1)) = size + 1
    BY <1>1, FS_Interval
  <2>4. Cardinality(1..(size + 1)) <= Cardinality(X)
    BY <2>2, FS_Injection
  <2> QED BY <1>1, <2>3, <2>4 DEF size
<1>3. PICK least \in free : \A k \in free : least <= k
  <2> HIDE DEF size
  <2>1. free \subseteq Nat
    BY <1>1
  <2> HIDE DEF free
  <2> QED BY <1>2, <2>1, LeastNumber
<1>4. Min(free) \in free
  <2> HIDE DEF free
  <2> QED BY <1>3 DEF Min
<1>5. {i \in 1..(L!Cardinality(X) + 1) : <<e, d, i>> \notin X} = free
  BY LinkCopies
<1>6. L!Min(free) = Min(free)
  BY LinkCopies
<1>7. free \subseteq Nat /\ \A k \in free : <<e, d, k>> \notin X
  BY <1>1
<1> HIDE DEF free
<1> QED BY <1>4, <1>5, <1>6, <1>7

-----------------------------------------------------------------------------
(* PeerLinks.                                                              *)

End(e) == e \in LinkNodes \X Nat /\ e[2] <= epoch[e[1]]

Shaped(s) ==
  /\ IsFiniteSet(DOMAIN s)
  /\ \A c \in DOMAIN s : /\ c = <<c[1], c[2], c[3]>>
                         /\ End(c[1]) /\ End(c[2])
                         /\ s[c] \in [{c[1], c[2]} -> {"new", "open", "closed"}]

OpenAt(s, c, e) == c \in DOMAIN s /\ e \in {c[1], c[2]} /\ s[c][e] = "open"

(* The table of a node: the links it names are the ones open at its end,   *)
(* one a peer.                                                             *)
Table(m) ==
  /\ \A c : c \in links[m] <=> OpenAt(at, c, L!Me(m))
  /\ \A c, d \in links[m] : L!Peer(m, c) = L!Peer(m, d) => c = d
  /\ Cardinality(links[m]) <= limit[m]

LinkTypes ==
  /\ epoch \in [LinkNodes -> Nat] /\ limit \in [LinkNodes -> LinkLimits]
  /\ DOMAIN links = LinkNodes /\ links = [m \in LinkNodes |-> links[m]]
  /\ Shaped(at)

LinkInv == LinkTypes /\ \A m \in LinkNodes : Table(m)

(* Closing connections at one end closes no other end.                     *)
LEMMA ClosedOpens ==
  ASSUME LinkTypes, NEW m \in LinkNodes, NEW X
  PROVE  /\ Shaped(L!Closed(at, m, X))
         /\ \A c, e : OpenAt(L!Closed(at, m, X), c, e)
                        <=> OpenAt(at, c, e) /\ ~(c \in X /\ e = L!Me(m))
<1> DEFINE then == [c \in DOMAIN at |->
             IF c \in X THEN [at[c] EXCEPT ![L!Me(m)] = "closed"] ELSE at[c]]
           keep == {c \in DOMAIN then : "closed" # then[c][c[1]] \/ "closed" # then[c][c[2]]}
           after == L!Closed(at, m, X)
<1>1. after = [c \in keep |-> then[c]]
  BY DEF L!Closed, L!Restrict
<1>2. \A c \in DOMAIN at :
        /\ then[c] \in [{c[1], c[2]} -> {"new", "open", "closed"}]
        /\ \A e \in {c[1], c[2]} :
             then[c][e] = IF c \in X /\ e = L!Me(m) THEN "closed" ELSE at[c][e]
  <2> TAKE c \in DOMAIN at
  <2>1. at[c] \in [{c[1], c[2]} -> {"new", "open", "closed"}]
    BY DEF LinkTypes, Shaped
  <2> QED BY <2>1
<1> HIDE DEF then, after
<1>3. DOMAIN then = DOMAIN at
  BY DEF then
<1>4. DOMAIN after = keep /\ keep \subseteq DOMAIN at
  BY <1>1, <1>3
<1>5. Shaped(after)
  <2>1. IsFiniteSet(DOMAIN after)
    BY <1>4, FS_Subset DEF LinkTypes, Shaped
  <2>2. ASSUME NEW c \in DOMAIN after
        PROVE  /\ c = <<c[1], c[2], c[3]>> /\ End(c[1]) /\ End(c[2])
               /\ after[c] \in [{c[1], c[2]} -> {"new", "open", "closed"}]
    <3>1. c \in DOMAIN at /\ after[c] = then[c]
      BY <1>1, <1>4
    <3> QED BY <1>2, <3>1 DEF LinkTypes, Shaped
  <2> QED BY <2>1, <2>2 DEF Shaped
<1>6. ASSUME NEW c, NEW e
      PROVE OpenAt(after, c, e) <=> OpenAt(at, c, e) /\ ~(c \in X /\ e = L!Me(m))
  <2>1. CASE c \in DOMAIN at /\ e \in {c[1], c[2]}
    <3>1. then[c][e] = IF c \in X /\ e = L!Me(m) THEN "closed" ELSE at[c][e]
      BY <1>2, <2>1
    <3>2. then[c][e] = "open" => c \in keep
      BY <1>3, <2>1
    <3> QED BY <1>1, <1>4, <2>1, <3>1, <3>2 DEF OpenAt
  <2>2. CASE ~(c \in DOMAIN at /\ e \in {c[1], c[2]})
    BY <1>4, <2>2 DEF OpenAt
  <2> QED BY <2>1, <2>2
<1> QED BY <1>5, <1>6 DEF after

(* New connections open nothing yet, and take no one's place.              *)
LEMMA CreatedOpens ==
  ASSUME L!LinkConstants, LinkTypes, NEW s, Shaped(s), NEW m \in LinkNodes, NEW ids
  PROVE  /\ Shaped(L!Created(s, m, ids))
         /\ \A c, e : OpenAt(L!Created(s, m, ids), c, e) <=> OpenAt(s, c, e)
<1> DEFINE to == ids \cap L!Registered
           free(id) == {k \in 1..(L!Cardinality(DOMAIN s) + 1) : <<L!Me(m), id, k>> \notin DOMAIN s}
           number(id) == L!Min(free(id))
           f == [id \in to |-> <<L!Me(m), id, number(id)>>]
           new == {f[id] : id \in to}
           after == L!Created(s, m, ids)
<1>1. /\ DOMAIN after = DOMAIN s \cup new
      /\ \A c \in DOMAIN s \cup new :
           after[c] = IF c \in new THEN [e \in {c[1], c[2]} |-> "new"] ELSE s[c]
  <2>1. new = {<<L!Me(m), id, number(id)>> : id \in to}
    OBVIOUS
  <2> QED BY <2>1 DEF L!Created
<1>2. IsFiniteSet(to) /\ \A id \in to : End(id)
  <2> DEFINE g == [k \in LinkNodes |-> L!Me(k)]
             all == {g[k] : k \in LinkNodes}
  <2>1. IsFiniteSet(LinkNodes)
    BY LinkCopies DEF L!LinkConstants
  <2>2. IsFiniteSet(all)
    BY <2>1, FiniteImage
  <2>3. to \subseteq all
    BY DEF L!Registered
  <2>4. \A k \in LinkNodes : End(g[k])
    BY DEF L!Me, End, LinkTypes
  <2> QED BY <2>2, <2>3, <2>4, FS_Subset
<1>3. End(L!Me(m))
  BY DEF L!Me, End, LinkTypes
<1>4. \A id \in to : number(id) \in Nat /\ <<L!Me(m), id, number(id)>> \notin DOMAIN s
  BY NumberFree DEF Shaped
<1>5. IsFiniteSet(new)
  BY <1>2, FiniteImage
<1>6. \A c \in new : /\ c \notin DOMAIN s /\ c = <<c[1], c[2], c[3]>>
                     /\ End(c[1]) /\ End(c[2])
  <2> TAKE c \in new
  <2>1. PICK id \in to : c = <<L!Me(m), id, number(id)>>
    OBVIOUS
  <2> HIDE DEF number
  <2> QED BY <1>2, <1>3, <1>4, <2>1
<1> HIDE DEF new, after
<1>7. Shaped(after)
  <2>1. IsFiniteSet(DOMAIN after)
    <3>1. IsFiniteSet(DOMAIN s)
      BY DEF Shaped
    <3>2. IsFiniteSet(DOMAIN s \cup new)
      BY <1>5, <3>1, FS_Union
    <3> QED BY <1>1, <3>2
  <2>2. ASSUME NEW c \in DOMAIN after
        PROVE  /\ c = <<c[1], c[2], c[3]>> /\ End(c[1]) /\ End(c[2])
               /\ after[c] \in [{c[1], c[2]} -> {"new", "open", "closed"}]
    <3>1. CASE c \in new
      <4>1. after[c] = [e \in {c[1], c[2]} |-> "new"]
        BY <1>1, <3>1
      <4> QED BY <1>6, <3>1, <4>1 DEF End
    <3>2. CASE c \notin new
      <4>1. c \in DOMAIN s /\ after[c] = s[c]
        BY <1>1, <2>2, <3>2
      <4> QED BY <4>1 DEF Shaped, End
    <3> QED BY <3>1, <3>2
  <2> QED BY <2>1, <2>2 DEF Shaped
<1>8. ASSUME NEW c, NEW e PROVE OpenAt(after, c, e) <=> OpenAt(s, c, e)
  <2>1. CASE c \in new
    <3>1. c \in DOMAIN after /\ after[c] = [x \in {c[1], c[2]} |-> "new"] /\ c \notin DOMAIN s
      BY <1>1, <1>6, <2>1
    <3> QED BY <3>1 DEF OpenAt
  <2>2. CASE c \notin new
    BY <1>1, <2>2 DEF OpenAt
  <2> QED BY <2>1, <2>2
<1> QED BY <1>7, <1>8 DEF after

(* A table is a finite set of connections.                                 *)
LEMMA LinksFinite ==
  ASSUME LinkInv, NEW m \in LinkNodes
  PROVE  links[m] \subseteq DOMAIN at /\ IsFiniteSet(links[m]) /\ Cardinality(links[m]) \in Nat
<1>1. links[m] \subseteq DOMAIN at
  BY DEF LinkInv, Table, OpenAt
<1>2. IsFiniteSet(DOMAIN at)
  BY DEF LinkInv, LinkTypes, Shaped
<1> QED BY <1>1, <1>2, FS_Subset, FS_CardinalityType

(* Links close at one end, and none open anywhere: the tables stay true.   *)
LEMMA LinksClose ==
  ASSUME LinkInv, NEW m \in LinkNodes, NEW X,
         epoch' = epoch, links' = [links EXCEPT ![m] = @ \ X],
         limit' \in [LinkNodes -> LinkLimits],
         \A k \in LinkNodes : k # m => limit'[k] = limit[k],
         Cardinality(links[m] \ X) <= limit'[m],
         Shaped(at'),
         \A c, e : OpenAt(at', c, e) <=> OpenAt(at, c, e) /\ ~(c \in X /\ e = L!Me(m))
  PROVE  LinkInv'
<1>1. LinkTypes'
  <2>1. Shaped(at)'
    BY DEF Shaped, End
  <2> QED BY <2>1 DEF LinkInv, LinkTypes
<1>2. ASSUME NEW k \in LinkNodes PROVE Table(k)'
  <2>1. L!Me(k)' = L!Me(k) /\ \A c : L!Peer(k, c)' = L!Peer(k, c)
    BY DEF L!Me, L!Peer
  <2>2. Table(k) /\ (k # m => L!Me(k) # L!Me(m))
    BY DEF LinkInv, L!Me
  <2>3. links'[k] = IF k = m THEN links[m] \ X ELSE links[k]
    BY DEF LinkInv, LinkTypes
  <2>4. \A c : c \in links'[k] <=> OpenAt(at', c, L!Me(k))
    BY <2>2, <2>3 DEF Table
  <2>5. \A c, d \in links'[k] : L!Peer(k, c) = L!Peer(k, d) => c = d
    BY <2>2, <2>3 DEF Table
  <2>6. Cardinality(links'[k]) <= limit'[k]
    BY <2>2, <2>3 DEF Table
  <2>7. \A c : OpenAt(at, c, L!Me(k))' <=> OpenAt(at', c, L!Me(k))
    BY <2>1 DEF OpenAt
  <2> QED BY <2>1, <2>4, <2>5, <2>6, <2>7 DEF Table
<1> QED BY <1>1, <1>2 DEF LinkInv

(* A step that changes no table and no limit, and opens or closes nothing. *)
LEMMA LinksStay ==
  ASSUME LinkInv, epoch' = epoch, links' = links, limit' = limit, Shaped(at'),
         \A c, e : OpenAt(at', c, e) <=> OpenAt(at, c, e)
  PROVE  LinkInv'
<1>1. LinkTypes'
  <2>1. Shaped(at)'
    BY DEF Shaped, End
  <2> QED BY <2>1 DEF LinkInv, LinkTypes
<1>2. ASSUME NEW k \in LinkNodes PROVE Table(k)'
  <2>1. L!Me(k)' = L!Me(k) /\ \A c : L!Peer(k, c)' = L!Peer(k, c)
    BY DEF L!Me, L!Peer
  <2>2. \A c : OpenAt(at, c, L!Me(k))' <=> OpenAt(at, c, L!Me(k))
    BY <2>1 DEF OpenAt
  <2>3. Table(k)
    BY DEF LinkInv
  <2> QED BY <2>1, <2>2, <2>3 DEF Table
<1> QED BY <1>1, <1>2 DEF LinkInv

(* Beat and the answer of the servers.                                     *)
LEMMA LinksBeat ==
  ASSUME L!LinkConstants, LinkInv, NEW m \in LinkNodes, L!Beat(m)
  PROVE  LinkInv'
<1> DEFINE reaped == quiet[m] \cap L!Stale(m)
           state == L!Closed(at, m, reaped)
<1>1. /\ Shaped(state)
      /\ \A c, e : OpenAt(state, c, e) <=> OpenAt(at, c, e) /\ ~(c \in reaped /\ e = L!Me(m))
  BY ClosedOpens DEF LinkInv
<1>2. at' = state \/ \E D : at' = L!Created(state, m, D)
  BY DEF L!Beat, L!DialSome
<1>3. epoch' = epoch /\ limit' = limit /\ links' = [links EXCEPT ![m] = links[m] \ reaped]
  BY DEF L!Beat
<1>4. Cardinality(links[m] \ reaped) <= limit[m]
  <2> HIDE DEF reaped
  <2>1. Cardinality(links[m] \ reaped) <= Cardinality(links[m])
    BY LinksFinite, FS_Subset
  <2>2. /\ Cardinality(links[m] \ reaped) \in Nat /\ Cardinality(links[m]) \in Nat
        /\ Cardinality(links[m]) <= limit[m] /\ limit[m] \in Nat
    <3>1. IsFiniteSet(links[m]) /\ IsFiniteSet(links[m] \ reaped)
      BY LinksFinite, FS_Subset
    <3> QED BY <3>1, FS_CardinalityType DEF LinkInv, Table, LinkTypes, L!LinkConstants
  <2> QED BY <2>1, <2>2
<1> HIDE DEF reaped, state
<1>5. Shaped(at') /\ \A c, e : OpenAt(at', c, e) <=> OpenAt(state, c, e)
  <2>1. CASE at' = state
    BY <1>1, <2>1
  <2>2. ASSUME NEW D, at' = L!Created(state, m, D)
        PROVE  Shaped(at') /\ \A c, e : OpenAt(at', c, e) <=> OpenAt(state, c, e)
    BY <1>1, <2>2, CreatedOpens DEF LinkInv
  <2> QED BY <1>2, <2>1, <2>2
<1> QED BY <1>1, <1>3, <1>4, <1>5, LinksClose DEF LinkInv, LinkTypes

LEMMA LinksAnswer ==
  ASSUME L!LinkConstants, LinkInv, NEW m \in LinkNodes, NEW i, L!Answer(m, i)
  PROVE  LinkInv'
<1>1. at' = at \/ \E D : at' = L!Created(at, m, D)
  BY DEF L!Answer, L!DialSome
<1>2. Shaped(at') /\ \A c, e : OpenAt(at', c, e) <=> OpenAt(at, c, e)
  <2>1. Shaped(at)
    BY DEF LinkInv, LinkTypes
  <2>2. ASSUME NEW D, at' = L!Created(at, m, D)
        PROVE  Shaped(at') /\ \A c, e : OpenAt(at', c, e) <=> OpenAt(at, c, e)
    BY <2>1, <2>2, CreatedOpens DEF LinkInv
  <2> QED BY <1>1, <2>1, <2>2
<1> QED BY <1>2, LinksStay DEF L!Answer

(* A connection that is new at this end, and one whose other end closed.   *)
LEMMA LinksOpen ==
  ASSUME L!LinkConstants, LinkInv, NEW m \in LinkNodes, NEW c, L!Open(m, c)
  PROVE  LinkInv'
<1>1. c \in DOMAIN at /\ L!Me(m) \in {c[1], c[2]} /\ at[c][L!Me(m)] = "new"
  BY DEF L!Open, L!Mine
<1>2. c \notin links[m]
  BY <1>1 DEF LinkInv, Table, OpenAt
<1>3. CASE L!Adopted(m, c)
  <2>1. /\ at' = [at EXCEPT ![c][L!Me(m)] = "open"]
        /\ links' = [links EXCEPT ![m] = @ \cup {c}] /\ epoch' = epoch /\ limit' = limit
    BY <1>3 DEF L!Open
  <2>2. /\ DOMAIN at' = DOMAIN at
        /\ \A d \in DOMAIN at : \A e \in {d[1], d[2]} :
             at'[d][e] = IF d = c /\ e = L!Me(m) THEN "open" ELSE at[d][e]
        /\ \A d \in DOMAIN at : at'[d] \in [{d[1], d[2]} -> {"new", "open", "closed"}]
    BY <1>1, <2>1 DEF LinkInv, LinkTypes, Shaped
  <2>3. \A d, e : OpenAt(at', d, e) <=> OpenAt(at, d, e) \/ (d = c /\ e = L!Me(m))
    BY <1>1, <2>2 DEF OpenAt
  <2>4. LinkTypes'
    <3>1. Shaped(at)'
      BY <2>1, <2>2 DEF LinkInv, LinkTypes, Shaped, End
    <3> QED BY <2>1, <3>1 DEF LinkInv, LinkTypes
  <2>5. ASSUME NEW k \in LinkNodes PROVE Table(k)'
    <3>1. L!Me(k)' = L!Me(k) /\ \A d : L!Peer(k, d)' = L!Peer(k, d)
      BY <2>1 DEF L!Me, L!Peer
    <3>2. Table(k) /\ (k # m => L!Me(k) # L!Me(m))
      BY DEF LinkInv, L!Me
    <3>3. links'[k] = IF k = m THEN links[m] \cup {c} ELSE links[k]
      BY <2>1 DEF LinkInv, LinkTypes
    <3>4. \A d : d \in links'[k] <=> OpenAt(at', d, L!Me(k))
      BY <2>3, <3>2, <3>3 DEF Table
    <3>5. \A d : OpenAt(at, d, L!Me(k))' <=> OpenAt(at', d, L!Me(k))
      BY <3>1 DEF OpenAt
    <3>6. CASE k # m
      BY <2>1, <3>1, <3>2, <3>3, <3>4, <3>5, <3>6, ZenonT(60) DEF Table
    <3>7. CASE k = m
      <4>1. \A d \in links[m] : L!Peer(m, d) # L!Peer(m, c)
        BY <1>3 DEF L!Adopted, L!Linked
      <4>2. \A d, e \in links'[k] : L!Peer(k, d) = L!Peer(k, e) => d = e
        BY <3>2, <3>3, <3>7, <4>1 DEF Table
      <4>3. Cardinality(links[m] \cup {c}) = Cardinality(links[m]) + 1
        BY <1>2, LinksFinite, FS_AddElement
      <4>4. Cardinality(links[m]) < limit[m]
        BY <1>3, LinkCopies DEF L!Adopted
      <4>5. Cardinality(links[m]) \in Nat /\ limit[m] \in Nat
        BY LinksFinite DEF LinkInv, LinkTypes, L!LinkConstants
      <4>6. Cardinality(links'[k]) <= limit'[k]
        <5>1. links'[k] = links[m] \cup {c} /\ limit'[k] = limit[m]
          BY <2>1, <3>3, <3>7
        <5>2. Cardinality(links[m]) + 1 <= limit[m]
          BY <4>4, <4>5
        <5> QED BY <4>3, <5>1, <5>2
      <4> QED BY <3>1, <3>4, <3>5, <4>2, <4>6 DEF Table
    <3> QED BY <3>6, <3>7
  <2> QED BY <2>4, <2>5 DEF LinkInv
<1>4. CASE ~L!Adopted(m, c)
  <2>1. at' = L!Closed(at, m, {c}) /\ links' = links /\ epoch' = epoch /\ limit' = limit
    BY <1>4 DEF L!Open
  <2>2. /\ Shaped(at')
        /\ \A d, e : OpenAt(at', d, e) <=> OpenAt(at, d, e) /\ ~(d \in {c} /\ e = L!Me(m))
    BY <2>1, ClosedOpens DEF LinkInv
  <2>3. ~OpenAt(at, c, L!Me(m))
    BY <1>1 DEF OpenAt
  <2> QED BY <2>1, <2>2, <2>3, LinksStay
<1> QED BY <1>3, <1>4

LEMMA LinksCloseOne ==
  ASSUME L!LinkConstants, LinkInv, NEW m \in LinkNodes, NEW c, L!Close(m, c)
  PROVE  LinkInv'
<1>1. /\ at' = L!Closed(at, m, {c}) /\ epoch' = epoch /\ limit' = limit
      /\ links' = [links EXCEPT ![m] = @ \ {c}]
  BY DEF L!Close
<1>2. /\ Shaped(at')
      /\ \A d, e : OpenAt(at', d, e) <=> OpenAt(at, d, e) /\ ~(d \in {c} /\ e = L!Me(m))
  BY <1>1, ClosedOpens DEF LinkInv
<1>3. Cardinality(links[m] \ {c}) <= limit[m]
  <2>1. Cardinality(links[m] \ {c}) <= Cardinality(links[m])
    BY LinksFinite, FS_Subset
  <2>2. /\ Cardinality(links[m] \ {c}) \in Nat /\ Cardinality(links[m]) \in Nat
        /\ Cardinality(links[m]) <= limit[m] /\ limit[m] \in Nat
    <3>1. IsFiniteSet(links[m]) /\ IsFiniteSet(links[m] \ {c})
      BY LinksFinite, FS_Subset
    <3> QED BY <3>1, FS_CardinalityType DEF LinkInv, Table, LinkTypes, L!LinkConstants
  <2> QED BY <2>1, <2>2
<1> QED BY <1>1, <1>2, <1>3, LinksClose DEF LinkInv, LinkTypes

(* A restarted network has a new id, and no connection under it.           *)
LEMMA LinksRestart ==
  ASSUME L!LinkConstants, LinkInv, NEW m \in LinkNodes, L!Restart(m)
  PROVE  LinkInv'
<1>1. /\ epoch' = [epoch EXCEPT ![m] = @ + 1] /\ limit' = limit
      /\ links' = [links EXCEPT ![m] = {}] /\ at' = L!Closed(at, m, L!Mine(m))
  BY DEF L!Restart
<1>2. /\ Shaped(at')
      /\ \A c, e : OpenAt(at', c, e) <=> OpenAt(at, c, e) /\ ~(c \in L!Mine(m) /\ e = L!Me(m))
  BY <1>1, ClosedOpens DEF LinkInv
<1>3. \A e : End(e) => End(e)'
  BY <1>1 DEF End, LinkInv, LinkTypes
<1>4. LinkTypes'
  <2>1. Shaped(at)'
    BY <1>2, <1>3 DEF Shaped
  <2> QED BY <1>1, <2>1 DEF LinkInv, LinkTypes
<1>5. ASSUME NEW k \in LinkNodes PROVE Table(k)'
  <2>1. links'[k] = (IF k = m THEN {} ELSE links[k]) /\ Table(k)
    BY <1>1 DEF LinkInv, LinkTypes
  <2>2. CASE k # m
    <3>1. L!Me(k)' = L!Me(k) /\ (\A c : L!Peer(k, c)' = L!Peer(k, c)) /\ L!Me(k) # L!Me(m)
      BY <1>1, <2>2 DEF L!Me, L!Peer, LinkInv, LinkTypes
    <3>2. \A c : OpenAt(at, c, L!Me(k))' <=> OpenAt(at, c, L!Me(k))
      BY <1>2, <3>1 DEF OpenAt
    <3> QED BY <1>1, <2>1, <2>2, <3>1, <3>2 DEF Table
  <2>3. CASE k = m
    <3>1. ~End(L!Me(m)')
      BY <1>1 DEF End, L!Me, LinkInv, LinkTypes
    <3>2. \A c : ~OpenAt(at, c, L!Me(k))'
      <4>1. \A c \in DOMAIN at' : End(c[1]) /\ End(c[2])
        BY <1>2 DEF Shaped
      <4> QED BY <2>3, <3>1, <4>1 DEF OpenAt
    <3>3. Cardinality(links'[k]) = 0 /\ limit'[k] \in Nat
      BY <1>1, <2>1, <2>3, FS_EmptySet DEF LinkInv, LinkTypes, L!LinkConstants
    <3> QED BY <2>1, <2>3, <3>2, <3>3 DEF Table
  <2> QED BY <2>2, <2>3
<1> QED BY <1>4, <1>5 DEF LinkInv

LEMMA LinksDial ==
  ASSUME L!LinkConstants, LinkInv, NEW m \in LinkNodes, NEW id, L!DialPeer(m, id)
  PROVE  LinkInv'
<1>1. at' = L!Created(at, m, {id}) /\ Shaped(at)
  BY DEF L!DialPeer, LinkInv, LinkTypes
<1>2. Shaped(at') /\ \A c, e : OpenAt(at', c, e) <=> OpenAt(at, c, e)
  BY <1>1, CreatedOpens DEF LinkInv
<1> QED BY <1>2, LinksStay DEF L!DialPeer

LEMMA LinksSetMax ==
  ASSUME L!LinkConstants, LinkInv, NEW m \in LinkNodes, NEW max \in LinkLimits,
         L!SetMaxConnections(m, max)
  PROVE  LinkInv'
<1> DEFINE size == Cardinality(links[m])
           excess == L!Max({0, L!Cardinality(links[m]) - max})
<1>1. PICK X \in L!kSubset(excess, links[m]) :
        /\ at' = L!Closed(at, m, X) /\ epoch' = epoch
        /\ links' = [links EXCEPT ![m] = @ \ X] /\ limit' = [limit EXCEPT ![m] = max]
  BY DEF L!SetMaxConnections
<1>2. /\ Shaped(at')
      /\ \A d, e : OpenAt(at', d, e) <=> OpenAt(at, d, e) /\ ~(d \in X /\ e = L!Me(m))
  BY <1>1, ClosedOpens DEF LinkInv
<1>3. size \in Nat /\ max \in Nat /\ IsFiniteSet(links[m])
  BY LinksFinite DEF L!LinkConstants
<1>4. excess \in Nat /\ size - excess <= max
  <2>1. excess = Max({0, size - max})
    BY LinkCopies
  <2>2. Max({0, size - max}) = IF size > max THEN size - max ELSE 0
    <3> HIDE DEF size
    <3> QED BY <1>3 DEF Max
  <2> HIDE DEF size, excess
  <2> QED BY <1>3, <2>1, <2>2
<1>5. X \subseteq links[m] /\ Cardinality(X) = excess
  BY LinkCopies
<1>6. Cardinality(links[m] \ X) <= max
  <2>1. Cardinality(links[m] \ X) = size - Cardinality(links[m] \cap X)
    BY <1>3, FS_Difference
  <2>2. links[m] \cap X = X
    BY <1>5
  <2> HIDE DEF size, excess
  <2> QED BY <1>3, <1>4, <1>5, <2>1, <2>2
<1>7. /\ limit' \in [LinkNodes -> LinkLimits] /\ limit'[m] = max
      /\ \A k \in LinkNodes : k # m => limit'[k] = limit[k]
  BY <1>1 DEF LinkInv, LinkTypes
<1> QED BY <1>1, <1>2, <1>6, <1>7, LinksClose

(* The tables, after any step of the links.                                *)
LEMMA LinksStep ==
  ASSUME L!LinkConstants, LinkInv, L!Next
  PROVE  LinkInv'
<1>1. PICK m \in LinkNodes : L!Step(m)
  BY DEF L!Next
<1>2. ASSUME epoch' = epoch, links' = links, limit' = limit, at' = at PROVE LinkInv'
  BY <1>2, LinksStay DEF LinkInv, LinkTypes
<1>3. CASE L!Beat(m)
  BY <1>3, LinksBeat
<1>4. ASSUME NEW i \in Passes, L!Answer(m, i) PROVE LinkInv'
  BY <1>4, LinksAnswer
<1>5. ASSUME NEW id, L!EndDial(m, id) \/ L!Unavailable(m, id) PROVE LinkInv'
  BY <1>2, <1>5 DEF L!EndDial, L!Unavailable
<1>6. ASSUME NEW c, L!Open(m, c) \/ L!Close(m, c) \/ L!Learn(m, c) PROVE LinkInv'
  <2>1. CASE L!Open(m, c)
    BY <2>1, LinksOpen
  <2>2. CASE L!Close(m, c)
    BY <2>2, LinksCloseOne
  <2>3. CASE L!Learn(m, c)
    BY <1>2, <2>3 DEF L!Learn
  <2> QED BY <1>6, <2>1, <2>2, <2>3
<1>7. CASE L!Restart(m)
  BY <1>7, LinksRestart
<1>8. CASE L!Unregister(m) \/ L!Reregister(m)
  BY <1>2, <1>8 DEF L!Unregister, L!Reregister
<1>9. ASSUME NEW id, L!DialPeer(m, id) PROVE LinkInv'
  BY <1>9, LinksDial
<1>10. ASSUME NEW max \in LinkLimits, L!SetMaxConnections(m, max) PROVE LinkInv'
  BY <1>10, LinksSetMax
<1> QED BY <1>1, <1>3, <1>4, <1>5, <1>6, <1>7, <1>8, <1>9, <1>10 DEF L!Step

LEMMA LinksStart ==
  ASSUME L!LinkConstants, L!Init
  PROVE  LinkInv
<1>1. /\ epoch = [m \in LinkNodes |-> 0] /\ at = <<>>
      /\ links = [m \in LinkNodes |-> {}] /\ limit = [m \in LinkNodes |-> L!Max(LinkLimits)]
  BY DEF L!Init
<1>2. Shaped(at)
  <2>1. DOMAIN at = {}
    BY <1>1
  <2> QED BY <2>1, FS_EmptySet DEF Shaped
<1>3. LinkTypes
  <2>1. L!Max(LinkLimits) \in LinkLimits
    <3>1. \E most \in LinkLimits : \A max \in LinkLimits : most >= max
      BY DEF L!LinkConstants
    <3> QED BY <3>1 DEF L!Max
  <2> QED BY <1>1, <1>2, <2>1 DEF LinkTypes
<1>4. \A m \in LinkNodes : Table(m)
  <2>1. DOMAIN at = {}
    BY <1>1
  <2>2. \A m \in LinkNodes : links[m] = {} /\ limit[m] \in Nat
    BY <1>1, <1>3 DEF LinkTypes, L!LinkConstants
  <2>3. Cardinality({}) = 0
    BY FS_EmptySet
  <2>4. \A m \in LinkNodes : Cardinality(links[m]) <= limit[m]
    BY <2>2, <2>3
  <2> QED BY <2>1, <2>2, <2>4 DEF Table, OpenAt
<1> QED BY <1>3, <1>4 DEF LinkInv

LEMMA LinkInvSound ==
  ASSUME LinkInv
  PROVE  L!LinksSound
<1> SUFFICES ASSUME NEW m \in LinkNodes
             PROVE  /\ L!Cardinality(links[m]) <= limit[m]
                    /\ L!Cardinality(L!Linked(m)) = L!Cardinality(links[m])
                    /\ links[m] = {c \in L!Mine(m) : at[c][L!Me(m)] = "open"}
  BY DEF L!LinksSound
<1>1. L!Cardinality(links[m]) <= limit[m]
  BY LinkCopies DEF LinkInv, Table
<1>2. Cardinality(L!Linked(m)) = Cardinality(links[m])
  <2> DEFINE f == [c \in links[m] |-> L!Peer(m, c)]
  <2>1. f \in Bijection(links[m], L!Linked(m))
    <3>1. L!Linked(m) = {f[c] : c \in links[m]}
      BY DEF L!Linked
    <3>2. \A c, d \in links[m] : f[c] = f[d] => c = d
      BY DEF LinkInv, Table
    <3> HIDE DEF f
    <3>3. f \in [links[m] -> L!Linked(m)]
      BY <3>1 DEF f
    <3> QED BY <3>1, <3>2, <3>3 DEF Bijection, Injection, Surjection, IsInjective
  <2>2. ExistsBijection(links[m], L!Linked(m))
    BY <2>1 DEF ExistsBijection
  <2> QED BY <2>2, LinksFinite, FS_Bijection
<1>3. links[m] = {c \in L!Mine(m) : at[c][L!Me(m)] = "open"}
  BY DEF LinkInv, Table, OpenAt, L!Mine
<1> QED BY <1>1, <1>2, <1>3, LinkCopies

-----------------------------------------------------------------------------
(* A behaviour is one of one part.                                         *)
LEMMA LinksPart ==
  ASSUME [MCNext]_allVars
  PROVE  /\ part' = part
         /\ part = "links" => L!Next \/ UNCHANGED linkVars
<1>1. CASE MCNext
  <2>1. CASE RetargetStep(Next) \/ MinerStep(C!Next) \/ DeliveryStep(T!Next)
    BY <2>1 DEF RetargetStep, MinerStep, DeliveryStep, OthersRest
  <2>2. CASE ~(RetargetStep(Next) \/ MinerStep(C!Next) \/ DeliveryStep(T!Next))
    BY <1>1, <2>2 DEF MCNext
  <2> QED BY <2>1, <2>2
<1>2. CASE UNCHANGED allVars
  BY <1>2 DEF allVars, linkVars
<1> QED BY <1>1, <1>2

(* However many dials, late opens and inbound connections race, the table  *)
(* of a node keeps to its limit, has one link a peer, and names just the   *)
(* connections open at this end (net/peer.ts).                             *)
THEOREM LinksAreSound == MCSpec => []LinksSound
<1> DEFINE Inv == part = "links" => LinkInv
<1> USE PartsConstants
<1>1. MCInit => Inv
  BY LinksStart DEF MCInit
<1>2. Inv /\ [MCNext]_allVars => Inv'
  <2> SUFFICES ASSUME Inv, [MCNext]_allVars, part' = "links" PROVE LinkInv'
    OBVIOUS
  <2>1. LinkInv /\ (L!Next \/ UNCHANGED linkVars)
    BY LinksPart
  <2>2. CASE UNCHANGED linkVars
    BY <2>1, <2>2, LinksStay DEF linkVars, LinkInv, LinkTypes
  <2> QED BY <2>1, <2>2, LinksStep
<1>3. Inv => LinksSound
  BY LinkInvSound DEF LinksSound
<1> QED BY <1>1, <1>2, <1>3, PTL DEF MCSpec

-----------------------------------------------------------------------------
(* MinerController.                                                        *)

LoopType == [t : Nat, live : BOOLEAN]
WorkerType == [inbox : Seq(Nat), out : Seq(C!Out), mining : BOOLEAN, loops : SUBSET LoopType,
               hung : BOOLEAN]
CtlType == [running : BOOLEAN, count : 1..MaxWorkers, auto : BOOLEAN,
            min : 1..MaxWorkers, max : 1..MaxWorkers, locked : BOOLEAN, warm : BOOLEAN,
            oom : BOOLEAN, template : [id : Nat, on : Nat], made : Nat]

Bounded(c) ==
  c \in CtlType /\ c.min <= c.max /\ (c.running /\ c.auto => c.min <= c.count /\ c.count <= c.max)

(* A worker has one loop of the present generation at most.                *)
Single(w) == w \in WorkerType /\ \A a, b \in w.loops : a.live /\ b.live => a = b

Crew(ws, size) == ws \in Seq(WorkerType) /\ Len(ws) = size /\ \A i \in 1..size : Single(ws[i])

(* The controller and its workers: as many as it says.                     *)
Fit(b) ==
  /\ b = [c |-> b.c, ws |-> b.ws]
  /\ Bounded(b.c) /\ Crew(b.ws, IF b.c.running THEN b.c.count ELSE 0)

(* Its template is of this tip, unless a seeded anchor is news to it.      *)
Follows(b, t, sd) ==
  b.c.template.on <= t /\ (b.c.running /\ ~sd => b.c.template.on = t)

MinerInv ==
  /\ Fit(C!Both) /\ Follows(C!Both, tip, seeded)
  /\ tip \in Nat /\ seeded \in BOOLEAN /\ syncing \in BOOLEAN
  /\ mined \in Seq([on : Nat, seeded : BOOLEAN])
  /\ \A j \in 1..Len(mined) : mined[j].on < tip
  /\ C!NoCompetitor

LEMMA FreshCrew ==
  ASSUME NEW size \in Nat
  PROVE  Crew([i \in 1..size |-> C!NewWorker], size)
<1>1. C!NewWorker \in WorkerType /\ C!NewWorker.loops = {}
  BY DEF C!NewWorker, WorkerType
<1> HIDE DEF WorkerType
<1> DEFINE fresh == [i \in 1..size |-> C!NewWorker]
<1>2. fresh \in [1..size -> WorkerType]
  BY <1>1
<1>3. fresh \in Seq(WorkerType) /\ Len(fresh) = size
  BY <1>2, SeqDef, LenProperties
<1>4. \A i \in 1..size : Single(fresh[i])
  BY <1>1 DEF Single
<1> QED BY <1>3, <1>4 DEF Crew

LEMMA PostCrew ==
  ASSUME NEW size \in Nat, NEW ws, Crew(ws, size), NEW msgs \in Seq(Nat)
  PROVE  Crew(C!Post(ws, msgs), size)
<1> DEFINE told == C!Post(ws, msgs)
<1>1. DOMAIN ws = 1..size
  BY DEF Crew
<1>2. \A i \in 1..size : told[i] = [ws[i] EXCEPT !.inbox = @ \o msgs]
  BY <1>1 DEF C!Post
<1>3. \A i \in 1..size : told[i] \in WorkerType /\ told[i].loops = ws[i].loops
  <2> TAKE i \in 1..size
  <2>1. ws[i] \in WorkerType
    BY DEF Crew, Single
  <2>2. ws[i].inbox \o msgs \in Seq(Nat)
    BY <2>1 DEF WorkerType
  <2> QED BY <1>2, <2>1, <2>2 DEF WorkerType
<1>4. told = [i \in 1..size |-> told[i]]
  BY <1>1 DEF C!Post
<1> HIDE DEF told
<1>5. told \in Seq(WorkerType) /\ Len(told) = size
  BY <1>3, <1>4
<1>6. \A i \in 1..size : Single(told[i])
  BY <1>3 DEF Crew, Single
<1> QED BY <1>5, <1>6 DEF Crew, told

(* restartTemplate: every worker of a running miner is told to grind a     *)
(* template of this tip.                                                   *)
LEMMA RestartFits ==
  ASSUME NEW b, Fit(b), NEW t \in Nat, b.c.template.on <= t
  PROVE  LET r == C!RestartTemplate(b, t)
         IN  /\ Fit(r) /\ \A sd : Follows(r, t, sd)
             /\ r.c.count = b.c.count /\ r.c.locked = b.c.locked
<1> DEFINE r == C!RestartTemplate(b, t)
           size == IF b.c.running THEN b.c.count ELSE 0
<1>1. size \in Nat /\ Bounded(b.c) /\ Crew(b.ws, size) /\ b.c.made \in Nat
  BY DEF Fit, Bounded, CtlType
<1>2. CASE b.ws = <<>>
  <2>1. ~b.c.running
    BY <1>1, <1>2 DEF Crew, Bounded, CtlType
  <2>2. r = b
    BY <1>2 DEF C!RestartTemplate
  <2> QED BY <2>1, <2>2 DEF Follows
<1>3. CASE b.ws # <<>>
  <2> DEFINE id == b.c.made + 1
  <2>1. /\ r.c = [b.c EXCEPT !.template = [id |-> id, on |-> t], !.made = id]
        /\ r.ws = C!Post(b.ws, <<C!StopMsg, id>>) /\ r = [c |-> r.c, ws |-> r.ws]
    BY <1>3 DEF C!RestartTemplate
  <2>2. <<C!StopMsg, id>> \in Seq(Nat) /\ id \in Nat
    BY <1>1 DEF C!StopMsg
  <2> HIDE DEF r, id, size
  <2>3. Crew(r.ws, size)
    <3>1. PICK msgs \in Seq(Nat) : r.ws = C!Post(b.ws, msgs)
      BY <2>1, <2>2
    <3>2. Crew(C!Post(b.ws, msgs), size)
      BY <1>1, PostCrew
    <3> QED BY <3>1, <3>2
  <2>4. /\ Bounded(r.c) /\ r.c.template.on = t /\ r.c.running = b.c.running
        /\ r.c.count = b.c.count /\ r.c.locked = b.c.locked
    <3>1. PICK d : d = r.c
      OBVIOUS
    <3>2. PICK c : c = b.c
      OBVIOUS
    <3>3. d = [c EXCEPT !.template = [id |-> id, on |-> t], !.made = id] /\ Bounded(c)
      BY <1>1, <2>1, <3>1, <3>2
    <3>4. /\ Bounded(d) /\ d.template.on = t /\ d.running = c.running
          /\ d.count = c.count /\ d.locked = c.locked
      <4>1. c \in CtlType
        BY <3>3 DEF Bounded
      <4>2. d \in CtlType
        BY <2>2, <3>3, <4>1 DEF CtlType
      <4>3. /\ d.running = c.running /\ d.count = c.count /\ d.auto = c.auto /\ d.min = c.min
            /\ d.max = c.max /\ d.locked = c.locked /\ d.template = [id |-> id, on |-> t]
        BY <3>3, <4>1 DEF CtlType
      <4> QED BY <3>3, <4>2, <4>3 DEF Bounded
    <3> QED BY <3>1, <3>2, <3>4
  <2> QED BY <2>1, <2>3, <2>4 DEF Fit, Follows, r, size
<1> QED BY <1>2, <1>3

(* spawnWorkers of a running miner.                                        *)
LEMMA SpawnFits ==
  ASSUME NEW c, NEW ws, Bounded(c), c.running
  PROVE  LET r == C!SpawnWorkers([c |-> c, ws |-> ws]) IN Fit(r) /\ r.c = c
<1> DEFINE b == [c |-> c, ws |-> ws]
           new == [i \in 1..c.count |-> C!NewWorker]
           r == C!SpawnWorkers(b)
<1>1. b.c = c /\ r = [b EXCEPT !.ws = [i \in 1..b.c.count |-> C!NewWorker]]
  BY DEF C!SpawnWorkers
<1>2. r = [b EXCEPT !.ws = new]
  BY <1>1
<1>3. c.count \in Nat
  BY DEF Bounded, CtlType
<1>4. Crew(new, c.count)
  BY <1>3, FreshCrew
<1> HIDE DEF new, r
<1>5. r = [c |-> c, ws |-> new] /\ r.c = c /\ r.ws = new
  BY <1>2
<1> QED BY <1>4, <1>5 DEF Fit, r

LEMMA RefreshFits ==
  ASSUME NEW b, Fit(b), NEW t \in Nat, b.c.template.on <= t
  PROVE  /\ Fit(C!Refresh(b, t)) /\ \A sd : Follows(C!Refresh(b, t), t, sd)
         /\ C!Refresh(b, t).c.count = b.c.count /\ C!Refresh(b, t).c.locked = b.c.locked
<1>1. CASE b.c.running
  BY <1>1, RestartFits DEF C!Refresh
<1>2. CASE ~b.c.running
  <2>1. C!Refresh(b, t) = b
    BY <1>2 DEF C!Refresh
  <2> QED BY <1>2, <2>1 DEF Follows
<1> QED BY <1>1, <1>2

(* setWorkerCount to a number that the bounds allow.                       *)
LEMMA SetCountFits ==
  ASSUME NEW c, NEW ws, tip \in Nat, c \in CtlType,
         Crew(ws, IF c.running THEN c.count ELSE 0), NEW k \in 1..MaxWorkers,
         Bounded([c EXCEPT !.count = k]),
         NEW sd, Follows([c |-> c, ws |-> ws], tip, sd)
  PROVE  LET r == C!SetWorkerCount([c |-> c, ws |-> ws], k)
         IN  Fit(r) /\ Follows(r, tip, sd) /\ r.c.count = k /\ r.c.locked = c.locked
<1> DEFINE b == [c |-> c, ws |-> ws]
           set == [b EXCEPT !.c.count = k]
           new == [c EXCEPT !.count = k]
           r == C!SetWorkerCount(b, k)
<1>1. b.c = c /\ b.ws = ws /\ set = [c |-> new, ws |-> ws] /\ set.c = new /\ set.ws = ws
  OBVIOUS
<1>2. /\ new.count = k /\ new.running = c.running /\ new.template = c.template
      /\ new.locked = c.locked
  BY DEF CtlType
<1>3. c.template.on <= tip /\ (c.running /\ ~sd => c.template.on = tip)
  BY <1>1 DEF Follows
<1>4. r = IF k = c.count THEN b
          ELSE IF c.running THEN C!RestartTemplate(C!SpawnWorkers(set), tip) ELSE set
  BY <1>1, <1>2 DEF C!SetWorkerCount
<1> HIDE DEF b, set, new, r
<1>5. CASE k = c.count
  <2>1. new = c
    BY <1>5 DEF new, CtlType
  <2> QED BY <1>1, <1>3, <1>4, <1>5, <2>1 DEF Fit, Follows, b, r, new
<1>6. CASE k # c.count /\ c.running
  <2> DEFINE s == C!SpawnWorkers(set)
  <2>1. Fit(s) /\ s.c = new
    <3>1. Bounded(new)
      BY DEF new
    <3> QED BY <1>1, <1>2, <1>6, <3>1, SpawnFits
  <2> HIDE DEF s
  <2>2. LET x == C!RestartTemplate(s, tip)
        IN Fit(x) /\ Follows(x, tip, sd) /\ x.c.count = k /\ x.c.locked = c.locked
    BY <1>2, <1>3, <2>1, RestartFits
  <2> QED BY <1>4, <1>6, <2>2 DEF s, r, b
<1>7. CASE k # c.count /\ ~c.running
  <2>1. r = set
    BY <1>4, <1>7
  <2> QED BY <1>1, <1>2, <1>3, <1>7, <2>1 DEF Fit, Follows, b, r, new
<1> QED BY <1>5, <1>6, <1>7

LEMMA MinerFacts ==
  ASSUME MinerInv
  PROVE  /\ ctl \in CtlType /\ Bounded(ctl)
         /\ Crew(workers, IF ctl.running THEN ctl.count ELSE 0)
         /\ C!Both.c = ctl /\ C!Both.ws = workers
         /\ ctl.template.on <= tip /\ ctl.template.on \in Nat /\ tip \in Nat
         /\ (ctl.running /\ ~seeded => ctl.template.on = tip)
<1>1. C!Both.c = ctl /\ C!Both.ws = workers
  BY DEF C!Both
<1>2. Bounded(ctl) /\ Crew(workers, IF ctl.running THEN ctl.count ELSE 0)
  BY <1>1 DEF MinerInv, Fit
<1>3. ctl \in CtlType
  BY <1>2 DEF Bounded
<1>4. ctl.template.on \in Nat
  BY <1>3 DEF CtlType
<1> QED BY <1>1, <1>2, <1>3, <1>4 DEF MinerInv, Follows

LEMMA MinedTyped ==
  ASSUME MinerInv, NEW j \in 1..Len(mined)
  PROVE  mined[j].on \in Nat
<1> DEFINE Block == [on : Nat, seeded : BOOLEAN]
<1>1. mined \in Seq(Block)
  BY DEF MinerInv
<1> HIDE DEF Block
<1>2. mined[j] \in Block
  BY <1>1
<1> QED BY <1>2 DEF Block

(* A step that mines nothing.                                              *)
LEMMA MinerBecomes ==
  ASSUME MinerInv, NEW b, Fit(b), C!Becomes(b), tip' \in Nat, tip <= tip', mined' = mined,
         seeded' \in BOOLEAN, syncing' \in BOOLEAN, Follows(b, tip', seeded')
  PROVE  MinerInv'
<1>1. C!Both' = b
  BY DEF C!Both, C!Becomes, Fit
<1>2. Fit(C!Both)' /\ Follows(C!Both, tip, seeded)'
  <2>1. Fit(C!Both') /\ Follows(C!Both', tip', seeded')
    BY <1>1
  <2> QED BY <2>1 DEF Fit, Bounded, Crew, Single, Follows
<1>3. \A j \in 1..Len(mined) : mined[j].on < tip'
  <2> TAKE j \in 1..Len(mined)
  <2>1. mined[j].on \in Nat /\ mined[j].on < tip /\ tip \in Nat
    BY MinedTyped DEF MinerInv
  <2> QED BY <2>1
<1>4. C!NoCompetitor'
  BY DEF MinerInv, C!NoCompetitor
<1> QED BY <1>2, <1>3, <1>4 DEF MinerInv

LEMMA CrewChange ==
  ASSUME NEW size \in Nat, NEW ws, Crew(ws, size), NEW i \in DOMAIN ws, NEW w, Single(w)
  PROVE  Crew([ws EXCEPT ![i] = w], size)
<1>1. w \in WorkerType /\ ws \in Seq(WorkerType) /\ Len(ws) = size /\ DOMAIN ws = 1..size
  BY DEF Crew, Single
<1>2. [ws EXCEPT ![i] = w] \in Seq(WorkerType) /\ Len([ws EXCEPT ![i] = w]) = size
  BY <1>1
<1>3. \A k \in 1..size : Single([ws EXCEPT ![i] = w][k])
  BY <1>1 DEF Crew
<1> QED BY <1>2, <1>3 DEF Crew

LEMMA WorkerTyped ==
  ASSUME MinerInv, NEW i \in DOMAIN workers
  PROVE  Single(workers[i]) /\ workers[i] \in WorkerType /\ ctl.running
<1>1. PICK size \in Nat : Crew(workers, size) /\ size = IF ctl.running THEN ctl.count ELSE 0
  BY MinerFacts DEF CtlType
<1>2. DOMAIN workers = 1..size
  BY <1>1 DEF Crew
<1>3. Single(workers[i])
  BY <1>1, <1>2 DEF Crew
<1>4. ctl.running
  BY <1>1, <1>2
<1> QED BY <1>3, <1>4 DEF Single

(* A step of one worker.                                                   *)
LEMMA WorkerChange ==
  ASSUME MinerInv, NEW i \in DOMAIN workers, NEW w, Single(w),
         workers' = [workers EXCEPT ![i] = w], UNCHANGED ctl, UNCHANGED C!Env
  PROVE  MinerInv'
<1> DEFINE b == [c |-> ctl, ws |-> [workers EXCEPT ![i] = w]]
<1>1. Crew([workers EXCEPT ![i] = w], IF ctl.running THEN ctl.count ELSE 0)
  <2>1. PICK size \in Nat : Crew(workers, size) /\ size = IF ctl.running THEN ctl.count ELSE 0
    BY MinerFacts DEF CtlType
  <2>2. Crew([workers EXCEPT ![i] = w], size)
    BY <2>1, CrewChange
  <2> QED BY <2>1, <2>2
<1>2. Fit(b)
  BY <1>1, MinerFacts DEF Fit
<1>3. Follows(b, tip, seeded)
  BY MinerFacts DEF Follows
<1>4. C!Becomes(b)
  BY DEF C!Becomes
<1>5. tip' = tip /\ seeded' = seeded /\ syncing' = syncing /\ mined' = mined
  BY DEF C!Env
<1> HIDE DEF b
<1> QED BY <1>2, <1>3, <1>4, <1>5, MinerFacts, MinerBecomes DEF MinerInv

LEMMA MinerWorker ==
  ASSUME MinerInv, NEW i \in DOMAIN workers,
         \/ C!Worker(i) \/ C!Hang(i)
         \/ \E type \in {"solved", "oom", "exhausted"} : C!Reports(i, type)
  PROVE  MinerInv'
<1> DEFINE w == workers[i]
<1>1. w \in WorkerType /\ Single(w)
  BY WorkerTyped
<1>2. ASSUME NEW v \in WorkerType, workers' = [workers EXCEPT ![i] = v], UNCHANGED ctl,
             UNCHANGED C!Env,
             \A a, b \in v.loops : a.live /\ b.live => a = b
      PROVE  MinerInv'
  BY <1>2, WorkerChange DEF Single
<1> HIDE DEF w
<1>3. CASE C!WorkerHears(i)
  <2> DEFINE msg == Head(w.inbox)
             heard == [w EXCEPT !.inbox = Tail(@), !.mining = msg # C!StopMsg,
                         !.loops = C!Superseded(@) \cup
                           (IF msg = C!StopMsg THEN {} ELSE {[t |-> msg, live |-> TRUE]})]
  <2>1. w.inbox # <<>> /\ workers' = [workers EXCEPT ![i] = heard] /\ UNCHANGED ctl
        /\ UNCHANGED C!Env
    BY <1>3 DEF C!WorkerHears, w
  <2>2. w.inbox \in Seq(Nat)
    BY <1>1 DEF WorkerType
  <2>3. msg \in Nat /\ Tail(w.inbox) \in Seq(Nat)
    BY <2>1, <2>2
  <2>4. w.loops \subseteq LoopType
    BY <1>1 DEF WorkerType
  <2>5. C!Superseded(w.loops) \subseteq LoopType /\ \A a \in C!Superseded(w.loops) : ~a.live
    BY <2>4 DEF C!Superseded, LoopType
  <2> HIDE DEF msg
  <2>6. heard \in WorkerType
    <3>1. C!Superseded(w.loops) \cup (IF msg = C!StopMsg THEN {} ELSE {[t |-> msg, live |-> TRUE]})
            \subseteq LoopType
      <4>1. [t |-> msg, live |-> TRUE] \in LoopType
        BY <2>3 DEF LoopType
      <4> HIDE DEF LoopType
      <4> QED BY <2>5, <4>1
    <3>2. (msg # C!StopMsg) \in BOOLEAN
      OBVIOUS
    <3> HIDE DEF LoopType
    <3> QED BY <1>1, <2>3, <3>1, <3>2 DEF WorkerType
  <2>7. heard.loops = C!Superseded(w.loops) \cup
                        (IF msg = C!StopMsg THEN {} ELSE {[t |-> msg, live |-> TRUE]})
    BY <1>1 DEF WorkerType
  <2>8. \A a, b \in heard.loops : a.live /\ b.live => a = b
    BY <2>5, <2>7
  <2> HIDE DEF heard
  <2> QED BY <1>2, <2>1, <2>6, <2>8
<1>4. CASE C!LoopEnds(i)
  <2>1. PICK l : workers' = [workers EXCEPT ![i].loops = @ \ {l}] /\ UNCHANGED ctl /\ UNCHANGED C!Env
    BY <1>4 DEF C!LoopEnds
  <2> DEFINE v == [w EXCEPT !.loops = @ \ {l}]
  <2>2. workers' = [workers EXCEPT ![i] = v]
    BY <2>1 DEF w
  <2>3. v \in WorkerType /\ v.loops = w.loops \ {l}
    BY <1>1 DEF WorkerType
  <2>4. \A a, b \in v.loops : a.live /\ b.live => a = b
    BY <1>1, <2>3 DEF Single
  <2> HIDE DEF v
  <2> QED BY <1>2, <2>1, <2>2, <2>3, <2>4
<1>5. ASSUME NEW type \in {"solved", "oom", "exhausted"}, C!Reports(i, type) PROVE MinerInv'
  <2>1. PICK l \in C!Grinds(workers[i]) :
          /\ workers' = [workers EXCEPT
               ![i].out = Append(@, [type |-> type, id |-> l.t]),
               ![i].loops = IF type = "exhausted" THEN @ \ {l} ELSE @]
          /\ UNCHANGED ctl /\ UNCHANGED C!Env
    BY <1>5 DEF C!Reports
  <2> DEFINE report == [type |-> type, id |-> l.t]
             v == [w EXCEPT !.out = Append(@, report),
                            !.loops = IF type = "exhausted" THEN @ \ {l} ELSE @]
  <2>2. workers' = [workers EXCEPT ![i] = v]
    BY <2>1 DEF w
  <2>3. l \in w.loops /\ w.loops \subseteq LoopType /\ w.out \in Seq(C!Out)
    BY <1>1, <2>1 DEF C!Grinds, WorkerType, w
  <2>4. report \in C!Out
    BY <1>5, <2>3 DEF C!Out, LoopType
  <2> HIDE DEF report
  <2>5. Append(w.out, report) \in Seq(C!Out)
    BY <2>3, <2>4
  <2>6. v \in WorkerType /\ v.loops \subseteq w.loops
    BY <1>1, <2>5 DEF WorkerType
  <2>7. \A a, b \in v.loops : a.live /\ b.live => a = b
    BY <1>1, <2>6 DEF Single
  <2> HIDE DEF v
  <2> QED BY <1>2, <2>1, <2>2, <2>6, <2>7
<1>6. CASE C!Hang(i)
  <2> DEFINE v == [w EXCEPT !.hung = TRUE]
  <2>1. workers' = [workers EXCEPT ![i] = v] /\ UNCHANGED ctl /\ UNCHANGED C!Env
    BY <1>6 DEF C!Hang, w
  <2>2. v \in WorkerType /\ v.loops = w.loops
    BY <1>1 DEF WorkerType
  <2>3. \A a, b \in v.loops : a.live /\ b.live => a = b
    BY <1>1, <2>2 DEF Single
  <2> HIDE DEF v
  <2> QED BY <1>2, <2>1, <2>2, <2>3
<1> QED BY <1>3, <1>4, <1>5, <1>6 DEF C!Worker

(* A report is taken off its worker's queue.                               *)
LEMMA TakenCrew ==
  ASSUME MinerInv, NEW i \in DOMAIN workers, workers[i].out # <<>>
  PROVE  /\ Crew(C!Taken(i), ctl.count) /\ ctl.running
         /\ Head(workers[i].out) \in C!Out
<1>1. PICK size \in Nat : Crew(workers, size) /\ size = IF ctl.running THEN ctl.count ELSE 0
  BY MinerFacts DEF CtlType
<1>2. workers[i] \in WorkerType /\ Single(workers[i]) /\ ctl.running
  BY WorkerTyped
<1>3. workers[i].out \in Seq(C!Out)
  BY <1>2 DEF WorkerType
<1>4. Tail(workers[i].out) \in Seq(C!Out) /\ Head(workers[i].out) \in C!Out
  BY <1>3
<1> DEFINE v == [workers[i] EXCEPT !.out = Tail(@)]
<1>5. v \in WorkerType /\ v.loops = workers[i].loops
  BY <1>2, <1>4 DEF WorkerType
<1>6. Single(v)
  BY <1>2, <1>5 DEF Single
<1>7. C!Taken(i) = [workers EXCEPT ![i] = v]
  BY DEF C!Taken
<1> HIDE DEF v
<1>8. Crew(C!Taken(i), size)
  <2>1. Crew([workers EXCEPT ![i] = v], size)
    BY <1>1, <1>6, CrewChange
  <2> QED BY <1>7, <2>1
<1> QED BY <1>1, <1>2, <1>4, <1>8

LEMMA MinerHearsOther ==
  ASSUME MinerInv, NEW i \in DOMAIN workers, C!OnOom(i) \/ C!OnExhausted(i)
  PROVE  MinerInv'
<1>1. workers[i].out # <<>> /\ UNCHANGED C!Env
  BY DEF C!OnOom, C!OnExhausted, C!FirstIs
<1>2. tip' = tip /\ seeded' = seeded /\ syncing' = syncing /\ mined' = mined
  BY <1>1 DEF C!Env
<1>3. Crew(C!Taken(i), ctl.count) /\ ctl.running /\ Bounded(ctl) /\ ctl \in CtlType
  BY <1>1, TakenCrew, MinerFacts
<1>4. CASE C!OnOom(i)
  <2> DEFINE d == [ctl EXCEPT !.oom = TRUE]
             b == [c |-> d, ws |-> C!Taken(i)]
  <2>1. C!Becomes(b)
    BY <1>4 DEF C!OnOom
  <2>2. /\ d \in CtlType /\ d.running = ctl.running /\ d.auto = ctl.auto /\ d.count = ctl.count
        /\ d.min = ctl.min /\ d.max = ctl.max /\ d.template = ctl.template
    BY <1>3 DEF CtlType
  <2> HIDE DEF d
  <2>3. Fit(b)
    <3>1. Bounded(d)
      BY <1>3, <2>2 DEF Bounded
    <3> QED BY <1>3, <2>2, <3>1 DEF Fit
  <2>4. Follows(b, tip, seeded)
    BY <2>2, MinerFacts DEF Follows
  <2> HIDE DEF b
  <2> QED BY <1>2, <2>1, <2>3, <2>4, MinerBecomes, MinerFacts DEF MinerInv
<1>5. CASE C!OnExhausted(i)
  <2> DEFINE a == [c |-> ctl, ws |-> C!Taken(i)]
             b == C!RestartTemplate(a, tip)
  <2>1. Fit(a) /\ a.c.template.on <= tip /\ tip \in Nat
    BY <1>3, MinerFacts DEF Fit
  <2>2. C!Becomes(b)
    BY <1>5 DEF C!OnExhausted
  <2> HIDE DEF a
  <2>3. Fit(b) /\ Follows(b, tip, seeded)
    BY <2>1, RestartFits
  <2> HIDE DEF b
  <2> QED BY <1>2, <2>1, <2>2, <2>3, MinerBecomes DEF MinerInv
<1> QED BY <1>4, <1>5

(* A block of our own: it extends what its template extends.               *)
LEMMA MinerSolves ==
  ASSUME MinerInv, NEW i \in DOMAIN workers, C!OnSolved(i)
  PROVE  MinerInv'
<1> DEFINE halted == [c |-> ctl, ws |-> C!Post(C!Taken(i), <<C!StopMsg>>)]
           valid == Head(workers[i].out).id = ctl.template.id
           longer == tip = ctl.template.on
<1>1. workers[i].out # <<>> /\ syncing' = syncing /\ seeded' = seeded
  BY DEF C!OnSolved, C!FirstIs
<1>2. Crew(C!Taken(i), ctl.count) /\ ctl.running /\ Bounded(ctl) /\ ctl \in CtlType
  BY <1>1, TakenCrew, MinerFacts
<1>3. Fit(halted) /\ halted.c = ctl
  <2>1. ctl.count \in Nat /\ <<C!StopMsg>> \in Seq(Nat)
    BY <1>2 DEF CtlType, C!StopMsg
  <2>2. Crew(C!Post(C!Taken(i), <<C!StopMsg>>), ctl.count)
    BY <1>2, <2>1, PostCrew
  <2> QED BY <1>2, <2>2 DEF Fit
<1>4. /\ ctl.template.on <= tip /\ ctl.template.on \in Nat /\ tip \in Nat
      /\ (~seeded => ctl.template.on = tip)
  BY <1>2, MinerFacts
<1>5. CASE ~valid
  <2>1. C!Becomes(C!Refresh(halted, tip)) /\ tip' = tip /\ mined' = mined
    BY <1>5 DEF C!OnSolved
  <2> HIDE DEF halted
  <2>2. Fit(C!Refresh(halted, tip)) /\ Follows(C!Refresh(halted, tip), tip, seeded)
    BY <1>3, <1>4, RefreshFits
  <2> QED BY <1>1, <1>4, <2>1, <2>2, MinerBecomes DEF MinerInv
<1>6. CASE valid
  <2> DEFINE block == [on |-> ctl.template.on, seeded |-> seeded]
             b == IF longer THEN C!Refresh(halted, tip + 1) ELSE halted
  <2>1. /\ mined' = Append(mined, block) /\ tip' = IF longer THEN tip + 1 ELSE tip
        /\ C!Becomes(b)
    BY <1>6 DEF C!OnSolved
  <2>2. block \in [on : Nat, seeded : BOOLEAN] /\ mined \in Seq([on : Nat, seeded : BOOLEAN])
    BY <1>4 DEF MinerInv
  <2>3. tip' \in Nat /\ tip <= tip' /\ ctl.template.on < tip'
    BY <1>4, <2>1
  <2>4. Fit(b) /\ Follows(b, tip', seeded')
    <3> HIDE DEF halted
    <3>1. CASE longer
      <4>1. tip + 1 \in Nat /\ halted.c.template.on <= tip + 1
        BY <1>3, <1>4
      <4>2. Fit(C!Refresh(halted, tip + 1)) /\ Follows(C!Refresh(halted, tip + 1), tip + 1, seeded)
        BY <1>3, <4>1, RefreshFits
      <4> QED BY <1>1, <2>1, <3>1, <4>2
    <3>2. CASE ~longer
      BY <1>1, <1>3, <1>4, <2>1, <3>2 DEF Follows
    <3> QED BY <3>1, <3>2
  <2> HIDE DEF b
  <2>5. Fit(C!Both)' /\ Follows(C!Both, tip, seeded)'
    <3>1. C!Both' = b
      BY <2>1, <2>4 DEF C!Both, C!Becomes, Fit
    <3>2. Fit(C!Both') /\ Follows(C!Both', tip', seeded')
      BY <2>4, <3>1
    <3> QED BY <3>2 DEF Fit, Bounded, Crew, Single, Follows
  <2>6. /\ mined' \in Seq([on : Nat, seeded : BOOLEAN]) /\ Len(mined') = Len(mined) + 1
        /\ \A j \in 1..Len(mined) : mined'[j] = mined[j]
        /\ mined'[Len(mined) + 1] = block
    <3> HIDE DEF block
    <3> QED BY <2>1, <2>2
  <2>7. Len(mined) \in Nat
    BY <2>2
  <2>8. \A j \in 1..Len(mined) : mined[j].on \in Nat /\ mined[j].on < tip
    BY MinedTyped DEF MinerInv
  <2>9. \A j \in 1..Len(mined') : mined'[j].on < tip'
    <3> TAKE j \in 1..Len(mined')
    <3>1. CASE j = Len(mined) + 1
      BY <2>3, <2>6, <3>1
    <3>2. CASE j \in 1..Len(mined)
      BY <1>4, <2>3, <2>6, <2>8, <3>2
    <3> QED BY <2>6, <2>7, <3>1, <3>2
  <2>10. C!NoCompetitor'
    <3> SUFFICES ASSUME NEW j \in DOMAIN mined', NEW k \in DOMAIN mined', j < k,
                        mined'[j].on = mined'[k].on, ~mined'[k].seeded
                 PROVE  FALSE
      BY DEF C!NoCompetitor
    <3>1. DOMAIN mined' = 1..(Len(mined) + 1) /\ DOMAIN mined = 1..Len(mined)
      BY <2>2, <2>6
    <3>2. j \in 1..Len(mined)
      BY <2>7, <3>1
    <3>3. CASE k \in 1..Len(mined)
      BY <2>6, <3>1, <3>2, <3>3 DEF MinerInv, C!NoCompetitor
    <3>4. CASE k = Len(mined) + 1
      <4>1. mined'[k].on = tip
        BY <1>4, <2>6, <3>4
      <4>2. mined'[j].on < tip /\ mined'[j].on \in Nat
        BY <2>6, <2>8, <3>2
      <4> QED BY <1>4, <4>1, <4>2
    <3> QED BY <2>7, <3>1, <3>3, <3>4
  <2> QED BY <1>1, <2>3, <2>5, <2>6, <2>9, <2>10 DEF MinerInv
<1> QED BY <1>5, <1>6

(* What the tuner holds: with the mode and the bounds as they were, a      *)
(* locked miner that runs on has no more threads than before.              *)
HoldsStep ==
  ctl.locked /\ ctl'.locked /\ ctl.running /\ ctl'.running
    /\ <<ctl.auto, ctl.min, ctl.max>> = <<ctl'.auto, ctl'.min, ctl'.max>> /\ ctl.auto
  => ctl'.count <= ctl.count

LEMMA MinerStarts ==
  ASSUME MinerInv, C!Start
  PROVE  MinerInv' /\ HoldsStep
<1> DEFINE on == [ctl EXCEPT !.running = TRUE, !.locked = FALSE, !.warm = FALSE, !.oom = FALSE,
                    !.count = IF ctl.auto THEN C!Clamp(@, ctl.min, ctl.max) ELSE @]
           a == C!SpawnWorkers([c |-> on, ws |-> workers])
           b == C!RestartTemplate(a, tip)
<1>1. ~ctl.running /\ C!Becomes(b) /\ UNCHANGED C!Env
  BY DEF C!Start
<1>2. tip' = tip /\ seeded' = seeded /\ syncing' = syncing /\ mined' = mined
  BY <1>1 DEF C!Env
<1>3. ctl \in CtlType /\ Bounded(ctl) /\ ctl.template.on <= tip /\ tip \in Nat
  BY MinerFacts
<1>4. PICK k \in 1..MaxWorkers :
        /\ k = (IF ctl.auto THEN C!Clamp(ctl.count, ctl.min, ctl.max) ELSE ctl.count)
        /\ (ctl.auto => ctl.min <= k /\ k <= ctl.max)
  BY <1>3 DEF Bounded, CtlType, C!Clamp
<1>5. on = [ctl EXCEPT !.running = TRUE, !.locked = FALSE, !.warm = FALSE, !.oom = FALSE,
              !.count = k]
  BY <1>3, <1>4 DEF CtlType
<1> HIDE DEF on
<1>6. /\ on \in CtlType /\ on.running /\ on.count = k /\ on.auto = ctl.auto
      /\ on.min = ctl.min /\ on.max = ctl.max /\ on.template = ctl.template
  BY <1>3, <1>5 DEF CtlType
<1>7. Bounded(on)
  BY <1>3, <1>4, <1>6 DEF Bounded
<1>8. Fit(a) /\ a.c = on
  BY <1>6, <1>7, SpawnFits
<1> HIDE DEF a
<1>9. Fit(b) /\ Follows(b, tip, seeded)
  BY <1>3, <1>6, <1>8, RestartFits
<1> HIDE DEF b
<1>10. MinerInv'
  BY <1>1, <1>2, <1>3, <1>9, MinerBecomes DEF MinerInv
<1> QED BY <1>1, <1>10 DEF HoldsStep

LEMMA MinerStops ==
  ASSUME MinerInv, C!Stop
  PROVE  MinerInv' /\ HoldsStep
<1> DEFINE d == [ctl EXCEPT !.running = FALSE, !.template = C!NoTemplate]
           b == [c |-> d, ws |-> <<>>]
<1>1. C!Becomes(b) /\ UNCHANGED C!Env
  BY DEF C!Stop, C!Becomes
<1>2. tip' = tip /\ seeded' = seeded /\ syncing' = syncing /\ mined' = mined
  BY <1>1 DEF C!Env
<1>3. ctl \in CtlType /\ Bounded(ctl) /\ tip \in Nat
  BY MinerFacts
<1>4. C!NoTemplate \in [id : Nat, on : Nat] /\ C!NoTemplate.on = 0
  BY DEF C!NoTemplate
<1>5. /\ d \in CtlType /\ ~d.running /\ d.template = C!NoTemplate
      /\ d.min = ctl.min /\ d.max = ctl.max
  BY <1>3, <1>4 DEF CtlType
<1>6. ctl' = d
  BY <1>1 DEF C!Becomes
<1> HIDE DEF d
<1>7. Bounded(d)
  BY <1>3, <1>5 DEF Bounded
<1>8. Crew(<<>>, 0)
  BY DEF Crew
<1>9. Fit(b) /\ Follows(b, tip, seeded)
  BY <1>3, <1>4, <1>5, <1>7, <1>8 DEF Fit, Follows
<1> HIDE DEF b
<1>10. MinerInv'
  BY <1>1, <1>2, <1>3, <1>9, MinerBecomes DEF MinerInv
<1> QED BY <1>5, <1>6, <1>10 DEF HoldsStep

(* A restart of the template, with the workers as they are or new ones.    *)
LEMMA MinerRestarts ==
  ASSUME MinerInv, NEW a, Fit(a), a.c = ctl, NEW t \in Nat, tip <= t, tip' = t,
         C!Becomes(C!Refresh(a, t)) \/ C!Becomes(C!RestartTemplate(a, t)),
         syncing' = syncing, mined' = mined, seeded' \in BOOLEAN
  PROVE  MinerInv' /\ HoldsStep
<1>1. /\ ctl.template.on <= t /\ tip \in Nat /\ syncing \in BOOLEAN
      /\ ctl.count \in Nat
  BY MinerFacts DEF MinerInv, CtlType
<1>2. PICK b : /\ C!Becomes(b) /\ Fit(b) /\ Follows(b, t, seeded')
               /\ b.c.count = ctl.count
  <2>1. CASE C!Becomes(C!Refresh(a, t))
    BY <1>1, <2>1, RefreshFits
  <2>2. CASE C!Becomes(C!RestartTemplate(a, t))
    BY <1>1, <2>2, RestartFits
  <2> QED BY <2>1, <2>2
<1>3. MinerInv'
  BY <1>1, <1>2, MinerBecomes
<1>4. ctl'.count = ctl.count
  BY <1>2 DEF C!Becomes
<1> QED BY <1>1, <1>3, <1>4 DEF HoldsStep

LEMMA MinerAdjusts ==
  ASSUME MinerInv, C!Adjust
  PROVE  MinerInv' /\ HoldsStep
<1>1. ctl.running /\ UNCHANGED C!Env
  BY DEF C!Adjust
<1>2. tip' = tip /\ seeded' = seeded /\ syncing' = syncing /\ mined' = mined /\ tip \in Nat
      /\ seeded \in BOOLEAN
  BY <1>1 DEF C!Env, MinerInv
<1>3. Fit(C!Both) /\ C!Both.c = ctl /\ Bounded(ctl)
  BY MinerFacts DEF MinerInv
<1>4. Fit(C!SpawnWorkers(C!Both)) /\ C!SpawnWorkers(C!Both).c = ctl
  BY <1>1, <1>3, SpawnFits DEF C!Both
<1>5. CASE C!Becomes(C!RestartTemplate(C!Both, tip))
  BY <1>2, <1>3, <1>5, MinerRestarts
<1>6. CASE C!Becomes(C!RestartTemplate(C!SpawnWorkers(C!Both), tip))
  BY <1>2, <1>4, <1>6, MinerRestarts
<1> QED BY <1>5, <1>6 DEF C!Adjust

(* A new worker count, within the bounds.                                  *)
LEMMA MinerCounts ==
  ASSUME MinerInv, NEW c \in CtlType, NEW k \in 1..MaxWorkers, Bounded([c EXCEPT !.count = k]),
         c.running = ctl.running, c.count = ctl.count, c.template = ctl.template,
         C!Becomes(C!SetWorkerCount([c |-> c, ws |-> workers], k)), UNCHANGED C!Env
  PROVE  MinerInv' /\ ctl'.count = k /\ ctl'.locked = c.locked
<1>1. tip' = tip /\ seeded' = seeded /\ syncing' = syncing /\ mined' = mined
  BY DEF C!Env
<1>2. Crew(workers, IF c.running THEN c.count ELSE 0) /\ tip \in Nat
  BY MinerFacts
<1>3. Follows([c |-> c, ws |-> workers], tip, seeded)
  BY MinerFacts DEF Follows
<1>4. PICK r : /\ r = C!SetWorkerCount([c |-> c, ws |-> workers], k)
               /\ Fit(r) /\ Follows(r, tip, seeded) /\ r.c.count = k /\ r.c.locked = c.locked
  BY <1>2, <1>3, SetCountFits
<1>5. MinerInv'
  BY <1>1, <1>2, <1>4, MinerBecomes DEF MinerInv
<1>6. ctl' = r.c
  BY <1>4 DEF C!Becomes
<1> QED BY <1>4, <1>5, <1>6

(* setWorkerCount is not about the mode.                                   *)
LEMMA CountKeepsMode ==
  ASSUME NEW c \in CtlType, NEW ws, NEW k \in 1..MaxWorkers
  PROVE  LET r == C!SetWorkerCount([c |-> c, ws |-> ws], k)
         IN  r.c.auto = c.auto /\ r.c.min = c.min /\ r.c.max = c.max
<1> DEFINE b == [c |-> c, ws |-> ws]
           set == [b EXCEPT !.c.count = k]
           new == [c EXCEPT !.count = k]
           r == C!SetWorkerCount(b, k)
           s == C!SpawnWorkers(set)
<1>1. b.c = c /\ set.c = new /\ s.c = new
  BY DEF C!SpawnWorkers
<1>2. new \in CtlType /\ new.auto = c.auto /\ new.min = c.min /\ new.max = c.max
  BY DEF CtlType
<1>3. r = IF k = c.count THEN b ELSE IF set.c.running THEN C!RestartTemplate(s, tip) ELSE set
  <2>1. set.c.running = c.running
    BY <1>1 DEF CtlType
  <2> QED BY <1>1, <2>1 DEF C!SetWorkerCount
<1> HIDE DEF b, set, new, r, s
<1>4. \/ C!RestartTemplate(s, tip).c = new
      \/ \E t \in {[id |-> s.c.made + 1, on |-> tip]}, i \in {s.c.made + 1} :
           C!RestartTemplate(s, tip).c = [new EXCEPT !.template = t, !.made = i]
  BY <1>1 DEF C!RestartTemplate
<1>5. /\ C!RestartTemplate(s, tip).c.auto = new.auto /\ C!RestartTemplate(s, tip).c.min = new.min
      /\ C!RestartTemplate(s, tip).c.max = new.max
  BY <1>2, <1>4 DEF CtlType
<1> QED BY <1>1, <1>2, <1>3, <1>5 DEF r, b

LEMMA MinerSlides ==
  ASSUME MinerInv, NEW k \in 1..MaxWorkers, C!Slide(k)
  PROVE  MinerInv' /\ HoldsStep
<1>1. ctl \in CtlType /\ Bounded(ctl) /\ ~ctl.auto
  BY MinerFacts DEF C!Slide
<1> DEFINE d == [ctl EXCEPT !.count = k]
<1>2. /\ d \in CtlType /\ d.auto = ctl.auto /\ d.min = ctl.min /\ d.max = ctl.max
      /\ d.running = ctl.running
  BY <1>1 DEF CtlType
<1>3. Bounded(d)
  BY <1>1, <1>2 DEF Bounded
<1> HIDE DEF d
<1>4. Bounded([ctl EXCEPT !.count = k])
  BY <1>3 DEF d
<1>5. C!Becomes(C!SetWorkerCount([c |-> ctl, ws |-> workers], k)) /\ UNCHANGED C!Env
  BY DEF C!Slide, C!Both
<1>6. MinerInv'
  BY <1>1, <1>4, <1>5, MinerCounts
<1> QED BY <1>1, <1>6 DEF HoldsStep

LEMMA MinerModes ==
  ASSUME MinerInv, NEW auto \in BOOLEAN, NEW lo \in 1..MaxWorkers, NEW hi \in 1..MaxWorkers,
         C!SetControlMode(auto, lo, hi)
  PROVE  MinerInv' /\ HoldsStep
<1> DEFINE turned == auto # ctl.auto
           low == IF lo > hi THEN hi ELSE lo
           set == [ctl EXCEPT !.auto = auto, !.min = low, !.max = hi,
                     !.locked = IF turned THEN FALSE ELSE @,
                     !.warm = IF turned THEN FALSE ELSE @]
           k == CASE ~auto -> ctl.count
                  [] auto /\ turned -> hi
                  [] auto /\ ~turned -> C!Clamp(ctl.count, low, hi)
<1>1. C!Becomes(C!SetWorkerCount([c |-> set, ws |-> workers], k)) /\ UNCHANGED C!Env
  BY DEF C!SetControlMode
<1>2. ctl \in CtlType /\ Bounded(ctl)
  BY MinerFacts
<1>3. low \in 1..MaxWorkers /\ low <= hi
  OBVIOUS
<1>4. ctl.count \in 1..MaxWorkers
  BY <1>2 DEF CtlType
<1>5. k \in 1..MaxWorkers /\ (auto => low <= k /\ k <= hi)
  <2> HIDE DEF low
  <2>1. CASE ~auto
    BY <1>4, <2>1
  <2>2. CASE auto /\ turned
    BY <1>3, <2>2
  <2>3. CASE auto /\ ~turned
    BY <1>3, <1>4, <2>3 DEF C!Clamp
  <2> QED BY <2>1, <2>2, <2>3
<1>6. auto /\ ~turned /\ ctl.running /\ low = ctl.min /\ hi = ctl.max => k = ctl.count
  <2> SUFFICES ASSUME auto, ~turned, ctl.running, low = ctl.min, hi = ctl.max
               PROVE  k = ctl.count
    OBVIOUS
  <2>1. ctl.min <= ctl.count /\ ctl.count <= ctl.max
    BY <1>2 DEF Bounded
  <2>2. k = C!Clamp(ctl.count, low, hi)
    OBVIOUS
  <2> HIDE DEF k, low
  <2> QED BY <1>2, <2>1, <2>2 DEF C!Clamp, CtlType
<1> HIDE DEF low, k
<1>7. /\ set \in CtlType /\ set.running = ctl.running /\ set.count = ctl.count
      /\ set.template = ctl.template /\ set.auto = auto /\ set.min = low /\ set.max = hi
  BY <1>2, <1>3 DEF CtlType
<1> HIDE DEF set, turned
<1> DEFINE d == [set EXCEPT !.count = k]
<1>8. /\ d \in CtlType /\ d.auto = auto /\ d.min = low /\ d.max = hi /\ d.count = k
  BY <1>5, <1>7 DEF CtlType
<1>9. Bounded(d)
  <2> HIDE DEF d
  <2> QED BY <1>3, <1>5, <1>8 DEF Bounded
<1>10. MinerInv' /\ ctl'.count = k
  BY <1>1, <1>5, <1>7, <1>9, MinerCounts
<1>11. ctl'.auto = auto /\ ctl'.min = low /\ ctl'.max = hi
  <2>1. C!SetWorkerCount([c |-> set, ws |-> workers], k).c.auto = auto
        /\ C!SetWorkerCount([c |-> set, ws |-> workers], k).c.min = low
        /\ C!SetWorkerCount([c |-> set, ws |-> workers], k).c.max = hi
    BY <1>5, <1>7, CountKeepsMode
  <2> QED BY <1>1, <2>1 DEF C!Becomes
<1>12. HoldsStep
  <2> SUFFICES ASSUME ctl.running, ctl.auto = ctl'.auto, ctl.min = ctl'.min, ctl.max = ctl'.max,
                      ctl.auto
               PROVE  ctl'.count <= ctl.count
    BY DEF HoldsStep
  <2>1. k = ctl.count
    BY <1>6, <1>11 DEF turned
  <2> QED BY <1>4, <1>10, <2>1
<1> QED BY <1>10, <1>12

(* autoTune: fewer threads when one ran out of memory, else one more.      *)
LEMMA MinerTunes ==
  ASSUME MinerInv, C!AutoTune
  PROVE  MinerInv' /\ HoldsStep
<1> DEFINE seen == [ctl EXCEPT !.oom = FALSE]
           down == IF ctl.count > ctl.min THEN ctl.count - 1 ELSE ctl.min
           more == CASE ctl.oom -> down
                     [] ~ctl.oom /\ C!MayProbe(ctl) -> ctl.count + 1
                     [] OTHER -> ctl.count
           c == IF ~ctl.warm THEN [seen EXCEPT !.warm = TRUE]
                ELSE [seen EXCEPT !.locked = @ \/ ctl.oom]
           k == IF ctl.warm THEN more ELSE ctl.count
<1>1. /\ ctl.running /\ ctl.auto /\ UNCHANGED C!Env
      /\ C!Becomes(C!SetWorkerCount([c |-> c, ws |-> workers], k))
  BY DEF C!AutoTune
<1>2. ctl \in CtlType /\ Bounded(ctl)
  BY MinerFacts
<1>3. /\ ctl.count \in 1..MaxWorkers /\ ctl.min \in 1..MaxWorkers /\ ctl.max \in 1..MaxWorkers
      /\ ctl.oom \in BOOLEAN /\ ctl.locked \in BOOLEAN /\ ctl.warm \in BOOLEAN
      /\ ctl.min <= ctl.count /\ ctl.count <= ctl.max
  BY <1>1, <1>2 DEF CtlType, Bounded
<1>4. /\ k \in 1..MaxWorkers /\ ctl.min <= k /\ k <= ctl.max
      /\ (ctl.locked => k <= ctl.count)
  <2>1. MaxWorkers \in Nat
    BY PartsConstants DEF C!ControllerConstants
  <2>2. CASE ~ctl.warm
    BY <1>3, <2>2
  <2>3. CASE ctl.warm /\ ctl.oom
    BY <1>3, <2>1, <2>3
  <2>4. CASE ctl.warm /\ ~ctl.oom /\ C!MayProbe(ctl)
    <3>1. k = ctl.count + 1 /\ ~ctl.locked /\ ctl.count < ctl.max
      BY <2>4 DEF C!MayProbe
    <3> HIDE DEF k
    <3> QED BY <1>3, <2>1, <3>1
  <2>5. CASE ctl.warm /\ ~ctl.oom /\ ~C!MayProbe(ctl)
    <3>1. k = ctl.count
      BY <2>5
    <3> HIDE DEF k
    <3> QED BY <1>3, <3>1
  <2> QED BY <2>2, <2>3, <2>4, <2>5
<1> HIDE DEF k
<1>5. /\ c \in CtlType /\ c.running = ctl.running /\ c.count = ctl.count /\ c.auto = ctl.auto
      /\ c.template = ctl.template /\ c.min = ctl.min /\ c.max = ctl.max
  <2>1. /\ seen \in CtlType /\ seen.running = ctl.running /\ seen.count = ctl.count
        /\ seen.auto = ctl.auto /\ seen.locked = ctl.locked
        /\ seen.template = ctl.template /\ seen.min = ctl.min /\ seen.max = ctl.max
    BY <1>2 DEF CtlType
  <2> HIDE DEF seen
  <2>2. CASE ~ctl.warm
    <3>1. c = [seen EXCEPT !.warm = TRUE]
      BY <2>2
    <3> HIDE DEF c
    <3> QED BY <2>1, <3>1 DEF CtlType
  <2>3. CASE ctl.warm
    <3>1. c = [seen EXCEPT !.locked = @ \/ ctl.oom]
      BY <2>3
    <3>2. (seen.locked \/ ctl.oom) \in BOOLEAN
      OBVIOUS
    <3> HIDE DEF c
    <3> QED BY <2>1, <3>1, <3>2 DEF CtlType
  <2> QED BY <1>3, <2>2, <2>3
<1> HIDE DEF c
<1> DEFINE d == [c EXCEPT !.count = k]
<1>6. /\ d \in CtlType /\ d.min = ctl.min /\ d.max = ctl.max /\ d.count = k
  BY <1>4, <1>5 DEF CtlType
<1>7. Bounded(d)
  <2> HIDE DEF d
  <2> QED BY <1>3, <1>4, <1>6 DEF Bounded
<1>8. MinerInv' /\ ctl'.count = k
  BY <1>1, <1>4, <1>5, <1>7, MinerCounts
<1> QED BY <1>4, <1>8 DEF HoldsStep

LEMMA MinerRespawns ==
  ASSUME MinerInv, C!Respawn
  PROVE  MinerInv' /\ HoldsStep
<1>1. PICK i \in DOMAIN workers : C!Becomes(C!RespawnWorker(C!Both, i))
  BY DEF C!Respawn
<1>2. tip' = tip /\ seeded' = seeded /\ syncing' = syncing /\ mined' = mined
  BY DEF C!Respawn, C!Env
<1> DEFINE a == [C!Both EXCEPT !.ws[i] = C!NewWorker]
<1>3. Single(C!NewWorker)
  BY DEF Single, C!NewWorker, WorkerType
<1>4. PICK size \in Nat : Crew(workers, size) /\ size = IF ctl.running THEN ctl.count ELSE 0
  BY MinerFacts DEF CtlType
<1>5. Crew([workers EXCEPT ![i] = C!NewWorker], size)
  BY <1>3, <1>4, CrewChange
<1>6. a = [c |-> ctl, ws |-> [workers EXCEPT ![i] = C!NewWorker]]
  BY DEF C!Both
<1>7. C!Becomes(C!RestartTemplate(a, tip))
  BY <1>1 DEF C!RespawnWorker
<1> HIDE DEF a
<1>8. Fit(a) /\ a.c = ctl
  BY <1>4, <1>5, <1>6, MinerFacts DEF Fit
<1> QED BY <1>2, <1>7, <1>8, MinerFacts, MinerRestarts DEF MinerInv

LEMMA RestartCount ==
  ASSUME NEW b, b.c \in CtlType, NEW t
  PROVE  /\ C!RestartTemplate(b, t).c.count = b.c.count
         /\ C!Refresh(b, t).c.count = b.c.count
<1>1. C!RestartTemplate(b, t).c.count = b.c.count
  <2>1. \/ C!RestartTemplate(b, t).c = b.c
        \/ \E x \in {[id |-> b.c.made + 1, on |-> t]}, i \in {b.c.made + 1} :
             C!RestartTemplate(b, t).c = [b.c EXCEPT !.template = x, !.made = i]
    BY DEF C!RestartTemplate
  <2> QED BY <2>1 DEF CtlType
<1> QED BY <1>1 DEF C!Refresh

LEMMA MinerNext ==
  ASSUME MinerInv, C!Next
  PROVE  MinerInv' /\ HoldsStep
<1>1. /\ tip \in Nat /\ seeded \in BOOLEAN /\ syncing \in BOOLEAN /\ ctl \in CtlType
      /\ ctl.count \in Nat /\ Fit(C!Both) /\ C!Both.c = ctl
  BY MinerFacts DEF MinerInv, CtlType
<1>2. CASE C!User
  BY <1>2, MinerStarts, MinerStops, MinerAdjusts, MinerSlides, MinerModes DEF C!User
<1>3. CASE C!NewTip
  <2>1. /\ tip' = tip + 1 /\ seeded' = FALSE /\ C!Becomes(C!Refresh(C!Both, tip + 1))
        /\ syncing' = syncing /\ mined' = mined
    BY <1>3 DEF C!NewTip
  <2>2. tip + 1 \in Nat /\ tip <= tip + 1
    BY <1>1
  <2>3. seeded' \in BOOLEAN
    BY <2>1, Zenon
  <2> QED BY <1>1, <2>1, <2>2, <2>3, MinerRestarts
<1>4. CASE C!PoolChanged \/ C!AfterSeeding \/ C!DifficultyChanged
  <2>1. /\ tip' = tip /\ syncing' = syncing /\ mined' = mined /\ seeded' \in BOOLEAN
        /\ C!Becomes(C!Refresh(C!Both, tip)) \/ C!Becomes(C!RestartTemplate(C!Both, tip))
    BY <1>1, <1>4 DEF C!PoolChanged, C!AfterSeeding, C!DifficultyChanged, C!Env
  <2>2. tip <= tip
    BY <1>1
  <2> QED BY <1>1, <2>1, <2>2, MinerRestarts
<1>5. CASE C!SeedAnchor
  <2>1. /\ tip' = tip + 1 /\ seeded' = TRUE /\ ctl' = ctl /\ workers' = workers
        /\ syncing' = syncing /\ mined' = mined
    BY <1>5 DEF C!SeedAnchor
  <2>2. C!Becomes(C!Both) /\ tip' \in Nat /\ tip <= tip'
    BY <1>1, <2>1 DEF C!Becomes, C!Both
  <2>3. Follows(C!Both, tip', seeded')
    <3>1. ctl.template.on <= tip' /\ seeded'
      BY <1>1, <2>1, MinerFacts
    <3> QED BY <1>1, <3>1 DEF Follows
  <2>4. MinerInv'
    BY <1>1, <2>1, <2>2, <2>3, MinerBecomes
  <2> QED BY <1>1, <2>1, <2>4 DEF HoldsStep
<1>6. CASE C!CaughtUp
  <2>1. /\ syncing' = FALSE /\ ctl' = ctl /\ workers' = workers
        /\ tip' = tip /\ seeded' = seeded /\ mined' = mined
    BY <1>6 DEF C!CaughtUp
  <2>2. C!Becomes(C!Both) /\ tip <= tip' /\ Follows(C!Both, tip', seeded')
    BY <1>1, <2>1 DEF C!Becomes, C!Both, MinerInv
  <2>3. MinerInv'
    BY <1>1, <2>1, <2>2, MinerBecomes
  <2> QED BY <1>1, <2>1, <2>3 DEF HoldsStep
<1>7. CASE C!HealthTick
  BY <1>4, <1>7, MinerRespawns, MinerTunes DEF C!HealthTick
<1>8. ASSUME NEW i \in DOMAIN workers,
             \/ C!Worker(i) \/ C!Hang(i)
             \/ \E type \in {"solved", "oom", "exhausted"} : C!Reports(i, type)
      PROVE  MinerInv' /\ HoldsStep
  <2>1. MinerInv'
    BY <1>8, MinerWorker
  <2>2. ctl' = ctl
    BY <1>8 DEF C!Worker, C!WorkerHears, C!LoopEnds, C!Hang, C!Reports
  <2> QED BY <1>1, <2>1, <2>2 DEF HoldsStep
<1>9. ASSUME NEW i \in DOMAIN workers, C!OnOom(i) \/ C!OnExhausted(i) PROVE MinerInv' /\ HoldsStep
  <2>1. MinerInv'
    BY <1>9, MinerHearsOther
  <2>2. ctl'.count = ctl.count
    <3>1. CASE C!OnOom(i)
      BY <1>1, <3>1 DEF C!OnOom, C!Becomes, CtlType
    <3>2. CASE C!OnExhausted(i)
      BY <1>1, <3>2, RestartCount DEF C!OnExhausted, C!Becomes
    <3> QED BY <1>9, <3>1, <3>2
  <2> QED BY <1>1, <2>1, <2>2 DEF HoldsStep
<1>10. ASSUME NEW i \in DOMAIN workers, C!OnSolved(i) PROVE MinerInv' /\ HoldsStep
  <2>1. MinerInv'
    BY <1>10, MinerSolves
  <2>2. PICK a : a.c = ctl /\ ctl' \in {a.c, C!Refresh(a, tip).c, C!Refresh(a, tip + 1).c}
    <3> DEFINE a == [c |-> ctl, ws |-> C!Post(C!Taken(i), <<C!StopMsg>>)]
    <3>1. C!Becomes(a) \/ C!Becomes(C!Refresh(a, tip)) \/ C!Becomes(C!Refresh(a, tip + 1))
      BY <1>10 DEF C!OnSolved
    <3>2. a.c = ctl
      OBVIOUS
    <3> HIDE DEF a
    <3> QED BY <3>1, <3>2 DEF C!Becomes
  <2>3. ctl'.count = ctl.count
    BY <1>1, <2>2, RestartCount
  <2> QED BY <1>1, <2>1, <2>3 DEF HoldsStep
<1> QED BY <1>2, <1>3, <1>4, <1>5, <1>6, <1>7, <1>8, <1>9, <1>10 DEF C!Next, C!OnWorker

LEMMA MinerBegins ==
  ASSUME C!Init
  PROVE  MinerInv
<1>1. MaxWorkers \in Nat \ {0}
  BY PartsConstants DEF C!ControllerConstants
<1>2. /\ ctl = [running |-> FALSE, count |-> 1, auto |-> TRUE, min |-> 1, max |-> MaxWorkers,
                locked |-> FALSE, warm |-> FALSE, oom |-> FALSE, template |-> C!NoTemplate,
                made |-> 0]
      /\ workers = <<>> /\ tip = 1 /\ syncing = TRUE /\ seeded = FALSE /\ mined = <<>>
  BY DEF C!Init
<1>3. C!NoTemplate \in [id : Nat, on : Nat] /\ C!NoTemplate.on = 0
  BY DEF C!NoTemplate
<1>4. ctl \in CtlType /\ Bounded(ctl) /\ ~ctl.running /\ ctl.template.on = 0
  BY <1>1, <1>2, <1>3 DEF CtlType, Bounded
<1>5. Crew(workers, 0)
  BY <1>2 DEF Crew
<1>6. Fit(C!Both) /\ Follows(C!Both, tip, seeded)
  BY <1>2, <1>4, <1>5 DEF C!Both, Fit, Follows
<1>7. mined \in Seq([on : Nat, seeded : BOOLEAN]) /\ Len(mined) = 0 /\ DOMAIN mined = {}
  BY <1>2
<1>8. C!NoCompetitor
  <2> SUFFICES ASSUME NEW j \in DOMAIN mined PROVE FALSE
    BY DEF C!NoCompetitor
  <2> QED BY <1>7
<1>9. tip \in Nat /\ \A j \in 1..Len(mined) : mined[j].on < tip
  BY <1>2, <1>7
<1>10. seeded \in BOOLEAN /\ syncing \in BOOLEAN
  BY <1>2
<1> QED BY <1>6, <1>7, <1>8, <1>9, <1>10, Zenon DEF MinerInv

LEMMA MinerInvSound ==
  ASSUME MinerInv
  PROVE  MinerSound
<1>1. PICK size \in Nat : Crew(workers, size) /\ size = IF ctl.running THEN ctl.count ELSE 0
  BY MinerFacts DEF CtlType
<1>2. C!TypeOK
  <2>1. \A i \in DOMAIN workers :
          /\ workers[i].inbox \in Seq(Nat) /\ workers[i].out \in Seq(C!Out)
          /\ workers[i].loops \subseteq [t : Nat, live : BOOLEAN]
          /\ {workers[i].mining, workers[i].hung} \subseteq BOOLEAN
    <3> TAKE i \in DOMAIN workers
    <3>1. workers[i] \in WorkerType
      BY WorkerTyped
    <3> QED BY <3>1 DEF WorkerType, LoopType
  <2>2. Len(workers) = IF ctl.running THEN ctl.count ELSE 0
    BY <1>1 DEF Crew
  <2>3. ctl.running /\ ctl.auto => ctl.count \in ctl.min..ctl.max
    BY MinerFacts DEF Bounded, CtlType
  <2>4. ctl \in CtlType
    BY MinerFacts
  <2>5. {syncing, seeded} \subseteq BOOLEAN /\ tip \in Nat /\ mined \in Seq([on : Nat, seeded : BOOLEAN])
    BY DEF MinerInv
  <2> QED BY <2>1, <2>2, <2>3, <2>4, <2>5 DEF C!TypeOK, CtlType
<1>3. C!OneLoop
  <2> SUFFICES ASSUME NEW i \in DOMAIN workers PROVE C!Cardinality(C!Grinds(workers[i])) <= 1
    BY DEF C!OneLoop
  <2>1. \A a, b \in C!Grinds(workers[i]) : a = b
    BY WorkerTyped DEF Single, C!Grinds
  <2>2. C!Cardinality(C!Grinds(workers[i])) = Cardinality(C!Grinds(workers[i]))
    BY DEF C!Cardinality, Cardinality
  <2>3. C!Grinds(workers[i]) = {} \/ \E a : C!Grinds(workers[i]) = {a}
    BY <2>1
  <2>4. Cardinality(C!Grinds(workers[i])) \in {0, 1}
    BY <2>3, FS_EmptySet, FS_Singleton
  <2> QED BY <2>2, <2>4
<1> QED BY <1>2, <1>3 DEF MinerSound, C!NoDoubleWork, MinerInv

(* Of any step of the parts, the miner's is a step of its own or none.     *)
LEMMA MinerPart ==
  ASSUME [MCNext]_allVars
  PROVE  C!Next \/ UNCHANGED minerVars
<1>1. CASE MCNext
  BY <1>1 DEF MCNext, MinerStep, RetargetStep, DeliveryStep
<1>2. CASE UNCHANGED allVars
  BY <1>2 DEF allVars
<1> QED BY <1>1, <1>2

LEMMA MinerStays ==
  ASSUME MinerInv, UNCHANGED minerVars
  PROVE  MinerInv'
<1>1. C!Becomes(C!Both) /\ tip' = tip /\ seeded' = seeded /\ syncing' = syncing /\ mined' = mined
  BY DEF minerVars, C!Becomes, C!Both
<1> QED BY <1>1, MinerFacts, MinerBecomes DEF MinerInv

LEMMA MinerAlways == MCSpec => []MinerInv
<1>1. MCInit => MinerInv
  BY MinerBegins DEF MCInit, EarlyOff, MinerOff
<1>2. MinerInv /\ [MCNext]_allVars => MinerInv'
  BY MinerPart, MinerNext, MinerStays
<1> QED BY <1>1, <1>2, PTL DEF MCSpec

(* A worker never grinds two templates at once and no block of ours        *)
(* competes with another at its height, whatever stops, starts, stalls and *)
(* late solutions meet (controller.ts, miner.worker.ts).                   *)
THEOREM MinerIsSound == MCSpec => []MinerSound
<1>1. MinerInv => MinerSound
  BY MinerInvSound
<1> QED BY <1>1, MinerAlways, PTL

(* A tuner that has backed off takes no thread back (controller.ts).       *)
THEOREM TunerBacksOff == MCSpec => TunerHolds
<1>1. MinerInv /\ [MCNext]_allVars =>
        [ctl.locked /\ ctl'.locked /\ ctl.running /\ ctl'.running
           /\ <<ctl.auto, ctl.min, ctl.max>> = <<ctl'.auto, ctl'.min, ctl'.max>> /\ ctl.auto
         => ctl'.count <= ctl.count]_minerVars
  BY MinerPart, MinerNext DEF HoldsStep
<1>2. MCSpec => [][MCNext]_allVars
  BY DEF MCSpec
<1> QED BY <1>1, <1>2, MinerAlways, PTL DEF TunerHolds, C!TunerHolds, C!vars, minerVars

-----------------------------------------------------------------------------
(* Presence.                                                               *)

LEMMA BeatNumbers ==
  /\ {Period, StaleAfter, MiningTtl, Amnesia, Travel} \subseteq Nat
  /\ Travel < Period /\ Period + Travel <= StaleAfter /\ Period + Travel < Amnesia
  /\ P!Long \in Nat /\ StaleAfter + Travel < P!Long /\ MiningTtl + Travel < P!Long
  /\ Amnesia + Travel < P!Long
<1>1. /\ Period \in Nat /\ StaleAfter \in Nat /\ MiningTtl \in Nat /\ Amnesia \in Nat
      /\ Travel \in Nat
      /\ Travel < Period /\ Period + Travel <= StaleAfter /\ Period + Travel < Amnesia
  BY PartsConstants DEF P!PresenceConstants
<1> DEFINE most == P!Max({StaleAfter, MiningTtl, Amnesia})
<1>2. most \in {StaleAfter, MiningTtl, Amnesia} /\ \A k \in {StaleAfter, MiningTtl, Amnesia} : k <= most
  <2>1. \E k \in {StaleAfter, MiningTtl, Amnesia} :
          \A j \in {StaleAfter, MiningTtl, Amnesia} : k >= j
    BY <1>1
  <2>2. most \in {StaleAfter, MiningTtl, Amnesia} /\ \A j \in {StaleAfter, MiningTtl, Amnesia} : most >= j
    BY <2>1 DEF P!Max
  <2> HIDE DEF most
  <2> QED BY <1>1, <2>2
<1>3. P!Long = most + Travel + 2
  BY DEF P!Long
<1> HIDE DEF most
<1> QED BY <1>1, <1>2, <1>3

LEMMA Aging ==
  ASSUME NEW a \in 0..P!Long
  PROVE  /\ P!Older(a) \in 0..P!Long /\ P!Older(a) <= a + 1
         /\ (a < P!Long => P!Older(a) = a + 1) /\ (a = P!Long => P!Older(a) = P!Long)
<1>1. P!Long \in Nat
  BY BeatNumbers
<1>2. P!Older(a) = CHOOSE x \in {a + 1, P!Long} : \A y \in {a + 1, P!Long} : x <= y
  BY DEF P!Older, P!Min
<1>3. \E x \in {a + 1, P!Long} : \A y \in {a + 1, P!Long} : x <= y
  BY <1>1
<1>4. P!Older(a) \in {a + 1, P!Long} /\ P!Older(a) <= a + 1 /\ P!Older(a) <= P!Long
  BY <1>2, <1>3
<1> QED BY <1>1, <1>4

Known == [seen : 0..P!Long, mined : 0..P!Long]
Health == [ok : 0..P!Long, bad : 0..P!Long]
Post == [node : BeatNodes, to : BeatServers, mining : BOOLEAN, age : 0..Travel]

(* A list: what is known of some of the nodes, none seen too long ago.     *)
List(f) ==
  /\ DOMAIN f \subseteq BeatNodes /\ f = [m \in DOMAIN f |-> f[m]]
  /\ \A m \in DOMAIN f : f[m] \in Known /\ f[m].seen <= StaleAfter

BeatTypes ==
  /\ DOMAIN peers = BeatServers /\ peers = [s \in BeatServers |-> peers[s]]
  /\ \A s \in BeatServers : List(peers[s])
  /\ alive \in [BeatNodes -> [on : BOOLEAN, age : 0..P!Long]]
  /\ mining \in [BeatNodes -> [on : BOOLEAN, age : 0..P!Long]]
  /\ due \in [BeatNodes -> 0..Period] /\ beats \subseteq Post /\ waiting \subseteq BeatNodes
  /\ health \in [BeatNodes -> [BeatServers -> Health]]

(* The posts of a node are of its last heartbeat, and it waits for them.   *)
Beats(m) ==
  alive[m].on =>
    /\ \A q \in beats : q.node = m => q.age = Period - due[m] /\ m \in waiting
    /\ m \in waiting => Period - due[m] <= Travel

(* It is listed since the last post but one at the latest, unless its      *)
(* first is still under way.                                               *)
SeenWithin(m, s, a) == m \in DOMAIN peers[s] /\ peers[s][m].seen <= a
Lists(m, s) ==
  alive[m].on /\ <<m, s>> \notin missed =>
    /\ \A q \in beats : q.node = m /\ q.to = s =>
         alive[m].age = q.age \/ SeenWithin(m, s, Period + q.age)
    /\ \/ \E q \in beats : q.node = m /\ q.to = s
       \/ due[m] = 0 /\ alive[m].age = 0
       \/ SeenWithin(m, s, Period - due[m])

(* The posts of a node that is gone were sent before, and so it was seen.  *)
Leaves(m) ==
  ~alive[m].on =>
    /\ \A q \in beats : q.node = m => alive[m].age <= q.age
    /\ \A s \in BeatServers : m \in DOMAIN peers[s] => alive[m].age <= peers[s][m].seen + Travel

(* A post that says the node mines was sent while it did.                  *)
Mines(m) ==
  /\ \A q \in beats : q.node = m /\ q.mining => mining[m].on \/ mining[m].age <= q.age
  /\ \A s \in BeatServers : m \in DOMAIN peers[s] /\ peers[s][m].mined < P!Long =>
       mining[m].on \/ mining[m].age <= peers[s][m].mined + Travel

(* A server that was asked answered, or did not, a beat ago at most.       *)
Answers(m, s) ==
  alive[m].on =>
    LET h == health[m][s]
        a == IF m \in waiting THEN Period + Period - due[m] ELSE Period - due[m]
    IN  P!Unknown(h) \/ h.ok <= a \/ h.bad <= a

BeatInv ==
  /\ BeatTypes
  /\ \A m \in BeatNodes : Beats(m) /\ Leaves(m) /\ Mines(m)
  /\ \A m \in BeatNodes, s \in BeatServers : Lists(m, s) /\ Answers(m, s)

LEMMA BeatsStart ==
  ASSUME P!Init
  PROVE  BeatInv
<1> USE BeatNumbers
<1>1. /\ peers = [s \in BeatServers |-> P!NoPeers]
      /\ alive = [m \in BeatNodes |-> [on |-> TRUE, age |-> 0]]
      /\ mining = [m \in BeatNodes |-> [on |-> FALSE, age |-> P!Long]]
      /\ due = [m \in BeatNodes |-> 0] /\ beats = {} /\ waiting = {} /\ missed = {}
      /\ health = [m \in BeatNodes |-> [s \in BeatServers |-> [ok |-> P!Long, bad |-> P!Long]]]
  BY DEF P!Init
<1>2. List(P!NoPeers) /\ DOMAIN P!NoPeers = {}
  BY DEF List, P!NoPeers
<1>3. BeatTypes
  BY <1>1, <1>2 DEF BeatTypes, Health
<1>4. \A m \in BeatNodes : Beats(m) /\ Leaves(m) /\ Mines(m)
  BY <1>1, <1>2 DEF Beats, Leaves, Mines
<1>5. \A m \in BeatNodes, s \in BeatServers : Lists(m, s) /\ Answers(m, s)
  BY <1>1 DEF Lists, Answers, P!Unknown
<1> QED BY <1>3, <1>4, <1>5 DEF BeatInv

LEMMA BeatInvSound ==
  ASSUME BeatInv
  PROVE  P!PresenceSound
<1> USE BeatNumbers
<1>1. P!ListedWhileBeating
  <2> SUFFICES ASSUME NEW m \in BeatNodes, NEW s \in BeatServers, P!Started(m), <<m, s>> \notin missed
               PROVE  m \in DOMAIN peers[s]
    BY DEF P!ListedWhileBeating
  <2>1. alive[m].on /\ alive[m].age > Travel /\ Lists(m, s) /\ alive[m].age \in 0..P!Long
    BY DEF P!Started, BeatInv, BeatTypes
  <2>2. \A q \in beats : q.age \in 0..Travel
    BY DEF BeatInv, BeatTypes, Post
  <2> QED BY <2>1, <2>2 DEF Lists, SeenWithin
<1>2. P!GoneUnlisted
  <2> SUFFICES ASSUME NEW m \in BeatNodes, NEW s \in BeatServers, ~alive[m].on,
                      alive[m].age > StaleAfter + Travel, m \in DOMAIN peers[s]
               PROVE  FALSE
    BY DEF P!GoneUnlisted
  <2>1. peers[s][m].seen \in 0..P!Long /\ peers[s][m].seen <= StaleAfter
    BY DEF BeatInv, BeatTypes, List, Known
  <2>2. alive[m].age <= peers[s][m].seen + Travel /\ alive[m].age \in 0..P!Long
    BY DEF BeatInv, BeatTypes, Leaves
  <2> QED BY <2>1, <2>2
<1>3. P!MinersCounted
  <2> SUFFICES ASSUME NEW s \in BeatServers, NEW m \in DOMAIN peers[s],
                      peers[s][m].mined < MiningTtl, ~mining[m].on
               PROVE  mining[m].age < MiningTtl + Travel
    BY DEF P!MinersCounted
  <2>1. m \in BeatNodes /\ peers[s][m].mined \in 0..P!Long
    BY DEF BeatInv, BeatTypes, List, Known
  <2>2. mining[m].age <= peers[s][m].mined + Travel /\ mining[m].age \in 0..P!Long
    BY <2>1 DEF BeatInv, BeatTypes, Mines
  <2> QED BY <2>1, <2>2
<1>4. P!AskedInOrder
  <2> SUFFICES ASSUME NEW m \in BeatNodes, alive[m].on, NEW s \in BeatServers, NEW t \in BeatServers,
                      health[m][s].ok < health[m][s].bad, P!FailedLast(health[m][t])
               PROVE  /\ P!Before(m, s, t) /\ s \in P!Reachable(m) /\ t \notin P!Reachable(m)
    BY DEF P!AskedInOrder
  <2>1. health[m][s] \in Health /\ health[m][t] \in Health /\ due[m] \in 0..Period
    BY DEF BeatInv, BeatTypes
  <2>2. PICK g \in Health : g = health[m][s]
    BY <2>1
  <2>3. PICK h \in Health : h = health[m][t]
    BY <2>1
  <2>4. /\ g.ok \in 0..P!Long /\ g.bad \in 0..P!Long /\ h.ok \in 0..P!Long /\ h.bad \in 0..P!Long
        /\ g.ok < g.bad /\ h.bad < h.ok
    BY <2>2, <2>3 DEF Health, P!FailedLast
  <2>5. h.bad < Amnesia
    <3>1. Answers(m, t) /\ Beats(m)
      BY DEF BeatInv
    <3>2. \E a \in Nat : a < Amnesia /\ (P!Unknown(h) \/ h.ok <= a \/ h.bad <= a)
      <4>1. CASE m \in waiting
        <5>1. Period + Period - due[m] \in Nat /\ Period + Period - due[m] < Amnesia
          BY <2>1, <3>1, <4>1 DEF Beats
        <5> QED BY <2>3, <3>1, <4>1, <5>1 DEF Answers
      <4>2. CASE m \notin waiting
        <5>1. Period - due[m] \in Nat /\ Period - due[m] < Amnesia
          BY <2>1
        <5> QED BY <2>3, <3>1, <4>2, <5>1 DEF Answers
      <4> QED BY <4>1, <4>2
    <3> QED BY <2>4, <3>2 DEF P!Unknown
  <2>6. P!Rank(g) = 3 /\ ~P!Unknown(g)
    BY <2>4 DEF P!Rank, P!Unknown, P!RecentFail, P!FailedLast
  <2>7. P!Rank(h) = 1 /\ ~P!Unknown(h)
    BY <2>4, <2>5 DEF P!Rank, P!Unknown, P!RecentFail, P!FailedLast
  <2>8. P!Before(m, s, t)
    BY <2>2, <2>3, <2>6, <2>7 DEF P!Before
  <2>9. s \in P!Reachable(m)
    BY <2>2, <2>4, <2>6 DEF P!Reachable
  <2>10. t \notin P!Reachable(m)
    BY <2>3, <2>4, <2>5 DEF P!Reachable
  <2> QED BY <2>8, <2>9, <2>10
<1> QED BY <1>1, <1>2, <1>3, <1>4 DEF P!PresenceSound

(* The timer of a node fires: its last posts are settled, or it waits.     *)
LEMMA BeatsHeartbeat ==
  ASSUME BeatInv, NEW k \in BeatNodes, P!Heartbeat(k)
  PROVE  BeatInv'
<1> USE BeatNumbers
<1> DEFINE new == {[node |-> k, to |-> s, mining |-> mining[k].on, age |-> 0] : s \in BeatServers}
<1>1. /\ alive[k].on /\ due[k] = 0 /\ k \notin waiting /\ beats' = beats \cup new
      /\ due' = [due EXCEPT ![k] = Period] /\ waiting' = waiting \cup {k}
      /\ UNCHANGED <<peers, serving, alive, mining, shown, health, missed, mishaps>>
  BY DEF P!Heartbeat
<1>2. \A q \in new : q \in Post /\ q.node = k /\ q.mining = mining[k].on /\ q.age = 0
  BY DEF Post, BeatInv, BeatTypes
<1>3. \A s \in BeatServers : \E q \in new : q.to = s
  <2> TAKE s \in BeatServers
  <2>1. [node |-> k, to |-> s, mining |-> mining[k].on, age |-> 0] \in new
    OBVIOUS
  <2> HIDE DEF new
  <2> QED BY <2>1
<1> HIDE DEF new
<1>4. \A q \in beats : q.node # k
  BY <1>1 DEF BeatInv, Beats
<1>5. BeatTypes /\ \A m \in BeatNodes : due'[m] = IF m = k THEN Period ELSE due[m]
  BY <1>1 DEF BeatInv, BeatTypes
<1>6. BeatTypes'
  <2>1. due' \in [BeatNodes -> 0..Period] /\ beats' \subseteq Post /\ waiting' \subseteq BeatNodes
    BY <1>1, <1>2, <1>5 DEF BeatTypes
  <2> QED BY <1>1, <1>5, <2>1 DEF BeatTypes, List
<1>7. ASSUME NEW m \in BeatNodes PROVE (Beats(m) /\ Leaves(m) /\ Mines(m))'
  <2>1. Beats(m) /\ Leaves(m) /\ Mines(m) /\ mining[m].age \in 0..P!Long
    BY DEF BeatInv, BeatTypes
  <2>2. CASE m = k
    <3>1. Beats(m)'
      BY <1>1, <1>2, <1>4, <1>5, <2>2 DEF Beats
    <3>2. Leaves(m)'
      BY <1>1, <2>2 DEF Leaves
    <3>3. Mines(m)'
      BY <1>1, <1>2, <1>4, <2>1, <2>2 DEF Mines
    <3> QED BY <3>1, <3>2, <3>3
  <2>3. CASE m # k
    BY <1>1, <1>2, <1>5, <2>1, <2>3 DEF Beats, Leaves, Mines
  <2> QED BY <2>2, <2>3
<1>8. ASSUME NEW m \in BeatNodes, NEW s \in BeatServers PROVE (Lists(m, s) /\ Answers(m, s))'
  <2>1. Lists(m, s) /\ Answers(m, s)
    BY DEF BeatInv
  <2>2. CASE m = k
    <3>1. <<m, s>> \notin missed => alive[m].age = 0 \/ SeenWithin(m, s, Period)
      BY <1>1, <1>4, <2>1, <2>2 DEF Lists
    <3>2. \A q \in beats' : q.node = m => q.age = 0
      BY <1>1, <1>2, <1>4, <2>2
    <3>3. \E q \in beats' : q.node = m /\ q.to = s
      BY <1>1, <1>2, <1>3, <2>2
    <3>4. Lists(m, s)'
      BY <1>1, <3>1, <3>2, <3>3 DEF Lists, SeenWithin
    <3>5. Answers(m, s)'
      BY <1>1, <1>5, <2>1, <2>2 DEF Answers, P!Unknown
    <3> QED BY <3>4, <3>5
  <2>3. CASE m # k
    BY <1>1, <1>2, <1>5, <2>1, <2>3 DEF Lists, SeenWithin, Answers, P!Unknown
  <2> QED BY <2>2, <2>3
<1> QED BY <1>6, <1>7, <1>8 DEF BeatInv

(* A post arrives.                                                         *)
LEMMA BeatsArrive ==
  ASSUME BeatInv, NEW r \in beats, P!OnHeartbeat(r)
  PROVE  BeatInv'
<1> USE BeatNumbers
<1> DEFINE k == r.node
           i == r.to
           list == P!Seen(peers[i], k, r.mining)
<1>1. /\ r \in Post /\ k \in BeatNodes /\ i \in BeatServers /\ r.mining \in BOOLEAN
      /\ r.age \in 0..Travel /\ BeatTypes
  BY DEF BeatInv, BeatTypes, Post
<1>2. /\ beats' = beats \ {r} /\ peers' = [peers EXCEPT ![i] = list]
      /\ health' = [health EXCEPT ![k][i] = P!MarkSuccess(@)]
      /\ missed' = missed \ {<<k, i>>}
      /\ UNCHANGED <<serving, alive, mining, due, waiting, shown, mishaps>>
  BY DEF P!OnHeartbeat
<1>3. /\ DOMAIN list = DOMAIN peers[i] \cup {k}
      /\ list = [m \in DOMAIN list |-> list[m]]
      /\ \A m \in DOMAIN list : m # k => m \in DOMAIN peers[i] /\ list[m] = peers[i][m]
      /\ list[k] = [seen |-> 0, mined |-> IF r.mining THEN 0
                                          ELSE IF k \in DOMAIN peers[i] THEN peers[i][k].mined
                                          ELSE P!Long]
  BY DEF P!Seen
<1>4. List(peers[i]) /\ \A m \in DOMAIN peers[i] : peers[i][m].mined \in 0..P!Long
  BY <1>1 DEF BeatTypes, List, Known
<1>5. list[k] \in Known /\ list[k].seen = 0
  BY <1>1, <1>3, <1>4 DEF Known
<1>6. List(list)
  BY <1>1, <1>3, <1>4, <1>5 DEF List
<1>7. \A s \in BeatServers : peers'[s] = IF s = i THEN list ELSE peers[s]
  BY <1>1, <1>2 DEF BeatTypes
<1>8. /\ health' \in [BeatNodes -> [BeatServers -> Health]]
      /\ health'[k][i].ok = 0
      /\ \A m \in BeatNodes, s \in BeatServers : <<m, s>> # <<k, i>> => health'[m][s] = health[m][s]
  <2>1. P!MarkSuccess(health[k][i]) \in Health /\ P!MarkSuccess(health[k][i]).ok = 0
    <3>1. health[k][i] \in Health
      BY <1>1 DEF BeatTypes
    <3>2. PICK h \in Health : h = health[k][i]
      BY <3>1
    <3>3. P!MarkSuccess(h) \in Health /\ P!MarkSuccess(h).ok = 0
      BY DEF Health, P!MarkSuccess
    <3> QED BY <3>2, <3>3
  <2> QED BY <1>1, <1>2, <2>1 DEF BeatTypes
<1> HIDE DEF list, k, i
<1>9. BeatTypes'
  <2>1. /\ DOMAIN peers' = BeatServers /\ peers' = [s \in BeatServers |-> peers'[s]]
        /\ \A s \in BeatServers : List(peers'[s])
    BY <1>1, <1>2, <1>6, <1>7 DEF BeatTypes
  <2>2. (\A s \in BeatServers : List(peers[s]))'
    BY <2>1 DEF List
  <2> QED BY <1>1, <1>2, <1>8, <2>1, <2>2 DEF BeatTypes
<1>10. ASSUME NEW m \in BeatNodes PROVE (Beats(m) /\ Leaves(m) /\ Mines(m))'
  <2>1. Beats(m) /\ Leaves(m) /\ Mines(m)
    BY DEF BeatInv
  <2>2. Beats(m)'
    BY <1>2, <2>1 DEF Beats
  <2>3. Leaves(m)'
    <3> SUFFICES ASSUME ~alive[m].on PROVE Leaves(m)'
      BY <1>2 DEF Leaves
    <3>1. ASSUME NEW s \in BeatServers, m \in DOMAIN peers'[s]
          PROVE  alive[m].age <= peers'[s][m].seen + Travel
      <4>1. CASE s = i /\ m = k
        <5>1. alive[m].age <= r.age /\ alive[m].age \in 0..P!Long
          BY <1>1, <2>1, <4>1 DEF Leaves, k, BeatTypes
        <5>2. peers'[s][m].seen = 0
          BY <1>5, <1>7, <4>1
        <5> QED BY <1>1, <5>1, <5>2
      <4>2. CASE ~(s = i /\ m = k)
        <5>1. m \in DOMAIN peers[s] /\ peers'[s][m] = peers[s][m]
          BY <1>3, <1>7, <3>1, <4>2
        <5> QED BY <2>1, <5>1 DEF Leaves
      <4> QED BY <4>1, <4>2
    <3> QED BY <1>2, <2>1, <3>1 DEF Leaves
  <2>4. Mines(m)'
    <3>1. ASSUME NEW s \in BeatServers, m \in DOMAIN peers'[s], peers'[s][m].mined < P!Long
          PROVE  mining[m].on \/ mining[m].age <= peers'[s][m].mined + Travel
      <4>1. CASE s = i /\ m = k
        <5>1. peers'[s][m] = list[k]
          BY <1>7, <4>1
        <5>2. CASE r.mining
          <6>1. peers'[s][m].mined = 0
            BY <1>3, <5>1, <5>2
          <6>2. mining[m].on \/ mining[m].age <= r.age
            BY <2>1, <4>1, <5>2 DEF Mines, k
          <6>3. mining[m].age \in 0..P!Long
            BY <1>1 DEF BeatTypes
          <6> QED BY <1>1, <6>1, <6>2, <6>3
        <5>3. CASE ~r.mining
          <6>1. m \in DOMAIN peers[s] /\ peers'[s][m].mined = peers[s][m].mined
            BY <1>3, <3>1, <4>1, <5>1, <5>3
          <6> QED BY <2>1, <3>1, <6>1 DEF Mines
        <5> QED BY <5>2, <5>3
      <4>2. CASE ~(s = i /\ m = k)
        <5>1. m \in DOMAIN peers[s] /\ peers'[s][m] = peers[s][m]
          BY <1>3, <1>7, <3>1, <4>2
        <5> QED BY <2>1, <3>1, <5>1 DEF Mines
      <4> QED BY <4>1, <4>2
    <3> QED BY <1>2, <2>1, <3>1 DEF Mines
  <2> QED BY <2>2, <2>3, <2>4
<1>11. ASSUME NEW m \in BeatNodes, NEW s \in BeatServers PROVE (Lists(m, s) /\ Answers(m, s))'
  <2>1. Lists(m, s) /\ Answers(m, s) /\ due[m] \in 0..Period
    BY DEF BeatInv, BeatTypes
  <2>2. CASE m = k /\ s = i
    <3>1. SeenWithin(m, s, 0)'
      BY <1>3, <1>5, <1>7, <2>2 DEF SeenWithin
    <3>2. m \in DOMAIN peers'[s] /\ peers'[s][m].seen = 0
      BY <1>3, <1>5, <1>7, <2>2
    <3>3. \A q \in beats' : q.age \in 0..Travel
      BY <1>1, <1>2 DEF BeatTypes, Post
    <3>4. Lists(m, s)'
      BY <1>2, <2>1, <3>2, <3>3 DEF Lists, SeenWithin
    <3>5. Answers(m, s)'
      BY <1>2, <1>8, <2>1, <2>2 DEF Answers
    <3> QED BY <3>4, <3>5
  <2>3. CASE ~(m = k /\ s = i)
    <3>1. \A a : SeenWithin(m, s, a) => SeenWithin(m, s, a)'
      BY <1>3, <1>7, <2>3 DEF SeenWithin
    <3>2. ~(r.node = m /\ r.to = s)
      BY <2>3 DEF k, i
    <3>3. <<m, s>> # <<k, i>>
      BY <2>3
    <3>4. Lists(m, s)'
      <4>1. \A a : SeenWithin(m, s, a) => m \in DOMAIN peers'[s] /\ peers'[s][m].seen <= a
        BY <1>3, <1>7, <2>3 DEF SeenWithin
      <4> QED BY <1>2, <2>1, <3>2, <3>3, <4>1 DEF Lists, SeenWithin
    <3>5. Answers(m, s)'
      BY <1>2, <1>8, <2>1, <3>3 DEF Answers, P!Unknown
    <3> QED BY <3>4, <3>5
  <2> QED BY <2>2, <2>3
<1> QED BY <1>9, <1>10, <1>11 DEF BeatInv

(* A post is lost: nothing is owed to its server's list until the next.    *)
LEMMA BeatsLose ==
  ASSUME BeatInv, NEW r \in beats, P!Lost(r)
  PROVE  BeatInv'
<1> USE BeatNumbers
<1> DEFINE k == r.node
           i == r.to
<1>1. r \in Post /\ k \in BeatNodes /\ i \in BeatServers /\ BeatTypes
  BY DEF BeatInv, BeatTypes, Post
<1>2. /\ beats' = beats \ {r} /\ missed' = missed \cup {<<k, i>>}
      /\ health' = [health EXCEPT ![k][i] = P!MarkFailure(@)]
      /\ UNCHANGED <<peers, serving, alive, mining, due, waiting, shown>>
  BY DEF P!Lost
<1>3. /\ health' \in [BeatNodes -> [BeatServers -> Health]]
      /\ health'[k][i].bad = 0
      /\ \A m \in BeatNodes, s \in BeatServers : <<m, s>> # <<k, i>> => health'[m][s] = health[m][s]
  <2>1. P!MarkFailure(health[k][i]) \in Health /\ P!MarkFailure(health[k][i]).bad = 0
    <3>1. health[k][i] \in Health
      BY <1>1 DEF BeatTypes
    <3>2. PICK h \in Health : h = health[k][i]
      BY <3>1
    <3>3. P!MarkFailure(h) \in Health /\ P!MarkFailure(h).bad = 0
      BY DEF Health, P!MarkFailure
    <3> QED BY <3>2, <3>3
  <2> QED BY <1>1, <1>2, <2>1 DEF BeatTypes
<1> HIDE DEF k, i
<1>4. BeatTypes'
  BY <1>1, <1>2, <1>3 DEF BeatTypes, List
<1>5. ASSUME NEW m \in BeatNodes PROVE (Beats(m) /\ Leaves(m) /\ Mines(m))'
  BY <1>2 DEF BeatInv, Beats, Leaves, Mines
<1>6. ASSUME NEW m \in BeatNodes, NEW s \in BeatServers PROVE (Lists(m, s) /\ Answers(m, s))'
  <2>1. Lists(m, s) /\ Answers(m, s) /\ due[m] \in 0..Period
    BY DEF BeatInv, BeatTypes
  <2>2. CASE m = k /\ s = i
    BY <1>2, <1>3, <2>1, <2>2 DEF Lists, Answers
  <2>3. CASE ~(m = k /\ s = i)
    <3>1. ~(r.node = m /\ r.to = s) /\ <<m, s>> # <<k, i>>
      BY <2>3 DEF k, i
    <3>2. Lists(m, s)'
      BY <1>2, <2>1, <3>1 DEF Lists, SeenWithin
    <3>3. Answers(m, s)'
      BY <1>2, <1>3, <2>1, <3>1 DEF Answers, P!Unknown
    <3> QED BY <3>2, <3>3
  <2> QED BY <2>2, <2>3
<1> QED BY <1>4, <1>5, <1>6 DEF BeatInv

(* Every post of a node is settled: it asks for the statistics.            *)
LEMMA BeatsStats ==
  ASSUME BeatInv, NEW k \in BeatNodes, P!Stats(k)
  PROVE  BeatInv'
<1> USE BeatNumbers
<1>1. BeatTypes
  BY DEF BeatInv
<1>2. PICK got \in SUBSET serving :
        health' = [health EXCEPT ![k] =
          [s \in BeatServers |-> IF s \in got THEN P!MarkSuccess(@[s]) ELSE P!MarkFailure(@[s])]]
  BY DEF P!Stats
<1>3. /\ \A q \in beats : q.node # k
      /\ waiting' = waiting \ {k}
      /\ UNCHANGED <<peers, serving, alive, mining, due, beats, missed>>
  BY DEF P!Stats
<1>4. /\ health' \in [BeatNodes -> [BeatServers -> Health]]
      /\ \A s \in BeatServers : health'[k][s].ok = 0 \/ health'[k][s].bad = 0
      /\ \A m \in BeatNodes : m # k => health'[m] = health[m]
  <2> DEFINE row == [s \in BeatServers |-> IF s \in got THEN P!MarkSuccess(health[k][s])
                                           ELSE P!MarkFailure(health[k][s])]
  <2>1. \A h \in Health : /\ P!MarkSuccess(h) \in Health /\ P!MarkSuccess(h).ok = 0
                          /\ P!MarkFailure(h) \in Health /\ P!MarkFailure(h).bad = 0
    BY DEF Health, P!MarkSuccess, P!MarkFailure
  <2>2. \A s \in BeatServers : health[k][s] \in Health
    BY <1>1 DEF BeatTypes
  <2>3. row \in [BeatServers -> Health] /\ \A s \in BeatServers : row[s].ok = 0 \/ row[s].bad = 0
    BY <2>1, <2>2
  <2> HIDE DEF row
  <2>4. health' = [health EXCEPT ![k] = row]
    BY <1>2 DEF row
  <2> QED BY <1>1, <2>3, <2>4 DEF BeatTypes
<1>5. BeatTypes'
  BY <1>1, <1>3, <1>4 DEF BeatTypes, List
<1>6. ASSUME NEW m \in BeatNodes PROVE (Beats(m) /\ Leaves(m) /\ Mines(m))'
  BY <1>3 DEF BeatInv, Beats, Leaves, Mines
<1>7. ASSUME NEW m \in BeatNodes, NEW s \in BeatServers PROVE (Lists(m, s) /\ Answers(m, s))'
  <2>1. Lists(m, s) /\ Answers(m, s) /\ due[m] \in 0..Period
    BY DEF BeatInv, BeatTypes
  <2>2. Lists(m, s)'
    BY <1>3, <2>1 DEF Lists, SeenWithin
  <2>3. CASE m = k
    <3>1. Answers(m, s)'
      BY <1>3, <1>4, <2>1, <2>3 DEF Answers
    <3> QED BY <2>2, <3>1
  <2>4. CASE m # k
    <3>1. Answers(m, s)'
      BY <1>3, <1>4, <2>1, <2>4 DEF Answers, P!Unknown
    <3> QED BY <2>2, <3>1
  <2> QED BY <2>3, <2>4
<1> QED BY <1>5, <1>6, <1>7 DEF BeatInv

(* A node goes, or starts or stops its miner.                              *)
LEMMA BeatsLeave ==
  ASSUME BeatInv, NEW k \in BeatNodes, P!Leave(k)
  PROVE  BeatInv'
<1> USE BeatNumbers
<1>1. BeatTypes
  BY DEF BeatInv
<1>2. /\ alive' = [alive EXCEPT ![k] = [on |-> FALSE, age |-> 0]]
      /\ mining' = [mining EXCEPT ![k] = IF @.on THEN [on |-> FALSE, age |-> 0] ELSE @]
      /\ waiting' = waiting \ {k}
      /\ UNCHANGED <<peers, serving, due, beats, shown, health, missed>>
  BY DEF P!Leave
<1>3. \A m \in BeatNodes :
        /\ m # k => alive'[m] = alive[m] /\ mining'[m] = mining[m]
        /\ alive'[k] = [on |-> FALSE, age |-> 0]
        /\ mining'[k] = IF mining[k].on THEN [on |-> FALSE, age |-> 0] ELSE mining[k]
  BY <1>1, <1>2 DEF BeatTypes
<1>4. BeatTypes'
  <2>1. [on |-> FALSE, age |-> 0] \in [on : BOOLEAN, age : 0..P!Long]
    OBVIOUS
  <2>2. alive' \in [BeatNodes -> [on : BOOLEAN, age : 0..P!Long]]
    BY <1>1, <1>2, <2>1 DEF BeatTypes
  <2>3. mining' \in [BeatNodes -> [on : BOOLEAN, age : 0..P!Long]]
    BY <1>1, <1>2, <2>1 DEF BeatTypes
  <2> QED BY <1>1, <1>2, <2>2, <2>3 DEF BeatTypes, List
<1>5. /\ \A q \in beats : q.age \in Nat
      /\ \A s \in BeatServers : \A m \in DOMAIN peers[s] : peers[s][m].seen \in Nat /\ peers[s][m].mined \in Nat
  BY <1>1 DEF BeatTypes, Post, List, Known
<1>6. ASSUME NEW m \in BeatNodes PROVE (Beats(m) /\ Leaves(m) /\ Mines(m))'
  <2>1. Beats(m) /\ Leaves(m) /\ Mines(m)
    BY DEF BeatInv
  <2>2. CASE m = k
    <3>1. Beats(m)'
      BY <1>3, <2>2 DEF Beats
    <3>2. Leaves(m)'
      BY <1>2, <1>3, <1>5, <2>2 DEF Leaves
    <3>3. Mines(m)'
      <4>1. CASE mining[k].on
        <5>1. mining'[m].age = 0 /\ ~mining'[m].on
          BY <1>3, <2>2, <4>1
        <5> QED BY <1>2, <1>5, <5>1 DEF Mines
      <4>2. CASE ~mining[k].on
        <5>1. mining'[m] = mining[m]
          BY <1>3, <2>2, <4>2
        <5> QED BY <1>2, <2>1, <5>1 DEF Mines
      <4> QED BY <4>1, <4>2
    <3> QED BY <3>1, <3>2, <3>3
  <2>3. CASE m # k
    BY <1>2, <1>3, <2>1, <2>3 DEF Beats, Leaves, Mines
  <2> QED BY <2>2, <2>3
<1>7. ASSUME NEW m \in BeatNodes, NEW s \in BeatServers PROVE (Lists(m, s) /\ Answers(m, s))'
  <2>1. CASE m = k
    BY <1>3, <2>1 DEF Lists, Answers
  <2>2. CASE m # k
    BY <1>2, <1>3, <2>2 DEF BeatInv, Lists, SeenWithin, Answers, P!Unknown
  <2> QED BY <2>1, <2>2
<1> QED BY <1>4, <1>6, <1>7 DEF BeatInv

LEMMA BeatsToggle ==
  ASSUME BeatInv, NEW k \in BeatNodes, P!Toggle(k)
  PROVE  BeatInv'
<1> USE BeatNumbers
<1>1. BeatTypes
  BY DEF BeatInv
<1>2. /\ mining' = [mining EXCEPT ![k] = [on |-> ~@.on, age |-> 0]]
      /\ UNCHANGED <<peers, serving, alive, due, beats, waiting, shown, health, missed>>
  BY DEF P!Toggle
<1>3. \A m \in BeatNodes : /\ m # k => mining'[m] = mining[m]
                           /\ mining'[k].age = 0
  BY <1>1, <1>2 DEF BeatTypes
<1>4. BeatTypes'
  <2>1. [on |-> ~mining[k].on, age |-> 0] \in [on : BOOLEAN, age : 0..P!Long]
    OBVIOUS
  <2>2. mining' \in [BeatNodes -> [on : BOOLEAN, age : 0..P!Long]]
    BY <1>1, <1>2, <2>1 DEF BeatTypes
  <2> QED BY <1>1, <1>2, <2>2 DEF BeatTypes, List
<1>5. /\ \A q \in beats : q.age \in Nat
      /\ \A s \in BeatServers : \A m \in DOMAIN peers[s] : peers[s][m].mined \in Nat
  BY <1>1 DEF BeatTypes, Post, List, Known
<1>6. ASSUME NEW m \in BeatNodes PROVE (Beats(m) /\ Leaves(m) /\ Mines(m))'
  <2>1. Beats(m)' /\ Leaves(m)'
    BY <1>2 DEF BeatInv, Beats, Leaves
  <2>2. Mines(m)'
    <3>1. CASE m = k
      BY <1>2, <1>3, <1>5, <3>1 DEF Mines
    <3>2. CASE m # k
      BY <1>2, <1>3, <3>2 DEF BeatInv, Mines
    <3> QED BY <3>1, <3>2
  <2> QED BY <2>1, <2>2
<1>7. ASSUME NEW m \in BeatNodes, NEW s \in BeatServers PROVE (Lists(m, s) /\ Answers(m, s))'
  BY <1>2 DEF BeatInv, Lists, SeenWithin, Answers, P!Unknown
<1> QED BY <1>4, <1>6, <1>7 DEF BeatInv

(* A server loses its list.                                                *)
LEMMA BeatsDown ==
  ASSUME BeatInv, NEW i \in BeatServers, P!Down(i)
  PROVE  BeatInv'
<1>1. BeatTypes
  BY DEF BeatInv
<1>2. /\ peers' = [peers EXCEPT ![i] = P!NoPeers] /\ missed' = missed \cup (BeatNodes \X {i})
      /\ UNCHANGED <<alive, mining, due, beats, waiting, shown, health>>
  BY DEF P!Down
<1>3. \A s \in BeatServers : peers'[s] = IF s = i THEN P!NoPeers ELSE peers[s]
  BY <1>1, <1>2 DEF BeatTypes
<1>4. DOMAIN P!NoPeers = {} /\ List(P!NoPeers)
  BY DEF P!NoPeers, List
<1>5. BeatTypes'
  <2>1. /\ DOMAIN peers' = BeatServers /\ peers' = [s \in BeatServers |-> peers'[s]]
        /\ \A s \in BeatServers : List(peers'[s])
    BY <1>1, <1>2, <1>3, <1>4 DEF BeatTypes
  <2>2. (\A s \in BeatServers : List(peers[s]))'
    BY <2>1 DEF List
  <2> QED BY <1>1, <1>2, <2>1, <2>2 DEF BeatTypes
<1>6. ASSUME NEW m \in BeatNodes PROVE (Beats(m) /\ Leaves(m) /\ Mines(m))'
  BY <1>2, <1>3, <1>4 DEF BeatInv, Beats, Leaves, Mines
<1>7. ASSUME NEW m \in BeatNodes, NEW s \in BeatServers PROVE (Lists(m, s) /\ Answers(m, s))'
  BY <1>2, <1>3 DEF BeatInv, Lists, SeenWithin, Answers, P!Unknown
<1> QED BY <1>5, <1>6, <1>7 DEF BeatInv

LEMMA BeatsStay ==
  ASSUME BeatInv, UNCHANGED <<peers, alive, mining, due, beats, waiting, health, missed>>
  PROVE  BeatInv'
<1>1. BeatTypes'
  BY DEF BeatInv, BeatTypes, List
<1>2. ASSUME NEW m \in BeatNodes PROVE (Beats(m) /\ Leaves(m) /\ Mines(m))'
  BY DEF BeatInv, Beats, Leaves, Mines
<1>3. ASSUME NEW m \in BeatNodes, NEW s \in BeatServers PROVE (Lists(m, s) /\ Answers(m, s))'
  BY DEF BeatInv, Lists, SeenWithin, Answers, P!Unknown
<1> QED BY <1>1, <1>2, <1>3 DEF BeatInv

(* Ten seconds pass: everything ages, and the servers sweep.               *)
LEMMA BeatsTick ==
  ASSUME BeatInv, P!Tick
  PROVE  BeatInv'
<1> USE BeatNumbers
<1> DEFINE later(q) == [q EXCEPT !.age = @ + 1]
<1>1. BeatTypes
  BY DEF BeatInv
<1>2. /\ \A m \in BeatNodes : alive[m].on => due[m] > 0
      /\ \A q \in beats : q.age < Travel
      /\ \A m \in waiting : \E q \in beats : q.node = m
      /\ peers' = [s \in BeatServers |-> P!Swept(peers[s])]
      /\ alive' = [m \in BeatNodes |-> [alive[m] EXCEPT !.age = P!Older(@)]]
      /\ mining' = [m \in BeatNodes |-> [mining[m] EXCEPT !.age = P!Older(@)]]
      /\ due' = [m \in BeatNodes |-> IF due[m] > 0 THEN due[m] - 1 ELSE 0]
      /\ beats' = {later(q) : q \in beats}
      /\ health' = [m \in BeatNodes |-> [s \in BeatServers |->
                      [ok |-> P!Older(health[m][s].ok), bad |-> P!Older(health[m][s].bad)]]]
      /\ UNCHANGED <<serving, waiting, shown, missed, mishaps>>
  BY DEF P!Tick
<1>3. \A q \in beats :
        /\ q \in Post /\ later(q) \in Post
        /\ later(q).node = q.node /\ later(q).to = q.to /\ later(q).mining = q.mining
        /\ later(q).age = q.age + 1 /\ q.age \in Nat
  <2> TAKE q \in beats
  <2>1. q \in Post /\ q.age < Travel
    BY <1>1, <1>2 DEF BeatTypes
  <2>2. q.age \in Nat /\ q.age + 1 \in 0..Travel
    BY <2>1 DEF Post
  <2> QED BY <2>1, <2>2 DEF Post
<1>4. /\ \A q \in beats : later(q) \in beats'
      /\ \A q \in beats' : \E r \in beats : q = later(r)
  BY <1>2
<1> HIDE DEF later
<1>5. ASSUME NEW s \in BeatServers, NEW m
      PROVE  /\ m \in DOMAIN peers'[s] <=> m \in DOMAIN peers[s] /\ peers[s][m].seen + 1 <= StaleAfter
             /\ m \in DOMAIN peers'[s] =>
                  /\ peers'[s][m].seen = peers[s][m].seen + 1
                  /\ peers'[s][m].mined = P!Older(peers[s][m].mined)
                  /\ peers[s][m].seen \in Nat /\ peers[s][m].mined \in 0..P!Long
  <2> DEFINE f == peers[s]
             aged == [k \in DOMAIN f |-> [seen |-> P!Older(f[k].seen), mined |-> P!Older(f[k].mined)]]
  <2>1. peers'[s] = [k \in {k \in DOMAIN aged : aged[k].seen <= StaleAfter} |-> aged[k]]
    BY <1>2 DEF P!Swept, P!Restrict
  <2>2. List(f)
    BY <1>1 DEF BeatTypes
  <2>3. \A k \in DOMAIN f : /\ f[k].seen \in Nat /\ f[k].mined \in 0..P!Long
                            /\ aged[k].seen = f[k].seen + 1 /\ aged[k].mined = P!Older(f[k].mined)
    <3> TAKE k \in DOMAIN f
    <3>1. f[k].seen \in 0..P!Long /\ f[k].mined \in 0..P!Long /\ f[k].seen <= StaleAfter
      BY <2>2 DEF List, Known
    <3>2. P!Older(f[k].seen) = f[k].seen + 1
      BY <3>1, Aging
    <3> QED BY <3>1, <3>2
  <2>4. DOMAIN aged = DOMAIN f
    OBVIOUS
  <2> HIDE DEF f, aged
  <2>5. /\ m \in DOMAIN peers'[s] <=> m \in DOMAIN f /\ f[m].seen + 1 <= StaleAfter
        /\ m \in DOMAIN peers'[s] => peers'[s][m] = aged[m] /\ m \in DOMAIN f
    BY <2>1, <2>3, <2>4
  <2> QED BY <2>3, <2>5 DEF f
<1>6. \A m \in BeatNodes :
        /\ alive[m].age \in 0..P!Long /\ mining[m].age \in 0..P!Long
        /\ alive'[m].on = alive[m].on /\ alive'[m].age = P!Older(alive[m].age)
        /\ mining'[m].on = mining[m].on /\ mining'[m].age = P!Older(mining[m].age)
        /\ due[m] \in 0..Period /\ due'[m] = IF due[m] > 0 THEN due[m] - 1 ELSE 0
  BY <1>1, <1>2 DEF BeatTypes
<1>7. \A a \in 0..P!Long :
        /\ P!Older(a) \in 0..P!Long /\ P!Older(a) <= a + 1
        /\ (a < P!Long => P!Older(a) = a + 1) /\ (a = P!Long => P!Older(a) = P!Long)
  BY Aging
<1>8. BeatTypes'
  <2>1. alive' \in [BeatNodes -> [on : BOOLEAN, age : 0..P!Long]]
    <3>1. \A m \in BeatNodes : [alive[m] EXCEPT !.age = P!Older(@)] \in [on : BOOLEAN, age : 0..P!Long]
      BY <1>1, <1>7 DEF BeatTypes
    <3> QED BY <1>2, <3>1
  <2>2. mining' \in [BeatNodes -> [on : BOOLEAN, age : 0..P!Long]]
    <3>1. \A m \in BeatNodes : [mining[m] EXCEPT !.age = P!Older(@)] \in [on : BOOLEAN, age : 0..P!Long]
      BY <1>1, <1>7 DEF BeatTypes
    <3> QED BY <1>2, <3>1
  <2>3. due' \in [BeatNodes -> 0..Period] /\ beats' \subseteq Post
    BY <1>2, <1>3, <1>4, <1>6
  <2>4. health' \in [BeatNodes -> [BeatServers -> Health]]
    <3>1. \A m \in BeatNodes, s \in BeatServers :
            [ok |-> P!Older(health[m][s].ok), bad |-> P!Older(health[m][s].bad)] \in Health
      BY <1>1, <1>7 DEF BeatTypes, Health
    <3> QED BY <1>2, <3>1
  <2>5. /\ DOMAIN peers' = BeatServers /\ peers' = [s \in BeatServers |-> peers'[s]]
    BY <1>2
  <2>6. ASSUME NEW s \in BeatServers PROVE List(peers'[s])
    <3>1. List(peers[s])
      BY <1>1 DEF BeatTypes
    <3>2. peers'[s] = [m \in DOMAIN peers'[s] |-> peers'[s][m]]
      BY <1>2, SMTT(40) DEF P!Swept, P!Restrict
    <3>3. \A m \in DOMAIN peers'[s] : peers'[s][m] = [seen |-> peers'[s][m].seen, mined |-> peers'[s][m].mined]
      BY <1>2 DEF P!Swept, P!Restrict
    <3>4. \A m \in DOMAIN peers'[s] : /\ m \in BeatNodes /\ peers'[s][m].seen <= StaleAfter
                                      /\ peers'[s][m].seen \in 0..P!Long
                                      /\ peers'[s][m].mined \in 0..P!Long
      BY <1>5, <1>7, <3>1 DEF List
    <3>5. \A m \in DOMAIN peers'[s] : peers'[s][m] \in Known
      <4> TAKE m \in DOMAIN peers'[s]
      <4>1. PICK i \in 0..P!Long : i = peers'[s][m].seen
        BY <3>4
      <4>2. PICK j \in 0..P!Long : j = peers'[s][m].mined
        BY <3>4
      <4>3. peers'[s][m] = [seen |-> i, mined |-> j]
        BY <3>3, <4>1, <4>2
      <4> QED BY <4>3 DEF Known
    <3> QED BY <3>2, <3>4, <3>5 DEF List
  <2>7. (\A s \in BeatServers : List(peers[s]))'
    BY <2>6 DEF List
  <2> QED BY <1>1, <1>2, <2>1, <2>2, <2>3, <2>4, <2>5, <2>7 DEF BeatTypes
<1>9. ASSUME NEW m \in BeatNodes PROVE (Beats(m) /\ Leaves(m) /\ Mines(m))'
  <2>1. Beats(m) /\ Leaves(m) /\ Mines(m)
    BY DEF BeatInv
  <2>2. Beats(m)'
    <3> SUFFICES ASSUME alive[m].on PROVE Beats(m)'
      BY <1>6 DEF Beats
    <3>1. due'[m] = due[m] - 1
      BY <1>2, <1>6
    <3>2. \A q \in beats' : q.node = m => q.age = Period - due'[m] /\ m \in waiting'
      <4> TAKE q \in beats'
      <4>1. PICK r \in beats : q = later(r)
        BY <1>4
      <4>2. q.node = r.node /\ q.age = r.age + 1
        BY <1>3, <4>1
      <4>3. r.node = m => r.age = Period - due[m] /\ m \in waiting
        BY <2>1 DEF Beats
      <4>4. due[m] \in Nat /\ due'[m] \in Int /\ waiting' = waiting
        BY <1>2, <1>6, <3>1
      <4> QED BY <3>1, <4>2, <4>3, <4>4
    <3>3. m \in waiting' => Period - due'[m] <= Travel
      <4> SUFFICES ASSUME m \in waiting PROVE Period - due'[m] <= Travel
        BY <1>2
      <4>1. PICK q \in beats : q.node = m
        BY <1>2
      <4>2. q.age = Period - due[m] /\ q.age < Travel
        BY <1>2, <2>1, <4>1 DEF Beats
      <4> QED BY <1>6, <3>1, <4>2
    <3> QED BY <3>2, <3>3 DEF Beats
  <2>3. Leaves(m)'
    <3> SUFFICES ASSUME ~alive[m].on PROVE Leaves(m)'
      BY <1>6 DEF Leaves
    <3>1. alive'[m].age <= alive[m].age + 1 /\ alive'[m].age \in Nat /\ alive[m].age \in Nat
      BY <1>6, <1>7
    <3>2. \A q \in beats' : q.node = m => alive'[m].age <= q.age
      <4> TAKE q \in beats'
      <4>1. PICK r \in beats : q = later(r)
        BY <1>4
      <4>2. q.node = r.node /\ q.age = r.age + 1 /\ r.age \in Nat
        BY <1>3, <4>1
      <4>3. r.node = m => alive[m].age <= r.age
        BY <2>1 DEF Leaves
      <4> QED BY <3>1, <4>2, <4>3
    <3>3. \A s \in BeatServers : m \in DOMAIN peers'[s] => alive'[m].age <= peers'[s][m].seen + Travel
      <4> SUFFICES ASSUME NEW s \in BeatServers, m \in DOMAIN peers'[s]
                   PROVE  alive'[m].age <= peers'[s][m].seen + Travel
        OBVIOUS
      <4>1. /\ m \in DOMAIN peers[s] /\ peers'[s][m].seen = peers[s][m].seen + 1
            /\ peers[s][m].seen \in Nat
        BY <1>5
      <4>2. alive[m].age <= peers[s][m].seen + Travel
        BY <2>1, <4>1 DEF Leaves
      <4> QED BY <3>1, <4>1, <4>2
    <3> QED BY <3>2, <3>3 DEF Leaves
  <2>4. Mines(m)'
    <3>1. mining'[m].age <= mining[m].age + 1 /\ mining'[m].age \in Nat /\ mining[m].age \in Nat
          /\ mining'[m].on = mining[m].on
      BY <1>6, <1>7
    <3>2. \A q \in beats' : q.node = m /\ q.mining => mining'[m].on \/ mining'[m].age <= q.age
      <4> TAKE q \in beats'
      <4>1. PICK r \in beats : q = later(r)
        BY <1>4
      <4>2. q.node = r.node /\ q.age = r.age + 1 /\ r.age \in Nat /\ q.mining = r.mining
        BY <1>3, <4>1
      <4>3. r.node = m /\ r.mining => mining[m].on \/ mining[m].age <= r.age
        BY <2>1 DEF Mines
      <4> QED BY <3>1, <4>2, <4>3
    <3>3. ASSUME NEW s \in BeatServers, m \in DOMAIN peers'[s], peers'[s][m].mined < P!Long
          PROVE  mining'[m].on \/ mining'[m].age <= peers'[s][m].mined + Travel
      <4>1. /\ m \in DOMAIN peers[s] /\ peers'[s][m].mined = P!Older(peers[s][m].mined)
            /\ peers[s][m].mined \in 0..P!Long
        BY <1>5, <3>3
      <4>2. peers[s][m].mined < P!Long /\ peers'[s][m].mined = peers[s][m].mined + 1
        BY <1>7, <3>3, <4>1
      <4>3. mining[m].on \/ mining[m].age <= peers[s][m].mined + Travel
        BY <2>1, <4>1, <4>2 DEF Mines
      <4> QED BY <3>1, <4>1, <4>2, <4>3
    <3> QED BY <3>2, <3>3 DEF Mines
  <2> QED BY <2>2, <2>3, <2>4
<1>10. ASSUME NEW m \in BeatNodes, NEW s \in BeatServers, alive[m].on
       PROVE  (Lists(m, s) /\ Answers(m, s))'
  <2>1. /\ Lists(m, s) /\ Answers(m, s) /\ due[m] \in 1..Period /\ due'[m] = due[m] - 1
        /\ alive[m].age \in 0..P!Long /\ alive'[m].age = P!Older(alive[m].age)
    <3>1. Lists(m, s) /\ Answers(m, s)
      BY DEF BeatInv
    <3>2. due[m] > 0 /\ due[m] \in 0..Period
      BY <1>2, <1>6, <1>10
    <3> QED BY <1>6, <3>1, <3>2
  <2>2. ASSUME NEW a \in Nat, a < StaleAfter, SeenWithin(m, s, a)
        PROVE  m \in DOMAIN peers'[s] /\ peers'[s][m].seen <= a + 1
    <3>1. List(peers[s])
      BY <1>1 DEF BeatTypes
    <3>2. m \in DOMAIN peers[s] /\ peers[s][m].seen <= a /\ peers[s][m].seen \in Nat
      BY <2>2, <3>1 DEF SeenWithin, List, Known
    <3>3. peers[s][m].seen + 1 <= StaleAfter
      BY <2>2, <3>2
    <3>4. m \in DOMAIN peers'[s] /\ peers'[s][m].seen = peers[s][m].seen + 1
      BY <1>5, <3>2, <3>3
    <3> QED BY <2>2, <3>2, <3>4
  <2>3. Lists(m, s)'
    <3> SUFFICES ASSUME <<m, s>> \notin missed PROVE Lists(m, s)'
      BY <1>2 DEF Lists
    <3>1. ASSUME NEW q \in beats', q.node = m, q.to = s
          PROVE  \/ alive'[m].age = q.age
                 \/ m \in DOMAIN peers'[s] /\ peers'[s][m].seen <= Period + q.age
      <4>1. PICK r \in beats : q = later(r)
        BY <1>4
      <4>2. /\ r.node = m /\ r.to = s /\ q.age = r.age + 1 /\ r.age \in Nat /\ r.age < Travel
        BY <1>2, <1>3, <3>1, <4>1
      <4>3. alive[m].age = r.age \/ SeenWithin(m, s, Period + r.age)
        BY <1>10, <2>1, <4>2 DEF Lists
      <4>4. CASE alive[m].age = r.age
        <5>1. alive[m].age < P!Long
          BY <4>2, <4>4
        <5> QED BY <1>7, <2>1, <4>2, <4>4, <5>1
      <4>5. CASE SeenWithin(m, s, Period + r.age)
        <5>1. Period + r.age \in Nat /\ Period + r.age < StaleAfter
          BY <4>2
        <5>2. m \in DOMAIN peers'[s] /\ peers'[s][m].seen <= Period + r.age + 1
          BY <2>2, <4>5, <5>1
        <5>3. Period + r.age + 1 = Period + q.age
          BY <4>2
        <5> QED BY <5>2, <5>3
      <4> QED BY <4>3, <4>4, <4>5
    <3>2. \/ \E q \in beats' : q.node = m /\ q.to = s
          \/ m \in DOMAIN peers'[s] /\ peers'[s][m].seen <= Period - due'[m]
      <4>1. CASE \E q \in beats : q.node = m /\ q.to = s
        BY <1>3, <1>4, <4>1
      <4>2. CASE ~\E q \in beats : q.node = m /\ q.to = s
        <5>1. SeenWithin(m, s, Period - due[m])
          BY <1>10, <2>1, <4>2 DEF Lists
        <5>2. Period - due[m] \in Nat /\ Period - due[m] < StaleAfter
              /\ Period - due[m] + 1 = Period - due'[m]
          BY <2>1
        <5> QED BY <2>2, <5>1, <5>2
      <4> QED BY <4>1, <4>2
    <3> QED BY <3>1, <3>2 DEF Lists, SeenWithin
  <2>4. Answers(m, s)'
    <3>1. PICK h \in Health : h = health[m][s]
      BY <1>1 DEF BeatTypes
    <3>2. h.ok \in 0..P!Long /\ h.bad \in 0..P!Long
      BY DEF Health
    <3>3. health'[m][s].ok = P!Older(h.ok) /\ health'[m][s].bad = P!Older(h.bad)
      BY <1>2, <3>1
    <3>4. PICK a \in Nat : /\ a = IF m \in waiting THEN Period + Period - due[m] ELSE Period - due[m]
                           /\ P!Unknown(h) \/ h.ok <= a \/ h.bad <= a
      <4>1. Period + Period - due[m] \in Nat /\ Period - due[m] \in Nat
        BY <2>1
      <4> QED BY <1>10, <2>1, <3>1, <4>1 DEF Answers
    <3>5. a + 1 = IF m \in waiting' THEN Period + Period - due'[m] ELSE Period - due'[m]
      BY <1>2, <2>1, <3>4
    <3>6. \/ health'[m][s].ok = P!Long /\ health'[m][s].bad = P!Long
          \/ health'[m][s].ok <= a + 1 \/ health'[m][s].bad <= a + 1
      <4>1. CASE P!Unknown(h)
        BY <1>7, <3>2, <3>3, <4>1 DEF P!Unknown
      <4>2. CASE h.ok <= a \/ h.bad <= a
        <5>1. /\ P!Older(h.ok) <= h.ok + 1 /\ P!Older(h.bad) <= h.bad + 1
              /\ P!Older(h.ok) \in Nat /\ P!Older(h.bad) \in Nat
          BY <1>7, <3>2
        <5> QED BY <3>2, <3>3, <4>2, <5>1
      <4> QED BY <3>4, <4>1, <4>2
    <3> QED BY <3>5, <3>6 DEF Answers, P!Unknown
  <2> QED BY <2>3, <2>4
<1>11. ASSUME NEW m \in BeatNodes, NEW s \in BeatServers, ~alive[m].on
       PROVE  (Lists(m, s) /\ Answers(m, s))'
  BY <1>6, <1>11 DEF Lists, Answers
<1> QED BY <1>8, <1>9, <1>10, <1>11 DEF BeatInv

LEMMA BeatsNext ==
  ASSUME BeatInv, P!Next
  PROVE  BeatInv'
<1>1. CASE \E k \in BeatNodes : P!Heartbeat(k) \/ P!Stats(k) \/ P!Leave(k) \/ P!Toggle(k)
  BY <1>1, BeatsHeartbeat, BeatsStats, BeatsLeave, BeatsToggle
<1>2. CASE \E r \in beats : P!OnHeartbeat(r) \/ P!Lost(r)
  BY <1>2, BeatsArrive, BeatsLose
<1>3. ASSUME NEW s \in BeatServers, P!Down(s) \/ P!Up(s) PROVE BeatInv'
  <2>1. CASE P!Down(s)
    BY <2>1, BeatsDown
  <2>2. CASE P!Up(s)
    BY <2>2, BeatsStay DEF P!Up
  <2> QED BY <1>3, <2>1, <2>2
<1>4. CASE P!Tick
  BY <1>4, BeatsTick
<1> QED BY <1>1, <1>2, <1>3, <1>4 DEF P!Next

LEMMA PresencePart ==
  ASSUME [MCNext]_allVars
  PROVE  /\ part' = part
         /\ part = "presence" => P!Next \/ UNCHANGED presenceVars
<1>1. CASE MCNext
  <2>1. CASE RetargetStep(Next) \/ MinerStep(C!Next) \/ DeliveryStep(T!Next)
    BY <2>1 DEF RetargetStep, MinerStep, DeliveryStep, OthersRest
  <2>2. CASE ~(RetargetStep(Next) \/ MinerStep(C!Next) \/ DeliveryStep(T!Next))
    BY <1>1, <2>2 DEF MCNext
  <2> QED BY <2>1, <2>2
<1>2. CASE UNCHANGED allVars
  BY <1>2 DEF allVars, presenceVars, serverVars
<1> QED BY <1>1, <1>2

(* A node that beats stays listed, one that is gone does not, a miner that *)
(* stopped is not counted on, and servers are asked in the order of their  *)
(* answers, whatever is lost, late or down (peer.ts, server/api.ts,        *)
(* apiFanout.ts).                                                          *)
THEOREM PresenceIsSound == MCSpec => []PresenceSound
<1> DEFINE Inv == part = "presence" => BeatInv
<1>1. MCInit => Inv
  BY BeatsStart DEF MCInit
<1>2. Inv /\ [MCNext]_allVars => Inv'
  <2> SUFFICES ASSUME Inv, [MCNext]_allVars, part' = "presence" PROVE BeatInv'
    OBVIOUS
  <2>1. BeatInv /\ (P!Next \/ UNCHANGED presenceVars)
    BY PresencePart
  <2>2. CASE UNCHANGED presenceVars
    BY <2>1, <2>2, BeatsStay DEF presenceVars
  <2> QED BY <2>1, <2>2, BeatsNext
<1>3. Inv => PresenceSound
  BY BeatInvSound DEF PresenceSound
<1> QED BY <1>1, <1>2, <1>3, PTL DEF MCSpec

-----------------------------------------------------------------------------
(* Backups.                                                                *)

(* One that stays for another: of its week, or, once it is old itself, of  *)
(* the month of a day in that week.                                        *)
Stands(t, u) ==
  /\ u >= t
  /\ \/ B!SameWeek(t, u)
     \/ B!Age(u) >= Weekly /\ \E v \in t..u : B!SameWeek(t, v) /\ B!SameMonth(v, u)

BackupInv ==
  /\ now \in Nat /\ taken \subseteq 0..now /\ files \subseteq taken /\ doomed \subseteq files
  /\ step \in {"idle", "prune", "remove"} /\ (step # "remove" => doomed = {})
  /\ \A t \in taken : t \notin files \/ t \in doomed => B!Age(t) >= Dense
  /\ \A t \in taken : \E u \in files \ doomed : Stands(t, u)
  /\ \A t, u \in taken : t < u => u - t >= Interval

LEMMA BackupNumbers ==
  /\ Interval \in Nat \ {0} /\ Dense \in Nat \ {0} /\ Weekly \in Nat \ {0}
  /\ Dense <= Weekly
BY PartsConstants DEF B!BackupConstants

(* The newest of a set of backups.                                         *)
LEMMA Newest ==
  ASSUME NEW b \in Nat, NEW U \in SUBSET (0..b), U # {}
  PROVE  /\ \E u \in U : \A v \in U : v <= u
         /\ B!Max(U) \in U
<1> DEFINE D == {b - k : k \in U}
<1>1. D \in SUBSET Nat /\ D # {}
  <2>1. \A k \in U : k \in 0..b /\ b - k \in Nat
    OBVIOUS
  <2>2. PICK k \in U : TRUE
    OBVIOUS
  <2>3. b - k \in D
    BY <2>2
  <2> QED BY <2>1, <2>3
<1> HIDE DEF D
<1>2. PICK d \in D : \A e \in D : d <= e
  BY <1>1, LeastNumber
<1>3. PICK u \in U : d = b - u
  BY <1>2 DEF D
<1>4. ASSUME NEW v \in U PROVE v <= u
  <2>1. b - v \in D
    BY DEF D
  <2>2. d <= b - v
    BY <1>2, <2>1
  <2> QED BY <1>3, <2>2
<1>5. B!Max(U) \in U
  <2>1. \A v \in U : u >= v
    BY <1>3, <1>4
  <2> QED BY <2>1 DEF B!Max
<1> QED BY <1>4, <1>5

(* What List condemns is stood for by what it spares.                      *)
LEMMA Spared ==
  ASSUME BackupInv, doomed = {}, NEW t \in taken
  PROVE  \E u \in files \ B!Superseded : Stands(t, u)
<1> USE BackupNumbers
<1>1. now \in Nat /\ taken \subseteq 0..now /\ files \subseteq taken /\ t \in Nat
  BY DEF BackupInv
<1>2. PICK u \in files : Stands(t, u)
  BY DEF BackupInv
<1>3. CASE u \notin B!Superseded
  BY <1>2, <1>3
<1>4. CASE u \in B!Superseded
  <2> DEFINE X == {w \in files : w > u /\ B!OneBucket(u, w)}
  <2>1. X # {} /\ X \subseteq 0..now
    BY <1>1, <1>4 DEF B!Superseded
  <2> HIDE DEF X
  <2>2. PICK w \in X : \A x \in X : x <= w
    BY <1>1, <2>1, Newest
  <2>3. w \in files /\ w > u /\ B!OneBucket(u, w) /\ w \in Nat /\ u \in Nat /\ w <= now
    BY <1>1, <1>2, <2>2 DEF X
  <2>4. w \notin B!Superseded
    <3> SUFFICES ASSUME NEW x \in files, x > w, B!OneBucket(w, x) PROVE FALSE
      BY DEF B!Superseded
    <3>1. B!OneBucket(u, x)
      BY <2>3 DEF B!OneBucket, B!SameWeek, B!SameMonth
    <3>2. x \in Nat /\ x > u
      BY <1>1, <2>3
    <3>3. x \in X
      BY <3>1, <3>2 DEF X
    <3>4. x <= w
      BY <2>2, <3>3
    <3> QED BY <2>3, <3>2, <3>4
  <2>5. Stands(t, w)
    <3>1. w >= t /\ u >= t
      BY <1>1, <1>2, <2>3 DEF Stands
    <3>2. CASE B!Age(u) < Weekly
      <4>1. B!SameWeek(u, w) /\ B!SameWeek(t, u)
        BY <1>1, <1>2, <2>3, <3>2 DEF Stands, B!OneBucket, B!Age
      <4> QED BY <3>1, <4>1 DEF Stands, B!SameWeek
    <3>3. CASE ~(B!Age(u) < Weekly)
      <4>1. B!SameMonth(u, w) /\ B!Age(w) >= Weekly
        BY <1>1, <2>3, <3>3 DEF B!OneBucket, B!Age
      <4>2. \E v \in t..u : B!SameWeek(t, v) /\ B!SameMonth(v, u)
        <5>1. CASE B!SameWeek(t, u)
          BY <1>1, <2>3, <3>1, <5>1 DEF B!SameMonth
        <5> QED BY <1>2, <5>1 DEF Stands
      <4>3. PICK v \in t..u : B!SameWeek(t, v) /\ B!SameMonth(v, u)
        BY <4>2
      <4>4. v \in t..w
        BY <1>1, <2>3
      <4>5. B!SameMonth(v, w)
        BY <4>1, <4>3 DEF B!SameMonth
      <4> QED BY <3>1, <4>1, <4>3, <4>4, <4>5 DEF Stands
    <3> QED BY <3>2, <3>3
  <2> QED BY <2>3, <2>4, <2>5
<1> QED BY <1>3, <1>4

LEMMA BackupsStep ==
  ASSUME BackupInv, B!Next
  PROVE  BackupInv'
<1> USE BackupNumbers
<1>1. /\ now \in Nat /\ taken \subseteq 0..now /\ files \subseteq taken /\ doomed \subseteq files
      /\ step \in {"idle", "prune", "remove"} /\ (step # "remove" => doomed = {})
      /\ \A t \in taken : t \notin files \/ t \in doomed => B!Age(t) >= Dense
      /\ \A t \in taken : \E u \in files \ doomed : Stands(t, u)
      /\ \A t, u \in taken : t < u => u - t >= Interval
  BY DEF BackupInv
<1>2. ASSUME now' = now
      PROVE  /\ \A t, u : Stands(t, u)' <=> Stands(t, u)
             /\ \A t : B!Age(t)' = B!Age(t)
  BY <1>2 DEF Stands, B!Age, B!SameWeek, B!SameMonth
<1>3. CASE B!Check
  <2>1. step = "idle" /\ doomed' = {} /\ doomed = {} /\ now' = now /\ step' = "prune"
    BY <1>1, <1>3 DEF B!Check
  <2>2. CASE UNCHANGED <<files, taken>>
    BY <1>1, <1>2, <2>1, <2>2 DEF BackupInv
  <2>3. CASE /\ \A t \in files : B!Age(t) >= Interval
             /\ files' = files \cup {now} /\ taken' = taken \cup {now}
    <3>1. \A t \in taken : t # now => now - t >= Interval
      <4> TAKE t \in taken
      <4>1. PICK u \in files : u >= t
        BY <1>1 DEF Stands
      <4>2. now - u >= Interval /\ u \in Nat /\ t \in Nat
        BY <1>1, <2>3, <4>1 DEF B!Age
      <4> QED BY <1>1, <4>1, <4>2
    <3>2. \A t, u \in taken' : t < u => u - t >= Interval
      <4> TAKE t, u \in taken'
      <4>1. t \in Nat /\ u \in Nat /\ t <= now /\ u <= now
        BY <1>1, <2>3
      <4>2. CASE u = now /\ t # now
        BY <2>3, <3>1, <4>2
      <4>3. CASE u # now /\ t # now
        BY <1>1, <2>3, <4>3
      <4>4. CASE t = now
        BY <1>1, <4>1, <4>4
      <4> QED BY <4>2, <4>3, <4>4
    <3>3. Stands(now, now)
      BY <1>1 DEF Stands, B!SameWeek
    <3>4. \A t \in taken' : \E u \in files' \ doomed' : Stands(t, u)'
      BY <1>1, <1>2, <2>1, <2>3, <3>3
    <3>5. \A t \in taken' : t \notin files' \/ t \in doomed' => B!Age(t)' >= Dense
      BY <1>1, <1>2, <2>1, <2>3
    <3>6. /\ now' \in Nat /\ taken' \subseteq 0..now' /\ files' \subseteq taken'
          /\ doomed' \subseteq files'
      BY <1>1, <2>1, <2>3
    <3> QED BY <2>1, <3>2, <3>4, <3>5, <3>6 DEF BackupInv
  <2> QED BY <1>3, <2>2, <2>3 DEF B!Check, B!Due
<1>4. CASE B!List
  <2>1. /\ step = "prune" /\ step' = "remove" /\ doomed = {} /\ doomed' = B!Superseded
        /\ files' = files /\ now' = now /\ taken' = taken
    BY <1>1, <1>4 DEF B!List
  <2>2. doomed' \subseteq files /\ \A t \in doomed' : B!Age(t) >= Dense
    BY <2>1 DEF B!Superseded, B!OneBucket
  <2>3. \A t \in taken : \E u \in files \ doomed' : Stands(t, u)
    BY <2>1, Spared
  <2> QED BY <1>1, <1>2, <2>1, <2>2, <2>3 DEF BackupInv
<1>5. CASE B!Remove
  <2> DEFINE last == B!Max(doomed)
  <2>1. /\ step = "remove" /\ doomed # {} /\ files' = files \ {last} /\ doomed' = doomed \ {last}
        /\ step' = step /\ now' = now /\ taken' = taken
    BY <1>5 DEF B!Remove
  <2>2. last \in doomed
    <3>1. doomed \subseteq 0..now
      BY <1>1
    <3> QED BY <1>1, <2>1, <3>1, Newest
  <2> HIDE DEF last
  <2>3. files' \ doomed' = files \ doomed
    BY <1>1, <2>1, <2>2
  <2>4. \A t \in taken : t \notin files' \/ t \in doomed' => B!Age(t) >= Dense
    BY <1>1, <2>1, <2>2
  <2> QED BY <1>1, <1>2, <2>1, <2>3, <2>4 DEF BackupInv
<1>6. CASE B!Stop
  <2>1. step' = "idle" /\ doomed' = {} /\ files' = files /\ now' = now /\ taken' = taken
    BY <1>6 DEF B!Stop
  <2>2. \A t \in taken : \E u \in files \ doomed' : Stands(t, u)
    BY <1>1, <2>1
  <2> QED BY <1>1, <1>2, <2>1, <2>2 DEF BackupInv
<1>7. CASE B!TimePasses
  <2>1. now' = now + 1 /\ files' = files /\ doomed' = doomed /\ step' = step /\ taken' = taken
    BY <1>7 DEF B!TimePasses
  <2>2. \A t \in taken : B!Age(t)' = B!Age(t) + 1 /\ B!Age(t) \in Int
    BY <1>1, <2>1 DEF B!Age
  <2>3. \A t, u \in taken : Stands(t, u) => Stands(t, u)'
    BY <1>1, <2>2 DEF Stands, B!SameWeek, B!SameMonth
  <2>4. \A t \in taken : \E u \in files' \ doomed' : Stands(t, u)'
    BY <1>1, <2>1, <2>3
  <2>5. \A t \in taken : t \notin files' \/ t \in doomed' => B!Age(t)' >= Dense
    BY <1>1, <2>1, <2>2
  <2> QED BY <1>1, <2>1, <2>4, <2>5 DEF BackupInv
<1> QED BY <1>3, <1>4, <1>5, <1>6, <1>7 DEF B!Next

LEMMA BackupInvSound ==
  ASSUME BackupInv
  PROVE  B!BackupsCover
<1> USE BackupNumbers
<1>1. \A t \in taken : B!Age(t) < Dense => t \in files
  BY DEF BackupInv, B!Age
<1>2. ASSUME NEW t \in taken
      PROVE  \E u \in files : u >= t /\ \E v \in t..u : B!SameWeek(t, v) /\ B!SameMonth(v, u)
  <2>1. PICK u \in files : Stands(t, u)
    BY DEF BackupInv
  <2>2. t \in Nat /\ u \in Nat /\ u >= t
    BY <2>1 DEF BackupInv, Stands
  <2>3. CASE B!SameWeek(t, u)
    <3>1. u \in t..u /\ B!SameMonth(u, u)
      BY <2>2 DEF B!SameMonth
    <3> QED BY <2>2, <2>3, <3>1
  <2> QED BY <2>1, <2>2, <2>3 DEF Stands
<1> QED BY <1>1, <1>2 DEF B!BackupsCover, BackupInv

LEMMA BackupsStart == B!Init => BackupInv
BY DEF B!Init, BackupInv

LEMMA CopiesPart ==
  ASSUME [MCNext]_allVars
  PROVE  /\ part' = part
         /\ part = "backups" => B!Next \/ UNCHANGED <<backupVars, now>>
         /\ part = "archive" => K!Next \/ UNCHANGED archiveVars
<1>1. CASE MCNext
  <2>1. CASE RetargetStep(Next) \/ MinerStep(C!Next) \/ DeliveryStep(T!Next)
    BY <2>1 DEF RetargetStep, MinerStep, DeliveryStep, OthersRest
  <2>2. CASE ~(RetargetStep(Next) \/ MinerStep(C!Next) \/ DeliveryStep(T!Next))
    BY <1>1, <2>2 DEF MCNext
  <2> QED BY <2>1, <2>2
<1>2. CASE UNCHANGED allVars
  BY <1>2 DEF allVars
<1> QED BY <1>1, <1>2

LEMMA BackupsStay ==
  ASSUME BackupInv, UNCHANGED <<backupVars, now>>
  PROVE  BackupInv'
BY DEF backupVars, BackupInv, Stands, B!Age, B!SameWeek, B!SameMonth

-----------------------------------------------------------------------------
(* The archive.                                                            *)
Chain == Seq({0, 1})

LEMMA ArchiveNumbers ==
  /\ ChunkSize \in Nat \ {0} /\ PerRequest \in Nat \ {0}
  /\ Confirmations \in Nat /\ MaxHeight \in Nat /\ IsFiniteSet(ArchiveServers)
<1>1. K!IsFiniteSet(ArchiveServers) = IsFiniteSet(ArchiveServers)
  BY DEF K!IsFiniteSet, IsFiniteSet
<1> QED BY <1>1, PartsConstants DEF K!ArchiveConstants

(* The chunks follow one another, and every height is in one.              *)
LEMMA Slots ==
  /\ \A i \in Nat : /\ K!From(i) \in Nat \ {0} /\ K!To(i) = K!From(i) + ChunkSize - 1
                    /\ K!From(i + 1) = K!To(i) + 1 /\ K!To(i) \in Nat
  /\ K!From(0) = 1
  /\ \A i, j \in Nat : i < j => K!To(i) < K!From(j)
  /\ \A h \in Nat \ {0} : K!ChunkOf(h) \in Nat /\ K!From(K!ChunkOf(h)) <= h /\ h <= K!To(K!ChunkOf(h))
<1> USE ArchiveNumbers
<1>1. \A i \in Nat : i * ChunkSize \in Nat /\ (i + 1) * ChunkSize = i * ChunkSize + ChunkSize
  OBVIOUS
<1>2. \A i, j \in Nat : i < j => (i + 1) * ChunkSize <= j * ChunkSize
  <2> SUFFICES ASSUME NEW i \in Nat, NEW j \in Nat, i < j
               PROVE  (i + 1) * ChunkSize <= j * ChunkSize
    OBVIOUS
  <2> DEFINE e == j - (i + 1)
  <2>1. e \in Nat /\ j = i + 1 + e
    OBVIOUS
  <2> HIDE DEF e
  <2>2. j * ChunkSize = (i + 1) * ChunkSize + e * ChunkSize
    BY <2>1
  <2>3. e * ChunkSize \in Nat /\ (i + 1) * ChunkSize \in Nat
    BY <2>1
  <2> QED BY <2>2, <2>3
<1>3. \A h \in Nat \ {0} :
        /\ (h - 1) \div ChunkSize \in Nat
        /\ ((h - 1) \div ChunkSize) * ChunkSize <= h - 1
        /\ h - 1 < ((h - 1) \div ChunkSize) * ChunkSize + ChunkSize
  OBVIOUS
<1>4. \A i \in Nat : /\ K!From(i) \in Nat \ {0} /\ K!To(i) = K!From(i) + ChunkSize - 1
                     /\ K!From(i + 1) = K!To(i) + 1 /\ K!To(i) \in Nat
  BY <1>1 DEF K!From, K!To
<1>5. K!From(0) = 1
  BY DEF K!From
<1>6. \A i, j \in Nat : i < j => K!To(i) < K!From(j)
  BY <1>1, <1>2 DEF K!From, K!To
<1>7. ASSUME NEW h \in Nat \ {0}
      PROVE  K!ChunkOf(h) \in Nat /\ K!From(K!ChunkOf(h)) <= h /\ h <= K!To(K!ChunkOf(h))
  <2> DEFINE i == (h - 1) \div ChunkSize
  <2>1. i \in Nat /\ i * ChunkSize <= h - 1 /\ h - 1 < i * ChunkSize + ChunkSize
    BY <1>3
  <2>2. K!ChunkOf(h) = i
    BY DEF K!ChunkOf
  <2> HIDE DEF i
  <2>3. (i + 1) * ChunkSize = i * ChunkSize + ChunkSize /\ i * ChunkSize \in Nat
    BY <1>1, <2>1
  <2>4. K!From(i) <= h /\ h <= K!To(i)
    BY <2>1, <2>3 DEF K!From, K!To
  <2> QED BY <2>1, <2>2, <2>4
<1> QED BY <1>4, <1>5, <1>6, <1>7

LEMMA SlotOf ==
  ASSUME NEW i \in Nat, NEW h \in Int, K!From(i) <= h, h <= K!To(i)
  PROVE  h \in Nat \ {0} /\ K!ChunkOf(h) = i
<1>1. h \in Nat \ {0}
  BY Slots
<1> DEFINE j == K!ChunkOf(h)
<1>2. j \in Nat /\ K!From(j) <= h /\ h <= K!To(j)
  BY <1>1, Slots
<1> HIDE DEF j
<1>3. K!From(i) \in Nat /\ K!From(j) \in Nat /\ K!To(i) \in Nat /\ K!To(j) \in Nat
  BY <1>2, Slots, ArchiveNumbers
<1>4. ~(i < j) /\ ~(j < i)
  <2>1. (i < j => K!To(i) < K!From(j)) /\ (j < i => K!To(j) < K!From(i))
    BY <1>2, Slots
  <2> QED BY <1>2, <1>3, <2>1
<1>5. i = j
  BY <1>2, <1>4
<1> QED BY <1>1, <1>5 DEF j

LEMMA SlotOrder ==
  ASSUME NEW h \in Nat \ {0}, NEW k \in Nat \ {0}, h <= k
  PROVE  K!ChunkOf(h) <= K!ChunkOf(k)
<1> DEFINE i == K!ChunkOf(h)
           j == K!ChunkOf(k)
<1>1. /\ i \in Nat /\ K!From(i) <= h /\ h <= K!To(i)
      /\ j \in Nat /\ K!From(j) <= k /\ k <= K!To(j)
  BY Slots
<1> HIDE DEF i, j
<1>2. K!From(i) \in Nat /\ K!From(j) \in Nat /\ K!To(i) \in Nat /\ K!To(j) \in Nat
  BY <1>1, Slots, ArchiveNumbers
<1>3. ~(j < i)
  BY <1>1, <1>2, Slots
<1>4. i <= j
  BY <1>1, <1>3
<1> QED BY <1>4 DEF i, j

(* The next height is in the chunk of the last, or begins the one after.   *)
LEMMA SlotAfter ==
  ASSUME NEW h \in Nat \ {0}
  PROVE  K!ChunkOf(h + 1) <= K!ChunkOf(h) + 1
<1>0. h + 1 \in Nat \ {0}
  OBVIOUS
<1> DEFINE i == K!ChunkOf(h)
           j == K!ChunkOf(h + 1)
<1>1. i \in Nat /\ h <= K!To(i) /\ j \in Nat /\ K!From(j) <= h + 1
  BY <1>0, Slots
<1> HIDE DEF i, j
<1>2. /\ K!From(i + 1) = K!To(i) + 1 /\ K!To(i + 1) = K!From(i + 1) + ChunkSize - 1
      /\ K!From(i + 1) \in Nat /\ K!From(j) \in Nat /\ K!To(i) \in Nat
  BY <1>1, Slots, ArchiveNumbers
<1>3. ~(i + 1 < j)
  <2>1. i + 1 < j => K!To(i + 1) < K!From(j)
    BY <1>1, Slots
  <2> QED BY <1>1, <1>2, <2>1, ArchiveNumbers
<1>4. j <= i + 1
  BY <1>1, <1>3
<1> QED BY <1>4 DEF i, j

(* Branches.                                                               *)
LEMMA ChainLen ==
  /\ \A b \in Chain : Len(b) \in Nat
  /\ <<>> \in Chain /\ Len(<<>>) = 0
BY LenProperties, EmptySeq DEF Chain

LEMMA Branch ==
  ASSUME NEW b \in Chain, NEW h \in 0..Len(b)
  PROVE  /\ K!At(b, h) \in Chain /\ Len(K!At(b, h)) = h
         /\ \A j \in 1..h : K!At(b, h)[j] = b[j]
<1>1. Len(b) \in Nat
  BY ChainLen
<1>2. \A j \in 1..h : b[j] \in {0, 1}
  BY <1>1, ElementOfSeq DEF Chain
<1> DEFINE a == SubSeq(b, 1, h)
<1>3. /\ a \in Seq({0, 1}) /\ Len(a) = IF 1 <= h THEN h - 1 + 1 ELSE 0
      /\ \A j \in 1..(h - 1 + 1) : a[j] = b[1 + j - 1]
  <2>1. h \in Int /\ 1 \in Int
    BY <1>1
  <2> QED BY <1>2, <2>1, SubSeqProperties
<1> HIDE DEF a
<1>4. Len(a) = h
  BY <1>1, <1>3
<1>5. \A j \in 1..h : a[j] = b[j]
  <2> TAKE j \in 1..h
  <2>1. j \in 1..(h - 1 + 1) /\ 1 + j - 1 = j
    BY <1>1
  <2> QED BY <1>3, <2>1
<1> QED BY <1>3, <1>4, <1>5 DEF a, K!At, Chain

LEMMA BranchesEqual ==
  ASSUME NEW a \in Chain, NEW b \in Chain, Len(a) = Len(b), \A j \in 1..Len(a) : a[j] = b[j]
  PROVE  a = b
BY SeqEqual DEF Chain

LEMMA BranchTwice ==
  ASSUME NEW b \in Chain, NEW h \in 0..Len(b), NEW k \in 0..h
  PROVE  K!At(K!At(b, h), k) = K!At(b, k)
<1> DEFINE a == K!At(b, h)
<1>1. Len(b) \in Nat
  BY ChainLen
<1>2. a \in Chain /\ Len(a) = h /\ \A j \in 1..h : a[j] = b[j]
  BY Branch
<1>3. /\ K!At(b, k) \in Chain /\ Len(K!At(b, k)) = k
      /\ \A j \in 1..k : K!At(b, k)[j] = b[j]
  <2>1. k \in 0..Len(b)
    BY <1>1
  <2> QED BY <2>1, Branch
<1> HIDE DEF a
<1>4. /\ K!At(a, k) \in Chain /\ Len(K!At(a, k)) = k
      /\ \A j \in 1..k : K!At(a, k)[j] = a[j]
  BY <1>2, Branch
<1>5. \A j \in 1..k : K!At(a, k)[j] = K!At(b, k)[j]
  BY <1>1, <1>2, <1>3, <1>4
<1>6. K!At(a, k) = K!At(b, k)
  BY <1>3, <1>4, <1>5, BranchesEqual
<1> QED BY <1>6 DEF a

LEMMA Whole ==
  ASSUME NEW b \in Chain
  PROVE  K!At(b, Len(b)) = b
BY SubSeqFull DEF Chain, K!At

LEMMA Prefix ==
  ASSUME NEW a \in Chain, NEW b \in Chain
  PROVE  K!IsPrefix(a, b) <=> Len(a) <= Len(b) /\ K!At(b, Len(a)) = a
<1>1. SubSeq(a, 1, Len(a)) = a
  BY SubSeqFull DEF Chain
<1> QED BY <1>1 DEF K!IsPrefix, K!At

LEMMA PrefixAt ==
  ASSUME NEW a \in Chain, NEW b \in Chain, K!IsPrefix(a, b), NEW h \in 0..Len(a)
  PROVE  h \in 0..Len(b) /\ K!At(a, h) = K!At(b, h)
<1>1. Len(a) \in Nat /\ Len(b) \in Nat /\ Len(a) <= Len(b) /\ K!At(b, Len(a)) = a
  BY ChainLen, Prefix
<1>2. Len(a) \in 0..Len(b)
  BY <1>1
<1>3. K!At(K!At(b, Len(a)), h) = K!At(b, h)
  BY <1>2, BranchTwice
<1> QED BY <1>1, <1>3

LEMMA PrefixOfPrefix ==
  ASSUME NEW a \in Chain, NEW b \in Chain, NEW d \in Chain, K!IsPrefix(a, b), K!IsPrefix(b, d)
  PROVE  K!IsPrefix(a, d)
<1>1. Len(a) \in Nat /\ Len(b) \in Nat /\ Len(d) \in Nat
  BY ChainLen
<1>2. Len(a) <= Len(b) /\ K!At(b, Len(a)) = a
  BY Prefix
<1>3. Len(b) <= Len(d)
  BY Prefix
<1>4. Len(a) \in 0..Len(b) /\ Len(a) <= Len(d)
  BY <1>1, <1>2, <1>3
<1>5. K!At(b, Len(a)) = K!At(d, Len(a))
  BY <1>4, PrefixAt, SMTT(40)
<1>6. K!At(d, Len(a)) = a
  BY <1>2, <1>5
<1> QED BY <1>4, <1>6, Prefix

LEMMA BranchPrefix ==
  ASSUME NEW b \in Chain, NEW h \in 0..Len(b), NEW k \in 0..h
  PROVE  K!IsPrefix(K!At(b, k), K!At(b, h))
<1>1. Len(b) \in Nat
  BY ChainLen
<1>2. k \in 0..Len(b)
  BY <1>1
<1>3. /\ K!At(b, k) \in Chain /\ Len(K!At(b, k)) = k
      /\ K!At(b, h) \in Chain /\ Len(K!At(b, h)) = h
  BY <1>2, Branch
<1>4. K!At(K!At(b, h), k) = K!At(b, k)
  BY BranchTwice
<1> QED BY <1>1, <1>3, <1>4, Prefix

(* The parent of a block of a branch is the block before it.               *)
LEMMA Parent ==
  ASSUME NEW b \in Chain, NEW h \in 1..Len(b)
  PROVE  K!Front(K!At(b, h)) = K!At(b, h - 1)
<1>1. Len(b) \in Nat
  BY ChainLen
<1>2. h \in 0..Len(b) /\ h - 1 \in 0..h
  BY <1>1
<1>3. Len(K!At(b, h)) = h
  BY <1>2, Branch
<1>4. K!Front(K!At(b, h)) = K!At(K!At(b, h), h - 1)
  BY <1>3 DEF K!Front, K!At
<1> QED BY <1>2, <1>4, BranchTwice

-----------------------------------------------------------------------------
(* What chunk i holds of a chain of that height, and the block of a height. *)
Held(i, top) == (IF K!To(i) < top THEN K!To(i) ELSE top) - K!From(i) + 1
Block(d, h) == d.chunks[K!ChunkOf(h)][h - K!From(K!ChunkOf(h)) + 1]

(* What loadArchive checks, of any disk.                                   *)
LoadsFrom(d) ==
  LET top == Len(d.manifest)
  IN /\ d.snapshot = d.manifest
     /\ \A i \in IF top = 0 THEN {} ELSE 0..K!ChunkOf(top) :
          /\ Len(d.chunks[i]) = Held(i, top)
          /\ \A k \in 1..Held(i, top) :
               /\ Len(d.chunks[i][k]) = K!From(i) + k - 1
               /\ k > 1 => K!Front(d.chunks[i][k]) = d.chunks[i][k - 1]
               /\ k = 1 /\ i > 0 => K!Front(d.chunks[i][k]) = K!Last(d.chunks[i - 1])
     /\ top # 0 => K!Last(d.chunks[K!ChunkOf(top)]) = d.manifest

LEMMA LoadsCopies ==
  /\ K!Loads <=> LoadsFrom(disk)
  /\ K!Loads' <=> LoadsFrom(disk')
<1>1. K!Loads <=> LoadsFrom(disk)
  BY DEF K!Loads, K!Listed, K!Archived, K!Size, K!Links, LoadsFrom, Held
<1>2. K!Loads' <=> LoadsFrom(disk')
  BY DEF K!Loads, K!Listed, K!Archived, K!Size, K!Links, LoadsFrom, Held
<1> QED BY <1>1, <1>2

(* An archive whose chunks are as long as its manifest says, and hold its  *)
(* chain, loads.                                                           *)
LEMMA ChainLoads ==
  ASSUME NEW d, d.manifest \in Chain, d.snapshot = d.manifest, Len(d.manifest) # 0,
         \A i \in 0..K!ChunkOf(Len(d.manifest)) : Len(d.chunks[i]) = Held(i, Len(d.manifest)),
         \A h \in 1..Len(d.manifest) : Block(d, h) = K!At(d.manifest, h)
  PROVE  LoadsFrom(d)
<1> DEFINE top == Len(d.manifest)
           chain == d.manifest
           last == K!ChunkOf(top)
<1>1. top \in Nat \ {0} /\ chain \in Chain /\ top = Len(chain)
  BY ChainLen
<1>2. /\ \A i \in 0..last : Len(d.chunks[i]) = Held(i, top)
      /\ \A h \in 1..top : Block(d, h) = K!At(chain, h)
  OBVIOUS
<1>3. last \in Nat /\ K!From(last) <= top /\ top <= K!To(last)
  BY <1>1, Slots
<1> HIDE DEF top, chain, last
<1>4. ASSUME NEW i \in 0..last
      PROVE  /\ K!From(i) \in Nat \ {0} /\ K!To(i) \in Nat /\ Held(i, top) \in Nat \ {0}
             /\ K!From(i) + Held(i, top) - 1 <= K!To(i) /\ K!From(i) + Held(i, top) - 1 <= top
             /\ i < last => Held(i, top) = ChunkSize
             /\ i = last => K!From(i) + Held(i, top) - 1 = top
             /\ K!To(i) = K!From(i) + ChunkSize - 1
  <2>1. /\ i \in Nat /\ K!From(i) \in Nat \ {0} /\ K!To(i) \in Nat
        /\ K!To(i) = K!From(i) + ChunkSize - 1
    <3>1. i \in Nat
      BY <1>3
    <3> QED BY <3>1, Slots
  <2>2. K!From(last) \in Nat
    BY <1>3, Slots
  <2>3. i < last => K!To(i) < top
    <3>1. i < last => K!To(i) < K!From(last)
      BY <1>3, <2>1, Slots
    <3> QED BY <1>1, <1>3, <2>1, <2>2, <3>1
  <2>4. CASE i < last
    BY <1>1, <2>1, <2>3, <2>4, ArchiveNumbers DEF Held
  <2>5. CASE i = last
    BY <1>1, <1>3, <2>1, <2>5, ArchiveNumbers DEF Held
  <2> QED BY <1>3, <2>4, <2>5
<1>5. ASSUME NEW i \in 0..last, NEW k \in 1..Held(i, top)
      PROVE  /\ K!From(i) + k - 1 \in 1..top
             /\ d.chunks[i][k] = K!At(chain, K!From(i) + k - 1)
  <2> DEFINE h == K!From(i) + k - 1
  <2>1. h \in Nat /\ h \in 1..top /\ K!From(i) <= h /\ h <= K!To(i) /\ h - K!From(i) + 1 = k
    BY <1>1, <1>4
  <2> HIDE DEF h
  <2>2. K!ChunkOf(h) = i
    BY <1>3, <2>1, SlotOf
  <2>3. Block(d, h) = d.chunks[i][k]
    BY <2>1, <2>2 DEF Block
  <2> QED BY <1>2, <2>1, <2>3 DEF h
<1>6. ASSUME NEW i \in 0..last, NEW k \in 1..Held(i, top)
      PROVE  /\ Len(d.chunks[i][k]) = K!From(i) + k - 1
             /\ k > 1 => K!Front(d.chunks[i][k]) = d.chunks[i][k - 1]
             /\ k = 1 /\ i > 0 => K!Front(d.chunks[i][k]) = K!Last(d.chunks[i - 1])
  <2> DEFINE h == K!From(i) + k - 1
  <2>1. h \in 1..top /\ d.chunks[i][k] = K!At(chain, h)
    BY <1>5
  <2>2. K!From(i) \in Nat \ {0} /\ k \in Nat /\ Held(i, top) \in Nat /\ k <= Held(i, top)
    BY <1>4
  <2>3. h \in 0..Len(chain) /\ h \in 1..Len(chain)
    BY <1>1, <2>1
  <2>4. Len(d.chunks[i][k]) = h /\ K!Front(d.chunks[i][k]) = K!At(chain, h - 1)
    BY <1>1, <2>1, <2>3, Branch, Parent
  <2>5. CASE k > 1
    <3>1. k - 1 \in 1..Held(i, top) /\ K!From(i) + (k - 1) - 1 = h - 1
      BY <2>2, <2>5
    <3>2. d.chunks[i][k - 1] = K!At(chain, K!From(i) + (k - 1) - 1)
      BY <1>5, <3>1
    <3> QED BY <2>4, <2>5, <3>1, <3>2
  <2>6. CASE k = 1 /\ i > 0
    <3> DEFINE j == i - 1
    <3>1. j \in 0..last /\ j < last /\ j \in Nat /\ j + 1 = i
      BY <1>3, <2>6
    <3> HIDE DEF j
    <3>2. Held(j, top) = ChunkSize /\ K!To(j) = K!From(j) + ChunkSize - 1 /\ K!From(j) \in Nat
      BY <1>4, <3>1
    <3>3. K!From(i) = K!To(j) + 1
      BY <3>1, Slots
    <3>4. ChunkSize \in 1..Held(j, top) /\ K!From(j) + ChunkSize - 1 = h - 1
      BY <2>2, <2>6, <3>2, <3>3, ArchiveNumbers
    <3>5. d.chunks[j][ChunkSize] = K!At(chain, K!From(j) + ChunkSize - 1)
      BY <1>5, <3>1, <3>4
    <3>6. K!Last(d.chunks[j]) = d.chunks[j][ChunkSize]
      BY <1>2, <3>1, <3>2 DEF K!Last
    <3>7. K!Front(d.chunks[i][k]) = K!Last(d.chunks[j])
      BY <2>4, <3>4, <3>5, <3>6
    <3> QED BY <2>4, <2>6, <3>7 DEF j
  <2> QED BY <2>2, <2>4, <2>5, <2>6
<1>7. K!Last(d.chunks[last]) = chain
  <2>1. last \in 0..last
    BY <1>3
  <2>2. /\ Held(last, top) \in Nat \ {0} /\ K!From(last) + Held(last, top) - 1 = top
        /\ Len(d.chunks[last]) = Held(last, top)
    BY <1>2, <1>4, <2>1
  <2>3. Held(last, top) \in 1..Held(last, top)
    BY <2>2
  <2>4. d.chunks[last][Held(last, top)] = K!At(chain, top)
    BY <1>5, <2>1, <2>2, <2>3
  <2> QED BY <1>1, <2>2, <2>4, Whole DEF K!Last
<1> QED BY <1>1, <1>2, <1>6, <1>7 DEF LoadsFrom, top, chain, last

-----------------------------------------------------------------------------
Steps == {"idle", "pull", "chunks", "snapshot", "manifest"}

ArchTypes ==
  /\ net \in Chain /\ Len(net) <= MaxHeight
  /\ tips \in [ArchiveServers -> Chain] /\ \A s \in ArchiveServers : Len(tips[s]) <= Len(net)
  /\ deep \in BOOLEAN /\ cut \in Nat /\ archived \subseteq Chain
  /\ disk \in [chunks : [K!Chunks -> Seq(Chain)], snapshot : Chain, manifest : Chain]
  /\ run \in [step : Steps, chain : Chain, base : Chain, target : Int,
              servers : SUBSET ArchiveServers, next : Int]
  /\ Len(disk.manifest) <= MaxHeight /\ Len(run.chain) <= MaxHeight

(* A running process: its chain goes on from the archived one, the chunks  *)
(* before the next one to write are as they will be listed, and until one  *)
(* is written the archive loads.                                           *)
Begun(r) == K!ChunkOf(Len(r.base) + 1)

Running(d, r) ==
  /\ r.base = d.manifest /\ K!IsPrefix(r.base, r.chain) /\ r.target > Len(r.base)
  /\ r.step # "pull" => Len(r.chain) > Len(r.base)
  /\ r.step = "pull" => r.next = Begun(r)
  /\ r.step = "chunks" => Begun(r) <= r.next /\ r.next <= K!ChunkOf(Len(r.chain))
  /\ r.step \in {"snapshot", "manifest"} => r.next = K!ChunkOf(Len(r.chain)) + 1
  /\ r.step = "manifest" => d.snapshot = r.chain
  /\ \A i \in Nat : i < r.next => Len(d.chunks[i]) = Held(i, Len(r.chain))
  /\ \A h \in 1..Len(r.chain) :
       Len(r.base) < h /\ K!ChunkOf(h) < r.next => Block(d, h) = K!At(r.chain, h)
  /\ r.next = Begun(r) => LoadsFrom(d)

(* A branch of the network with the confirmations on top of it, and a      *)
(* server's chain without its last confirmations.                          *)
Buried(b, d) == K!IsPrefix(b, d) /\ (Len(b) = 0 \/ Len(b) + Confirmations <= Len(d))
Settled(b, d) == \A j \in Nat : j + Confirmations <= Len(b) => K!IsPrefix(K!At(b, j), d)

ReadsBuried(s) ==
  /\ run.step # "idle" => run.target + Confirmations <= Len(tips[s])
  /\ ~deep => /\ Settled(tips[s], net) /\ Buried(disk.manifest, net)
              /\ run.step # "idle" => Buried(run.chain, net)

ArchInv ==
  /\ ArchTypes
  /\ run.step # "idle" => Running(disk, run)
  /\ run.step = "idle" /\ cut = 0 => LoadsFrom(disk)
  /\ \A h \in 1..Len(disk.manifest) : Block(disk, h) = K!At(disk.manifest, h)
  /\ \A t \in archived : K!IsPrefix(t, disk.manifest)
  /\ \A s : ArchiveServers = {s} => ReadsBuried(s)

LEMMA ArchInvSound ==
  ASSUME ArchInv
  PROVE  K!ArchiveSound
<1>1. \A h \in 1..K!Archived :
        disk.chunks[K!ChunkOf(h)][h - K!From(K!ChunkOf(h)) + 1] = K!At(disk.manifest, h)
  BY DEF ArchInv, Block, K!Archived
<1>2. \A t \in archived : K!IsPrefix(t, disk.manifest)
  BY DEF ArchInv
<1>3. run.step = "idle" /\ cut = 0 => K!Loads
  BY LoadsCopies DEF ArchInv
<1>4. ASSUME K!Cardinality(ArchiveServers) = 1 PROVE K!BuriedOnly
  <2>1. K!Cardinality(ArchiveServers) = Cardinality(ArchiveServers)
    BY DEF K!Cardinality, Cardinality
  <2>2. \E s : ArchiveServers = {s}
    BY <1>4, <2>1, ArchiveNumbers, FS_Singleton
  <2> QED BY <2>2 DEF ArchInv, ReadsBuried, Buried, K!BuriedOnly
<1> QED BY <1>1, <1>2, <1>3, <1>4 DEF K!ArchiveSound

LEMMA ArchStay ==
  ASSUME ArchInv, UNCHANGED archiveVars
  PROVE  ArchInv'
BY DEF archiveVars, ArchInv, ArchTypes, ReadsBuried

LEMMA ArchStart == K!Init => ArchInv
<1> SUFFICES ASSUME K!Init PROVE ArchInv
  OBVIOUS
<1>1. /\ net = <<>> /\ tips = [s \in ArchiveServers |-> <<>>] /\ deep = FALSE
      /\ disk = [chunks |-> [i \in K!Chunks |-> <<>>], snapshot |-> <<>>, manifest |-> <<>>]
      /\ run = [step |-> "idle", chain |-> <<>>, base |-> <<>>, target |-> 0, servers |-> {}, next |-> 0]
      /\ archived = {<<>>} /\ cut = 0
  BY DEF K!Init, K!Idle
<1>2. <<>> \in Chain /\ Len(<<>>) = 0 /\ <<>> \in Seq(Chain)
  BY ChainLen, EmptySeq
<1>3. K!IsPrefix(<<>>, <<>>)
  BY <1>2 DEF K!IsPrefix
<1>4. ArchTypes
  <2>1. net \in Chain /\ Len(net) <= MaxHeight
    BY <1>1, <1>2, ArchiveNumbers
  <2>2. tips \in [ArchiveServers -> Chain] /\ \A s \in ArchiveServers : Len(tips[s]) <= Len(net)
    BY <1>1, <1>2
  <2>3. disk \in [chunks : [K!Chunks -> Seq(Chain)], snapshot : Chain, manifest : Chain]
    BY <1>1, <1>2
  <2>4. run \in [step : Steps, chain : Chain, base : Chain, target : Int,
                 servers : SUBSET ArchiveServers, next : Int]
    BY <1>1, <1>2 DEF Steps
  <2> QED BY <1>1, <1>2, <2>1, <2>2, <2>3, <2>4, ArchiveNumbers DEF ArchTypes
<1>5. LoadsFrom(disk)
  BY <1>1, <1>2 DEF LoadsFrom
<1>6. ASSUME NEW s, ArchiveServers = {s} PROVE ReadsBuried(s)
  <2>1. tips[s] = <<>>
    BY <1>1, <1>6
  <2>2. Buried(<<>>, net)
    BY <1>1, <1>2, <1>3 DEF Buried
  <2>3. Settled(tips[s], net)
    <3> SUFFICES ASSUME NEW j \in Nat, j + Confirmations <= 0 PROVE K!IsPrefix(K!At(<<>>, j), <<>>)
      BY <1>1, <1>2, <2>1 DEF Settled
    <3>1. j = 0
      BY ArchiveNumbers
    <3>2. K!At(<<>>, 0) = <<>>
      BY <1>2, Whole
    <3> QED BY <1>3, <3>1, <3>2
  <2> QED BY <1>1, <2>1, <2>2, <2>3 DEF ReadsBuried
<1> QED BY <1>1, <1>2, <1>3, <1>4, <1>5, <1>6 DEF ArchInv

(* The network gets a block longer and keeps that many of its blocks.      *)
LEMMA ArchNet ==
  ASSUME ArchInv, net' \in Chain, Len(net') = Len(net) + 1, Len(net) < MaxHeight,
         NEW keep \in 0..Len(net), K!At(net', keep) = K!At(net, keep),
         deep' <=> deep \/ keep + Confirmations < Len(net), deep' \in BOOLEAN,
         UNCHANGED <<tips, disk, run, archived, cut>>
  PROVE  ArchInv'
<1> USE ArchiveNumbers
<1>1. /\ net \in Chain /\ Len(net) \in Nat /\ Len(net') \in Nat
      /\ tips \in [ArchiveServers -> Chain] /\ \A s \in ArchiveServers : Len(tips[s]) <= Len(net)
      /\ disk.manifest \in Chain /\ run.chain \in Chain
  BY ChainLen DEF ArchInv, ArchTypes
<1>2. ArchTypes'
  BY <1>1 DEF ArchInv, ArchTypes
<1>3. ASSUME NEW b \in Chain, K!IsPrefix(b, net), Len(b) <= keep PROVE K!IsPrefix(b, net')
  <2>1. Len(b) \in Nat /\ Len(b) \in 0..keep /\ keep \in 0..Len(net) /\ keep \in 0..Len(net')
    BY <1>1, <1>3, ChainLen
  <2> DEFINE k == Len(b)
  <2>2. k \in 0..keep
    BY <2>1
  <2> HIDE DEF k
  <2>3. K!At(K!At(net', keep), k) = K!At(net', k)
    BY <2>1, <2>2, BranchTwice
  <2>4. K!At(K!At(net, keep), k) = K!At(net, k)
    BY <1>1, <2>1, <2>2, BranchTwice
  <2>5. K!At(net', Len(b)) = b
    BY <1>1, <1>3, <2>3, <2>4, Prefix DEF k
  <2> QED BY <1>1, <2>1, <2>5, Prefix
<1>4. ASSUME NEW b \in Chain, Buried(b, net), ~deep' PROVE Buried(b, net')
  <2>1. Len(b) \in Nat /\ K!IsPrefix(b, net)
    BY <1>4, ChainLen DEF Buried
  <2>2. Len(b) <= keep
    BY <1>1, <1>4, <2>1 DEF Buried
  <2> QED BY <1>1, <1>3, <1>4, <2>1, <2>2 DEF Buried
<1>5. ASSUME NEW s, ArchiveServers = {s}, ~deep' PROVE Settled(tips[s], net')
  <2> SUFFICES ASSUME NEW j \in Nat, j + Confirmations <= Len(tips[s])
               PROVE  K!IsPrefix(K!At(tips[s], j), net')
    BY DEF Settled
  <2>1. tips[s] \in Chain /\ Len(tips[s]) \in Nat /\ Len(tips[s]) <= Len(net)
    BY <1>1, <1>5, ChainLen
  <2>2. K!IsPrefix(K!At(tips[s], j), net)
    BY <1>5 DEF ArchInv, ReadsBuried, Settled
  <2>3. j \in 0..Len(tips[s]) /\ j <= keep
    BY <1>1, <1>5, <2>1
  <2>4. K!At(tips[s], j) \in Chain /\ Len(K!At(tips[s], j)) = j
    BY <2>1, <2>3, Branch
  <2> QED BY <1>3, <2>2, <2>3, <2>4
<1>6. ASSUME NEW s, ArchiveServers = {s} PROVE ReadsBuried(s)'
  <2>1. ReadsBuried(s)
    BY <1>6 DEF ArchInv
  <2>2. ~deep' => ~deep
    OBVIOUS
  <2> QED BY <1>1, <1>4, <1>5, <1>6, <2>1, <2>2 DEF ReadsBuried
<1> QED BY <1>2, <1>6 DEF ArchInv

LEMMA ArchGrow ==
  ASSUME ArchInv, K!Grow
  PROVE  ArchInv'
<1>1. net \in Chain /\ Len(net) \in Nat /\ deep \in BOOLEAN
  BY ChainLen DEF ArchInv, ArchTypes
<1>2. /\ Len(net) < MaxHeight /\ net' = Append(net, 0)
      /\ UNCHANGED <<tips, deep, disk, run, archived, cut>>
  BY DEF K!Grow
<1>3. /\ net' \in Chain /\ Len(net') = Len(net) + 1
      /\ \A j \in 1..Len(net) : net'[j] = net[j]
  BY <1>1, <1>2, AppendProperties DEF Chain
<1>4. K!At(net', Len(net)) = K!At(net, Len(net))
  <2>1. Len(net) \in 0..Len(net) /\ Len(net) \in 0..Len(net')
    BY <1>1, <1>3
  <2> DEFINE k == Len(net)
  <2>2. k \in 0..Len(net) /\ k \in 0..Len(net') /\ \A j \in 1..k : net'[j] = net[j]
    BY <1>3, <2>1
  <2> HIDE DEF k
  <2>3. /\ K!At(net', k) \in Chain /\ Len(K!At(net', k)) = k
        /\ \A j \in 1..k : K!At(net', k)[j] = net'[j]
    BY <1>3, <2>2, Branch
  <2>4. /\ K!At(net, k) \in Chain /\ Len(K!At(net, k)) = k
        /\ \A j \in 1..k : K!At(net, k)[j] = net[j]
    BY <1>1, <2>2, Branch
  <2> QED BY <2>2, <2>3, <2>4, BranchesEqual DEF k
<1>5. Len(net) \in 0..Len(net) /\ ~(Len(net) + Confirmations < Len(net))
  BY <1>1, ArchiveNumbers
<1> QED BY <1>1, <1>2, <1>3, <1>4, <1>5, ArchNet

LEMMA ArchReorg ==
  ASSUME ArchInv, NEW k \in 1..MaxHeight, K!Reorg(k)
  PROVE  ArchInv'
<1> USE ArchiveNumbers
<1> DEFINE fork == Len(net) - k
           other == [j \in 1..(k + 1) |-> IF j = 1 THEN 1 - net[fork + 1] ELSE 0]
<1>1. net \in Chain /\ Len(net) \in Nat /\ deep \in BOOLEAN
  BY ChainLen DEF ArchInv, ArchTypes
<1>2. /\ k <= Len(net) /\ Len(net) < MaxHeight /\ net' = K!At(net, fork) \o other
      /\ deep' = (deep \/ k > Confirmations)
      /\ UNCHANGED <<tips, disk, run, archived, cut>>
  BY DEF K!Reorg
<1>3. fork \in 0..Len(net) /\ fork + 1 \in 1..Len(net) /\ k \in Nat \ {0}
  BY <1>1, <1>2
<1>4. net[fork + 1] \in {0, 1}
  BY <1>1, <1>3, ElementOfSeq DEF Chain
<1>5. other \in Chain /\ Len(other) = k + 1
  <2>1. \A j \in 1..(k + 1) : (IF j = 1 THEN 1 - net[fork + 1] ELSE 0) \in {0, 1}
    BY <1>4
  <2>2. k + 1 \in Nat
    BY <1>3
  <2>3. other \in [1..(k + 1) -> {0, 1}]
    BY <2>1
  <2> HIDE DEF other
  <2> QED BY <2>2, <2>3 DEF Chain
<1> HIDE DEF other
<1>6. K!At(net, fork) \in Chain /\ Len(K!At(net, fork)) = fork
      /\ \A j \in 1..fork : K!At(net, fork)[j] = net[j]
  BY <1>1, <1>3, Branch
<1>7. /\ net' \in Chain /\ Len(net') = fork + (k + 1)
      /\ \A j \in 1..(fork + (k + 1)) :
           net'[j] = IF j <= fork THEN K!At(net, fork)[j] ELSE other[j - fork]
  <2> DEFINE a == K!At(net, fork)
  <2>1. a \in Seq({0, 1}) /\ other \in Seq({0, 1})
    BY <1>5, <1>6 DEF Chain
  <2> HIDE DEF a
  <2>2. /\ a \o other \in Seq({0, 1}) /\ Len(a \o other) = Len(a) + Len(other)
        /\ \A j \in 1..(Len(a) + Len(other)) :
             (a \o other)[j] = IF j <= Len(a) THEN a[j] ELSE other[j - Len(a)]
    BY <2>1, ConcatProperties
  <2>3. Len(a) = fork /\ Len(other) = k + 1 /\ net' = a \o other
    BY <1>2, <1>5, <1>6 DEF a
  <2>4. /\ net' \in Chain /\ Len(net') = fork + (k + 1)
        /\ \A j \in 1..(fork + (k + 1)) :
             net'[j] = IF j <= fork THEN a[j] ELSE other[j - fork]
    BY <2>2, <2>3 DEF Chain
  <2> QED BY <2>4 DEF a
<1>8. Len(net') = Len(net) + 1 /\ fork \in 0..Len(net')
  BY <1>1, <1>3, <1>7
<1>9. \A j \in 1..fork : net'[j] = net[j]
  <2> TAKE j \in 1..fork
  <2>1. j \in 1..(fork + (k + 1)) /\ j <= fork
    BY <1>1, <1>3
  <2> QED BY <1>6, <1>7, <2>1
<1>10. K!At(net', fork) = K!At(net, fork)
  <2>1. /\ K!At(net', fork) \in Chain /\ Len(K!At(net', fork)) = fork
        /\ \A j \in 1..fork : K!At(net', fork)[j] = net'[j]
    BY <1>7, <1>8, Branch
  <2> QED BY <1>6, <1>9, <2>1, BranchesEqual
<1>11. k > Confirmations <=> fork + Confirmations < Len(net)
  BY <1>1, <1>3
<1> QED BY <1>1, <1>2, <1>3, <1>7, <1>8, <1>10, <1>11, ArchNet

LEMMA ArchFollow ==
  ASSUME ArchInv, NEW s \in ArchiveServers, K!Follow(s)
  PROVE  ArchInv'
<1> USE ArchiveNumbers
<1>1. /\ tips' = [tips EXCEPT ![s] = net] /\ UNCHANGED <<net, deep, disk, run, archived, cut>>
  BY DEF K!Follow
<1>2. /\ net \in Chain /\ Len(net) \in Nat
      /\ tips \in [ArchiveServers -> Chain] /\ \A t \in ArchiveServers : Len(tips[t]) <= Len(net)
      /\ \A t \in ArchiveServers : Len(tips[t]) \in Nat
  BY ChainLen DEF ArchInv, ArchTypes
<1>3. /\ tips' \in [ArchiveServers -> Chain]
      /\ \A t \in ArchiveServers : tips'[t] = IF t = s THEN net ELSE tips[t]
  BY <1>1, <1>2
<1>4. ArchTypes'
  <2>1. \A t \in ArchiveServers : Len(tips'[t]) <= Len(net')
    BY <1>1, <1>2, <1>3
  <2> QED BY <1>1, <1>3, <2>1 DEF ArchInv, ArchTypes
<1>5. Settled(net, net)
  <2> SUFFICES ASSUME NEW j \in Nat, j + Confirmations <= Len(net)
               PROVE  K!IsPrefix(K!At(net, j), net)
    BY DEF Settled
  <2>1. j \in 0..Len(net) /\ Len(net) \in 0..Len(net)
    BY <1>2
  <2>2. K!IsPrefix(K!At(net, j), K!At(net, Len(net)))
    <3> DEFINE h == Len(net)
    <3>1. h \in 0..Len(net) /\ j \in 0..h
      BY <2>1
    <3> HIDE DEF h
    <3>2. K!IsPrefix(K!At(net, j), K!At(net, h))
      BY <1>2, <3>1, BranchPrefix
    <3> QED BY <3>2 DEF h
  <2> QED BY <1>2, <2>2, Whole
<1>6. ASSUME NEW t, ArchiveServers = {t} PROVE ReadsBuried(t)'
  <2>1. ReadsBuried(t) /\ t = s /\ tips'[t] = net /\ Len(tips[t]) <= Len(net)
    BY <1>2, <1>3, <1>6 DEF ArchInv
  <2>2. run.target \in Int
    BY DEF ArchInv, ArchTypes
  <2>3. run'.step # "idle" => run'.target + Confirmations <= Len(tips'[t])
    BY <1>1, <1>2, <1>6, <2>1, <2>2 DEF ReadsBuried
  <2> QED BY <1>1, <1>5, <2>1, <2>3 DEF ReadsBuried
<1> QED BY <1>1, <1>4, <1>6 DEF ArchInv

(* The highest of some heights.                                            *)
LEMMA Highest ==
  ASSUME NEW U \in SUBSET (0..MaxHeight), U # {}
  PROVE  (CHOOSE k \in U : \A h \in U : h <= k) \in U
<1>1. \E k \in U : \A h \in U : h <= k
  BY Newest, ArchiveNumbers
<1> QED BY <1>1

(* The types of the parts of the archive's state.                          *)
LEMMA ArchFields ==
  ASSUME ArchInv
  PROVE  /\ disk.manifest \in Chain /\ Len(disk.manifest) \in Nat /\ disk.snapshot \in Chain
         /\ run.chain \in Chain /\ Len(run.chain) \in Nat /\ run.base \in Chain
         /\ Len(run.base) \in Nat /\ run.target \in Int /\ run.next \in Int /\ run.step \in Steps
         /\ run.servers \in SUBSET ArchiveServers
         /\ \A s \in ArchiveServers : tips[s] \in Chain /\ Len(tips[s]) \in 0..MaxHeight
         /\ net \in Chain /\ Len(net) \in Nat
<1>1. \A s \in ArchiveServers : Len(tips[s]) \in 0..MaxHeight
  <2> TAKE s \in ArchiveServers
  <2>1. tips[s] \in Chain /\ Len(tips[s]) <= Len(net) /\ net \in Chain /\ Len(net) <= MaxHeight
    BY DEF ArchInv, ArchTypes
  <2>2. Len(tips[s]) \in Nat /\ Len(net) \in Nat
    BY <2>1, ChainLen
  <2> QED BY <2>1, <2>2, ArchiveNumbers
<1> QED BY <1>1, ChainLen DEF ArchInv, ArchTypes

LEMMA ArchRun ==
  ASSUME ArchInv, NEW R \in SUBSET ArchiveServers, K!Start(R)
  PROVE  ArchInv'
<1> USE ArchiveNumbers
<1> DEFINE lengths == {Len(tips[s]) : s \in R}
           above(k) == \A s \in R : Len(tips[s]) <= k
           top == CHOOSE k \in lengths : above(k)
           size == Len(disk.manifest)
<1>1. /\ run.step = "idle" /\ R # {} /\ K!Loads /\ top - Confirmations > size
      /\ run' = [step |-> "pull", chain |-> disk.manifest, base |-> disk.manifest,
                 target |-> top - Confirmations, servers |-> R, next |-> K!ChunkOf(size + 1)]
      /\ UNCHANGED <<net, tips, deep, disk, archived, cut>>
  BY DEF K!Start, K!Target, K!Archived
<1>2. /\ disk.manifest \in Chain /\ size \in Nat
      /\ \A s \in ArchiveServers : tips[s] \in Chain /\ Len(tips[s]) \in 0..MaxHeight
  BY ArchFields
<1>3. top \in lengths
  <2>1. lengths \in SUBSET (0..MaxHeight) /\ lengths # {}
    BY <1>1, <1>2
  <2>2. \E k \in lengths : \A h \in lengths : h <= k
    <3> HIDE DEF lengths
    <3> QED BY <2>1, Newest
  <2>3. \E k \in lengths : above(k)
    BY <2>2
  <2> HIDE DEF lengths, above
  <2> QED BY <2>3
<1> HIDE DEF top
<1>4. top \in Int
  <2>1. PICK s \in R : top = Len(tips[s])
    BY <1>3
  <2> QED BY <1>2, <2>1
<1>5. /\ run'.step = "pull" /\ run'.chain = disk.manifest /\ run'.base = disk.manifest
      /\ run'.target = top - Confirmations /\ run'.servers = R
      /\ run'.next = K!ChunkOf(size + 1) /\ disk' = disk
  BY <1>1
<1>6. K!ChunkOf(size + 1) \in Nat
  <2>1. size + 1 \in Nat \ {0}
    BY <1>2
  <2> QED BY <2>1, Slots
<1>7. ArchTypes'
  <2>1. run' \in [step : Steps, chain : Chain, base : Chain, target : Int,
                  servers : SUBSET ArchiveServers, next : Int]
    BY <1>1, <1>2, <1>4, <1>6 DEF Steps
  <2>2. Len(run'.chain) <= MaxHeight
    BY <1>5 DEF ArchInv, ArchTypes
  <2> QED BY <1>1, <2>1, <2>2 DEF ArchInv, ArchTypes
<1>8. LoadsFrom(disk)
  BY <1>1, LoadsCopies
<1>9. Running(disk', run')
  <2>1. K!IsPrefix(disk.manifest, disk.manifest)
    BY <1>2 DEF K!IsPrefix
  <2>2. ASSUME NEW i \in Nat, i < K!ChunkOf(size + 1)
        PROVE  Len(disk.chunks[i]) = Held(i, size)
    <3>1. size # 0
      <4> SUFFICES ASSUME size = 0 PROVE FALSE
        OBVIOUS
      <4>1. K!From(0) = 1 /\ K!To(0) = K!From(0) + ChunkSize - 1
        BY Slots
      <4>2. K!ChunkOf(1) = 0
        BY <4>1, SlotOf
      <4> QED BY <2>2, <4>2
    <3>2. size \in Nat \ {0}
      BY <1>2, <3>1
    <3>3. K!ChunkOf(size + 1) <= K!ChunkOf(size) + 1 /\ K!ChunkOf(size) \in Nat
      BY <3>2, SlotAfter, Slots
    <3>4. i \in 0..K!ChunkOf(size)
      BY <1>6, <2>2, <3>3
    <3> QED BY <1>8, <3>2, <3>4 DEF LoadsFrom
  <2>3. \A h \in 1..Len(run'.chain) : ~(Len(run'.base) < h)
    BY <1>2, <1>5
  <2> QED BY <1>1, <1>2, <1>4, <1>5, <1>8, <2>1, <2>2, <2>3 DEF Running, Begun
<1>10. ASSUME NEW s, ArchiveServers = {s} PROVE ReadsBuried(s)'
  <2>1. ReadsBuried(s)
    BY <1>10 DEF ArchInv
  <2>2. R = {s}
    BY <1>1, <1>10
  <2>3. top = Len(tips[s]) /\ Len(tips[s]) \in Nat
    BY <1>2, <1>3, <1>10, <2>2
  <2>4. run'.target + Confirmations <= Len(tips'[s])
    BY <1>1, <1>4, <1>5, <2>3
  <2> QED BY <1>1, <1>5, <2>1, <2>4 DEF ReadsBuried
<1> QED BY <1>1, <1>5, <1>7, <1>9, <1>10 DEF ArchInv

(* A place beyond the first m of those from a to z, counted from there.    *)
LEMMA Beyond ==
  ASSUME NEW a \in Int, NEW z \in Int, NEW m \in Nat, NEW k \in 1..(z - a + 1), k > m
  PROVE  ~(k <= m) /\ k - m \in 1..(z - a + 1 - m)
OBVIOUS

(* A chain that goes on from the archived one ends in a later chunk, or in *)
(* the one the archive stops in.                                           *)
LEMMA RunChunks ==
  ASSUME ArchInv, run.step # "idle"
  PROVE  /\ Begun(run) \in Nat /\ Len(run.base) <= Len(run.chain)
         /\ run.next \in Nat /\ Len(run.base) \in 0..Len(run.chain)
         /\ K!At(run.chain, Len(run.base)) = run.base
         /\ run.step # "pull" =>
              /\ Len(run.chain) \in Nat \ {0} /\ Len(run.base) + 1 \in Nat \ {0}
              /\ K!ChunkOf(Len(run.chain)) \in Nat /\ Begun(run) <= K!ChunkOf(Len(run.chain))
              /\ K!From(K!ChunkOf(Len(run.chain))) <= Len(run.chain)
              /\ Len(run.chain) <= K!To(K!ChunkOf(Len(run.chain)))
<1>1. /\ run.chain \in Chain /\ run.base \in Chain /\ run.next \in Int /\ run.step \in Steps
      /\ Len(run.chain) \in Nat /\ Len(run.base) \in Nat
  BY ArchFields
<1>2. Running(disk, run)
  BY DEF ArchInv
<1>3. /\ Len(run.base) <= Len(run.chain) /\ K!At(run.chain, Len(run.base)) = run.base
  BY <1>1, <1>2, Prefix DEF Running
<1>4. Len(run.base) + 1 \in Nat \ {0}
  BY <1>1
<1>5. Begun(run) \in Nat
  BY <1>4, Slots DEF Begun
<1>6. ASSUME run.step # "pull"
      PROVE  /\ Len(run.chain) \in Nat \ {0} /\ Len(run.base) + 1 <= Len(run.chain)
  BY <1>1, <1>2, <1>6 DEF Running
<1>7. ASSUME run.step # "pull"
      PROVE  /\ K!ChunkOf(Len(run.chain)) \in Nat /\ Begun(run) <= K!ChunkOf(Len(run.chain))
             /\ K!From(K!ChunkOf(Len(run.chain))) <= Len(run.chain)
             /\ Len(run.chain) <= K!To(K!ChunkOf(Len(run.chain)))
  <2>1. Len(run.chain) \in Nat \ {0} /\ Len(run.base) + 1 <= Len(run.chain)
    BY <1>6, <1>7
  <2> QED BY <1>4, <2>1, Slots, SlotOrder DEF Begun
<1>8. run.next \in Nat
  <2>1. CASE run.step = "pull"
    BY <1>2, <1>5, <2>1 DEF Running
  <2>2. CASE run.step # "pull"
    BY <1>1, <1>2, <1>5, <1>7, <2>2 DEF Running, Steps
  <2> QED BY <2>1, <2>2
<1> QED BY <1>1, <1>3, <1>4, <1>5, <1>6, <1>7, <1>8

LEMMA ArchPull ==
  ASSUME ArchInv, NEW s \in ArchiveServers, K!Pull(s)
  PROVE  ArchInv'
<1> USE ArchiveNumbers
<1> DEFINE from == Len(run.chain)
           given == {k \in 1..Len(tips[s]) : k <= K!BatchTarget /\ k <= from + PerRequest}
           upto == CHOOSE k \in given : \A h \in given : h <= k
<1>1. /\ run.step = "pull" /\ s \in run.servers /\ given # {} /\ upto > from
      /\ K!At(tips[s], from) = run.chain
      /\ run' = [run EXCEPT !.chain = K!At(tips[s], upto),
                            !.step = IF upto = K!BatchTarget THEN "chunks" ELSE "pull"]
      /\ UNCHANGED <<net, tips, deep, disk, archived, cut>>
  BY DEF K!Pull
<1>2. /\ tips[s] \in Chain /\ Len(tips[s]) \in 0..MaxHeight /\ from \in Nat /\ run.chain \in Chain
      /\ run.base \in Chain /\ Len(run.base) \in Nat /\ run.target \in Int /\ run.next \in Int
  BY ArchFields
<1>3. upto \in given
  <2>1. given \in SUBSET (0..MaxHeight)
    BY <1>2
  <2> HIDE DEF given
  <2> QED BY <1>1, <2>1, Highest
<1> HIDE DEF upto
<1>4. /\ upto \in 1..Len(tips[s]) /\ upto \in Nat /\ upto <= K!BatchTarget /\ upto <= MaxHeight
      /\ upto \in 0..Len(tips[s]) /\ from \in 0..upto
  BY <1>1, <1>2, <1>3
<1>5. K!At(tips[s], upto) \in Chain /\ Len(K!At(tips[s], upto)) = upto
  BY <1>2, <1>4, Branch
<1> DEFINE step2 == IF upto = K!BatchTarget THEN "chunks" ELSE "pull"
<1>6. /\ run' \in [step : Steps, chain : Chain, base : Chain, target : Int,
                   servers : SUBSET ArchiveServers, next : Int]
      /\ run'.chain = K!At(tips[s], upto) /\ run'.step = step2 /\ run'.base = run.base
      /\ run'.target = run.target /\ run'.servers = run.servers /\ run'.next = run.next
  <2>1. run \in [step : Steps, chain : Chain, base : Chain, target : Int,
                 servers : SUBSET ArchiveServers, next : Int]
    BY DEF ArchInv, ArchTypes
  <2>2. step2 \in Steps
    BY DEF Steps
  <2> HIDE DEF step2
  <2> QED BY <1>1, <1>5, <2>1, <2>2 DEF step2
<1>7. ArchTypes'
  <2>1. Len(run'.chain) <= MaxHeight
    BY <1>4, <1>5, <1>6
  <2> QED BY <1>1, <1>6, <2>1 DEF ArchInv, ArchTypes
<1>8. Running(disk, run)
  BY <1>1 DEF ArchInv
<1>9. K!IsPrefix(run.chain, K!At(tips[s], upto))
  BY <1>1, <1>2, <1>4, BranchPrefix
<1>10. K!BatchTarget > Len(run.base) /\ K!BatchTarget <= run.target /\ K!BatchTarget \in Int
  BY <1>2, <1>8 DEF K!BatchTarget, Running
<1>11. Running(disk', run')
  <2>1. run'.base = disk'.manifest /\ run'.target > Len(run'.base) /\ run'.next = Begun(run')
    BY <1>1, <1>6, <1>8 DEF Running, Begun
  <2>2. K!IsPrefix(run'.base, run'.chain)
    BY <1>2, <1>5, <1>6, <1>8, <1>9, PrefixOfPrefix DEF Running
  <2>3. run'.step # "pull" => Len(run'.chain) > Len(run'.base)
    BY <1>5, <1>6, <1>10
  <2>4. run'.step \notin {"snapshot", "manifest"}
    BY <1>6
  <2>5. run'.step = "chunks" => Begun(run') <= run'.next /\ run'.next <= K!ChunkOf(Len(run'.chain))
    <3> SUFFICES ASSUME run'.step # "pull" PROVE Begun(run') <= K!ChunkOf(Len(run'.chain)) /\ Begun(run') \in Nat
      BY <2>1
    <3>1. Len(run'.chain) \in Nat \ {0} /\ Len(run'.base) + 1 \in Nat \ {0}
          /\ Len(run'.base) + 1 <= Len(run'.chain)
      BY <1>2, <1>4, <1>5, <1>6, <2>3
    <3> QED BY <3>1, SlotOrder, Slots DEF Begun
  <2>6. ASSUME NEW i \in Nat, i < run'.next
        PROVE  Len(disk'.chunks[i]) = Held(i, Len(run'.chain))
    <3>1. Len(disk.chunks[i]) = Held(i, from) /\ i < Begun(run)
      BY <1>1, <1>6, <1>8, <2>6 DEF Running
    <3>2. Len(run.base) + 1 \in Nat \ {0}
      BY <1>2
    <3>3. Begun(run) \in Nat /\ K!From(Begun(run)) <= Len(run.base) + 1
      BY <3>2, Slots DEF Begun
    <3>4. /\ K!To(i) < K!From(Begun(run)) /\ K!To(i) \in Nat /\ K!From(i) \in Nat
          /\ K!From(Begun(run)) \in Nat
      BY <3>1, <3>3, Slots
    <3>5. K!To(i) <= Len(run.base) /\ Len(run.base) <= from
      BY <1>1, <1>2, <3>3, <3>4, RunChunks
    <3>6. Held(i, from) = Held(i, upto)
      BY <1>2, <1>4, <3>4, <3>5 DEF Held
    <3> QED BY <1>1, <1>5, <1>6, <3>1, <3>6
  <2>7. ASSUME NEW h \in 1..Len(run'.chain), Len(run'.base) < h, K!ChunkOf(h) < run'.next
        PROVE  FALSE
    <3>1. h \in Nat \ {0} /\ Len(run.base) + 1 \in Nat \ {0} /\ Len(run.base) + 1 <= h
      BY <1>2, <1>4, <1>5, <1>6, <2>7
    <3>2. Begun(run) <= K!ChunkOf(h) /\ Begun(run) \in Nat /\ K!ChunkOf(h) \in Nat
      BY <3>1, SlotOrder, Slots DEF Begun
    <3>3. run'.next = Begun(run)
      BY <1>1, <1>6, <1>8 DEF Running
    <3> QED BY <2>7, <3>2, <3>3
  <2>8. LoadsFrom(disk')
    BY <1>1, <1>8 DEF Running
  <2> QED BY <2>1, <2>2, <2>3, <2>4, <2>5, <2>6, <2>7, <2>8 DEF Running
<1>12. ASSUME NEW t, ArchiveServers = {t} PROVE ReadsBuried(t)'
  <2>1. ReadsBuried(t) /\ t = s
    BY <1>12 DEF ArchInv
  <2>2. run.target + Confirmations <= Len(tips[s])
    BY <1>1, <2>1 DEF ReadsBuried
  <2>3. ASSUME ~deep PROVE Buried(run'.chain, net)
    <3>1. upto + Confirmations <= Len(tips[s])
      BY <1>2, <1>4, <1>10, <2>2
    <3>2. K!IsPrefix(K!At(tips[s], upto), net)
      BY <1>4, <2>1, <2>3, <3>1 DEF ReadsBuried, Settled
    <3>3. Len(tips[s]) <= Len(net) /\ Len(net) \in Nat
      BY ArchFields DEF ArchInv, ArchTypes
    <3> QED BY <1>2, <1>4, <1>5, <1>6, <3>1, <3>2, <3>3 DEF Buried
  <2> QED BY <1>1, <1>6, <2>1, <2>2, <2>3 DEF ReadsBuried
<1>13. run'.step # "idle"
  BY <1>6
<1> QED BY <1>1, <1>7, <1>11, <1>12, <1>13 DEF ArchInv

LEMMA ArchWriteChunk ==
  ASSUME ArchInv, K!WriteChunk
  PROVE  ArchInv'
<1> USE ArchiveNumbers
<1> DEFINE i == run.next
           top == Len(run.chain)
           base == Len(run.base)
           last == IF K!To(i) < top THEN K!To(i) ELSE top
           kept == K!Kept(i)
           new == [k \in 1..(last - K!From(i) + 1 - Len(kept)) |->
                     K!At(run.chain, K!From(i) + Len(kept) + k - 1)]
           step2 == IF i = K!ChunkOf(top) THEN "snapshot" ELSE "chunks"
<1>1. /\ run.step = "chunks"
      /\ K!From(i) <= base => Len(kept) = base - K!From(i) + 1
      /\ disk' = [disk EXCEPT !.chunks[i] = kept \o new]
      /\ run' = [run EXCEPT !.next = i + 1, !.step = step2]
      /\ UNCHANGED <<net, tips, deep, archived, cut>>
  BY DEF K!WriteChunk
<1>2. /\ disk \in [chunks : [K!Chunks -> Seq(Chain)], snapshot : Chain, manifest : Chain]
      /\ run \in [step : Steps, chain : Chain, base : Chain, target : Int,
                  servers : SUBSET ArchiveServers, next : Int]
      /\ run.chain \in Chain /\ top \in Nat /\ base \in Nat /\ top <= MaxHeight
      /\ run.base = disk.manifest
  BY <1>1, ArchFields DEF ArchInv, ArchTypes, Running
<1>3. Running(disk, run)
  BY <1>1 DEF ArchInv
<1>4. /\ Begun(run) \in Nat /\ base <= top /\ i \in Nat /\ top \in Nat \ {0}
      /\ base + 1 \in Nat \ {0} /\ K!ChunkOf(top) \in Nat
      /\ K!From(K!ChunkOf(top)) <= top /\ top <= K!To(K!ChunkOf(top))
      /\ K!At(run.chain, base) = run.base /\ base \in 0..top
      /\ Begun(run) <= i /\ i <= K!ChunkOf(top) /\ base < top
  BY <1>1, <1>3, RunChunks DEF Running
<1>5. /\ K!From(i) \in Nat \ {0} /\ K!To(i) \in Nat /\ K!To(i) = K!From(i) + ChunkSize - 1
  BY <1>4, Slots
<1>6. K!From(i) <= top /\ base < K!To(i)
  <2>1. K!From(i) <= top
    <3>1. i < K!ChunkOf(top) => K!To(i) < K!From(K!ChunkOf(top))
      BY <1>4, Slots
    <3>2. K!From(K!ChunkOf(top)) \in Nat
      BY <1>4, Slots
    <3> QED BY <1>4, <1>5, <3>1, <3>2
  <2>2. base < K!To(i)
    <3>1. base + 1 <= K!To(Begun(run)) /\ K!To(Begun(run)) \in Nat
      BY <1>4, Slots DEF Begun
    <3>2. Begun(run) < i => K!To(Begun(run)) < K!From(i)
      BY <1>4, Slots
    <3> QED BY <1>2, <1>4, <1>5, <3>1, <3>2
  <2> QED BY <2>1, <2>2
<1>7. i \in K!Chunks
  <2>1. K!ChunkOf(top) <= K!ChunkOf(MaxHeight) /\ K!ChunkOf(MaxHeight) \in Nat
    <3>1. MaxHeight \in Nat \ {0}
      BY <1>2, <1>4
    <3> QED BY <1>2, <1>4, <3>1, SlotOrder, Slots
  <2> QED BY <1>4, <2>1 DEF K!Chunks
<1>8. kept \in Seq(Chain) /\ Len(kept) \in Nat
  <2>1. kept \in Seq(Chain)
    BY <1>2, <1>7, EmptySeq DEF K!Kept
  <2> QED BY <2>1, LenProperties
<1>9. Len(kept) = IF K!From(i) <= base THEN base - K!From(i) + 1 ELSE 0
  <2>1. CASE K!From(i) <= base
    BY <1>1, <2>1
  <2>2. CASE ~(K!From(i) <= base)
    BY <2>2, ChainLen DEF K!Kept
  <2> QED BY <2>1, <2>2
<1> DEFINE more == last - K!From(i) + 1 - Len(kept)
<1>10. /\ last \in Nat /\ more \in Nat /\ last <= top /\ last <= K!To(i)
       /\ last = K!To(i) \/ last = top
  <2>1. last \in Nat /\ last <= top /\ last <= K!To(i) /\ (last = K!To(i) \/ last = top)
    BY <1>2, <1>5
  <2>2. base <= last /\ K!From(i) <= last
    BY <1>2, <1>4, <1>5, <1>6
  <2> HIDE DEF last, kept
  <2>3. more \in Nat
    BY <1>2, <1>5, <1>8, <1>9, <2>1, <2>2
  <2> QED BY <2>1, <2>3
<1>11. new \in Seq(Chain) /\ Len(new) = more
       /\ \A k \in 1..more : new[k] = K!At(run.chain, K!From(i) + Len(kept) + k - 1)
  <2> HIDE DEF last, kept
  <2>1. \A k \in 1..more : K!At(run.chain, K!From(i) + Len(kept) + k - 1) \in Chain
    <3> TAKE k \in 1..more
    <3>1. k \in Nat \ {0} /\ k <= last - K!From(i) + 1 - Len(kept)
      BY <1>10
    <3>2. K!From(i) \in Nat \ {0} /\ Len(kept) \in Nat /\ last \in Nat /\ last <= top /\ top \in Nat
      BY <1>2, <1>5, <1>8, <1>10
    <3>3. K!From(i) + Len(kept) + k - 1 \in 0..top
      BY <3>1, <3>2
    <3> QED BY <1>2, <3>3, Branch
  <2>2. /\ new \in [1..more -> Chain]
        /\ \A k \in 1..more : new[k] = K!At(run.chain, K!From(i) + Len(kept) + k - 1)
    BY <2>1
  <2>3. more \in Nat
    BY <1>10
  <2> HIDE DEF more, new
  <2>4. new \in Seq(Chain) /\ Len(new) = more
    BY <2>2, <2>3
  <2> QED BY <2>2, <2>4
<1> HIDE DEF last, kept, new
<1>12. /\ kept \o new \in Seq(Chain) /\ Len(kept \o new) = last - K!From(i) + 1
       /\ \A k \in 1..(last - K!From(i) + 1) :
            (kept \o new)[k] = IF k <= Len(kept) THEN kept[k] ELSE new[k - Len(kept)]
  <2>1. /\ kept \o new \in Seq(Chain) /\ Len(kept \o new) = Len(kept) + Len(new)
        /\ \A k \in 1..(Len(kept) + Len(new)) :
             (kept \o new)[k] = IF k <= Len(kept) THEN kept[k] ELSE new[k - Len(kept)]
    BY <1>8, <1>11, ConcatProperties
  <2>2. Len(kept) + Len(new) = last - K!From(i) + 1
    BY <1>5, <1>8, <1>10, <1>11
  <2> QED BY <2>1, <2>2
<1>13. /\ disk' \in [chunks : [K!Chunks -> Seq(Chain)], snapshot : Chain, manifest : Chain]
       /\ disk'.manifest = disk.manifest /\ disk'.snapshot = disk.snapshot
       /\ disk'.chunks[i] = kept \o new
       /\ \A j \in Nat : j # i => disk'.chunks[j] = disk.chunks[j]
  <2> DEFINE whole == kept \o new
  <2>1. whole \in Seq(Chain) /\ disk' = [disk EXCEPT !.chunks[i] = whole]
    BY <1>1, <1>12
  <2> HIDE DEF whole
  <2>2. /\ disk'.manifest = disk.manifest /\ disk'.snapshot = disk.snapshot
        /\ disk'.chunks = [disk.chunks EXCEPT ![i] = whole]
    BY <1>2, <2>1
  <2>3. disk' \in [chunks : [K!Chunks -> Seq(Chain)], snapshot : Chain, manifest : Chain]
    BY <1>2, <1>7, <2>1
  <2>4. disk.chunks \in [K!Chunks -> Seq(Chain)]
    BY <1>2
  <2> QED BY <1>7, <2>2, <2>3, <2>4 DEF whole
<1>14. /\ run' \in [step : Steps, chain : Chain, base : Chain, target : Int,
                    servers : SUBSET ArchiveServers, next : Int]
       /\ run'.chain = run.chain /\ run'.step = step2 /\ run'.base = run.base
       /\ run'.target = run.target /\ run'.next = i + 1
  <2>1. step2 \in Steps /\ i + 1 \in Int
    BY <1>4 DEF Steps
  <2> HIDE DEF step2
  <2> QED BY <1>1, <1>2, <2>1
<1>15. ArchTypes'
  BY <1>1, <1>13, <1>14 DEF ArchInv, ArchTypes
(* Only what lies above the archived tip is written.                       *)
<1>16. ASSUME NEW h \in 1..top
       PROVE  /\ h <= base => Block(disk', h) = Block(disk, h)
              /\ K!ChunkOf(h) # i => Block(disk', h) = Block(disk, h)
              /\ base < h /\ K!ChunkOf(h) = i => Block(disk', h) = K!At(run.chain, h)
  <2> DEFINE j == K!ChunkOf(h)
             k == h - K!From(j) + 1
  <2>1. h \in Nat \ {0} /\ h <= top
    BY <1>2
  <2>2. j \in Nat /\ K!From(j) <= h /\ h <= K!To(j) /\ K!From(j) \in Nat \ {0} /\ K!To(j) \in Nat
    BY <2>1, Slots
  <2>3. Block(disk', h) = disk'.chunks[j][k] /\ Block(disk, h) = disk.chunks[j][k]
    BY DEF Block
  <2> HIDE DEF j
  <2>4. CASE j # i
    BY <1>13, <2>2, <2>3, <2>4 DEF j
  <2>5. CASE j = i
    <3>1. k \in Nat \ {0} /\ h = K!From(i) + k - 1 /\ k \in 1..(last - K!From(i) + 1)
      <4>1. K!From(i) \in Nat /\ K!From(i) <= h /\ h \in Nat /\ k = h - K!From(i) + 1
        BY <2>1, <2>2, <2>5
      <4>2. h <= last
        BY <1>10, <2>1, <2>2, <2>5
      <4> QED BY <1>10, <4>1, <4>2
    <3> HIDE DEF k
    <3>2. Block(disk', h) = IF k <= Len(kept) THEN kept[k] ELSE new[k - Len(kept)]
      BY <1>12, <1>13, <2>3, <2>5, <3>1
    <3>3. CASE h <= base
      <4>1. K!From(i) <= base /\ k <= Len(kept)
        BY <1>2, <1>5, <1>9, <2>1, <2>2, <2>5, <3>1, <3>3
      <4>2. kept = disk.chunks[i]
        BY <4>1 DEF kept, K!Kept
      <4> QED BY <1>2, <2>1, <2>3, <2>5, <3>2, <3>3, <4>1, <4>2 DEF j
    <3>4. CASE base < h
      <4>1. ~(k <= Len(kept)) /\ k - Len(kept) \in 1..more
        <5>1. k > Len(kept)
          BY <1>2, <1>5, <1>8, <1>9, <2>1, <3>1, <3>4
        <5>2. Len(kept) \in Nat /\ K!From(i) \in Int /\ last \in Int
          BY <1>5, <1>8, <1>10
        <5>3. k \in 1..(last - K!From(i) + 1)
          BY <3>1
        <5> QED BY <5>1, <5>2, <5>3, Beyond
      <4>2. K!From(i) + Len(kept) + (k - Len(kept)) - 1 = h
        BY <1>5, <1>8, <3>1
      <4>3. new[k - Len(kept)] = K!At(run.chain, K!From(i) + Len(kept) + (k - Len(kept)) - 1)
        BY <1>11, <4>1
      <4>4. Block(disk', h) = K!At(run.chain, h)
        BY <3>2, <4>1, <4>2, <4>3
      <4> QED BY <1>2, <2>1, <2>5, <3>4, <4>4 DEF j
    <3> QED BY <1>2, <2>1, <3>3, <3>4
  <2> QED BY <2>4, <2>5
<1>17. Running(disk', run')
  <2>1. /\ run'.base = disk'.manifest /\ K!IsPrefix(run'.base, run'.chain)
        /\ run'.target > Len(run'.base)
    BY <1>3, <1>13, <1>14 DEF Running
  <2>2. Len(run'.chain) > Len(run'.base)
    BY <1>4, <1>14
  <2>3. /\ run'.step # "pull" /\ run'.step # "manifest"
        /\ run'.step = "chunks" => Begun(run') <= run'.next /\ run'.next <= K!ChunkOf(Len(run'.chain))
        /\ run'.step \in {"snapshot", "manifest"} => run'.next = K!ChunkOf(Len(run'.chain)) + 1
    <3>1. Begun(run') = Begun(run)
      BY <1>14 DEF Begun
    <3> QED BY <1>4, <1>14, <3>1
  <2>4. ASSUME NEW j \in Nat, j < run'.next
        PROVE  Len(disk'.chunks[j]) = Held(j, Len(run'.chain))
    <3>1. CASE j = i
      BY <1>12, <1>13, <1>14, <3>1 DEF Held, last
    <3>2. CASE j # i
      <4>1. j < i
        BY <1>4, <1>14, <2>4, <3>2
      <4>2. Len(disk.chunks[j]) = Held(j, top)
        BY <1>3, <4>1 DEF Running
      <4> QED BY <1>13, <1>14, <3>2, <4>2
    <3> QED BY <3>1, <3>2
  <2>5. ASSUME NEW h \in 1..Len(run'.chain), Len(run'.base) < h, K!ChunkOf(h) < run'.next
        PROVE  Block(disk', h) = K!At(run'.chain, h)
    <3>1. h \in 1..top /\ base < h /\ K!ChunkOf(h) < i + 1 /\ K!ChunkOf(h) \in Nat
      <4>1. h \in Nat \ {0}
        BY <1>2, <1>14
      <4> QED BY <1>14, <2>5, <4>1, Slots
    <3>2. CASE K!ChunkOf(h) = i
      BY <1>14, <1>16, <3>1, <3>2
    <3>3. CASE K!ChunkOf(h) # i
      <4>1. K!ChunkOf(h) < i
        BY <1>4, <3>1, <3>3
      <4>2. Block(disk, h) = K!At(run.chain, h)
        BY <1>3, <3>1, <4>1 DEF Running
      <4> QED BY <1>14, <1>16, <3>1, <3>3, <4>2
    <3> QED BY <3>2, <3>3
  <2>6. run'.next # Begun(run')
    <3>1. Begun(run') = Begun(run)
      BY <1>14 DEF Begun
    <3> QED BY <1>4, <1>14, <3>1
  <2> QED BY <2>1, <2>2, <2>3, <2>4, <2>5, <2>6 DEF Running
<1>18. \A h \in 1..Len(disk'.manifest) : Block(disk', h) = K!At(disk'.manifest, h)
  <2> TAKE h \in 1..Len(disk'.manifest)
  <2>1. h \in 1..base /\ h \in 1..top /\ h <= base
    BY <1>2, <1>4, <1>13
  <2>2. Block(disk, h) = K!At(disk.manifest, h)
    BY <1>2, <2>1 DEF ArchInv
  <2> QED BY <1>13, <1>16, <2>1, <2>2
<1>19. ASSUME NEW s, ArchiveServers = {s} PROVE ReadsBuried(s)'
  <2>1. ReadsBuried(s)
    BY <1>19 DEF ArchInv
  <2> QED BY <1>1, <1>13, <1>14, <2>1 DEF ReadsBuried
<1>20. run'.step # "idle"
  BY <1>14
<1> QED BY <1>1, <1>13, <1>15, <1>17, <1>18, <1>19, <1>20 DEF ArchInv

LEMMA ArchWriteSnapshot ==
  ASSUME ArchInv, K!WriteSnapshot
  PROVE  ArchInv'
<1>1. /\ run.step = "snapshot" /\ disk' = [disk EXCEPT !.snapshot = run.chain]
      /\ run' = [run EXCEPT !.step = "manifest"]
      /\ UNCHANGED <<net, tips, deep, archived, cut>>
  BY DEF K!WriteSnapshot
<1>2. /\ disk \in [chunks : [K!Chunks -> Seq(Chain)], snapshot : Chain, manifest : Chain]
      /\ run \in [step : Steps, chain : Chain, base : Chain, target : Int,
                  servers : SUBSET ArchiveServers, next : Int]
      /\ run.chain \in Chain
  BY ArchFields DEF ArchInv, ArchTypes
<1>3. Running(disk, run) /\ run.next # Begun(run)
  <2>1. Running(disk, run)
    BY <1>1 DEF ArchInv
  <2>2. run.next = K!ChunkOf(Len(run.chain)) + 1
    BY <1>1, <2>1 DEF Running
  <2>3. /\ K!ChunkOf(Len(run.chain)) \in Nat /\ Begun(run) \in Nat
        /\ Begun(run) <= K!ChunkOf(Len(run.chain))
    BY <1>1, RunChunks
  <2> QED BY <2>1, <2>2, <2>3
<1>4. /\ disk' \in [chunks : [K!Chunks -> Seq(Chain)], snapshot : Chain, manifest : Chain]
      /\ disk'.chunks = disk.chunks /\ disk'.manifest = disk.manifest /\ disk'.snapshot = run.chain
  BY <1>1, <1>2
<1>5. /\ run' \in [step : Steps, chain : Chain, base : Chain, target : Int,
                   servers : SUBSET ArchiveServers, next : Int]
      /\ run'.step = "manifest" /\ run'.chain = run.chain /\ run'.base = run.base
      /\ run'.target = run.target /\ run'.next = run.next
  BY <1>1, <1>2 DEF Steps
<1>6. ArchTypes'
  BY <1>1, <1>4, <1>5 DEF ArchInv, ArchTypes
<1>7. \A h : Block(disk', h) = Block(disk, h)
  BY <1>4 DEF Block
<1>8. Running(disk', run')
  <2>1. run'.next # Begun(run')
    BY <1>3, <1>5 DEF Begun
  <2> QED BY <1>1, <1>3, <1>4, <1>5, <1>7, <2>1 DEF Running
<1>9. ASSUME NEW s, ArchiveServers = {s} PROVE ReadsBuried(s)'
  <2>1. ReadsBuried(s)
    BY <1>9 DEF ArchInv
  <2> QED BY <1>1, <1>4, <1>5, <2>1 DEF ReadsBuried
<1>10. \A h \in 1..Len(disk'.manifest) : Block(disk', h) = K!At(disk'.manifest, h)
  BY <1>4, <1>7 DEF ArchInv
<1> QED BY <1>1, <1>4, <1>5, <1>6, <1>8, <1>9, <1>10 DEF ArchInv

LEMMA ArchWriteManifest ==
  ASSUME ArchInv, K!WriteManifest
  PROVE  ArchInv'
<1> USE ArchiveNumbers
<1> DEFINE chain == run.chain
           top == Len(run.chain)
<1>1. /\ run.step = "manifest" /\ disk' = [disk EXCEPT !.manifest = chain]
      /\ archived' = archived \cup {chain}
      /\ run' = IF top < run.target /\ K!Loads'
                THEN [run EXCEPT !.step = "pull", !.base = chain, !.next = K!ChunkOf(top + 1)]
                ELSE K!Idle
      /\ UNCHANGED <<net, tips, deep, cut>>
  BY DEF K!WriteManifest
<1>2. /\ disk \in [chunks : [K!Chunks -> Seq(Chain)], snapshot : Chain, manifest : Chain]
      /\ run \in [step : Steps, chain : Chain, base : Chain, target : Int,
                  servers : SUBSET ArchiveServers, next : Int]
      /\ chain \in Chain /\ run.base \in Chain /\ Len(run.base) \in Nat /\ archived \subseteq Chain
      /\ top <= MaxHeight
  BY ArchFields DEF ArchInv, ArchTypes
<1>3. Running(disk, run)
  BY <1>1 DEF ArchInv
<1>4. /\ top \in Nat \ {0} /\ K!ChunkOf(top) \in Nat /\ run.next = K!ChunkOf(top) + 1
      /\ disk.snapshot = chain /\ run.base = disk.manifest /\ K!IsPrefix(disk.manifest, chain)
      /\ disk.manifest \in Chain
  BY <1>1, <1>2, <1>3, RunChunks DEF Running
<1>5. /\ disk' \in [chunks : [K!Chunks -> Seq(Chain)], snapshot : Chain, manifest : Chain]
      /\ disk'.chunks = disk.chunks /\ disk'.manifest = chain /\ disk'.snapshot = chain
  BY <1>1, <1>2, <1>4
<1>6. \A h : Block(disk', h) = Block(disk, h)
  BY <1>5 DEF Block
<1>7. \A h \in 1..top : Block(disk', h) = K!At(chain, h)
  <2> TAKE h \in 1..top
  <2>1. h \in Nat \ {0} /\ h <= top
    BY <1>4
  <2>2. CASE h <= Len(run.base)
    <3>1. h \in 1..Len(run.base) /\ h \in 0..Len(run.base)
      BY <1>2, <2>1, <2>2
    <3>2. Block(disk, h) = K!At(disk.manifest, h)
      BY <1>4, <3>1 DEF ArchInv
    <3>3. K!At(disk.manifest, h) = K!At(chain, h)
      BY <1>2, <1>4, <3>1, PrefixAt
    <3> QED BY <1>6, <3>2, <3>3
  <2>3. CASE Len(run.base) < h
    <3>1. K!ChunkOf(h) \in Nat /\ K!ChunkOf(h) <= K!ChunkOf(top)
      BY <1>4, <2>1, Slots, SlotOrder
    <3>2. K!ChunkOf(h) < run.next
      BY <1>4, <3>1
    <3>3. h \in 1..Len(run.chain)
      OBVIOUS
    <3>4. Block(disk, h) = K!At(run.chain, h)
      BY <1>3, <2>3, <3>2, <3>3 DEF Running
    <3> QED BY <1>6, <3>4
  <2> QED BY <1>2, <2>1, <2>2, <2>3
<1>8. ASSUME NEW i \in 0..K!ChunkOf(top) PROVE Len(disk'.chunks[i]) = Held(i, top)
  <2>1. i \in Nat /\ i < run.next
    BY <1>4
  <2> QED BY <1>3, <1>5, <2>1 DEF Running
<1>9. LoadsFrom(disk')
  <2>1. Len(disk'.manifest) # 0 /\ disk'.snapshot = disk'.manifest /\ disk'.manifest \in Chain
    BY <1>2, <1>4, <1>5
  <2>2. /\ \A i \in 0..K!ChunkOf(Len(disk'.manifest)) : Len(disk'.chunks[i]) = Held(i, Len(disk'.manifest))
        /\ \A h \in 1..Len(disk'.manifest) : Block(disk', h) = K!At(disk'.manifest, h)
    BY <1>5, <1>7, <1>8
  <2> QED BY <2>1, <2>2, ChainLoads
<1>10. \A t \in archived' : K!IsPrefix(t, disk'.manifest)
  <2> TAKE t \in archived'
  <2>1. CASE t = chain
    BY <1>2, <1>5, <2>1 DEF K!IsPrefix
  <2>2. CASE t \in archived
    <3>1. t \in Chain /\ K!IsPrefix(t, disk.manifest)
      BY <1>2, <2>2 DEF ArchInv
    <3> QED BY <1>2, <1>4, <1>5, <3>1, PrefixOfPrefix
  <2> QED BY <1>1, <2>1, <2>2
<1>11. archived' \subseteq Chain
  BY <1>1, <1>2
<1>12. CASE top < run.target
  <2>1. run' = [run EXCEPT !.step = "pull", !.base = chain, !.next = K!ChunkOf(top + 1)]
    BY <1>1, <1>9, <1>12, LoadsCopies
  <2>2. K!ChunkOf(top + 1) \in Nat /\ K!ChunkOf(top + 1) <= K!ChunkOf(top) + 1
    <3>1. top + 1 \in Nat \ {0}
      BY <1>4
    <3> QED BY <1>4, <3>1, Slots, SlotAfter
  <2>3. /\ run' \in [step : Steps, chain : Chain, base : Chain, target : Int,
                     servers : SUBSET ArchiveServers, next : Int]
        /\ run'.step = "pull" /\ run'.chain = chain /\ run'.base = chain
        /\ run'.target = run.target /\ run'.next = K!ChunkOf(top + 1)
    <3> DEFINE later == K!ChunkOf(top + 1)
    <3>1. later \in Int /\ "pull" \in Steps /\ chain \in Chain
      BY <1>2, <2>2 DEF Steps
    <3>2. run' = [run EXCEPT !.step = "pull", !.base = chain, !.next = later]
      BY <2>1
    <3> HIDE DEF later
    <3>3. run' \in [step : Steps, chain : Chain, base : Chain, target : Int,
                    servers : SUBSET ArchiveServers, next : Int]
      BY <1>2, <3>1, <3>2
    <3>4. /\ run'.step = "pull" /\ run'.chain = chain /\ run'.base = chain
          /\ run'.target = run.target /\ run'.next = later
      BY <1>2, <3>2
    <3> QED BY <3>3, <3>4 DEF later
  <2>4. ArchTypes'
    BY <1>1, <1>2, <1>5, <1>11, <2>3 DEF ArchInv, ArchTypes
  <2>5. Running(disk', run')
    <3>1. K!IsPrefix(chain, chain)
      BY <1>2 DEF K!IsPrefix
    <3>2. ASSUME NEW i \in Nat, i < run'.next PROVE Len(disk'.chunks[i]) = Held(i, Len(run'.chain))
      <4>1. i \in 0..K!ChunkOf(top)
        BY <1>4, <2>2, <2>3, <3>2
      <4> QED BY <1>8, <2>3, <4>1
    <3>3. \A h \in 1..Len(run'.chain) : ~(Len(run'.base) < h)
      BY <1>4, <2>3
    <3>4. run'.target > Len(run'.base)
      BY <1>2, <1>4, <1>12, <2>3
    <3>5. run'.base = disk'.manifest /\ K!IsPrefix(run'.base, run'.chain) /\ run'.next = Begun(run')
      BY <1>5, <2>3, <3>1 DEF Begun
    <3> QED BY <1>9, <2>3, <3>2, <3>3, <3>4, <3>5 DEF Running
  <2>6. ASSUME NEW s, ArchiveServers = {s} PROVE ReadsBuried(s)'
    <3>1. ReadsBuried(s)
      BY <2>6 DEF ArchInv
    <3> QED BY <1>1, <1>5, <2>3, <3>1 DEF ReadsBuried
  <2> QED BY <1>1, <1>5, <1>7, <1>10, <2>3, <2>4, <2>5, <2>6 DEF ArchInv
<1>13. CASE ~(top < run.target)
  <2>1. run' = K!Idle
    BY <1>1, <1>13
  <2>2. /\ run' \in [step : Steps, chain : Chain, base : Chain, target : Int,
                     servers : SUBSET ArchiveServers, next : Int]
        /\ run'.step = "idle" /\ run'.chain = <<>>
    BY <2>1, ChainLen DEF K!Idle, Steps
  <2>3. ArchTypes'
    <3>1. Len(run'.chain) <= MaxHeight /\ Len(disk'.manifest) <= MaxHeight
      BY <1>2, <1>5, <2>2, ChainLen
    <3> QED BY <1>1, <1>5, <1>11, <2>2, <3>1 DEF ArchInv, ArchTypes
  <2>4. ASSUME NEW s, ArchiveServers = {s} PROVE ReadsBuried(s)'
    <3>1. ReadsBuried(s)
      BY <2>4 DEF ArchInv
    <3> QED BY <1>1, <1>5, <2>2, <3>1 DEF ReadsBuried
  <2> QED BY <1>1, <1>5, <1>7, <1>9, <1>10, <2>2, <2>3, <2>4 DEF ArchInv
<1> QED BY <1>12, <1>13

LEMMA ArchDies ==
  ASSUME ArchInv, K!Dies
  PROVE  ArchInv'
<1>1. /\ run.step # "idle" /\ run' = K!Idle
      /\ cut' = cut + (IF run.next # Begun(run) THEN 1 ELSE 0)
      /\ UNCHANGED <<net, tips, deep, disk, archived>>
  BY DEF K!Dies, Begun
<1>2. /\ run' \in [step : Steps, chain : Chain, base : Chain, target : Int,
                   servers : SUBSET ArchiveServers, next : Int]
      /\ run'.step = "idle" /\ run'.chain = <<>>
  BY <1>1, ChainLen DEF K!Idle, Steps
<1>3. cut \in Nat
  BY DEF ArchInv, ArchTypes
<1>4. ArchTypes'
  <2>1. cut' \in Nat
    BY <1>1, <1>3
  <2> QED BY <1>1, <1>2, <2>1, ChainLen, ArchiveNumbers DEF ArchInv, ArchTypes
<1>5. cut' = 0 => LoadsFrom(disk')
  <2>1. cut' = 0 => run.next = Begun(run)
    BY <1>1, <1>3
  <2> QED BY <1>1, <2>1 DEF ArchInv, Running
<1>6. ASSUME NEW s, ArchiveServers = {s} PROVE ReadsBuried(s)'
  <2>1. ReadsBuried(s)
    BY <1>6 DEF ArchInv
  <2> QED BY <1>1, <1>2, <2>1 DEF ReadsBuried
<1> QED BY <1>1, <1>2, <1>4, <1>5, <1>6 DEF ArchInv

LEMMA ArchNext ==
  ASSUME ArchInv, K!Next
  PROVE  ArchInv'
<1>1. CASE K!Grow \/ (\E k \in 1..MaxHeight : K!Reorg(k)) \/ K!Dies
  BY <1>1, ArchGrow, ArchReorg, ArchDies
<1>2. CASE \E s \in ArchiveServers : K!Follow(s) \/ K!Pull(s)
  BY <1>2, ArchFollow, ArchPull
<1>3. CASE \E R \in SUBSET ArchiveServers : K!Start(R)
  BY <1>3, ArchRun
<1>4. CASE K!WriteChunk \/ K!WriteSnapshot \/ K!WriteManifest
  BY <1>4, ArchWriteChunk, ArchWriteSnapshot, ArchWriteManifest
<1> QED BY <1>1, <1>2, <1>3, <1>4 DEF K!Next

(* What the servers and the archiver put aside survives whatever dies      *)
(* while they do: a backup as young as promised is there, and the archive  *)
(* holds the one chain its manifests name (server/api.ts,                  *)
(* server/tools/archive.ts).                                               *)
THEOREM CopiesAreKept == MCSpec => []CopiesKept
<1> DEFINE Inv == (part = "backups" => BackupInv) /\ (part = "archive" => ArchInv)
<1>1. MCInit => Inv
  BY BackupsStart, ArchStart DEF MCInit
<1>2. Inv /\ [MCNext]_allVars => Inv'
  <2> SUFFICES ASSUME Inv, [MCNext]_allVars PROVE Inv'
    OBVIOUS
  <2>1. ASSUME part' = "backups" PROVE BackupInv'
    BY <2>1, CopiesPart, BackupsStep, BackupsStay
  <2>2. ASSUME part' = "archive" PROVE ArchInv'
    BY <2>2, CopiesPart, ArchNext, ArchStay
  <2> QED BY <2>1, <2>2
<1>3. Inv => CopiesKept
  BY BackupInvSound, ArchInvSound DEF CopiesKept
<1> QED BY <1>1, <1>2, <1>3, PTL DEF MCSpec

-----------------------------------------------------------------------------
(* Retargeting.                                                            *)

LEMMA OfTwo ==
  ASSUME NEW i \in Int, NEW j \in Int
  PROVE  /\ Max({i, j}) = IF i >= j THEN i ELSE j
         /\ Min({i, j}) = IF i <= j THEN i ELSE j
<1>1. \A k \in {i, j} : (\A m \in {i, j} : k >= m) => k = IF i >= j THEN i ELSE j
  OBVIOUS
<1>2. \E k \in {i, j} : \A m \in {i, j} : k >= m
  OBVIOUS
<1>3. \A k \in {i, j} : (\A m \in {i, j} : k <= m) => k = IF i <= j THEN i ELSE j
  OBVIOUS
<1>4. \E k \in {i, j} : \A m \in {i, j} : k <= m
  OBVIOUS
<1>5. Max({i, j}) = IF i >= j THEN i ELSE j
  BY <1>1, <1>2 DEF Max
<1>6. Min({i, j}) = IF i <= j THEN i ELSE j
  BY <1>3, <1>4 DEF Min
<1> QED BY <1>5, <1>6

(* asertTarget follows the time since the anchor, no faster than it.       *)
LEMMA AsertFollows ==
  ASSUME NEW a \in Int, NEW d \in Int, NEW e \in Int, NEW k \in Nat, e >= d - k
  PROVE  /\ Asert(a, d) \in 0..Floor
         /\ Asert(a, e) >= Asert(a, d) - k
         /\ a \in 0..Floor => Asert(a, 0) = a
<1> USE DifficultyConstants
<1>1. \A x \in Int : Asert(a, x) = IF a + x < 0 THEN 0 ELSE IF a + x > Floor THEN Floor ELSE a + x
  <2> TAKE x \in Int
  <2> DEFINE y == a + x
  <2>0. y \in Int /\ Floor \in Int
    OBVIOUS
  <2> HIDE DEF y
  <2>1. Min({Floor, y}) = IF Floor <= y THEN Floor ELSE y
    BY <2>0, OfTwo
  <2>2. Min({Floor, y}) \in Int
    BY <2>0, <2>1
  <2>3. Max({0, Min({Floor, y})}) = IF 0 >= Min({Floor, y}) THEN 0 ELSE Min({Floor, y})
    BY <2>2, OfTwo
  <2>4. Asert(a, x) = IF y < 0 THEN 0 ELSE IF y > Floor THEN Floor ELSE y
    BY <2>0, <2>1, <2>2, <2>3 DEF Asert, y
  <2> QED BY <2>4 DEF y
<1> QED BY <1>1

LEMMA ClampBounds ==
  ASSUME NEW t \in 0..Floor
  PROVE  Clamp(t) \in 0..Floor
<1> USE DifficultyConstants
<1> DEFINE low == ResetTarget - 2 * HalfLife
           high == ResetTarget + 2 * HalfLife
<1>1. low \in Int /\ high \in Int /\ low <= Floor /\ high >= 0
  OBVIOUS
<1> HIDE DEF low, high
<1>2. Min({high, t}) = IF high <= t THEN high ELSE t
  BY <1>1, OfTwo
<1>3. Min({high, t}) \in 0..Floor
  BY <1>1, <1>2
<1>4. Max({low, Min({high, t})}) = IF low >= Min({high, t}) THEN low ELSE Min({high, t})
  BY <1>1, <1>3, OfTwo
<1>5. Max({low, Min({high, t})}) \in 0..Floor
  BY <1>1, <1>3, <1>4
<1> QED BY <1>5 DEF Clamp, low, high

RetargetInv ==
  /\ height \in 0..(Anchor2 + 1) /\ drift \in Int /\ gap \in Nat /\ target \in 0..Floor
  /\ rate \in Rates /\ anchor.drift \in Int /\ anchor.target \in Int
  /\ height = Anchor2 => anchor.drift = drift /\ anchor.target = target
  /\ height > Anchor2 /\ ~dropped =>
       target = Asert(anchor.target, (drift - gap + Pace) - anchor.drift)

LEMMA DropBounds ==
  ASSUME RetargetInv
  PROVE  Min({Floor, target + HalfLife}) \in target..Floor
<1> USE DifficultyConstants
<1>1. target \in 0..Floor /\ target + HalfLife \in Int /\ Floor \in Int
  BY DEF RetargetInv
<1>2. Min({Floor, target + HalfLife}) = IF Floor <= target + HalfLife THEN Floor ELSE target + HalfLife
  BY <1>1, OfTwo
<1> QED BY <1>1, <1>2

LEMMA TargetBounds ==
  ASSUME RetargetInv, NEW g
  PROVE  nextDifficulty(g) \in 0..Floor
<1> USE DifficultyConstants
<1>1. Min({Floor, target + HalfLife}) \in 0..Floor
  BY DropBounds DEF RetargetInv
<1>2. AsertFromAnchor \in 0..Floor
  <2>1. anchor.target \in Int /\ drift - anchor.drift \in Int
    BY DEF RetargetInv
  <2>2. \A d \in Int : Asert(anchor.target, d) \in 0..Floor
    BY <2>1, AsertFollows
  <2> QED BY <2>1, <2>2 DEF AsertFromAnchor
<1>3. Asert(ResetTarget, drift - Estimate) \in 0..Floor /\ Asert(Floor, drift) \in 0..Floor
  <2>1. drift \in Int /\ drift - Estimate \in Int /\ ResetTarget \in Int /\ Floor \in Int
    BY DEF RetargetInv
  <2>2. Asert(ResetTarget, drift - Estimate) \in 0..Floor
    <3>1. \A d \in Int : Asert(ResetTarget, d) \in 0..Floor
      BY <2>1, AsertFollows
    <3> QED BY <2>1, <3>1
  <2>3. \A d \in Int : Asert(Floor, d) \in 0..Floor
    BY <2>1, AsertFollows
  <2> QED BY <2>1, <2>2, <2>3
<1>4. Clamp(Asert(ResetTarget, drift - Estimate)) \in 0..Floor
  BY <1>3, ClampBounds
<1>5. ResetTarget \in 0..Floor
  OBVIOUS
<1> QED BY <1>1, <1>2, <1>3, <1>4, <1>5 DEF nextDifficulty

(* A block takes some time, and none less than no time.                    *)
LEMMA TakesTime ==
  ASSUME NEW t \in Int, rate \in Int
  PROVE  Takes(t) \in Nat
<1> USE DifficultyConstants
<1> DEFINE late == (Need - t - rate) \div HalfLife
<1>1. late \in Int
  OBVIOUS
<1> HIDE DEF late
<1>2. Pace \div 2 \in Nat
  OBVIOUS
<1>3. ASSUME ~(late < 0) PROVE Pace * <<1, 2, 4, 8, 16, 32>>[Min({late, 5}) + 1] \in Nat
  <2>1. Min({late, 5}) = IF late <= 5 THEN late ELSE 5
    BY <1>1, OfTwo
  <2>2. Min({late, 5}) + 1 \in 1..6
    BY <1>1, <1>3, <2>1
  <2>3. \A k \in 1..6 : <<1, 2, 4, 8, 16, 32>>[k] \in Nat
    OBVIOUS
  <2>4. <<1, 2, 4, 8, 16, 32>>[Min({late, 5}) + 1] \in Nat
    BY <2>2, <2>3
  <2> QED BY <2>4
<1> QED BY <1>2, <1>3 DEF Takes, late

LEMMA FoundLater ==
  ASSUME RetargetInv
  PROVE  Found \in Nat
<1> USE DifficultyConstants
<1> DEFINE soon == Takes(nextDifficulty(0))
           late == Takes(nextDifficulty(soon))
<1>1. rate \in Int
  BY DEF RetargetInv
<1>2. soon \in Nat
  <2>1. nextDifficulty(0) \in Int
    BY TargetBounds
  <2> QED BY <1>1, <2>1, TakesTime
<1>3. late \in Nat
  <2> HIDE DEF soon
  <2>1. nextDifficulty(soon) \in Int
    BY TargetBounds
  <2> QED BY <1>1, <2>1, TakesTime
<1> HIDE DEF soon, late
<1>4. Mult * Pace + 1 \in Nat
  OBVIOUS
<1>5. Max({Mult * Pace + 1, late}) \in Nat
  <2>1. Max({Mult * Pace + 1, late}) = IF Mult * Pace + 1 >= late THEN Mult * Pace + 1 ELSE late
    BY <1>3, <1>4, OfTwo
  <2> QED BY <1>3, <1>4, <2>1
<1> QED BY <1>2, <1>5 DEF Found, soon, late

LEMMA RetargetMine ==
  ASSUME RetargetInv, Mine
  PROVE  /\ RetargetInv'
         /\ (height >= Anchor2 /\ height' > Anchor2 /\ ~dropped) => target' >= target - Pace
<1> USE DifficultyConstants
<1> DEFINE found == Found
<1>1. /\ gap' = found /\ target' = nextDifficulty(found) /\ dropped' = EmergencyDrop(found)
      /\ drift' = drift + found - Pace /\ height' = Min({height + 1, Anchor2 + 1})
      /\ anchor' = IF height' = Anchor2 THEN [drift |-> drift', target |-> target'] ELSE anchor
      /\ rate' = rate
  BY DEF Mine
<1>2. found \in Nat /\ target' \in 0..Floor
  BY <1>1, FoundLater, TargetBounds
<1> HIDE DEF found
<1>3. /\ height \in 0..(Anchor2 + 1) /\ drift \in Int /\ gap \in Nat /\ target \in 0..Floor
      /\ anchor.drift \in Int /\ anchor.target \in Int
  BY DEF RetargetInv
<1>4. height' = IF height >= Anchor2 THEN Anchor2 + 1 ELSE height + 1
  <2>1. Min({height + 1, Anchor2 + 1}) = IF height + 1 <= Anchor2 + 1 THEN height + 1 ELSE Anchor2 + 1
    <3>1. height + 1 \in Int /\ Anchor2 + 1 \in Int
      BY <1>3
    <3> QED BY <3>1, OfTwo
  <2> QED BY <1>1, <1>3, <2>1
<1>5. drift' \in Int /\ (drift' - gap') + Pace = drift
  BY <1>1, <1>2, <1>3
<1>6. ASSUME height >= Anchor2
      PROVE  /\ anchor' = anchor
             /\ ~dropped' => target' = Asert(anchor.target, drift - anchor.drift)
             /\ dropped' => target' >= target
  <2>1. ~Reset /\ anchor' = anchor
    BY <1>1, <1>3, <1>4, <1>6 DEF Reset
  <2>2. CASE Slow(found)
    <3>1. target' = Min({Floor, target + HalfLife}) /\ dropped'
      BY <1>1, <2>1, <2>2 DEF nextDifficulty, EmergencyDrop
    <3> QED BY <1>3, <2>1, <3>1, DropBounds
  <2>3. CASE ~Slow(found)
    BY <1>1, <1>6, <2>1, <2>3 DEF nextDifficulty, EmergencyDrop, AsertFromAnchor
  <2> QED BY <2>2, <2>3
<1>7. RetargetInv'
  <2>1. CASE height >= Anchor2
    <3>1. height' = Anchor2 + 1 /\ anchor' = anchor
      BY <1>4, <1>6, <2>1
    <3>2. ~dropped' => target' = Asert(anchor'.target, (drift' - gap' + Pace) - anchor'.drift)
      BY <1>5, <1>6, <2>1, <3>1
    <3>3. gap' \in Nat /\ rate' \in Rates
      BY <1>1, <1>2 DEF RetargetInv
    <3> QED BY <1>2, <1>3, <1>5, <3>1, <3>2, <3>3 DEF RetargetInv, Asert
  <2>2. CASE height < Anchor2
    <3>1. height' = height + 1 /\ height' <= Anchor2 /\ height' \in 0..(Anchor2 + 1)
      BY <1>3, <1>4, <2>2
    <3>2. gap' \in Nat /\ rate' \in Rates /\ ~(height' > Anchor2)
      BY <1>1, <1>2, <1>3, <3>1 DEF RetargetInv
    <3>3. CASE height' = Anchor2
      <4>1. anchor'.drift = drift' /\ anchor'.target = target'
        BY <1>1, <3>3
      <4> QED BY <1>2, <1>5, <3>1, <3>2, <4>1 DEF RetargetInv
    <3>4. CASE height' # Anchor2
      <4>1. anchor' = anchor
        BY <1>1, <3>4
      <4> QED BY <1>2, <1>3, <1>5, <3>1, <3>2, <3>4, <4>1 DEF RetargetInv
    <3> QED BY <3>3, <3>4
  <2> QED BY <1>3, <2>1, <2>2
<1>8. ASSUME height >= Anchor2, ~dropped PROVE target' >= target - Pace
  <2>1. CASE dropped'
    BY <1>2, <1>3, <1>6, <1>8, <2>1
  <2>2. CASE ~dropped' /\ height = Anchor2
    <3>1. target' = Asert(target, 0)
      BY <1>3, <1>6, <1>8, <2>2 DEF RetargetInv
    <3>2. Asert(target, 0) = target
      BY <1>3, AsertFollows
    <3> QED BY <1>3, <3>1, <3>2
  <2>3. CASE ~dropped' /\ height > Anchor2
    <3> DEFINE a == anchor.target
               d == (drift - gap + Pace) - anchor.drift
               e == drift - anchor.drift
    <3>1. target = Asert(a, d) /\ target' = Asert(a, e)
      BY <1>6, <1>8, <2>3 DEF RetargetInv
    <3>2. a \in Int /\ d \in Int /\ e \in Int /\ e >= d - Pace
      BY <1>3
    <3> HIDE DEF a, d, e
    <3>3. Asert(a, e) >= Asert(a, d) - Pace
      BY <3>2, AsertFollows
    <3> QED BY <3>1, <3>3
  <2> QED BY <1>3, <1>8, <2>1, <2>2, <2>3
<1> QED BY <1>7, <1>8

LEMMA RetargetPart ==
  ASSUME [MCNext]_allVars
  PROVE  Mine \/ RateChanges \/ UNCHANGED vars
<1>1. CASE MCNext
  BY <1>1 DEF MCNext, RetargetStep, MinerStep, DeliveryStep, Next, difficultyVars
<1>2. CASE UNCHANGED allVars
  BY <1>2 DEF allVars, difficultyVars
<1> QED BY <1>1, <1>2

(* Above fork #3's anchor a block asks at most one early block's worth     *)
(* more than the one before it, unless that one was an emergency drop, for *)
(* every drift the frozen rules left and any hash rates (consensus.ts).    *)
THEOREM NoCliffAhead == MCSpec => NoCliff
<1> DEFINE Cliff == (height >= Anchor2 /\ height' > Anchor2 /\ ~dropped) => target' >= target - Pace
<1>1. MCInit => RetargetInv
  <2> SUFFICES ASSUME MCInit PROVE RetargetInv
    OBVIOUS
  <2>1. Init
    BY DEF MCInit, DifficultyOff, EarlyOff
  <2> QED BY <2>1, DifficultyConstants DEF Init, RetargetInv
<1>2. RetargetInv /\ [MCNext]_allVars => RetargetInv'
  <2> SUFFICES ASSUME RetargetInv, [MCNext]_allVars PROVE RetargetInv'
    OBVIOUS
  <2>1. CASE Mine
    BY <2>1, RetargetMine
  <2>2. CASE RateChanges \/ UNCHANGED vars
    BY <2>2 DEF RateChanges, vars, RetargetInv, Asert
  <2> QED BY <2>1, <2>2, RetargetPart
<1>3. RetargetInv /\ [MCNext]_allVars => [Cliff]_vars
  <2> SUFFICES ASSUME RetargetInv, [MCNext]_allVars PROVE [Cliff]_vars
    OBVIOUS
  <2>1. CASE Mine
    BY <2>1, RetargetMine
  <2>2. CASE RateChanges
    BY <2>2, DifficultyConstants DEF RateChanges, RetargetInv
  <2>3. CASE UNCHANGED vars
    BY <2>3
  <2> QED BY <2>1, <2>2, <2>3, RetargetPart
<1> QED BY <1>1, <1>2, <1>3, PTL DEF MCSpec, NoCliff
=============================================================================
