------------------------------ MODULE Mempool ------------------------------
(***************************************************************************)
(* The pool of pending transactions (src/chain/mempool.ts) kept in step    *)
(* with the canonical chain by the node's tip handler (src/node.ts) and    *)
(* drawn on by the miner's template (src/miner/controller.ts).  The        *)
(* canonical chain is a sequence of blocks, the genesis first, each with   *)
(* the state after it; the block tree itself is Blockchain.tla.            *)
(***************************************************************************)
EXTENDS Ledger

CONSTANTS
    Tx,             \* the transactions anyone may send
    MinFee,         \* MIN_FEE_PER_BYTE
    MaxPool,        \* MAX_MEMPOOL_TXS
    MaxAhead,       \* how far a nonce may run ahead of the account's (16)
    GraceAge,       \* UNMINABLE_GRACE_MS, in ticks
    TtlAge,         \* MEMPOOL_TX_TTL_MS, in ticks
    Capacity,       \* transactions that fit in a block
    Me,             \* this node's miner address
    Others,         \* the addresses the rest of the network mines to
    Founders,       \* who mined the empty blocks every behaviour starts from
    MaxHeight,      \* bound: the chain grows no higher
    MaxReorg        \* bound: blocks a reorg displaces

\* Transactions are well formed (transaction.ts), and an id is a hash.
WellFormedTx(tx) ==
    /\ tx.kind \in {"transfer", "lock", "redeem"}
    /\ tx.amount \in Nat /\ tx.fee \in Nat /\ tx.nonce \in Nat /\ tx.script \in Nat
    /\ Debits(tx) => tx.from \in Addr
    /\ tx.kind # "lock" => tx.to \in Addr

ASSUME MempoolAssumption ==
    /\ \A tx \in Tx : WellFormedTx(tx)
    /\ \A t, u \in Tx : t.id = u.id => t = u
    /\ MaxPool \in Nat \ {0} /\ MaxAhead \in Nat /\ Capacity \in Nat
    /\ GraceAge \in Nat \ {0} /\ TtlAge \in Nat /\ GraceAge <= TtlAge
    /\ Me \in Addr /\ Others \subseteq Addr /\ Founders \in Seq(Addr)
    /\ MaxHeight \in Nat /\ MaxReorg \in Nat /\ Len(Founders) <= MaxHeight

VARIABLES
    chain,      \* the canonical chain: blocks [txs, post], chain[1] the genesis
    pool        \* Mempool.entries: records [tx, age], age in ticks up to TtlAge

vars == <<chain, pool>>

TipState == chain[Len(chain)].post
Height == Len(chain) - 1

Extend(c, miner, txs) ==
    LET applied == ApplyBlockTxs(c[Len(c)].post, Len(c), miner, txs)
    IN  Append(c, [txs |-> txs, post |-> applied.state])

Block0 == [txs |-> << >>, post |-> EmptyState]

Init ==
    /\ chain = FoldLeft(LAMBDA c, m : Extend(c, m, << >>), <<Block0>>, Founders)
    /\ pool = {}

Fresh(tx) == [tx |-> tx, age |-> 0]
Txs(entries) == {e.tx : e \in entries}

-----------------------------------------------------------------------------
(* Admission. *)

\* Two transactions of which only one can ever be mined.
SameSlot(t, u) ==
    \/ /\ Debits(t) /\ Debits(u)
       /\ t.from = u.from /\ t.nonce = u.nonce
    \/ /\ ~Debits(t) /\ ~Debits(u)
       /\ t.lock = u.lock

\* What add and addRedeem check against the tip's state.
Admissible(tx, s) ==
    /\ tx.fee >= MinFee
    /\ Debits(tx) => /\ s.balance[tx.from] >= Cost(tx)
                     /\ tx.nonce >= s.nonce[tx.from]
                     /\ tx.nonce <= s.nonce[tx.from] + MaxAhead
    /\ ~Debits(tx) => \E l \in s.locks : Opens(tx, l)

Cheapest(entries) == {e \in entries : \A f \in entries : e.tx.fee <= f.tx.fee}

HasRoomOneMore(entries) == Cardinality(entries) <= MaxPool  \* for a mutant
HasRoom(entries) == Cardinality(entries) < MaxPool

WithoutNone(entries, rivals) == entries                     \* for a mutant
Without(entries, rivals) == entries \ rivals

(***************************************************************************)
(* add: the pools that may result.  A transaction out-bids the one in its  *)
(* slot or is refused; a full pool gives up a cheapest entry (the first of *)
(* several in insertion order, which is not kept here) or refuses it.      *)
(***************************************************************************)
Add(entries, tx, s) ==
    LET rivals == {e \in entries : SameSlot(e.tx, tx)}
        rest == Without(entries, rivals)
    IN  IF tx \in Txs(entries) \/ ~Admissible(tx, s) \/ \E r \in rivals : tx.fee <= r.tx.fee
        THEN {entries}
        ELSE IF HasRoom(rest) THEN {rest \union {Fresh(tx)}}
        ELSE IF \E e \in Cheapest(rest) : e.tx.fee >= tx.fee THEN {rest}
        ELSE {(rest \ {worst}) \union {Fresh(tx)} : worst \in Cheapest(rest)}

AddAll(entries, txs, s) ==
    FoldLeft(LAMBDA pools, tx : UNION {Add(p, tx, s) : p \in pools}, {entries}, txs)

-----------------------------------------------------------------------------
(* Minability, eviction and selection. *)

Pending(entries, a) == {e \in entries : Debits(e.tx) /\ e.tx.from = a}

\* mineablePrefix: sorted by nonce, the entries before the first that does
\* not continue the account's nonces or that its balance does not cover.
MineablePrefix(entries, a, s) ==
    LET mine == Pending(entries, a)
        upTo(e) == {f \in mine : f.tx.nonce <= e.tx.nonce}
    IN  {e \in mine :
            /\ {f.tx.nonce : f \in upTo(e)} = s.nonce[a] .. e.tx.nonce
            /\ MapThenSumSet(LAMBDA f : Cost(f.tx), upTo(e)) <= s.balance[a]}

Mineable(entries, s) == UNION {MineablePrefix(entries, a, s) : a \in Addr}

Consumed(e, s) == Debits(e.tx) /\ e.tx.nonce < s.nonce[e.tx.from]

Unminable(entries, s) ==
    ({e \in entries : Debits(e.tx)} \ Mineable(entries, s))
        \union {e \in entries : ~Debits(e.tx) /\ \A l \in s.locks : l.id # e.tx.lock}

PruneUnminable(entries, s) ==
    {e \in entries :
        /\ e \in Unminable(entries, s) => ~Consumed(e, s) /\ e.age < GraceAge
        /\ e.age < TtlAge}

\* selectForBlock's candidates: before the scripts are active, no redeem, and
\* nothing of a sender from his first Lock on.
Eligible(entries, s, height) ==
    IF ScriptsActive(height)
    THEN Mineable(entries, s) \union
         {e \in entries : /\ ~Debits(e.tx)
                          /\ ScriptAccepts(e.tx, height)
                          /\ \E l \in s.locks : Opens(e.tx, l)}
    ELSE {e \in Mineable(entries, s) :
            \A f \in Mineable(entries, s) :
                f.tx.kind = "lock" /\ f.tx.from = e.tx.from => e.tx.nonce < f.tx.nonce}

\* Highest fee per byte first, lower nonces first among equal fees.
Before(t, u) == t.fee > u.fee \/ (t.fee = u.fee /\ t.nonce < u.nonce)

Firsts(txs, n) == SubSeq(txs, 1, IF Len(txs) < n THEN Len(txs) ELSE n)

Sorted(txs) == \A i, j \in DOMAIN txs : i < j => ~Before(txs[j], txs[i])

\* The selections: equals come in the order of their arrival, which is any.
SelectForBlock(entries, s, height) ==
    {Firsts(txs, Capacity) : txs \in
        {q \in SetToSeqs(Txs(Eligible(entries, s, height))) : Sorted(q)}}

\* restartTemplate: a selection, or an empty block should it not apply.
Templates(entries, s, height) ==
    {IF ApplyBlockTxs(s, height, Me, txs).ok THEN txs ELSE << >> :
        txs \in SelectForBlock(entries, s, height)}

-----------------------------------------------------------------------------
(* The node. *)

\* send, submit, and transactions from peers and servers.
AddTx ==
    \E tx \in Tx : \E p \in Add(pool, tx, TipState) :
        /\ pool' = p
        /\ UNCHANGED chain

\* The transactions of the blocks above a height, from the tip down.
TxsAbove(c, height) ==
    FoldLeft(LAMBDA txs, i : txs \o c[Len(c) + 1 - i].txs, << >>,
             [i \in 1 .. Len(c) - 1 - height |-> i])

(***************************************************************************)
(* The onTipChanged handler: put the displaced transactions back, drop the *)
(* confirmed ones, prune.  fork is the height of the last common block.    *)
(***************************************************************************)
ReconcileWithOldTip(fork, old, new) ==      \* for a mutant: re-validates against the old tip
    {PruneUnminable({e \in p : e.tx \notin ToSet(TxsAbove(new, fork))}, new[Len(new)].post) :
        p \in AddAll(pool, TxsAbove(old, fork), old[Len(old)].post)}

Reconcile(fork, old, new) ==
    {PruneUnminable({e \in p : e.tx \notin ToSet(TxsAbove(new, fork))}, new[Len(new)].post) :
        p \in AddAll(pool, TxsAbove(old, fork), new[Len(new)].post)}

OnTipChanged(fork, new) ==
    /\ chain' = new
    /\ pool' \in Reconcile(fork, chain, new)

\* This node's own block: the template.
MineOwn ==
    /\ Height < MaxHeight
    /\ \E txs \in Templates(pool, TipState, Len(chain)) :
          OnTipChanged(Height, Extend(chain, Me, txs))

\* The chains one valid block longer than c: empty or of one transaction, in
\* the pool or not; and those n blocks longer.
OneLonger(c) ==
    {Extend(c, m, txs) : m \in Others, txs \in
        {<< >>} \union {<<tx>> : tx \in {t \in Tx : Applies(c[Len(c)].post, t, Len(c))}}}

Extensions(c, n) ==
    FoldLeft(LAMBDA cs, i : UNION {OneLonger(d) : d \in cs}, {c}, [i \in 1 .. n |-> i])

\* A branch of the network's becomes the heavier one: it extends the chain,
\* or displaces up to MaxReorg of its blocks by one block more.
NetworkBranch ==
    \E displaced \in 0 .. MaxReorg :
        /\ Height - displaced >= Len(Founders)
        /\ Height + 1 <= MaxHeight
        /\ \E new \in Extensions(SubSeq(chain, 1, Len(chain) - displaced), displaced + 1) :
              OnTipChanged(Height - displaced, new)

Tick ==
    /\ pool' = {[e EXCEPT !.age = IF @ < TtlAge THEN @ + 1 ELSE @] : e \in pool}
    /\ UNCHANGED chain

Next == AddTx \/ MineOwn \/ NetworkBranch \/ Tick

Spec == Init /\ [][Next]_vars

-----------------------------------------------------------------------------
(* Properties. *)

\* The pool holds no more than its limit, and no account is overdrawn.
TypeOK ==
    /\ pool \subseteq [tx : Tx, age : 0 .. TtlAge]
    /\ Cardinality(pool) <= MaxPool
    /\ Height \in 0 .. MaxHeight
    /\ \A a \in Addr : TipState.balance[a] \in Nat /\ TipState.nonce[a] \in Nat

\* Of the transactions that exclude one another on the chain, the pool holds
\* one, over replacement by fee, eviction and the return of displaced ones.
OnePerSlot == \A e, f \in pool : SameSlot(e.tx, f.tx) => e = f

\* No pending transaction is one the chain has confirmed, or carries a nonce
\* the chain has consumed by another, after any tip change.
NothingConsumed ==
    \A e \in pool :
        /\ ~Consumed(e, TipState)
        /\ \A i \in DOMAIN chain : e.tx \notin ToSet(chain[i].txs)

\* What the pool holds can still be mined on the tip, one per slot.
PoolFollowsChain == OnePerSlot /\ NothingConsumed

\* Coins are made by block rewards alone: fees move, locks hold, redeems pay
\* out what was locked, in every block of the chain.
SupplyConserved ==
    \A i \in DOMAIN chain :
        Supply(chain[i].post) = MapThenSumSet(BlockReward, 1 .. i - 1)

\* The transactions a tip change puts back, and those it confirms.
Common == CHOOSE i \in DOMAIN chain :
    /\ SubSeq(chain, 1, i) = SubSeq(chain', 1, i)
    /\ (i = Len(chain) \/ chain[i + 1] # chain'[i + 1])
RestoredTxs == ToSet(TxsAbove(chain, Common - 1))
ConfirmedTxs == ToSet(TxsAbove(chain', Common - 1))

\* A tip change drops a transaction younger than the grace only because it is
\* confirmed, its nonce is gone, or a returning transaction out-bids it: one
\* that waits for a predecessor still on its way is kept.
GraceHonoured ==
    [][chain' # chain =>
        \A e \in pool :
            e.age < GraceAge /\ e \notin pool' =>
                \/ e.tx \in ConfirmedTxs
                \/ Consumed(e, TipState')
                \/ \E t \in RestoredTxs : t.fee > e.tx.fee]_vars

\* A reorg loses no displaced transaction that the new tip still admits:
\* unless the new branch confirmed it, a better one holds its slot or the pool
\* may have been full, it is pending again.
DisplacedReturn ==
    [][chain' # chain =>
        \A t \in RestoredTxs \ ConfirmedTxs :
            Admissible(t, TipState') =>
                \/ t \in Txs(pool')
                \/ \E e \in pool : SameSlot(e.tx, t) /\ e.tx.fee >= t.fee
                \/ Cardinality(pool) + Cardinality(RestoredTxs) > MaxPool]_vars

\* No tip change loses a transaction that still has a chance
\* (reconcileTipChange).
TipChangeKeeps == GraceHonoured /\ DisplacedReturn

-----------------------------------------------------------------------------
(* What comments of the source say, and the code does not keep. *)

\* A selected set always applies, so the fallback to an empty block is never
\* taken (src/miner/controller.ts:590, src/chain/mempool.ts:180).
SelectionApplies ==
    \A txs \in SelectForBlock(pool, TipState, Len(chain)) :
        ApplyBlockTxs(TipState, Len(chain), Me, txs).ok

\* Only a transaction that cannot be mined is evicted before its time: one
\* that continues its account's nonces and is funded at the new tip stays
\* (src/chain/mempool.ts:203).
MineableKept ==
    [][chain' # chain /\ RestoredTxs = {} =>
        \A e \in pool :
            /\ Debits(e.tx) /\ e.age < TtlAge
            /\ e.tx.nonce = TipState'.nonce[e.tx.from]
            /\ TipState'.balance[e.tx.from] >= Cost(e.tx)
            => e \in pool']_vars

=============================================================================
