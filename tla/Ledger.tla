------------------------------- MODULE Ledger -------------------------------
(***************************************************************************)
(* The account-and-lock ledger of src/chain/state.ts, as operators on      *)
(* states.  A state is a record                                            *)
(*   balance, nonce   an entry per address (an absent account is 0, 0)     *)
(*   locks            the live script locks                                *)
(* and a transaction a record                                              *)
(*   id, kind         its hash; "transfer", "lock" or "redeem"             *)
(*   from, nonce      who is debited and the sequence number (not redeems) *)
(*   to, amount, fee  as in the code; every transaction has the same size, *)
(*                    so its fee is its fee per byte                       *)
(*   lock             a redeem's lock id, the hash of a Lock               *)
(*   script           the script, reduced to the height from which it      *)
(*                    accepts (a CHECKLOCKTIMEVERIFY); the lock's script   *)
(*                    hash is the script itself                            *)
(* Signatures and structure are checked elsewhere: the transactions here   *)
(* are well formed.                                                        *)
(***************************************************************************)
EXTENDS Integers, Sequences, FiniteSets, FiniteSetsExt, SequencesExt

CONSTANTS
    Addr,               \* addresses
    InitialReward,      \* the block reward before the first halving
    HalvingInterval,    \* heights between two halvings
    ScriptHeight        \* the first height at which scripts are active

ASSUME LedgerConstants ==
    /\ IsFiniteSet(Addr)
    /\ InitialReward \in Nat /\ HalvingInterval \in Nat \ {0} /\ ScriptHeight \in Nat

EmptyState == [balance |-> [a \in Addr |-> 0], nonce |-> [a \in Addr |-> 0], locks |-> {}]

\* blockReward: shifted right by one for each halving; after 64 there is none.
BlockReward(height) ==
    LET halvings == height \div HalvingInterval
    IN  IF halvings >= 64 THEN 0
        ELSE FoldLeft(LAMBDA reward, i : reward \div 2, InitialReward, [i \in 1 .. halvings |-> i])

\* The fork is active from a median time on, and median times grow with height.
ScriptsActive(height) == height >= ScriptHeight

\* Transfers and Locks debit an account; Redeems spend a lock.
Debits(tx) == tx.kind # "redeem"
Cost(tx) == tx.amount + tx.fee

ScriptAccepts(tx, height) == height >= tx.script

\* The lock a redeem would spend, as far as script and amounts go.
Opens(tx, lock) ==
    /\ lock.id = tx.lock
    /\ lock.script = tx.script
    /\ lock.amount = tx.amount
    /\ tx.fee <= lock.amount

Debited(s, tx) ==
    [s EXCEPT !.balance[tx.from] = @ - Cost(tx), !.nonce[tx.from] = @ + 1]

CanDebit(s, tx) == s.balance[tx.from] >= Cost(tx) /\ s.nonce[tx.from] = tx.nonce

Credited(s, a, amount) == [s EXCEPT !.balance[a] = @ + amount]

RedeemedPayingFeeToo(s, tx) ==  \* for a mutant: the fee is not taken off the payout
    Credited([s EXCEPT !.locks = {l \in @ : l.id # tx.lock}], tx.to, tx.amount)

Redeemed(s, tx) ==
    Credited([s EXCEPT !.locks = {l \in @ : l.id # tx.lock}], tx.to, tx.amount - tx.fee)

Locked(s, tx, height) ==
    [Debited(s, tx) EXCEPT !.locks = @ \union
        {[id |-> tx.id, amount |-> tx.amount, script |-> tx.script, created |-> height]}]

(***************************************************************************)
(* applyTx: whether a transaction applies, and the state after it.  The    *)
(* code's locksCreatedThisBlock are the locks created at this height.      *)
(***************************************************************************)
Applies(s, tx, height) ==
    /\ Debits(tx) => CanDebit(s, tx)
    /\ tx.kind \in {"lock", "redeem"} => ScriptsActive(height)
    /\ tx.kind = "lock" => \A l \in s.locks : l.id # tx.id
    /\ tx.kind = "redeem" =>
        \E l \in s.locks : l.created # height /\ Opens(tx, l) /\ ScriptAccepts(tx, height)

AfterTx(s, tx, height) ==
    CASE tx.kind = "transfer" -> Credited(Debited(s, tx), tx.to, tx.amount)
      [] tx.kind = "lock"     -> Locked(s, tx, height)
      [] tx.kind = "redeem"   -> Redeemed(s, tx)

(***************************************************************************)
(* applyBlockTxs: the transactions in order, then the reward and the fees. *)
(* The first transaction that does not apply fails the whole block.        *)
(***************************************************************************)
ApplyTx(acc, tx, height) ==
    IF acc.ok /\ Applies(acc.state, tx, height)
    THEN [ok |-> TRUE, state |-> AfterTx(acc.state, tx, height)]
    ELSE [acc EXCEPT !.ok = FALSE]

ApplyTxs(s, height, txs) ==
    FoldLeft(LAMBDA acc, tx : ApplyTx(acc, tx, height), [ok |-> TRUE, state |-> s], txs)

Fees(txs) == FoldLeft(LAMBDA n, tx : n + tx.fee, 0, txs)

ApplyBlockTxs(s, height, miner, txs) ==
    [ApplyTxs(s, height, txs) EXCEPT !.state = Credited(@, miner, BlockReward(height) + Fees(txs))]

\* All the coins of a state, in accounts and under locks.
Supply(s) ==
    MapThenSumSet(LAMBDA a : s.balance[a], Addr) + MapThenSumSet(LAMBDA l : l.amount, s.locks)

=============================================================================
