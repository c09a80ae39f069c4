----------------------------- MODULE MCMempool -----------------------------
(***************************************************************************)
(* Alice and Bob, a block reward each to start from.  Alice's nonce 0 can  *)
(* be a transfer or the transfer that replaces it, her nonce 1 pays a      *)
(* higher fee than the first; Bob locks, then transfers, and two redeems   *)
(* compete for his lock, which opens two heights after scripts activate.   *)
(***************************************************************************)
EXTENDS Mempool

None == "none"
Transfer(id, from, to, amount, fee, nonce) ==
    [id |-> id, kind |-> "transfer", from |-> from, to |-> to, amount |-> amount,
     fee |-> fee, nonce |-> nonce, lock |-> None, script |-> 0]
Lock(id, from, amount, fee, nonce, script) ==
    [id |-> id, kind |-> "lock", from |-> from, to |-> None, amount |-> amount,
     fee |-> fee, nonce |-> nonce, lock |-> None, script |-> script]
Redeem(id, to, amount, fee, lock, script) ==
    [id |-> id, kind |-> "redeem", from |-> None, to |-> to, amount |-> amount,
     fee |-> fee, nonce |-> 0, lock |-> lock, script |-> script]

MCAddr == {"alice", "bob", "me"}
MCFounders == <<"alice", "bob">>
MCOthers == {"bob"}

MCTx ==
    {Transfer("a0", "alice", "bob", 2, 1, 0),
     Transfer("a0bis", "alice", "bob", 1, 2, 0),
     Transfer("a1", "alice", "bob", 3, 4, 1),
     Lock("b0", "bob", 5, 3, 0, 6),
     Transfer("b1", "bob", "alice", 1, 1, 1),
     Redeem("r1", "alice", 5, 4, "b0", 6),
     Redeem("r2", "me", 5, 5, "b0", 6)}

=============================================================================
