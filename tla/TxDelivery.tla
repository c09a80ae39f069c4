------------------------------ MODULE TxDelivery ------------------------------
(***************************************************************************)
(* How transactions reach the API servers and come from them: the mempool  *)
(* half of ServerSync (net/serverSync.ts) in one node, the mempools of     *)
(* several servers (server/api.ts), posts that get lost, servers that go   *)
(* down and forget, and the chain that moves under all of them.  How the   *)
(* chain itself is synchronised is in ServerSync, what a mempool admits in *)
(* Mempool; here a transaction may need the coins of another.              *)
(*                                                                         *)
(* ServerSync.stop is left out: nothing calls it.                          *)
(***************************************************************************)
EXTENDS Integers, FiniteSets

CONSTANTS
  Txs,
  Own,         \* the transactions this node's wallet may send
  Funding,     \* of each transaction: the one whose coins it spends, or itself
  Servers,
  MaxTroubles  \* bound: lost requests, restarts, reorganisations, evictions

(* What the constants are assumed to be; MCParts has TLC check it.         *)
DeliveryConstants ==
  /\ Own \subseteq Txs /\ MaxTroubles \in Nat
  /\ Funding \in [Txs -> Txs]

VARIABLES
  best,      \* the transactions of the chain everyone ends up on
  conf,      \* those of the node's chain
  mempool,   \* the node's
  pending,   \* localPending
  boot,      \* start(): "off", "syncing", "pulling" and "done", with the bridge timer
  at,        \* syncOnce: "idle", "asked" for the tip, "reading" the mempool, "settled"
  peerCount, \* whether there are peers: 0 or 1
  isolated,  \* whether the isolated poll's timer is set
  isMining,
  server,    \* of each: whether it is up, its chain's transactions and its mempool
  posts,     \* POST /txs under way: <<server, transaction>>
  sent, left, \* history: what the wallet sent, and what of it has left the mempool since
  troubles   \* left

deliveryVars ==
  <<best, conf, mempool, pending, boot, at, peerCount, isolated, isMining, server, posts, sent, left, troubles>>
chainAndPool == <<best, conf, mempool, left>>

Init ==
  /\ best = {} /\ conf = {} /\ mempool = {} /\ pending = {} /\ sent = {} /\ left = {}
  /\ boot = "off" /\ at = "idle" /\ posts = {}
  /\ peerCount = 0 /\ isolated = FALSE /\ isMining = FALSE
  /\ server = [s \in Servers |-> [up |-> TRUE, conf |-> {}, held |-> {}]]
  /\ troubles = MaxTroubles

Trouble == troubles > 0 /\ troubles' = troubles - 1

-----------------------------------------------------------------------------
(* Mempool.add: not confirmed, and payable.                                *)
Payable(t, chain) == Funding[t] \in chain \cup {t}
Admits(t, chain) == t \notin chain /\ Payable(t, chain)

(* onTipChanged, the same in node and server: put back what the new chain  *)
(* lacks, take out what it confirms, and perhaps drop what cannot be mined *)
(* now: pruneUnminable grants a period of grace.                           *)
Reconciled(pool, old, new) ==
  LET kept == {t \in pool \cup (old \ new) : t \notin new /\ (t \notin pool => Payable(t, new))}
  IN  {kept \ dropped : dropped \in SUBSET {t \in kept : ~Payable(t, new)}}

(* The node's mempool becomes p.                                           *)
Becomes(p) == mempool' = p /\ left' = left \cup ((mempool \cap sent) \ p)

Follow ==
  /\ conf # best /\ conf' = best
  /\ \E p \in Reconciled(mempool, conf, best) : Becomes(p)
  /\ UNCHANGED <<best, pending, boot, at, peerCount, isolated, isMining, server, posts, sent, troubles>>

ServerFollows(s) ==
  /\ server[s].up /\ server[s].conf # best
  /\ \E p \in Reconciled(server[s].held, server[s].conf, best) :
       server' = [server EXCEPT ![s].conf = best, ![s].held = p]
  /\ UNCHANGED <<chainAndPool, pending, boot, at, peerCount, isolated, isMining, posts, sent, troubles>>

(* A block confirms what someone at the tip holds; a reorganisation undoes *)
(* the lot.                                                                *)
Extend ==
  /\ \E t \in (IF conf = best THEN mempool ELSE {})
              \cup UNION {server[s].held : s \in {r \in Servers : server[r].conf = best}} :
       Payable(t, best) /\ best' = best \cup {t}
  /\ UNCHANGED <<conf, mempool, left, pending, boot, at, peerCount, isolated, isMining, server, posts, sent, troubles>>

Reorganise ==
  /\ best # {} /\ Trouble /\ best' = {}
  /\ UNCHANGED <<conf, mempool, left, pending, boot, at, peerCount, isolated, isMining, server, posts, sent>>

-----------------------------------------------------------------------------
(* fanoutWrite to the servers there are; one that is down fails at once.   *)
Posted(T) == posts \cup ({s \in Servers : server[s].up} \X T)

(* send and submit.                                                        *)
PushTxOnce(t) == posts' = Posted({t}) /\ UNCHANGED pending
PushTx(t) == pending' = pending \cup {t} /\ posts' = Posted({t})

Send(t) ==
  /\ t \in Own \ (sent \cup mempool) /\ Admits(t, conf)
  /\ sent' = sent \cup {t} /\ mempool' = mempool \cup {t}
  /\ PushTx(t)
  /\ UNCHANGED <<best, conf, left, boot, at, peerCount, isolated, isMining, server, troubles>>

(* Another transaction reaches a server from its author, or us from a peer.*)
Elsewhere(t) ==
  /\ t \in Txs \ Own
  /\ \/ /\ \E s \in Servers :
             /\ server[s].up /\ Admits(t, server[s].conf) /\ t \notin server[s].held
             /\ server' = [server EXCEPT ![s].held = @ \cup {t}]
        /\ UNCHANGED mempool
     \/ /\ peerCount > 0 /\ t \notin mempool /\ Admits(t, conf)
        /\ mempool' = mempool \cup {t} /\ UNCHANGED server
  /\ UNCHANGED <<best, conf, left, pending, boot, at, peerCount, isolated, isMining, posts, sent, troubles>>

(* A full or outbid pool lets a transaction go.                            *)
Evict(t) ==
  /\ t \in mempool /\ Trouble /\ Becomes(mempool \ {t})
  /\ UNCHANGED <<best, conf, pending, boot, at, peerCount, isolated, isMining, server, posts, sent>>

-----------------------------------------------------------------------------
(* syncOnce, if none is in flight: from a timer, start() or kick().        *)
Begin == at = "idle" /\ at' = "asked"

Start ==
  /\ boot = "off" /\ boot' = "syncing"
  /\ at' = IF at = "idle" THEN "asked" ELSE at
  /\ UNCHANGED <<chainAndPool, pending, peerCount, isolated, isMining, server, posts, sent, troubles>>

Timer ==
  /\ boot = "done" \/ isolated
  /\ Begin
  /\ UNCHANGED <<chainAndPool, pending, boot, peerCount, isolated, isMining, server, posts, sent, troubles>>

Ends(newAt) == at' = newAt /\ boot' = IF newAt = "idle" /\ boot = "syncing" THEN "pulling" ELSE boot

(* No server tells its tip, or fast sync will be tried again on the next   *)
(* tick, or the pull or push of blocks throws: the tick is over.           *)
CutShort ==
  /\ at = "asked"
  /\ \/ Trouble
     \/ (\A s \in Servers : ~server[s].up) /\ UNCHANGED troubles
  /\ Ends("idle")
  /\ UNCHANGED <<chainAndPool, pending, peerCount, isolated, isMining, server, posts, sent>>

(* The chains have been exchanged: pull the mempool, if it is needed.      *)
Starved == peerCount = 0 \/ isMining

Exchanged ==
  /\ at = "asked" /\ (\E s \in Servers : server[s].up)
  /\ Ends(IF Starved THEN "reading" ELSE "settled")
  /\ UNCHANGED <<chainAndPool, pending, peerCount, isolated, isMining, server, posts, sent, troubles>>

(* tryRead: one server's answer, in the order of their health, or none.    *)
PullMempool ==
  \/ /\ \E s \in Servers : /\ server[s].up
                           /\ mempool' = mempool \cup {t \in server[s].held : Admits(t, conf)}
     /\ UNCHANGED troubles
  \/ /\ UNCHANGED mempool
     /\ \/ Trouble
        \/ (\A s \in Servers : ~server[s].up) /\ UNCHANGED troubles

Read ==
  /\ at = "reading" /\ Ends("settled") /\ PullMempool
  /\ UNCHANGED <<best, conf, left, pending, peerCount, isolated, isMining, server, posts, sent>>

(* pushLocalPending.                                                       *)
PushLocalPending ==
  /\ pending' = pending \cap mempool
  /\ posts' = Posted(pending \cap mempool)

Settle ==
  /\ at = "settled" /\ Ends("idle") /\ PushLocalPending
  /\ UNCHANGED <<chainAndPool, peerCount, isolated, isMining, server, sent, troubles>>

(* The rest of start(): pull the mempool once more, set the bridge timer.  *)
Started ==
  /\ boot = "pulling" /\ boot' = "done" /\ PullMempool
  /\ UNCHANGED <<best, conf, left, pending, at, peerCount, isolated, isMining, server, posts, sent>>

(* The miner is started or stopped.                                        *)
ToggleMining ==
  /\ isMining' = ~isMining
  /\ UNCHANGED <<chainAndPool, pending, boot, at, peerCount, isolated, server, posts, sent, troubles>>

(* setPeerCount.                                                           *)
SetPeerCount ==
  /\ peerCount' = 1 - peerCount /\ isolated' = (peerCount' = 0)
  /\ UNCHANGED <<chainAndPool, pending, boot, at, isMining, server, posts, sent, troubles>>

-----------------------------------------------------------------------------
(* POST /txs.                                                              *)
OnTxs(s, t) ==
  /\ <<s, t>> \in posts /\ posts' = posts \ {<<s, t>>}
  /\ server' = IF Admits(t, server[s].conf) THEN [server EXCEPT ![s].held = @ \cup {t}] ELSE server
  /\ UNCHANGED <<chainAndPool, pending, boot, at, peerCount, isolated, isMining, sent, troubles>>

Lost(s, t) ==
  /\ <<s, t>> \in posts /\ Trouble /\ posts' = posts \ {<<s, t>>}
  /\ UNCHANGED <<chainAndPool, pending, boot, at, peerCount, isolated, isMining, server, sent>>

(* A server's mempool is in memory, its chain on disk.                     *)
Down(s) ==
  /\ server[s].up /\ Trouble
  /\ server' = [server EXCEPT ![s].up = FALSE, ![s].held = {}]
  /\ posts' = {p \in posts : p[1] # s}
  /\ UNCHANGED <<chainAndPool, pending, boot, at, peerCount, isolated, isMining, sent>>

Up(s) ==
  /\ ~server[s].up /\ server' = [server EXCEPT ![s].up = TRUE]
  /\ UNCHANGED <<chainAndPool, pending, boot, at, peerCount, isolated, isMining, posts, sent, troubles>>

Sync == Start \/ Timer \/ CutShort \/ Exchanged \/ Read \/ Settle \/ Started
Environment == Extend \/ Reorganise \/ SetPeerCount \/ ToggleMining \/ \E t \in Txs : Send(t) \/ Elsewhere(t) \/ Evict(t)

Next ==
  \/ Follow \/ Sync \/ Environment
  \/ \E s \in Servers : ServerFollows(s) \/ Down(s) \/ Up(s) \/ \E t \in Txs : OnTxs(s, t) \/ Lost(s, t)

-----------------------------------------------------------------------------
(* Once troubles are over: what the wallet sent, and neither confirmed nor *)
(* let go of, every server comes to hold for good, whatever was lost, and  *)
(* whichever server refused it when behind or forgot it in a restart.      *)
Owed == {t \in sent \ left : Payable(t, conf)}
OwnTxsHeld == <>[](\A s \in Servers : Owed \subseteq server[s].held)

(* A node that mines or has no peers comes to hold what all servers hold   *)
(* for good and its own chain can pay (serverSync.ts:572-577).             *)
MinersFed ==
  \A t \in Txs \ Own :
    <>[](Starved /\ \A s \in Servers : t \in server[s].held /\ Payable(t, conf)) => <>[](t \in mempool)

(* Both directions of the exchange.                                        *)
TxsDelivered == OwnTxsHeld /\ MinersFed
=============================================================================
