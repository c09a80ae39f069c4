-------------------------------- MODULE Gossip --------------------------------
(***************************************************************************)
(* What the nodes say to each other over their direct links:               *)
(* src/net/peer.ts from `open` to onIncoming, and the parts of src/node.ts *)
(* that send (gossipTipIfNew, send) or react (onTipChanged).               *)
(*                                                                         *)
(* A link is a reliable ordered channel each way while it lasts; when it   *)
(* dies, what is in it is lost. An onIncoming handler runs to its end as   *)
(* one step: its awaits (addBlock of a Sandglass block) resume before the  *)
(* next message. Validation and the contents of the mempool are the        *)
(* business of Blockchain and Mempool: here every block is valid, and a    *)
(* transaction is admitted unless the tip's chain has confirmed it.        *)
(***************************************************************************)
EXTENDS ChainTree, Sequences, SequencesExt

CONSTANTS
  Node,
  Tx,
  Confirms,     \* the transactions in a block
  Maker,        \* Maker[b]: the node that mines b, or pulls it from a helper
  Pulled,       \* the blocks that come from a helper, with what is below them
  MaxOrphans,   \* MAX_ORPHANS
  RangeMax,     \* the 64 of getBlocks
  OverFetch,    \* the 32 of its small over-fetch
  Budgets       \* bound: what may happen in a behaviour, see Budget

ASSUME GossipConstants ==
  /\ IsFiniteSet(Tx)
  /\ Confirms \in [Block -> SUBSET Tx] /\ Confirms[Genesis] = {}
  /\ Maker \in [Block -> Node] /\ Pulled \subseteq Block
  /\ MaxOrphans \in Nat \ {0} /\ RangeMax \in Nat \ {0} /\ OverFetch \in Nat

(* The pairs of nodes (as sets of two) that may link up and those linked   *)
(* without a break from the start, the blocks and transactions still to    *)
(* come, and how many links may be lost.                                   *)
Budget == [links : SUBSET SUBSET Node, first : SUBSET SUBSET Node,
           blocks : SUBSET Block, txs : SUBSET Tx, drops : Nat]

ASSUME GossipBudgets ==
  /\ Budgets \subseteq Budget
  /\ \A u \in Budgets : /\ u.first \subseteq u.links /\ Genesis \notin u.blocks
                        /\ \A l \in u.links : Cardinality(l) = 2

VARIABLES
  node,         \* what each PeerNetwork and its chain hold
  linked,       \* <<n, m>>: n's `connections` has m (and m's has n)
  chan,         \* chan[n][m]: the messages on their way from n to m
  left          \* what is left of the budget

vars == <<node, linked, chan, left>>

-----------------------------------------------------------------------------
(* ProtoMsg. `b` is a block (or its hash), `low` a height.                 *)
Msg(t, b, low, txs) == [t |-> t, b |-> b, low |-> low, txs |-> txs]
Hello(b) == Msg("hello", b, 0, {})
BlockMsg(b) == Msg("block", b, 0, {})
GetBlock(b) == Msg("getBlock", b, 0, {})
GetBlocks(low) == Msg("getBlocks", NoBlock, low, {})
Blocks(b, low) == Msg("blocks", b, low, {})
InvTxs(txs) == Msg("invTxs", NoBlock, 0, txs)
GetTx(x) == Msg("getTx", NoBlock, 0, {x})
TxMsg(x) == Msg("tx", NoBlock, 0, {x})

Types == {"hello", "block", "getBlock", "getBlocks", "blocks", "invTxs",
          "getTx", "tx"}
Message == [t : Types, b : Block \cup {NoBlock}, low : Nat, txs : SUBSET Tx]

(* `missed` is a history variable, the blocks handleIncomingBlock did not  *)
(* or will not see: orphans that fell out of the map, blocks on their way  *)
(* or asked for when a link died, and those that came from a helper.       *)
Local == [known : SUBSET Block, tip : Block, orphans : Seq(Block),
          pool : SUBSET Tx, asked : SUBSET Tx, missed : SUBSET Block]

Pairs(L) == {p \in Node \X Node : {p[1], p[2]} \in L}

Init ==
  /\ node = [n \in Node |-> [known |-> {Genesis}, tip |-> Genesis,
               orphans |-> <<>>, pool |-> {}, asked |-> {}, missed |-> {}]]
  /\ chan = [n \in Node |-> [m \in Node |-> <<>>]]
  /\ left \in Budgets /\ linked = Pairs(left.first)

-----------------------------------------------------------------------------
(* Blocks of one branch, the oldest first.                                 *)
OldestFirst(S) ==
  CHOOSE q \in [1..Cardinality(S) -> S] :
    \A i, j \in DOMAIN q : i < j => Height[q[i]] < Height[q[j]]

(* A sequence less the elements of a set.                                  *)
Without(q, out) ==
  LET keep(kept, o) == IF o \in out THEN kept ELSE Append(kept, o)
  IN FoldLeft(keep, <<>>, q)

Peers(n) == {m \in Node : <<n, m>> \in linked}

OnChain(b) == UNION {Confirms[x] : x \in Ancestors[b]}

(* For a mutant: what the new branch confirmed stays pending.              *)
MoveTipKeepsAll(s, b) == [s EXCEPT !.tip = b, !.pool = @ \cup OnChain(s.tip)]

(* The chain's onTipChanged: transactions of displaced blocks come back,   *)
(* confirmed ones leave.                                                   *)
MoveTip(s, b) ==
  [s EXCEPT !.tip = b, !.pool = (@ \cup OnChain(s.tip)) \ OnChain(b)]

(* chain.addBlock of a valid block whose parent is known.                  *)
Add(s, b) ==
  LET stored == [s EXCEPT !.known = @ \cup {b}]
  IN IF Work[b] > Work[s.tip] THEN MoveTip(stored, b) ELSE stored

(* For a mutant: only the orphan of the block itself is tried.             *)
UnlockedOnce(s, b) == {o \in ToSet(s.orphans) : Parent[o] = b}

(* The orphans drainOrphans reaches: each waits for the one before it.     *)
Unlocked(s, b) ==
  {o \in ToSet(s.orphans) : /\ b \in Ancestors[o]
                            /\ Ancestors[o] \ Ancestors[b] \subseteq ToSet(s.orphans)}

DrainOrphans(s, b) ==
  LET out == Unlocked(s, b)
  IN FoldLeft(Add, [s EXCEPT !.orphans = Without(@, out)], OldestFirst(out))

(* orphans.set(parentHex, block): at the cap the oldest entry goes, and an *)
(* orphan of the same parent is displaced where it stands.                 *)
Park(s, b) ==
  LET full == Len(s.orphans) >= MaxOrphans
      kept == IF full THEN Tail(s.orphans) ELSE s.orphans
      same == SelectInSeq(kept, LAMBDA o : Parent[o] = Parent[b])
      now  == IF same = 0 THEN Append(kept, b) ELSE ReplaceAt(kept, same, b)
  IN [s EXCEPT !.orphans = now,
               !.missed = @ \cup (ToSet(s.orphans) \ ToSet(now))]

(* The node and the messages it sends, as it works through a handler.      *)
Doing(n) == [s |-> node[n], out |-> chan[n]]

Send(d, m, msg) == [d EXCEPT !.out[m] = Append(@, msg)]
Broadcast(d, ms, msg) ==
  [d EXCEPT !.out = [m \in Node |-> IF m \in ms THEN Append(@[m], msg) ELSE @[m]]]

(* handleIncomingBlock: known, added (drain, re-gossip), or parked while   *)
(* the sender is asked for the parent.                                     *)
HandleIncomingBlock(n, d, b, from) ==
  IF b \in d.s.known THEN d
  ELSE IF Parent[b] \in d.s.known
  THEN Broadcast([d EXCEPT !.s = DrainOrphans(Add(@, b), b)],
                 Peers(n) \ {from}, BlockMsg(b))
  ELSE Send([d EXCEPT !.s = Park(@, b)], from, GetBlock(Parent[b]))

(* hello: more than one block behind, ask for a range; one, for the tip.   *)
OnHello(d, b, from) ==
  LET mine == Height[d.s.tip]
  IN IF Height[b] <= mine \/ b \in d.s.known THEN d
     ELSE IF Height[b] > mine + 1 THEN Send(d, from, GetBlocks(mine + 1))
     ELSE Send(d, from, GetBlock(b))

(* getBlocks: the newest RangeMax + OverFetch blocks from `low` up, and of *)
(* those the RangeMax lowest.                                              *)
OnGetBlocks(d, low, from) ==
  LET tip  == d.s.tip
      bot  == LET h == Height[tip] + 1 - (RangeMax + OverFetch)
              IN IF h > low THEN h ELSE low
      high == IF bot + RangeMax - 1 < Height[tip] THEN bot + RangeMax - 1
              ELSE Height[tip]
      last == CHOOSE x \in Ancestors[tip] : Height[x] = high
  IN IF bot > Height[tip] THEN d ELSE Send(d, from, Blocks(last, bot))

(* blocks: each in turn.                                                   *)
OnBlocks(n, d, b, low, from) ==
  LET batch == {x \in Ancestors[b] : Height[x] >= low}
      one(e, x) == HandleIncomingBlock(n, e, x, from)
  IN FoldLeft(one, d, OldestFirst(batch))

(* tx: no longer awaited; held already or inadmissible, dropped; else      *)
(* pooled and passed on.                                                   *)
OnTx(n, d, x, from) ==
  LET heard == [d EXCEPT !.s.asked = @ \ {x}]
  IN IF x \in d.s.pool \cup OnChain(d.s.tip) THEN heard
     ELSE Broadcast([heard EXCEPT !.s.pool = @ \cup {x}],
                    Peers(n) \ {from}, TxMsg(x))

(* invTxs: requestTxIfMissing for each.                                    *)
OnInvTxs(d, txs, from) ==
  LET missing == txs \ (d.s.pool \cup d.s.asked)
      ask(e, x) == Send(e, from, GetTx(x))
  IN FoldLeft(ask, [d EXCEPT !.s.asked = @ \cup missing], SetToSeq(missing))

OnGetTx(d, x, from) == IF x \in d.s.pool THEN Send(d, from, TxMsg(x)) ELSE d

OnGetBlock(d, b, from) == IF b \in d.s.known THEN Send(d, from, BlockMsg(b)) ELSE d

OnIncoming(n, d, msg, from) ==
  LET x == CHOOSE y \in msg.txs : TRUE
  IN CASE msg.t = "hello"     -> OnHello(d, msg.b, from)
       [] msg.t = "block"     -> HandleIncomingBlock(n, d, msg.b, from)
       [] msg.t = "getBlock"  -> OnGetBlock(d, msg.b, from)
       [] msg.t = "getBlocks" -> OnGetBlocks(d, msg.low, from)
       [] msg.t = "blocks"    -> OnBlocks(n, d, msg.b, msg.low, from)
       [] msg.t = "invTxs"    -> OnInvTxs(d, msg.txs, from)
       [] msg.t = "getTx"     -> OnGetTx(d, x, from)
       [] msg.t = "tx"        -> OnTx(n, d, x, from)

-----------------------------------------------------------------------------
Become(n, d) ==
  /\ node' = [node EXCEPT ![n] = d.s]
  /\ chan' = [chan EXCEPT ![n] = d.out]

(* A data event on n's end of the link from `from`.                        *)
Receive(n, from) ==
  /\ <<n, from>> \in linked /\ chan[from][n] # <<>>
  /\ LET d == OnIncoming(n, Doing(n), Head(chan[from][n]), from)
     IN /\ node' = [node EXCEPT ![n] = d.s]
        /\ chan' = [chan EXCEPT ![n] = d.out, ![from][n] = Tail(@)]
  /\ UNCHANGED <<linked, left>>

(* announceMempool                                                         *)
Announce(n, d, ms) ==
  IF d.s.pool = {} THEN d ELSE Broadcast(d, ms, InvTxs(d.s.pool))

(* What a newly opened connection is sent. (getAddrs, getHelpers and their *)
(* answers are about who to link to, not modelled here.)                   *)
Greet(n, m) == Announce(n, Send(Doing(n), m, Hello(node[n].tip)), {m}).out

(* A link comes up: the open event of both ends, in one step.              *)
Open(n, m) ==
  /\ {n, m} \in left.links /\ <<n, m>> \notin linked
  /\ linked' = linked \cup {<<n, m>>, <<m, n>>}
  /\ chan' = [chan EXCEPT ![n] = Greet(n, m), ![m] = Greet(m, n)]
  /\ UNCHANGED <<node, left>>

Blocked(q, t) == {q[i].b : i \in {j \in DOMAIN q : q[j].t = t}}

(* The blocks m no longer gets because its link with n died.               *)
LostTo(m, n) == Blocked(chan[n][m], "block") \cup Blocked(chan[m][n], "getBlock")

(* The link dies: both ends forget it, what was on its way is lost.        *)
Drop(n, m) ==
  /\ left.drops > 0 /\ left' = [left EXCEPT !.drops = @ - 1, !.first = @ \ {{n, m}}]
  /\ <<n, m>> \in linked
  /\ node' = [node EXCEPT ![n].missed = @ \cup LostTo(n, m),
                          ![m].missed = @ \cup LostTo(m, n)]
  /\ linked' = linked \ {<<n, m>>, <<m, n>>}
  /\ chan' = [chan EXCEPT ![n][m] = <<>>, ![m][n] = <<>>]

(* For a mutant: the timer leaves the outstanding requests alone.          *)
TimerKeepsAsked(n) == Announce(n, Doing(n), Peers(n))

(* What the TX_REBROADCAST_MS timer does.                                  *)
Rebroadcast(n) == Announce(n, [Doing(n) EXCEPT !.s.asked = {}], Peers(n))

Quiet == \A n, m \in Node : chan[n][m] = <<>>

(* A bound: by the time it fires, what was on its way has been handled.    *)
Timer(n) ==
  /\ Quiet
  /\ Become(n, Rebroadcast(n))
  /\ UNCHANGED <<linked, left>>

(* Node.send: pooled, broadcastTx.                                         *)
Submit(n, x) ==
  /\ x \in left.txs /\ left' = [left EXCEPT !.txs = @ \ {x}]
  /\ Become(n, Broadcast([Doing(n) EXCEPT !.s.pool = @ \cup {x}], Peers(n), TxMsg(x)))
  /\ UNCHANGED linked

(* gossipTipIfNew, after the tip moved to b: broadcastBlock.               *)
GossipTip(n, s) == Broadcast([Doing(n) EXCEPT !.s = s], Peers(n), BlockMsg(s.tip))

(* The miner's onSolved: a block on its own tip, out of its own pool.      *)
Mine(n, b) ==
  /\ b \in left.blocks \ Pulled /\ Maker[b] = n /\ Parent[b] = node[n].tip
  /\ Confirms[b] \subseteq node[n].pool
  /\ left' = [left EXCEPT !.blocks = @ \ {b}]
  /\ Become(n, GossipTip(n, Add(node[n], b)))
  /\ UNCHANGED linked

(* ServerSync pulled b and what is below it from a helper: only the tip is *)
(* broadcast, and only if it moved.                                        *)
Pull(n, b) ==
  /\ b \in Pulled \cap left.blocks /\ Maker[b] = n
  /\ OnChain(b) \cap left.txs = {}
  /\ LET new == Ancestors[b] \ node[n].known
         s   == [FoldLeft(Add, node[n], OldestFirst(new)) EXCEPT !.missed = @ \cup new]
     IN /\ left' = [left EXCEPT !.blocks = @ \ new]
        /\ Become(n, IF s.tip = node[n].tip THEN [Doing(n) EXCEPT !.s = s]
                     ELSE GossipTip(n, s))
  /\ UNCHANGED linked

Deliver == \E n, m \in Node : Receive(n, m)

Next ==
  \/ Deliver
  \/ \E n, m \in Node : Open(n, m) \/ Drop(n, m)
  \/ \E n \in Node : Timer(n)
  \/ \E n \in Node, x \in Tx : Submit(n, x)
  \/ \E n \in Node, b \in Block : Mine(n, b) \/ Pull(n, b)

(* What is on its way arrives, and every node's timer keeps firing (the    *)
(* bound lets them fire only between messages: hence SF). Nothing makes a  *)
(* link come up, stay up or come back.                                     *)
Fairness ==
  /\ WF_vars(Deliver)
  /\ \A n \in Node : SF_vars(Timer(n))

Spec == Init /\ [][Next]_vars /\ Fairness

-----------------------------------------------------------------------------
Linked(n, m) == <<n, m>> \in linked

(* The types of PeerNetwork's maps; one orphan per parent, never more than *)
(* MAX_ORPHANS, and no pending transaction that the tip's chain confirmed. *)
TypeOK ==
  /\ node \in [Node -> Local]
  /\ linked \subseteq Node \X Node
  /\ chan \in [Node -> [Node -> Seq(Message)]]
  /\ \E u \in Budgets : /\ left.links = u.links /\ left.first \subseteq u.first
                       /\ left.blocks \subseteq u.blocks
                       /\ left.txs \subseteq u.txs /\ left.drops \in 0..u.drops
  /\ \A n \in Node :
       /\ Len(node[n].orphans) <= MaxOrphans
       /\ \A i, j \in DOMAIN node[n].orphans :
            Parent[node[n].orphans[i]] = Parent[node[n].orphans[j]] => i = j
       /\ node[n].pool \cap OnChain(node[n].tip) = {}

(* A block heard of becomes known, whatever branch it is on and however    *)
(* much of that branch is missing: the walk back by getBlock reaches a     *)
(* known ancestor and the orphans are drained from it. When nothing is on  *)
(* its way any more, an orphan is left waiting only if a part of its       *)
(* branch was missed: on a link that died, at the orphan map's cap, by a   *)
(* sibling of the same parent, or because a helper had it first (peer.ts   *)
(* handleIncomingBlock, drainOrphans).                                     *)
NoOrphanLeft ==
  Quiet => \A n \in Node : \A o \in ToSet(node[n].orphans) :
             Ancestors[o] \cap node[n].missed # {}

(* Each node's books agree, at every step and at rest.                     *)
GossipSound == TypeOK /\ NoOrphanLeft

Has(m, x) == x \in node[m].pool \cup OnChain(node[m].tip)

(* Whatever announcement, request or reply was lost with a link, again and *)
(* again every node has heard of the transactions pending at the nodes it  *)
(* is linked to (peer.ts announceMempool, requestTxIfMissing and the timer *)
(* that forgets the outstanding requests).                                 *)
TxReaches ==
  []<>(\A n, m \in Node : Linked(n, m) =>
         \A x \in node[n].pool : Has(m, x))

Echo(m, msg) ==
  \/ msg.t \in {"block", "blocks"} /\ msg.b \in node[m].known
  \/ msg.t = "tx" /\ msg.txs \subseteq node[m].pool

(* Gossip dies down: what everyone holds does not go round for ever, in a  *)
(* triangle as well as on a line ("peers would ping-pong every tx forever  *)
(* in a 3+ peer mesh", peer.ts onIncoming).                                *)
GossipDies ==
  <>[](\A n, m \in Node : \A i \in DOMAIN chan[n][m] : ~Echo(m, chan[n][m][i]))

(* Gossip reaches everyone, and then it is silent.                         *)
Spreads == TxReaches /\ GossipDies

-----------------------------------------------------------------------------
(* "peer.ts already re-gossips an accepted P2P block to our other peers"   *)
(* (src/node.ts:839): when nothing is on its way any more, two nodes       *)
(* linked from the start know each other's tips. Refuted: of the blocks a  *)
(* drain adds, the tip among them, none is passed on.                      *)
TipsGossiped ==
  Quiet => \A p \in Pairs(left.first) : node[p[1]].tip \in node[p[2]].known
=============================================================================
