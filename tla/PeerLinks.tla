------------------------------- MODULE PeerLinks -------------------------------
(***************************************************************************)
(* How PeerNetwork (net/peer.ts) finds, opens, bounds and drops its        *)
(* connections: several nodes and one signaling server that lists who is   *)
(* registered.  A connection has two ends that open and close each in its  *)
(* own time, and a close may never be told to the other end.  What runs    *)
(* over the connections is in Gossip.                                      *)
(*                                                                         *)
(* A node has a new id after each start(); ids are <<node, epoch>>.        *)
(***************************************************************************)
EXTENDS Integers, FiniteSets, FiniteSetsExt, Functions

CONSTANTS
  Nodes,
  MinPeers,    \* MIN_PEERS: below it a heartbeat dials
  MaxPeers,    \* MAX_PEERS: dialing stops there
  Limits,      \* what maxConnections may be set to
  Passes,      \* the dialFromBootstrap calls that may overlap
  MaxEpoch,    \* bound: restarts of a node's network
  MaxTroubles  \* bound: restarts, outages and manual dials in all

(* What the constants are assumed to be; MCParts has TLC check it.         *)
LinkConstants ==
  /\ MinPeers \in Nat \ {0} /\ MaxPeers \in Nat /\ MaxEpoch \in Nat /\ MaxTroubles \in Nat
  /\ Limits \subseteq Nat \ {0} /\ (\E most \in Limits : \A max \in Limits : max <= most)
  /\ IsFiniteSet(Nodes)

VARIABLES
  epoch,    \* of each node
  pool,     \* candidatePool
  dialed,   \* dialedThisSession
  dialing,  \* the dials in flight, each with its watchdog
  asking,   \* of a running dialFromBootstrap: {what it listed before its await}
  opened,   \* whether the node is registered with the signaling server
  beating,  \* whether start() got as far as its timers
  limit,    \* maxConnections
  links,    \* connections: the node's table
  quiet,    \* the links not heard of since the last heartbeat
  at,       \* of every DataConnection not closed at both ends: its two ends
  troubles

vars == <<epoch, pool, dialed, dialing, asking, opened, beating, limit, links, quiet, at, troubles>>

Me(n) == <<n, epoch[n]>>
Registered == {Me(n) : n \in {m \in Nodes : opened[m]}}

(* A connection is <<dialer's id, dialed id, number>>.                     *)
Peer(n, c) == IF c[1] = Me(n) THEN c[2] ELSE c[1]
Mine(n) == {c \in DOMAIN at : Me(n) \in {c[1], c[2]}}
Linked(n) == {Peer(n, c) : c \in links[n]}

Init ==
  /\ epoch = [n \in Nodes |-> 0] /\ at = <<>> /\ troubles = 0
  /\ pool = [n \in Nodes |-> {}] /\ dialed = pool /\ dialing = pool
  /\ links = pool /\ quiet = pool
  /\ asking = [n \in Nodes |-> [p \in Passes |-> {}]]
  /\ opened = [n \in Nodes |-> TRUE] /\ beating = opened
  /\ limit = [n \in Nodes |-> Max(Limits)]

-----------------------------------------------------------------------------
(* Ends.  What is closed at both ends is forgotten.                        *)
Closed(state, n, C) ==
  LET then == [c \in DOMAIN state |->
                 IF c \in C THEN [state[c] EXCEPT ![Me(n)] = "closed"] ELSE state[c]]
  IN  Restrict(then, {c \in DOMAIN then : "closed" # then[c][c[1]] \/ "closed" # then[c][c[2]]})

Created(state, n, ids) ==
  LET number(id) == Min({k \in 1..(Cardinality(DOMAIN state) + 1) : <<Me(n), id, k>> \notin DOMAIN state})
      new == {<<Me(n), id, number(id)>> : id \in ids \cap Registered}
  IN  [c \in DOMAIN state \cup new |-> IF c \in new THEN [e \in {c[1], c[2]} |-> "new"] ELSE state[c]]

(* Which ids a pass may dial, and how many: never one it has dialed before *)
(* in the session, while links and dials in flight are below the cap.      *)
Undialed(n, ids) == ids \ ({Me(n)} \cup Linked(n) \cup dialed[n])

Room(n, table) ==
  Max({0, Min({MaxPeers, limit[n]}) - Cardinality(table) - Cardinality(dialing[n])})

DialSome(n, ids, table, state) ==
  \E D \in kSubset(Min({Cardinality(ids), Room(n, table)}), ids) :
    /\ dialed' = [dialed EXCEPT ![n] = @ \cup D]
    /\ dialing' = [dialing EXCEPT ![n] = @ \cup D]
    /\ at' = Created(state, n, D)

(* dialFromBootstrap up to its await, if no more than Passes are running.  *)
Ask(n, then) ==
  \/ \E p \in Passes :
       /\ asking[n][p] = {}
       /\ asking' = [asking EXCEPT ![n][p] = {then}]
  \/ (\A p \in Passes : asking[n][p] # {}) /\ UNCHANGED asking

(* The links whose other end is closed: nothing is heard of them.          *)
Stale(n) == {c \in links[n] : at[c][Peer(n, c)] # "open"}

(* dialFromSignaling: everyone whom the signaling server lists.            *)
FromSignaling(n) == IF opened[n] THEN Undialed(n, Registered) ELSE {}

(* fetchPeers: the union of what the helper servers list, here everyone    *)
(* who is registered, or nothing when none of them answers.                *)
Served == {{}, Registered}

(* The timer of start(): reap the links not heard of since the beat before *)
(* and, with too few left, dial from the signaling server's list and then  *)
(* from the pool.  start()'s own pass is a beat: no link is left then.     *)
Beat(n) ==
  LET reaped == quiet[n] \cap Stale(n)
      table  == links[n] \ reaped
      state  == Closed(at, n, reaped)
  IN  /\ beating[n]
      /\ links' = [links EXCEPT ![n] = table]
      /\ quiet' = [quiet EXCEPT ![n] = Stale(n) \ reaped]
      /\ IF Cardinality(table) < MinPeers
         THEN /\ DialSome(n, FromSignaling(n), table, state)
              /\ Ask(n, Undialed(n, pool[n]) \ dialed'[n])
         ELSE at' = state /\ UNCHANGED <<dialed, dialing, asking>>
      /\ UNCHANGED <<epoch, pool, opened, beating, limit, troubles>>

(* The servers answer a pass; ids long gone come from the pool.  What was  *)
(* listed before the await is not looked at again.                         *)
Answer(n, p) ==
  /\ \E listed \in asking[n][p], served \in Served :
       IF opened[n] THEN DialSome(n, listed \cup Undialed(n, served), links[n], at)
       ELSE UNCHANGED <<dialed, dialing, at>>
  /\ asking' = [asking EXCEPT ![n][p] = {}]
  /\ UNCHANGED <<epoch, pool, opened, beating, limit, links, quiet, troubles>>

(* The end of a dial without a connection: its watchdog; or the signaling  *)
(* server's word that nobody has that id, which is then no candidate.      *)
EndDial(n, id) ==
  /\ id \in dialing[n]
  /\ dialing' = [dialing EXCEPT ![n] = @ \ {id}]
  /\ UNCHANGED <<epoch, pool, dialed, asking, opened, beating, limit, links, quiet, at, troubles>>

Unavailable(n, id) ==
  /\ id \in dialing[n] \ Registered
  /\ dialing' = [dialing EXCEPT ![n] = @ \ {id}]
  /\ pool' = [pool EXCEPT ![n] = @ \ {id}]
  /\ UNCHANGED <<epoch, dialed, asking, opened, beating, limit, links, quiet, at, troubles>>

-----------------------------------------------------------------------------
(* adoptConnection's open: the first connection to a peer is kept, as long *)
(* as there is room for it; the rest are closed.                           *)
AdoptedAlways(n, c) == Peer(n, c) \notin Linked(n)

Adopted(n, c) ==
  Peer(n, c) \notin Linked(n) /\ Cardinality(links[n]) < limit[n]

Open(n, c) ==
  /\ c \in Mine(n) /\ at[c][Me(n)] = "new"
  /\ dialing' = [dialing EXCEPT ![n] = @ \ {Peer(n, c)}]
  /\ IF Adopted(n, c)
     THEN /\ at' = [at EXCEPT ![c][Me(n)] = "open"]
          /\ links' = [links EXCEPT ![n] = @ \cup {c}]
          /\ pool' = [pool EXCEPT ![n] = @ \cup {Peer(n, c)}]
     ELSE at' = Closed(at, n, {c}) /\ UNCHANGED <<links, pool>>
  /\ UNCHANGED <<epoch, dialed, asking, opened, beating, limit, quiet, troubles>>

(* Its close: the other end has closed, and this one is told.              *)
Close(n, c) ==
  /\ c \in Mine(n) /\ at[c][Peer(n, c)] = "closed"
  /\ at' = Closed(at, n, {c})
  /\ dialing' = [dialing EXCEPT ![n] = @ \ {Peer(n, c)}]
  /\ links' = [links EXCEPT ![n] = @ \ {c}] /\ quiet' = [quiet EXCEPT ![n] = @ \ {c}]
  /\ UNCHANGED <<epoch, pool, dialed, asking, opened, beating, limit, troubles>>

(* An addrs message: ids a linked peer knows; with too few links the pool  *)
(* is dialed at once.                                                      *)
Learn(n, c) ==
  /\ c \in links[n] /\ Peer(n, c) \notin Stale(n)
  /\ \E ids \in {pool[m] : m \in {k \in Nodes : Me(k) = Peer(n, c)}} :
       /\ pool' = [pool EXCEPT ![n] = @ \cup (ids \ ({Me(n)} \cup Linked(n)))]
       /\ IF Cardinality(links[n]) < MinPeers THEN Ask(n, Undialed(n, pool'[n])) ELSE UNCHANGED asking
  /\ UNCHANGED <<epoch, dialed, dialing, opened, beating, limit, links, quiet, at, troubles>>

-----------------------------------------------------------------------------
Trouble == troubles < MaxTroubles /\ troubles' = troubles + 1

(* setSignalingServers: stop() closes every connection and forgets the     *)
(* dials in flight, start() registers under a new id.  If no server        *)
(* answers it throws before its timers are set; a later reconnect          *)
(* registers the node all the same.                                        *)
Restart(n) ==
  /\ Trouble /\ epoch[n] < MaxEpoch
  /\ epoch' = [epoch EXCEPT ![n] = @ + 1]
  /\ at' = Closed(at, n, Mine(n))
  /\ links' = [links EXCEPT ![n] = {}] /\ quiet' = [quiet EXCEPT ![n] = {}]
  /\ dialing' = [dialing EXCEPT ![n] = {}]
  /\ \E works \in BOOLEAN : /\ opened' = [opened EXCEPT ![n] = works]
                            /\ beating' = [beating EXCEPT ![n] = works]
  /\ UNCHANGED <<pool, dialed, asking, limit>>

(* A Peer's disconnected, and the reconnect it schedules.                  *)
Unregister(n) ==
  /\ Trouble /\ opened[n] /\ opened' = [opened EXCEPT ![n] = FALSE]
  /\ UNCHANGED <<epoch, pool, dialed, dialing, asking, beating, limit, links, quiet, at>>

Reregister(n) ==
  /\ ~opened[n] /\ opened' = [opened EXCEPT ![n] = TRUE]
  /\ UNCHANGED <<epoch, pool, dialed, dialing, asking, beating, limit, links, quiet, at, troubles>>

(* dialPeer: an id the user pasted, past the cap and the session's list.   *)
DialPeer(n, id) ==
  /\ Trouble /\ opened[n] /\ id \in Registered \ ({Me(n)} \cup Linked(n))
  /\ at' = Created(at, n, {id})
  /\ UNCHANGED <<epoch, pool, dialed, dialing, asking, opened, beating, limit, links, quiet>>

(* setMaxConnections: links over a lower limit are closed at once.         *)
SetMaxConnections(n, max) ==
  /\ max # limit[n] /\ limit' = [limit EXCEPT ![n] = max]
  /\ IF max > limit[n] THEN Trouble ELSE UNCHANGED troubles
  /\ \E X \in kSubset(Max({0, Cardinality(links[n]) - max}), links[n]) :
       /\ at' = Closed(at, n, X)
       /\ links' = [links EXCEPT ![n] = @ \ X] /\ quiet' = [quiet EXCEPT ![n] = @ \ X]
  /\ UNCHANGED <<epoch, pool, dialed, dialing, asking, opened, beating>>

Step(n) ==
  \/ Beat(n) \/ \E p \in Passes : Answer(n, p)
  \/ \E id \in dialing[n] : EndDial(n, id) \/ Unavailable(n, id)
  \/ \E c \in Mine(n) : Open(n, c) \/ Close(n, c) \/ Learn(n, c)
  \/ Restart(n) \/ Unregister(n) \/ Reregister(n)
  \/ \E id \in Registered : DialPeer(n, id)
  \/ \E max \in Limits : SetMaxConnections(n, max)

Next == \E n \in Nodes : Step(n)

-----------------------------------------------------------------------------
(* The table is the truth: never over the limit however many dials, late   *)
(* opens and inbound connections race, one link a peer, each open at this  *)
(* end; and no end is open outside the table, where its messages would     *)
(* still be handled but nothing would ever reap it.                        *)
LinksSound ==
  \A n \in Nodes :
    /\ Cardinality(links[n]) <= limit[n]
    /\ Cardinality(Linked(n)) = Cardinality(links[n])
    /\ links[n] = {c \in Mine(n) : at[c][Me(n)] = "open"}

(* "The fresh setup will re-dial known peers as soon as the new Peers      *)
(* open" (peer.ts:516): the first beat of a restarted network dials, or    *)
(* lists to dial, some peer it knows and that is there to answer.          *)
FirstBeat(n) ==
  /\ Beat(n) /\ epoch[n] > 0 /\ opened[n] /\ links[n] = {} /\ dialing[n] = {}
  /\ pool[n] \cap Registered # {}

Dials(n) == dialing'[n] # {} \/ \E p \in Passes : asking'[n][p] \notin {{}, {{}}}

RedialsKnown == [][\A n \in Nodes : FirstBeat(n) => Dials(n)]_vars
=============================================================================
