------------------------------- MODULE Presence -------------------------------
(***************************************************************************)
(* Who is on the network: the heartbeats of the nodes (peer.ts,            *)
(* ServerSync.heartbeat), the register of each API server (server/api.ts)  *)
(* and what the shared fan-out (apiFanout.ts) makes of the servers'        *)
(* health.  Time passes in units of ten seconds, the period of the         *)
(* servers' sweep; what happened is known by its age, cut off where no     *)
(* comparison tells the ages apart.                                        *)
(***************************************************************************)
EXTENDS Integers, FiniteSets, FiniteSetsExt, Functions

CONSTANTS
  Nodes, Servers,
  Period,      \* HEARTBEAT_MS
  Stale,       \* STALE_PEER_MS
  MiningTtl,   \* MINING_TTL_MS
  Amnesia,     \* FAIL_AMNESIA_MS
  Travel,      \* bound: how long a post may be under way
  MaxTroubles  \* bound: requests lost, servers and nodes going down, in all

(* What the constants are assumed to be; MCParts has TLC check it.         *)
PresenceConstants ==
  /\ {Period, Stale, MiningTtl, Amnesia} \subseteq Nat \ {0} /\ {Travel, MaxTroubles} \subseteq Nat
  /\ Travel < Period /\ Period + Travel <= Stale /\ Period + Travel < Amnesia

Long == Max({Stale, MiningTtl, Amnesia}) + Travel + 2
Age == 0..Long
Older(a) == Min({a + 1, Long})

VARIABLES
  peers,    \* of each server: per node listed, lastSeen and lastMiningAt as ages
  serving,  \* the servers that are up
  alive,    \* of each node: whether it runs, and for how long it does or does not
  mining,   \* of each node: isMining(), and for how long
  due,      \* of each node: how long to its next heartbeat
  posts,    \* the heartbeats under way
  waiting,  \* the nodes whose heartbeat has not read the statistics yet
  shown,    \* of each node: status.serverPeerCount and serverMinersActive
  health,   \* of each node and server: lastSuccessMs and lastFailureMs as ages
  missed,   \* <<node, server>>: its last post there was lost
  left      \* troubles left

presenceVars == <<peers, serving, alive, mining, due, posts, waiting, shown, health, missed, left>>

NoPeers == [n \in {} |-> 0]

Init ==
  /\ peers = [s \in Servers |-> NoPeers] /\ serving = Servers
  /\ alive = [n \in Nodes |-> [on |-> TRUE, age |-> 0]]
  /\ mining = [n \in Nodes |-> [on |-> FALSE, age |-> Long]]
  /\ due = [n \in Nodes |-> 0] /\ posts = {} /\ waiting = {} /\ missed = {}
  /\ shown = [n \in Nodes |-> [peers |-> 0, miners |-> 0]]
  /\ health = [n \in Nodes |-> [s \in Servers |-> [ok |-> Long, bad |-> Long]]]
  /\ left = MaxTroubles

-----------------------------------------------------------------------------
(* apiFanout: what one page remembers of each server.                      *)
MarkSuccess(h) == [h EXCEPT !.ok = 0]
MarkFailure(h) == [h EXCEPT !.bad = 0]

FailedLast(h) == h.bad < h.ok
RecentFail(h) == h.bad < Amnesia /\ FailedLast(h)
Unknown(h) == h.ok = Long /\ h.bad = Long

(* healthOrder: whether s is tried before t.  A server that never answered *)
(* and failed long ago scores by the age of a success it never had.        *)
Rank(h) == IF Unknown(h) THEN 2 ELSE IF RecentFail(h) THEN 1 ELSE IF h.ok < Long THEN 3 ELSE 0

Before(n, s, t) ==
  LET g == health[n][s]
      h == health[n][t]
  IN  \/ Rank(g) > Rank(h)
      \/ Rank(g) = Rank(h) /\ (IF Rank(g) = 1 THEN g.bad > h.bad ELSE g.ok < h.ok)

Reachable(n) ==
  {s \in Servers : /\ ~Unknown(health[n][s])
                   /\ health[n][s].ok <= health[n][s].bad \/ health[n][s].bad > Amnesia}

-----------------------------------------------------------------------------
(* The timer: the post goes to every server at once.                       *)
Heartbeat(n) ==
  /\ alive[n].on /\ due[n] = 0 /\ n \notin waiting
  /\ posts' = posts \cup {[node |-> n, to |-> s, mining |-> mining[n].on, age |-> 0] : s \in Servers}
  /\ due' = [due EXCEPT ![n] = Period] /\ waiting' = waiting \cup {n}
  /\ UNCHANGED <<peers, serving, alive, mining, shown, health, missed, left>>

(* POST /heartbeat.                                                        *)
SeenOnce(known, n, isMining) ==
  LET before == IF n \in DOMAIN known THEN known[n] ELSE [seen |-> 0, mined |-> Long]
  IN  [m \in DOMAIN known \cup {n} |->
         IF m = n THEN [before EXCEPT !.mined = IF isMining THEN 0 ELSE @] ELSE known[m]]

Seen(known, n, isMining) ==
  LET before == IF n \in DOMAIN known THEN known[n].mined ELSE Long
  IN  [m \in DOMAIN known \cup {n} |->
         IF m = n THEN [seen |-> 0, mined |-> IF isMining THEN 0 ELSE before] ELSE known[m]]

OnHeartbeat(p) ==
  /\ p \in posts /\ p.to \in serving
  /\ posts' = posts \ {p}
  /\ peers' = [peers EXCEPT ![p.to] = Seen(@, p.node, p.mining)]
  /\ health' = [health EXCEPT ![p.node][p.to] = MarkSuccess(@)]
  /\ missed' = missed \ {<<p.node, p.to>>}
  /\ UNCHANGED <<serving, alive, mining, due, waiting, shown, left>>

(* A post fails: its server is down, or it is lost on the way.             *)
Lost(p) ==
  /\ p \in posts /\ posts' = posts \ {p}
  /\ IF p.to \in serving THEN left > 0 /\ left' = left - 1 ELSE UNCHANGED left
  /\ health' = [health EXCEPT ![p.node][p.to] = MarkFailure(@)]
  /\ missed' = missed \cup {<<p.node, p.to>>}
  /\ UNCHANGED <<peers, serving, alive, mining, due, waiting, shown>>

(* GET /stats.                                                             *)
ActiveMinerCount(s) == Cardinality({n \in DOMAIN peers[s] : peers[s][n].mined < MiningTtl})

StatsOf(s) == [peers |-> Cardinality(DOMAIN peers[s]), miners |-> ActiveMinerCount(s)]

(* The rest of ServerSync.heartbeat, once every post is settled: what each *)
(* server that answers says, and of that the greatest.                     *)
Stats(n) ==
  /\ n \in waiting /\ \A p \in posts : p.node # n
  /\ waiting' = waiting \ {n}
  /\ \E got \in SUBSET serving :
       /\ Cardinality(serving \ got) <= left /\ left' = left - Cardinality(serving \ got)
       /\ health' = [health EXCEPT ![n] =
            [s \in Servers |-> IF s \in got THEN MarkSuccess(@[s]) ELSE MarkFailure(@[s])]]
       /\ shown' = IF got = {} THEN shown
                   ELSE [shown EXCEPT ![n] =
                           [peers |-> Max({StatsOf(s).peers : s \in got}),
                            miners |-> Max({StatsOf(s).miners : s \in got})]]
  /\ UNCHANGED <<peers, serving, alive, mining, due, posts, missed>>

-----------------------------------------------------------------------------
(* Ten seconds: each server sweeps.  Nothing is due or overdue by then.    *)
Swept(known) ==
  LET aged == [n \in DOMAIN known |-> [seen |-> Older(known[n].seen), mined |-> Older(known[n].mined)]]
  IN  Restrict(aged, {n \in DOMAIN aged : aged[n].seen <= Stale})

Tick ==
  /\ \A n \in Nodes : alive[n].on => due[n] > 0
  /\ \A p \in posts : p.age < Travel /\ (p.to \in serving)
  /\ \A n \in waiting : \E p \in posts : p.node = n
  /\ peers' = [s \in Servers |-> Swept(peers[s])]
  /\ alive' = [n \in Nodes |-> [alive[n] EXCEPT !.age = Older(@)]]
  /\ mining' = [n \in Nodes |-> [mining[n] EXCEPT !.age = Older(@)]]
  /\ due' = [n \in Nodes |-> IF due[n] > 0 THEN due[n] - 1 ELSE 0]
  /\ posts' = {[p EXCEPT !.age = @ + 1] : p \in posts}
  /\ health' = [n \in Nodes |-> [s \in Servers |->
                  [ok |-> Older(health[n][s].ok), bad |-> Older(health[n][s].bad)]]]
  /\ UNCHANGED <<serving, waiting, shown, missed, left>>

(* The page is closed; the posts it sent may still arrive.                 *)
Leave(n) ==
  /\ alive[n].on /\ left > 0 /\ left' = left - 1
  /\ alive' = [alive EXCEPT ![n] = [on |-> FALSE, age |-> 0]]
  /\ mining' = [mining EXCEPT ![n] = IF @.on THEN [on |-> FALSE, age |-> 0] ELSE @]
  /\ waiting' = waiting \ {n}
  /\ UNCHANGED <<peers, serving, due, posts, shown, health, missed>>

(* The user starts or stops the miner; isMining() is read at a heartbeat.  *)
Toggle(n) ==
  /\ alive[n].on /\ left > 0 /\ left' = left - 1
  /\ mining' = [mining EXCEPT ![n] = [on |-> ~@.on, age |-> 0]]
  /\ UNCHANGED <<peers, serving, alive, due, posts, waiting, shown, health, missed>>

(* An API server goes down and comes back; its register is in memory.      *)
Down(s) ==
  /\ s \in serving /\ left > 0 /\ left' = left - 1
  /\ serving' = serving \ {s} /\ peers' = [peers EXCEPT ![s] = NoPeers]
  /\ missed' = missed \cup (Nodes \X {s})
  /\ UNCHANGED <<alive, mining, due, posts, waiting, shown, health>>

Up(s) ==
  /\ s \notin serving /\ serving' = serving \cup {s}
  /\ UNCHANGED <<peers, alive, mining, due, posts, waiting, shown, health, missed, left>>

Next ==
  \/ \E n \in Nodes : Heartbeat(n) \/ Stats(n) \/ Leave(n) \/ Toggle(n)
  \/ \E p \in posts : OnHeartbeat(p) \/ Lost(p)
  \/ \E s \in Servers : Down(s) \/ Up(s)
  \/ Tick

-----------------------------------------------------------------------------
(* A node that beats is listed: unless the last post to the server failed, *)
(* or none has arrived yet, no sweep removes it, however late each post.   *)
(* With one post lost it may be removed, and its miner with it, as soon as *)
(* the next is late at all, whatever api.ts:61 says of MINING_TTL_MS.      *)
Started(n) == alive[n].on /\ alive[n].age > Travel
ListedWhileBeating ==
  \A n \in Nodes, s \in Servers : Started(n) /\ <<n, s>> \notin missed => n \in DOMAIN peers[s]

(* A node that is gone is gone from every list after STALE_PEER_MS and the *)
(* last post's travel.                                                     *)
GoneUnlisted ==
  \A n \in Nodes, s \in Servers :
    ~alive[n].on /\ alive[n].age > Stale + Travel => n \notin DOMAIN peers[s]

(* A node is not counted as a miner longer than MINING_TTL_MS and a post's *)
(* travel after it stopped, whatever it has reported since.                *)
MinersCounted ==
  \A s \in Servers : \A n \in DOMAIN peers[s] :
    peers[s][n].mined < MiningTtl => mining[n].on \/ mining[n].age < MiningTtl + Travel

(* A server whose last answer was good is asked before one that failed,    *)
(* and is counted as reachable, through all the aging of the two.          *)
AskedInOrder ==
  \A n \in Nodes : alive[n].on => \A s, t \in Servers :
    LET g == health[n][s]
        h == health[n][t]
    IN  g.ok < g.bad /\ FailedLast(h) => Before(n, s, t) /\ s \in Reachable(n) /\ t \notin Reachable(n)

(* What a register says of a node agrees with what the node has been       *)
(* doing, and the order of reads with how the servers have answered.       *)
PresenceSound == ListedWhileBeating /\ GoneUnlisted /\ MinersCounted /\ AskedInOrder

(* Not in the model: ServerSync.heartbeat drops the servers' forkReadyCount,*)
(* so that peer.ts:1105 shows no node upgraded whoever reports it.         *)
=============================================================================
