-------------------------------- MODULE MCParts --------------------------------
(***************************************************************************)
(* Nine parts that share no state, each small: scripts, retargeting,      *)
(* helper discovery, backups, the chain archive, peer links, heartbeats,   *)
(* the delivery of transactions and the browser miner.  A behaviour is one of one part;    *)
(* the variables of the others are Off, or rest at Init.                   *)
(***************************************************************************)
EXTENDS Difficulty, MCScript

CONSTANTS     \* of Backups, Archive, PeerLinks, MinerController and Presence
  Interval, Dense, Weekly, Week, Month, MaxTime,
  ArchiveServers, Confirmations, ChunkSize, PerRequest, MaxHeight, MaxRuns,
  LinkNodes, MinPeers, MaxPeers, LinkLimits, Passes, MaxEpoch, LinkTroubles,
  MaxWorkers, MinerBudgets,
  BeatNodes, BeatServers, Period, StaleAfter, MiningTtl, Amnesia, Travel, BeatTroubles

VARIABLES
  part,
  cache, stored, lists, asked, meeting, connected,
  files, doomed, step, taken,
  now,
  net, tips, deep, disk, run, archived, cut,
  epoch, pool, dialed, dialing, asking, opened, beating, limit, links, quiet, at, troubles,
  ctl, workers, tip, syncing, seeded, left, mined,
  peers, serving, alive, mining, due, beats, waiting, shown, health, missed, mishaps,
  best, conf, mempool, pending, boot, tick, peerCount, isolated, isMining, server, posts, sent,
  departed, losses

S == INSTANCE ScriptMachine WITH Cases <- MCCases

Record(h, op, a, s, f, u, ok) ==
  [hash |-> h, operator |-> op, api |-> a, signaling |-> s, from |-> f, until |-> u, sound |-> ok]

(* Three operators, two of them on one domain; one record still to come    *)
(* into force, one forged.                                                 *)
MCRecords ==
  { Record(1, "o1", "a.two", "none", 1, 3, TRUE),    Record(2, "o1", "a.one", "a.one", 0, 2, TRUE),
    Record(3, "o2", "b.one", "b.one", 0, 3, TRUE),   Record(4, "o3", "none", "c.two", 0, 3, TRUE),
    Record(5, "o3", "c.bad", "c.bad", 0, 3, FALSE) }

MCDomainOf ==
  [u \in {"a.two", "c.two", "a.one", "b.one", "seed.app", "hand.me", "c.bad"} |->
     IF u \in {"a.two", "c.two"} THEN "two" ELSE IF u \in {"a.one", "b.one"} THEN "one" ELSE "other"]

MCSeeds == [s \in {"api", "signaling"} |-> <<"seed.app">>]

H == INSTANCE HelperDiscovery WITH
       Records <- MCRecords, NoUrl <- "none", DomainOf <- MCDomainOf, Seeds <- MCSeeds,
       HandLists <- {[api |-> <<"hand.me", "hand.me">>, signaling |-> <<"hand.me">>], MCSeeds},
       MaxCachedPer <- 1, MaxRecords <- 3, MaxPer <- 1, MaxServers <- 2, MaxNow <- 3

B == INSTANCE Backups WITH MaxNow <- MaxTime
K == INSTANCE Archive WITH Servers <- ArchiveServers
L == INSTANCE PeerLinks WITH Nodes <- LinkNodes, Limits <- LinkLimits, MaxTroubles <- LinkTroubles

(* Each budget combines the outside events that meet in one hazard:        *)
(* solutions with tip moves, stalls with solutions, a fast sync under a    *)
(* running miner, failed allocations with the tuner.                       *)
Budget(user, news, solves, ooms, hangs, seeds, probes) ==
  [user |-> user, news |-> news, solves |-> solves, ooms |-> ooms, hangs |-> hangs,
   seeds |-> seeds, probes |-> probes]

MCBudgets == {
  Budget(2, 1, 2, 0, 0, 0, 0), Budget(1, 0, 2, 0, 1, 0, 1), Budget(1, 0, 2, 0, 0, 1, 0),
  Budget(2, 0, 0, 2, 0, 0, 3)}

C == INSTANCE MinerController WITH Budgets <- MinerBudgets

P == INSTANCE Presence WITH
       Nodes <- BeatNodes, Servers <- BeatServers, Stale <- StaleAfter, MaxTroubles <- BeatTroubles,
       posts <- beats, left <- mishaps

(* Our transaction spends the coins of a foreign one.                      *)
T == INSTANCE TxDelivery WITH
       Txs <- {"ours", "theirs"}, Own <- {"ours"}, Funding <- [t \in {"ours", "theirs"} |-> "theirs"],
       Servers <- {"s"}, MaxTroubles <- 2, at <- tick, left <- departed, troubles <- losses

ASSUME PartsConstants ==
  /\ C!ControllerConstants /\ H!DiscoveryConstants /\ B!BackupConstants /\ K!ArchiveConstants
  /\ L!LinkConstants
  /\ P!PresenceConstants /\ T!DeliveryConstants

-----------------------------------------------------------------------------
difficultyVars == vars
discoveryVars  == <<cache, stored, lists, asked, meeting, connected>>
backupVars     == <<files, doomed, step, taken>>
archiveVars    == <<net, tips, deep, disk, run, archived, cut>>
linkVars       ==
  <<epoch, pool, dialed, dialing, asking, opened, beating, limit, links, quiet, at, troubles>>
minerVars      == <<ctl, workers, tip, syncing, seeded, left, mined>>

presenceVars   ==
  <<peers, serving, alive, mining, due, beats, waiting, shown, health, missed, mishaps>>
deliveryVars   ==
  <<best, conf, mempool, pending, boot, tick, peerCount, isolated, isMining, server, posts, sent,
    departed, losses>>
serverVars     == <<presenceVars, deliveryVars>>

Off(v) == v = "off"

DifficultyOff == Init /\ rate = Min(Rates)
DiscoveryOff  == Off(cache) /\ Off(stored) /\ Off(lists) /\ Off(asked) /\ Off(meeting) /\ Off(connected)
BackupsOff    == Off(files) /\ Off(doomed) /\ Off(step) /\ Off(taken)
ArchiveOff    == Off(net) /\ Off(tips) /\ Off(deep) /\ Off(disk) /\ Off(run) /\ Off(archived) /\ Off(cut)
LinksOff      == Off(epoch) /\ Off(pool) /\ Off(dialed) /\ Off(dialing) /\ Off(asking) /\ Off(opened)
                 /\ Off(beating) /\ Off(limit) /\ Off(links) /\ Off(quiet) /\ Off(at) /\ Off(troubles)

MinerOff      == C!Init /\ left = CHOOSE b \in MinerBudgets : TRUE
PresenceOff   == Off(peers) /\ Off(serving) /\ Off(alive) /\ Off(mining) /\ Off(due) /\ Off(beats)
                 /\ Off(waiting) /\ Off(shown) /\ Off(health) /\ Off(missed) /\ Off(mishaps)
DeliveryOff   == T!Init

(* Presence and delivery rest in the parts before them, and these in them. *)
LateOff  == PresenceOff /\ DeliveryOff
EarlyOff == Off(machine) /\ DifficultyOff /\ DiscoveryOff /\ BackupsOff /\ LinksOff /\ MinerOff /\ Off(now)

MCInit ==
  \/ /\ LateOff /\ ArchiveOff
     /\ \/ part = "script" /\ S!Init /\ DifficultyOff /\ DiscoveryOff /\ BackupsOff /\ LinksOff /\ MinerOff /\ Off(now)
        \/ part = "difficulty" /\ Init /\ Off(machine) /\ DiscoveryOff /\ BackupsOff /\ LinksOff /\ MinerOff /\ Off(now)
        \/ part = "discovery" /\ H!Init /\ Off(machine) /\ DifficultyOff /\ BackupsOff /\ LinksOff /\ MinerOff
        \/ part = "backups" /\ B!Init /\ Off(machine) /\ DifficultyOff /\ DiscoveryOff /\ LinksOff /\ MinerOff
        \/ part = "links" /\ L!Init /\ Off(machine) /\ DifficultyOff /\ DiscoveryOff /\ BackupsOff /\ MinerOff /\ Off(now)
        \/ part = "miner" /\ C!Init /\ Off(machine) /\ DifficultyOff /\ DiscoveryOff /\ BackupsOff /\ LinksOff /\ Off(now)
  \/ part = "archive" /\ K!Init /\ LateOff /\ EarlyOff
  \/ part = "presence" /\ P!Init /\ DeliveryOff /\ EarlyOff /\ ArchiveOff
  \/ part = "delivery" /\ T!Init /\ PresenceOff /\ EarlyOff /\ ArchiveOff

(* The parts with fairness; all but one rest.                              *)
OthersRest ==
  UNCHANGED <<part, machine, discoveryVars, backupVars, now, archiveVars, linkVars, presenceVars>>
RetargetStep(A) == part = "difficulty" /\ A /\ OthersRest /\ UNCHANGED <<minerVars, deliveryVars>>
MinerStep(A)    == part = "miner" /\ A /\ OthersRest /\ UNCHANGED <<difficultyVars, deliveryVars>>
DeliveryStep(A) == part = "delivery" /\ A /\ OthersRest /\ UNCHANGED <<difficultyVars, minerVars>>

MCNext ==
  \/ RetargetStep(Next)
  \/ MinerStep(C!Next)
  \/ DeliveryStep(T!Next)
  \/ /\ UNCHANGED <<part, difficultyVars, minerVars, deliveryVars>>
     /\ \/ /\ UNCHANGED archiveVars
           /\ \/ part = "script" /\ S!Next /\ UNCHANGED <<discoveryVars, backupVars, linkVars, presenceVars, now>>
              \/ part = "discovery" /\ H!Next /\ UNCHANGED <<machine, backupVars, linkVars, presenceVars>>
              \/ part = "backups" /\ B!Next /\ UNCHANGED <<machine, discoveryVars, linkVars, presenceVars>>
              \/ part = "links" /\ L!Next /\ UNCHANGED <<machine, discoveryVars, backupVars, presenceVars, now>>
              \/ part = "presence" /\ P!Next /\ UNCHANGED <<machine, discoveryVars, backupVars, linkVars, now>>
        \/ /\ part = "archive" /\ K!Next
           /\ UNCHANGED <<machine, discoveryVars, backupVars, linkVars, presenceVars, now>>

allVars ==
  <<part, machine, difficultyVars, discoveryVars, backupVars, now, archiveVars, linkVars, minerVars,
    serverVars>>

(* Someone mines (Difficulty), and MinerController's Fairness.  Of the     *)
(* delivery of transactions: the timers fire and every request ends, the   *)
(* node and the servers adopt the best chain (ServerSync), and a server    *)
(* that went down is brought back.  Nothing else is owed.                  *)
Fairness ==
  /\ WF_allVars(RetargetStep(Mine))
  /\ WF_allVars(MinerStep(C!CaughtUp)) /\ WF_allVars(MinerStep(C!AfterSeeding))
  /\ WF_allVars(MinerStep(C!Respawn))
  /\ \A i \in 1..MaxWorkers :
       /\ WF_allVars(MinerStep(i \in DOMAIN workers /\ C!Worker(i)))
       /\ WF_allVars(MinerStep(i \in DOMAIN workers /\ C!OnWorker(i)))
  /\ WF_allVars(DeliveryStep(T!Sync)) /\ WF_allVars(DeliveryStep(T!Follow))
  /\ \A s \in {"s"} :
       /\ WF_allVars(DeliveryStep(T!ServerFollows(s))) /\ WF_allVars(DeliveryStep(T!Up(s)))
       /\ \A t \in {"ours", "theirs"} : WF_allVars(DeliveryStep(T!OnTxs(s, t)))

MCSpec == MCInit /\ [][MCNext]_allVars /\ Fairness

-----------------------------------------------------------------------------
(* ScriptMachine's SpendRule: a spend is accepted exactly when the meaning *)
(* of its script says so.                                                  *)
SpendRule == part = "script" => S!SpendRule

(* Difficulty's NoCliff and KeepsPace.                                     *)
RetargetSound == NoCliff /\ (part = "difficulty" => KeepsPace)

(* HelperDiscovery's ListsKept and RecordsSettle: its lists keep to their  *)
(* rules all along, and its cache comes to rest.                           *)
HelpersSettle == [](part = "discovery" => H!ListsKept) /\ <>[][UNCHANGED cache]_cache

(* Backups' BackupsCover and Archive's ArchiveSound: what the servers and  *)
(* the archiver put aside survives whatever dies while they do.            *)
CopiesKept == (part = "backups" => B!BackupsCover) /\ (part = "archive" => K!ArchiveSound)

(* PeerLinks' LinksSound.                                                  *)
LinksSound == part = "links" => L!LinksSound

(* Presence's PresenceSound and TxDelivery's TxsDelivered.                 *)
PresenceSound == part = "presence" => P!PresenceSound
TxsDelivered == T!TxsDelivered

(* MinerController's TypeOK and NoDoubleWork, TunerHolds, KeepsGrinding.   *)
MinerSound == C!TypeOK /\ C!NoDoubleWork
TunerHolds == C!TunerHolds
KeepsGrinding == C!KeepsGrinding
=============================================================================
