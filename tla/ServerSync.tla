------------------------------ MODULE ServerSync ------------------------------
(***************************************************************************)
(* The node's synchronisation with its helper servers: syncOnce of         *)
(* src/net/serverSync.ts with its fast-sync attempts (fastSync.ts), the    *)
(* batched pull with its cursor, the push with its recursion, and the      *)
(* health order of reads (apiFanout.ts). A step is what runs between two   *)
(* awaits. Meanwhile peers and the miner add blocks to the local chain,    *)
(* and other clients to the servers'.                                      *)
(*                                                                         *)
(* The mempool half of a tick (pullMempool, pushLocalPending) touches no   *)
(* state of this module and is left out.                                   *)
(***************************************************************************)
EXTENDS HelperServer

CONSTANTS
  Invalid,      \* blocks the local rules reject (a helper on older rules)
  Overlap,      \* the 5 blocks a pull goes back below the local tip
  PullBatch,    \* PULL_BATCH
  PushBatch,    \* PUSH_BATCH
  MaxAttempts,  \* FAST_SYNC_MAX_ATTEMPTS
  MinBacklog,   \* FAST_SYNC_MIN_BACKLOG
  Depth,        \* SNAPSHOT_DEPTH
  MaxTail,      \* FAST_SYNC_MAX_TAIL
  MaxLost,      \* bound: requests that get no answer, in a behaviour
  MaxFaults     \* bound: batches with a wrong verdict of the verifier pool

ASSUME ServerSyncConstants ==
  /\ Invalid \subseteq Block \ {Genesis}
  /\ {Overlap, PullBatch, PushBatch, MaxAttempts, MinBacklog, Depth,
      MaxTail, MaxLost, MaxFaults} \subseteq Nat
  /\ PullBatch > 0 /\ PushBatch > 0

VARIABLES
  known,        \* keys of the local chain.blocks
  mat,          \* those whose state is there
  bodyless,     \* those fast sync seeded as headers
  tip,          \* the local tip
  sync,         \* syncOnce: where it is and its locals, Idle when not inFlight
  first,        \* the server with the newest success: read first
  attempts,     \* fastSyncAttempts
  fastDone,     \* fastSyncDone
  lost, faults  \* what MaxLost and MaxFaults count

chainVars == <<known, mat, bodyless, tip>>
fastVars == <<attempts, fastDone>>
vars == <<srvVars, chainVars, sync, first, fastVars, lost, faults>>

(* A pushFrom call: the blocks left to send, and the servers whose answer   *)
(* to the first of them, "orphan", is still to be dealt with.               *)
Frame == [blocks : Seq(Block), todo : SUBSET Server]

(* at: the await; target: the best /tip; top: the last of the headers a    *)
(* fast sync has read; stage, cursor, batch: the pull, of the "tail" above *)
(* an anchor or the "main" one; stack: the pushes, innermost first.        *)
Sync ==
  [at : {"idle", "tip", "answered", "headers", "snapshot", "fetch", "verify",
         "push"},
   target : Block, top : Block, stage : {"tail", "main"}, cursor : Nat,
   batch : Seq(Block), stack : Seq(Frame)]

Idle == [at |-> "idle", target |-> Genesis, top |-> Genesis, stage |-> "main",
         cursor |-> 0, batch |-> <<>>, stack |-> <<>>]

TypeOK ==
  /\ ServerTypeOK
  /\ known \subseteq Block /\ mat \subseteq known /\ bodyless \subseteq known
  /\ tip \in mat
  /\ sync \in Sync /\ first \in Server
  /\ attempts \in 0..MaxAttempts /\ fastDone \in BOOLEAN
  /\ lost \in 0..MaxLost /\ faults \in 0..MaxFaults

Init ==
  /\ ServerInit
  /\ known = {Genesis} /\ mat = {Genesis} /\ bodyless = {} /\ tip = Genesis
  /\ sync = Idle /\ first \in Server
  /\ attempts = 0 /\ fastDone = FALSE
  /\ lost = 0 /\ faults = 0

-----------------------------------------------------------------------------
(* n requests get no answer: timed out, refused or rate-limited.           *)
Lose(n) == lost + n <= MaxLost /\ lost' = lost + n

(* tryRead: the first server in health order, or, when those before it     *)
(* fail, another; each answer makes its server the first.                  *)
Reads(s) == first' = s /\ Lose(IF s = first THEN 0 ELSE 1)

(* The difference in height that makes headers and a snapshot worth it.    *)
FastSyncEligible == Height[sync.target] - Height[tip] > MinBacklog

NeedsPull ==
  \/ Height[sync.target] > Height[tip]
  \/ Height[sync.target] = Height[tip] /\ sync.target \notin known

(* pushFrom: the canonical blocks above the last without a body, down to a *)
(* height, oldest first.                                                   *)
Pending(from) ==
  LET empty  == { Height[x] : x \in bodyless \cap Ancestors[tip] }
      lowest == Max({from} \cup { h + 1 : h \in empty })
  IN Chain(tip, lowest, Min({Height[tip], lowest + PushBatch - 1}))

PushCall(from) == [blocks |-> Pending(from), todo |-> {}]

PushStart == Height[sync.target] + 1

(* The tick after its pulls: push what lies above the servers' best tip.   *)
Rest ==
  IF Height[tip] > Height[sync.target]
  THEN [Idle EXCEPT !.at = "push", !.target = sync.target,
                    !.stack = <<PushCall(PushStart)>>]
  ELSE Idle

(* The tick after its fast-sync part: pull, with a small overlap, or not.  *)
Compare ==
  IF NeedsPull
  THEN [Idle EXCEPT !.at = "fetch", !.target = sync.target,
          !.cursor = Max({0, Height[tip] + 1 - Overlap})]
  ELSE Rest

EndPull == IF sync.stage = "tail" THEN Compare ELSE Rest

-----------------------------------------------------------------------------
(* A block arrives from a peer or the local miner: addBlock.               *)
Hear(b) ==
  /\ b \notin known \cup Invalid /\ Parent[b] \in mat
  /\ known' = known \cup {b} /\ mat' = mat \cup {b}
  /\ tip' = TipWith(tip, {b})
  /\ UNCHANGED <<srvVars, bodyless, sync, first, fastVars, lost, faults>>

ServerHears(s, b) ==
  /\ OtherPost(s, b)
  /\ UNCHANGED <<chainVars, sync, first, fastVars, lost, faults>>

(* The bridge poll, the isolation poll or kick(): syncOnce unless inFlight. *)
Poll ==
  /\ sync.at = "idle"
  /\ sync' = [Idle EXCEPT !.at = "tip"]
  /\ UNCHANGED <<srvVars, chainVars, first, fastVars, lost, faults>>

(* getServerTip: the servers of R answer, the last of them becomes the      *)
(* first to read; the best answer is the highest.                           *)
QueryTips(R) ==
  /\ sync.at = "tip" /\ Lose(Cardinality(Server \ R))
  /\ \/ R = {} /\ sync' = Idle /\ UNCHANGED first
     \/ /\ \E s \in R :
             /\ \A r \in R : Height[srvTip[r]] <= Height[srvTip[s]]
             /\ sync' = [sync EXCEPT !.at = "answered", !.target = srvTip[s]]
        /\ first' \in R
  /\ UNCHANGED <<srvVars, chainVars, fastVars, faults>>

(* The answers are in: fast sync, or go on.                                *)
Decide ==
  /\ sync.at = "answered"
  /\ IF ~fastDone /\ FastSyncEligible
     THEN attempts' = attempts + 1 /\ sync' = [sync EXCEPT !.at = "headers"]
     ELSE sync' = Compare /\ UNCHANGED attempts
  /\ UNCHANGED <<srvVars, chainVars, first, fastDone, lost, faults>>

-----------------------------------------------------------------------------
(* fetchHeadersBatch, to the last page: from the first server that has any. *)
HeadersFrom(s) == Headers(s, Height[sync.target])

(* fetchSnapshot: of a block among the headers, not too far below the last. *)
SnapshotsFrom(s) ==
  { a \in Snapshots(s, Depth) \cap Ancestors[sync.top] :
      Height[sync.top] - Height[a] <= MaxTail }

(* attemptFastSync, the headers: up to the target's height.                *)
FastHeaders(s) ==
  /\ sync.at = "headers"
  /\ sync' = [sync EXCEPT !.at = "snapshot", !.top = HeadersFrom(s)]
  /\ first' = s
  /\ UNCHANGED <<srvVars, chainVars, fastVars, lost, faults>>

(* The snapshot: seed the headers below its block, force that to be the    *)
(* tip, and pull the tail above it.                                        *)
FastSeed(s) ==
  \E a \in SnapshotsFrom(s) :
    LET new == Ancestors[a] \ known
    IN /\ sync.at = "snapshot"
       /\ known' = known \cup new /\ bodyless' = bodyless \cup new
       /\ mat' = mat \cup (new \cap {a})
       /\ tip' = IF a \in new THEN a ELSE tip
       /\ sync' = [Idle EXCEPT !.at = "fetch", !.target = sync.target,
                               !.stage = "tail", !.cursor = Height[a] + 1]
       /\ fastDone' = TRUE /\ first' = s
       /\ UNCHANGED <<srvVars, attempts, lost, faults>>

(* Mutant: the attempts are not limited.                                   *)
RetriesForEver == TRUE

(* A transient failure leaves another attempt to the next tick.            *)
RetriesLeft == attempts < MaxAttempts

(* Any step of it fails: the rest of this tick is skipped when the failure *)
(* is transient and attempts are left; otherwise full sync, for good.      *)
FastRetry ==
  /\ sync.at \in {"headers", "snapshot"} /\ RetriesLeft
  /\ sync' = Idle
  /\ UNCHANGED <<srvVars, chainVars, first, fastVars, lost, faults>>

FastGiveUp ==
  /\ sync.at \in {"headers", "snapshot"}
  /\ fastDone' = TRUE /\ sync' = Compare
  /\ UNCHANGED <<srvVars, chainVars, first, attempts, lost, faults>>

-----------------------------------------------------------------------------
(* pullFrom: one batch is read.                                            *)
Fetch(s) ==
  LET blocks == Window(s, sync.cursor, PullBatch)
  IN /\ sync.at = "fetch" /\ Reads(s)
     /\ sync' = IF blocks = <<>> THEN EndPull
                ELSE [sync EXCEPT !.at = "verify", !.batch = blocks]
     /\ UNCHANGED <<srvVars, chainVars, fastVars, faults>>

FetchLost ==
  /\ sync.at = "fetch" /\ Lose(Cardinality(Server))
  /\ sync' = EndPull
  /\ UNCHANGED <<srvVars, chainVars, first, fastVars, faults>>

(* addBlockWithPow of one block of a batch whose verdicts are false for     *)
(* `bad`: not valid; there already; the parent unknown, which ends the      *)
(* round unless the cursor is at the genesis; rejected; or stored.          *)
AddPulled(c, b, bad) ==
  IF c.back \/ b \in bad THEN c
  ELSE IF b \in c.known THEN [c EXCEPT !.applied = @ + 1]
  ELSE IF Parent[b] \notin c.known THEN [c EXCEPT !.back = sync.cursor > 0]
  ELSE IF b \in Invalid \/ Parent[b] \notin c.mat THEN c
  ELSE [c EXCEPT !.known = @ \cup {b}, !.mat = @ \cup {b},
                 !.tip = TipWith(@, {b}), !.applied = @ + 1]

(* Mutant: the cursor stays where it is.                                   *)
BackOffNot == sync.cursor

(* "Server's chain branches from ours below our tip - back off further."   *)
BackOff == Max({0, sync.cursor - PullBatch})

(* The verdicts are in (`wrong` are good blocks the pool gave up on): apply *)
(* the batch, and go on above it, further below, or no more.                *)
Apply(wrong) ==
  LET start == [known |-> known, mat |-> mat, tip |-> tip, applied |-> 0,
                back |-> FALSE]
      r == FoldLeft(LAMBDA c, b : AddPulled(c, b, wrong), start, sync.batch)
  IN /\ sync.at = "verify"
     /\ faults' = faults + (IF wrong = {} THEN 0 ELSE 1) /\ faults' <= MaxFaults
     /\ known' = r.known /\ mat' = r.mat /\ tip' = r.tip
     /\ sync' = IF ~r.back /\ r.applied = 0 THEN EndPull
                ELSE [sync EXCEPT !.at = "fetch", !.batch = <<>>,
                        !.cursor = IF r.back THEN BackOff ELSE @ + Len(sync.batch)]
     /\ UNCHANGED <<srvVars, bodyless, first, fastVars, lost>>

-----------------------------------------------------------------------------
Inner == Head(sync.stack)
Outer == Tail(sync.stack)
Sending(call) == Head(call.blocks)

(* `call` with its block answered by all but `todo`, who lack the parent:  *)
(* a call for the parent inside it, or on to its next block.               *)
Answered(call, todo) ==
  IF todo = {} THEN <<[blocks |-> Tail(call.blocks), todo |-> {}]>>
  ELSE <<PushCall(Height[Parent[Sending(call)]]), [call EXCEPT !.todo = todo]>>

(* fanoutWriteWith: the block is posted to every server, those of R get it *)
(* and the answers of A come back.                                         *)
PushBlock(R, A) ==
  /\ sync.at = "push" /\ Inner.blocks # <<>> /\ A \subseteq R
  /\ Lose(Cardinality(Server \ A)) /\ Post(R, Sending(Inner))
  /\ sync' = [sync EXCEPT !.stack =
       Answered(Inner, { s \in A : Orphaned(s, Sending(Inner)) }) \o Outer]
  /\ first' \in (IF A = {} THEN {first} ELSE A)
  /\ UNCHANGED <<chainVars, fastVars, faults>>

(* The call for the parent is done: post the block once more to the server *)
(* that asked for it, and see to the next server.                          *)
PushRetry(s) ==
  /\ sync.at = "push" /\ Inner.blocks = <<>> /\ Outer # <<>>
  /\ s \in Head(Outer).todo
  /\ \/ Post({s}, Sending(Head(Outer))) /\ UNCHANGED lost
     \/ Lose(1) /\ UNCHANGED srvVars
  /\ sync' = [sync EXCEPT !.stack =
       Answered(Head(Outer), Head(Outer).todo \ {s}) \o Tail(Outer)]
  /\ UNCHANGED <<chainVars, first, fastVars, faults>>

(* The outermost call returns: the tick is over.                           *)
PushDone ==
  /\ sync.at = "push" /\ Inner.blocks = <<>> /\ Outer = <<>>
  /\ sync' = Idle
  /\ UNCHANGED <<srvVars, chainVars, first, fastVars, lost, faults>>

SyncStep ==
  \/ Poll
  \/ \E R \in SUBSET Server : QueryTips(R)
  \/ Decide
  \/ \E s \in Server : FastHeaders(s)
  \/ \E s \in Server : FastSeed(s)
  \/ FastRetry
  \/ FastGiveUp
  \/ \E s \in Server : Fetch(s)
  \/ FetchLost
  \/ \E wrong \in SUBSET ToSet(sync.batch) : Apply(wrong)
  \/ \E R, A \in SUBSET Server : PushBlock(R, A)
  \/ \E s \in Server : PushRetry(s)
  \/ PushDone

Next ==
  \/ SyncStep
  \/ \E b \in Block : Hear(b)
  \/ \E s \in Server, b \in Block : ServerHears(s, b)

(* The timers run for ever and every request is answered or given up.      *)
Spec == Init /\ [][Next]_vars /\ WF_vars(SyncStep)

-----------------------------------------------------------------------------
(* Every tick comes to an end: neither the cursor's back-off nor the push   *)
(* recursion goes round for ever, whatever branch each side is on. A tick   *)
(* that does not keeps inFlight, and with it every later poll, from syncing. *)
SyncEnds == sync.at # "idle" ~> sync.at = "idle"

(* "We sync to whoever is furthest ahead": once the chains stand still the *)
(* node is as high as every server, through forks, outages, wrong verdicts *)
(* and abandoned fast syncs.                                               *)
CatchesUp ==
  <>[](\A s \in Server : Height[tip] >= Height[srvTip[s]])

(* What the node has beyond the servers reaches one of them: no block it   *)
(* mined while a sync was in flight or a server away is forgotten.         *)
Delivered ==
  <>[](\E s \in Server : Height[srvTip[s]] >= Height[tip])

(* syncOnce brings the node and its servers to one height.                 *)
Converges == SyncEnds /\ CatchesUp /\ Delivered
=============================================================================
