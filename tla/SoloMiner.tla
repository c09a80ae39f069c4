------------------------------ MODULE SoloMiner ------------------------------
(***************************************************************************)
(* The solo mode of tools/headless-miner.ts with its native engine, and    *)
(* one helper server with a disk (ServerStore). One thread runs the miner: *)
(* an action is what its main loop does between two awaits, or the callback *)
(* of a native event.                                                      *)
(*                                                                         *)
(* A template stands for the block it builds on; the native process works  *)
(* on the template at hand (NativeMiner shows that it reports no other).   *)
(* The miner keeps nothing on disk and, once a sync fails, goes on mining. *)
(***************************************************************************)
EXTENDS ServerStore

CONSTANTS
  Mine,         \* the blocks the miner may solve
  Early,        \* blocks that come too far from the future at first
  Lookback,     \* "5": a sync begins that much below its next height
  PullMax       \* "200": blocks per request, and the step back

ASSUME SoloMinerConstants ==
  /\ Client = {"solo", "net"} /\ Mine \subseteq Block \ Invalid
  /\ Lookback \in Nat /\ PullMax \in Nat \ {0}

VARIABLES
  started,   \* whether initialSync is over
  at,        \* where the main loop waits
  known,     \* the miner's chain.blocks
  mtip,      \* its tip
  template,  \* activeNativeCandidate: the block it builds on, or NoBlock
  found,     \* finishSolved under way: the solved blocks before their addBlock
  posting,   \* the blocks being sent to the server
  solved,    \* history: every block solved
  target,    \* sync: tip.height
  cursor, batch,  \* sync: cursor, what is left of a batch
  clock      \* whether the early blocks are acceptable by now

grinding == <<template, found, posting, solved>>
pull == <<target, cursor, batch>>
tree == <<known, mtip>>
minerVars == <<started, at, tree, grinding, pull, clock>>
serverButFaults == <<mode, memory, store, owed>>
vars == <<serverVars, minerVars>>

TypeOK ==
  /\ ServerTypeOK
  /\ started \in BOOLEAN
  /\ at \in {"tip", "fetch", "add", "sleep", "sleepKept", "build", "dead"}
  /\ known \subseteq Block /\ mtip \in known
  /\ template \in known \cup {NoBlock} /\ (template # NoBlock => at # "dead")
  /\ found \subseteq solved /\ posting \subseteq solved \cap known
  /\ solved \subseteq Mine
  /\ target \in Nat /\ cursor \in Nat
  /\ batch \in Seq(Block) /\ (batch # <<>> => at = "add") /\ clock \in BOOLEAN

Init ==
  /\ ServerInit
  /\ started = FALSE /\ at = "tip" /\ known = {Genesis} /\ mtip = Genesis
  /\ template = NoBlock /\ found = {} /\ posting = {} /\ solved = {}
  /\ target = 0 /\ cursor = 0 /\ batch = <<>> /\ clock = FALSE

Learn(b) ==
  /\ known' = known \cup {b}
  /\ mtip' = IF Work[b] > Work[mtip] THEN b ELSE mtip

-----------------------------------------------------------------------------
(* The main loop                                                           *)

(* buildCandidate, and a fresh job; or the job at hand goes on when the    *)
(* candidate is the same but for its time, and that is not too old.        *)
Build ==
  /\ at = "build" /\ started' = TRUE
  /\ \/ template = mtip /\ at' = "sleepKept" /\ UNCHANGED template
     \/ at' = "sleep" /\ template' = mtip
  /\ UNCHANGED <<serverVars, tree, found, posting, solved, pull, clock>>

(* The interval is over: a solved or exhausted template is replaced before *)
(* the next sync.                                                          *)
WakeUp ==
  /\ at \in {"sleep", "sleepKept"}
  /\ at' = IF at = "sleep" /\ template = NoBlock THEN "build" ELSE "tip"
  /\ UNCHANGED <<serverVars, started, tree, grinding, pull, clock>>

(* A native "solved" event, up to finishSolved's addBlock.                 *)
Solve(b) ==
  /\ template # NoBlock /\ Parent[b] = template /\ b \in Mine \ solved
  /\ template' = NoBlock /\ found' = found \cup {b} /\ solved' = solved \cup {b}
  /\ UNCHANGED <<serverVars, started, at, tree, posting, pull, clock>>

(* A native "exhausted" event, of whichever thread is through first.       *)
Exhausted ==
  /\ template # NoBlock /\ template' = NoBlock /\ Fault
  /\ UNCHANGED <<serverButFaults, started, at, tree, found, posting, solved, pull, clock>>

(* finishSolved: addBlock is through, submitBlock begins.                  *)
Finish(b) ==
  /\ b \in found /\ found' = found \ {b} /\ posting' = posting \cup {b}
  /\ Learn(b) /\ UNCHANGED <<serverVars, started, at, template, solved, pull, clock>>

(* The request reaches the server, or not; its answer is only logged.      *)
Submit(b) ==
  /\ b \in posting /\ posting' = posting \ {b} /\ Post("solo", b)
  /\ UNCHANGED <<started, at, tree, template, found, solved, pull, clock>>

SubmitLost(b) ==
  /\ b \in posting /\ posting' = posting \ {b}
  /\ UNCHANGED <<serverVars, started, at, tree, template, found, solved, pull, clock>>

-----------------------------------------------------------------------------
(* sync                                                                    *)

Least(a, b) == IF a < b THEN a ELSE b
Minus(a, b) == IF a < b THEN 0 ELSE a - b

(* The end of a sync or of a round that failed: back to the main loop.     *)
LeaveSync(place) == at' = place /\ batch' = <<>> /\ target' = 0 /\ cursor' = 0
EndSync == LeaveSync("build")

(* while (cursor <= tip.height)                                            *)
PullFrom(height, top) ==
  IF height > top THEN EndSync
  ELSE at' = "fetch" /\ cursor' = height /\ target' = top /\ batch' = <<>>

GetBestTip ==
  /\ at = "tip" /\ Running
  /\ PullFrom(Minus(Height[mtip] + 1, Lookback), Height[tip])
  /\ UNCHANGED <<serverVars, started, tree, grinding, clock>>

(* GET /blocks: the window of the server's chain at that moment.           *)
Fetch ==
  LET top == Least(Height[tip], cursor + PullMax - 1)
  IN /\ at = "fetch" /\ Running
     /\ IF top < cursor THEN EndSync
        ELSE /\ at' = "add"
             /\ batch' = [i \in 1..(top - cursor + 1) |->
                  CHOOSE b \in Ancestors[tip] : Height[b] = cursor + i - 1]
             /\ UNCHANGED <<target, cursor>>
     /\ UNCHANGED <<serverVars, started, tree, grinding, clock>>

(* A request fails: the first sync ends the program, later ones are        *)
(* deferred (syncSoft).                                                    *)
Unreachable ==
  /\ at \in {"tip", "fetch"}
  /\ LeaveSync(IF started THEN "build" ELSE "dead")
  /\ IF Running THEN Fault ELSE UNCHANGED faults
  /\ UNCHANGED <<serverButFaults, started, tree, grinding, clock>>

StepBack(height) == Minus(height, PullMax)

(* One block of the batch: addBlock, then the next one, the step back, the *)
(* next window or the end.                                                 *)
AddPulled ==
  LET b == Head(batch)
      refused == b \in Invalid \/ (b \in Early /\ ~clock)
  IN /\ at = "add" /\ batch # <<>>
     /\ \/ /\ b \in known \/ (Parent[b] \in known /\ ~refused)
           /\ Learn(b)
           /\ IF Len(batch) > 1
              THEN /\ batch' = Tail(batch)
                   /\ UNCHANGED <<at, target, cursor>>
              ELSE PullFrom(Height[b] + 1, target)
        \/ /\ b \notin known /\ Parent[b] \in known /\ refused
           /\ EndSync /\ UNCHANGED tree
        \/ /\ b \notin known /\ Parent[b] \notin known
           /\ PullFrom(StepBack(cursor), target) /\ UNCHANGED tree
     /\ UNCHANGED <<serverVars, started, grinding, clock>>

-----------------------------------------------------------------------------
TimePasses ==
  /\ ~clock /\ clock' = TRUE
  /\ UNCHANGED <<serverVars, started, at, tree, grinding, pull>>

(* Others post their blocks to the server, one after the other and in any  *)
(* order.                                                                  *)
OtherPosts(b) ==
  /\ b \notin Mine \cup held /\ (\A h \in handlers : h.from # "net")
  /\ Post("net", b) /\ UNCHANGED minerVars

MainLoop == Build \/ WakeUp \/ GetBestTip \/ Fetch \/ AddPulled \/ Unreachable

Next ==
  \/ MainLoop
  \/ \E b \in Mine : Solve(b) \/ Finish(b) \/ Submit(b) \/ SubmitLost(b)
  \/ Exhausted
  \/ \E b \in Block : OtherPosts(b)
  \/ TimePasses
  \/ ServerNext /\ UNCHANGED minerVars

(* The event loops run what can run, a server that runs answers, and the   *)
(* process manager restarts one that does not.                             *)
Fairness ==
  /\ \A c \in Client : WF_vars(Serve(c) /\ UNCHANGED minerVars)
  /\ WF_vars((FlushStart \/ FlushLast \/ Start) /\ UNCHANGED minerVars)
  /\ WF_vars(FlushDone /\ UNCHANGED minerVars)
  /\ WF_vars(MainLoop) /\ WF_vars(TimePasses)
  /\ \A b \in Mine : WF_vars(Finish(b))

Spec == Init /\ [][Next]_vars /\ Fairness

-----------------------------------------------------------------------------
(* Nobody falls behind for good, over lost requests, crashes, failed       *)
(* writes, early blocks and forks longer than the lookback: what the server *)
(* holds gets on its disk, and the miner, unless its first sync failed,    *)
(* comes to mine on a chain at least as heavy as the server's.             *)
KeepsUp ==
  /\ []<>(~Running \/ disk = tip)
  /\ []<>(at = "dead" \/ Work[mtip] >= Work[tip])

(* Both programs keep their types, and the server its parked and saved     *)
(* blocks (ServerStore), with the miner as one of its clients.             *)
SoloSound == TypeOK /\ ServerKeeps

(* The miner's answer to "parentNeeded": a block of its own that the server *)
(* parks gets its parent.                                                  *)
ParentFollows ==
  \A b \in Mine :
    Running /\ (\E i \in DOMAIN orphans : orphans[i] = b) ~>
      ~Running \/ Parent[b] \in held \/ \A i \in DOMAIN orphans : orphans[i] # b
=============================================================================
