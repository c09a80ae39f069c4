---------------------------- MODULE MinerController ----------------------------
(***************************************************************************)
(* The browser miner: src/miner/controller.ts on the main thread, the      *)
(* workers of src/miner/miner.worker.ts, the messages between them, and    *)
(* what src/node.ts does with a solution. A handler of the main thread is  *)
(* one step: addBlock of a block of today's height hashes synchronously    *)
(* (crypto/pow.ts, Sandglass) and is over before the next message.         *)
(*                                                                         *)
(* A template is the number of the restartTemplate call that made it, with *)
(* the tip it extends; a solution is the template it was found for. Which  *)
(* transactions a template holds is the business of Mempool. Hash rates    *)
(* and counters for display are left out.                                  *)
(***************************************************************************)
EXTENDS Naturals, Sequences, FiniteSets

CONSTANTS
  MaxWorkers,   \* maxMinerWorkers()
  Budgets       \* bound: how often each thing happens from outside

(* What MCParts, which instantiates this module, assumes of them.          *)
ControllerConstants ==
  /\ MaxWorkers \in Nat \ {0}
  /\ Budgets \subseteq [user : Nat, news : Nat, solves : Nat, ooms : Nat,
                        hangs : Nat, seeds : Nat, probes : Nat]

NoTemplate == [id |-> 0, on |-> 0]

VARIABLES
  ctl,       \* the MinerController
  workers,   \* its Web Workers with the messages both ways
  tip,       \* the chain's tip, counted in moves
  syncing,   \* the start gate
  seeded,    \* a fast sync has moved the tip without a tip event
  left,      \* what is left of a budget
  mined      \* history: what our own blocks extend, and whether `seeded` then

vars == <<ctl, workers, tip, syncing, seeded, left, mined>>

-----------------------------------------------------------------------------
StopMsg == 0
Out == [type : {"solved", "oom", "exhausted"}, id : Nat]

(* A worker: its messages in and out, `mining`, its grind loops with what  *)
(* they grind and whether theirs is the present generation.                *)
NewWorker == [inbox |-> <<>>, out |-> <<>>, mining |-> FALSE, loops |-> {}, hung |-> FALSE]

Post(ws, msgs) == [i \in DOMAIN ws |-> [ws[i] EXCEPT !.inbox = @ \o msgs]]

Init ==
  /\ ctl = [running |-> FALSE, count |-> 1, auto |-> TRUE, min |-> 1, max |-> MaxWorkers,
            locked |-> FALSE, warm |-> FALSE, oom |-> FALSE, template |-> NoTemplate,
            made |-> 0]
  /\ workers = <<>> /\ tip = 1 /\ syncing = TRUE /\ seeded = FALSE
  /\ left \in Budgets /\ mined = <<>>

(* The controller and its workers together, as the handlers pass them on.  *)
Both == [c |-> ctl, ws |-> workers]
Becomes(b) == ctl' = b.c /\ workers' = b.ws

(* restartTemplate with tip t: a new template, and stop and start to all.  *)
RestartTemplate(b, t) ==
  IF b.ws = <<>> THEN b
  ELSE LET id == b.c.made + 1
       IN [c  |-> [b.c EXCEPT !.template = [id |-> id, on |-> t], !.made = id],
           ws |-> Post(b.ws, <<StopMsg, id>>)]

(* spawnWorkers: terminates the old ones, whose messages go with them.     *)
SpawnWorkers(b) == [b EXCEPT !.ws = [i \in 1..b.c.count |-> NewWorker]]

Refresh(b, t) == IF b.c.running THEN RestartTemplate(b, t) ELSE b

SetWorkerCount(b, n) ==
  IF n = b.c.count THEN b
  ELSE LET set == [b EXCEPT !.c.count = n]
       IN IF b.c.running THEN RestartTemplate(SpawnWorkers(set), tip) ELSE set

Clamp(n, lo, hi) == IF n > hi THEN hi ELSE IF n < lo THEN lo ELSE n

-----------------------------------------------------------------------------
(* What the user does.                                                     *)
Spend(what) == left[what] > 0 /\ left' = [left EXCEPT ![what] = @ - 1]
Env == <<tip, syncing, seeded, mined>>

Start ==
  /\ ~ctl.running /\ ~syncing
  /\ LET on == [ctl EXCEPT !.running = TRUE, !.locked = FALSE, !.warm = FALSE, !.oom = FALSE,
                  !.count = IF ctl.auto THEN Clamp(@, ctl.min, ctl.max) ELSE @]
     IN Becomes(RestartTemplate(SpawnWorkers([c |-> on, ws |-> workers]), tip))
  /\ Spend("user") /\ UNCHANGED Env

Stop ==
  /\ ctl.running /\ Spend("user")
  /\ ctl' = [ctl EXCEPT !.running = FALSE, !.template = NoTemplate]
  /\ workers' = <<>> /\ UNCHANGED Env

(* setThrottle, setMinerAddress (restartTemplate) and restartWorkers.      *)
Adjust ==
  /\ ctl.running /\ Spend("user")
  /\ \/ Becomes(RestartTemplate(Both, tip))
     \/ Becomes(RestartTemplate(SpawnWorkers(Both), tip))
  /\ UNCHANGED Env

(* The thread slider, shown in manual mode only.                           *)
Slide(n) ==
  /\ ~ctl.auto /\ n # ctl.count /\ Spend("user")
  /\ Becomes(SetWorkerCount(Both, n)) /\ UNCHANGED Env

(* setControlMode: mode and bounds; auto-mode takes the count along.       *)
SetControlMode(auto, lo, hi) ==
  LET turned == auto # ctl.auto
      low == IF lo > hi THEN hi ELSE lo
      set == [ctl EXCEPT !.auto = auto, !.min = low, !.max = hi,
                !.locked = IF turned THEN FALSE ELSE @,
                !.warm = IF turned THEN FALSE ELSE @]
      n == CASE ~auto -> ctl.count
             [] auto /\ turned -> hi
             [] auto /\ ~turned -> Clamp(ctl.count, low, hi)
  IN /\ Spend("user")
     /\ Becomes(SetWorkerCount([c |-> set, ws |-> workers], n)) /\ UNCHANGED Env

User ==
  \/ Start \/ Stop \/ Adjust
  \/ \E n \in 1..MaxWorkers : Slide(n)
  \/ \E auto \in BOOLEAN, lo, hi \in 1..MaxWorkers : SetControlMode(auto, lo, hi)

-----------------------------------------------------------------------------
(* The chain and the mempool.                                              *)
NewTip ==
  /\ Spend("news") /\ tip' = tip + 1 /\ seeded' = FALSE
  /\ Becomes(Refresh(Both, tip + 1)) /\ UNCHANGED <<syncing, mined>>

PoolChanged ==
  /\ ctl.running /\ Spend("news") /\ Becomes(Refresh(Both, tip)) /\ UNCHANGED Env

(* A fast sync seeds its anchor: no tip event; ServerSync's onUpdate or    *)
(* the tail's first block refreshes the miner later.                       *)
SeedAnchor ==
  /\ Spend("seeds") /\ tip' = tip + 1 /\ seeded' = TRUE
  /\ UNCHANGED <<ctl, workers, syncing, mined>>

AfterSeeding ==
  /\ seeded /\ seeded' = FALSE /\ Becomes(Refresh(Both, tip))
  /\ UNCHANGED <<tip, syncing, left, mined>>

CaughtUp == syncing /\ syncing' = FALSE /\ UNCHANGED <<ctl, workers, tip, seeded, left, mined>>

-----------------------------------------------------------------------------
(* The workers.                                                            *)
(* For a mutant: a loop has no generation, only `mining` stops it.         *)
NotSuperseded(loops) == loops
Superseded(loops) == {[l EXCEPT !.live = FALSE] : l \in loops}

WorkerHears(i) ==
  LET w == workers[i]
      m == Head(w.inbox)
      heard == [w EXCEPT !.inbox = Tail(@), !.mining = m # StopMsg,
                  !.loops = Superseded(@) \cup
                    (IF m = StopMsg THEN {} ELSE {[t |-> m, live |-> TRUE]})]
  IN /\ ~w.hung /\ w.inbox # <<>> /\ workers' = [workers EXCEPT ![i] = heard]
     /\ UNCHANGED <<ctl, left>> /\ UNCHANGED Env

Grinds(w) == {l \in w.loops : w.mining /\ l.live}

(* A loop checks `mining` and its generation: it ends, or does a batch and *)
(* may report a solution, an allocation that failed, or a nonce space      *)
(* without a solution, after which it ends.                                *)
LoopEnds(i) ==
  /\ ~workers[i].hung
  /\ \E l \in workers[i].loops \ Grinds(workers[i]) :
       workers' = [workers EXCEPT ![i].loops = @ \ {l}]
  /\ UNCHANGED <<ctl, left>> /\ UNCHANGED Env

Reports(i, type) ==
  /\ ~workers[i].hung /\ Spend(IF type = "oom" THEN "ooms" ELSE "solves")
  /\ \E l \in Grinds(workers[i]) :
       workers' = [workers EXCEPT
         ![i].out = Append(@, [type |-> type, id |-> l.t]),
         ![i].loops = IF type = "exhausted" THEN @ \ {l} ELSE @]
  /\ UNCHANGED ctl /\ UNCHANGED Env

(* It stalls or its script fails to load: silence until it is replaced.    *)
Hang(i) ==
  /\ ~workers[i].hung /\ Spend("hangs")
  /\ workers' = [workers EXCEPT ![i].hung = TRUE]
  /\ UNCHANGED ctl /\ UNCHANGED Env

Worker(i) == WorkerHears(i) \/ LoopEnds(i)

-----------------------------------------------------------------------------
(* onWorker.                                                               *)
Taken(i) == [workers EXCEPT ![i].out = Tail(@)]
FirstIs(i, type) == workers[i].out # <<>> /\ Head(workers[i].out).type = type

OnOom(i) ==
  /\ FirstIs(i, "oom") /\ Becomes([c |-> [ctl EXCEPT !.oom = TRUE], ws |-> Taken(i)])
  /\ UNCHANGED left /\ UNCHANGED Env

OnExhausted(i) ==
  /\ FirstIs(i, "exhausted") /\ Becomes(RestartTemplate([c |-> ctl, ws |-> Taken(i)], tip))
  /\ UNCHANGED left /\ UNCHANGED Env

(* solved: all workers stop, the nonce goes into the present template, and *)
(* the node adds the block. It is valid only when it was found for that    *)
(* template; it moves the tip, and with it the miner, unless the tip has   *)
(* moved away from under the template.                                     *)
OnSolved(i) ==
  LET halted == [c |-> ctl, ws |-> Post(Taken(i), <<StopMsg>>)]
      valid  == Head(workers[i].out).id = ctl.template.id
      longer == tip = ctl.template.on
  IN /\ FirstIs(i, "solved") /\ UNCHANGED <<syncing, seeded, left>>
     /\ IF ~valid
        THEN Becomes(Refresh(halted, tip)) /\ UNCHANGED <<tip, mined>>
        ELSE /\ mined' = Append(mined, [on |-> ctl.template.on, seeded |-> seeded])
             /\ tip' = IF longer THEN tip + 1 ELSE tip
             /\ Becomes(IF longer THEN Refresh(halted, tip + 1) ELSE halted)

OnWorker(i) == OnOom(i) \/ OnExhausted(i) \/ OnSolved(i)

-----------------------------------------------------------------------------
(* The health timer.                                                       *)
(* Silent for 30 s: stalled, or idle with nothing to read.                 *)
Silent(w) == w.hung \/ (w.inbox = <<>> /\ w.out = <<>> /\ Grinds(w) = {})

(* For a mutant: the replacement is not told what to grind.                *)
RespawnIdle(b, i) == [b EXCEPT !.ws[i] = NewWorker]
RespawnWorker(b, i) == RestartTemplate([b EXCEPT !.ws[i] = NewWorker], tip)

Respawn ==
  /\ ctl.running
  /\ \E i \in DOMAIN workers : Silent(workers[i]) /\ Becomes(RespawnWorker(Both, i))
  /\ UNCHANGED left /\ UNCHANGED Env

(* For a mutant: it goes on probing when it is locked.                     *)
MayProbeLocked(c) == c.count < c.max
MayProbe(c) == ~c.locked /\ c.count < c.max

(* autoTune, every PROBE_INTERVAL_MS.                                      *)
AutoTune ==
  LET seen == [ctl EXCEPT !.oom = FALSE]
      down == IF ctl.count > ctl.min THEN ctl.count - 1 ELSE ctl.min
      n == CASE ctl.oom -> down
             [] ~ctl.oom /\ MayProbe(ctl) -> ctl.count + 1
             [] OTHER -> ctl.count
      c == IF ~ctl.warm THEN [seen EXCEPT !.warm = TRUE]
           ELSE [seen EXCEPT !.locked = @ \/ ctl.oom]
  IN /\ ctl.running /\ ctl.auto /\ Spend("probes")
     /\ Becomes(SetWorkerCount([c |-> c, ws |-> workers], IF ctl.warm THEN n ELSE ctl.count))
     /\ UNCHANGED Env

(* refreshTemplateIfDifficultyChanged: the emergency drop sets in.         *)
DifficultyChanged ==
  /\ ctl.running /\ ctl.template # NoTemplate /\ Spend("news")
  /\ Becomes(RestartTemplate(Both, tip)) /\ UNCHANGED Env

HealthTick == Respawn \/ AutoTune \/ DifficultyChanged

-----------------------------------------------------------------------------
Next ==
  \/ User \/ NewTip \/ PoolChanged \/ SeedAnchor \/ AfterSeeding \/ CaughtUp \/ HealthTick
  \/ \E i \in DOMAIN workers : Worker(i) \/ OnWorker(i) \/ Hang(i)
  \/ \E i \in DOMAIN workers, type \in {"solved", "oom", "exhausted"} : Reports(i, type)

(* Event loops take their messages, the health timer ticks, and a fast     *)
(* sync goes on to its end. Nobody has to find a block.                    *)
Fairness ==
  /\ WF_vars(CaughtUp) /\ WF_vars(AfterSeeding) /\ WF_vars(Respawn)
  /\ \A i \in 1..MaxWorkers :
       /\ WF_vars(i \in DOMAIN workers /\ Worker(i))
       /\ WF_vars(i \in DOMAIN workers /\ OnWorker(i))

Spec == Init /\ [][Next]_vars /\ Fairness

-----------------------------------------------------------------------------
(* Every variable keeps its type. A running miner has as many workers as   *)
(* it says, in auto mode a number between the bounds.                      *)
TypeOK ==
  /\ ctl \in [running : BOOLEAN, count : 1..MaxWorkers, auto : BOOLEAN,
              min : 1..MaxWorkers, max : 1..MaxWorkers, locked : BOOLEAN, warm : BOOLEAN,
              oom : BOOLEAN, template : [id : Nat, on : Nat], made : Nat]
  /\ \A i \in DOMAIN workers :
       /\ workers[i].inbox \in Seq(Nat) /\ workers[i].out \in Seq(Out)
       /\ workers[i].loops \subseteq [t : Nat, live : BOOLEAN]
       /\ {workers[i].mining, workers[i].hung} \subseteq BOOLEAN
  /\ {syncing, seeded} \subseteq BOOLEAN /\ tip \in Nat /\ mined \in Seq([on : Nat, seeded : BOOLEAN])
  /\ Len(workers) = IF ctl.running THEN ctl.count ELSE 0
  /\ ctl.running /\ ctl.auto => ctl.count \in ctl.min..ctl.max

(* A worker never grinds two templates at once, whatever stops and starts  *)
(* it read in between (miner.worker.ts 54-61).                             *)
OneLoop == \A i \in DOMAIN workers : Cardinality(Grinds(workers[i])) <= 1

(* Two workers, or one twice, solve the same template: the miner does not  *)
(* compete with itself at one height (controller.ts 543-546), except while *)
(* it does not know of the anchor that a fast sync has seeded.             *)
NoCompetitor ==
  \A j, k \in DOMAIN mined : j < k /\ mined[j].on = mined[k].on => mined[k].seeded

(* No hash is spent twice: neither by a worker nor by the tab.             *)
NoDoubleWork == OneLoop /\ NoCompetitor

(* A tuner that has backed off holds: it takes no thread back until the    *)
(* user changes the mode or the bounds, or starts anew.                    *)
TunerHolds ==
  [][ctl.locked /\ ctl'.locked /\ ctl.running /\ ctl'.running
       /\ <<ctl.auto, ctl.min, ctl.max>> = <<ctl'.auto, ctl'.min, ctl'.max>> /\ ctl.auto
     => ctl'.count <= ctl.count]_vars

Grinding ==
  /\ ctl.template.on = tip
  /\ \A i \in DOMAIN workers :
       workers[i].inbox = <<>> /\ {l.t : l \in Grinds(workers[i])} = {ctl.template.id}

(* Once nothing happens any more, a running miner grinds the present       *)
(* template on the present tip with every worker: no solution, stale or    *)
(* rejected, no stall and no fast sync leaves a worker stopped for good.   *)
KeepsGrinding == <>[](ctl.running => Grinding)
=============================================================================
