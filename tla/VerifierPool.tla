----------------------------- MODULE VerifierPool -----------------------------
(***************************************************************************)
(* The pool of PoW verifier workers of src/chain/verifierPool.ts: dispatch *)
(* and retry, the per-job timer racing a late answer, workers that die,    *)
(* live resizing, terminate(). Every handler runs to its end in one turn   *)
(* of the event loop; the workers run beside it and answer by message.     *)
(*                                                                         *)
(* The fields the methods read and write are one record, pool, so that a   *)
(* method that calls others is the composition of theirs.                  *)
(***************************************************************************)
EXTENDS Integers, Sequences, FiniteSets, Functions

CONSTANTS
  Job,            \* the verify() calls
  Good,           \* those whose header meets its target
  NoJob,
  WorkerId,       \* names for Worker objects; one is reused once it is gone
  InitialSize,    \* configuredVerifierCores()
  Sizes,          \* what setSize is called with, after clampCores
  MaxAttempts,    \* MAX_ATTEMPTS
  MaxTerminates   \* bound: terminate() calls in a behaviour

ASSUME PoolConstants ==
  /\ Good \subseteq Job /\ NoJob \notin Job
  /\ WorkerId \subseteq Nat /\ IsFiniteSet(WorkerId)
  /\ InitialSize \in Sizes /\ Sizes \subseteq 1..Cardinality(WorkerId)
  /\ MaxAttempts \in Nat \ {0} /\ MaxTerminates \in Nat

VARIABLES
  pool,        \* workers, idle, queue, busy; attempts and verdict of each job
  size,        \* size
  started,     \* started
  mail,        \* the answer a worker has posted and the main thread not read
  terminates

vars == <<pool, size, started, mail, terminates>>

-----------------------------------------------------------------------------
Pool == [ workers  : SUBSET WorkerId,
          idle     : SUBSET WorkerId,
          queue    : Seq(Job),
          busy     : [WorkerId -> Job \cup {NoJob}],
          attempts : [Job -> 0..MaxAttempts],
          verdict  : [Job -> {"new", "waiting", "true", "false", "lost"}] ]

TypeOK ==
  /\ pool \in Pool /\ size \in Sizes /\ started \in BOOLEAN
  /\ mail \in [WorkerId -> {"none", "ok", "bad", "err"}]
  /\ terminates \in 0..MaxTerminates

Init ==
  /\ pool = [ workers |-> {}, idle |-> {}, queue |-> <<>>,
              busy |-> [w \in WorkerId |-> NoJob],
              attempts |-> [j \in Job |-> 0],
              verdict |-> [j \in Job |-> "new"] ]
  /\ size = InitialSize /\ started = FALSE
  /\ mail = [w \in WorkerId |-> "none"] /\ terminates = 0

-----------------------------------------------------------------------------
(* Names for new Worker objects: neither alive nor with a message still on *)
(* its way. Which ones are taken is immaterial.                            *)
FreeNames(p) == { w \in WorkerId \ p.workers : mail[w] = "none" }
Spawned(p, k) == CHOOSE S \in SUBSET FreeNames(p) : Cardinality(S) = k

Dispatch(p, w, j) ==
  [p EXCEPT !.busy[w] = j, !.attempts[j] = @ + 1]

(* The timer is cleared and the job taken off the worker.                  *)
Unbusy(p, w) == [p EXCEPT !.busy[w] = NoJob]

Resolve(p, j, answer) == [p EXCEPT !.verdict[j] = answer]

Retire(p, w) == [p EXCEPT !.workers = @ \ {w}, !.idle = @ \ {w}]

(* Mutant: one attempt too many.                                           *)
RetryOneMore(p, j) ==
  IF p.attempts[j] > MaxAttempts
  THEN Resolve(p, j, "false") ELSE [p EXCEPT !.queue = Append(@, j)]

(* Mutant: a job out of attempts is dropped without an answer.             *)
RetryOrForget(p, j) ==
  IF p.attempts[j] >= MaxAttempts THEN p ELSE [p EXCEPT !.queue = Append(@, j)]

RetryOrFail(p, j) ==
  IF p.attempts[j] >= MaxAttempts
  THEN Resolve(p, j, "false") ELSE [p EXCEPT !.queue = Append(@, j)]

(* releaseWorker: the next queued job, or retire when the pool shrank, or  *)
(* park. A worker already retired is left alone.                           *)
ReleaseWorker(p, w, n) ==
  IF w \notin p.workers THEN p
  ELSE IF p.queue # <<>>
  THEN Dispatch([p EXCEPT !.queue = Tail(@)], w, Head(p.queue))
  ELSE IF Cardinality(p.workers) > n THEN Retire(p, w)
  ELSE [p EXCEPT !.idle = @ \cup {w}]

(* Mutant: failWorker replaces nothing.                                    *)
NoBackfill(p, n) == p

(* The end of failWorker: backfill the pool up to its size.                *)
Backfill(p, n) ==
  IF ~started \/ Cardinality(p.workers) >= n THEN p
  ELSE LET w == CHOOSE w \in FreeNames(p) : TRUE
       IN ReleaseWorker([p EXCEPT !.workers = @ \cup {w}], w, n)

FailWorker(p, w) ==
  LET j == p.busy[w]
      q == Retire(Unbusy(p, w), w)
  IN Backfill(IF j = NoJob THEN q ELSE RetryOrFail(q, j), size)

-----------------------------------------------------------------------------
(* ensureStarted()                                                         *)
EnsureStarted(p) ==
  IF started THEN p
  ELSE LET new == Spawned(p, size)
       IN [p EXCEPT !.workers = @ \cup new, !.idle = @ \cup new]

(* verify(block): an idle worker, if there is one, takes the job at once.  *)
Verify(j) ==
  /\ pool.verdict[j] = "new"
  /\ started \/ Cardinality(FreeNames(pool)) >= size
  /\ LET p == Resolve(EnsureStarted(pool), j, "waiting")
     IN pool' = IF p.idle = {} THEN [p EXCEPT !.queue = Append(@, j)]
                ELSE LET w == CHOOSE w \in p.idle : TRUE
                     IN Dispatch([p EXCEPT !.idle = @ \ {w}], w, j)
  /\ started' = TRUE
  /\ UNCHANGED <<size, mail, terminates>>

(* verifier.worker.ts: a verdict, or err when the hash could not be run.   *)
WorkerAnswers(w) ==
  /\ w \in pool.workers /\ pool.busy[w] # NoJob /\ mail[w] = "none"
  /\ \/ mail' = [mail EXCEPT ![w] = IF pool.busy[w] \in Good THEN "ok" ELSE "bad"]
     \/ mail' = [mail EXCEPT ![w] = "err"]
  /\ UNCHANGED <<pool, size, started, terminates>>

(* w.onmessage: the answer of a worker retired since finds no entry.       *)
OnMessage(w) ==
  /\ mail[w] # "none"
  /\ LET j == pool.busy[w]
         p == IF j = NoJob THEN pool
              ELSE IF mail[w] = "err" THEN RetryOrFail(Unbusy(pool, w), j)
              ELSE Resolve(Unbusy(pool, w), j, IF mail[w] = "ok" THEN "true" ELSE "false")
     IN pool' = ReleaseWorker(p, w, size)
  /\ mail' = [mail EXCEPT ![w] = "none"]
  /\ UNCHANGED <<size, started, terminates>>

(* A name must be free for the replacement (bound of WorkerId).            *)
CanReplace(w) == FreeNames(Retire(pool, w)) # {}

(* The timer of the job w works on: no answer for JOB_TIMEOUT_MS. Or one   *)
(* that is posted but not read yet.                                        *)
Timeout(w) ==
  /\ w \in pool.workers /\ pool.busy[w] # NoJob /\ CanReplace(w)
  /\ pool' = FailWorker(pool, w)
  /\ UNCHANGED <<size, started, mail, terminates>>

(* w.onerror: a worker dies, busy or idle.                                 *)
OnError(w) ==
  /\ w \in pool.workers /\ CanReplace(w)
  /\ pool' = FailWorker(pool, w)
  /\ UNCHANGED <<size, started, mail, terminates>>

(* setSize, growing: releaseWorker(spawnWorker()), k times. The new workers *)
(* take the first queued jobs, turn by turn; those that find none park.    *)
Grown(p, k) ==
  LET new     == Spawned(p, k)
      turn    == CHOOSE t \in Bijection(new, 1..k) : TRUE
      dealt   == IF k < Len(p.queue) THEN k ELSE Len(p.queue)
      takers  == {w \in new : turn[w] <= dealt}
      taken   == {p.queue[turn[w]] : w \in takers}
  IN [p EXCEPT !.workers = @ \cup new,
               !.idle = @ \cup (new \ takers),
               !.queue = SubSeq(@, dealt + 1, Len(@)),
               !.busy = [w \in WorkerId |-> IF w \in takers THEN p.queue[turn[w]] ELSE @[w]],
               !.attempts = [j \in Job |-> IF j \in taken THEN @[j] + 1 ELSE @[j]]]

(* setSize(n): grow at once; retire idle workers at once, busy ones as     *)
(* they finish.                                                            *)
SetSize(n) ==
  LET alive == Cardinality(pool.workers)
      surplus == IF alive - n < Cardinality(pool.idle) THEN alive - n ELSE Cardinality(pool.idle)
      out == CHOOSE S \in SUBSET pool.idle : Cardinality(S) = surplus
  IN /\ n # size /\ size' = n
     /\ (started /\ n > alive) => Cardinality(FreeNames(pool)) >= n - alive
     /\ pool' = IF ~started THEN pool
                ELSE IF n > alive THEN Grown(pool, n - alive)
                ELSE [pool EXCEPT !.workers = @ \ out, !.idle = @ \ out]
     /\ UNCHANGED <<started, mail, terminates>>

(* terminate(): the promises of queued and running jobs never settle.      *)
Terminate ==
  /\ started /\ terminates < MaxTerminates
  /\ terminates' = terminates + 1 /\ started' = FALSE
  /\ pool' = [pool EXCEPT !.workers = {}, !.idle = {}, !.queue = <<>>,
                !.busy = [w \in WorkerId |-> NoJob],
                !.verdict = [j \in Job |-> IF @[j] = "waiting" THEN "lost" ELSE @[j]]]
  /\ UNCHANGED <<size, mail>>

Next ==
  \/ \E j \in Job : Verify(j)
  \/ \E w \in WorkerId : WorkerAnswers(w)
  \/ \E w \in WorkerId : OnMessage(w)
  \/ \E w \in WorkerId : Timeout(w)
  \/ \E w \in WorkerId : OnError(w)
  \/ \E n \in Sizes : SetSize(n)
  \/ Terminate

(* The event loop delivers what was posted, and a timer fires unless its   *)
(* job is taken off the worker first. Workers owe nothing.                 *)
Spec ==
  /\ Init /\ [][Next]_vars
  /\ \A w \in WorkerId : WF_vars(OnMessage(w)) /\ WF_vars(Timeout(w))

-----------------------------------------------------------------------------
(* A verify() that waits is held in exactly one place, once: no job is     *)
(* queued and running, run twice, kept after it settled, or forgotten,     *)
(* whatever timeouts, crashes and resizes it lived through.                *)
Holders(j) ==
  { w \in WorkerId : pool.busy[w] = j }
    \cup { 0 - i : i \in { k \in DOMAIN pool.queue : pool.queue[k] = j } }
HeldOnce ==
  \A j \in Job :
    Cardinality(Holders(j)) = IF pool.verdict[j] = "waiting" THEN 1 ELSE 0

(* No worker idles while a job is queued; nothing but that would start it, *)
(* for the queue is only looked at when a worker is released.              *)
WorkConserving == pool.queue # <<>> => pool.idle = {}

(* A running pool has at least `size` workers, and surplus ones only while *)
(* they are busy.                                                          *)
AtStrength ==
  started => /\ Cardinality(pool.workers) >= size
             /\ Cardinality(pool.workers) > size => pool.idle = {}

(* A valid block is only reported invalid after MAX_ATTEMPTS dispatches    *)
(* that brought no verdict.                                                *)
NoHastyRejection ==
  \A j \in Good : pool.verdict[j] = "false" => pool.attempts[j] = MaxAttempts

(* The books of the pool add up, whatever it lived through: jobs, workers, *)
(* queue and answers (verifierPool.ts).                                    *)
PoolSound == HeldOnce /\ WorkConserving /\ AtStrength /\ NoHastyRejection

(* The pool keeps the promises of VerifierPromises, the last one under the *)
(* fairness of Spec: every verify() settles.                               *)
Promises == INSTANCE VerifierPromises WITH verdict <- pool.verdict
KeepsPromises == Promises!Spec
=============================================================================
