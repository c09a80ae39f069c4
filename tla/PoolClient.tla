------------------------------- MODULE PoolClient -------------------------------
(***************************************************************************)
(* The pool client, tools/pool-client.ts, on top of the native process it  *)
(* drives, and a classic pool as the client sees it (external). One thread *)
(* runs the client: an action is what it does between two awaits. It polls *)
(* /job, hands the native process what it gets, posts what that finds to   *)
(* /share, and registers again when its slot is exhausted or the pool has  *)
(* forgotten it.                                                           *)
(*                                                                         *)
(* The id of a native job is the number of its start, nativeJobCounter,    *)
(* with the entry of nativeToPoolJob it gets: the worker id it was fetched *)
(* for and the pool's job. A registration changes workerId and epoch       *)
(* together, so workerId stands for both. Whether a poll waits at the pool *)
(* (have, forcePlainPoll) only says how long an answer takes.              *)
(***************************************************************************)
EXTENDS NativeMiner

CONSTANTS
  MaxPoolJobs,  \* bound: jobs the pool hands out
  MaxReg,       \* bound: registrations
  MaxNative     \* bound: native jobs started

(* The slots that the pool hands out have an end; the client starts them   *)
(* as continuous jobs with the number of threads as their stride.          *)
ASSUME PoolConstants ==
  /\ {MaxPoolJobs, MaxReg, MaxNative} \subseteq Nat \ {0}
  /\ JobId = [n : 1..MaxNative, worker : 1..MaxReg, job : 1..MaxPoolJobs]
  /\ \A id \in JobId : HasEnd(id) /\ Work[id].continuous /\ Work[id].stride = W

VARIABLES
  poolJob,      \* external: the pool's present job
  loop,         \* where the main loop waits
  answer,       \* the answer to the poll under way, if there is one yet
  workerId, activePoolJob, activeNative, lastRestartKey, exhaustedKey,
  exhaustedWorkers, slotFullyExhausted, reregisterForFreshSlot,
  submitted,    \* <<worker id, pool job, nonce>>
  shares,       \* the calls of submitShare that have not returned
  posted,       \* history: every share posted: the native job, as what, where
  finished      \* history: the <<worker id, pool job>> counted as exhausted

assigned == <<activePoolJob, activeNative>>
keys == <<lastRestartKey, exhaustedKey>>
counts == <<exhaustedWorkers, slotFullyExhausted>>
round == <<loop, answer, reregisterForFreshSlot>>
outbox == <<submitted, shares, posted>>
clientVars ==
  <<poolJob, round, workerId, assigned, keys, counts, outbox, finished>>
vars == <<nativeVars, clientVars>>

(* The answers to /job that are no job: none yet, 404, and anything the    *)
(* client cannot use: a transient status, a time-out, an invalid job.      *)
Pending   == 0
Forgotten == -1
Unusable  == -2

(* jobRestartKey: the job and the slot, not the worker id.                 *)
Key(id) == <<id.job, Work[id].offset, Work[id].end>>

(* nativeJobCounter, and the id of the next native job.                    *)
Counter == IF activeNative = NoJob THEN 0 ELSE activeNative.n
NextId(job) == [n |-> Counter + 1, worker |-> workerId, job |-> job]

PoolTypeOK ==
  /\ poolJob \in 1..MaxPoolJobs /\ workerId \in 1..MaxReg
  /\ loop \in {"fetch", "sleep", "register", "register404", "sleepRegister", "ended"}
  /\ answer \in Unusable..MaxPoolJobs /\ (answer # Pending => loop = "fetch")
  /\ activePoolJob \in 0..MaxPoolJobs /\ activeNative \in JobId \cup {NoJob}
  /\ \A key \in {lastRestartKey, exhaustedKey} \ {NoJob} : \E id \in JobId : key = Key(id)
  /\ exhaustedWorkers \subseteq Thread
  /\ slotFullyExhausted \in BOOLEAN /\ reregisterForFreshSlot \in BOOLEAN
  /\ \A s \in shares : /\ s.at \in {"sent", "backoff", "final", "stale"}
                       /\ s.nonce \in Nonce /\ s.id \in JobId

(* After the first registration and the start of the native process.       *)
PoolInit ==
  /\ NativeInit
  /\ poolJob = 1 /\ loop = "fetch" /\ answer = Pending /\ workerId = 1
  /\ activePoolJob = 0 /\ activeNative = NoJob
  /\ lastRestartKey = NoJob /\ exhaustedKey = NoJob
  /\ exhaustedWorkers = {} /\ slotFullyExhausted = FALSE
  /\ reregisterForFreshSlot = FALSE
  /\ submitted = {} /\ shares = {} /\ posted = {} /\ finished = {}

Send(commands) == stdin' = stdin \o commands

-----------------------------------------------------------------------------
(* The top of the main loop, with the value rereg of its flag.             *)
Iterate(rereg) ==
  /\ loop' = IF rereg THEN "register" ELSE "fetch"
  /\ reregisterForFreshSlot' = FALSE /\ answer' = Pending

(* The main loop waits at place.                                           *)
WaitAt(place) ==
  loop' = place /\ answer' = Pending /\ UNCHANGED reregisterForFreshSlot

(* Mutant: the poll under way is not aborted.                              *)
WakeKeepsPoll(rereg) ==
  CASE loop = "fetch" -> /\ loop' = "sleep" /\ UNCHANGED answer
                         /\ reregisterForFreshSlot' = rereg
    [] loop = "sleep" -> Iterate(rereg)
    [] loop = "sleepRegister" -> Iterate(TRUE)
    [] OTHER -> UNCHANGED <<loop, answer>> /\ reregisterForFreshSlot' = rereg

(* poolFetch of a poll is aborted: its answer, if any, is lost, and it     *)
(* fails like one that timed out.                                          *)
AbortPoll(rereg) ==
  loop' = "sleep" /\ answer' = Pending /\ reregisterForFreshSlot' = rereg

(* wakePoll: a poll under way is aborted, which ends in a sleep; a sleep   *)
(* ends; a registration goes on.                                           *)
WakePoll(rereg) ==
  CASE loop = "fetch" -> AbortPoll(rereg)
    [] loop = "sleep" -> Iterate(rereg)
    [] loop = "sleepRegister" -> Iterate(TRUE)
    [] OTHER -> UNCHANGED <<loop, answer>> /\ reregisterForFreshSlot' = rereg

(* stop(), by the abort signal or at the end of the main loop: the native  *)
(* process is told to stop and to shut down; what is being sent is aborted.*)
StopClient ==
  /\ WaitAt("ended") /\ Send(<<Stop, Shutdown>>) /\ shares' = {}
  /\ UNCHANGED <<stdout, processVars, poolJob, workerId, assigned, keys, counts,
                 submitted, posted, finished>>

Abort == loop # "ended" /\ StopClient

SleepOver ==
  /\ loop \in {"sleep", "sleepRegister"}
  /\ Iterate(loop = "sleepRegister" \/ reregisterForFreshSlot)
  /\ UNCHANGED <<nativeVars, poolJob, workerId, assigned, keys, counts, outbox, finished>>

-----------------------------------------------------------------------------
(* refresh: what the answer to /job leads to.                              *)
Grind(id) ==
  /\ activeNative' = id /\ activePoolJob' = id.job
  /\ lastRestartKey' = Key(id) /\ exhaustedKey' = NoJob
  /\ exhaustedWorkers' = {} /\ slotFullyExhausted' = FALSE
  /\ submitted' = {}
  /\ Send(<<Start(id)>>) /\ Iterate(FALSE)

ReceiveJob ==
  LET id == NextId(answer)
  IN /\ loop = "fetch" /\ answer > 0 /\ Counter < MaxNative
     /\ IF Key(id) \in {exhaustedKey, lastRestartKey}
        THEN /\ IF exhaustedKey # NoJob THEN Iterate(TRUE) ELSE WaitAt("sleep")
             /\ UNCHANGED <<stdin, assigned, keys, counts, submitted>>
        ELSE Grind(id)
     /\ UNCHANGED <<stdout, processVars, poolJob, workerId, shares, posted, finished>>

ReceiveNoJob ==
  /\ loop = "fetch" /\ answer < 0
  /\ WaitAt(IF answer = Forgotten THEN "register404" ELSE "sleep")
  /\ UNCHANGED <<nativeVars, poolJob, workerId, assigned, keys, counts, outbox, finished>>

(* withPoolRetry of POST /register: with no answer, or a transient status, *)
(* it waits and asks again, for ever; it returns once it has a worker id.  *)
RegisterReturns ==
  /\ loop \in {"register", "register404"} /\ workerId < MaxReg
  /\ workerId' = workerId + 1

(* reregister, and on to the next iteration: a fresh worker id with a slot *)
(* of its own.                                                             *)
Reregister ==
  /\ RegisterReturns
  /\ activePoolJob' = 0 /\ lastRestartKey' = NoJob /\ exhaustedKey' = NoJob
  /\ exhaustedWorkers' = {} /\ slotFullyExhausted' = FALSE /\ submitted' = {}
  /\ Send(<<Stop>>) /\ Iterate(FALSE)
  /\ UNCHANGED <<stdout, processVars, poolJob, activeNative, shares, posted, finished>>

(* /register answers with an error: tried again later for a fresh slot; but *)
(* when the pool has forgotten the worker, the error ends the client.      *)
RegisterFails ==
  \/ /\ loop = "register" /\ WaitAt("sleepRegister")
     /\ UNCHANGED <<nativeVars, poolJob, workerId, assigned, keys, counts, outbox, finished>>
  \/ loop = "register404" /\ StopClient

-----------------------------------------------------------------------------
(* onNativeEvent                                                           *)

(* Mutant: what was found is sent as a share of the job at hand.           *)
ShareAtHand(id, n) == [id |-> id, worker |-> workerId, job |-> activePoolJob, nonce |-> n]

(* nativeToPoolJob: what a nonce found for native job id is a share of.    *)
ShareOf(id, n) == [id |-> id, worker |-> id.worker, job |-> id.job, nonce |-> n]

(* The worker and the job a share is for are still those of the client.    *)
Wanted(share) == share.worker = workerId /\ share.job = activePoolJob

OnSolved(e) ==
  LET share == ShareOf(e.id, e.nonce)
      dedupeKey == <<share.worker, share.job, share.nonce>>
  IN /\ IF Wanted(share) /\ dedupeKey \notin submitted
        THEN /\ submitted' = submitted \cup {dedupeKey}
             /\ IF loop = "ended" THEN UNCHANGED <<shares, posted>>
                ELSE /\ shares' = shares \cup
                          {[id |-> e.id, worker |-> share.worker, job |-> share.job,
                            nonce |-> e.nonce, at |-> "sent"]}
                     /\ posted' = posted \cup {share}
        ELSE UNCHANGED outbox
     /\ UNCHANGED <<stdin, round, keys, counts, finished>>

(* Mutant: the slot is full, but no fresh one is asked for.                *)
SlotFullOnly ==
  /\ slotFullyExhausted' = TRUE
  /\ lastRestartKey' = NoJob /\ UNCHANGED exhaustedKey
  /\ WakePoll(reregisterForFreshSlot)

(* The last thread is through: forget the job, ask for a fresh slot.       *)
SlotFull ==
  /\ slotFullyExhausted' = TRUE
  /\ exhaustedKey' = lastRestartKey /\ lastRestartKey' = NoJob
  /\ WakePoll(TRUE)

Counts(e) == e.id = activeNative /\ ~slotFullyExhausted

OnExhausted(e) ==
  /\ IF Counts(e)
     THEN /\ exhaustedWorkers' = exhaustedWorkers \cup {e.worker}
          /\ IF exhaustedWorkers' = Thread
             THEN /\ SlotFull
                  /\ finished' = finished \cup {<<activeNative.worker, activeNative.job>>}
             ELSE UNCHANGED <<slotFullyExhausted, keys, round, finished>>
     ELSE UNCHANGED <<counts, keys, round, finished>>
  /\ UNCHANGED <<stdin, outbox>>

OnNativeEvent ==
  /\ stdout # <<>> /\ stdout' = Tail(stdout)
  /\ LET e == Head(stdout)
     IN \/ e.type = "solved" /\ OnSolved(e)
        \/ e.type = "exhausted" /\ OnExhausted(e)
        \/ /\ e.type = "error"
           /\ UNCHANGED <<stdin, round, keys, counts, outbox, finished>>
  /\ UNCHANGED <<processVars, poolJob, workerId, assigned>>

-----------------------------------------------------------------------------
(* submitShare, from its first await on.                                   *)
Becomes(s, at) == shares' = (shares \ {s}) \cup {[s EXCEPT !.at = at]}

(* A transient or ambiguous status, a time-out or a lost answer: later.    *)
ShareUnanswered(s) ==
  /\ s.at = "sent" /\ Becomes(s, "backoff")
  /\ UNCHANGED <<nativeVars, poolJob, round, workerId, assigned, keys, counts,
                 submitted, posted, finished>>

(* The next attempt, unless the share is outdated; or the deadline.        *)
Resend(s) ==
  /\ s.at = "backoff"
  /\ \/ Wanted(s) /\ Becomes(s, "sent")
     \/ shares' = shares \ {s}
  /\ UNCHANGED <<nativeVars, poolJob, round, workerId, assigned, keys, counts,
                 submitted, posted, finished>>

(* Mutant: the client waits for a new job with the old key.                *)
ForgetNothing == UNCHANGED keys

ForgetKeys == lastRestartKey' = NoJob /\ exhaustedKey' = NoJob

(* The verdict, whatever has happened since the share was sent: a stale    *)
(* one stops the native process and polls for the job to start.            *)
Verdict(s) ==
  /\ s.at \in {"final", "stale"} /\ shares' = shares \ {s}
  /\ IF s.at = "stale"
     THEN ForgetKeys /\ Send(<<Stop>>) /\ WakePoll(reregisterForFreshSlot)
     ELSE UNCHANGED <<keys, stdin, round>>
  /\ UNCHANGED <<stdout, processVars, poolJob, workerId, assigned, counts,
                 submitted, posted, finished>>

-----------------------------------------------------------------------------
(* External: the pool. It moves on to another job, answers polls with the  *)
(* job it has, may forget a worker, and calls a share of another job stale.*)
NewPoolJob ==
  /\ loop # "ended" /\ poolJob < MaxPoolJobs /\ poolJob' = poolJob + 1
  /\ UNCHANGED <<nativeVars, round, workerId, assigned, keys, counts, outbox, finished>>

Answer(a) ==
  /\ loop = "fetch" /\ answer = Pending /\ answer' = a
  /\ a = Forgotten => workerId < MaxReg
  /\ UNCHANGED <<nativeVars, poolJob, loop, reregisterForFreshSlot, workerId, assigned,
                 keys, counts, outbox, finished>>

Judge(s) ==
  /\ s.at = "sent" /\ Becomes(s, IF s.job = poolJob THEN "final" ELSE "stale")
  /\ UNCHANGED <<nativeVars, poolJob, round, workerId, assigned, keys, counts,
                 submitted, posted, finished>>

-----------------------------------------------------------------------------
Native == ProcessNext /\ UNCHANGED clientVars

ClientStep == SleepOver \/ ReceiveJob \/ ReceiveNoJob \/ OnNativeEvent

Next ==
  \/ Native \/ ClientStep \/ Reregister \/ RegisterFails \/ Abort
  \/ \E s \in shares : ShareUnanswered(s) \/ Resend(s) \/ Verdict(s) \/ Judge(s)
  \/ NewPoolJob
  \/ \E a \in {poolJob, Forgotten, Unusable} : Answer(a)

(* The event loop and the operating system run what can run; a pool that is *)
(* asked again and again answers at last.                                  *)
Fairness ==
  /\ WF_vars(ReadCommand /\ UNCHANGED clientVars)
  /\ \A w \in Thread : WF_vars(ThreadStep(w) /\ UNCHANGED clientVars)
  /\ WF_vars(SleepOver \/ ReceiveJob \/ ReceiveNoJob)
  /\ WF_vars(OnNativeEvent) /\ SF_vars(Answer(poolJob)) /\ SF_vars(Reregister)

Spec == PoolInit /\ [][Next]_vars /\ Fairness

-----------------------------------------------------------------------------
(* The job the native process has once it has read its commands.           *)
Settled ==
  IF stdin = <<>> THEN current
  ELSE IF Last(stdin).type = "start" THEN Last(stdin).id ELSE NoJob

(* Client and process stay in step, through pipes and across restarts,     *)
(* registrations and late verdicts: the process never settles on a job     *)
(* other than the client's newest, nor on one of a former worker id; and   *)
(* while the client holds a restart key, which is what makes it answer     *)
(* "same" to a poll and start nothing, the process has that very job.      *)
InStep ==
  /\ Settled # NoJob => Settled = activeNative /\ Settled.worker = workerId
  /\ lastRestartKey # NoJob /\ loop # "ended" =>
       Settled = activeNative /\ Key(Settled) = lastRestartKey

(* A share is posted under the worker id and the job it was ground for: its *)
(* nonce lies in that worker's slot and solves that job's header, however  *)
(* late the native process reports it.                                     *)
SharesMatchWork ==
  \A share \in posted :
    /\ share.worker = share.id.worker /\ share.job = share.id.job
    /\ share.nonce \in Slot(share.id) /\ share.nonce \in Work[share.id].solve

(* The slot is given up for a fresh one only when all of it was hashed for *)
(* the job at hand and each solution posted: late reports of other jobs do *)
(* not count.                                                              *)
SlotFullIsFull ==
  slotFullyExhausted /\ activePoolJob # 0 /\ loop # "ended" =>
    \A n \in Slot(activeNative) :
      /\ tried[activeNative][n] > 0
      /\ n \in Work[activeNative].solve =>
           \E share \in posted : /\ share.nonce = n /\ share.job = activeNative.job
                                 /\ share.worker = activeNative.worker

(* "Same finished slot under the old workerId - do not re-grind it."       *)
NoRegrind ==
  [][activeNative' # activeNative =>
       <<activeNative'.worker, activeNative'.job>> \notin finished]_vars

(* Bounds of the model that stop the client short of its goal.             *)
AtBound == Counter = MaxNative \/ (workerId = MaxReg /\ slotFullyExhausted)

(* The client keeps catching up: whatever was lost, refused, aborted or    *)
(* stale, the process is again and again at work on the pool's present     *)
(* job, for the client's present worker id, in a slot not yet used up: so  *)
(* a full slot is always followed by a fresh registration.                 *)
CatchesUp ==
  []<>(\/ loop = "ended" \/ AtBound
       \/ /\ current # NoJob /\ current.job = poolJob /\ current.worker = workerId
          /\ ~slotFullyExhausted)

(* A slot the client takes for valid is ground: once the native process    *)
(* has read its commands, the job whose key the client holds is current.   *)
ValidSlotsGround ==
  stdin = <<>> /\ lastRestartKey # NoJob /\ loop # "ended" => current = activeNative

(* What is reported to the pool is what was hashed for it.                 *)
WorkCounted == SharesMatchWork /\ SlotFullIsFull

(* The client keeps the process at work that is new and wanted.            *)
KeepsWorking == NoRegrind /\ CatchesUp
=============================================================================
