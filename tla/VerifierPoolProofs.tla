-------------------------- MODULE VerifierPoolProofs --------------------------
(***************************************************************************)
(* The invariants of VerifierPool, and the safety half of its refinement   *)
(* of VerifierPromises, proved for every set of jobs and workers, every    *)
(* list of sizes and every number of attempts.                             *)
(***************************************************************************)
EXTENDS VerifierPool, TLAPS, FiniteSetTheorems, SequenceTheorems

-----------------------------------------------------------------------------
(* The strengthening. The methods call one another, so its parts are       *)
(* stated of a pool p in the middle of them: with a job nobody holds at    *)
(* the moment (loose, or NoJob), and a worker that is alive but neither    *)
(* busy nor idle (spare, or Nobody).                                       *)

Nobody == -1

Held(p, j) ==
  \/ \E w \in WorkerId : p.busy[w] = j
  \/ \E i \in DOMAIN p.queue : p.queue[i] = j

(* Every worker alive is either busy or idle, and only those are.          *)
Crew(p, spare) ==
  /\ p \in Pool
  /\ p.idle \subseteq p.workers
  /\ \A w \in WorkerId : p.busy[w] # NoJob => w \in p.workers \ p.idle
  /\ \A w \in p.workers : w \in p.idle \/ p.busy[w] # NoJob \/ w = spare
  /\ spare # Nobody => spare \in p.workers \ p.idle /\ p.busy[spare] = NoJob

(* No job is in two places, and those in one are the ones that wait.       *)
OnePlace(p, loose) ==
  /\ \A v, w \in WorkerId : p.busy[v] # NoJob /\ p.busy[v] = p.busy[w] => v = w
  /\ \A i, k \in DOMAIN p.queue : p.queue[i] = p.queue[k] => i = k
  /\ \A w \in WorkerId, i \in DOMAIN p.queue : p.busy[w] # p.queue[i]
  /\ \A j \in Job : p.verdict[j] = "waiting" <=> Held(p, j) \/ j = loose
  /\ ~ Held(p, loose) \/ loose = NoJob

(* The attempts left: a job is queued with one to go, and rejected without *)
(* a verdict when there is none.                                           *)
Attempts(p) ==
  /\ \A i \in DOMAIN p.queue : p.attempts[p.queue[i]] < MaxAttempts
  /\ \A j \in Job : p.verdict[j] = "new" => p.attempts[j] = 0
  /\ \A j \in Good : p.verdict[j] = "false" => p.attempts[j] = MaxAttempts

Books(p, loose, spare) == Crew(p, spare) /\ OnePlace(p, loose) /\ Attempts(p)

(* The answer of a worker that is alive is one to the job it works on.     *)
Answered(p, box) ==
  \A w \in p.workers : box[w] # "none" =>
    /\ p.busy[w] # NoJob
    /\ box[w] = "ok" => p.busy[w] \in Good
    /\ box[w] = "bad" => p.busy[w] \notin Good

(* WorkConserving and AtStrength, of a pool in the middle of a method.      *)
Conserving(p) == p.queue # <<>> => p.idle = {}

Strength(p, n) ==
  /\ Cardinality(p.workers) >= n
  /\ Cardinality(p.workers) > n => p.idle = {}

Stopped == ~started => pool.workers = {} /\ pool.queue = <<>>

IInv ==
  /\ TypeOK
  /\ Books(pool, NoJob, Nobody)
  /\ Answered(pool, mail)
  /\ Stopped
  /\ WorkConserving
  /\ AtStrength

-----------------------------------------------------------------------------
(* What the helpers of the pool do to its books.                           *)

LEMMA Workers ==
  ASSUME NEW S \in SUBSET WorkerId
  PROVE  IsFiniteSet(S) /\ Cardinality(S) \in Nat
BY PoolConstants, FS_Subset, FS_CardinalityType

LEMMA NobodyIsNoWorker == \A w \in WorkerId : w # Nobody
BY PoolConstants DEF Nobody

(* A job is taken off its worker.                                          *)
LEMMA UnbusyBooks ==
  ASSUME NEW p, NEW w \in WorkerId, Books(p, NoJob, Nobody), p.busy[w] # NoJob
  PROVE  LET q == Unbusy(p, w) IN
         /\ Books(q, p.busy[w], w)
         /\ q.workers = p.workers /\ q.idle = p.idle /\ q.queue = p.queue
         /\ q.verdict = p.verdict /\ q.busy = [p.busy EXCEPT ![w] = NoJob]
<1> DEFINE q == Unbusy(p, w)
           j == p.busy[w]
<1>0. /\ p \in Pool /\ j \in Job /\ w \in p.workers /\ w \notin p.idle
      /\ p.workers \subseteq WorkerId
  BY DEF Books, Crew, Pool
<1>1. /\ q \in Pool /\ q.workers = p.workers /\ q.idle = p.idle /\ q.queue = p.queue
      /\ q.attempts = p.attempts /\ q.verdict = p.verdict
      /\ q.busy = [p.busy EXCEPT ![w] = NoJob]
  BY <1>0 DEF Unbusy, Pool
<1>2. \A v \in WorkerId : q.busy[v] = IF v = w THEN NoJob ELSE p.busy[v]
  BY <1>0, <1>1 DEF Pool
<1> HIDE DEF q
<1>3. \A i \in DOMAIN p.queue : p.queue[i] \in Job
  BY <1>0 DEF Pool
<1>4. Crew(q, w)
  BY <1>0, <1>1, <1>2, NobodyIsNoWorker DEF Books, Crew
<1>5. OnePlace(q, j)
  <2>1. \A k \in Job : Held(q, k) <=> Held(p, k) /\ k # j
    BY <1>0, <1>1, <1>2, <1>3, PoolConstants DEF Books, OnePlace, Held
  <2>2. Held(p, j)
    BY DEF Held
  <2> HIDE DEF j
  <2>3. /\ \A u, v \in WorkerId : q.busy[u] # NoJob /\ q.busy[u] = q.busy[v] => u = v
        /\ \A i, k \in DOMAIN q.queue : q.queue[i] = q.queue[k] => i = k
        /\ \A u \in WorkerId, i \in DOMAIN q.queue : q.busy[u] # q.queue[i]
    BY <1>0, <1>1, <1>2, <1>3, PoolConstants DEF Books, OnePlace
  <2> QED BY <1>0, <1>1, <2>1, <2>2, <2>3, PoolConstants DEF Books, OnePlace
<1>6. Attempts(q)
  BY <1>1 DEF Books, Attempts
<1> QED BY <1>1, <1>4, <1>5, <1>6 DEF Books, q

(* A job nobody holds is queued.                                           *)
LEMMA QueueBooks ==
  ASSUME NEW p, NEW j \in Job, NEW S, Books(p, j, S), p.attempts[j] < MaxAttempts
  PROVE  LET q == [p EXCEPT !.queue = Append(p.queue, j)] IN
         /\ Books(q, NoJob, S)
         /\ q.workers = p.workers /\ q.idle = p.idle /\ q.busy = p.busy
         /\ q.queue = Append(p.queue, j) /\ q.verdict = p.verdict
<1> DEFINE q == [p EXCEPT !.queue = Append(p.queue, j)]
<1>0. p \in Pool /\ p.verdict[j] = "waiting" /\ ~ Held(p, j)
  BY PoolConstants DEF Books, Crew, OnePlace
<1>1. /\ q \in Pool /\ q.workers = p.workers /\ q.idle = p.idle /\ q.queue = Append(p.queue, j)
      /\ q.attempts = p.attempts /\ q.busy = p.busy /\ q.verdict = p.verdict
  <2>1. Append(p.queue, j) \in Seq(Job)
    BY <1>0 DEF Pool
  <2> QED BY <1>0, <2>1 DEF Pool
<1> HIDE DEF q
<1>2. /\ DOMAIN p.queue = 1..Len(p.queue) /\ DOMAIN q.queue = 1..(Len(p.queue) + 1)
      /\ Len(p.queue) \in Nat
      /\ \A i \in DOMAIN q.queue :
           q.queue[i] = IF i = Len(p.queue) + 1 THEN j ELSE p.queue[i]
  BY <1>0, <1>1 DEF Pool
<1>3. \A k \in Job : Held(q, k) <=> Held(p, k) \/ k = j
  BY <1>1, <1>2 DEF Held
<1>4. Crew(q, S)
  BY <1>1 DEF Books, Crew
<1>5. OnePlace(q, NoJob)
  <2>1. /\ \A u, v \in WorkerId : q.busy[u] # NoJob /\ q.busy[u] = q.busy[v] => u = v
        /\ \A k \in Job : q.verdict[k] = "waiting" <=> Held(q, k)
    BY <1>1, <1>3 DEF Books, OnePlace
  <2>2. \A i, k \in DOMAIN q.queue : q.queue[i] = q.queue[k] => i = k
    BY <1>0, <1>2 DEF Books, OnePlace, Held
  <2>3. \A u \in WorkerId, i \in DOMAIN q.queue : q.busy[u] # q.queue[i]
    BY <1>0, <1>1, <1>2 DEF Books, OnePlace, Held
  <2> QED BY <2>1, <2>2, <2>3, PoolConstants DEF OnePlace
<1>6. Attempts(q)
  BY <1>1, <1>2 DEF Books, Attempts
<1> QED BY <1>1, <1>4, <1>5, <1>6 DEF Books, q

(* retryOrFail: a job nobody holds is queued again, or settled.            *)
LEMMA RetryBooks ==
  ASSUME NEW p, NEW j \in Job, NEW S, Books(p, j, S)
  PROVE  LET q == RetryOrFail(p, j) IN
         /\ Books(q, NoJob, S)
         /\ q.workers = p.workers /\ q.idle = p.idle /\ q.busy = p.busy
         /\ q.queue = p.queue \/ q.queue = Append(p.queue, j)
         /\ q.verdict = p.verdict \/ q.verdict = [p.verdict EXCEPT ![j] = "false"]
<1> DEFINE q == RetryOrFail(p, j)
<1>0. p \in Pool /\ p.verdict[j] = "waiting" /\ ~ Held(p, j)
  BY PoolConstants DEF Books, Crew, OnePlace
<1>1. CASE p.attempts[j] >= MaxAttempts
  <2>1. /\ q \in Pool /\ q.workers = p.workers /\ q.idle = p.idle /\ q.queue = p.queue
        /\ q.attempts = p.attempts /\ q.busy = p.busy
        /\ q.verdict = [p.verdict EXCEPT ![j] = "false"]
    BY <1>0, <1>1 DEF RetryOrFail, Resolve, Pool
  <2> HIDE DEF q
  <2>2. \A k \in Job : q.verdict[k] = IF k = j THEN "false" ELSE p.verdict[k]
    BY <1>0, <2>1 DEF Pool
  <2>3. p.attempts[j] = MaxAttempts
    BY <1>0, <1>1, PoolConstants DEF Pool
  <2>4. \A k : Held(q, k) <=> Held(p, k)
    BY <2>1 DEF Held
  <2>5. Crew(q, S)
    BY <2>1 DEF Books, Crew
  <2>6. OnePlace(q, NoJob)
    BY <1>0, <2>1, <2>2, <2>4, PoolConstants DEF Books, OnePlace
  <2>7. Attempts(q)
    BY <2>1, <2>2, <2>3, PoolConstants DEF Books, Attempts
  <2> QED BY <2>1, <2>5, <2>6, <2>7 DEF Books, q
<1>2. CASE ~ (p.attempts[j] >= MaxAttempts)
  <2>1. q = [p EXCEPT !.queue = Append(p.queue, j)]
    BY <1>2 DEF RetryOrFail
  <2>2. p.attempts[j] < MaxAttempts
    BY <1>0, <1>2, PoolConstants DEF Pool
  <2> HIDE DEF q
  <2> QED BY <2>1, <2>2, QueueBooks DEF q
<1> QED BY <1>1, <1>2

(* A job nobody holds is settled; a valid one as invalid only when it has  *)
(* had its attempts.                                                       *)
LEMMA ResolveBooks ==
  ASSUME NEW p, NEW j \in Job, NEW S, Books(p, j, S), NEW answer, answer = "true" \/ answer = "false",
         answer = "false" => j \notin Good
  PROVE  LET q == Resolve(p, j, answer) IN
         /\ Books(q, NoJob, S)
         /\ q.workers = p.workers /\ q.idle = p.idle /\ q.busy = p.busy /\ q.queue = p.queue
         /\ q.verdict = [p.verdict EXCEPT ![j] = answer]
<1> DEFINE q == Resolve(p, j, answer)
<1>0. p \in Pool /\ p.verdict[j] = "waiting" /\ ~ Held(p, j)
  BY PoolConstants DEF Books, Crew, OnePlace
<1>1. /\ q \in Pool /\ q.workers = p.workers /\ q.idle = p.idle /\ q.queue = p.queue
      /\ q.attempts = p.attempts /\ q.busy = p.busy
      /\ q.verdict = [p.verdict EXCEPT ![j] = answer]
  BY <1>0 DEF Resolve, Pool
<1> HIDE DEF q
<1>2. \A k \in Job : q.verdict[k] = IF k = j THEN answer ELSE p.verdict[k]
  BY <1>0, <1>1 DEF Pool
<1>3. \A k : Held(q, k) <=> Held(p, k)
  BY <1>1 DEF Held
<1>4. Crew(q, S)
  BY <1>1 DEF Books, Crew
<1>5. OnePlace(q, NoJob)
  BY <1>0, <1>1, <1>2, <1>3, PoolConstants DEF Books, OnePlace
<1>6. Attempts(q)
  BY <1>1, <1>2, PoolConstants DEF Books, Attempts
<1> QED BY <1>1, <1>4, <1>5, <1>6 DEF Books, q

(* A worker without a job is retired.                                      *)
LEMMA RetireBooks ==
  ASSUME NEW p, NEW w \in p.workers, NEW X, NEW S, S = w \/ S = Nobody,
         Books(p, X, S), p.busy[w] = NoJob
  PROVE  LET q == Retire(p, w) IN
         /\ Books(q, X, Nobody)
         /\ q.workers = p.workers \ {w} /\ q.idle = p.idle \ {w}
         /\ q.queue = p.queue /\ q.busy = p.busy /\ q.verdict = p.verdict
<1> DEFINE q == Retire(p, w)
<1>0. p \in Pool
  BY DEF Books, Crew
<1>1. /\ q \in Pool /\ q.workers = p.workers \ {w} /\ q.idle = p.idle \ {w}
      /\ q.queue = p.queue /\ q.attempts = p.attempts /\ q.busy = p.busy
      /\ q.verdict = p.verdict
  BY <1>0 DEF Retire, Pool
<1> HIDE DEF q
<1>2. Crew(q, Nobody)
  BY <1>1 DEF Books, Crew
<1>3. OnePlace(q, X)
  BY <1>1 DEF Books, OnePlace, Held
<1>4. Attempts(q)
  BY <1>1 DEF Books, Attempts
<1> QED BY <1>1, <1>2, <1>3, <1>4 DEF Books, q

(* An idle or spare worker is given a job nobody holds.                    *)
LEMMA DispatchBooks ==
  ASSUME NEW p, NEW w \in p.workers, NEW j \in Job, Books(p, j, w),
         p.attempts[j] < MaxAttempts
  PROVE  LET q == Dispatch(p, w, j) IN
         /\ Books(q, NoJob, Nobody)
         /\ q.workers = p.workers /\ q.idle = p.idle /\ q.queue = p.queue
         /\ q.busy = [p.busy EXCEPT ![w] = j] /\ q.verdict = p.verdict
<1> DEFINE q == Dispatch(p, w, j)
<1>0. /\ p \in Pool /\ p.verdict[j] = "waiting" /\ ~ Held(p, j) /\ w \in WorkerId
      /\ p.busy[w] = NoJob /\ w \notin p.idle
  BY PoolConstants, NobodyIsNoWorker DEF Books, Crew, OnePlace, Pool
<1>1. /\ q \in Pool /\ q.workers = p.workers /\ q.idle = p.idle /\ q.queue = p.queue
      /\ q.busy = [p.busy EXCEPT ![w] = j] /\ q.verdict = p.verdict
      /\ q.attempts = [p.attempts EXCEPT ![j] = p.attempts[j] + 1]
  <2>1. p.attempts[j] + 1 \in 0..MaxAttempts
    BY <1>0, PoolConstants DEF Pool
  <2> DEFINE more == [p.attempts EXCEPT ![j] = p.attempts[j] + 1]
             at   == [p.busy EXCEPT ![w] = j]
  <2>2. more \in [Job -> 0..MaxAttempts] /\ at \in [WorkerId -> Job \cup {NoJob}]
    BY <1>0, <2>1 DEF Pool
  <2>3. q = [[p EXCEPT !.busy = at] EXCEPT !.attempts = more]
    BY <1>0 DEF Dispatch, Pool
  <2> HIDE DEF more, at
  <2>4. /\ q \in Pool /\ q.workers = p.workers /\ q.idle = p.idle /\ q.queue = p.queue
        /\ q.busy = at /\ q.verdict = p.verdict /\ q.attempts = more
    BY <1>0, <2>2, <2>3 DEF Pool
  <2> QED BY <2>4 DEF more, at
<1> HIDE DEF q
<1>2. \A v \in WorkerId : q.busy[v] = IF v = w THEN j ELSE p.busy[v]
  BY <1>0, <1>1 DEF Pool
<1>3. \A k \in Job : q.attempts[k] = IF k = j THEN p.attempts[j] + 1 ELSE p.attempts[k]
  BY <1>0, <1>1 DEF Pool
<1>4. \A k \in Job : Held(q, k) <=> Held(p, k) \/ k = j
  BY <1>0, <1>1, <1>2, PoolConstants DEF Held
<1>5. Crew(q, Nobody)
  BY <1>0, <1>1, <1>2, PoolConstants DEF Books, Crew
<1>6. OnePlace(q, NoJob)
  <2>1. \A u, v \in WorkerId : q.busy[u] # NoJob /\ q.busy[u] = q.busy[v] => u = v
    BY <1>0, <1>2 DEF Books, OnePlace, Held
  <2>2. /\ \A i, k \in DOMAIN q.queue : q.queue[i] = q.queue[k] => i = k
        /\ \A u \in WorkerId, i \in DOMAIN q.queue : q.busy[u] # q.queue[i]
    BY <1>0, <1>1, <1>2 DEF Books, OnePlace, Held
  <2>3. \A k \in Job : q.verdict[k] = "waiting" <=> Held(q, k)
    BY <1>1, <1>4 DEF Books, OnePlace
  <2> QED BY <2>1, <2>2, <2>3, PoolConstants DEF OnePlace
<1>7. Attempts(q)
  <2>1. \A i \in DOMAIN q.queue : q.queue[i] \in Job /\ q.queue[i] # j
    BY <1>0, <1>1 DEF Held, Pool
  <2> QED BY <1>0, <1>1, <1>3, <2>1, PoolConstants DEF Books, Attempts
<1> QED BY <1>1, <1>5, <1>6, <1>7 DEF Books, q

(* The first job leaves the queue.                                         *)
LEMMA HeadTaken ==
  ASSUME NEW p, NEW S, Books(p, NoJob, S), p.queue # <<>>,
         NEW q, q = [p EXCEPT !.queue = Tail(p.queue)]
  PROVE  /\ Books(q, Head(p.queue), S)
         /\ Head(p.queue) \in Job /\ q.attempts[Head(p.queue)] < MaxAttempts
         /\ q.workers = p.workers /\ q.idle = p.idle /\ q.queue = Tail(p.queue)
         /\ q.busy = p.busy /\ q.verdict = p.verdict
<1> DEFINE j == Head(p.queue)
           n == Len(p.queue)
<1>0. p \in Pool /\ p.queue \in Seq(Job)
  BY DEF Books, Crew, Pool
<1>1. /\ j \in Job /\ Tail(p.queue) \in Seq(Job) /\ n \in Nat \ {0} /\ j = p.queue[1]
      /\ DOMAIN p.queue = 1..n /\ DOMAIN Tail(p.queue) = 1..(n - 1)
      /\ \A i \in 1..(n - 1) : Tail(p.queue)[i] = p.queue[i + 1]
  BY <1>0
<1>2. /\ q \in Pool /\ q.workers = p.workers /\ q.idle = p.idle /\ q.queue = Tail(p.queue)
      /\ q.busy = p.busy /\ q.verdict = p.verdict /\ q.attempts = p.attempts
  BY <1>0, <1>1 DEF Pool
<1> HIDE DEF j, n
<1>3. /\ \A i, k \in 1..n : p.queue[i] = p.queue[k] => i = k
      /\ \A v \in WorkerId, i \in 1..n : p.busy[v] # p.queue[i]
      /\ \A k \in Job : p.verdict[k] = "waiting" <=> Held(p, k)
      /\ \A i \in 1..n : p.attempts[p.queue[i]] < MaxAttempts
  BY <1>1, PoolConstants DEF Books, OnePlace, Attempts
<1>4. \A i \in 1..(n - 1) : i + 1 \in 1..n /\ q.queue[i] = p.queue[i + 1]
  BY <1>1, <1>2
<1>5. \A i \in 1..n : i = 1 \/ (i - 1 \in 1..(n - 1) /\ q.queue[i - 1] = p.queue[i])
  BY <1>1, <1>2
<1>6. \A k \in Job : Held(p, k) <=> Held(q, k) \/ k = j
  <2> SUFFICES ASSUME NEW k \in Job PROVE Held(p, k) <=> Held(q, k) \/ k = j
    OBVIOUS
  <2>1. ASSUME NEW i \in 1..n, p.queue[i] = k PROVE Held(q, k) \/ k = j
    BY <1>1, <1>2, <1>5, <2>1 DEF Held
  <2>2. ASSUME NEW i \in 1..(n - 1), q.queue[i] = k PROVE Held(p, k)
    <3>1. i + 1 \in DOMAIN p.queue /\ p.queue[i + 1] = k
      BY <1>1, <1>4, <2>2
    <3> QED BY <3>1 DEF Held
  <2>3. Held(p, j)
    <3>1. 1 \in DOMAIN p.queue /\ p.queue[1] = j
      BY <1>1
    <3> QED BY <3>1 DEF Held
  <2>4. DOMAIN q.queue = 1..(n - 1) /\ DOMAIN p.queue = 1..n /\ q.busy = p.busy
    BY <1>1, <1>2
  <2> QED BY <2>1, <2>2, <2>3, <2>4 DEF Held
<1>7. ~ Held(q, j)
  <2>1. \A v \in WorkerId : q.busy[v] # j
    BY <1>1, <1>2, <1>3
  <2>2. ASSUME NEW i \in 1..(n - 1) PROVE q.queue[i] # j
    <3>1. i + 1 \in 1..n /\ 1 \in 1..n /\ i + 1 # 1
      BY <1>1, <1>4
    <3> DEFINE m == i + 1
    <3>2. q.queue[i] = p.queue[m] /\ m \in 1..n /\ m # 1
      BY <1>4, <3>1
    <3> HIDE DEF m
    <3> QED BY <1>1, <1>3, <3>1, <3>2
  <2> QED BY <1>1, <1>2, <2>1, <2>2 DEF Held
<1>8. Crew(q, S)
  BY <1>2 DEF Books, Crew
<1>9. OnePlace(q, j)
  <2>1. \A i, k \in DOMAIN q.queue : q.queue[i] = q.queue[k] => i = k
    <3> SUFFICES ASSUME NEW i \in 1..(n - 1), NEW k \in 1..(n - 1), q.queue[i] = q.queue[k]
                 PROVE  i = k
      BY <1>1, <1>2
    <3> DEFINE l == i + 1
               m == k + 1
    <3>1. l \in 1..n /\ m \in 1..n /\ p.queue[l] = p.queue[m]
      BY <1>4
    <3> HIDE DEF l, m
    <3>2. l = m
      BY <1>3, <3>1
    <3> QED BY <3>2 DEF l, m
  <2>2. \A u \in WorkerId, i \in DOMAIN q.queue : q.busy[u] # q.queue[i]
    BY <1>1, <1>2, <1>3, <1>4
  <2>3. \A u, v \in WorkerId : q.busy[u] # NoJob /\ q.busy[u] = q.busy[v] => u = v
    BY <1>2 DEF Books, OnePlace
  <2>4. \A k \in Job : q.verdict[k] = "waiting" <=> Held(q, k) \/ k = j
    BY <1>2, <1>3, <1>6
  <2> QED BY <1>7, <2>1, <2>2, <2>3, <2>4 DEF OnePlace
<1>10. Attempts(q)
  BY <1>1, <1>2, <1>3, <1>4 DEF Books, Attempts
<1>11. q.attempts[j] < MaxAttempts
  BY <1>1, <1>2, <1>3
<1> QED BY <1>1, <1>2, <1>8, <1>9, <1>10, <1>11 DEF Books, j

(* releaseWorker: a spare worker takes a job, is retired or parked, and    *)
(* the pool neither idles beside its queue nor leaves its size.            *)
LEMMA ReleaseBooks ==
  ASSUME NEW p, NEW w \in p.workers, NEW n \in Nat, Books(p, NoJob, w),
         p.queue = <<>> \/ p.idle = {} \/ Tail(p.queue) = <<>>, Strength(p, n)
  PROVE  LET q == ReleaseWorker(p, w, n) IN
         /\ Books(q, NoJob, Nobody) /\ Conserving(q) /\ Strength(q, n)
         /\ q.workers \subseteq p.workers /\ q.verdict = p.verdict
         /\ \A v \in WorkerId \ {w} : q.busy[v] = p.busy[v]
<1> DEFINE q == ReleaseWorker(p, w, n)
<1>0. /\ p \in Pool /\ p.workers \subseteq WorkerId /\ p.idle \subseteq WorkerId
      /\ w \in WorkerId /\ p.busy[w] = NoJob /\ w \notin p.idle
  BY NobodyIsNoWorker DEF Books, Crew, Pool
<1>1. CASE p.queue # <<>>
  <2> DEFINE r == [p EXCEPT !.queue = Tail(p.queue)]
  <2>1. q = Dispatch(r, w, Head(p.queue))
    BY <1>1 DEF ReleaseWorker
  <2> HIDE DEF q
  <2>2. /\ Books(r, Head(p.queue), w)
        /\ Head(p.queue) \in Job /\ r.attempts[Head(p.queue)] < MaxAttempts
        /\ r.workers = p.workers /\ r.idle = p.idle /\ r.queue = Tail(p.queue)
        /\ r.busy = p.busy /\ r.verdict = p.verdict
    BY <1>1, HeadTaken
  <2> HIDE DEF r
  <2>3. /\ Books(q, NoJob, Nobody) /\ q.workers = r.workers /\ q.idle = r.idle /\ q.queue = r.queue
        /\ q.busy = [r.busy EXCEPT ![w] = Head(p.queue)] /\ q.verdict = r.verdict
    <3>1. w \in r.workers
      BY <2>2
    <3> QED BY <2>1, <2>2, <3>1, DispatchBooks
  <2>4. \A v \in WorkerId \ {w} : q.busy[v] = p.busy[v]
    BY <1>0, <2>2, <2>3 DEF Pool
  <2>5. p.idle = {} \/ Tail(p.queue) = <<>>
    BY <1>1
  <2> QED BY <2>2, <2>3, <2>4, <2>5 DEF Conserving, Strength, q
<1>2. CASE p.queue = <<>> /\ Cardinality(p.workers) > n
  <2>1. q = Retire(p, w)
    BY <1>2 DEF ReleaseWorker
  <2> HIDE DEF q
  <2>2. /\ Books(q, NoJob, Nobody) /\ q.workers = p.workers \ {w} /\ q.idle = p.idle \ {w}
        /\ q.queue = p.queue /\ q.busy = p.busy /\ q.verdict = p.verdict
    BY <1>0, <2>1, RetireBooks
  <2>4. Cardinality(q.workers) = Cardinality(p.workers) - 1
    BY <1>0, <2>2, Workers, FS_RemoveElement
  <2>5. Cardinality(p.workers) \in Nat
    BY <1>0, Workers
  <2>6. p.idle = {}
    BY <1>2 DEF Strength
  <2>7. Strength(q, n)
    BY <1>2, <2>2, <2>4, <2>5, <2>6 DEF Strength
  <2>8. Conserving(q)
    BY <2>2, <2>6 DEF Conserving
  <2> QED BY <2>2, <2>7, <2>8 DEF q
<1>3. CASE p.queue = <<>> /\ ~ (Cardinality(p.workers) > n)
  <2>1. q = [p EXCEPT !.idle = p.idle \cup {w}]
    BY <1>3 DEF ReleaseWorker
  <2> HIDE DEF q
  <2>2. /\ q \in Pool /\ q.workers = p.workers /\ q.idle = p.idle \cup {w}
        /\ q.queue = p.queue /\ q.busy = p.busy /\ q.verdict = p.verdict
        /\ q.attempts = p.attempts
    BY <1>0, <2>1 DEF Pool
  <2>3. Crew(q, Nobody)
    BY <1>0, <2>2 DEF Books, Crew
  <2>4. OnePlace(q, NoJob) /\ Attempts(q)
    BY <2>2 DEF Books, OnePlace, Attempts, Held
  <2>5. Conserving(q) /\ Strength(q, n)
    BY <1>3, <2>2 DEF Conserving, Strength
  <2> QED BY <2>2, <2>3, <2>4, <2>5 DEF Books, q
<1> QED BY <1>1, <1>2, <1>3

(* The messages of a worker that is gone are nobody's.                     *)
LEMMA StillAnswered ==
  ASSUME NEW p, NEW q, NEW box, Answered(p, box), p \in Pool, q.workers \subseteq p.workers,
         \A v \in q.workers : box[v] # "none" => q.busy[v] = p.busy[v]
  PROVE  Answered(q, box)
BY DEF Answered

(* failWorker: the worker goes, its job is queued again or settled, and a  *)
(* new worker steps in when the pool would be below its size.              *)
LEMMA FailBooks ==
  ASSUME IInv, NEW w \in pool.workers, CanReplace(w), NEW q, q = FailWorker(pool, w)
  PROVE  /\ started /\ Books(q, NoJob, Nobody) /\ Conserving(q) /\ Strength(q, size)
         /\ Answered(q, mail)
         /\ \/ q.verdict = pool.verdict
            \/ \E j \in Job : /\ pool.verdict[j] = "waiting"
                             /\ q.verdict = [pool.verdict EXCEPT ![j] = "false"]
<1> DEFINE j == pool.busy[w]
           u == Unbusy(pool, w)
           r == Retire(u, w)
           m == IF j = NoJob THEN r ELSE RetryOrFail(r, j)
<1>0. /\ pool \in Pool /\ pool.workers \subseteq WorkerId /\ pool.idle \subseteq WorkerId
      /\ w \in WorkerId /\ j \in Job \cup {NoJob} /\ started /\ size \in Nat
      /\ Books(pool, NoJob, Nobody) /\ pool.queue \in Seq(Job)
      /\ Conserving(pool) /\ Strength(pool, size)
  BY PoolConstants, Workers
     DEF IInv, TypeOK, Pool, Stopped, WorkConserving, AtStrength, Conserving, Strength
<1>1. /\ Books(m, NoJob, Nobody) /\ m.workers = pool.workers \ {w} /\ m.idle = pool.idle \ {w}
      /\ \A v \in WorkerId \ {w} : m.busy[v] = pool.busy[v]
      /\ \/ m.queue = pool.queue
         \/ j \in Job /\ m.queue = Append(pool.queue, j)
      /\ \/ m.verdict = pool.verdict
         \/ /\ j \in Job /\ pool.verdict[j] = "waiting"
            /\ m.verdict = [pool.verdict EXCEPT ![j] = "false"]
  <2>1. CASE j = NoJob
    <3>1. u = pool
      <4>1. [pool.busy EXCEPT ![w] = NoJob] = pool.busy
        BY <1>0, <2>1 DEF Pool
      <4> QED BY <1>0, <2>1, <4>1 DEF Unbusy, Pool
    <3>2. r = Retire(pool, w) /\ m = r
      BY <2>1, <3>1
    <3> HIDE DEF u, r, m
    <3>3. /\ Books(r, NoJob, Nobody) /\ r.workers = pool.workers \ {w} /\ r.idle = pool.idle \ {w}
          /\ r.queue = pool.queue /\ r.busy = pool.busy /\ r.verdict = pool.verdict
      BY <1>0, <2>1, <3>2, RetireBooks
    <3> QED BY <3>2, <3>3
  <2>2. CASE j \in Job
    <3>1. j # NoJob /\ m = RetryOrFail(r, j) 
      BY <2>2, PoolConstants
    <3>2. /\ Books(u, j, w) /\ u.workers = pool.workers /\ u.idle = pool.idle
          /\ u.queue = pool.queue /\ u.verdict = pool.verdict
          /\ u.busy = [pool.busy EXCEPT ![w] = NoJob]
      BY <1>0, <3>1, UnbusyBooks
    <3> HIDE DEF u
    <3>3. w \in u.workers /\ u.busy[w] = NoJob
      BY <1>0, <3>2 DEF Pool
    <3> HIDE DEF j, m
    <3>4. /\ Books(r, j, Nobody) /\ r.workers = u.workers \ {w} /\ r.idle = u.idle \ {w}
          /\ r.queue = u.queue /\ r.busy = u.busy /\ r.verdict = u.verdict
      <4>1. /\ Books(Retire(u, w), j, Nobody)
            /\ Retire(u, w).workers = u.workers \ {w} /\ Retire(u, w).idle = u.idle \ {w}
            /\ Retire(u, w).queue = u.queue /\ Retire(u, w).busy = u.busy
            /\ Retire(u, w).verdict = u.verdict
        BY <3>2, <3>3, RetireBooks
      <4> QED BY <4>1
    <3> HIDE DEF r
    <3>5. /\ Books(m, NoJob, Nobody) /\ m.workers = r.workers /\ m.idle = r.idle /\ m.busy = r.busy
          /\ m.queue = r.queue \/ m.queue = Append(r.queue, j)
          /\ m.verdict = r.verdict \/ m.verdict = [r.verdict EXCEPT ![j] = "false"]
      BY <2>2, <3>1, <3>4, RetryBooks
    <3>6. pool.verdict[j] = "waiting"
      BY <2>2, <3>2, <3>4 DEF Books, OnePlace
    <3>7. \A v \in WorkerId \ {w} : m.busy[v] = pool.busy[v]
      BY <1>0, <3>2, <3>4, <3>5 DEF Pool
    <3> QED BY <2>2, <3>2, <3>4, <3>5, <3>6, <3>7
  <2> QED BY <1>0, <2>1, <2>2
<1>2. q = Backfill(m, size)
  BY DEF FailWorker
<1>3. m \in Pool /\ m.workers \subseteq WorkerId
  BY <1>1 DEF Books, Crew, Pool
<1>4. /\ Cardinality(pool.workers) \in Nat
      /\ Cardinality(m.workers) = Cardinality(pool.workers) - 1
  BY <1>0, <1>1, Workers, FS_RemoveElement
<1> HIDE DEF m, j
<1>5. CASE Cardinality(m.workers) >= size
  <2>1. q = m
    BY <1>2, <1>5 DEF Backfill
  <2>2. pool.idle = {}
    BY <1>0, <1>4, <1>5 DEF Strength
  <2>3. Answered(m, mail)
    BY <1>0, <1>1, StillAnswered DEF IInv
  <2> QED BY <1>0, <1>1, <1>5, <2>1, <2>2, <2>3 DEF Conserving, Strength
<1>6. CASE ~ (Cardinality(m.workers) >= size)
  <2> DEFINE v == CHOOSE v \in FreeNames(m) : TRUE
             e == [m EXCEPT !.workers = m.workers \cup {v}]
  <2>1. v \in FreeNames(m)
    <3>1. FreeNames(m) = FreeNames(Retire(pool, w))
      BY <1>0, <1>1 DEF FreeNames, Retire, Pool
    <3> QED BY <3>1 DEF CanReplace
  <2>2. q = ReleaseWorker(e, v, size)
    BY <1>0, <1>2, <1>6 DEF Backfill
  <2> HIDE DEF v
  <2>3. v \in WorkerId /\ v \notin m.workers /\ mail[v] = "none"
    BY <2>1 DEF FreeNames
  <2>4. /\ e \in Pool /\ e.workers = m.workers \cup {v} /\ e.idle = m.idle /\ e.queue = m.queue
        /\ e.busy = m.busy /\ e.verdict = m.verdict /\ e.attempts = m.attempts
    BY <1>3, <2>3 DEF Pool
  <2> HIDE DEF e
  <2>5. Books(e, NoJob, v)
    <3>1. Crew(e, v)
      <4>1. Crew(m, Nobody) /\ v # Nobody /\ m.busy[v] = NoJob
        BY <1>1, <2>3, NobodyIsNoWorker DEF Books, Crew
      <4>2. \A x \in WorkerId : e.busy[x] # NoJob => x \in e.workers \ e.idle
        BY <2>4, <4>1 DEF Crew
      <4>3. \A x \in e.workers : x \in e.idle \/ e.busy[x] # NoJob \/ x = v
        BY <2>4, <4>1, NobodyIsNoWorker, <1>3 DEF Crew
      <4>4. v \in e.workers \ e.idle /\ e.busy[v] = NoJob /\ e.idle \subseteq e.workers
        BY <2>3, <2>4, <4>1 DEF Crew
      <4> QED BY <2>4, <4>2, <4>3, <4>4 DEF Crew
    <3>2. OnePlace(e, NoJob) /\ Attempts(e)
      BY <1>1, <2>4 DEF Books, OnePlace, Attempts, Held
    <3> QED BY <3>1, <3>2 DEF Books
  <2>6. Cardinality(e.workers) = size
    <3>1. Cardinality(e.workers) = Cardinality(m.workers) + 1
      BY <1>3, <2>3, <2>4, Workers, FS_AddElement
    <3> QED BY <1>0, <1>4, <1>6, <3>1 DEF Strength
  <2>7. Strength(e, size)
    BY <1>0, <2>6 DEF Strength
  <2>8. e.queue = <<>> \/ e.idle = {} \/ Tail(e.queue) = <<>>
    <3>1. pool.idle = {} \/ pool.queue = <<>>
      BY <1>0 DEF Conserving
    <3>2. ASSUME pool.queue = <<>> PROVE m.queue = <<>> \/ Tail(m.queue) = <<>>
      <4>1. m.queue = <<>> \/ (j \in Job /\ m.queue = Append(<<>>, j))
        BY <1>1, <3>2
      <4>2. ASSUME j \in Job PROVE Tail(Append(<<>>, j)) = <<>>
        BY <4>2
      <4> QED BY <4>1, <4>2
    <3> QED BY <1>1, <2>4, <3>1, <3>2
  <2>9. /\ Books(q, NoJob, Nobody) /\ Conserving(q) /\ Strength(q, size)
        /\ q.workers \subseteq e.workers /\ q.verdict = e.verdict
        /\ \A x \in WorkerId \ {v} : q.busy[x] = e.busy[x]
    <3>1. v \in e.workers
      BY <2>4
    <3> QED BY <1>0, <2>2, <2>5, <2>7, <2>8, <3>1, ReleaseBooks
  <2>10. Answered(q, mail)
    <3> SUFFICES ASSUME NEW x \in q.workers, mail[x] # "none"
                 PROVE  x \in pool.workers /\ q.busy[x] = pool.busy[x]
      BY DEF IInv, Answered
    <3>1. x # v /\ x \in m.workers /\ x \in WorkerId
      BY <1>3, <2>3, <2>4, <2>9
    <3> QED BY <1>1, <2>4, <2>9, <3>1
  <2> QED BY <1>0, <1>1, <2>4, <2>9, <2>10
<1> QED BY <1>5, <1>6

-----------------------------------------------------------------------------
(* New workers.                                                            *)

LEMMA SubsetOfSize ==
  ASSUME NEW S, IsFiniteSet(S), NEW k \in Nat, k <= Cardinality(S)
  PROVE  \E T \in SUBSET S : Cardinality(T) = k
<1>1. Cardinality(S) \in Nat /\ ExistsBijection(1..Cardinality(S), S)
  BY FS_CardinalityType
<1>2. PICK f \in Bijection(1..Cardinality(S), S) : TRUE
  BY <1>1 DEF ExistsBijection
<1>3. /\ f \in [1..Cardinality(S) -> S]
      /\ \A a, b \in 1..Cardinality(S) : f[a] = f[b] => a = b
  BY <1>2 DEF Bijection, Injection, IsInjective
<1> DEFINE T == {f[i] : i \in 1..k}
           g == [i \in 1..k |-> f[i]]
<1>4. T \in SUBSET S
  BY <1>1, <1>3
<1>5. g \in Bijection(1..k, T)
  <2>1. g \in [1..k -> T] /\ \A t \in T : \E i \in 1..k : g[i] = t
    OBVIOUS
  <2>2. \A a, b \in 1..k : g[a] = g[b] => a = b
    BY <1>1, <1>3
  <2> QED BY <2>1, <2>2 DEF Bijection, Injection, Surjection, IsInjective
<1>6. Cardinality(T) = k
  BY <1>5, FS_CountingElements DEF ExistsBijection
<1> QED BY <1>4, <1>6

LEMMA SpawnedAreFree ==
  ASSUME NEW p, NEW k \in Nat, k <= Cardinality(FreeNames(p))
  PROVE  /\ Spawned(p, k) \subseteq FreeNames(p) /\ Spawned(p, k) \subseteq WorkerId
         /\ IsFiniteSet(Spawned(p, k)) /\ Cardinality(Spawned(p, k)) = k
<1>1. FreeNames(p) \subseteq WorkerId
  BY DEF FreeNames
<1>2. \E S \in SUBSET FreeNames(p) : Cardinality(S) = k
  BY <1>1, Workers, SubsetOfSize
<1>3. Spawned(p, k) \in SUBSET FreeNames(p) /\ Cardinality(Spawned(p, k)) = k
  BY <1>2 DEF Spawned
<1> QED BY <1>1, <1>3, Workers

(* When nothing is queued, a job that is has nothing behind it.            *)
LEMMA ShortQueue ==
  ASSUME NEW j \in Job, NEW s \in Seq(Job), NEW I, s = <<>> \/ I = {},
         NEW t, t = s \/ t = Append(s, j)
  PROVE  t = <<>> \/ I = {} \/ Tail(t) = <<>>
<1>1. Tail(Append(<<>>, j)) = <<>>
  OBVIOUS
<1> QED BY <1>1

(* As many workers join as the size asks for.                              *)
LEMMA Joined ==
  ASSUME NEW S \in SUBSET WorkerId, NEW T \in SUBSET WorkerId, S \cap T = {}
  PROVE  Cardinality(S \cup T) = Cardinality(S) + Cardinality(T)
<1>1. IsFiniteSet(S) /\ IsFiniteSet(T) /\ Cardinality(S) \in Nat /\ Cardinality(T) \in Nat
  BY Workers
<1>2. Cardinality(S \cap T) = 0
  BY FS_EmptySet
<1>3. Cardinality(S \cup T) = Cardinality(S) + Cardinality(T) - Cardinality(S \cap T)
  BY <1>1, FS_Union
<1> QED BY <1>1, <1>2, <1>3

(* setSize, growing: the first jobs of the queue are dealt to the new      *)
(* workers, no job twice, and no worker idles before the queue is empty.   *)
LEMMA GrownBooks ==
  ASSUME NEW p, Books(p, NoJob, Nobody), Conserving(p),
         NEW k \in Nat, k <= Cardinality(FreeNames(p))
  PROVE  LET q == Grown(p, k) IN
         /\ Books(q, NoJob, Nobody) /\ Conserving(q)
         /\ Cardinality(q.workers) = Cardinality(p.workers) + k
         /\ q.verdict = p.verdict
         /\ \A w \in q.workers : mail[w] # "none" => w \in p.workers /\ q.busy[w] = p.busy[w]
<1> DEFINE q      == Grown(p, k)
           new    == Spawned(p, k)
           turn   == CHOOSE t \in Bijection(new, 1..k) : TRUE
           L      == Len(p.queue)
           dealt  == IF k < L THEN k ELSE L
           takers == {w \in new : turn[w] <= dealt}
           taken  == {p.queue[turn[w]] : w \in takers}
           at     == [w \in WorkerId |-> IF w \in takers THEN p.queue[turn[w]] ELSE p.busy[w]]
           more   == [j \in Job |-> IF j \in taken THEN p.attempts[j] + 1 ELSE p.attempts[j]]
           rest   == SubSeq(p.queue, dealt + 1, L)
<1>1. /\ p \in Pool /\ p.queue \in Seq(Job) /\ L \in Nat /\ p.workers \subseteq WorkerId
      /\ p.idle \subseteq WorkerId /\ DOMAIN p.queue = 1..L
      /\ \A i \in 1..L : p.queue[i] \in Job
      /\ \A w \in WorkerId : p.busy[w] \in Job \cup {NoJob}
  BY DEF Books, Crew, Pool
<1>2. /\ new \subseteq FreeNames(p) /\ new \subseteq WorkerId /\ IsFiniteSet(new)
      /\ Cardinality(new) = k
  BY SpawnedAreFree
<1>3. \A w \in new : w \in WorkerId /\ w \notin p.workers /\ mail[w] = "none"
  BY <1>2 DEF FreeNames
<1> HIDE DEF new
<1>4. turn \in Bijection(new, 1..k)
  <2>1. ExistsBijection(new, 1..k)
    <3>1. IsFiniteSet(1..k) /\ Cardinality(1..k) = k
      BY FS_Interval
    <3> QED BY <1>2, <3>1, FS_SameCardinalityBij
  <2> QED BY <2>1 DEF ExistsBijection
<1> HIDE DEF turn
<1>5. /\ \A w \in new : turn[w] \in 1..k
      /\ \A v, w \in new : turn[v] = turn[w] => v = w
      /\ \A i \in 1..k : \E w \in new : turn[w] = i
  BY <1>4 DEF Bijection, Injection, Surjection, IsInjective
<1>6. dealt \in 0..L /\ dealt <= k /\ (dealt = k \/ dealt = L)
  BY <1>1
<1> HIDE DEF L, dealt
<1>7. /\ \A w \in takers : w \in new /\ turn[w] \in 1..dealt /\ turn[w] \in 1..L
      /\ \A w \in new : turn[w] <= dealt => w \in takers
  BY <1>1, <1>5, <1>6
<1>8. /\ rest \in Seq(Job) /\ Len(rest) = L - dealt /\ DOMAIN rest = 1..(L - dealt)
      /\ \A i \in 1..(L - dealt) : rest[i] = p.queue[dealt + i] /\ dealt + i \in 1..L
  <2>1. \A i \in (dealt + 1)..L : p.queue[i] \in Job
    BY <1>1, <1>6
  <2>2. /\ rest \in Seq(Job)
        /\ Len(rest) = IF dealt + 1 <= L THEN L - (dealt + 1) + 1 ELSE 0
        /\ \A i \in 1..(L - (dealt + 1) + 1) : rest[i] = p.queue[dealt + 1 + i - 1]
    BY <1>1, <1>6, <2>1, SubSeqProperties
  <2> HIDE DEF rest
  <2>3. Len(rest) = L - dealt /\ L - (dealt + 1) + 1 = L - dealt
    BY <1>1, <1>6, <2>2
  <2>4. ASSUME NEW i \in 1..(L - dealt) PROVE rest[i] = p.queue[dealt + i] /\ dealt + i \in 1..L
    <3>1. dealt + 1 + i - 1 = dealt + i
      BY <1>1, <1>6
    <3> QED BY <1>1, <1>6, <2>2, <2>3, <3>1
  <2> QED BY <2>2, <2>3, <2>4
<1> HIDE DEF rest, takers
<1>9. taken \subseteq Job /\ \A j \in taken : \E i \in 1..L : p.queue[i] = j
  BY <1>1, <1>7
<1> HIDE DEF taken
<1>10. at \in [WorkerId -> Job \cup {NoJob}] /\ more \in [Job -> 0..MaxAttempts]
  <2>1. at \in [WorkerId -> Job \cup {NoJob}]
    BY <1>1, <1>7
  <2>2. ASSUME NEW j \in taken PROVE p.attempts[j] + 1 \in 0..MaxAttempts
    <3>1. p.attempts[j] < MaxAttempts /\ p.attempts[j] \in 0..MaxAttempts
      BY <1>1, <1>9 DEF Books, Attempts, Pool
    <3> QED BY <3>1, PoolConstants
  <2>3. more \in [Job -> 0..MaxAttempts]
    BY <1>1, <2>2 DEF Pool
  <2> QED BY <2>1, <2>3
<1>11. /\ q \in Pool /\ q.workers = p.workers \cup new /\ q.idle = p.idle \cup (new \ takers)
       /\ q.queue = rest /\ q.busy = at /\ q.attempts = more /\ q.verdict = p.verdict
  <2>1. q = [p EXCEPT !.workers = p.workers \cup new, !.idle = p.idle \cup (new \ takers),
                      !.queue = rest, !.busy = at, !.attempts = more]
    BY <1>1 DEF Grown, new, turn, dealt, L, takers, taken, rest, Pool
  <2> HIDE DEF q, at, more
  <2> QED BY <1>1, <1>2, <1>8, <1>10, <2>1 DEF Pool
<1>12. \A w \in WorkerId : q.busy[w] = IF w \in takers THEN p.queue[turn[w]] ELSE p.busy[w]
  BY <1>11
<1>13. \A j \in Job : q.attempts[j] = IF j \in taken THEN p.attempts[j] + 1 ELSE p.attempts[j]
  BY <1>11
<1> HIDE DEF q, at, more
<1>14. /\ \A v, w \in WorkerId : p.busy[v] # NoJob /\ p.busy[v] = p.busy[w] => v = w
       /\ \A i, k_1 \in 1..L : p.queue[i] = p.queue[k_1] => i = k_1
       /\ \A w \in WorkerId, i \in 1..L : p.busy[w] # p.queue[i]
       /\ \A j \in Job : p.verdict[j] = "waiting" <=> Held(p, j)
       /\ \A i \in 1..L : p.attempts[p.queue[i]] < MaxAttempts
       /\ \A w \in WorkerId : p.busy[w] # NoJob => w \in p.workers \ p.idle
       /\ \A w \in p.workers : w \in p.idle \/ p.busy[w] # NoJob
       /\ p.idle \subseteq p.workers
  BY <1>1, PoolConstants, NobodyIsNoWorker DEF Books, Crew, OnePlace, Attempts
<1>15. \A w \in takers : w \in WorkerId /\ w \notin p.workers /\ p.queue[turn[w]] \in Job
                       /\ q.busy[w] = p.queue[turn[w]]
  BY <1>1, <1>3, <1>7, <1>12
<1>16. Crew(q, Nobody)
  <2>1. \A w \in WorkerId : q.busy[w] # NoJob => w \in q.workers \ q.idle
    BY <1>3, <1>7, <1>11, <1>12, <1>14
  <2>2. \A w \in q.workers : w \in q.idle \/ q.busy[w] # NoJob
    <3> SUFFICES ASSUME NEW w \in q.workers PROVE w \in q.idle \/ q.busy[w] # NoJob
      OBVIOUS
    <3>1. CASE w \in takers
      BY <1>15, <3>1, PoolConstants
    <3>2. CASE w \in new \ takers
      BY <1>11, <3>2
    <3>3. CASE w \in p.workers
      BY <1>1, <1>11, <1>12, <1>14, <1>15, <3>3
    <3> QED BY <1>11, <3>1, <3>2, <3>3
  <2>3. q.idle \subseteq q.workers
    BY <1>11, <1>14
  <2> QED BY <1>11, <2>1, <2>2, <2>3 DEF Crew
<1>17. \A j \in Job : Held(q, j) <=> Held(p, j)
  <2> SUFFICES ASSUME NEW j \in Job PROVE Held(q, j) <=> Held(p, j)
    OBVIOUS
  <2>1. ASSUME NEW w \in WorkerId, q.busy[w] = j PROVE Held(p, j)
    BY <1>1, <1>7, <1>12, <2>1 DEF Held
  <2>2. ASSUME NEW i \in DOMAIN q.queue, q.queue[i] = j PROVE Held(p, j)
    <3>1. dealt + i \in DOMAIN p.queue /\ p.queue[dealt + i] = j
      BY <1>1, <1>8, <1>11, <2>2
    <3> QED BY <3>1 DEF Held
  <2>3. ASSUME NEW w \in WorkerId, p.busy[w] = j PROVE Held(q, j)
    <3>1. w \notin takers
      BY <1>14, <1>15, <2>3, PoolConstants
    <3> QED BY <1>12, <2>3, <3>1 DEF Held
  <2>4. ASSUME NEW i \in 1..L, p.queue[i] = j PROVE Held(q, j)
    <3>1. CASE i <= dealt
      <4>1. i \in 1..k
        BY <1>6, <3>1
      <4>2. PICK w \in new : turn[w] = i
        BY <1>5, <4>1
      <4>3. w \in takers
        BY <1>7, <3>1, <4>2
      <4> QED BY <1>15, <2>4, <4>2, <4>3 DEF Held
    <3>2. CASE ~ (i <= dealt)
      <4> DEFINE m == i - dealt
      <4>1. m \in 1..(L - dealt) /\ dealt + m = i
        BY <1>1, <1>6, <3>2
      <4> HIDE DEF m
      <4>2. m \in DOMAIN q.queue /\ q.queue[m] = j
        BY <1>8, <1>11, <2>4, <4>1
      <4> QED BY <4>2 DEF Held
    <3> QED BY <3>1, <3>2
  <2> QED BY <1>1, <2>1, <2>2, <2>3, <2>4 DEF Held
<1>18. OnePlace(q, NoJob)
  <2>1. ASSUME NEW v \in WorkerId, NEW w \in WorkerId, q.busy[v] # NoJob, q.busy[v] = q.busy[w]
        PROVE  v = w
    <3>1. CASE v \in takers /\ w \in takers
      BY <1>5, <1>7, <1>14, <1>15, <2>1, <3>1
    <3>2. CASE v \in takers /\ w \notin takers
      BY <1>7, <1>12, <1>14, <2>1, <3>2
    <3>3. CASE v \notin takers /\ w \in takers
      BY <1>7, <1>12, <1>14, <2>1, <3>3
    <3>4. CASE v \notin takers /\ w \notin takers
      BY <1>12, <1>14, <2>1, <3>4
    <3> QED BY <3>1, <3>2, <3>3, <3>4
  <2>2. ASSUME NEW i \in DOMAIN q.queue, NEW m \in DOMAIN q.queue, q.queue[i] = q.queue[m]
        PROVE  i = m
    <3> DEFINE a == dealt + i
               b == dealt + m
    <3>1. a \in 1..L /\ b \in 1..L /\ p.queue[a] = p.queue[b] /\ i \in Int /\ m \in Int
      BY <1>8, <1>11, <2>2
    <3> HIDE DEF a, b
    <3>2. a = b
      BY <1>14, <3>1
    <3> QED BY <1>6, <3>1, <3>2 DEF a, b
  <2>3. ASSUME NEW w \in WorkerId, NEW i \in DOMAIN q.queue
        PROVE  q.busy[w] # q.queue[i]
    <3> DEFINE a == dealt + i
    <3>1. a \in 1..L /\ q.queue[i] = p.queue[a] /\ i \in 1..(L - dealt)
      BY <1>8, <1>11
    <3>2. a > dealt /\ dealt \in Nat /\ a \in Int
      BY <1>6, <3>1
    <3> HIDE DEF a
    <3>3. CASE w \in takers
      <4>1. turn[w] \in 1..L /\ turn[w] # a
        BY <1>7, <3>2, <3>3
      <4> QED BY <1>14, <1>15, <3>1, <3>3, <4>1
    <3>4. CASE w \notin takers
      BY <1>12, <1>14, <3>1, <3>4
    <3> QED BY <3>3, <3>4
  <2>4. \A j \in Job : q.verdict[j] = "waiting" <=> Held(q, j) \/ j = NoJob
    BY <1>11, <1>14, <1>17, PoolConstants
  <2> QED BY <2>1, <2>2, <2>3, <2>4 DEF OnePlace
<1>19. Attempts(q)
  <2>1. ASSUME NEW i \in DOMAIN q.queue PROVE q.attempts[q.queue[i]] < MaxAttempts
    <3> DEFINE a == dealt + i
    <3>1. a \in 1..L /\ q.queue[i] = p.queue[a] /\ i \in 1..(L - dealt)
      BY <1>8, <1>11
    <3>2. a > dealt /\ dealt \in Nat /\ a \in Int
      BY <1>6, <3>1
    <3> HIDE DEF a
    <3>3. p.queue[a] \notin taken
      BY <1>7, <1>14, <3>1, <3>2 DEF taken
    <3> QED BY <1>1, <1>13, <1>14, <3>1, <3>3
  <2>2. \A j \in taken : p.verdict[j] = "waiting"
    <3> SUFFICES ASSUME NEW j \in taken PROVE p.verdict[j] = "waiting"
      OBVIOUS
    <3>1. Held(p, j) /\ j \in Job
      BY <1>1, <1>9 DEF Held
    <3> QED BY <1>14, <3>1
  <2> QED BY <1>11, <1>13, <2>1, <2>2, PoolConstants DEF Books, Attempts
<1>20. Conserving(q)
  <2> SUFFICES ASSUME q.queue # <<>> PROVE q.idle = {}
    BY DEF Conserving
  <2>1. dealt < L
    <3>1. ASSUME dealt = L PROVE FALSE
      <4>1. Len(rest) = 0
        BY <1>1, <1>8, <3>1
      <4> QED BY <1>8, <1>11, <4>1
    <3> QED BY <1>1, <1>6, <3>1
  <2>2. dealt = k /\ p.queue # <<>>
    BY <1>1, <1>6, <2>1 DEF L
  <2>3. p.idle = {}
    BY <2>2 DEF Conserving
  <2>4. new \subseteq takers
    BY <1>5, <1>7, <2>2
  <2> QED BY <1>11, <2>3, <2>4
<1>21. Cardinality(q.workers) = Cardinality(p.workers) + k
  <2>1. p.workers \cap new = {}
    BY <1>3
  <2> QED BY <1>1, <1>2, <1>11, <2>1, Joined
<1>22. \A w \in q.workers : mail[w] # "none" => w \in p.workers /\ q.busy[w] = p.busy[w]
  BY <1>1, <1>3, <1>7, <1>11, <1>12
<1> QED BY <1>11, <1>16, <1>18, <1>19, <1>20, <1>21, <1>22 DEF Books, q

-----------------------------------------------------------------------------
(* The invariant is inductive.                                             *)

LEMMA InitInv == Init => IInv
<1> SUFFICES ASSUME Init PROVE IInv
  OBVIOUS
<1> DEFINE e == [ workers |-> {}, idle |-> {}, queue |-> <<>>,
                  busy |-> [w \in WorkerId |-> NoJob],
                  attempts |-> [j \in Job |-> 0],
                  verdict |-> [j \in Job |-> "new"] ]
<1>1. /\ pool = e /\ size = InitialSize /\ started = FALSE
      /\ mail = [w \in WorkerId |-> "none"] /\ terminates = 0
  BY DEF Init
<1>2. /\ pool.workers = {} /\ pool.idle = {} /\ pool.queue = <<>>
      /\ pool.busy = [w \in WorkerId |-> NoJob] /\ pool.attempts = [j \in Job |-> 0]
      /\ pool.verdict = [j \in Job |-> "new"]
  BY <1>1
<1>3. pool \in Pool
  <2>1. [j \in Job |-> 0] \in [Job -> 0..MaxAttempts] /\ <<>> \in Seq(Job)
    BY PoolConstants
  <2> QED BY <1>1, <2>1 DEF Pool
<1>4. TypeOK
  <2> HIDE DEF e
  <2>1. 0 \in 0..MaxTerminates
    BY PoolConstants
  <2> QED BY <1>1, <1>3, <2>1, PoolConstants DEF TypeOK
<1>5. DOMAIN pool.queue = {} /\ \A j \in Job : ~ Held(pool, j)
  BY <1>2, PoolConstants DEF Held
<1>6. Books(pool, NoJob, Nobody)
  BY <1>2, <1>3, <1>5, PoolConstants DEF Books, Crew, OnePlace, Attempts
<1> QED BY <1>1, <1>2, <1>4, <1>6 DEF IInv, Answered, Stopped, WorkConserving, AtStrength

(* What verify() and its answers do to the promises.                       *)
Kept ==
  \/ pool'.verdict = pool.verdict
  \/ \E j \in Job : pool.verdict[j] = "new" /\ pool'.verdict = [pool.verdict EXCEPT ![j] = "waiting"]
  \/ \E j \in Job, answer \in {"true", "false"} :
       /\ pool.verdict[j] = "waiting" /\ (answer = "true" => j \in Good)
       /\ pool'.verdict = [pool.verdict EXCEPT ![j] = answer]
  \/ pool'.verdict = [j \in Job |-> IF pool.verdict[j] = "waiting" THEN "lost" ELSE pool.verdict[j]]

(* A handler leaves the invariant as it found it when the pool it leaves   *)
(* is in order.                                                            *)
LEMMA InOrder ==
  ASSUME size' \in Sizes, started' \in BOOLEAN,
         mail' \in [WorkerId -> {"none", "ok", "bad", "err"}], terminates' \in 0..MaxTerminates,
         Books(pool', NoJob, Nobody), Answered(pool', mail'), Conserving(pool'),
         started' => Strength(pool', size'),
         ~ started' => pool'.workers = {} /\ pool'.queue = <<>>
  PROVE  IInv'
BY DEF IInv, TypeOK, Books, Crew, OnePlace, Attempts, Held, Answered, Stopped, WorkConserving,
       AtStrength, Conserving, Strength, Pool

LEMMA TimeoutKeeps ==
  ASSUME IInv, NEW w \in WorkerId, Timeout(w) \/ OnError(w)
  PROVE  IInv' /\ Kept
<1>1. /\ w \in pool.workers /\ CanReplace(w) /\ pool' = FailWorker(pool, w)
      /\ UNCHANGED <<size, started, mail, terminates>>
  BY DEF Timeout, OnError
<1>2. /\ started /\ Books(pool', NoJob, Nobody) /\ Conserving(pool') /\ Strength(pool', size)
      /\ Answered(pool', mail)
      /\ \/ pool'.verdict = pool.verdict
         \/ \E j \in Job : /\ pool.verdict[j] = "waiting"
                          /\ pool'.verdict = [pool.verdict EXCEPT ![j] = "false"]
  BY <1>1, FailBooks
<1>3. IInv'
  BY <1>1, <1>2, InOrder DEF IInv, TypeOK
<1>4. Kept
  BY <1>2 DEF Kept
<1> QED BY <1>3, <1>4

LEMMA AnswerKeeps ==
  ASSUME IInv, NEW w \in WorkerId, WorkerAnswers(w)
  PROVE  IInv' /\ Kept
<1>1. /\ w \in pool.workers /\ pool.busy[w] # NoJob /\ mail[w] = "none"
      /\ mail' \in [WorkerId -> {"none", "ok", "bad", "err"}]
      /\ mail'[w] = "ok" => pool.busy[w] \in Good
      /\ mail'[w] = "bad" => pool.busy[w] \notin Good
      /\ \A v \in WorkerId \ {w} : mail'[v] = mail[v]
      /\ UNCHANGED <<pool, size, started, terminates>>
  BY DEF WorkerAnswers, IInv, TypeOK
<1>2. pool.workers \subseteq WorkerId
  BY DEF IInv, TypeOK, Pool
<1>3. Answered(pool, mail')
  BY <1>1, <1>2 DEF IInv, Answered
<1>4. /\ Books(pool, NoJob, Nobody) /\ Conserving(pool)
      /\ started => Strength(pool, size)
      /\ size \in Sizes /\ started \in BOOLEAN /\ terminates \in 0..MaxTerminates
      /\ ~ started => pool.workers = {} /\ pool.queue = <<>>
  BY DEF IInv, TypeOK, WorkConserving, AtStrength, Conserving, Strength, Stopped
<1>5. IInv'
  BY <1>1, <1>3, <1>4, InOrder
<1>6. Kept
  BY <1>1 DEF Kept
<1> QED BY <1>5, <1>6

(* onmessage: the answer of a worker that is gone changes nothing; any     *)
(* other settles its job or queues it again, and frees the worker.         *)
LEMMA MessageKeeps ==
  ASSUME IInv, NEW w \in WorkerId, OnMessage(w)
  PROVE  IInv' /\ Kept
<1> DEFINE j == pool.busy[w]
           u == Unbusy(pool, w)
           answer == IF mail[w] = "ok" THEN "true" ELSE "false"
           p == IF mail[w] = "err" THEN RetryOrFail(u, j) ELSE Resolve(u, j, answer)
<1>1. /\ mail[w] # "none" /\ mail' = [mail EXCEPT ![w] = "none"]
      /\ UNCHANGED <<size, started, terminates>>
      /\ j = NoJob => pool' = ReleaseWorker(pool, w, size)
      /\ j # NoJob => pool' = ReleaseWorker(p, w, size)
  BY DEF OnMessage
<1>2. /\ Books(pool, NoJob, Nobody) /\ Conserving(pool)
      /\ started => Strength(pool, size)
      /\ size \in Sizes /\ size \in Nat /\ started \in BOOLEAN /\ terminates \in 0..MaxTerminates
      /\ ~ started => pool.workers = {} /\ pool.queue = <<>>
      /\ mail \in [WorkerId -> {"none", "ok", "bad", "err"}] /\ Answered(pool, mail)
      /\ pool \in Pool /\ pool.workers \subseteq WorkerId /\ pool.queue \in Seq(Job)
  BY PoolConstants, Workers
     DEF IInv, TypeOK, WorkConserving, AtStrength, Conserving, Strength, Stopped, Pool
<1>3. /\ mail' \in [WorkerId -> {"none", "ok", "bad", "err"}] /\ mail'[w] = "none"
      /\ \A v \in WorkerId \ {w} : mail'[v] = mail[v]
  BY <1>1, <1>2
<1>4. CASE w \notin pool.workers
  <2>1. pool' = pool
    <3>1. j = NoJob
      BY <1>2, <1>4 DEF Books, Crew
    <3> QED BY <1>1, <1>4, <3>1 DEF ReleaseWorker
  <2>2. Answered(pool, mail')
    BY <1>2, <1>3, <1>4 DEF Answered
  <2> QED BY <1>1, <1>2, <1>3, <2>1, <2>2, InOrder DEF Kept
<1>5. CASE w \in pool.workers
  <2>1. /\ j # NoJob /\ j \in Job /\ started
        /\ mail[w] = "ok" => j \in Good
        /\ mail[w] = "bad" => j \notin Good
        /\ mail[w] \in {"ok", "bad", "err"}
    BY <1>1, <1>2, <1>5 DEF Answered, Pool
  <2>2. /\ Books(u, j, w) /\ u.workers = pool.workers /\ u.idle = pool.idle
        /\ u.queue = pool.queue /\ u.verdict = pool.verdict
        /\ u.busy = [pool.busy EXCEPT ![w] = NoJob]
    BY <1>2, <2>1, UnbusyBooks
  <2>3. pool.verdict[j] = "waiting"
    BY <2>1, <2>2 DEF Books, OnePlace
  <2> HIDE DEF u, j
  <2>4. /\ Books(p, NoJob, w)
        /\ p.workers = u.workers /\ p.idle = u.idle /\ p.busy = u.busy
        /\ p.queue = u.queue \/ p.queue = Append(u.queue, j)
        /\ \/ p.verdict = u.verdict
           \/ \E a \in {"true", "false"} : /\ a = "true" => j \in Good
                                         /\ p.verdict = [u.verdict EXCEPT ![j] = a]
    <3>1. CASE mail[w] = "err"
      <4>1. p = RetryOrFail(u, j)
        BY <3>1
      <4> HIDE DEF p
      <4>2. /\ Books(p, NoJob, w)
            /\ p.workers = u.workers /\ p.idle = u.idle /\ p.busy = u.busy
            /\ p.queue = u.queue \/ p.queue = Append(u.queue, j)
            /\ p.verdict = u.verdict \/ p.verdict = [u.verdict EXCEPT ![j] = "false"]
        <5>1. j \in Job /\ Books(u, j, w)
          BY <2>1, <2>2
        <5> QED BY <4>1, <5>1, RetryBooks
      <4>3. "false" \in {"true", "false"} /\ "false" # "true"
        OBVIOUS
      <4> QED BY <4>2, <4>3
    <3>2. CASE mail[w] # "err"
      <4>1. p = Resolve(u, j, answer)
        BY <3>2
      <4>2. /\ answer \in {"true", "false"}
            /\ answer = "true" => j \in Good
            /\ answer = "false" => j \notin Good
        BY <2>1, <3>2
      <4> HIDE DEF p, answer
      <4>3. /\ Books(p, NoJob, w)
            /\ p.workers = u.workers /\ p.idle = u.idle /\ p.busy = u.busy /\ p.queue = u.queue
            /\ p.verdict = [u.verdict EXCEPT ![j] = answer]
        <5>1. j \in Job /\ Books(u, j, w)
          BY <2>1, <2>2
        <5> QED BY <4>1, <4>2, <5>1, ResolveBooks
      <4> QED BY <4>2, <4>3
    <3> QED BY <3>1, <3>2
  <2>5. pool' = ReleaseWorker(p, w, size)
    BY <1>1, <2>1 DEF j
  <2> HIDE DEF p
  <2>6. Strength(p, size) /\ w \in p.workers
    BY <1>2, <1>5, <2>1, <2>2, <2>4 DEF Strength
  <2>7. p.queue = <<>> \/ p.idle = {} \/ Tail(p.queue) = <<>>
    <3>1. pool.queue = <<>> \/ pool.idle = {}
      BY <1>2 DEF Conserving
    <3> QED BY <1>2, <2>1, <2>2, <2>4, <3>1, ShortQueue
  <2>8. /\ Books(pool', NoJob, Nobody) /\ Conserving(pool') /\ Strength(pool', size)
        /\ pool'.workers \subseteq p.workers /\ pool'.verdict = p.verdict
        /\ \A v \in WorkerId \ {w} : pool'.busy[v] = p.busy[v]
    BY <1>2, <2>4, <2>5, <2>6, <2>7, ReleaseBooks
  <2>9. Answered(pool', mail')
    <3> SUFFICES ASSUME NEW v \in pool'.workers, mail'[v] # "none"
                 PROVE  mail'[v] = mail[v] /\ v \in pool.workers /\ pool'.busy[v] = pool.busy[v]
      BY <1>2 DEF Answered
    <3>1. v # w /\ v \in pool.workers /\ v \in WorkerId
      BY <1>2, <1>3, <2>2, <2>4, <2>8
    <3> QED BY <1>2, <1>3, <2>2, <2>4, <2>8, <3>1 DEF Pool
  <2>10. IInv'
    BY <1>1, <1>2, <1>3, <2>1, <2>8, <2>9, InOrder
  <2>11. Kept
    BY <2>1, <2>2, <2>3, <2>4, <2>8 DEF Kept
  <2> QED BY <2>10, <2>11
<1> QED BY <1>4, <1>5

(* ensureStarted: the pool has its workers.                                *)
LEMMA StartedBooks ==
  ASSUME IInv, started \/ Cardinality(FreeNames(pool)) >= size
  PROVE  LET e == EnsureStarted(pool) IN
         /\ Books(e, NoJob, Nobody) /\ Conserving(e) /\ Strength(e, size)
         /\ Answered(e, mail)
         /\ e.verdict = pool.verdict
<1> DEFINE e == EnsureStarted(pool)
           new == Spawned(pool, size)
<1>0. /\ pool \in Pool /\ size \in Nat /\ Books(pool, NoJob, Nobody) /\ Answered(pool, mail)
      /\ Conserving(pool)
      /\ started => Strength(pool, size)
      /\ ~ started => pool.workers = {} /\ pool.queue = <<>>
  BY PoolConstants, Workers
     DEF IInv, TypeOK, Stopped, WorkConserving, AtStrength, Conserving, Strength
<1>1. CASE started
  BY <1>0, <1>1 DEF EnsureStarted
<1>2. CASE ~ started
  <2>1. /\ e = [pool EXCEPT !.workers = pool.workers \cup new, !.idle = pool.idle \cup new]
        /\ Cardinality(FreeNames(pool)) >= size
    BY <1>2 DEF EnsureStarted
  <2>2. FreeNames(pool) \subseteq WorkerId
    BY DEF FreeNames
  <2>3. /\ new \subseteq FreeNames(pool) /\ new \subseteq WorkerId
        /\ Cardinality(new) = size
    <3>1. size <= Cardinality(FreeNames(pool))
      BY <1>0, <2>1, <2>2, Workers
    <3> QED BY <1>0, <3>1, SpawnedAreFree
  <2>4. \A w \in new : mail[w] = "none"
    BY <2>3 DEF FreeNames
  <2> HIDE DEF e, new
  <2>5. pool.workers = {} /\ pool.idle = {} /\ pool.queue = <<>>
    BY <1>0, <1>2 DEF Books, Crew
  <2>6. /\ e \in Pool /\ e.workers = new /\ e.idle = new /\ e.queue = pool.queue
        /\ e.busy = pool.busy /\ e.verdict = pool.verdict /\ e.attempts = pool.attempts
    BY <1>0, <2>1, <2>3, <2>5 DEF Pool
  <2>7. Crew(e, Nobody)
    BY <1>0, <2>5, <2>6 DEF Books, Crew
  <2>8. OnePlace(e, NoJob) /\ Attempts(e)
    BY <1>0, <2>6 DEF Books, OnePlace, Attempts, Held
  <2>9. Strength(e, size)
    BY <1>0, <2>3, <2>6 DEF Strength
  <2>10. Answered(e, mail) /\ Conserving(e)
    BY <2>4, <2>5, <2>6 DEF Answered, Conserving
  <2> QED BY <2>6, <2>7, <2>8, <2>9, <2>10 DEF Books, e
<1> QED BY <1>1, <1>2

(* A job asked for is one nobody holds yet.                                *)
LEMMA AskedBooks ==
  ASSUME NEW e, NEW j \in Job, Books(e, NoJob, Nobody), e.verdict[j] = "new"
  PROVE  LET p == Resolve(e, j, "waiting") IN
         /\ Books(p, j, Nobody) /\ p.attempts[j] < MaxAttempts
         /\ p.workers = e.workers /\ p.idle = e.idle /\ p.busy = e.busy /\ p.queue = e.queue
         /\ p.verdict = [e.verdict EXCEPT ![j] = "waiting"]
<1> DEFINE p == Resolve(e, j, "waiting")
<1>0. e \in Pool /\ ~ Held(e, j) /\ e.attempts[j] = 0
  BY PoolConstants DEF Books, Crew, OnePlace, Attempts
<1>1. /\ p \in Pool /\ p.workers = e.workers /\ p.idle = e.idle /\ p.queue = e.queue
      /\ p.attempts = e.attempts /\ p.busy = e.busy
      /\ p.verdict = [e.verdict EXCEPT ![j] = "waiting"]
  BY <1>0 DEF Resolve, Pool
<1> HIDE DEF p
<1>2. \A k \in Job : p.verdict[k] = IF k = j THEN "waiting" ELSE e.verdict[k]
  BY <1>0, <1>1 DEF Pool
<1>3. \A k : Held(p, k) <=> Held(e, k)
  BY <1>1 DEF Held
<1>4. Crew(p, Nobody)
  BY <1>1 DEF Books, Crew
<1>5. OnePlace(p, j)
  BY <1>0, <1>1, <1>2, <1>3, PoolConstants DEF Books, OnePlace
<1>6. Attempts(p)
  BY <1>1, <1>2, PoolConstants DEF Books, Attempts
<1>7. p.attempts[j] < MaxAttempts
  BY <1>0, <1>1, PoolConstants
<1> QED BY <1>1, <1>4, <1>5, <1>6, <1>7 DEF Books, p

(* verify(): the job goes to an idle worker, or waits when there is none.  *)
LEMMA VerifyKeeps ==
  ASSUME IInv, NEW j \in Job, Verify(j)
  PROVE  IInv' /\ Kept
<1> DEFINE e == EnsureStarted(pool)
           p == Resolve(e, j, "waiting")
           w == CHOOSE w \in p.idle : TRUE
           r == [p EXCEPT !.idle = p.idle \ {w}]
<1>1. /\ pool.verdict[j] = "new"
      /\ started \/ Cardinality(FreeNames(pool)) >= size
      /\ p.idle = {} => pool' = [p EXCEPT !.queue = Append(p.queue, j)]
      /\ p.idle # {} => pool' = Dispatch(r, w, j)
      /\ started' = TRUE /\ UNCHANGED <<size, mail, terminates>>
  BY DEF Verify
<1>2. /\ size \in Sizes /\ terminates \in 0..MaxTerminates
      /\ mail \in [WorkerId -> {"none", "ok", "bad", "err"}]
  BY DEF IInv, TypeOK
<1>3. /\ Books(e, NoJob, Nobody) /\ Conserving(e) /\ Strength(e, size)
      /\ Answered(e, mail) /\ e.verdict = pool.verdict
  BY <1>1, StartedBooks
<1> HIDE DEF e
<1>4. /\ Books(p, j, Nobody) /\ p.attempts[j] < MaxAttempts
      /\ p.workers = e.workers /\ p.idle = e.idle /\ p.busy = e.busy /\ p.queue = e.queue
      /\ p.verdict = [e.verdict EXCEPT ![j] = "waiting"]
  BY <1>1, <1>3, AskedBooks
<1> HIDE DEF p
<1>5. p \in Pool /\ p.workers \subseteq WorkerId
  BY <1>4 DEF Books, Crew, Pool
<1>6. /\ Books(pool', NoJob, Nobody) /\ Conserving(pool') /\ Strength(pool', size)
      /\ pool'.verdict = p.verdict /\ pool'.workers = p.workers
      /\ \A v \in p.workers : mail[v] # "none" => pool'.busy[v] = p.busy[v]
  <2>1. CASE p.idle = {}
    <3> DEFINE q == [p EXCEPT !.queue = Append(p.queue, j)]
    <3>1. /\ Books(q, NoJob, Nobody)
          /\ q.workers = p.workers /\ q.idle = p.idle /\ q.busy = p.busy
          /\ q.queue = Append(p.queue, j) /\ q.verdict = p.verdict
      BY <1>4, QueueBooks
    <3>2. pool' = q
      BY <1>1, <2>1
    <3> HIDE DEF q
    <3> QED BY <1>3, <1>4, <2>1, <3>1, <3>2 DEF Conserving, Strength
  <2>2. CASE p.idle # {}
    <3>1. w \in p.idle
      BY <2>2
    <3> HIDE DEF w
    <3>2. /\ r \in Pool /\ r.workers = p.workers /\ r.idle = p.idle \ {w} /\ r.queue = p.queue
          /\ r.busy = p.busy /\ r.verdict = p.verdict /\ r.attempts = p.attempts
      BY <1>5 DEF Pool
    <3>3. w \in p.workers /\ w \in WorkerId /\ p.busy[w] = NoJob /\ mail[w] = "none"
      BY <1>3, <1>4, <1>5, <3>1 DEF Books, Crew, Answered
    <3> HIDE DEF r
    <3>4. Crew(r, w)
      <4>1. Crew(p, Nobody)
        BY <1>4 DEF Books
      <4>2. \A v \in WorkerId : r.busy[v] # NoJob => v \in r.workers \ r.idle
        BY <3>2, <4>1 DEF Crew
      <4>3. \A v \in r.workers : v \in r.idle \/ r.busy[v] # NoJob \/ v = w
        BY <1>5, <3>2, <4>1, NobodyIsNoWorker DEF Crew
      <4>4. r.idle \subseteq r.workers /\ w \in r.workers \ r.idle /\ r.busy[w] = NoJob
        BY <3>2, <3>3, <4>1 DEF Crew
      <4> QED BY <3>2, <4>2, <4>3, <4>4 DEF Crew
    <3>5. OnePlace(r, j) /\ Attempts(r)
      BY <1>4, <3>2 DEF Books, OnePlace, Attempts, Held
    <3>6. /\ Books(pool', NoJob, Nobody)
          /\ pool'.workers = r.workers /\ pool'.idle = r.idle /\ pool'.queue = r.queue
          /\ pool'.busy = [r.busy EXCEPT ![w] = j] /\ pool'.verdict = r.verdict
      <4> DEFINE q == Dispatch(r, w, j)
      <4>1. w \in r.workers /\ Books(r, j, w) /\ r.attempts[j] < MaxAttempts
        BY <1>4, <3>2, <3>3, <3>4, <3>5 DEF Books
      <4>2. /\ Books(q, NoJob, Nobody)
            /\ q.workers = r.workers /\ q.idle = r.idle /\ q.queue = r.queue
            /\ q.busy = [r.busy EXCEPT ![w] = j] /\ q.verdict = r.verdict
        BY <4>1, DispatchBooks
      <4>3. pool' = q
        BY <1>1, <2>2
      <4> HIDE DEF q
      <4> QED BY <4>2, <4>3
    <3>7. p.queue = <<>>
      BY <1>3, <1>4, <2>2 DEF Conserving
    <3>8. \A v \in p.workers : mail[v] # "none" => pool'.busy[v] = p.busy[v]
      BY <1>5, <3>2, <3>3, <3>6 DEF Pool
    <3>9. Strength(pool', size)
      BY <1>3, <1>4, <2>2, <3>2, <3>6 DEF Strength
    <3> QED BY <3>2, <3>6, <3>7, <3>8, <3>9 DEF Conserving
  <2> QED BY <2>1, <2>2
<1>7. Answered(pool', mail)
  BY <1>3, <1>4, <1>6 DEF Answered
<1>8. IInv'
  BY <1>1, <1>2, <1>6, <1>7, InOrder
<1>9. Kept
  BY <1>1, <1>3, <1>4, <1>6 DEF Kept
<1> QED BY <1>8, <1>9

(* setSize: the pool grows at once, and gives up idle workers at once.     *)
LEMMA SizeKeeps ==
  ASSUME IInv, NEW n \in Sizes, SetSize(n)
  PROVE  IInv' /\ Kept
<1> DEFINE alive == Cardinality(pool.workers)
           idle == Cardinality(pool.idle)
           surplus == IF alive - n < idle THEN alive - n ELSE idle
           out == CHOOSE S \in SUBSET pool.idle : Cardinality(S) = surplus
           shrunk == [pool EXCEPT !.workers = pool.workers \ out, !.idle = pool.idle \ out]
<1>1. /\ size' = n /\ UNCHANGED <<started, mail, terminates>>
      /\ started /\ n > alive => Cardinality(FreeNames(pool)) >= n - alive
      /\ ~ started => pool' = pool
      /\ started /\ n > alive => pool' = Grown(pool, n - alive)
      /\ started /\ ~ (n > alive) => pool' = shrunk
  BY DEF SetSize
<1>2. /\ Books(pool, NoJob, Nobody) /\ Conserving(pool) /\ Answered(pool, mail)
      /\ ~ started => pool.workers = {} /\ pool.queue = <<>>
      /\ started \in BOOLEAN /\ terminates \in 0..MaxTerminates
      /\ mail \in [WorkerId -> {"none", "ok", "bad", "err"}]
      /\ pool \in Pool /\ pool.workers \subseteq WorkerId /\ pool.idle \subseteq WorkerId
      /\ pool.idle \subseteq pool.workers
  BY DEF IInv, TypeOK, WorkConserving, Conserving, Stopped, Pool, Books, Crew
<1>3. n \in Nat /\ alive \in Nat /\ idle \in Nat /\ Cardinality(FreeNames(pool)) \in Nat
  <2>1. FreeNames(pool) \subseteq WorkerId
    BY DEF FreeNames
  <2> QED BY <1>2, <2>1, Workers, PoolConstants
<1>4. CASE ~ started
  <2>1. pool' = pool /\ ~ started'
    BY <1>1, <1>4
  <2>2. IInv'
    BY <1>1, <1>2, <1>4, <2>1, InOrder
  <2> QED BY <2>1, <2>2 DEF Kept
<1>5. CASE started /\ n > alive
  <2> DEFINE k == n - alive
             q == Grown(pool, k)
  <2>1. k \in Nat /\ k <= Cardinality(FreeNames(pool)) /\ alive + k = n /\ pool' = q
    BY <1>1, <1>3, <1>5
  <2> HIDE DEF k, alive
  <2>2. /\ Books(q, NoJob, Nobody) /\ Conserving(q)
        /\ Cardinality(q.workers) = Cardinality(pool.workers) + k
        /\ q.verdict = pool.verdict
        /\ \A w \in q.workers : mail[w] # "none" => w \in pool.workers /\ q.busy[w] = pool.busy[w]
    BY <1>2, <2>1, GrownBooks
  <2> HIDE DEF q
  <2>3. Answered(q, mail)
    BY <1>2, <2>2 DEF Answered
  <2>4. Strength(q, n)
    BY <1>3, <2>1, <2>2 DEF Strength, alive
  <2>5. IInv'
    BY <1>1, <1>2, <1>5, <2>1, <2>2, <2>3, <2>4, InOrder
  <2> QED BY <2>1, <2>2, <2>5 DEF Kept
<1>6. CASE started /\ ~ (n > alive)
  <2>1. surplus \in Nat /\ surplus <= idle /\ alive - surplus >= n
    BY <1>3, <1>6
  <2>2. surplus = idle \/ alive - surplus = n
    BY <1>3
  <2> HIDE DEF surplus
  <2>3. out \subseteq pool.idle /\ Cardinality(out) = surplus
    <3>1. \E S \in SUBSET pool.idle : Cardinality(S) = surplus
      BY <1>2, <2>1, Workers, SubsetOfSize
    <3> QED BY <3>1
  <2> HIDE DEF out
  <2>4. pool' = shrunk
    BY <1>1, <1>6
  <2>5. /\ pool' \in Pool /\ pool'.workers = pool.workers \ out /\ pool'.idle = pool.idle \ out
        /\ pool'.queue = pool.queue /\ pool'.busy = pool.busy /\ pool'.verdict = pool.verdict
        /\ pool'.attempts = pool.attempts
    BY <1>2, <2>4 DEF Pool
  <2>6. Crew(pool', Nobody)
    BY <1>2, <2>3, <2>5 DEF Books, Crew
  <2>7. OnePlace(pool', NoJob) /\ Attempts(pool')
    BY <1>2, <2>5 DEF Books, OnePlace, Attempts, Held
  <2>8. Books(pool', NoJob, Nobody)
    BY <2>6, <2>7 DEF Books
  <2>9. Cardinality(pool'.workers) = alive - surplus
    <3>1. pool.workers \cap out = out
      BY <1>2, <2>3
    <3>2. IsFiniteSet(pool.workers)
      BY <1>2, Workers
    <3>3. Cardinality(pool.workers \ out) = Cardinality(pool.workers) - Cardinality(pool.workers \cap out)
      BY <3>2, FS_Difference
    <3> QED BY <2>3, <2>5, <3>1, <3>3
  <2>10. surplus = idle => pool'.idle = {}
    <3> SUFFICES ASSUME surplus = idle PROVE out = pool.idle
      BY <2>5
    <3>1. IsFiniteSet(pool.idle)
      BY <1>2, Workers
    <3>2. out \in SUBSET pool.idle
      BY <2>3
    <3>3. Cardinality(out) = Cardinality(pool.idle)
      BY <2>3
    <3> QED BY <3>1, <3>2, <3>3, FS_Subset
  <2>11. Strength(pool', n)
    BY <1>3, <2>1, <2>2, <2>9, <2>10 DEF Strength
  <2>12. Conserving(pool')
    BY <1>2, <2>5 DEF Conserving
  <2>13. Answered(pool', mail)
    BY <1>2, <2>5 DEF Answered
  <2>14. IInv'
    BY <1>1, <1>2, <1>6, <2>8, <2>11, <2>12, <2>13, InOrder
  <2> QED BY <2>5, <2>14 DEF Kept
<1> QED BY <1>2, <1>4, <1>5, <1>6

(* terminate(): nothing is left to hold.                                   *)
LEMMA TerminateKeeps ==
  ASSUME IInv, Terminate
  PROVE  IInv' /\ Kept
<1> DEFINE noone == [w \in WorkerId |-> NoJob]
           lost  == [j \in Job |-> IF pool.verdict[j] = "waiting" THEN "lost" ELSE pool.verdict[j]]
           e     == [pool EXCEPT !.workers = {}, !.idle = {}, !.queue = <<>>,
                       !.busy = noone, !.verdict = lost]
<1>1. /\ started' = FALSE /\ UNCHANGED <<size, mail>>
      /\ terminates' = terminates + 1 /\ terminates < MaxTerminates
      /\ pool' = [pool EXCEPT !.workers = {}, !.idle = {}, !.queue = <<>>,
                    !.busy = [w \in WorkerId |-> NoJob],
                    !.verdict = [j \in Job |-> IF @[j] = "waiting" THEN "lost" ELSE @[j]]]
  BY DEF Terminate
<1>2. /\ Books(pool, NoJob, Nobody) /\ pool \in Pool
      /\ size \in Sizes /\ terminates \in 0..MaxTerminates
      /\ mail \in [WorkerId -> {"none", "ok", "bad", "err"}]
  BY DEF IInv, TypeOK
<1>3. noone \in [WorkerId -> Job \cup {NoJob}]
  OBVIOUS
<1>4. lost \in [Job -> {"new", "waiting", "true", "false", "lost"}]
  BY <1>2 DEF Pool
<1>5. pool' = e
  BY <1>1, <1>2 DEF Pool
<1>6. <<>> \in Seq(Job) /\ DOMAIN <<>> = {}
  OBVIOUS
<1>7. \A j \in Job : lost[j] # "waiting" /\ (lost[j] \in {"new", "false"} => pool.verdict[j] = lost[j])
  BY <1>4
<1>8. \A w \in WorkerId : noone[w] = NoJob
  OBVIOUS
<1> HIDE DEF noone
<1>9. pool'.verdict = lost
  BY <1>2, <1>5 DEF Pool
<1> HIDE DEF lost
<1>10. /\ pool' \in Pool /\ pool'.workers = {} /\ pool'.idle = {} /\ pool'.queue = <<>>
       /\ pool'.busy = noone /\ pool'.attempts = pool.attempts
  BY <1>2, <1>3, <1>4, <1>5, <1>6 DEF Pool
<1>11. Crew(pool', Nobody)
  BY <1>8, <1>10 DEF Crew
<1>12. \A j \in Job : ~ Held(pool', j)
  BY <1>6, <1>8, <1>10, PoolConstants DEF Held
<1>13. OnePlace(pool', NoJob)
  BY <1>6, <1>7, <1>8, <1>9, <1>10, <1>12, PoolConstants DEF OnePlace
<1>14. Attempts(pool')
  BY <1>2, <1>6, <1>7, <1>9, <1>10, PoolConstants DEF Books, Attempts
<1>15. Answered(pool', mail) /\ Conserving(pool')
  BY <1>10 DEF Answered, Conserving
<1>16. terminates' \in 0..MaxTerminates
  BY <1>1, <1>2, PoolConstants
<1>17. IInv'
  BY <1>1, <1>2, <1>10, <1>11, <1>13, <1>14, <1>15, <1>16, InOrder DEF Books
<1> QED BY <1>9, <1>17 DEF Kept, lost

LEMMA NextKeeps ==
  ASSUME IInv, [Next]_vars
  PROVE  IInv' /\ Kept
<1>1. ASSUME NEW j \in Job, Verify(j) PROVE IInv' /\ Kept
  BY <1>1, VerifyKeeps
<1>2. ASSUME NEW w \in WorkerId, WorkerAnswers(w) PROVE IInv' /\ Kept
  BY <1>2, AnswerKeeps
<1>3. ASSUME NEW w \in WorkerId, OnMessage(w) PROVE IInv' /\ Kept
  BY <1>3, MessageKeeps
<1>4. ASSUME NEW w \in WorkerId, Timeout(w) PROVE IInv' /\ Kept
  BY <1>4, TimeoutKeeps
<1>5. ASSUME NEW w \in WorkerId, OnError(w) PROVE IInv' /\ Kept
  BY <1>5, TimeoutKeeps
<1>6. ASSUME NEW n \in Sizes, SetSize(n) PROVE IInv' /\ Kept
  BY <1>6, SizeKeeps
<1>7. ASSUME Terminate PROVE IInv' /\ Kept
  BY <1>7, TerminateKeeps
<1>8. ASSUME UNCHANGED vars PROVE IInv' /\ Kept
  BY <1>8 DEF vars, Kept, IInv, TypeOK, Books, Crew, OnePlace, Attempts, Held, Answered, Stopped,
              WorkConserving, AtStrength
<1> QED BY <1>1, <1>2, <1>3, <1>4, <1>5, <1>6, <1>7, <1>8 DEF Next

-----------------------------------------------------------------------------
(* What follows from the books.                                            *)

(* One place means one holder.                                             *)
LEMMA OneHolder ==
  ASSUME pool \in Pool, OnePlace(pool, NoJob)
  PROVE  HeldOnce
<1> SUFFICES ASSUME NEW j \in Job
             PROVE  Cardinality(Holders(j)) = IF pool.verdict[j] = "waiting" THEN 1 ELSE 0
  BY DEF HeldOnce
<1> DEFINE runs  == { w \in WorkerId : pool.busy[w] = j }
           waits == { 0 - i : i \in { k \in DOMAIN pool.queue : pool.queue[k] = j } }
<1>0. j # NoJob /\ WorkerId \subseteq Nat /\ DOMAIN pool.queue \subseteq Nat \ {0}
  BY PoolConstants DEF Pool
<1>1. pool.verdict[j] = "waiting" <=> Held(pool, j)
  BY <1>0 DEF OnePlace
<1>2. Held(pool, j) <=> Holders(j) # {}
  BY DEF Held, Holders
<1>3. \A x, y \in Holders(j) : x = y
  <2>1. \A x, y \in runs : x = y
    BY <1>0 DEF OnePlace
  <2>2. \A x, y \in waits : x = y
    BY <1>0 DEF OnePlace
  <2>3. runs = {} \/ waits = {}
    BY DEF OnePlace
  <2> QED BY <2>1, <2>2, <2>3 DEF Holders
<1>4. CASE Holders(j) = {}
  BY <1>1, <1>2, <1>4, FS_EmptySet
<1>5. CASE Holders(j) # {}
  <2>1. PICK x : x \in Holders(j)
    BY <1>5
  <2>2. Holders(j) = {x}
    BY <1>3, <2>1
  <2>3. Cardinality(Holders(j)) = 1
    BY <2>2, FS_Singleton
  <2> QED BY <1>1, <1>2, <1>5, <2>3
<1> QED BY <1>4, <1>5

LEMMA Sound == IInv => PoolSound
<1> SUFFICES ASSUME IInv PROVE PoolSound
  OBVIOUS
<1>1. HeldOnce
  BY OneHolder DEF IInv, TypeOK, Books
<1>2. NoHastyRejection
  BY DEF IInv, Books, Attempts, NoHastyRejection
<1> QED BY <1>1, <1>2 DEF IInv, PoolSound

(* The books of verifierPool.ts are in order in every reachable state.     *)
THEOREM Inductive == Spec => []IInv
<1>1. IInv /\ [Next]_vars => IInv'
  BY NextKeeps
<1> QED BY InitInv, <1>1, PTL DEF Spec

(* The fields of the pool, its size, its mail and its counters keep their  *)
(* types: attempts never exceed MAX_ATTEMPTS.                              *)
THEOREM TypeCorrect == Spec => []TypeOK
<1>1. IInv => TypeOK
  BY DEF IInv
<1> QED BY Inductive, <1>1, PTL

(* Every job that waits is in one place, once; no worker idles beside a    *)
(* queue; the pool has its strength; no valid block is rejected before it  *)
(* had all its attempts.                                                   *)
THEOREM PoolIsSound == Spec => []PoolSound
BY Inductive, Sound, PTL

(* Safety half of the refinement: every handler of the pool does to the    *)
(* promises what VerifierPromises allows: a job is asked for, settled once *)
(* it waits (with `true` only when it is valid), or given up with all the  *)
(* others.                                                                 *)
THEOREM RefinesPromises == Spec => Promises!Init /\ [][Promises!Next]_(pool.verdict)
<1>1. Init => Promises!Init
  BY DEF Init, Promises!Init
<1>2. IInv /\ [Next]_vars => [Promises!Next]_(pool.verdict)
  <2> SUFFICES ASSUME IInv, [Next]_vars PROVE [Promises!Next]_(pool.verdict)
    OBVIOUS
  <2>1. Kept
    BY NextKeeps
  <2> QED BY <2>1 DEF Kept, Promises!Next, Promises!Ask, Promises!SettleSome, Promises!Settle,
                      Promises!Abandon
<1> QED BY Inductive, <1>1, <1>2, PTL DEF Spec
=============================================================================
