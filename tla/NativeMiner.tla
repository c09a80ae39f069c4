------------------------------ MODULE NativeMiner ------------------------------
(***************************************************************************)
(* The native grinding process, native/miner/src/main.rs: the main thread  *)
(* reads commands from stdin, W threads share the current job behind a     *)
(* mutex, a condition variable and an atomic generation counter, and what  *)
(* they find goes to stdout in order. Nonces are u32: arithmetic is modulo *)
(* Space. A header and its target are the set of nonces that solve it.     *)
(*                                                                         *)
(* A step of a thread is what it does between two looks at the generation  *)
(* counter: hash a batch of lanes, then report and advance. Waiting on the *)
(* condition variable is a guard, for the test and the wait are one step   *)
(* under the mutex that every writer of the tested state holds.            *)
(***************************************************************************)
EXTENDS Integers, Sequences, FiniteSets, SequencesExt

CONSTANTS
  W,            \* --workers
  Lanes,        \* SANDGLASS_LANES
  Space,        \* 2^32
  NoEnd,        \* nonce_end: None
  NoJob,
  JobId,        \* the job ids a client may use
  Work          \* Work[id]: the job a client starts under that id

ASSUME NativeConstants ==
  /\ W \in Nat \ {0} /\ Lanes \in Nat \ {0} /\ Space \in Nat \ {0}
  /\ NoEnd \notin Nat /\ NoJob \notin JobId
  /\ \A id \in JobId :
       Work[id] \in [offset : Nat, end : Nat \cup {NoEnd}, stride : Nat,
                     continuous : BOOLEAN, solve : SUBSET Nat]

VARIABLES
  stdin,        \* commands written by the client and not read yet
  stdout,       \* events printed and not read by the client yet
  current,      \* JobState.job: the id of a job, or NoJob
  generation,   \* the AtomicU64
  shutdown,     \* JobState.shutdown
  thread,       \* the worker threads
  tried,        \* history: how often each nonce of a job was hashed
  told          \* history: every solved and exhausted event ever sent

processVars == <<current, generation, shutdown, thread, tried, told>>
nativeVars == <<stdin, stdout, processVars>>

Thread == 0..(W - 1)
Nonce == 0..(Space - 1)

(* What a client may write: the fields of Start that the model tells apart *)
(* are those of Work[id].                                                  *)
Start(id) == [type |-> "start", id |-> id]
Stop      == [type |-> "stop", id |-> NoJob]
Shutdown  == [type |-> "shutdown", id |-> NoJob]
Command   == {Start(id) : id \in JobId} \cup {Stop, Shutdown}

Solved(id, w, n)  == [type |-> "solved", id |-> id, worker |-> w, nonce |-> n]
Exhausted(id, w)  == [type |-> "exhausted", id |-> id, worker |-> w, nonce |-> 0]
CommandError      == [type |-> "error", id |-> NoJob, worker |-> 0, nonce |-> 0]

Waiting(seen) ==
  [pc |-> "wait", seen |-> seen, id |-> NoJob, nonce |-> 0, start |-> 0,
   found |-> <<>>, dry |-> FALSE]

NativeTypeOK ==
  /\ current \in JobId \cup {NoJob} /\ generation \in Nat /\ shutdown \in BOOLEAN
  /\ \A w \in Thread :
       /\ thread[w].pc \in {"wait", "grind", "report", "clear", "exited"}
       /\ thread[w].seen \in 0..generation
       /\ thread[w].id \in JobId \cup {NoJob}
       /\ thread[w].nonce \in Nonce /\ thread[w].start \in Nonce
  /\ tried \in [JobId -> [Nonce -> Nat]]
  /\ \A e \in told : e.id \in JobId /\ e.worker \in Thread

NativeInit ==
  /\ stdin = <<>> /\ stdout = <<>>
  /\ current = NoJob /\ generation = 0 /\ shutdown = FALSE
  /\ thread = [w \in Thread |-> Waiting(0)]
  /\ tried = [id \in JobId |-> [n \in Nonce |-> 0]] /\ told = {}

-----------------------------------------------------------------------------
HasEnd(id) == Work[id].end # NoEnd

(* serde: the numbers of a Start command must be u32. parse_job: a stride, *)
(* and a slot that is not empty.                                           *)
ValidJob(id) ==
  /\ Work[id].offset < Space /\ Work[id].stride \in 1..(Space - 1)
  /\ HasEnd(id) => Work[id].end < Space /\ Work[id].end > Work[id].offset

(* println! of the reporter thread and of the main thread.                 *)
Emit(events) ==
  /\ stdout' = stdout \o events
  /\ told' = told \cup { e \in ToSet(events) : e.type # "error" }

(* Mutant: replacing the job does not advance the generation.              *)
ReplaceKeepsGeneration(id) == current' = id /\ generation' = generation

(* replace_job                                                             *)
ReplaceJob(id) == current' = id /\ generation' = generation + 1

(* clear_current_job: only the job of the generation the thread works on.  *)
ClearCurrentJob(w) ==
  IF generation = thread[w].seen THEN ReplaceJob(NoJob)
  ELSE UNCHANGED <<current, generation>>

(* main: one line of stdin. The end of stdin counts as a shutdown command. *)
ReadCommand ==
  /\ stdin # <<>> /\ ~shutdown
  /\ stdin' = Tail(stdin)
  /\ LET cmd == Head(stdin)
     IN \/ /\ cmd.type = "start" /\ ValidJob(cmd.id)
           /\ ReplaceJob(cmd.id) /\ UNCHANGED <<shutdown, stdout, told>>
        \/ /\ cmd.type = "start" /\ ~ValidJob(cmd.id)
           /\ Emit(<<CommandError>>) /\ UNCHANGED <<shutdown, current, generation>>
        \/ /\ cmd.type = "stop"
           /\ ReplaceJob(NoJob) /\ UNCHANGED <<shutdown, stdout, told>>
        \/ /\ cmd.type = "shutdown"
           /\ shutdown' = TRUE /\ generation' = generation + 1
           /\ UNCHANGED <<current, stdout, told>>
  /\ UNCHANGED <<thread, tried>>

-----------------------------------------------------------------------------
MayLeave == shutdown

(* worker_loop: leave on shutdown, else take the job of a generation not   *)
(* seen yet; grind() returns at once when the thread's first nonce is past *)
(* the slot.                                                               *)
LeaveLoop(w) ==
  /\ thread[w].pc = "wait" /\ MayLeave
  /\ thread' = [thread EXCEPT ![w].pc = "exited"]
  /\ UNCHANGED <<stdin, stdout, current, generation, shutdown, tried, told>>

TakeJob(w) ==
  LET start == (Work[current].offset + w) % Space
  IN /\ thread[w].pc = "wait" /\ ~shutdown
     /\ current # NoJob /\ generation # thread[w].seen
     /\ IF HasEnd(current) /\ start >= Work[current].end
        THEN /\ Emit(<<Exhausted(current, w)>>)
             /\ thread' = [thread EXCEPT ![w] = Waiting(generation)]
        ELSE /\ thread' = [thread EXCEPT ![w] =
                  [Waiting(generation) EXCEPT !.pc = "grind", !.id = current,
                                              !.nonce = start, !.start = start]]
             /\ UNCHANGED <<stdout, told>>
     /\ UNCHANGED <<stdin, current, generation, shutdown, tried>>

(* generation_changed: the batch is not started, back to worker_loop. The  *)
(* load is relaxed, but what it reads is advanced by locked additions.     *)
Superseded(w) ==
  /\ thread[w].pc = "grind" /\ generation # thread[w].seen
  /\ thread' = [thread EXCEPT ![w] = Waiting(thread[w].seen)]
  /\ UNCHANGED <<stdin, stdout, current, generation, shutdown, tried, told>>

LaneNonce(t, lane) == (t.nonce + Work[t.id].stride * lane) % Space

(* Where a batch is cut off: at the end of the slot, or, solo, where the   *)
(* thread began.                                                           *)
CutOff(t, lane) ==
  IF HasEnd(t.id) THEN LaneNonce(t, lane) >= Work[t.id].end
  ELSE lane > 0 /\ LaneNonce(t, lane) = t.start

ActiveLanes(t) ==
  { lane \in 0..(Lanes - 1) : \A k \in 0..lane : ~CutOff(t, k) }

InOrder(lanes) ==
  CHOOSE s \in [1..Cardinality(lanes) -> lanes] :
    ToSet(s) = lanes /\ \A i, k \in DOMAIN s : i < k => s[i] < s[k]

Hits(t) == { lane \in ActiveLanes(t) : LaneNonce(t, lane) \in Work[t.id].solve }

(* The solutions of a batch in lane order; only the first one, unless the  *)
(* job is continuous.                                                      *)
Solutions(t) ==
  LET hits == InOrder(Hits(t))
      wanted == IF Work[t.id].continuous \/ hits = <<>> THEN hits ELSE <<Head(hits)>>
  IN [i \in DOMAIN wanted |-> LaneNonce(t, wanted[i])]

CutShort(t) == Cardinality(ActiveLanes(t)) < Lanes

(* A whole batch is hashed at once; one cut short lane by lane, up to the  *)
(* first solution, unless the job is continuous.                           *)
HashedLanes(t) ==
  { lane \in ActiveLanes(t) :
      CutShort(t) /\ ~Work[t.id].continuous => \A hit \in Hits(t) : lane <= hit }

(* grind_batch: hash the active lanes. A batch cut short without a hit is  *)
(* the last one.                                                           *)
HashBatch(w) ==
  LET t == thread[w]
      hashed == { LaneNonce(t, lane) : lane \in HashedLanes(t) }
  IN /\ t.pc = "grind" /\ generation = t.seen
     /\ thread' = [thread EXCEPT ![w].pc = "report", ![w].found = Solutions(t),
                                 ![w].dry = CutShort(t) /\ Solutions(t) = <<>>]
     /\ tried' = [tried EXCEPT ![t.id] =
                    [n \in Nonce |-> IF n \in hashed THEN @[n] + 1 ELSE @[n]]]
     /\ UNCHANGED <<stdin, stdout, current, generation, shutdown, told>>

(* Mutant: no wrapping addition.                                           *)
NextNonceUnbounded(t) == t.nonce + Work[t.id].stride * Lanes

(* The nonce after this batch.                                             *)
NextNonce(t) == (t.nonce + Work[t.id].stride * Lanes) % Space

(* Mutant: the last nonce of a slot is taken for its end.                  *)
ThroughEarly(t) ==
  \/ t.dry
  \/ IF HasEnd(t.id) THEN NextNonce(t) >= Work[t.id].end - 1 \/ NextNonce(t) < t.nonce
     ELSE NextNonce(t) = t.start

(* Whether the thread is through: past the slot or wrapped around, or,     *)
(* solo, back where it began.                                              *)
Through(t) ==
  \/ t.dry
  \/ IF HasEnd(t.id) THEN NextNonce(t) >= Work[t.id].end \/ NextNonce(t) < t.nonce
     ELSE NextNonce(t) = t.start

(* What a batch sends: its solutions, then that the thread is through.     *)
ReportOf(t, w, done) ==
  [i \in DOMAIN t.found |-> Solved(t.id, w, t.found[i])]
    \o (IF done THEN <<Exhausted(t.id, w)>> ELSE <<>>)

(* The rest of an iteration of grind(). A job that is not continuous ends  *)
(* with its first solution, for every thread, but only after that was sent: *)
(* by the time the thread clears the job, the client may have started      *)
(* another one. A solo job that a thread is through with is cleared before *)
(* that is sent, which nobody can tell from doing both at once.            *)
Report(w) ==
  LET t == thread[w]
      once == ~Work[t.id].continuous
      won == once /\ t.found # <<>>
      done == ~won /\ Through(t)
  IN /\ t.pc = "report"
     /\ Emit(ReportOf(t, w, done))
     /\ IF done /\ (once \/ ~HasEnd(t.id))
        THEN ClearCurrentJob(w) ELSE UNCHANGED <<current, generation>>
     /\ thread' = [thread EXCEPT ![w] =
                     IF done THEN Waiting(t.seen)
                     ELSE IF won THEN [t EXCEPT !.pc = "clear"]
                     ELSE [t EXCEPT !.pc = "grind", !.nonce = NextNonce(t),
                                    !.found = <<>>, !.dry = FALSE]]
     /\ UNCHANGED <<stdin, shutdown, tried>>

ClearSolved(w) ==
  /\ thread[w].pc = "clear"
  /\ ClearCurrentJob(w)
  /\ thread' = [thread EXCEPT ![w] = Waiting(@.seen)]
  /\ UNCHANGED <<stdin, stdout, shutdown, tried, told>>

ThreadStep(w) ==
  LeaveLoop(w) \/ TakeJob(w) \/ Superseded(w) \/ HashBatch(w) \/ Report(w)
    \/ ClearSolved(w)

ProcessNext == ReadCommand \/ \E w \in Thread : ThreadStep(w)

(* External: the client at the other ends of the two pipes.                *)
ClientWrites(commands) ==
  stdin' = stdin \o commands /\ UNCHANGED <<stdout, processVars>>

ClientReads ==
  stdout # <<>> /\ stdout' = Tail(stdout) /\ UNCHANGED <<stdin, processVars>>

(* The process under any client.                                           *)
NativeNext ==
  \/ ProcessNext
  \/ \E commands \in Seq(Command) : ClientWrites(commands)
  \/ ClientReads

NativeSpec == NativeInit /\ [][NativeNext]_nativeVars

(* The operating system runs every thread.                                 *)
ProcessFairness ==
  WF_nativeVars(ReadCommand) /\ \A w \in Thread : WF_nativeVars(ThreadStep(w))

-----------------------------------------------------------------------------
Slot(id) == { n \in Nonce : Work[id].offset <= n /\ n < Work[id].end }
AllThrough(id) == \A w \in Thread : Exhausted(id, w) \in told

(* When every thread has reported a slot exhausted, which is what makes a  *)
(* pool client ask for another one, every nonce of it was hashed and every *)
(* solution reported, over any lanes, strides and interleaving: if the     *)
(* stride leaves no gap between the threads (a pool client's is their      *)
(* number).                                                                *)
SlotDone ==
  \A id \in JobId :
    /\ HasEnd(id) /\ Work[id].continuous /\ Work[id].stride \in 1..W
    /\ AllThrough(id)
    => \A n \in Slot(id) :
      /\ tried[id][n] > 0
      /\ n \in Work[id].solve => \E w \in Thread : Solved(id, w, n) \in told

(* A solo thread that reports the nonce space exhausted has been through   *)
(* its whole residue class, whether or not the stride divides 2^32.        *)
SoloClassDone ==
  \A id \in JobId, w \in Thread : ~HasEnd(id) /\ Exhausted(id, w) \in told =>
    \A k \in 0..(Space - 1) :
      tried[id][(Work[id].offset + w + k * Work[id].stride) % Space] > 0

(* A thread on the current generation grinds the current job: one that     *)
(* grinds another job will find out at its next look at the counter.       *)
GrindsCurrent ==
  \A w \in Thread :
    thread[w].pc = "grind" /\ thread[w].seen = generation => thread[w].id = current

(* A job ends by a command or by a result of its own: a thread that ends   *)
(* an old job late never takes a newer one away from the others.           *)
EndsByOwnResult ==
  [][\A id \in JobId : current = id /\ current' = NoJob /\ stdin' = stdin
       => \E e \in told' : e.id = id]_nativeVars

(* Nonces of a slot "[nonceStart, nonceEnd)", an "exclusive upper bound": a *)
(* thread never hashes one outside, if the slot leaves room for a batch of *)
(* every thread below 2^32 (nearer to it, lane and start nonces wrap round *)
(* to values below the slot).                                              *)
WithinSlot ==
  \A id \in JobId : HasEnd(id) /\ Work[id].end + W + Work[id].stride * Lanes <= Space =>
    \A n \in Nonce : tried[id][n] > 0 => n \in Slot(id)

(* After a shutdown command every thread comes to its end.                 *)
ShutdownJoins == shutdown ~> \A w \in Thread : thread[w].pc = "exited"

(* No thread is left behind: a job that stays current is ground until one  *)
(* solution, if it is not continuous, or until every thread is through.    *)
JobServed ==
  \A id \in JobId :
    current = id ~> current # id \/ AllThrough(id) \/ shutdown

(* What the threads hash is the job at hand, its whole slot and nothing    *)
(* else (main.rs worker_loop, grind).                                      *)
Covered == SlotDone /\ SoloClassDone /\ GrindsCurrent /\ WithinSlot

(* Each command is carried out to its end: a job until its own result, a   *)
(* shutdown until every thread has left.                                   *)
Served == JobServed /\ EndsByOwnResult /\ ShutdownJoins
=============================================================================
