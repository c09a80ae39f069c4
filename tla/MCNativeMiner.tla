----------------------------- MODULE MCNativeMiner -----------------------------
(***************************************************************************)
(* The native process with a client that writes any sequence of commands   *)
(* of bounded length: a pool slot whose size the lanes do not divide, one  *)
(* narrower than the threads, one that ends the space, which serde         *)
(* rejects, a solo job without a solution and one with two; then stop and  *)
(* shutdown. Each job is started at most once. The client reads its events *)
(* at the end: nothing in the process depends on it.                       *)
(***************************************************************************)
EXTENDS NativeMiner

CONSTANTS MaxStarts, MaxCommands  \* bounds

VARIABLE sent  \* jobs started so far, and commands written

vars == <<nativeVars, sent>>

(* A slot of 5 with 2 threads of 2 lanes ends in a cut batch. The solo      *)
(* stride divides 12 no more than a thread count divides 2^32.             *)
MCWork == [
  slot   |-> [offset |-> 1, end |-> 6, stride |-> 2, continuous |-> TRUE, solve |-> {2, 5}],
  narrow |-> [offset |-> 3, end |-> 4, stride |-> 2, continuous |-> TRUE, solve |-> {3}],
  solo   |-> [offset |-> 0, end |-> NoEnd, stride |-> 10, continuous |-> FALSE, solve |-> {}],
  whole  |-> [offset |-> 0, end |-> Space, stride |-> 2, continuous |-> TRUE, solve |-> {}],
  found  |-> [offset |-> 0, end |-> NoEnd, stride |-> 2, continuous |-> FALSE, solve |-> {4, 6}]]

Init == NativeInit /\ sent = <<>>

Write(cmd) ==
  /\ Len(sent) < MaxCommands
  /\ cmd.id # NoJob => cmd \notin ToSet(sent) /\ Len(sent) < MaxStarts
  /\ ClientWrites(<<cmd>>) /\ sent' = Append(sent, cmd)

Next ==
  \/ \E id \in JobId : Write(Start(id))
  \/ Write(Stop)
  \/ Write(Shutdown)
  \/ ProcessNext /\ UNCHANGED sent

Spec == Init /\ [][Next]_vars /\ ProcessFairness
=============================================================================
