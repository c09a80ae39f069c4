--------------------------- MODULE VerifierPromises ---------------------------
(***************************************************************************)
(* What src/chain/verifierPool.ts promises the code that awaits it: every  *)
(* verify() settles, once, and `true` only for a block whose proof of work *)
(* is valid. Who computes the answer, how often and where is left open.    *)
(***************************************************************************)
CONSTANTS Job, Good

VARIABLE verdict  \* the promise of each verify() call

Init == verdict = [j \in Job |-> "new"]

(* verify()                                                                *)
Ask(j) ==
  /\ verdict[j] = "new"
  /\ verdict' = [verdict EXCEPT ![j] = "waiting"]

(* The promise resolves.                                                   *)
Settle(j, answer) ==
  /\ verdict[j] = "waiting"
  /\ answer = "true" => j \in Good
  /\ verdict' = [verdict EXCEPT ![j] = answer]

(* terminate() drops every promise that is still waiting.                  *)
Abandon ==
  verdict' = [j \in Job |-> IF verdict[j] = "waiting" THEN "lost" ELSE verdict[j]]

SettleSome(j) == \E answer \in {"true", "false"} : Settle(j, answer)

Next ==
  \/ \E j \in Job : Ask(j) \/ SettleSome(j)
  \/ Abandon

Spec == Init /\ [][Next]_verdict /\ \A j \in Job : WF_verdict(SettleSome(j))
=============================================================================
