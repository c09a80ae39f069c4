------------------------------ MODULE MCPoolClient ------------------------------
(***************************************************************************)
(* A client and a pool whose workers get slots of two nonces, side by side *)
(* from Base on. The first nonce of the first slot solves the first job.   *)
(***************************************************************************)
EXTENDS PoolClient

CONSTANT Base

MCJobId == [n : 1..MaxNative, worker : 1..MaxReg, job : 1..MaxPoolJobs]

MCWork ==
  [id \in MCJobId |->
    LET first == Base + 2 * (id.worker - 1)
    IN [offset |-> first, end |-> first + 2, stride |-> W, continuous |-> TRUE,
        solve |-> IF id.worker = 1 /\ id.job = 1 THEN {first} ELSE {}]]
=============================================================================
