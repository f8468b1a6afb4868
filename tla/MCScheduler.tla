---------------------------- MODULE MCScheduler ----------------------------
(***************************************************************************)
(* Three validator nodes of two entities: n1 and n2 belong to e1, n3 to   *)
(* e2 and expires after epoch 1.  At most two validators, up to two per   *)
(* entity, so e1 can fill the set and pass e2 over, and slashing, expiry  *)
(* and freezing can empty it.                                             *)
(*                                                                         *)
(* Two runtimes.  r1 has no TEE; its deployment moves from version 1 to   *)
(* version 2 at epoch 2; n1 and n2 run both versions, n3 only version 1, *)
(* and n2 is suspended for r1 until epoch 2.  r2 needs SGX and is         *)
(* deployed from epoch 1: n1's attestation verifies, n2's does not and n3 *)
(* has none.  n3 never became eligible for elections (EpochInvalid), so   *)
(* the VRF filter keeps it out.  r1 wants a worker and a backup, r2 one.  *)
(***************************************************************************)
EXTENDS Scheduler

CONSTANTS n1, n2, n3, e1, e2, r1, r2

MCNodes == {n1, n2, n3}
MCEntities == {e1, e2}
MCNodeEntity == (n1 :> e1) @@ (n2 :> e1) @@ (n3 :> e2)
MCNodeExpiration == (n1 :> 9) @@ (n2 :> 9) @@ (n3 :> 1)
MCInitStake == (e1 :> 2) @@ (e2 :> 1)
MCInitValidators == (n1 :> 2) @@ (n3 :> 1)
MCRuntimes == {r1, r2}
MCNodeRuntimes ==
    (n1 :> (r1 :> {1, 2} @@ r2 :> {1})) @@
    (n2 :> (r1 :> {1, 2} @@ r2 :> {1})) @@
    (n3 :> (r1 :> {1} @@ r2 :> {1}))
MCActiveVersion ==
    (r1 :> [e \in 0..MaxEpoch |-> IF e < 2 THEN 1 ELSE 2]) @@
    (r2 :> [e \in 0..MaxEpoch |-> IF e < 1 THEN 0 ELSE 1])
MCSuspendedUntil ==
    [n \in MCNodes |-> [rt \in MCRuntimes |-> IF n = n2 /\ rt = r1 THEN 2 ELSE 0]]
MCRuntimeTEE == (r1 :> "none") @@ (r2 :> "sgx")
MCNodeTEE ==
    (n1 :> (r1 :> [hw |-> "none", verifies |-> FALSE] @@ r2 :> [hw |-> "sgx", verifies |-> TRUE])) @@
    (n2 :> (r1 :> [hw |-> "none", verifies |-> FALSE] @@ r2 :> [hw |-> "sgx", verifies |-> FALSE])) @@
    (n3 :> (r1 :> [hw |-> "none", verifies |-> FALSE] @@ r2 :> [hw |-> "none", verifies |-> FALSE]))
MCElectionEligibleAfter == (n1 :> 0) @@ (n2 :> 0) @@ (n3 :> EpochInvalid)
MCGroupSize == (r1 :> 1) @@ (r2 :> 1)
MCGroupBackupSize == (r1 :> 1) @@ (r2 :> 0)
=============================================================================
