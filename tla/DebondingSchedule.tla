-------------------------- MODULE DebondingSchedule --------------------------
(***************************************************************************)
(* What the staking ledger promises about reclaimed stake (spec.md,       *)
(* ReclaimEscrow and epoch processing), without pools, shares or amounts: *)
(* a reclaim starts a debonding delegation of (delegator, escrow) that    *)
(* ends DebondingInterval epochs later, reclaims of the same pair ending  *)
(* in the same epoch are one delegation, and the epoch change to e        *)
(* releases exactly the delegations whose end epoch is at most e: none    *)
(* before their end, none left behind after it.                           *)
(***************************************************************************)
EXTENDS Naturals

CONSTANTS Pairs, DebondingInterval, MaxEpoch

VARIABLES
  debonding,  \* set of <<delegator, escrow, end epoch>>
  epoch

Reclaim(d, e) ==
  /\ <<d, e>> \in Pairs
  /\ debonding' = debonding \cup {<<d, e, epoch + DebondingInterval>>}
  /\ UNCHANGED epoch

Advance ==
  /\ epoch < MaxEpoch
  /\ epoch' = epoch + 1
  /\ debonding' = {k \in debonding : k[3] > epoch + 1}

Init ==
  /\ debonding = {}
  /\ epoch = 0

Next == Advance \/ \E p \in Pairs : Reclaim(p[1], p[2])

Spec == Init /\ [][Next]_<<debonding, epoch>>

=============================================================================
