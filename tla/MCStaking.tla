----------------------------- MODULE MCStaking -----------------------------
(***************************************************************************)
(* Two accounts: account 1 is an escrow that both accounts delegate to,   *)
(* with a 100% commission rate; account 2 takes no commission.  Two       *)
(* epochs.  MCStaking.cfg uses a two-epoch debonding interval: a reclaim  *)
(* at epoch 0 matures inside the run, and a release one epoch early       *)
(* would be observable.  MCStakingZeroShares.cfg uses one.  The slashing  *)
(* amount 2 exceeds a single deposit and so also empties a pool.          *)
(***************************************************************************)
EXTENDS Staking

MCInitGeneral == (1 :> 1) @@ (2 :> 1)
MCCommissionRate == (1 :> 1) @@ (2 :> 0)
MCAttenuations == {<<1, 2>>}
MCEscrowPairs == {<<1, 1>>, <<2, 1>>}

\* Share counts are unbounded: a deposit into a pool whose price fell
\* through slashing issues many shares.  Bound them for the search.
MaxShares == 3
SharesBounded ==
  \A a \in Addr : /\ accounts[a].active.totalShares <= MaxShares
                  /\ accounts[a].debonding.totalShares <= MaxShares
=============================================================================
