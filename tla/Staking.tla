------------------------------ MODULE Staking ------------------------------
(***************************************************************************)
(* The ledger of the staking ABCI application (100_staking): accounts     *)
(* with a general balance and two escrow share pools (active and          *)
(* debonding), delegations, debonding delegations and the debonding       *)
(* queue, the common pool, the governance deposits and the total supply.  *)
(*                                                                         *)
(* Every action is one whole state-machine operation of                   *)
(* go/consensus/cometbft/apps/staking: it either completes or, when the   *)
(* code returns an error, leaves the state untouched (the ABCI mux        *)
(* discards the transaction's writes), which here means the action is not *)
(* enabled.  Quantities are naturals; addresses are small naturals whose  *)
(* order stands for the byte order of the 21-byte address keys.           *)
(***************************************************************************)
EXTENDS Naturals, FiniteSets, SequencesExt

CONSTANTS
  Addr,                      \* account addresses (naturals, key order)
  Amounts,                   \* amounts a transaction or call may carry
  EscrowPairs,               \* <<delegator, escrow>> pairs transactions use
  SlashAmounts,              \* slashing amounts of the consensus params
  MaxEpoch,                  \* last epoch the model advances to
  DebondingInterval,         \* staking.ConsensusParameters.DebondingInterval
  MinTransactBalance,        \* staking.ConsensusParameters.MinTransactBalance
  CommissionRateDenominator, \* staking.CommissionRateDenominator (scaled)
  CommissionRate,            \* [Addr -> 0..CommissionRateDenominator]: the
                             \* schedule's CurrentRate (nil -> MinCommissionRate)
  RewardFactors,             \* reward factors times the active step's scale
  RewardAmountDenominator,   \* staking.RewardAmountDenominator (scaled)
  RewardUntil,               \* the single reward step's Until epoch
  Attenuations,              \* <<numerator, denominator>> pairs
  InitGeneral,               \* [Addr -> Nat]: genesis general balances
  InitCommonPool             \* genesis common pool balance

ASSUME DebondingInterval \in Nat /\ MaxEpoch \in Nat
ASSUME EscrowPairs \subseteq Addr \X Addr
ASSUME CommissionRate \in [Addr -> 0..CommissionRateDenominator]

VARIABLES
  accounts,           \* [Addr -> Account]  (accountKeyFmt 0x50)
  delegations,        \* [<<escrow, delegator>> -> shares], 0 = no entry (0x53/0x5A)
  debDelegations,     \* partial function <<delegator, escrow, end>> -> shares (0x54)
  debQueue,           \* set of <<end, delegator, escrow>> queue keys (0x55)
  commonPool,         \* 0x52
  governanceDeposits, \* 0x59
  totalSupply,        \* 0x51
  epoch               \* current epoch, as seen by the app state

vars == <<accounts, delegations, debDelegations, debQueue, commonPool,
          governanceDeposits, totalSupply, epoch>>

Epochs == 0..(MaxEpoch + DebondingInterval)
Pool == [balance : Nat, totalShares : Nat]
Account == [general : Nat, active : Pool, debonding : Pool]
EmptyPool == [balance |-> 0, totalShares |-> 0]

Min2(a, b) == IF a < b THEN a ELSE b

(***************************************************************************)
(* Share pool arithmetic (staking.SharePool, defined outside src/).       *)
(***************************************************************************)
SharesForStake(p, amount) ==
  IF p.balance > 0 /\ p.totalShares > 0
  THEN (amount * p.totalShares) \div p.balance
  ELSE amount

StakeForShares(p, shares) ==
  IF p.totalShares = 0 THEN 0 ELSE (shares * p.balance) \div p.totalShares

PoolDeposit(p, amount) ==
  [balance |-> p.balance + amount,
   totalShares |-> p.totalShares + SharesForStake(p, amount)]

PoolWithdraw(p, shares) ==
  [balance |-> p.balance - StakeForShares(p, shares),
   totalShares |-> p.totalShares - shares]

(***************************************************************************)
(* State helpers of MutableState.                                         *)
(***************************************************************************)
\* SetDelegation writes the forward and the reverse key, or removes both
\* when the delegation has no shares left; both keys always carry the same
\* value, so one function stands for the two.
SetDelegation(dels, delegator, escrow, shares) ==
  [dels EXCEPT ![<<escrow, delegator>>] = shares]

\* A merge that replaces the shares of an existing same-end entry.
MergeDebondingOverwrite(debs, key, shares) == debs @@ (key :> shares)

\* SetDebondingDelegation with a non-nil delegation: merge with an existing
\* entry of the same end epoch, then insert the descriptor.
MergeDebonding(debs, key, shares) ==
  IF key \in DOMAIN debs
  THEN [debs EXCEPT ![key] = @ + shares]
  ELSE debs @@ (key :> shares)

\* SetDebondingDelegation(..., nil): remove the descriptor.
RemoveDebonding(debs, key) ==
  [k \in DOMAIN debs \ {key} |-> debs[k]]

\* A release that leaves the queue entry in place.
RemoveFromDebondingQueueKept(queue, qkey) == queue

\* RemoveFromDebondingQueue.
RemoveFromDebondingQueue(queue, qkey) == queue \ {qkey}

\* computeCommission: the commission and the remainder of total.
ComputeCommission(rate, total) ==
  LET com == (total * rate) \div CommissionRateDenominator
  IN <<com, total - com>>

KeyLess(x, y) ==
  \E i \in 1..3 : x[i] < y[i] /\ \A j \in 1..(i - 1) : x[j] = y[j]

(***************************************************************************)
(* Genesis: general balances and the common pool, nothing escrowed.       *)
(***************************************************************************)
Init ==
  /\ accounts = [a \in Addr |-> [general |-> InitGeneral[a],
                                 active |-> EmptyPool,
                                 debonding |-> EmptyPool]]
  /\ delegations = [k \in Addr \X Addr |-> 0]
  /\ debDelegations = [k \in {} |-> 0]
  /\ debQueue = {}
  /\ commonPool = InitCommonPool
  /\ governanceDeposits = 0
  /\ totalSupply = InitCommonPool + SumFunction(InitGeneral)
  /\ epoch = 0

(***************************************************************************)
(* Transactions.                                                          *)
(***************************************************************************)
\* MutableState.Transfer: both sides must stay at or above the minimum.
Transfer(from, to, amount) ==
  /\ from # to
  /\ accounts[from].general >= amount
  /\ accounts[from].general - amount >= MinTransactBalance
  /\ accounts[to].general + amount >= MinTransactBalance
  /\ accounts' = [accounts EXCEPT ![from].general = @ - amount,
                                  ![to].general = @ + amount]
  /\ UNCHANGED <<delegations, debDelegations, debQueue, commonPool,
                 governanceDeposits, totalSupply, epoch>>

\* Burn: remove from the general balance and from the total supply.
Burn(from, amount) ==
  /\ accounts[from].general >= amount
  /\ accounts' = [accounts EXCEPT ![from].general = @ - amount]
  /\ totalSupply' = totalSupply - amount
  /\ UNCHANGED <<delegations, debDelegations, debQueue, commonPool,
                 governanceDeposits, epoch>>

\* AddEscrow: deposit into the escrow's active pool at the pool's price.
AddEscrow(delegator, escrow, amount) ==
  LET acc1 == [accounts EXCEPT ![delegator].general = @ - amount]
      minted == SharesForStake(acc1[escrow].active, amount)
  IN /\ accounts[delegator].general >= amount
     /\ accounts' = [acc1 EXCEPT ![escrow].active = PoolDeposit(@, amount)]
     /\ delegations' = SetDelegation(delegations, delegator, escrow,
                          delegations[<<escrow, delegator>>] + minted)
     /\ UNCHANGED <<debDelegations, debQueue, commonPool,
                    governanceDeposits, totalSupply, epoch>>

\* ReclaimEscrow: move shares from the active to the debonding pool and
\* record a debonding delegation ending DebondingInterval epochs from now.
ReclaimEscrow(delegator, escrow, shares) ==
  LET held == delegations[<<escrow, delegator>>]
      esc == accounts[escrow]
      stake == StakeForShares(esc.active, shares)
      debShares == SharesForStake(esc.debonding, stake)
      end == epoch + DebondingInterval
  IN /\ 0 < shares /\ shares <= held
     /\ accounts' = [accounts EXCEPT
                       ![escrow].active = PoolWithdraw(@, shares),
                       ![escrow].debonding = PoolDeposit(@, stake)]
     /\ delegations' = SetDelegation(delegations, delegator, escrow, held - shares)
     /\ debDelegations' = MergeDebonding(debDelegations, <<delegator, escrow, end>>, debShares)
     /\ debQueue' = debQueue \cup {<<end, delegator, escrow>>}
     /\ UNCHANGED <<commonPool, governanceDeposits, totalSupply, epoch>>

(***************************************************************************)
(* Slashing, reached from BeginBlock's evidence loop.                     *)
(***************************************************************************)
\* slashPool moving the whole computed amount (Move instead of MoveUpTo).
SlashPoolAmountUncapped(p, amount, total) ==
  IF total = 0 THEN 0 ELSE (amount * p.balance) \div total

\* slashPool: amount * p.Balance / total, moved up to the pool's balance.
SlashPoolAmount(p, amount, total) ==
  IF total = 0 THEN 0 ELSE Min2((amount * p.balance) \div total, p.balance)

\* SlashEscrow: split the amount between the two pools by their balances and
\* move what was taken to the common pool; shares are never touched.
SlashEscrow(addr, amount) ==
  LET from == accounts[addr]
      total == from.active.balance + from.debonding.balance
      act == SlashPoolAmount(from.active, amount, total)
      deb == SlashPoolAmount(from.debonding, amount, total)
  IN /\ act + deb > 0
     /\ commonPool' = commonPool + act + deb
     /\ accounts' = [accounts EXCEPT ![addr].active.balance = @ - act,
                                     ![addr].debonding.balance = @ - deb]
     /\ UNCHANGED <<delegations, debDelegations, debQueue,
                    governanceDeposits, totalSupply, epoch>>

(***************************************************************************)
(* Common pool and governance deposit transfers.                          *)
(***************************************************************************)
\* The commission, deposited from src as the account's self-delegation,
\* issuing shares at the active pool's price after the remainder was added.
DepositCommission(acc, dels, addr, com) ==
  LET minted == SharesForStake(acc[addr].active, com)
  IN IF com = 0 THEN [acc |-> acc, dels |-> dels]
     ELSE [acc |-> [acc EXCEPT ![addr].active = PoolDeposit(@, com)],
           dels |-> SetDelegation(dels, addr, addr, dels[<<addr, addr>>] + minted)]

\* TransferFromCommon: move up to amount from the common pool; with escrow,
\* escrow the remainder without new shares and the commission as a
\* self-delegation, everything counting as commission while the active pool
\* has no shares.  Nothing is written when nothing could be moved.
TransferFromCommon(to, amount, escrow) ==
  LET xfer == Min2(amount, commonPool)
      ent == accounts[to]
      split == IF ent.active.totalShares # 0
               THEN ComputeCommission(CommissionRate[to], xfer)
               ELSE <<xfer, 0>>
      acc1 == [accounts EXCEPT ![to].active.balance = @ + split[2]]
      dep == DepositCommission(acc1, delegations, to, split[1])
  IN /\ xfer > 0
     /\ commonPool' = commonPool - xfer
     /\ IF escrow
        THEN /\ accounts' = dep.acc
             /\ delegations' = dep.dels
        ELSE /\ accounts' = [accounts EXCEPT ![to].general = @ + xfer]
             /\ UNCHANGED delegations
     /\ UNCHANGED <<debDelegations, debQueue, governanceDeposits,
                    totalSupply, epoch>>

\* TransferToGovernanceDeposits: a proposal's deposit leaves the submitter.
TransferToGovernanceDeposits(from, amount) ==
  /\ accounts[from].general >= amount
  /\ accounts' = [accounts EXCEPT ![from].general = @ - amount]
  /\ governanceDeposits' = governanceDeposits + amount
  /\ UNCHANGED <<delegations, debDelegations, debQueue, commonPool,
                 totalSupply, epoch>>

\* TransferFromGovernanceDeposits: a closed proposal's deposit is refunded.
TransferFromGovernanceDeposits(to, amount) ==
  /\ governanceDeposits >= amount
  /\ accounts' = [accounts EXCEPT ![to].general = @ + amount]
  /\ governanceDeposits' = governanceDeposits - amount
  /\ UNCHANGED <<delegations, debDelegations, debQueue, commonPool,
                 totalSupply, epoch>>

\* DiscardGovernanceDeposit: a rejected proposal's deposit goes to the pool.
DiscardGovernanceDeposit(amount) ==
  /\ governanceDeposits >= amount
  /\ governanceDeposits' = governanceDeposits - amount
  /\ commonPool' = commonPool + amount
  /\ UNCHANGED <<accounts, delegations, debDelegations, debQueue,
                 totalSupply, epoch>>

(***************************************************************************)
(* Rewards.  st is [acc, dels, pool]: the accounts, the delegations and   *)
(* the local copy of the common pool, written back once at the end.       *)
(***************************************************************************)
\* The body of the per-address loop once q is computed: skip a zero reward
\* or one the pool cannot pay, else split off the commission, add the
\* remainder to the active balance and deposit the commission.
CreditReward(st, addr, q0) ==
  LET split == ComputeCommission(CommissionRate[addr], q0)
      acc1 == [st.acc EXCEPT ![addr].active.balance = @ + split[2]]
      dep == DepositCommission(acc1, st.dels, addr, split[1])
  IN IF q0 = 0 \/ q0 > st.pool THEN st
     ELSE [acc |-> dep.acc, dels |-> dep.dels, pool |-> st.pool - q0]

\* AddRewards: every address in order, each paid active.balance * factor *
\* scale / RewardAmountDenominator, read from the state the earlier
\* addresses have already updated; nothing past the reward schedule.
AddRewardsResult(st, time, factor, addrs) ==
  IF time >= RewardUntil THEN st
  ELSE FoldLeft(LAMBDA s, a :
                  CreditReward(s, a, (s.acc[a].active.balance * factor)
                                       \div RewardAmountDenominator),
                st, addrs)

LedgerState == [acc |-> accounts, dels |-> delegations, pool |-> commonPool]

\* AddRewards as the scheduler calls it for the elected entities.
AddRewards(addrSet, factor) ==
  LET st == AddRewardsResult(LedgerState, epoch, factor,
                             SetToSortSeq(addrSet, <))
  IN /\ accounts' = st.acc
     /\ delegations' = st.dels
     /\ commonPool' = st.pool
     /\ UNCHANGED <<debDelegations, debQueue, governanceDeposits,
                    totalSupply, epoch>>

\* AddRewardSingleAttenuated, the block proposer's reward: the quantity is
\* further scaled by numerator / denominator, dividing last.
AddRewardSingleAttenuated(addr, factor, att) ==
  LET q0 == ((accounts[addr].active.balance * factor * att[1])
               \div RewardAmountDenominator) \div att[2]
      st == IF epoch >= RewardUntil THEN LedgerState
            ELSE CreditReward(LedgerState, addr, q0)
  IN /\ accounts' = st.acc
     /\ delegations' = st.dels
     /\ commonPool' = st.pool
     /\ UNCHANGED <<debDelegations, debQueue, governanceDeposits,
                    totalSupply, epoch>>

(***************************************************************************)
(* Epoch change (EndBlock -> onEpochChange).  st is [acc, debs, queue,    *)
(* ok]; ok turns FALSE when a Withdraw fails, which fails the block.       *)
(***************************************************************************)
\* The queue scan stopping one epoch too late.
ExpiredDebondingQueueLate(ep) ==
  LET keys == SetToSortSeq({q \in debQueue : q[1] <= ep + 1}, KeyLess)
      Entry(q) ==
        LET dkey == <<q[2], q[3], q[1]>>
            found == dkey \in DOMAIN debDelegations
        IN [epoch |-> q[1], delegator |-> q[2], escrow |-> q[3],
            shares |-> IF found THEN debDelegations[dkey] ELSE 0,
            debondEnd |-> IF found THEN q[1] ELSE 0]
  IN [i \in 1..Len(keys) |-> Entry(keys[i])]

\* ExpiredDebondingQueue: the queue keys of epoch <= ep in key order, each
\* with the debonding delegation read before any is released (a missing
\* one reads as an empty delegation with end epoch 0).
ExpiredDebondingQueue(ep) ==
  LET keys == SetToSortSeq({q \in debQueue : q[1] <= ep}, KeyLess)
      Entry(q) ==
        LET dkey == <<q[2], q[3], q[1]>>
            found == dkey \in DOMAIN debDelegations
        IN [epoch |-> q[1], delegator |-> q[2], escrow |-> q[3],
            shares |-> IF found THEN debDelegations[dkey] ELSE 0,
            debondEnd |-> IF found THEN q[1] ELSE 0]
  IN [i \in 1..Len(keys) |-> Entry(keys[i])]

\* Releasing with a second copy of the escrow account even when the
\* delegator is its own escrow, written after the delegator.
ReleaseEntryTwoCopies(st, e) ==
  LET d == e.delegator
      delegator == st.acc[d]
      escrow == st.acc[e.escrow]
      base == StakeForShares(escrow.debonding, e.shares)
  IN IF e.shares > escrow.debonding.totalShares THEN [st EXCEPT !.ok = FALSE]
     ELSE [acc |-> [[st.acc EXCEPT ![d].general = delegator.general + base]
                      EXCEPT ![e.escrow] = [escrow EXCEPT !.debonding =
                                               PoolWithdraw(@, e.shares)]],
           debs |-> RemoveDebonding(st.debs, <<d, e.escrow, e.debondEnd>>),
           queue |-> RemoveFromDebondingQueue(st.queue, <<e.epoch, d, e.escrow>>),
           ok |-> st.ok]

\* Redeeming the debonding shares from the escrow's active pool.
ReleaseEntryFromActive(st, e) ==
  LET d == e.delegator
      escrow == st.acc[e.escrow]
      base == StakeForShares(escrow.active, e.shares)
      acc1 == [st.acc EXCEPT ![e.escrow].active = PoolWithdraw(@, e.shares)]
  IN IF e.shares > escrow.active.totalShares THEN [st EXCEPT !.ok = FALSE]
     ELSE [acc |-> [acc1 EXCEPT ![d].general = @ + base],
           debs |-> RemoveDebonding(st.debs, <<d, e.escrow, e.debondEnd>>),
           queue |-> RemoveFromDebondingQueue(st.queue, <<e.epoch, d, e.escrow>>),
           ok |-> st.ok]

\* One iteration of the release loop: withdraw the shares from the escrow's
\* debonding pool, credit the delegator's general balance, remove the queue
\* entry and the debonding delegation, save the account(s).  When the
\* delegator is its own escrow the one account copy carries both changes.
ReleaseEntry(st, e) ==
  LET d == e.delegator
      escrow == st.acc[e.escrow]
      base == StakeForShares(escrow.debonding, e.shares)
      acc1 == [st.acc EXCEPT ![e.escrow].debonding = PoolWithdraw(@, e.shares)]
  IN IF e.shares > escrow.debonding.totalShares THEN [st EXCEPT !.ok = FALSE]
     ELSE [acc |-> [acc1 EXCEPT ![d].general = @ + base],
           debs |-> RemoveDebonding(st.debs, <<d, e.escrow, e.debondEnd>>),
           queue |-> RemoveFromDebondingQueue(st.queue, <<e.epoch, d, e.escrow>>),
           ok |-> st.ok]

\* The release loop of onEpochChange for the epoch ep, from the current
\* state; ok is FALSE when some Withdraw failed.
ReleaseExpired(ep) ==
  FoldLeft(ReleaseEntry,
           [acc |-> accounts, debs |-> debDelegations, queue |-> debQueue, ok |-> TRUE],
           ExpiredDebondingQueue(ep))

\* rewardEpochSigning (outside src/): AddRewards at the new epoch for the
\* entities whose signing share reached the threshold, here any set of them.
RewardEpochSigning(st, ep, signers, factor) ==
  AddRewardsResult(st, ep, factor, SetToSortSeq(signers, <))

\* EndBlock on an epoch change: release every expired debonding delegation,
\* then pay the epoch signing rewards, all in the one block.
AdvanceEpoch(signers, factor) ==
  LET ep == epoch + 1
      rel == ReleaseExpired(ep)
      rw == RewardEpochSigning([acc |-> rel.acc, dels |-> delegations,
                                pool |-> commonPool], ep, signers, factor)
  IN /\ epoch < MaxEpoch
     /\ rel.ok
     /\ epoch' = ep
     /\ accounts' = rw.acc
     /\ delegations' = rw.dels
     /\ commonPool' = rw.pool
     /\ debDelegations' = rel.debs
     /\ debQueue' = rel.queue
     /\ UNCHANGED <<governanceDeposits, totalSupply>>

Next ==
  \/ \E f, t \in Addr, a \in Amounts : Transfer(f, t, a)
  \/ \E f \in Addr, a \in Amounts : Burn(f, a)
  \/ \E p \in EscrowPairs, a \in Amounts : AddEscrow(p[1], p[2], a)
  \/ \E p \in EscrowPairs, n \in Amounts : ReclaimEscrow(p[1], p[2], n)
  \/ \E a \in Addr, s \in SlashAmounts : SlashEscrow(a, s)
  \/ \E t \in Addr, a \in Amounts, esc \in BOOLEAN : TransferFromCommon(t, a, esc)
  \/ \E f \in Addr, a \in Amounts : TransferToGovernanceDeposits(f, a)
  \/ \E t \in Addr, a \in Amounts : TransferFromGovernanceDeposits(t, a)
  \/ \E a \in Amounts : DiscardGovernanceDeposit(a)
  \/ \E S \in SUBSET Addr, f \in RewardFactors : AddRewards(S, f)
  \/ \E a \in Addr, f \in RewardFactors, at \in Attenuations :
        AddRewardSingleAttenuated(a, f, at)
  \/ \E S \in SUBSET Addr, f \in RewardFactors : AdvanceEpoch(S, f)

Spec == Init /\ [][Next]_vars

(***************************************************************************)
(* Properties.                                                            *)
(***************************************************************************)
TypeOK ==
  /\ accounts \in [Addr -> Account]
  /\ delegations \in [Addr \X Addr -> Nat]
  /\ DOMAIN debDelegations \subseteq Addr \X Addr \X Epochs
  /\ \A k \in DOMAIN debDelegations : debDelegations[k] \in Nat
  /\ debQueue \subseteq Epochs \X Addr \X Addr
  /\ commonPool \in Nat /\ governanceDeposits \in Nat /\ totalSupply \in Nat
  /\ epoch \in 0..MaxEpoch

AccountTotal(a) ==
  accounts[a].general + accounts[a].active.balance + accounts[a].debonding.balance

\* Supply conservation (spec invariant 1, without the fee account, which no
\* modelled operation touches): every transfer, escrow, slash, reward and
\* the epoch's debonding release only move tokens between the accounts, the
\* common pool and the governance deposits; only Burn removes supply.
SupplyConservation ==
  totalSupply = commonPool + governanceDeposits
                + SumFunctionOnSet([a \in Addr |-> AccountTotal(a)], Addr)

\* Share accounting: an escrow's active pool has exactly the shares of its
\* delegations and its debonding pool exactly those of its debonding
\* delegations, across AddEscrow, ReclaimEscrow (with merging of same-end
\* entries), commission deposits and releases.
SharesAccounted ==
  \A e \in Addr :
    /\ accounts[e].active.totalShares =
         SumFunctionOnSet([d \in Addr |-> delegations[<<e, d>>]], Addr)
    /\ accounts[e].debonding.totalShares =
         SumFunctionOnSet(debDelegations,
                          {k \in DOMAIN debDelegations : k[2] = e})

\* Debonding closure (spec invariant 3): the queue keys are exactly the
\* debonding delegations' (end, delegator, escrow) after every reclaim and
\* every epoch's release loop.
DebondingIndexConsistent ==
  debQueue = {<<k[3], k[1], k[2]>> : k \in DOMAIN debDelegations}

\* Share-pool coherence (spec invariant 2): a pool has no shares exactly
\* when it has no balance.  SlashEscrow takes balance and never shares.
ZeroShareCoherence ==
  \A a \in Addr :
    /\ (accounts[a].active.totalShares = 0) <=> (accounts[a].active.balance = 0)
    /\ (accounts[a].debonding.totalShares = 0) <=> (accounts[a].debonding.balance = 0)

(***************************************************************************)
(* Refinement: the debonding delegations, read as the set of their keys,  *)
(* behave as DebondingSchedule allows.  Every other operation is a        *)
(* stuttering step of the schedule.                                        *)
(***************************************************************************)
Schedule == INSTANCE DebondingSchedule
              WITH debonding <- DOMAIN debDelegations, Pairs <- EscrowPairs

\* A reclaim starts a delegation ending DebondingInterval epochs on, and
\* each epoch change releases exactly the delegations that have reached
\* their end epoch: ExpiredDebondingQueue's scan over the queue keys must
\* stop neither before nor after the last key of the new epoch, and the
\* release loop must remove what it released.
DebondingScheduleRefined == Schedule!Spec

\* The next epoch change can always release what has matured: no Withdraw
\* of the release loop fails, since that makes EndBlock return an error
\* after earlier entries of the same block were already released.  This
\* rests on every debonding delegation's shares being backed by its
\* escrow's debonding pool through reclaims, merges, slashes and earlier
\* releases.
ReleaseSucceeds == epoch < MaxEpoch => ReleaseExpired(epoch + 1).ok

=============================================================================
