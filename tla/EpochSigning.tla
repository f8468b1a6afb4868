---------------------------- MODULE EpochSigning ----------------------------
(***************************************************************************)
(* The staking application's record of who signed the blocks of an epoch *)
(* (apps/staking/state/state.go, EpochSigning) and the signing rewards    *)
(* paid from it at the epoch change (staking.go).  Each block's BeginBlock *)
(* counts the block and the entities that voted for the previous one      *)
(* (Update); the EndBlock that changes the epoch selects the entities     *)
(* whose share of the epoch's blocks reaches the threshold               *)
(* (EligibleEntities), rewards them and clears the record.               *)
(*                                                                         *)
(* Counters are unsigned integers of Width bits: the code's overflow      *)
(* guards are checked at a width the model can reach.  An error of either *)
(* step fails the block, which stops the chain (halted).                  *)
(***************************************************************************)
EXTENDS Naturals

CONSTANTS
  Entities,              \* entities that may vote
  Width,                 \* bit width of the counters (uint64 in the code)
  BlocksPerEpoch,        \* bound on the blocks of an epoch
  MaxEpoch,              \* bound on the epochs
  ThresholdNumerator,    \* the consensus parameters' signing threshold
  ThresholdDenominator

ASSUME ThresholdNumerator \in Nat \ {0} /\ ThresholdDenominator \in Nat \ {0}

VARIABLES
  total,       \* EpochSigning.Total
  byEntity,    \* EpochSigning.ByEntity; an absent key reads as 0
  epoch,
  halted,      \* a block failed with an error and the chain stopped
  rewarded,    \* the entities rewarded at the last epoch change
  history,     \* exact counts of this epoch: [n |-> blocks, signed |-> per entity]
  lastHistory  \* the same for the last completed epoch

vars == <<total, byEntity, epoch, halted, rewarded, history, lastHistory>>

MaxUint == 2^Width - 1

\* Unsigned multiplication and increment of Width bits.
Mul(a, b) == (a * b) % (MaxUint + 1)
Inc(a) == (a + 1) % (MaxUint + 1)

\* ImmutableState.EpochSigning when the key is absent: zero everything.
NoEpochSigning == [total |-> 0, byEntity |-> [e \in Entities |-> 0]]

\* EpochSigning.Update: count the block, then each signing entity; an
\* increment that wraps is an error.
Update(es, signing) ==
  [ok |-> /\ Inc(es.total) > es.total
          /\ \A e \in signing : Inc(es.byEntity[e]) > es.byEntity[e],
   total |-> Inc(es.total),
   byEntity |-> [e \in Entities |->
                   IF e \in signing THEN Inc(es.byEntity[e]) ELSE es.byEntity[e]]]

\* The entities present in ByEntity: those counted at least once.
Keys(es) == {e \in Entities : es.byEntity[e] # 0}

\* Mutant: the per-entity overflow guard rejects a count whose product
\* with the denominator still fits.
EligibleEntitiesEarlyOverflow(es, num, den) ==
  [ok |-> /\ ~(es.total > MaxUint \div num)
          /\ \A e \in Keys(es) : ~(es.byEntity[e] >= MaxUint \div den),
   set |-> {e \in Keys(es) : ~(Mul(es.byEntity[e], den) < Mul(es.total, num))}]

\* EpochSigning.EligibleEntities: an error when Total * numerator or a
\* count * denominator would overflow, otherwise every key whose count is
\* not below the threshold (sorted in the code; a set here).
EligibleEntities(es, num, den) ==
  [ok |-> /\ ~(es.total > MaxUint \div num)
          /\ \A e \in Keys(es) : ~(es.byEntity[e] > MaxUint \div den),
   set |-> {e \in Keys(es) : ~(Mul(es.byEntity[e], den) < Mul(es.total, num))}]

\* Blocks and signatures as they happen, in unbounded integers.
NoHistory == [n |-> 0, signed |-> [e \in Entities |-> 0]]
Record(h, signing) ==
  [n |-> h.n + 1, signed |-> [e \in Entities |-> h.signed[e] + (IF e \in signing THEN 1 ELSE 0)]]

Current == [total |-> total, byEntity |-> byEntity]

\* Mutant: the record is left in place at the epoch change.
ClearEpochSigningKept(es) == es

\* MutableState.ClearEpochSigning removes the key, which then reads as zero.
ClearEpochSigning(es) == NoEpochSigning

Init ==
  /\ total = NoEpochSigning.total /\ byEntity = NoEpochSigning.byEntity
  /\ epoch = 0 /\ halted = FALSE /\ rewarded = {}
  /\ history = NoHistory /\ lastHistory = NoHistory

\* updateEpochSigning in BeginBlock: load, Update, store.  An error fails
\* the block.
UpdateEpochSigning(signing) == Update(Current, signing)

Store(es) == total' = es.total /\ byEntity' = es.byEntity

\* A block that does not change the epoch.
Block(signing) ==
  /\ ~halted /\ epoch < MaxEpoch /\ history.n + 1 < BlocksPerEpoch
  /\ LET up == UpdateEpochSigning(signing) IN
       \/ up.ok /\ Store(up) /\ UNCHANGED halted
       \/ ~up.ok /\ halted' = TRUE /\ UNCHANGED <<total, byEntity>>
  /\ history' = Record(history, signing)
  /\ UNCHANGED <<epoch, rewarded, lastHistory>>

\* rewardEpochSigning in onEpochChange: the eligible entities of the
\* stored record are rewarded and the record is cleared.
RewardEpochSigning(es) ==
  EligibleEntities(es, ThresholdNumerator, ThresholdDenominator)

\* The block whose EndBlock changes the epoch: BeginBlock's update, then
\* the epoch change.  An error in either fails the block.
EpochChangeBlock(signing) ==
  /\ ~halted /\ epoch < MaxEpoch
  /\ LET up == UpdateEpochSigning(signing)
         rw == RewardEpochSigning(up)
         cleared == ClearEpochSigning(up)
     IN \/ /\ up.ok /\ rw.ok
           /\ Store(cleared) /\ rewarded' = rw.set
           /\ epoch' = epoch + 1
           /\ history' = NoHistory /\ lastHistory' = Record(history, signing)
           /\ UNCHANGED halted
        \/ /\ ~(up.ok /\ rw.ok) /\ halted' = TRUE
           /\ history' = Record(history, signing)
           /\ UNCHANGED <<total, byEntity, epoch, rewarded, lastHistory>>

\* The chain has stopped: at the epoch bound, or after a failed block.
Done == (halted \/ epoch = MaxEpoch) /\ UNCHANGED vars

Next ==
  \/ \E signing \in SUBSET Entities : Block(signing) \/ EpochChangeBlock(signing)
  \/ Done

Spec == Init /\ [][Next]_vars

----------------------------------------------------------------------------
\* The fraction of spec.md, in exact arithmetic: e signed at least one of
\* the epoch's blocks and signed / blocks >= numerator / denominator.
ReachesThreshold(e, h) ==
  /\ h.signed[e] > 0
  /\ h.signed[e] * ThresholdDenominator >= h.n * ThresholdNumerator

\* The arithmetic of an epoch's record exceeds Width bits.
Overflows(h) ==
  \/ h.n > MaxUint
  \/ h.n * ThresholdNumerator > MaxUint
  \/ \E e \in Entities : h.signed[e] * ThresholdDenominator > MaxUint

\* The entities rewarded at an epoch change are exactly those that signed
\* at least the threshold fraction of that epoch's blocks: the counts
\* Update accumulated over the epoch's BeginBlocks, the clear at the
\* previous epoch change and EligibleEntities' comparison agree with the
\* votes as they happened.
RewardsFollowFraction ==
  ~halted => rewarded = {e \in Entities : ReachesThreshold(e, lastHistory)}

\* A block fails (and the chain stops) only when the epoch's arithmetic
\* really exceeds the counters' width: the overflow guards of Update and
\* EligibleEntities reject no value whose product fits.
NoSpuriousHalt == halted => Overflows(history)

=============================================================================
