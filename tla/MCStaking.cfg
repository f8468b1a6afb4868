CONSTANTS
  Addr = {1, 2}
  Amounts = {1}
  EscrowPairs <- MCEscrowPairs
  SlashAmounts = {2}
  MaxEpoch = 2
  DebondingInterval = 2
  MinTransactBalance = 0
  CommissionRateDenominator = 1
  CommissionRate <- MCCommissionRate
  RewardFactors = {1}
  RewardAmountDenominator = 2
  RewardUntil = 2
  Attenuations <- MCAttenuations
  InitGeneral <- MCInitGeneral
  InitCommonPool = 1
SPECIFICATION Spec
CONSTRAINT SharesBounded
INVARIANTS TypeOK SupplyConservation SharesAccounted DebondingIndexConsistent ReleaseSucceeds
PROPERTY DebondingScheduleRefined
