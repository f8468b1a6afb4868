CONSTANTS
  e1 = e1
  e2 = e2
  Entities = {e1, e2}
  Width = 4
  BlocksPerEpoch = 17
  MaxEpoch = 2
  ThresholdNumerator = 3
  ThresholdDenominator = 4
SPECIFICATION Spec
INVARIANTS
  RewardsFollowFraction
  NoSpuriousHalt
