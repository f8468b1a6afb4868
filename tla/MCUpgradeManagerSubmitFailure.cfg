CONSTANTS
  d1 = d1
  d2 = d2
  d3 = d3
  Descriptors <- MCDescriptors
  DescEpoch <- MCDescEpoch
  OldCompatible <- MCOldCompatible
  NeedsStartup <- MCNeedsStartup
  BlocksPerEpoch = 2
  MaxHeight = 7
  LastSubmitHeight = 5
  MaxInterruptions = 1
  FlushCanFail = {"submit"}
  MaxFlushFailures = 1
SPECIFICATION Spec
INVARIANT AckedIsPersisted
