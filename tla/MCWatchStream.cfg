CONSTANTS
  MaxPublished = 3
  Window = 2
  MaxTransportFailures = 1
  BackendCanFail = TRUE
SPECIFICATION Spec
INVARIANTS TypeOK ReceivedInOrder CompleteOnCleanEnd
PROPERTIES WatchTerminates
