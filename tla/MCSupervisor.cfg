SPECIFICATION FairSpec
CONSTANTS
  Ops = {fetch}
  RateKeys = {shared}
  FailureThreshold = 2
  SuccessThreshold = 2
  RecoveryTimeout = 2
  MaxRequests = 2
  Window = 2
  MaxAttempts = 2
  Timeout = 1
  MaxDepth = 3
INVARIANTS
  TypeOK
  FailuresInARow
  RunningBeforeOpening
  BurstBound
PROPERTIES
  ClosedByProbe
  Recovers
