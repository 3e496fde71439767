SPECIFICATION Spec
CONSTANTS
  Destinations <- TwoDestinations
  InitialDestinations <- OneDestination
  Workers = {w1, w2}
  Tokens <- TwoTokens
  Lease = 1
  RetryWindow = 2
  MaxDelay = 1
  ClaimLimit = 1
  AttemptCap = 1
  Damaged <- NoIds
  KeyAtRisk <- OneDestination
  LongRun = TRUE
  MaxRows = 1
  MaxBatches = 1
  MaxGeneration = 2
INVARIANTS TypeOK LeaseDiscipline DisabledHoldsNothing IdentityFence
PROPERTIES SettledIsFinal LeaseRespected
