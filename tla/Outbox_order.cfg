SPECIFICATION FairSpec
CONSTANTS
  Destinations <- OneDestination
  InitialDestinations <- OneDestination
  Workers = {w1}
  Tokens <- OneToken
  Lease = 1
  RetryWindow = 2
  MaxDelay = 1
  ClaimLimit = 2
  AttemptCap = 2
  Damaged <- SecondId
  KeyAtRisk <- NoIds
  LongRun = FALSE
  MaxRows = 2
  MaxBatches = 0
  MaxGeneration = 1
INVARIANTS DeliveredWasAccepted
PROPERTIES OldestFirst EventuallySettled
