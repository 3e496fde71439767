CONSTANTS
  MaxTrigger = 2
  Collectors <- OneCollector
  Scope <- BothDevices
  Processes = {p1}
  Timers = {inventory}
  Tokens <- OneToken
  Lease = 1
  RetryWindow = 1
  Retention = 2
  MaxDelay = 1
  ClaimLimit = 2
  ChannelCap = 1
  OverflowCap = 1
  Damaged <- First
  MaxGeneration = 2
SPECIFICATION FairSpec
INVARIANTS ProcessedWasReconciled
PROPERTIES EventuallySettled TimersServed
