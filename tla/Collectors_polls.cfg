SPECIFICATION FairSpec
CONSTANTS
  r1 = r1
  r2 = r2
  r3 = r3
  Collectors = {"users"}
  Resources <- ThreeResources
  Edited <- NoResources
  Silent = {}
  Scoped = {"users"}
  Shared <- TheThird
  MaxGeneration = 2
INVARIANTS EventsExplainSnapshots NoticesAlternate
PROPERTIES RemovedWasAbsentTwice MassRemovalWasGuarded Converges
