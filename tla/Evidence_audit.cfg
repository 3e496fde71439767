SPECIFICATION Spec
CONSTANTS
  MaxBatch = 4
  Legacy = 2
  Cutoff = 2
  Chunk = 1
  Kinds = {"a", "b"}
  Contents <- SmallAndTriggered
  PageLimit = 2
  PageBudget = 6
  MaxEvents = 3
  MaxLinks = 3
  MaxPack = 5
  AuditPage = 2
  DeleteLimit = 2
CHECK_DEADLOCK FALSE
INVARIANTS NeverPartlyDeleted
