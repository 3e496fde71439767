SPECIFICATION Spec
CONSTANTS
  k1 = k1
  k2 = k2
  Procs = {p1, p2}
  Commands = {"serve", "change", "rekey", "compact", "inspect", "backup"}
  Keys = {k1, k2}
  NoKey = none
  Founded <- NoneToThirteenth
  Chunk = 1
  MaxCommits = 2
  MaxFiles = 2
CONSTRAINT OneAge
SYMMETRY Symmetry
CHECK_DEADLOCK FALSE
INVARIANTS
  ServesTheLiveKey
  UpgradedWhole
  CheckpointsAdvance
  BackupsOpen
PROPERTY
  IsAVault
