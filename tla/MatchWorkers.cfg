SPECIFICATION WorkerSpec
CONSTANTS
  Cards = {c1, c2}
  Workers = {w1, w2}
  MaxAttempts = 1
  ClaimLimit = 2
  MaxRev = 2
  MaxCfg = 2
  MaxFaults = 1
  Orphan = Orphan
  None = None
SYMMETRY SymmetricPairs
CHECK_DEADLOCK FALSE
PROPERTIES
  LeaseRespected
  FailuresHonest
