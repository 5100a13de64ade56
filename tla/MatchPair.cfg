SPECIFICATION FairSpec
CONSTANTS
  Cards = {c1}
  Workers = {w1}
  MaxAttempts = 2
  ClaimLimit = 1
  MaxRev = 2
  MaxCfg = 2
  MaxFaults = 1
  Orphan = Orphan
  None = None
INVARIANTS
  TypeOK
  PairsAccounted
PROPERTIES
  AnswersFenced
  PrimaryKept
  PairsServed
