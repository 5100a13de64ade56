SPECIFICATION AlertsSpec
CONSTANTS
  Attempts = {a1, a2}
  None = None
  match = match
  card = card
  Kinds <- TwoKinds
  Exempt <- CardOnly
  Groups <- TwoKinds
  GroupOf <- TwoGroups
  CallCap <- TwoCaps
  Costs = {1, 2}
  Budget = 2
  Allowance = 1
  MaxDay = 1
  SettleDays = 0
  SettleTries = 1
  Marks <- Keys
  Ratio <- Percent
SYMMETRY Symmetric
INVARIANTS CapRespected CrossingsMarked
PROPERTY AdmissionWithinLimit
\* Every attempt over and every reservation settled: nothing is left to do.
CHECK_DEADLOCK FALSE
