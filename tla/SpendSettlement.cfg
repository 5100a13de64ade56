SPECIFICATION FairSpec
CONSTANTS
  Attempts = {a1, a2}
  None = None
  match = match
  Kinds <- OneKind
  Exempt <- Nothing
  Groups <- OneKind
  GroupOf <- OneGroup
  CallCap <- OneCap
  Costs = {1}
  Budget = 1
  Allowance = 1
  MaxDay = 2
  SettleDays = 1
  SettleTries = 2
INVARIANTS CountedOnce CostBooked SentStaysCharged
PROPERTY EveryReservationSettles
\* Every attempt over and every reservation settled: nothing is left to do.
CHECK_DEADLOCK FALSE
