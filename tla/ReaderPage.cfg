SPECIFICATION FairSpec

CONSTANTS
  A = A B = B None = None Other = Other
  Tabs = {A}
  MaxChanges = 2
  MaxOther = 1
  MaxRetries = 1
  MaxFails = 1
  MaxDrops = 1
  MaxCrashes = 1
  MaxFaults = 1
  MaxExpiries = 1
  MaxUndos = 1
  MaxEvents = 2
CHECK_DEADLOCK FALSE
INVARIANTS TypeOK StaleIsNotApplied WithdrawnNeverApplied
PROPERTIES NeverRefusedAfterApplied EverythingSettles
