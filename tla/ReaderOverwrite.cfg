SPECIFICATION FairSpec

CONSTANTS
  A = A B = B None = None Other = Other
  Tabs = {A}
  MaxChanges = 2
  MaxOther = 1
  MaxRetries = 0
  MaxFails = 0
  MaxDrops = 1
  MaxCrashes = 0
  MaxFaults = 0
  MaxExpiries = 0
  MaxUndos = 0
  MaxEvents = 2
CHECK_DEADLOCK FALSE
INVARIANTS NoSilentOverwrite
