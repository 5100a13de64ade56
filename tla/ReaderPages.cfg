SPECIFICATION Spec
SYMMETRY Symmetric
CONSTANTS
  A = A B = B None = None Other = Other
  Tabs = {A, B}
  MaxChanges = 2
  MaxOther = 0
  MaxRetries = 0
  MaxFails = 0
  MaxDrops = 0
  MaxCrashes = 1
  MaxFaults = 0
  MaxExpiries = 0
  MaxUndos = 0
  MaxEvents = 1
CHECK_DEADLOCK FALSE
INVARIANTS OneSender DoneIsApplied AppliedAsMade
