SPECIFICATION Spec
CONSTANTS
  Waiters = {w1}
  MaxItems = 1
  MaxFaults = 0
INVARIANTS CleanupIsStored
CHECK_DEADLOCK FALSE
