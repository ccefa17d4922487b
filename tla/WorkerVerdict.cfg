SPECIFICATION Spec
CONSTANTS
  MaxRetries = 1
  MaxEvents = 2
  MaxFaults = 0
INVARIANTS FailureIsHeeded
CHECK_DEADLOCK FALSE
