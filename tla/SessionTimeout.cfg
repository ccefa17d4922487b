SPECIFICATION Spec
CONSTANTS
  Runtimes = {"codex"}
  MaxEvents = 1
  Buffer = 1
  Pipe = 1
CHECK_DEADLOCK FALSE
INVARIANTS TimeoutIsRecorded
