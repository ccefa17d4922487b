SPECIFICATION FairSpec
CONSTANTS
  Runtimes = {"codex", "github"}
  MaxEvents = 4
  Buffer = 2
  Pipe = 2
CHECK_DEADLOCK FALSE
INVARIANTS TypeOK NeverSendsOnClosed RecordIsComplete IdleIsEarned
PROPERTIES FollowsStream EndReachesTheRun SessionIsReleased
