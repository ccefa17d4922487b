SPECIFICATION FairSpec
CONSTANTS
  MaxRetries = 2
  MaxEvents = 2
  MaxFaults = 1
INVARIANTS TypeOK SuccessIsRecorded SessionsAreStopped OnlyVerdictsAreRetried
PROPERTIES EveryStepCounts FollowsContract ProcessReturns
CHECK_DEADLOCK FALSE
