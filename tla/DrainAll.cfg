SPECIFICATION FairSpec
CONSTANTS
  Waiters = {w1, w2}
  MaxItems = 2
  MaxFaults = 1
INVARIANTS TypeOK DrainLosesNothing IdleIsStable WaitersAreAnswered
PROPERTIES DrainIsStraight DrainEnds
CHECK_DEADLOCK FALSE
