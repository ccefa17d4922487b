SPECIFICATION FairSpec
CONSTANTS
  MaxSubscriptions = 2
  MaxEvents = 2
  Resolution = 2
  Clock <- TwoEvents
  Configs <- AllPolicies
INVARIANTS TypeOK NothingBehindCursor LatestSurvives
PROPERTIES CursorAdvances PublishReturns PageCatchesUp
CHECK_DEADLOCK FALSE
