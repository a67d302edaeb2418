CONSTANTS
  None = None
  MaxInside = 1
SPECIFICATION FairSpec
INVARIANT DrainKnowsGrace
INVARIANT NoTimerLeft
INVARIANT WorksWithCredentials
PROPERTY AgentStops
PROPERTY FailedRefreshStops
CHECK_DEADLOCK FALSE
