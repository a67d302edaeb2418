CONSTANTS
  W1 = w1
  W2 = w2
  W3 = w3
  None = None
  Corrupt = corrupt
  Workers = {w1, w2, w3}
  Here = here
  Elsewhere = elsewhere
  Errors <- SomeErrors
  Script = TRUE
  AllowProfile = FALSE
  NoShutdown = FALSE
  Attempts = 2
  MaxLaunches = 2
SPECIFICATION FairSpec
INVARIANT TypeOK
INVARIANT OnlineAsSaved
INVARIANT ConfiguredBeforeJobs
PROPERTY NoNeedlessWorkers
PROPERTY BootstrapEnds
CHECK_DEADLOCK FALSE
