CONSTANTS
  None = None
  Queue <- FourActions
  Shapes <- SomeShapes
  MaxBatch = 2
  RetryAfter = 2
  CacheExpiration = 3
SPECIFICATION Spec
INVARIANT TypeOK
INVARIANT RunsAsConfigured
INVARIANT LogonsKept
INVARIANT FailureWaits
PROPERTY FailsForItself
CHECK_DEADLOCK FALSE
