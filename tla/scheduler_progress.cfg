CONSTANTS
  S1 = s1
  S2 = s2
  Enter = enter
  Sync = sync
  Task = task
  Task2 = task2
  Exit = exit
  Other = other
  Env = env
  None = None
  Sessions = {s1}
  Actions = {enter, exit}
  Envs = {env}
  Faults = {"creds", "create", "start", "entity"}
  Drains = {}
  Cancels = {}
  Stops <- StopsUnlimited
  SessionOf <- SessionsOf
  Kind <- PipelineKind
  EnvOf <- PipelineEnv
  Pos <- PipelinePos
SPECIFICATION PollingSystemSpec
PROPERTY AssignedActionsComplete
PROPERTY ClosedSessionsEnd
CHECK_DEADLOCK FALSE
