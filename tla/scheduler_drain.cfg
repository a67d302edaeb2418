CONSTANTS
  S1 = s1
  S2 = s2
  Enter = enter
  Sync = sync
  Task = task
  Task2 = task2
  Exit = exit
  Other = other
  Env = env
  None = None
  Sessions = {s1}
  Actions = {task}
  Envs = {env}
  Faults = {"start"}
  Drains = {"worker", "service", "error"}
  Cancels = {}
  Stops <- StopsLimited
  SessionOf <- SessionsOf
  Kind <- PipelineKind
  EnvOf <- PipelineEnv
  Pos <- PipelinePos
SPECIFICATION WokenSystemSpec
PROPERTY ShutdownDrains
CHECK_DEADLOCK FALSE
