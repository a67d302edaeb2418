CONSTANTS
  S1 = s1
  Enter = enter
  Sync = sync
  Task = task
  Exit = exit
  Env = env
  None = None
  Sessions = {s1}
  Actions = {sync, task}
  Envs = {env}
  Faults = {"entity"}
  Stops <- SpotStop
  SessionOf <- OneSession
  Kind <- PipelineKind
  EnvOf <- PipelineEnv
  Pos <- PipelinePos
SPECIFICATION Spec
PROPERTY FailureStands
CHECK_DEADLOCK FALSE
