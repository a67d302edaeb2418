CONSTANTS
  S1 = s1
  Enter = enter
  Sync = sync
  Task = task
  Exit = exit
  Env = env
  None = None
  Sessions = {s1}
  Actions = {enter, exit}
  Envs = {env}
  Faults = {"start", "create", "entity"}
  Stops <- AnyStop
  SessionOf <- OneSession
  Kind <- PipelineKind
  EnvOf <- PipelineEnv
  Pos <- PipelinePos
SPECIFICATION Spec
INVARIANT OutcomeInv
CHECK_DEADLOCK FALSE
