CONSTANTS
  S1 = s1
  Enter = enter
  Sync = sync
  Task = task
  Exit = exit
  Env = env
  None = None
  Sessions = {s1}
  Actions = {sync, task}
  Envs = {env}
  Faults = {"start", "create", "entity"}
  Stops <- AnyStop
  SessionOf <- OneSession
  Kind <- PipelineKind
  EnvOf <- PipelineEnv
  Pos <- PipelinePos
SPECIFICATION Spec
INVARIANT TypeOK
INVARIANT CallbackHasAction
INVARIANT OutcomeInv
PROPERTY CompletedIsFinal
PROPERTY StartsOnce
CHECK_DEADLOCK FALSE
