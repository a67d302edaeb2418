CONSTANTS
  S1 = s1
  S2 = s2
  Enter = enter
  Sync = sync
  Task = task
  Task2 = task2
  Exit = exit
  Other = other
  Env = env
  None = None
  Sessions = {s1}
  Actions = {sync, task}
  Envs = {env}
  Faults = {"create", "creds", "start"}
  Drains = {}
  Cancels = {s1}
  Stops <- StopsUnlimited
  SessionOf <- SessionsOf
  Kind <- PipelineKind
  EnvOf <- PipelineEnv
  Pos <- PipelinePos
SPECIFICATION SystemSpec
INVARIANT NoCompletionLost
INVARIANT OutcomesInOrder
INVARIANT SleepMissesNoEnd
PROPERTY Spec
PROPERTY ServiceSeesOneOutcome
CHECK_DEADLOCK FALSE
