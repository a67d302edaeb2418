------------------------------ MODULE MCSession ------------------------------
(* Session on small instances: one Session whose pipeline enters an
   environment, runs a task with or without job attachments, and leaves. *)
EXTENDS Session, TLC

CONSTANTS S1, Enter, Sync, Task, Exit, Env

OneSession == [a \in Actions |-> S1]
PipelineKind == [a \in Actions |-> CASE a = Enter -> "ENV_ENTER"
                                     [] a = Sync  -> "SYNC_INPUT"
                                     [] a = Task  -> "TASK_RUN"
                                     [] a = Exit  -> "ENV_EXIT"]
PipelineEnv == [a \in Actions |-> Env]
PipelinePos == [a \in Actions |-> CASE a = Enter -> 1 [] a = Sync -> 2
                                    [] a = Task -> 3 [] a = Exit -> 4]

\* the ways stop() is called: by a drain, by a failed refresh of the queue's
\* credentials, by the removal of a finished Session
DrainStop   == {<<"INTERRUPTED", "left">>}
SpotStop    == {<<"INTERRUPTED", "none">>}
RemovalStop == {<<"FAILED", "spent">>}
AnyStop     == DrainStop \union SpotStop \union RemovalStop
=============================================================================
