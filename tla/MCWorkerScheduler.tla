-------------------------- MODULE MCWorkerScheduler --------------------------
(* WorkerScheduler on small instances: the pipeline of one Session, or two
   Sessions with a task each. *)
EXTENDS WorkerScheduler, TLC

CONSTANTS S1, S2, Enter, Sync, Task, Task2, Exit, Other, Env

SessionsOf == [a \in Actions |-> IF a = Other THEN S2 ELSE S1]
PipelineKind == [a \in Actions |-> CASE a = Enter -> "ENV_ENTER"
                                     [] a = Sync  -> "SYNC_INPUT"
                                     [] a = Exit  -> "ENV_EXIT"
                                     [] OTHER     -> "TASK_RUN"]
PipelineEnv == [a \in Actions |-> Env]
PipelinePos == [a \in Actions |-> CASE a = Sync  -> 1 [] a = Enter -> 2
                                    [] a = Task  -> 3 [] a = Task2 -> 4
                                    [] a = Exit  -> 5 [] OTHER -> 1]

\* the ways stop() is called: by the removal of a finished Session, and by a
\* drain with or without a grace time
StopsUnlimited == {<<"FAILED", "spent">>, <<"INTERRUPTED", "none">>}
StopsLimited   == {<<"FAILED", "spent">>, <<"INTERRUPTED", "none">>,
                   <<"INTERRUPTED", "left">>}
=============================================================================
