----------------------------- MODULE MCJobEntities -----------------------------
(* JobEntities on small instances: of each kind of entity a good one, and what
   is wrong with a bad one in every way the code tells apart. *)
EXTENDS JobEntities, TLC

Set(d, marks) == marks @@ d
Without(d, paths) == [p \in DOMAIN d \ paths |-> d[p]]
Good(paths) == [p \in paths |-> "ok"]

Job == (<<"schemaVersion">> :> "job") @@ Good(Flat({"jobId", "logGroupName"}))
ByQueue(d) == Set(d, (RunAs :> "ok")
                     @@ (RunAs \o <<"runAs">> :> "QUEUE_CONFIGURED_USER"))
PosixUser(d) == Set(d, (Posix :> "ok") @@ (Posix \o <<"user">> :> "queue's")
                       @@ (Posix \o <<"group">> :> "ok"))
WindowsUser(d, arn) == Set(d, (Windows :> "ok")
                              @@ (Windows \o <<"user">> :> "queue's nt")
                              @@ (Windows \o <<"passwordArn">> :> arn))
ByAgent(d) == Set(d, (RunAs :> "ok")
                     @@ (RunAs \o <<"runAs">> :> "WORKER_AGENT_USER"))
Both(arn) == WindowsUser(PosixUser(ByQueue(Job)), arn)
WithMapping(d) ==
  Set(d, (<<"pathMappingRules">> :> "ok") @@ (Mapping :> "ok")
         @@ Good(Below(Mapping, {"sourcePathFormat", "sourcePath",
                                 "destinationPath"})))

Jobs ==
  {Job, Both("arn1"), Both("arn2"), PosixUser(ByQueue(Job)),
   WindowsUser(ByQueue(Job), "arn1"), ByAgent(Job), PosixUser(ByAgent(Job)),
   Set(Both("arn1"), Posix \o <<"group">> :> "empty"),
   Set(Both("arn1"), RunAs \o <<"runAs">> :> "empty"),
   WithMapping(Both("arn1")),
   Without(WithMapping(Both("arn1")), {Mapping \o <<"sourcePath">>}),
   Without(Both("arn1"), {<<"logGroupName">>}),
   Set(Both("arn1"), (<<"parameters">> :> "ok") @@ (Parameter :> "chunkInt")),
   Set(Both("arn1"), (<<"parameters">> :> "ok") @@ (Parameter :> "path")),
   Set(Both("arn1"), <<"unexpected">> :> "ok")}

Step == Set(Good(Flat({"jobId", "stepId", "template", "dependencies"})),
            <<"schemaVersion">> :> "job")
Steps == {Step, Without(Step, {<<"dependencies">>}),
          Set(Step, <<"schemaVersion">> :> "env")}

Environment == Set(Good(Flat({"template", "environmentId", "jobId"})),
                   <<"schemaVersion">> :> "env")
Environments == {Environment, Set(Environment, <<"template">> :> "bad")}

Attached ==
  Good(Flat({"jobId", "attachments"}) \union {Front(Manifest), Manifest}
         \union Below(Manifest, {"rootPath", "rootPathFormat"}))
Attachments ==
  {Attached, Without(Attached, {Manifest \o <<"rootPath">>}),
   Set(Without(Attached, Below(Manifest, {"rootPath", "rootPathFormat"})),
       Manifest :> "not an object")}

SomeShapes == [t \in EntityTypes |-> CASE t = "job"  -> Jobs
                                       [] t = "step" -> Steps
                                       [] t = "env"  -> Environments
                                       [] t = "ja"   -> Attachments]
FourActions == <<"SYNC_INPUT", "ENV_ENTER", "SYNC_DEPENDENCIES", "TASK_RUN">>
================================================================================
