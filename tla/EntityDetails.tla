---------------------------- MODULE EntityDetails ----------------------------
(***************************************************************************)
(* What the Worker Agent accepts as the details of a job, a step, an       *)
(* environment or the job attachments (sessions/job_entities): the checks  *)
(* of validate_entity_data, what from_boto makes of data that passed them, *)
(* and the OS user a Session gets from it.                                 *)
(*                                                                         *)
(* Data is a function from the paths that are present to a mark of what is *)
(* there: "ok", "wrong" (a value of another type), "empty" (a string), or  *)
(* the value where the code looks at it.  A list stands for its elements   *)
(* with one path for any of them.                                          *)
(***************************************************************************)
EXTENDS Sequences, SequencesExt

EntityTypes == {"job", "step", "env", "ja"}
Hosts       == {"posix", "nt"}
Overrides   == {"none", "agent", "user"}

\* What becomes of an entity that was received: its details, or an exception.
Outcomes == {"details", "ValueError", "UnsupportedSchema", "other exception"}

(***************************************************************************)
(* validate_object.  A schema says of each path whether it is required;    *)
(* "loose" paths are not checked by validate_object itself.                *)
(***************************************************************************)
Flat(keys) == {<<k>> : k \in keys}
Below(path, keys) == {path \o <<k>> : k \in keys}
Schema(req, opt, lax) == [required |-> req, optional |-> opt, loose |-> lax]

\* an element of a list that is no object is not looked into
Within(d, path) ==
  \/ Len(path) = 1
  \/ /\ Front(path) \in DOMAIN d
     /\ d[Front(path)] # "not an object"

ValidObject(d, schema) ==
  /\ \A path \in schema.required : Within(d, path) => path \in DOMAIN d
  /\ \A path \in DOMAIN d :
       /\ path \in schema.required \union schema.optional \union schema.loose
       /\ path \notin schema.loose => d[path] # "wrong"

(***************************************************************************)
(* The four kinds of entities.                                             *)
(***************************************************************************)
RunAs == <<"jobRunAsUser">>
Posix == RunAs \o <<"posix">>
Windows == RunAs \o <<"windows">>
Mapping == <<"pathMappingRules", "rule">>
Parameter == <<"parameters", "parameter">>

JobSchema ==
  Schema(Flat({"jobId", "logGroupName", "schemaVersion"})
           \union Below(RunAs, {"runAs"})
           \union Below(Posix, {"user", "group"})
           \union Below(Windows, {"user", "passwordArn"})
           \union Below(<<"jobAttachmentSettings">>,
                        {"s3BucketName", "rootPrefix"})
           \union Below(Mapping, {"sourcePathFormat", "sourcePath",
                                  "destinationPath"}),
         Flat({"parameters", "pathMappingRules", "jobRunAsUser",
               "jobAttachmentSettings", "queueRoleArn"})
           \union {Posix, Windows},
         {Parameter, Mapping})

\* a parameter is marked by the only key it has, or by what is wrong with it
ValidParameters(d) ==
  Parameter \in DOMAIN d => d[Parameter] \in {"string", "path", "int", "float"}
ValidMappings(d) ==
  Mapping \in DOMAIN d => d[Mapping] # "not an object"

Overridden(override) == override \in {"agent", "user"}

ValidUser(d, host) ==
  RunAs \in DOMAIN d =>
    CASE d[RunAs \o <<"runAs">>] = "QUEUE_CONFIGURED_USER" ->
           /\ (IF host = "nt" THEN Windows ELSE Posix) \in DOMAIN d
           /\ \A path \in DOMAIN d :
                Len(path) = 3 /\ path[1] = "jobRunAsUser" => d[path] # "empty"
      [] d[RunAs \o <<"runAs">>] = "WORKER_AGENT_USER" -> Posix \notin DOMAIN d
      \* the value is tested for truth first: an empty one is not refused
      [] OTHER -> d[RunAs \o <<"runAs">>] = "empty"

\* entity_data.pop("jobRunAsUser"): the data that was cached loses the field
WithoutUser(d) ==
  [path \in {p \in DOMAIN d : p[1] # "jobRunAsUser"} |-> d[path]]
Kept(d, override) == IF Overridden(override) THEN WithoutUser(d) ELSE d

ValidJob(d, host, override) ==
  /\ ValidObject(d, JobSchema)
  /\ ValidParameters(d) /\ ValidMappings(d)
  /\ ValidUser(Kept(d, override), host)

\* schemaVersion: of a job template or an environment template, one openjd
\* knows and the agent does not, or one it does not know
OfSchema(d, accepted) ==
  CASE d[<<"schemaVersion">>] \in accepted -> "details"
    [] d[<<"schemaVersion">>] = "unknown" -> "ValueError"
    [] OTHER -> "UnsupportedSchema"

JobOutcome(d, host, override) ==
  IF ValidJob(d, host, override) THEN OfSchema(d, {"job"}) ELSE "ValueError"

\* parse_model refuses a template that is not one
Parsed(d) == IF d[<<"template">>] = "bad" THEN "ValueError" ELSE "details"

StepSchema ==
  Schema(Flat({"jobId", "schemaVersion", "template", "stepId"}),
         Flat({"dependencies"}), {<<"dependencies", "step">>})
ValidStep(d) ==
  /\ ValidObject(d, StepSchema)
  /\ <<"dependencies", "step">> \in DOMAIN d =>
       d[<<"dependencies", "step">>] # "wrong"

\* from_boto reads dependencies, which are not required, as if they were
StepOutcome(d) ==
  IF ~ ValidStep(d) THEN "ValueError"
  ELSE IF OfSchema(d, {"job"}) # "details" THEN OfSchema(d, {"job"})
  ELSE IF Parsed(d) # "details" THEN Parsed(d)
  ELSE IF <<"dependencies">> \notin DOMAIN d THEN "other exception"
  ELSE "details"

EnvironmentSchema ==
  Schema(Flat({"template", "environmentId", "jobId", "schemaVersion"}), {}, {})
EnvironmentOutcome(d) ==
  IF ~ ValidObject(d, EnvironmentSchema) THEN "ValueError"
  ELSE IF OfSchema(d, {"job", "env"}) # "details" THEN OfSchema(d, {"job", "env"})
  ELSE Parsed(d)

Manifest == <<"attachments", "manifests", "manifest">>
AttachmentsSchema ==
  Schema(Flat({"jobId", "attachments"}) \union {Front(Manifest)}
           \union Below(Manifest, {"rootPath", "rootPathFormat"}),
         Flat({"stepId"}) \union Below(<<"attachments">>, {"fileSystem"})
           \union Below(Manifest, {"fileSystemLocationName",
                                   "outputRelativeDirectories",
                                   "inputManifestPath", "inputManifestHash"}),
         {Manifest})

\* from_boto takes the manifests for objects, which was not checked
AttachmentsOutcome(d) ==
  IF ~ ValidObject(d, AttachmentsSchema) THEN "ValueError"
  ELSE IF Manifest \in DOMAIN d /\ d[Manifest] = "not an object"
       THEN "other exception"
  ELSE IF /\ <<"attachments", "fileSystem">> \in DOMAIN d
          /\ d[<<"attachments", "fileSystem">>] = "unknown"
       THEN "ValueError"
  ELSE "details"

Outcome(type, d, host, override) ==
  CASE type = "job"  -> JobOutcome(d, host, override)
    [] type = "step" -> StepOutcome(d)
    [] type = "env"  -> EnvironmentOutcome(d)
    [] type = "ja"   -> AttachmentsOutcome(d)

(***************************************************************************)
(* The user of a Session.                                                  *)
(***************************************************************************)
NoUser == "none"
AgentUser == "the agent's"
OverrideUser == "the override's"

\* job_run_as_user_api_model_to_worker_agent, of data that was validated
JobUser(d, host) ==
  IF RunAs \notin DOMAIN d THEN NoUser
  ELSE IF d[RunAs \o <<"runAs">>] = "WORKER_AGENT_USER" THEN AgentUser
  ELSE IF host = "posix" /\ Posix \in DOMAIN d THEN d[Posix \o <<"user">>]
  ELSE IF host = "nt" /\ Windows \in DOMAIN d THEN d[Windows \o <<"user">>]
  ELSE NoUser

\* the resolver has to be asked: windows_settings is not None
AsksResolver(d, host) ==
  host = "nt" /\ JobUser(d, host) \notin {NoUser, AgentUser}

\* Jobs do not run as the agent, an Administrator, where it is Windows.
NeverRefuses(d, host, override) == FALSE
RefusesAgentUser(d, host, override) ==
  host = "nt" /\ override = "none" /\ JobUser(d, host) = AgentUser

\* _determine_user_for_session; NoUser is for the ValueError it raises
UserForSession(d, host, override) ==
  CASE override = "agent" -> AgentUser
    [] override = "user"  -> OverrideUser
    [] OTHER -> JobUser(d, host)
==============================================================================
