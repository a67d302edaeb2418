------------------------------- MODULE Bootstrap -------------------------------
(***************************************************************************)
(* One launch of the Worker Agent after another on one host: the           *)
(* entrypoint (startup/entrypoint.py), the bootstrap that gives the host   *)
(* its identity in the service (startup/bootstrap.py), the Worker's own    *)
(* AWS credentials (aws_credentials/worker_boto3_session.py), the host     *)
(* configuration script and the way the agent ends.  The agent is one      *)
(* thread here; it may crash between any two steps, and what it leaves     *)
(* behind is on disk and in the service.  Worker.run() is the one step     *)
(* "running"; WorkerMain models it.                                        *)
(***************************************************************************)
EXTENDS Integers, FiniteSets, DeadlineApi

CONSTANTS
  Workers,        \* the ids CreateWorker may answer with
  Here, Elsewhere,\* EC2 instance ids: this host's and another host's
  Errors,         \* client errors that do not depend on the Worker's status
  Script,         \* the fleet has a host configuration script
  AllowProfile,   \* config.allow_instance_profile
  NoShutdown,     \* config.no_shutdown
  Attempts,       \* INSTANCE_PROFILE_REMOVAL_ATTEMPTS
  MaxLaunches,    \* bound: launches of the agent
  Corrupt,        \* a state file that is not JSON: emptied, and not yet written
  None

\* WorkerPersistenceInfo
Infos == [worker : Workers, instance : {Here, Elsewhere, None}, hostOk : BOOLEAN]

ASSUME BootstrapAssumption ==
  /\ None \notin Workers /\ None \notin {Here, Elsewhere}
  /\ {None, Corrupt} \intersect Infos = {} /\ None # Corrupt
  /\ Here # Elsewhere
  /\ Errors \subseteq ClientErrors
  /\ \A e \in Errors : e.code # "ResourceNotFound"
  /\ {Script, AllowProfile, NoShutdown} \subseteq BOOLEAN
  /\ Attempts \in Nat \ {0} /\ MaxLaunches \in Nat

VARIABLES
  \* the host's disk
  file,      \* the worker state file: None, Corrupt or a WorkerPersistenceInfo
  cached,    \* the credentials file of each Worker
  \* the service and EC2
  workers,   \* the status of each Worker in the service
  attached,  \* an instance profile is attached to the host
  \* the agent's memory
  pc, next,  \* where the agent is; where it goes on after a save
  imds,      \* the instance id it found, None if IMDS did not answer
  fresh,     \* use_existing_worker = False
  loaded,    \* has_existing_worker
  info,      \* worker_info
  tries,     \* of _enforce_no_instance_profile
  \* history
  launches,
  created,   \* the Workers this host has created
  lost,      \* Workers whose id the host could not keep, or is not its own
  configured \* Workers for which the script has succeeded on this host

diskVars    == <<file, cached>>
serviceVars == <<workers, attached>>
agentVars   == <<imds, fresh, loaded, info, tries>>
ghostVars   == <<launches, created, lost, configured>>
vars == <<diskVars, serviceVars, pc, next, agentVars, ghostVars>>

Statuses == {"none", "CREATED", "STARTED", "STOPPING", "STOPPED",
             "NOT_RESPONDING", "NOT_COMPATIBLE", "deleted"}

Wid == info.worker
Exit == pc' = "exited"

\* the process is gone, and its memory with it
Forget == /\ next' = "credentials"
          /\ imds' = None /\ fresh' = FALSE /\ loaded' = FALSE
          /\ info' = None /\ tries' = 0

(***************************************************************************)
(* _load_or_create_worker                                                  *)
(***************************************************************************)
\* the file was made on another instance: the identity came with a disk image
OtherInstance ==
  imds # None /\ file.instance # None /\ file.instance # imds

\* WorkerPersistenceInfo.load and the checks on what it read; imds is asked
\* first, each time
LoadFile ==
  /\ pc = "load"
  /\ imds' \in {Here, None}
  /\ pc' = "loaded"
  /\ UNCHANGED <<diskVars, serviceVars, next, fresh, loaded, info, tries,
                 ghostVars>>

UseFile ==
  /\ pc = "loaded"
  /\ IF fresh \/ file = None THEN /\ pc' = "create"
                                  /\ UNCHANGED <<info, loaded, next>>
     ELSE IF file = Corrupt THEN Exit /\ UNCHANGED <<info, loaded, next>>
     ELSE IF OtherInstance THEN /\ pc' = "create"
                                /\ UNCHANGED <<info, loaded, next>>
     ELSE /\ loaded' = TRUE
          /\ info' = IF file.instance = None THEN [file EXCEPT !.instance = imds]
                                             ELSE file
          /\ next' = "credentials"
          /\ pc' = IF info' = file THEN "credentials" ELSE "save"
  /\ UNCHANGED <<diskVars, serviceVars, imds, fresh, tries, ghostVars>>

\* Mutant: the Worker is used before its id is saved.
SavedLater == "credentials"

SavedFirst == "save"

\* create_worker: the service takes the request or answers with an error; the
\* answer may be lost, which is an error the agent does not try again
Create ==
  /\ pc = "create"
  /\ \/ \E w \in {v \in Workers : workers[v] = "none"}, arrives \in BOOLEAN :
          /\ workers' = [workers EXCEPT ![w] = "CREATED"]
          /\ created' = created \union {w}
          /\ IF arrives
             THEN /\ info' = [worker |-> w, instance |-> imds, hostOk |-> FALSE]
                  /\ loaded' = FALSE
                  /\ pc' = SavedFirst /\ next' = "credentials"
                  /\ UNCHANGED lost
             ELSE Exit /\ lost' = lost \union {w} /\ UNCHANGED <<info, loaded, next>>
     \/ /\ \E e \in Errors : IsUnrecoverable(CreateWorker(e))
        /\ Exit
        /\ UNCHANGED <<workers, created, lost, info, loaded, next>>
  /\ UNCHANGED <<diskVars, attached, imds, fresh, tries, launches, configured>>

\* save() opens the file, which empties it, ...
Save ==
  /\ pc = "save"
  /\ file' = Corrupt
  /\ pc' = "write"
  /\ UNCHANGED <<cached, serviceVars, next, agentVars, ghostVars>>

\* ... and writes it
Write ==
  /\ pc = "write"
  /\ file' = info
  /\ pc' = next
  /\ UNCHANGED <<cached, serviceVars, next, agentVars, ghostVars>>

\* the directory of the file does not exist
SaveFails ==
  /\ pc = "save"
  /\ Exit
  /\ lost' = lost \union (IF file \in Infos /\ file.worker = Wid THEN {} ELSE {Wid})
  /\ UNCHANGED <<diskVars, serviceVars, next, agentVars, launches, created,
                 configured>>

(***************************************************************************)
(* _get_boto3_session_for_fleet_role                                       *)
(***************************************************************************)
\* Mutant: bootstrap_worker calls itself as it was called.
WithLoadAgain ==
  /\ pc' = "load"
  /\ UNCHANGED fresh

\* bootstrap_worker calls itself, with use_existing_worker=False
WithoutLoad ==
  /\ pc' = "load"
  /\ fresh' = TRUE

\* Mutant: any exception makes the agent try a new Worker.
RaisedAny(recoverable) ==
  IF loaded THEN WithoutLoad ELSE Exit /\ UNCHANGED fresh

\* an exception that a Worker created just now does not explain
Raised(recoverable) ==
  IF recoverable /\ loaded THEN WithoutLoad ELSE Exit /\ UNCHANGED fresh

\* TemporaryCredentials.from_cache: a file that is not JSON is deleted
FromCache(entry) == IF entry = "corrupt" THEN "none" ELSE entry

\* WorkerBoto3Session(): the cached credentials, unless they cannot be read
\* or have expired
LoadCredentials ==
  /\ pc = "credentials"
  /\ cached' = [cached EXCEPT ![Wid] = FromCache(@)]
  /\ pc' = IF FromCache(cached[Wid]) = "valid" THEN "start" ELSE "assume"
  /\ UNCHANGED <<file, serviceVars, next, agentVars, ghostVars>>

\* refresh_credentials, with the credentials of the bootstrap session
AssumeRole ==
  /\ pc = "assume"
  /\ \/ /\ workers[Wid] # "deleted"
        /\ cached' = [cached EXCEPT ![Wid] = "valid"]
        /\ pc' = "start"
        /\ UNCHANGED fresh
     \/ /\ workers[Wid] = "deleted"
        /\ IsUnrecoverable(AssumeFleetRole(Plain("ResourceNotFound")))
        /\ Raised(TRUE)
        /\ UNCHANGED cached
     \/ /\ \E e \in Errors : IsUnrecoverable(AssumeFleetRole(e))
        /\ Raised(FALSE)
        /\ UNCHANGED cached
  /\ UNCHANGED <<file, serviceVars, next, imds, loaded, info, tries, ghostVars>>

(***************************************************************************)
(* update_worker                                                           *)
(***************************************************************************)
MustStopFirst(w) == workers[w] \in {"STOPPING", "NOT_COMPATIBLE"}

\* what the service may answer to UpdateWorker, apart from success
UpdateErrors(w, status) ==
  IF workers[w] = "deleted" THEN {Plain("ResourceNotFound")}
  ELSE IF status = "STARTED" /\ MustStopFirst(w)
       THEN {ConflictOf("worker", workers[w])}
  ELSE Errors \union (IF attached THEN {ConflictOf("worker", "ASSOCIATED")} ELSE {})

CanSet(w, status) ==
  workers[w] # "deleted" /\ ~ (status = "STARTED" /\ MustStopFirst(w))

\* the outcomes of update_worker that end the call; the service may take the
\* request although the answer is lost
UpdateOutcomes(w, status) ==
  ({UpdateWorker(e, status) : e \in UpdateErrors(w, status)} \ {"retry"})
  \union (IF CanSet(w, status) THEN {"ok", "lost"} ELSE {})

Report(status, outcome) ==
  workers' = [workers EXCEPT ![Wid] =
                IF outcome \in {"ok", "lost"} THEN status ELSE @]

\* _start_worker, and the check of the log configuration that came with it:
\* without one the agent gives up
Start ==
  /\ pc = "start"
  /\ \E outcome \in UpdateOutcomes(Wid, "STARTED") :
       /\ Report("STARTED", outcome)
       /\ \/ outcome = "ok" /\ pc' = "profile" /\ UNCHANGED fresh
          \/ outcome = "stop first" /\ pc' = "stop first" /\ UNCHANGED fresh
          \/ /\ outcome \notin {"ok", "stop first"}
             /\ Raised(IsConditional(outcome))
  /\ UNCHANGED <<diskVars, attached, next, imds, loaded, info, tries, launches,
                 created, lost, configured>>

\* the nested call of update_worker; what it raises is passed on
StopFirst ==
  /\ pc = "stop first"
  /\ \E outcome \in UpdateOutcomes(Wid, "STOPPED") :
       /\ Report("STOPPED", outcome)
       /\ IF outcome = "ok" THEN pc' = "start" /\ UNCHANGED fresh
          ELSE Raised(IsConditional(outcome))
  /\ UNCHANGED <<diskVars, attached, next, imds, loaded, info, tries, launches,
                 created, lost, configured>>

(***************************************************************************)
(* _enforce_no_instance_profile_or_stop_worker                             *)
(***************************************************************************)
\* Mutant: one try too many.
OneMore(n) == n > Attempts

LastTry(n) == n = Attempts

\* the metadata service says 404, or does not answer: either ends the wait
CheckProfile ==
  /\ pc = "profile"
  /\ \/ /\ \E answers \in BOOLEAN : AllowProfile \/ ~ attached \/ ~ answers
        /\ pc' = "log" /\ tries' = 0
     \/ /\ ~ AllowProfile /\ attached
        /\ tries' = tries + 1
        /\ pc' = IF LastTry(tries') THEN "profile stays" ELSE "profile"
  /\ UNCHANGED <<diskVars, serviceVars, next, imds, fresh, loaded, info,
                 ghostVars>>

\* the attempt to stop the Worker, whatever comes of it, and the exception
ProfileStays ==
  /\ pc = "profile stays"
  /\ \E outcome \in UpdateOutcomes(Wid, "STOPPED") : Report("STOPPED", outcome)
  /\ Exit
  /\ UNCHANGED <<diskVars, attached, next, agentVars, launches, created, lost,
                 configured>>

(***************************************************************************)
(* entrypoint and _host_configuration                                      *)
(***************************************************************************)
\* a log configuration the agent does not support ends it
CheckLog ==
  /\ pc = "log"
  /\ \E log \in [driver : {"awslogs", "other"}, options : {{}, {"group", "stream"}}] :
       IF CanLog(log) THEN pc' = "host" ELSE Exit
  /\ UNCHANGED <<diskVars, serviceVars, next, agentVars, ghostVars>>

\* Mutant: the success is taken from the machine, not from the Worker.
AnyWorkerConfigured == configured # {}

AlreadyConfigured == info.hostOk

\* the script is run unless it has succeeded for this Worker
HostConfiguration ==
  /\ pc = "host"
  /\ pc' = IF ~ Script \/ AlreadyConfigured THEN "running" ELSE "script"
  /\ UNCHANGED <<diskVars, serviceVars, next, agentVars, ghostVars>>

\* _write_script_file raises, and nothing catches it
WriteScriptFails ==
  /\ pc = "script"
  /\ Exit
  /\ UNCHANGED <<diskVars, serviceVars, next, agentVars, ghostVars>>

\* _run_posix: a script that could not be started has no exit code
ExitCode(code) == IF code = None THEN -1 ELSE code

\* The script has been started, and its end sets _action_event.  No limit of
\* the agent's own is on it.  Its success is saved with the identity.
ScriptEnds ==
  /\ pc = "script"
  /\ \E code \in {0, 1, None} :
       /\ configured' = configured \union (IF code = 0 THEN {Wid} ELSE {})
       /\ IF ExitCode(code) = 0
          THEN /\ info' = [info EXCEPT !.hostOk = TRUE]
               /\ pc' = "save" /\ next' = "running"
          ELSE pc' = "host failed" /\ UNCHANGED <<info, next>>
  /\ UNCHANGED <<diskVars, serviceVars, imds, fresh, loaded, tries, launches,
                 created, lost>>

HostFailed ==
  /\ pc = "host failed"
  /\ \E outcome \in UpdateOutcomes(Wid, "STOPPED") : Report("STOPPED", outcome)
  /\ IF NoShutdown THEN Exit ELSE pc' = "shutting down"
  /\ UNCHANGED <<diskVars, attached, next, agentVars, launches, created, lost,
                 configured>>

\* Worker.run() returns, raises ServiceShutdown, or raises something else
RunEnds ==
  /\ pc = "running"
  /\ pc' \in {"stopping", "service stop", "exited"}
  /\ UNCHANGED <<diskVars, serviceVars, next, agentVars, ghostVars>>

\* _agent_shutdown: on the Worker's own initiative ...
AgentStops ==
  /\ pc = "stopping"
  /\ \E outcome \in UpdateOutcomes(Wid, "STOPPED") : Report("STOPPED", outcome)
  /\ Exit
  /\ UNCHANGED <<diskVars, attached, next, agentVars, launches, created, lost,
                 configured>>

\* ... and on the service's: from here on the agent attempts to shut the host
\* down and sends heartbeats, for ever if config.no_shutdown
ServiceStops ==
  /\ pc = "service stop"
  /\ \E outcome \in UpdateOutcomes(Wid, "STOPPING") : Report("STOPPING", outcome)
  /\ pc' = "shutting down"
  /\ UNCHANGED <<diskVars, attached, next, agentVars, launches, created, lost,
                 configured>>

HostShutsDown ==
  /\ pc = "shutting down" /\ ~ NoShutdown
  /\ pc' = "off"
  /\ Forget
  /\ UNCHANGED <<diskVars, serviceVars, ghostVars>>

(***************************************************************************)
(* The world around the agent.                                             *)
(***************************************************************************)
Off == pc \in {"off", "exited"}

\* the process manager or an operator starts the agent
Launch ==
  /\ Off /\ launches < MaxLaunches
  /\ launches' = launches + 1
  /\ pc' = "load"
  /\ Forget
  /\ UNCHANGED <<diskVars, serviceVars, created, lost, configured>>

\* the agent is killed; a Worker whose id it has not written yet is lost
Crash ==
  /\ ~ Off
  /\ pc' = "off"
  /\ lost' = lost \union (IF pc \in {"save", "write"} /\ ~ loaded /\ next = "credentials"
                          THEN {Wid} ELSE {})
  /\ Forget
  /\ UNCHANGED <<diskVars, serviceVars, launches, created, configured>>

\* Workers that are not running are marked, and may be deleted
ServiceActs(w) ==
  /\ \/ /\ Off /\ workers[w] = "STARTED"
        /\ workers' = [workers EXCEPT ![w] = "NOT_RESPONDING"]
     \/ /\ Off /\ workers[w] \in {"STOPPED", "STARTED"}
        /\ workers' = [workers EXCEPT ![w] = "NOT_COMPATIBLE"]
     \/ /\ workers[w] \in {"CREATED", "STOPPED", "NOT_RESPONDING"}
        /\ workers' = [workers EXCEPT ![w] = "deleted"]
  /\ UNCHANGED <<diskVars, attached, pc, next, agentVars, ghostVars>>

ProfileDetached ==
  /\ attached /\ attached' = FALSE
  /\ UNCHANGED <<diskVars, workers, pc, next, agentVars, ghostVars>>

\* while the agent is down, its credentials expire or their file is damaged
CredentialsSpoil(w) ==
  /\ Off /\ cached[w] = "valid"
  /\ \E damage \in {"expired", "corrupt"} : cached' = [cached EXCEPT ![w] = damage]
  /\ UNCHANGED <<file, serviceVars, pc, next, agentVars, ghostVars>>

\* A new host, a host whose file an older version wrote, or one made from the
\* image of another host, where the script has succeeded on that very disk.
Init ==
  /\ \/ file = None /\ lost = {} /\ configured = {}
     \/ \E w \in Workers, i \in {None, Elsewhere}, ok \in BOOLEAN :
          /\ file = [worker |-> w, instance |-> i, hostOk |-> ok]
          /\ lost = IF i = Elsewhere THEN {w} ELSE {}
          /\ configured = IF ok THEN {w} ELSE {}
  /\ workers = [w \in Workers |-> IF file \in Infos /\ w = file.worker
                                  THEN "STOPPED" ELSE "none"]
  /\ cached = [w \in Workers |-> "none"]
  /\ attached \in BOOLEAN
  /\ pc = "off" /\ next = "credentials"
  /\ imds = None /\ fresh = FALSE /\ loaded = FALSE /\ info = None /\ tries = 0
  /\ launches = 0 /\ created = {}

Agent ==
  \/ LoadFile \/ UseFile \/ Create \/ Save \/ Write \/ SaveFails
  \/ LoadCredentials \/ AssumeRole \/ Start \/ StopFirst
  \/ CheckProfile \/ ProfileStays \/ CheckLog \/ HostConfiguration
  \/ WriteScriptFails \/ ScriptEnds \/ HostFailed
  \/ RunEnds \/ AgentStops \/ ServiceStops

Next ==
  \/ Agent \/ HostShutsDown \/ Launch \/ Crash \/ ProfileDetached
  \/ \E w \in Workers : ServiceActs(w) \/ CredentialsSpoil(w)

Spec == Init /\ [][Next]_vars

\* The thread runs, and the service does not answer with retryable errors for
\* ever, so that every call of it ends.
FairSpec == Spec /\ WF_vars(Agent)

(***************************************************************************)
(* Properties.                                                             *)
(***************************************************************************)
TypeOK ==
  /\ file \in {None, Corrupt} \union Infos
  /\ cached \in [Workers -> {"none", "valid", "expired", "corrupt"}]
  /\ workers \in [Workers -> Statuses] /\ attached \in BOOLEAN
  /\ pc \in {"off", "load", "loaded", "create", "save", "write", "credentials",
             "assume", "start", "stop first", "profile", "profile stays", "log",
             "host", "script", "host failed", "running", "stopping", "service stop",
             "shutting down", "exited"}
  /\ next \in {"credentials", "running"}
  /\ imds \in {Here, None} /\ fresh \in BOOLEAN /\ loaded \in BOOLEAN
  /\ info \in {None} \union Infos /\ tries \in 0..Attempts
  /\ launches \in 0..MaxLaunches
  /\ created \subseteq Workers /\ lost \subseteq Workers
  /\ configured \subseteq Workers

Online == {"profile", "profile stays", "log", "host", "script", "host failed",
           "running", "stopping", "service stop", "shutting down"}

\* The agent goes online only as the Worker its state file names, so that the
\* next launch finds the same identity: the id is saved before STARTED is reported.
OnlineAsSaved ==
  pc \in Online => file \in Infos /\ file.worker = Wid

\* A Worker is created only if every Worker the host was before is gone from
\* the service, or its id could not be kept: no crash, restart or failed call
\* at any other point leaves a needless Worker behind.
NoNeedlessWorkers ==
  [][created' # created =>
       \A w \in created \union (IF file \in Infos THEN {file.worker} ELSE {}) :
         workers[w] = "deleted" \/ w \in lost]_vars

\* Jobs run only on a host on which the fleet's script has succeeded for this
\* Worker, in this launch or before, whatever crashed in between.
ConfiguredBeforeJobs ==
  pc = "running" /\ Script => Wid \in configured

\* Every launch comes to an end or to a running Worker: the recovery from a
\* Worker that was deleted is tried once, the wait for the profile is bounded.
BootstrapEnds == (pc = "load") ~> (pc \in {"running", "shutting down", "exited", "off"})
================================================================================
