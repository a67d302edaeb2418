---------------------------- MODULE Bootstrap_proofs ----------------------------
(***************************************************************************)
(* Proofs about Bootstrap, for any Workers, errors, configuration and      *)
(* number of launches.                                                     *)
(***************************************************************************)
EXTENDS Bootstrap, TLAPS

(***************************************************************************)
(* The inductive invariant.                                                *)
(***************************************************************************)
Saving == {"save", "write"}

\* the steps before the agent is some Worker
Nobody == {"off", "load", "loaded", "create", "exited"}

Known == pc \notin Nobody => info \in Infos

\* from the save on, the state file names the Worker the agent is
Kept == pc \notin Nobody \union Saving => file \in Infos /\ file.worker = Wid

Tried ==
  /\ pc \notin {"profile", "profile stays", "exited"} => tries = 0
  /\ pc = "profile" => tries < Attempts

\* the success of the script is never saved for another Worker
HostSaved ==
  /\ file \in Infos /\ file.hostOk => file.worker \in configured
  /\ info \in Infos /\ info.hostOk => info.worker \in configured
  /\ pc \in Saving /\ next = "running" => info.hostOk
  /\ ConfiguredBeforeJobs

Gone(w) == workers[w] = "deleted" \/ w \in lost

\* A state file that a crash has emptied stays so and ends every launch.
Emptied ==
  /\ file = Corrupt =>
       pc \in {"write", "off", "load", "loaded", "exited"} /\ (fresh => pc = "write")
  /\ pc = "write" => file = Corrupt

\* an identity that came with a disk image is not this host's
Foreign ==
  /\ file \in Infos /\ file.instance = Elsewhere => file.worker \in lost
  /\ info \in Infos /\ info.instance = Elsewhere => info.worker \in lost

\* the agent takes a new identity only when that of the file is of no use
FreshMeansGone ==
  /\ fresh /\ pc \in {"load", "loaded"} => file \in Infos /\ Gone(file.worker)
  /\ pc = "create" /\ file \in Infos => Gone(file.worker)
  /\ pc = "save" => IF loaded \/ next = "running"
                    THEN file \in Infos /\ file.worker = Wid
                    ELSE file \in Infos => file.worker = Wid \/ Gone(file.worker)

\* every Worker the host has created is the one it is, or gone
Accounted ==
  \A w \in created :
    \/ Gone(w)
    \/ file \in Infos /\ file.worker = w
    \/ pc \in Saving /\ info \in Infos /\ info.worker = w
    \/ file = Corrupt /\ pc # "write"

IInv ==
  /\ TypeOK /\ Known /\ Kept /\ Tried /\ HostSaved
  /\ Emptied /\ Foreign /\ FreshMeansGone /\ Accounted

(***************************************************************************)
(* What an answer to UpdateWorker tells.                                   *)
(***************************************************************************)
\* The service sets a status only of a Worker it has, and it is not found only
\* when it has been deleted.
LEMMA OutcomesTell ==
  ASSUME NEW w, NEW status, NEW outcome \in UpdateOutcomes(w, status)
  PROVE  /\ outcome \in {"ok", "lost"} => workers[w] # "deleted"
         /\ IsConditional(outcome) => workers[w] = "deleted"
<1>1. CASE outcome \in {"ok", "lost"}
  BY <1>1 DEF UpdateOutcomes, UpdateErrors, CanSet, UpdateWorker, IsConditional
<1>2. CASE outcome \notin {"ok", "lost"}
  <2>1. PICK e \in UpdateErrors(w, status) : outcome = UpdateWorker(e, status)
    BY <1>2 DEF UpdateOutcomes
  <2>2. IsConditional(outcome) => e.code = "ResourceNotFound"
    BY <2>1 DEF UpdateWorker, IsConditional
  <2>3. workers[w] # "deleted" => e.code # "ResourceNotFound"
    BY <2>1, BootstrapAssumption
    DEF UpdateErrors, BootstrapAssumption, ConflictOf
  <2> QED BY <1>2, <2>2, <2>3
<1> QED BY <1>1, <1>2

\* A report keeps the Workers that are gone, and the types.
LEMMA ReportKeeps ==
  ASSUME TypeOK, info \in Infos, NEW status \in Statuses,
         NEW outcome \in UpdateOutcomes(Wid, status), Report(status, outcome)
  PROVE  /\ workers' \in [Workers -> Statuses]
         /\ \A w \in Workers : workers[w] = "deleted" => workers'[w] = "deleted"
<1>1. Wid \in Workers
  BY DEF Wid, Infos
<1> QED
  BY <1>1, OutcomesTell DEF Report, TypeOK

\* Fields of an identity, and of one that differs in one field.
LEMMA InfoFields ==
  ASSUME NEW i \in Infos
  PROVE  /\ i.worker \in Workers /\ i.hostOk \in BOOLEAN
         /\ \A h \in {Here, None} :
              /\ [i EXCEPT !.instance = h] \in Infos
              /\ [i EXCEPT !.instance = h].worker = i.worker
              /\ [i EXCEPT !.instance = h].instance = h
              /\ [i EXCEPT !.instance = h].hostOk = i.hostOk
         /\ [i EXCEPT !.hostOk = TRUE] \in Infos
         /\ [i EXCEPT !.hostOk = TRUE].worker = i.worker
         /\ [i EXCEPT !.hostOk = TRUE].instance = i.instance
         /\ [i EXCEPT !.hostOk = TRUE].hostOk = TRUE
         /\ i # None /\ i # Corrupt
BY BootstrapAssumption DEF Infos, BootstrapAssumption

(***************************************************************************)
(* The invariant holds initially and is kept by every step.                *)
(***************************************************************************)
LEMMA InitIInv == Init => IInv
<1> SUFFICES ASSUME Init PROVE IInv
  OBVIOUS
<1> USE BootstrapAssumption DEF BootstrapAssumption
<1>1. TypeOK
  <2>1. file \in {None, Corrupt} \union Infos /\ lost \subseteq Workers
        /\ configured \subseteq Workers
    BY DEF Init, Infos
  <2>2. cached \in [Workers -> {"none", "valid", "expired", "corrupt"}]
        /\ workers \in [Workers -> Statuses]
    BY DEF Init, Statuses
  <2>3. tries \in 0..Attempts /\ launches \in 0..MaxLaunches
    BY DEF Init
  <2> QED BY <2>1, <2>2, <2>3 DEF Init, TypeOK
<1>2. Known /\ Kept /\ Tried /\ Emptied /\ FreshMeansGone /\ Accounted
  BY DEF Init, Known, Kept, Tried, Emptied, FreshMeansGone, Accounted, Nobody,
         Saving, Infos
<1>3. HostSaved /\ Foreign
  BY DEF Init, HostSaved, Foreign, Saving, Infos, ConfiguredBeforeJobs
<1> QED BY <1>1, <1>2, <1>3 DEF IInv

\* The bounds.
LEMMA Bounds ==
  /\ Attempts \in Nat /\ Attempts > 0 /\ MaxLaunches \in Nat
  /\ 0 \in 0..Attempts /\ None \notin Infos /\ Corrupt \notin Infos
  /\ None # Corrupt
BY BootstrapAssumption DEF BootstrapAssumption

\* The identity the file names.
LEMMA UseFileInfo ==
  ASSUME TypeOK, UseFile
  PROVE  \/ UNCHANGED <<info, loaded, next>> /\ pc' \in {"create", "exited"}
            /\ (pc' = "create" => \/ fresh \/ file = None
                                  \/ file \in Infos /\ file.instance = Elsewhere)
         \/ /\ loaded' /\ next' = "credentials"
            /\ ~ fresh /\ file # Corrupt
            /\ pc' = "credentials" => info' = file
            /\ pc' \in {"credentials", "save"}
            /\ file \in Infos /\ info' \in Infos
            /\ info'.worker = file.worker /\ info'.hostOk = file.hostOk
            /\ info'.instance = Elsewhere => file.instance = Elsewhere
<1>1. CASE fresh \/ file = None \/ file = Corrupt
  BY <1>1, Zenon DEF UseFile, Exit
<1>2. CASE ~ fresh /\ file \in Infos
  <2>1. CASE OtherInstance
    <3>1. file.instance \in {Here, Elsewhere, None} /\ imds \in {Here, None}
      BY <1>2 DEF Infos, TypeOK
    <3>2. file.instance = Elsewhere
      BY <2>1, <3>1 DEF OtherInstance
    <3>3. pc' = "create" /\ UNCHANGED <<info, loaded, next>>
      BY <1>2, <2>1, Bounds DEF UseFile
    <3> QED BY <1>2, <3>2, <3>3
  <2>2. CASE ~ OtherInstance
    <3>1. /\ loaded' = TRUE /\ next' = "credentials"
          /\ info' = IF file.instance = None THEN [file EXCEPT !.instance = imds]
                                             ELSE file
          /\ pc' = IF info' = file THEN "credentials" ELSE "save"
      BY <1>2, <2>2, Bounds DEF UseFile
    <3>2. imds \in {Here, None} /\ imds # Elsewhere
      BY BootstrapAssumption DEF TypeOK, BootstrapAssumption
    <3>3. info' \in Infos /\ info'.worker = file.worker
          /\ info'.hostOk = file.hostOk
          /\ (info'.instance = Elsewhere => file.instance = Elsewhere)
      <4>1. CASE file.instance = None
        BY <1>2, <3>1, <3>2, <4>1 DEF Infos
      <4>2. CASE file.instance # None
        BY <1>2, <3>1, <4>2
      <4> QED BY <4>1, <4>2
    <3> QED BY <1>2, <3>1, <3>3, Bounds
  <2> QED BY <2>1, <2>2
<1> QED BY <1>1, <1>2 DEF TypeOK

\* The identity of a new Worker.
LEMMA CreateInfo ==
  ASSUME TypeOK, Create
  PROVE  \/ /\ info' \in Infos /\ info'.instance # Elsewhere /\ ~ info'.hostOk
            /\ ~ loaded' /\ next' = "credentials" /\ pc' = "save"
            /\ created' = created \union {info'.worker} /\ lost' = lost
            /\ workers' = [workers EXCEPT ![info'.worker] = "CREATED"]
            /\ workers[info'.worker] = "none"
         \/ /\ UNCHANGED <<info, loaded, next>> /\ pc' = "exited"
            /\ \/ UNCHANGED <<created, lost, workers>>
               \/ \E w \in Workers :
                    /\ created' = created \union {w} /\ lost' = lost \union {w}
                    /\ workers' = [workers EXCEPT ![w] = "CREATED"]
                    /\ workers[w] = "none"
<1>1. CASE UNCHANGED <<workers, created, lost, info, loaded, next>> /\ Exit
  BY <1>1 DEF Exit
<1>2. ASSUME NEW w \in Workers, NEW arrives \in BOOLEAN, workers[w] = "none",
             workers' = [workers EXCEPT ![w] = "CREATED"],
             created' = created \union {w},
             IF arrives
             THEN /\ info' = [worker |-> w, instance |-> imds, hostOk |-> FALSE]
                  /\ loaded' = FALSE
                  /\ pc' = SavedFirst /\ next' = "credentials"
                  /\ UNCHANGED lost
             ELSE Exit /\ lost' = lost \union {w} /\ UNCHANGED <<info, loaded, next>>
      PROVE  \/ /\ info' \in Infos /\ info'.instance # Elsewhere /\ ~ info'.hostOk
                /\ ~ loaded' /\ next' = "credentials" /\ pc' = "save"
                /\ info'.worker = w /\ lost' = lost
             \/ /\ UNCHANGED <<info, loaded, next>> /\ pc' = "exited"
                /\ lost' = lost \union {w}
  <2>1. imds \in {Here, None} /\ imds # Elsewhere
    BY BootstrapAssumption DEF TypeOK, BootstrapAssumption
  <2>2. CASE arrives
    <3>1. info' = [worker |-> w, instance |-> imds, hostOk |-> FALSE]
          /\ loaded' = FALSE /\ pc' = "save" /\ next' = "credentials"
          /\ lost' = lost
      BY <1>2, <2>2 DEF SavedFirst
    <3> QED BY <2>1, <3>1 DEF Infos
  <2>3. CASE ~ arrives
    BY <1>2, <2>3 DEF Exit
  <2> QED BY <2>2, <2>3
<1> QED BY <1>1, <1>2, Zenon DEF Create

\* The identity once the script has ended.
LEMMA ScriptInfo ==
  ASSUME TypeOK, Known, ScriptEnds
  PROVE  \/ /\ info' \in Infos /\ info'.worker = info.worker
            /\ info'.instance = info.instance /\ info'.hostOk
            /\ configured' = configured \union {info.worker}
            /\ pc' = "save" /\ next' = "running"
         \/ /\ UNCHANGED <<info, next>> /\ pc' = "host failed"
            /\ configured' \in {configured, configured \union {info.worker}}
<1>1. info \in Infos
  BY DEF Known, Nobody, ScriptEnds
<1>2. PICK code \in {0, 1, None} :
        /\ configured' = configured \union (IF code = 0 THEN {Wid} ELSE {})
        /\ IF ExitCode(code) = 0
           THEN /\ info' = [info EXCEPT !.hostOk = TRUE]
                /\ pc' = "save" /\ next' = "running"
           ELSE pc' = "host failed" /\ UNCHANGED <<info, next>>
  BY Zenon DEF ScriptEnds
<1>3. CASE code = 0 /\ ExitCode(code) = 0
  <2>1. configured' = configured \union {info.worker}
    BY <1>2, <1>3 DEF Wid
  <2>2. info' = [info EXCEPT !.hostOk = TRUE] /\ pc' = "save" /\ next' = "running"
    BY <1>2, <1>3, Zenon
  <2> QED BY <1>1, <2>1, <2>2, InfoFields
<1>4. CASE ExitCode(code) # 0
  <2>1. configured' \in {configured, configured \union {info.worker}}
    BY <1>2 DEF Wid
  <2>2. pc' = "host failed" /\ UNCHANGED <<info, next>>
    BY <1>2, <1>4, Zenon
  <2> QED BY <2>1, <2>2
<1>5. code # 0 => ExitCode(code) # 0
  <2>1. CASE code = None
    BY <2>1, -1 # 0 DEF ExitCode
  <2>2. CASE code = 1 /\ code # None
    BY <2>2, 1 # 0 DEF ExitCode
  <2> QED BY <1>2, <2>1, <2>2, Zenon
<1> QED BY <1>3, <1>4, <1>5

\* Counting to a bound.
LEMMA NextTry ==
  ASSUME NEW n \in 0..Attempts, n < Attempts
  PROVE  n + 1 \in 0..Attempts /\ (n + 1 # Attempts => n + 1 < Attempts)
BY Bounds

LEMMA NextLaunch ==
  ASSUME NEW n \in 0..MaxLaunches, n < MaxLaunches
  PROVE  n + 1 \in 0..MaxLaunches
BY Bounds

\* The steps that report a status.
LEMMA StatusReported ==
  ASSUME IInv, \/ Start \/ StopFirst \/ ProfileStays \/ HostFailed
               \/ AgentStops \/ ServiceStops
  PROVE  /\ info \in Infos /\ Wid \in Workers
         /\ workers' \in [Workers -> Statuses]
         /\ \A w \in Workers : workers[w] = "deleted" => workers'[w] = "deleted"
<1>1. info \in Infos /\ TypeOK /\ Wid \in Workers
  BY DEF IInv, Known, Nobody, Start, StopFirst, ProfileStays, HostFailed,
         AgentStops, ServiceStops, Wid, Infos
<1>2. PICK status \in Statuses : \E outcome \in UpdateOutcomes(Wid, status) :
         Report(status, outcome)
  BY DEF Start, StopFirst, ProfileStays, HostFailed, AgentStops, ServiceStops,
         Statuses
<1> QED BY <1>1, <1>2, ReportKeeps

(***************************************************************************)
(* Every step keeps every part of the invariant.                           *)
(***************************************************************************)
\* Type correctness.
LEMMA TypeOKNext ==
  ASSUME IInv, Next
  PROVE  TypeOK'
<1> USE Bounds
<1> USE DEF IInv, TypeOK, Exit, diskVars, serviceVars, agentVars, ghostVars
<1>1. CASE LoadFile \/ LoadCredentials \/ CheckLog \/ HostConfiguration
       \/ WriteScriptFails \/ RunEnds \/ ProfileDetached
  BY <1>1 DEF LoadFile, LoadCredentials, CheckLog, HostConfiguration,
             WriteScriptFails, RunEnds, ProfileDetached, FromCache
<1>2. CASE CheckProfile
  <2>1. CASE tries' = 0 /\ pc' = "log"
    BY <1>2, <2>1 DEF CheckProfile
  <2>2. CASE /\ pc = "profile" /\ tries' = tries + 1
             /\ pc' = IF LastTry(tries') THEN "profile stays" ELSE "profile"
    <3>1. tries \in 0..Attempts /\ tries < Attempts
      BY <2>2 DEF Tried
    <3>2. tries' \in 0..Attempts
      BY <2>2, <3>1, NextTry
    <3> QED BY <1>2, <2>2, <3>2 DEF CheckProfile
  <2> QED BY <1>2, <2>1, <2>2, Zenon DEF CheckProfile
<1>3. CASE UseFile
  <2>1. UNCHANGED <<diskVars, serviceVars, imds, fresh, tries, ghostVars>>
    BY <1>3 DEF UseFile
  <2> QED BY <1>3, <2>1, UseFileInfo
<1>4. CASE Create
  <2>1. UNCHANGED <<diskVars, attached, imds, fresh, tries, launches, configured>>
    BY <1>4 DEF Create
  <2>2. created' \subseteq Workers /\ lost' \subseteq Workers
        /\ workers' \in [Workers -> Statuses]
    BY <1>4, CreateInfo DEF Infos, Statuses
  <2>3. /\ info' \in {None} \union Infos
        /\ next' \in {"credentials", "running"}
        /\ pc' \in {"save", "exited"}
    BY <1>4, CreateInfo
  <2>4. loaded' \in BOOLEAN
    BY <1>4 DEF Create
  <2> QED BY <2>1, <2>2, <2>3, <2>4
<1>5. CASE Save \/ Write
  BY <1>5 DEF Save, Write, Known, Nobody
<1>6. CASE HostShutsDown \/ Launch
  <2>1. CASE launches' = launches
    BY <1>6, <2>1 DEF HostShutsDown, Launch, Off, Forget
  <2>2. CASE launches < MaxLaunches /\ launches' = launches + 1
    <3>1. launches' \in 0..MaxLaunches
      BY <2>2, NextLaunch
    <3> QED BY <1>6, <3>1 DEF HostShutsDown, Launch, Off, Forget
  <2> QED BY <1>6, <2>1, <2>2 DEF HostShutsDown, Launch
<1>7. CASE Crash \/ SaveFails
  <2>1. pc \in {"save", "write"} => Wid \in Workers
    BY DEF Known, Nobody, Wid, Infos
  <2>2. lost' \subseteq Workers
    BY <1>7, <2>1 DEF Crash, SaveFails
  <2> QED BY <1>7, <2>2 DEF Crash, SaveFails, Forget
<1>8. CASE AssumeRole
  BY <1>8 DEF AssumeRole, Raised, WithoutLoad
<1>9. CASE Start \/ StopFirst
  BY <1>9, StatusReported DEF Start, StopFirst, Raised, WithoutLoad
<1>10. CASE ProfileStays \/ HostFailed \/ AgentStops \/ ServiceStops
  BY <1>10, StatusReported DEF ProfileStays, HostFailed, AgentStops, ServiceStops
<1>11. CASE ScriptEnds
  <2>1. UNCHANGED <<diskVars, serviceVars, imds, fresh, loaded, tries, launches,
                    created, lost>>
    BY <1>11 DEF ScriptEnds
  <2>2. info \in Infos
    BY <1>11 DEF ScriptEnds, Known, Nobody
  <2> QED BY <1>11, <2>1, <2>2, ScriptInfo DEF Infos
<1>12. CASE \E w \in Workers : ServiceActs(w) \/ CredentialsSpoil(w)
  <2>1. PICK w \in Workers : ServiceActs(w) \/ CredentialsSpoil(w)
    BY <1>12
  <2>2. CASE ServiceActs(w)
    <3>1. workers' \in [Workers -> Statuses]
      BY <2>2 DEF ServiceActs, Statuses
    <3> QED BY <2>2, <3>1 DEF ServiceActs
  <2>3. CASE CredentialsSpoil(w)
    BY <2>3 DEF CredentialsSpoil, Off
  <2> QED BY <2>1, <2>2, <2>3
<1> QED
  BY <1>1, <1>2, <1>3, <1>4, <1>5, <1>6, <1>7, <1>8, <1>9, <1>10, <1>11, <1>12
     DEF Next, Agent

\* Past the bootstrap the agent knows who it is.
LEMMA KnownNext ==
  ASSUME IInv, Next
  PROVE  Known'
<1> USE Bounds
<1> USE DEF IInv, TypeOK, Known, Nobody, Exit, diskVars, serviceVars,
            agentVars, ghostVars
<1>1. CASE LoadFile \/ LoadCredentials \/ CheckLog \/ HostConfiguration
       \/ WriteScriptFails \/ RunEnds \/ ProfileDetached
  BY <1>1 DEF LoadFile, LoadCredentials, CheckLog, HostConfiguration,
              WriteScriptFails, RunEnds, ProfileDetached, AlreadyConfigured
<1>2. CASE CheckProfile
  BY <1>2 DEF CheckProfile
<1>3. CASE UseFile
  <2>1. pc = "loaded"
        /\ UNCHANGED <<diskVars, serviceVars, imds, fresh, tries, ghostVars>>
    BY <1>3 DEF UseFile
  <2> QED BY <1>3, <2>1, UseFileInfo
<1>4. CASE Create
  <2>1. pc = "create"
        /\ UNCHANGED <<diskVars, attached, imds, fresh, tries, launches, configured>>
    BY <1>4 DEF Create
  <2> QED BY <1>4, <2>1, CreateInfo DEF Statuses, Infos
<1>5. CASE Save
  BY <1>5 DEF Save
<1>6. CASE Write
  BY <1>6 DEF Write
<1>7. CASE HostShutsDown \/ Launch \/ Crash \/ SaveFails
  BY <1>7 DEF HostShutsDown, Launch, Crash, SaveFails, Off, Forget
<1>8. CASE AssumeRole
  BY <1>8 DEF AssumeRole, Raised, WithoutLoad
<1>9. CASE Start \/ StopFirst
  BY <1>9, StatusReported, OutcomesTell DEF Start, StopFirst, Raised, WithoutLoad
<1>10. CASE ProfileStays \/ HostFailed \/ AgentStops \/ ServiceStops
  BY <1>10, StatusReported DEF ProfileStays, HostFailed, AgentStops, ServiceStops
<1>11. CASE ScriptEnds
  <2>1. pc = "script"
        /\ UNCHANGED <<diskVars, serviceVars, imds, fresh, loaded, tries, launches,
                       created, lost>>
    BY <1>11 DEF ScriptEnds
  <2> QED BY <1>11, <2>1, ScriptInfo DEF Infos
<1>12. CASE \E w \in Workers : ServiceActs(w) \/ CredentialsSpoil(w)
  <2>1. PICK w \in Workers : ServiceActs(w) \/ CredentialsSpoil(w)
    BY <1>12
  <2>2. CASE ServiceActs(w)
    BY <2>2 DEF ServiceActs
  <2>3. CASE CredentialsSpoil(w)
    BY <2>3 DEF CredentialsSpoil
  <2> QED BY <2>1, <2>2, <2>3
<1> QED
  BY <1>1, <1>2, <1>3, <1>4, <1>5, <1>6, <1>7, <1>8, <1>9, <1>10, <1>11, <1>12
     DEF Next, Agent

\* A save ends with the file naming the Worker the agent is.
LEMMA KeptNext ==
  ASSUME IInv, Next
  PROVE  Kept'
<1> USE Bounds
<1> USE DEF IInv, TypeOK, Known, Kept, FreshMeansGone, Nobody, Saving, Wid,
            Exit, diskVars, serviceVars, agentVars, ghostVars
<1>1. CASE LoadFile \/ LoadCredentials \/ CheckLog \/ HostConfiguration
       \/ WriteScriptFails \/ RunEnds \/ ProfileDetached
  BY <1>1 DEF LoadFile, LoadCredentials, CheckLog, HostConfiguration,
              WriteScriptFails, RunEnds, ProfileDetached, AlreadyConfigured
<1>2. CASE CheckProfile
  BY <1>2 DEF CheckProfile
<1>3. CASE UseFile
  <2>1. pc = "loaded"
        /\ UNCHANGED <<diskVars, serviceVars, imds, fresh, tries, ghostVars>>
    BY <1>3 DEF UseFile
  <2> QED BY <1>3, <2>1, UseFileInfo
<1>4. CASE Create
  <2>1. pc = "create"
        /\ UNCHANGED <<diskVars, attached, imds, fresh, tries, launches, configured>>
    BY <1>4 DEF Create
  <2> QED BY <1>4, <2>1, CreateInfo DEF Statuses, Infos
<1>5. CASE Save
  BY <1>5 DEF Save
<1>6. CASE Write
  BY <1>6 DEF Write
<1>7. CASE HostShutsDown \/ Launch \/ Crash \/ SaveFails
  BY <1>7 DEF HostShutsDown, Launch, Crash, SaveFails, Off, Forget
<1>8. CASE AssumeRole
  BY <1>8 DEF AssumeRole, Raised, WithoutLoad
<1>9. CASE Start \/ StopFirst
  BY <1>9, StatusReported, OutcomesTell DEF Start, StopFirst, Raised, WithoutLoad
<1>10. CASE ProfileStays \/ HostFailed \/ AgentStops \/ ServiceStops
  BY <1>10, StatusReported DEF ProfileStays, HostFailed, AgentStops, ServiceStops
<1>11. CASE ScriptEnds
  <2>1. pc = "script"
        /\ UNCHANGED <<diskVars, serviceVars, imds, fresh, loaded, tries, launches,
                       created, lost>>
    BY <1>11 DEF ScriptEnds
  <2> QED BY <1>11, <2>1, ScriptInfo DEF Infos
<1>12. CASE \E w \in Workers : ServiceActs(w) \/ CredentialsSpoil(w)
  <2>1. PICK w \in Workers : ServiceActs(w) \/ CredentialsSpoil(w)
    BY <1>12
  <2>2. CASE ServiceActs(w)
    BY <2>2 DEF ServiceActs
  <2>3. CASE CredentialsSpoil(w)
    BY <2>3 DEF CredentialsSpoil
  <2> QED BY <2>1, <2>2, <2>3
<1> QED
  BY <1>1, <1>2, <1>3, <1>4, <1>5, <1>6, <1>7, <1>8, <1>9, <1>10, <1>11, <1>12
     DEF Next, Agent

\* The tries are counted from zero in every launch.
LEMMA TriedNext ==
  ASSUME IInv, Next
  PROVE  Tried'
<1> USE Bounds
<1> USE DEF IInv, TypeOK, Tried, Exit, diskVars, serviceVars, agentVars,
            ghostVars
<1>1. CASE LoadFile \/ LoadCredentials \/ CheckLog \/ HostConfiguration
       \/ WriteScriptFails \/ RunEnds \/ ProfileDetached
  BY <1>1 DEF LoadFile, LoadCredentials, CheckLog, HostConfiguration,
              WriteScriptFails, RunEnds, ProfileDetached, AlreadyConfigured
<1>2. CASE CheckProfile
  <2>1. CASE tries' = 0 /\ pc' = "log"
    BY <2>1
  <2>2. CASE /\ pc = "profile" /\ tries' = tries + 1
             /\ pc' = IF LastTry(tries') THEN "profile stays" ELSE "profile"
    <3>1. tries \in 0..Attempts /\ tries < Attempts
      BY <2>2
    <3> QED BY <2>2, <3>1, NextTry DEF LastTry
  <2> QED BY <1>2, <2>1, <2>2, Zenon DEF CheckProfile
<1>3. CASE UseFile
  <2>1. pc = "loaded"
        /\ UNCHANGED <<diskVars, serviceVars, imds, fresh, tries, ghostVars>>
    BY <1>3 DEF UseFile
  <2> QED BY <1>3, <2>1, UseFileInfo
<1>4. CASE Create
  <2>1. pc = "create"
        /\ UNCHANGED <<diskVars, attached, imds, fresh, tries, launches, configured>>
    BY <1>4 DEF Create
  <2> QED BY <1>4, <2>1, CreateInfo DEF Statuses, Infos
<1>5. CASE Save
  BY <1>5 DEF Save
<1>6. CASE Write
  BY <1>6 DEF Write
<1>7. CASE HostShutsDown \/ Launch \/ Crash \/ SaveFails
  BY <1>7 DEF HostShutsDown, Launch, Crash, SaveFails, Off, Forget
<1>8. CASE AssumeRole
  BY <1>8 DEF AssumeRole, Raised, WithoutLoad
<1>9. CASE Start \/ StopFirst
  BY <1>9, StatusReported, OutcomesTell DEF Start, StopFirst, Raised, WithoutLoad
<1>10. CASE ProfileStays \/ HostFailed \/ AgentStops \/ ServiceStops
  BY <1>10, StatusReported DEF ProfileStays, HostFailed, AgentStops, ServiceStops
<1>11. CASE ScriptEnds
  <2>1. pc = "script"
        /\ UNCHANGED <<diskVars, serviceVars, imds, fresh, loaded, tries, launches,
                       created, lost>>
    BY <1>11 DEF ScriptEnds
  <2> QED BY <1>11, <2>1, ScriptInfo DEF Infos
<1>12. CASE \E w \in Workers : ServiceActs(w) \/ CredentialsSpoil(w)
  <2>1. PICK w \in Workers : ServiceActs(w) \/ CredentialsSpoil(w)
    BY <1>12
  <2>2. CASE ServiceActs(w)
    BY <2>2 DEF ServiceActs
  <2>3. CASE CredentialsSpoil(w)
    BY <2>3 DEF CredentialsSpoil
  <2> QED BY <2>1, <2>2, <2>3
<1> QED
  BY <1>1, <1>2, <1>3, <1>4, <1>5, <1>6, <1>7, <1>8, <1>9, <1>10, <1>11, <1>12
     DEF Next, Agent

\* The success of the script stays with the Worker it ran for.
LEMMA HostSavedNext ==
  ASSUME IInv, Next
  PROVE  HostSaved'
<1> USE Bounds
<1> USE DEF IInv, TypeOK, Known, Kept, HostSaved, ConfiguredBeforeJobs,
            Nobody, Saving, Wid, Exit, diskVars, serviceVars, agentVars,
            ghostVars
<1>1. CASE LoadFile \/ LoadCredentials \/ CheckLog \/ HostConfiguration
       \/ WriteScriptFails \/ RunEnds \/ ProfileDetached
  BY <1>1 DEF LoadFile, LoadCredentials, CheckLog, HostConfiguration,
              WriteScriptFails, RunEnds, ProfileDetached, AlreadyConfigured
<1>2. CASE CheckProfile
  BY <1>2 DEF CheckProfile
<1>3. CASE UseFile
  <2>1. pc = "loaded"
        /\ UNCHANGED <<diskVars, serviceVars, imds, fresh, tries, ghostVars>>
    BY <1>3 DEF UseFile
  <2> QED BY <1>3, <2>1, UseFileInfo
<1>4. CASE Create
  <2>1. pc = "create"
        /\ UNCHANGED <<diskVars, attached, imds, fresh, tries, launches, configured>>
    BY <1>4 DEF Create
  <2> QED BY <1>4, <2>1, CreateInfo DEF Statuses, Infos
<1>5. CASE Save
  BY <1>5 DEF Save
<1>6. CASE Write
  BY <1>6 DEF Write
<1>7. CASE HostShutsDown \/ Launch \/ Crash \/ SaveFails
  BY <1>7 DEF HostShutsDown, Launch, Crash, SaveFails, Off, Forget
<1>8. CASE AssumeRole
  BY <1>8 DEF AssumeRole, Raised, WithoutLoad
<1>9. CASE Start \/ StopFirst
  BY <1>9, StatusReported, OutcomesTell DEF Start, StopFirst, Raised, WithoutLoad
<1>10. CASE ProfileStays \/ HostFailed \/ AgentStops \/ ServiceStops
  BY <1>10, StatusReported DEF ProfileStays, HostFailed, AgentStops, ServiceStops
<1>11. CASE ScriptEnds
  <2>1. pc = "script"
        /\ UNCHANGED <<diskVars, serviceVars, imds, fresh, loaded, tries, launches,
                       created, lost>>
    BY <1>11 DEF ScriptEnds
  <2> QED BY <1>11, <2>1, ScriptInfo DEF Infos
<1>12. CASE \E w \in Workers : ServiceActs(w) \/ CredentialsSpoil(w)
  <2>1. PICK w \in Workers : ServiceActs(w) \/ CredentialsSpoil(w)
    BY <1>12
  <2>2. CASE ServiceActs(w)
    BY <2>2 DEF ServiceActs
  <2>3. CASE CredentialsSpoil(w)
    BY <2>3 DEF CredentialsSpoil
  <2> QED BY <2>1, <2>2, <2>3
<1> QED
  BY <1>1, <1>2, <1>3, <1>4, <1>5, <1>6, <1>7, <1>8, <1>9, <1>10, <1>11, <1>12
     DEF Next, Agent

\* Only a save empties the file, and only a launch reads it.
LEMMA EmptiedNext ==
  ASSUME IInv, Next
  PROVE  Emptied'
<1> USE Bounds
<1> USE DEF IInv, TypeOK, Known, Kept, Emptied, FreshMeansGone, Nobody,
            Saving, Wid, Exit, diskVars, serviceVars, agentVars, ghostVars
<1>1. CASE LoadFile
  BY <1>1 DEF LoadFile
<1>2. CASE LoadCredentials
  BY <1>2 DEF LoadCredentials
<1>3. CASE CheckLog
  BY <1>3 DEF CheckLog
<1>4. CASE HostConfiguration
  BY <1>4 DEF HostConfiguration
<1>5. CASE WriteScriptFails
  BY <1>5 DEF WriteScriptFails
<1>6. CASE RunEnds
  BY <1>6 DEF RunEnds
<1>7. CASE ProfileDetached
  BY <1>7 DEF ProfileDetached
<1>8. CASE CheckProfile
  BY <1>8 DEF CheckProfile
<1>9. CASE UseFile
  <2>1. pc = "loaded"
        /\ UNCHANGED <<diskVars, serviceVars, imds, fresh, tries, ghostVars>>
    BY <1>9 DEF UseFile
  <2> QED BY <1>9, <2>1, UseFileInfo
<1>10. CASE Create
  <2>1. pc = "create"
        /\ UNCHANGED <<diskVars, attached, imds, fresh, tries, launches, configured>>
    BY <1>10 DEF Create
  <2> QED BY <1>10, <2>1, CreateInfo DEF Statuses, Infos
<1>11. CASE Save
  BY <1>11 DEF Save
<1>12. CASE Write
  BY <1>12 DEF Write
<1>13. CASE HostShutsDown \/ Launch \/ Crash \/ SaveFails
  BY <1>13 DEF HostShutsDown, Launch, Crash, SaveFails, Off, Forget
<1>14. CASE AssumeRole
  BY <1>14 DEF AssumeRole, Raised, WithoutLoad
<1>15. CASE Start \/ StopFirst
  BY <1>15, StatusReported, OutcomesTell DEF Start, StopFirst, Raised, WithoutLoad
<1>16. CASE ProfileStays \/ HostFailed \/ AgentStops \/ ServiceStops
  BY <1>16, StatusReported DEF ProfileStays, HostFailed, AgentStops, ServiceStops
<1>17. CASE ScriptEnds
  <2>1. pc = "script"
        /\ UNCHANGED <<diskVars, serviceVars, imds, fresh, loaded, tries, launches,
                       created, lost>>
    BY <1>17 DEF ScriptEnds
  <2> QED BY <1>17, <2>1, ScriptInfo DEF Infos
<1>18. CASE \E w \in Workers : ServiceActs(w) \/ CredentialsSpoil(w)
  <2>1. PICK w \in Workers : ServiceActs(w) \/ CredentialsSpoil(w)
    BY <1>18
  <2>2. CASE ServiceActs(w)
    BY <2>2 DEF ServiceActs
  <2>3. CASE CredentialsSpoil(w)
    BY <2>3 DEF CredentialsSpoil
  <2> QED BY <2>1, <2>2, <2>3
<1> QED
  BY <1>1, <1>2, <1>3, <1>4, <1>5, <1>6, <1>7, <1>8, <1>9, <1>10, <1>11,
     <1>12, <1>13, <1>14, <1>15, <1>16, <1>17, <1>18
     DEF Next, Agent

\* The origin of an identity is kept with it.
LEMMA ForeignNext ==
  ASSUME IInv, Next
  PROVE  Foreign'
<1> USE Bounds
<1> USE DEF IInv, TypeOK, Known, Kept, Foreign, Nobody, Saving, Wid, Exit,
            diskVars, serviceVars, agentVars, ghostVars
<1>1. CASE LoadFile \/ LoadCredentials \/ CheckLog \/ HostConfiguration
       \/ WriteScriptFails \/ RunEnds \/ ProfileDetached
  BY <1>1 DEF LoadFile, LoadCredentials, CheckLog, HostConfiguration,
              WriteScriptFails, RunEnds, ProfileDetached, AlreadyConfigured
<1>2. CASE CheckProfile
  BY <1>2 DEF CheckProfile
<1>3. CASE UseFile
  <2>1. pc = "loaded"
        /\ UNCHANGED <<diskVars, serviceVars, imds, fresh, tries, ghostVars>>
    BY <1>3 DEF UseFile
  <2> QED BY <1>3, <2>1, UseFileInfo
<1>4. CASE Create
  <2>1. pc = "create"
        /\ UNCHANGED <<diskVars, attached, imds, fresh, tries, launches, configured>>
    BY <1>4 DEF Create
  <2> QED BY <1>4, <2>1, CreateInfo DEF Statuses, Infos
<1>5. CASE Save
  BY <1>5 DEF Save
<1>6. CASE Write
  BY <1>6 DEF Write
<1>7. CASE HostShutsDown \/ Launch \/ Crash \/ SaveFails
  BY <1>7 DEF HostShutsDown, Launch, Crash, SaveFails, Off, Forget
<1>8. CASE AssumeRole
  BY <1>8 DEF AssumeRole, Raised, WithoutLoad
<1>9. CASE Start \/ StopFirst
  BY <1>9, StatusReported, OutcomesTell DEF Start, StopFirst, Raised, WithoutLoad
<1>10. CASE ProfileStays \/ HostFailed \/ AgentStops \/ ServiceStops
  BY <1>10, StatusReported DEF ProfileStays, HostFailed, AgentStops, ServiceStops
<1>11. CASE ScriptEnds
  <2>1. pc = "script"
        /\ UNCHANGED <<diskVars, serviceVars, imds, fresh, loaded, tries, launches,
                       created, lost>>
    BY <1>11 DEF ScriptEnds
  <2> QED BY <1>11, <2>1, ScriptInfo DEF Infos
<1>12. CASE \E w \in Workers : ServiceActs(w) \/ CredentialsSpoil(w)
  <2>1. PICK w \in Workers : ServiceActs(w) \/ CredentialsSpoil(w)
    BY <1>12
  <2>2. CASE ServiceActs(w)
    BY <2>2 DEF ServiceActs
  <2>3. CASE CredentialsSpoil(w)
    BY <2>3 DEF CredentialsSpoil
  <2> QED BY <2>1, <2>2, <2>3
<1> QED
  BY <1>1, <1>2, <1>3, <1>4, <1>5, <1>6, <1>7, <1>8, <1>9, <1>10, <1>11, <1>12
     DEF Next, Agent

\* A new identity is for an agent whose old one is gone.
LEMMA FreshMeansGoneNext ==
  ASSUME IInv, Next
  PROVE  FreshMeansGone'
<1> USE Bounds
<1> USE DEF IInv, TypeOK, Known, Kept, Foreign, Emptied, FreshMeansGone,
            Nobody, Saving, Gone, Wid, Exit, diskVars, serviceVars, agentVars,
            ghostVars
<1>1. CASE LoadFile
  BY <1>1 DEF LoadFile
<1>2. CASE LoadCredentials
  BY <1>2 DEF LoadCredentials
<1>3. CASE CheckLog
  BY <1>3 DEF CheckLog
<1>4. CASE HostConfiguration
  BY <1>4 DEF HostConfiguration
<1>5. CASE WriteScriptFails
  BY <1>5 DEF WriteScriptFails
<1>6. CASE RunEnds
  BY <1>6 DEF RunEnds
<1>7. CASE ProfileDetached
  BY <1>7 DEF ProfileDetached
<1>8. CASE CheckProfile
  BY <1>8 DEF CheckProfile
<1>9. CASE UseFile
  <2>1. pc = "loaded"
        /\ UNCHANGED <<diskVars, serviceVars, imds, fresh, tries, ghostVars>>
    BY <1>9 DEF UseFile
  <2> QED BY <1>9, <2>1, UseFileInfo
<1>10. CASE Create
  <2>1. pc = "create"
        /\ UNCHANGED <<diskVars, attached, imds, fresh, tries, launches, configured>>
    BY <1>10 DEF Create
  <2> QED BY <1>10, <2>1, CreateInfo DEF Statuses, Infos
<1>11. CASE Save
  BY <1>11 DEF Save
<1>12. CASE Write
  BY <1>12 DEF Write
<1>13. CASE HostShutsDown \/ Launch \/ Crash \/ SaveFails
  BY <1>13 DEF HostShutsDown, Launch, Crash, SaveFails, Off, Forget
<1>14. CASE AssumeRole
  BY <1>14 DEF AssumeRole, Raised, WithoutLoad
<1>15. CASE Start \/ StopFirst
  BY <1>15, StatusReported, OutcomesTell DEF Start, StopFirst, Raised, WithoutLoad
<1>16. CASE ProfileStays \/ HostFailed \/ AgentStops \/ ServiceStops
  BY <1>16, StatusReported DEF ProfileStays, HostFailed, AgentStops, ServiceStops
<1>17. CASE ScriptEnds
  <2>1. pc = "script"
        /\ UNCHANGED <<diskVars, serviceVars, imds, fresh, loaded, tries, launches,
                       created, lost>>
    BY <1>17 DEF ScriptEnds
  <2> QED BY <1>17, <2>1, ScriptInfo DEF Infos
<1>18. CASE \E w \in Workers : ServiceActs(w) \/ CredentialsSpoil(w)
  <2>1. PICK w \in Workers : ServiceActs(w) \/ CredentialsSpoil(w)
    BY <1>18
  <2>2. CASE ServiceActs(w)
    <3>1. \A v \in Workers : Gone(v) => Gone(v)'
      BY <2>2 DEF ServiceActs, Gone
    <3>2. file \in Infos => file.worker \in Workers
      BY DEF Infos
    <3> QED BY <2>2, <3>1, <3>2 DEF ServiceActs
  <2>3. CASE CredentialsSpoil(w)
    BY <2>3 DEF CredentialsSpoil
  <2> QED BY <2>1, <2>2, <2>3
<1> QED
  BY <1>1, <1>2, <1>3, <1>4, <1>5, <1>6, <1>7, <1>8, <1>9, <1>10, <1>11,
     <1>12, <1>13, <1>14, <1>15, <1>16, <1>17, <1>18
     DEF Next, Agent

\* No step loses track of a Worker.
LEMMA AccountedNext ==
  ASSUME IInv, Next
  PROVE  Accounted'
<1> USE Bounds
<1> USE DEF IInv, TypeOK, Known, Kept, Emptied, FreshMeansGone, Accounted,
            Nobody, Saving, Gone, Wid, Exit, diskVars, serviceVars, agentVars,
            ghostVars
<1>1. CASE LoadFile \/ LoadCredentials \/ CheckLog \/ HostConfiguration
       \/ WriteScriptFails \/ RunEnds \/ ProfileDetached
  BY <1>1 DEF LoadFile, LoadCredentials, CheckLog, HostConfiguration,
              WriteScriptFails, RunEnds, ProfileDetached, AlreadyConfigured
<1>2. CASE CheckProfile
  BY <1>2 DEF CheckProfile
<1>3. CASE UseFile
  <2>1. pc = "loaded"
        /\ UNCHANGED <<diskVars, serviceVars, imds, fresh, tries, ghostVars>>
    BY <1>3 DEF UseFile
  <2> QED BY <1>3, <2>1, UseFileInfo
<1>4. CASE Create
  <2>1. pc = "create"
        /\ UNCHANGED <<diskVars, attached, imds, fresh, tries, launches, configured>>
    BY <1>4 DEF Create
  <2> QED BY <1>4, <2>1, CreateInfo DEF Statuses, Infos
<1>5. CASE Save
  BY <1>5 DEF Save
<1>6. CASE Write
  BY <1>6 DEF Write
<1>7. CASE HostShutsDown \/ Launch \/ Crash \/ SaveFails
  BY <1>7 DEF HostShutsDown, Launch, Crash, SaveFails, Off, Forget
<1>8. CASE AssumeRole
  BY <1>8 DEF AssumeRole, Raised, WithoutLoad
<1>9. CASE Start \/ StopFirst
  BY <1>9, StatusReported, OutcomesTell DEF Start, StopFirst, Raised, WithoutLoad
<1>10. CASE ProfileStays \/ HostFailed \/ AgentStops \/ ServiceStops
  BY <1>10, StatusReported DEF ProfileStays, HostFailed, AgentStops, ServiceStops
<1>11. CASE ScriptEnds
  <2>1. pc = "script"
        /\ UNCHANGED <<diskVars, serviceVars, imds, fresh, loaded, tries, launches,
                       created, lost>>
    BY <1>11 DEF ScriptEnds
  <2> QED BY <1>11, <2>1, ScriptInfo DEF Infos
<1>12. CASE \E w \in Workers : ServiceActs(w) \/ CredentialsSpoil(w)
  <2>1. PICK w \in Workers : ServiceActs(w) \/ CredentialsSpoil(w)
    BY <1>12
  <2>2. CASE ServiceActs(w)
    <3>1. \A v \in Workers : Gone(v) => Gone(v)'
      BY <2>2 DEF ServiceActs, Gone
    <3>2. file \in Infos => file.worker \in Workers
      BY DEF Infos
    <3> QED BY <2>2, <3>1, <3>2 DEF ServiceActs
  <2>3. CASE CredentialsSpoil(w)
    BY <2>3 DEF CredentialsSpoil
  <2> QED BY <2>1, <2>2, <2>3
<1> QED
  BY <1>1, <1>2, <1>3, <1>4, <1>5, <1>6, <1>7, <1>8, <1>9, <1>10, <1>11, <1>12
     DEF Next, Agent

LEMMA NextIInv == IInv /\ [Next]_vars => IInv'
<1> SUFFICES ASSUME IInv, [Next]_vars PROVE IInv'
  OBVIOUS
<1>1. CASE Next
  BY <1>1, TypeOKNext, KnownNext, KeptNext, TriedNext, HostSavedNext,
     EmptiedNext, ForeignNext, FreshMeansGoneNext, AccountedNext DEF IInv
<1>2. CASE UNCHANGED vars
  <2> USE <1>2 DEF vars, diskVars, serviceVars, agentVars, ghostVars, IInv
  <2>1. TypeOK'
    BY DEF TypeOK
  <2>2. Known' /\ Kept' /\ Tried' /\ Emptied' /\ Foreign'
    BY DEF Known, Kept, Tried, Emptied, Foreign, Nobody, Saving, Wid
  <2>3. HostSaved'
    BY DEF HostSaved, ConfiguredBeforeJobs, Saving, Wid
  <2>4. FreshMeansGone' /\ Accounted'
    BY DEF FreshMeansGone, Accounted, Gone, Saving, Wid
  <2> QED BY <2>1, <2>2, <2>3, <2>4
<1> QED BY <1>1, <1>2

THEOREM Invariant == Spec => []IInv
<1>1. Init => IInv
  BY InitIInv
<1>2. IInv /\ [Next]_vars => IInv'
  BY NextIInv
<1> QED BY <1>1, <1>2, PTL DEF Spec

(***************************************************************************)
(* The theorems.                                                           *)
(***************************************************************************)
\* Every variable keeps its type, whatever crashes, fails or is lost: the agent
\* is never online without an identity, and never counts past its bounds.
THEOREM TypeCorrect == Spec => []TypeOK
<1>1. IInv => TypeOK
  BY DEF IInv
<1> QED BY <1>1, Invariant, PTL

\* Whatever failed before, the agent reports STARTED and works only as the
\* Worker its state file names (entrypoint.py and bootstrap.py).
THEOREM OnlineIsSaved == Spec => []OnlineAsSaved
<1>1. IInv => OnlineAsSaved
  BY DEF IInv, Kept, OnlineAsSaved, Online, Nobody, Saving
<1> QED BY <1>1, Invariant, PTL

\* No job runs on a host on which the fleet's script has not succeeded for this
\* very Worker (_host_configuration, entrypoint.py).
THEOREM ConfiguredFirst == Spec => []ConfiguredBeforeJobs
<1>1. IInv => ConfiguredBeforeJobs
  BY DEF IInv, HostSaved
<1> QED BY <1>1, Invariant, PTL

\* Through any number of launches and crashes a Worker is created only when all
\* those the host was before are gone (_load_or_create_worker, bootstrap.py).
THEOREM WorkersNeeded == Spec => NoNeedlessWorkers
<1>1. IInv /\ [Next]_vars =>
        [created' # created =>
           \A w \in created \union (IF file \in Infos THEN {file.worker} ELSE {}) :
             workers[w] = "deleted" \/ w \in lost]_vars
  <2> SUFFICES ASSUME IInv, Next, created' # created,
                      NEW w \in created \union
                                (IF file \in Infos THEN {file.worker} ELSE {})
               PROVE  Gone(w)
    BY DEF vars, ghostVars, Gone
  <2>1. Create
    BY DEF Next, Agent, LoadFile, UseFile, Save, Write, SaveFails, LoadCredentials,
           AssumeRole, Start, StopFirst, CheckProfile, ProfileStays, CheckLog,
           HostConfiguration, WriteScriptFails, ScriptEnds, HostFailed, RunEnds,
           AgentStops, ServiceStops, HostShutsDown, Launch, Crash,
           ProfileDetached, ServiceActs, CredentialsSpoil, ghostVars
  <2>2. pc = "create"
    BY <2>1 DEF Create
  <2> QED BY <2>2 DEF IInv, Accounted, FreshMeansGone, Emptied, Saving
<1> QED BY <1>1, Invariant, PTL DEF Spec, NoNeedlessWorkers
================================================================================
