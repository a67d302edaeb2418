-------------------------- MODULE SessionSetup_proofs --------------------------
(***************************************************************************)
(* Proofs about SessionSetup: its type invariant and its safety            *)
(* properties.                                                             *)
(***************************************************************************)
EXTENDS SessionSetup, FiniteSetTheorems, TLAPS

(***************************************************************************)
(* The inductive invariant.                                                *)
(***************************************************************************)

\* A Session whose thread is yet to work is known to the scheduler, or was told
\* to stop; one that works is known, and so is its user.
KnownThreads ==
  /\ \A s \in Sessions :
       /\ thread[s] \in {"submitted", "warming", "working"} =>
            s \in entries \/ s = at \/ s \in stop
       /\ thread[s] = "working" => s \in entries \/ s = at
  /\ \A s \in entries : UserOf[s] # None => s \in users[UserOf[s]]
  /\ NoStrayKill

\* Where a Session is: the service assigns it once, and a response is as new as
\* the entries it is compared with.
Places ==
  /\ at # None => pc = "create" /\ at \in response
  /\ given # None => at # None
  /\ entries \union response \subseteq assigned \union past
  /\ assigned \intersect past = {}
  /\ pc # "idle" => entries \intersect assigned \subseteq response

\* Credentials are made once per Session, while it is new.
MadeOnce ==
  \A s \in Sessions :
    /\ objects[s].made => /\ role[s] # None /\ s \in assigned \union past
                          /\ s \in entries \/ s = at \/ s \notin assigned \union response
    /\ ~ objects[s].made => objects[s] = NoObject

\* Whoever has credentials has those of its queue and role.
OwnKeys ==
  /\ \A k \in Keys : map[k] # None => objects[map[k]].made /\ Key(map[k]) = k
  /\ given # None => objects[given].made /\ Key(given) = Key(at)
  /\ \A s \in Sessions : creds[s] # None =>
       objects[creds[s]].made /\ Key(creds[s]) = Key(s)

\* The Sessions in the refresher of o
Within(o) == {s \in Sessions : /\ thread[s] \in {"warming", "working", "ran"}
                               /\ creds[s] = o}

Counted == \A o \in Sessions : objects[o].ref.inside = Cardinality(Within(o))

\* A refresher somebody is in will fire or refreshes, and a refresh that has
\* ended with a callback due is over only after it; credentials that were never
\* made have none that failed.
Kept(o) ==
  /\ objects[o].ref.inside # 0 /\ Key(o) \notin FailedKeys =>
       objects[o].ref.timer \/ objects[o].ref.refreshing \/ o \in broken
  /\ objects[o].out # None => /\ objects[o].ref.refreshing
                              /\ objects[o].calls # <<>> \/ Key(o) \in FailedKeys
  /\ \A f \in failed : f.of = o => objects[o].made

Refreshing == \A o \in Sessions : Kept(o)

\* The scheduler hands out what the Sessions use.
Managed ==
  mode = "run" =>
    /\ given # None /\ Key(at) \notin FailedKeys => map[Key(at)] = given
    /\ \A s \in Sessions \ stop :
         /\ thread[s] \in {"submitted", "warming", "working"}
         /\ creds[s] # None /\ Key(s) \notin FailedKeys
         => map[Key(s)] = creds[s]

IInv == /\ TypeOK /\ KnownThreads /\ Places /\ MadeOnce /\ OwnKeys /\ Counted
        /\ Refreshing /\ Managed

(***************************************************************************)
(* The refresher's operators.                                              *)
(***************************************************************************)

\* Entering sets the timer if nobody was within.
LEMMA EnteredRefresher ==
  ASSUME NEW r \in Refreshers, r.inside + 1 \in 0..MaxInside
  PROVE  /\ Entered(r) \in Refreshers
         /\ Entered(r).inside = r.inside + 1
         /\ Entered(r).refreshing = r.refreshing
         /\ r.inside = 0 => Entered(r).timer
         /\ r.inside # 0 => Entered(r).timer = r.timer
<1>1. CASE r.inside = 0
  <2>1. Entered(r) = [[r EXCEPT !.inside = r.inside + 1] EXCEPT !.timer = TRUE]
    BY <1>1 DEF Entered, SetTimer
  <2> QED BY <1>1, <2>1 DEF Refreshers
<1>2. CASE r.inside # 0
  <2>1. Entered(r) = [r EXCEPT !.inside = r.inside + 1]
    BY <1>2 DEF Entered
  <2> QED BY <1>2, <2>1 DEF Refreshers
<1> QED BY <1>1, <1>2

\* Leaving cancels the timer if nobody else is within.
LEMMA LeftRefresher ==
  ASSUME NEW r \in Refreshers, r.inside # 0
  PROVE  /\ Left(r) \in Refreshers
         /\ Left(r).inside = r.inside - 1
         /\ Left(r).refreshing = r.refreshing
         /\ r.inside # 1 => Left(r).timer = r.timer
<1>1. r.inside - 1 \in 0..MaxInside
  BY MaxInsideAssumption DEF Refreshers
<1>2. CASE r.inside = 1
  <2>1. (r.timer /\ r.inside # 1) = FALSE
    BY <1>2
  <2>2. Left(r) = [r EXCEPT !.inside = r.inside - 1, !.timer = FALSE]
    BY <2>1, Zenon DEF Left
  <2> QED BY <1>1, <1>2, <2>2 DEF Refreshers
<1>3. CASE r.inside # 1
  <2>1. (r.timer /\ r.inside # 1) = r.timer
    BY <1>3 DEF Refreshers
  <2>2. Left(r) = [r EXCEPT !.inside = r.inside - 1, !.timer = r.timer]
    BY <2>1, Zenon DEF Left
  <2> QED BY <1>1, <1>3, <2>2 DEF Refreshers
<1> QED BY <1>2, <1>3

\* The timer is set again after a refresh that calls nobody back, unless that
\* was interrupted or broke.
LEMMA RefreshedRefresher ==
  ASSUME NEW r \in Refreshers, NEW o \in Outcomes, NEW v \in Validities
  PROVE  /\ Refreshed(r, o, v) \in Refreshers
         /\ Refreshed(r, o, v).inside = r.inside
         /\ Callbacks(o, v) = <<>> /\ o \notin {"Interrupted", "unknown"} =>
              Refreshed(r, o, v).timer
<1>1. Refreshed(r, o, v) \in Refreshers
  BY DEF Refreshed, Refreshers, SetTimer
<1>2. Refreshed(r, o, v).inside = r.inside
  BY DEF Refreshed, Refreshers, SetTimer
<1>3. ASSUME Callbacks(o, v) = <<>>, o \notin {"Interrupted", "unknown"}
      PROVE  Refreshed(r, o, v).timer
  <2>1. o = "ok" /\ v \in {"fresh", "advisory"}
    BY <1>3 DEF Callbacks, GoesOn, Outcomes, Validities
  <2> QED BY <2>1 DEF Refreshed, GoesOn, Refreshers, SetTimer
<1> QED BY <1>1, <1>2, <1>3

LEMMA CallbacksType ==
  ASSUME NEW o \in Outcomes, NEW v \in Validities
  PROVE  Callbacks(o, v) \in Seq(Outcomes \union {"Timeout"})
<1> DEFINE T == Outcomes \union {"Timeout"}
           first == IF o \in {"Conditional", "Unrecoverable"} THEN <<o>> ELSE <<>>
           second == IF GoesOn(o) /\ v \in {"mandatory", "expired"}
                     THEN <<"Timeout">> ELSE <<>>
<1>1. o \in T /\ "Timeout" \in T
  OBVIOUS
<1> HIDE DEF T
<1>2. <<o>> \in Seq(T) /\ <<"Timeout">> \in Seq(T) /\ <<>> \in Seq(T)
  BY <1>1
<1>3. first \in Seq(T) /\ second \in Seq(T)
  BY <1>2
<1> HIDE DEF first, second
<1>4. first \o second \in Seq(T)
  BY <1>3
<1> QED BY <1>4 DEF Callbacks, first, second, T

LEMMA FromResponseType ==
  ASSUME NEW r \in Responses
  PROVE  FromResponse(r, FALSE) \in {"ok", "Unrecoverable"}
  BY DEF FromResponse

\* An object as it is made, and with the first credentials.
LEMMA NewObject ==
  /\ NoObject \in Objects
  /\ [NoObject EXCEPT !.made = TRUE] \in Objects
  /\ SetCredentials([NoObject EXCEPT !.made = TRUE]) \in Objects
<1>1. NewRefresher \in Refreshers
  BY MaxInsideAssumption DEF NewRefresher, Refreshers
<1>2. <<>> \in Seq(Outcomes \union {"Timeout"})
  OBVIOUS
<1>3. NoObject \in Objects
  BY <1>1, <1>2 DEF NoObject, Objects, Validities
<1>4. [NoObject EXCEPT !.made = TRUE] \in Objects
  BY <1>3 DEF Objects
<1> QED BY <1>3, <1>4 DEF SetCredentials, Objects, Validities

LEMMA CountOne ==
  ASSUME NEW S, IsFiniteSet(S), NEW x
  PROVE  /\ x \notin S => Cardinality(S \union {x}) = Cardinality(S) + 1
         /\ x \in S => Cardinality(S \ {x}) = Cardinality(S) - 1
         /\ Cardinality(S) \in Nat
  BY FS_AddElement, FS_RemoveElement, FS_CardinalityType

\* The Sessions within a refresher are at most as many as it can count.
LEMMA WithinFits ==
  ASSUME NEW o, NEW S \in SUBSET Sessions
  PROVE  IsFiniteSet(S) /\ Cardinality(S) \in 0..MaxInside
<1>1. IsFiniteSet(S) /\ Cardinality(S) <= Cardinality(Sessions)
  BY FS_Subset, SessionSetupAssumption DEF SessionSetupAssumption
<1>2. Cardinality(S) \in Nat /\ Cardinality(Sessions) \in Nat
  BY <1>1, FS_CardinalityType, SessionSetupAssumption DEF SessionSetupAssumption
<1> QED BY <1>1, <1>2, SessionSetupAssumption, MaxInsideAssumption
        DEF SessionSetupAssumption

(***************************************************************************)
(* The initial states.                                                     *)
(***************************************************************************)

LEMMA InitIInv == Init => IInv
<1> SUFFICES ASSUME Init PROVE IInv
  OBVIOUS
<1>1. TypeOK
  BY NewObject, SessionSetupAssumption
  DEF Init, TypeOK, MaybeObject, Threads, Keys, Empty, SessionSetupAssumption
<1>2. KnownThreads /\ Places
  BY DEF Init, KnownThreads, Places, NoStrayKill
<1>3. MadeOnce /\ OwnKeys
  BY DEF Init, MadeOnce, OwnKeys, NoObject
<1>4. Counted
  <2>1. \A o : Within(o) = {}
    BY DEF Init, Within
  <2> QED BY <2>1, FS_EmptySet DEF Init, Counted, NoObject, NewRefresher
<1>5. Refreshing /\ Managed
  BY DEF Init, Refreshing, Kept, Managed, NoObject, NewRefresher
<1> QED BY <1>1, <1>2, <1>3, <1>4, <1>5 DEF IInv

(***************************************************************************)
(* What a step leaves alone.                                               *)
(***************************************************************************)

LEMMA SameThreads ==
  ASSUME KnownThreads, UNCHANGED <<thread, entryVars, at>>, stop \subseteq stop'
  PROVE  KnownThreads'
  BY DEF KnownThreads, NoStrayKill, entryVars

LEMMA SamePlaces ==
  ASSUME Places, UNCHANGED <<pc, at, given, response, assigned, past, entries>>
  PROVE  Places'
  BY DEF Places

\* A step that makes no credentials.
LEMMA SameMade ==
  ASSUME MadeOnce, UNCHANGED <<serviceVars, at, response, entries>>,
         \A o \in Sessions : objects[o].made => objects'[o].made,
         \A o \in Sessions : ~ objects[o].made => objects'[o] = objects[o]
  PROVE  MadeOnce'
  BY DEF MadeOnce, serviceVars

LEMMA SameKeys ==
  ASSUME TypeOK, OwnKeys, UNCHANGED <<role, at, given, creds>>,
         \A o \in Sessions : objects[o].made => objects'[o].made,
         \A k \in Keys : map'[k] \in {map[k], None}
  PROVE  OwnKeys'
  BY DEF OwnKeys, Key, TypeOK, MaybeObject

LEMMA SameCounts ==
  ASSUME Counted, UNCHANGED <<thread, creds>>,
         \A o \in Sessions : objects'[o].ref.inside = objects[o].ref.inside
  PROVE  Counted'
  BY DEF Counted, Within

\* Roles never change, so that a key is told of its failures for ever.
LEMMA SameFailed ==
  ASSUME UNCHANGED role, failed \subseteq failed'
  PROVE  /\ \A s : Key(s)' = Key(s)
         /\ FailedKeys \subseteq FailedKeys'
         /\ UNCHANGED failed => FailedKeys' = FailedKeys
<1>1. \A s : Key(s)' = Key(s)
  BY DEF Key
<1>2. /\ FailedKeys = {Key(f.of) : f \in failed}
      /\ FailedKeys' = {Key(f.of) : f \in failed'}
  BY DEF FailedKeys, Key
<1> HIDE DEF Key
<1> QED BY <1>1, <1>2

LEMMA SameRefreshing ==
  ASSUME Refreshing, UNCHANGED <<role, objects, failed, broken>>
  PROVE  Refreshing'
  BY SameFailed DEF Refreshing, Kept

LEMMA SameManaged ==
  ASSUME Managed, UNCHANGED <<mode, role, at, given, map, thread, creds>>,
         stop \subseteq stop', failed \subseteq failed'
  PROVE  Managed'
  BY SameFailed DEF Managed

\* A step of the service or the scheduler that leaves the credentials alone.
LEMMA SameCredentials ==
  ASSUME IInv, UNCHANGED <<role, at, given, creds, thread, map, objects, failed, broken>>
  PROVE  (OwnKeys /\ Counted /\ Refreshing)'
  BY SameKeys, SameCounts, SameRefreshing DEF IInv

(***************************************************************************)
(* The service.                                                            *)
(***************************************************************************)

LEMMA ServiceKeeps ==
  ASSUME IInv, NEW s \in Sessions, Assign(s) \/ Unassign(s)
  PROVE  IInv'
<1>1. /\ UNCHANGED <<role, syncVars, entryVars, threadVars, stop, credVars>>
      /\ assigned' \subseteq assigned \union {s}
      /\ assigned \union past \subseteq (assigned \union past)'
      /\ (assigned \union past)' \subseteq Sessions
      /\ s \notin assigned => s \notin past
      /\ s \in assigned => s \notin assigned'
      /\ (assigned \intersect past)' = {}
  BY DEF Assign, Unassign, IInv, TypeOK, Places
<1>2. TypeOK'
  BY <1>1 DEF IInv, TypeOK, syncVars, entryVars, threadVars, credVars
<1>3. KnownThreads' /\ Managed'
  BY <1>1, SameThreads, SameManaged DEF IInv, syncVars, threadVars, credVars
<1>4. Places'
  BY <1>1 DEF IInv, Places, syncVars, entryVars
<1>5. MadeOnce'
  BY <1>1 DEF IInv, MadeOnce, Places, syncVars, entryVars, credVars
<1>6. (OwnKeys /\ Counted /\ Refreshing)'
  BY <1>1, SameCredentials DEF syncVars, threadVars, credVars
<1> QED BY <1>2, <1>3, <1>4, <1>5, <1>6 DEF IInv

(***************************************************************************)
(* The scheduler.                                                          *)
(***************************************************************************)

LEMMA CleanedUpType ==
  ASSUME TypeOK, NEW queues
  PROVE  /\ CleanedUp(queues) \in [Queues -> [process : BOOLEAN, creds : BOOLEAN]]
         /\ \A q \in Queues \ queues : CleanedUp(queues)[q] = disk[q]
  BY DEF TypeOK, CleanedUp, Empty

\* A sync begins, tells a Session to stop, or ends; the drain begins.
LEMMA SyncKeeps ==
  ASSUME IInv, \/ BeginSync \/ EndSync \/ Shutdown
               \/ \E s \in Sessions : StopRemoved(s)
  PROVE  IInv'
<1>1. /\ UNCHANGED <<serviceVars, at, given, entryVars, threadVars, credVars>>
      /\ stop \subseteq stop' /\ stop' \subseteq Sessions
      /\ mode' = "run" => mode = "run"
      /\ mode' \in {"run", "drain", "last", "done"} /\ pc' \in {"idle", "remove", "create"}
      /\ response' \union tried' \subseteq Sessions
      /\ \/ pc' = "remove" /\ pc = "idle" /\ response' = assigned
         \/ pc' = "idle" /\ at = None /\ response' = {}
         \/ pc' = pc /\ response' = response
  <2>1. CASE BeginSync
    BY <2>1 DEF BeginSync, IInv, TypeOK
  <2>2. CASE EndSync
    BY <2>2 DEF EndSync, IInv, TypeOK
  <2>3. CASE Shutdown
    BY <2>3 DEF Shutdown, IInv, TypeOK
  <2>4. CASE \E s \in Sessions : StopRemoved(s)
    BY <2>4 DEF StopRemoved, IInv, TypeOK, syncVars
  <2> QED BY <2>1, <2>2, <2>3, <2>4
<1>2. TypeOK'
  BY <1>1 DEF IInv, TypeOK, serviceVars, entryVars, threadVars, credVars
<1>3. KnownThreads'
  BY <1>1, SameThreads DEF IInv, threadVars
<1>4. Managed'
  BY <1>1, SameFailed DEF IInv, Managed, serviceVars, threadVars, credVars
<1>5. Places'
  BY <1>1 DEF IInv, Places, serviceVars, entryVars
<1>6. MadeOnce'
  BY <1>1 DEF IInv, MadeOnce, serviceVars, entryVars, credVars
<1>7. (OwnKeys /\ Counted /\ Refreshing)'
  BY <1>1, SameCredentials DEF serviceVars, threadVars, credVars
<1> QED BY <1>2, <1>3, <1>4, <1>5, <1>6, <1>7 DEF IInv

\* A Session is removed: it was told to stop and does not work, so that every
\* Session of its user that works is still registered.
LEMMA RemoveKeeps ==
  ASSUME IInv, NEW s \in Sessions, Remove(s)
  PROVE  IInv'
<1>1. /\ pc = "remove" /\ s \in entries /\ s \notin response /\ s \in stop
      /\ thread[s] # "working" /\ at = None
      /\ entries' = entries \ {s} /\ Deregister(s)
      /\ UNCHANGED <<serviceVars, syncVars, threadVars, stop, credVars>>
  BY DEF Remove, Removable, NotRunning, IInv, Places
<1>2. struck' = {} /\ users' \in [Users -> SUBSET Sessions]
      /\ \A x \in entries' : UserOf[x] # None => x \in users'[UserOf[x]]
  <2>1. CASE UserOf[s] = None \/ s \notin users[UserOf[s]]
    BY <1>1, <2>1 DEF Deregister, IInv, TypeOK, KnownThreads, NoStrayKill
  <2>2. CASE ~ (UserOf[s] = None \/ s \notin users[UserOf[s]])
    <3>1. UserOf[s] \in Users
      BY <2>2, SessionSetupAssumption DEF SessionSetupAssumption
    <3>2. users' = [users EXCEPT ![UserOf[s]] = @ \ {s}]
      BY <1>1, <2>2 DEF Deregister
    <3>3. \A x \in entries' : UserOf[x] # None => x \in users'[UserOf[x]]
      BY <1>1, <3>1, <3>2 DEF IInv, TypeOK, KnownThreads
    <3>4. ASSUME users'[UserOf[s]] = {}
          PROVE  {x \in Sessions : UserOf[x] = UserOf[s] /\ thread[x] = "working"} = {}
      <4>1. \A x \in Sessions : thread[x] = "working" => x \in entries'
        BY <1>1, SessionSetupAssumption
        DEF IInv, KnownThreads, TypeOK, SessionSetupAssumption
      <4> QED BY <3>3, <3>4, <4>1, <2>2
    <3>5. struck' = {}
      <4>1. CASE LastOfUser(s, users'[UserOf[s]]) /\ UserOf[s] # AgentUser
        BY <1>1, <2>2, <3>4, <4>1 DEF Deregister, LastOfUser, IInv, KnownThreads, NoStrayKill
      <4>2. CASE ~ (LastOfUser(s, users'[UserOf[s]]) /\ UserOf[s] # AgentUser)
        BY <1>1, <2>2, <4>2 DEF Deregister, IInv, KnownThreads, NoStrayKill
      <4> QED BY <4>1, <4>2
    <3> QED BY <3>1, <3>2, <3>3, <3>5 DEF IInv, TypeOK
  <2> QED BY <2>1, <2>2
<1>3. TypeOK'
  BY <1>1, <1>2 DEF IInv, TypeOK, serviceVars, syncVars, threadVars, credVars
<1>4. KnownThreads'
  BY <1>1, <1>2 DEF IInv, TypeOK, KnownThreads, NoStrayKill, syncVars, threadVars
<1>5. Managed'
  BY <1>1, SameManaged DEF IInv, serviceVars, syncVars, threadVars, credVars
<1>6. Places'
  BY <1>1 DEF IInv, Places, serviceVars, syncVars
<1>7. MadeOnce'
  BY <1>1 DEF IInv, MadeOnce, Places, serviceVars, syncVars, credVars
<1>8. (OwnKeys /\ Counted /\ Refreshing)'
  BY <1>1, SameCredentials DEF serviceVars, syncVars, threadVars, credVars
<1> QED BY <1>3, <1>4, <1>5, <1>6, <1>7, <1>8 DEF IInv

\* Credentials are cleaned up: in a sync those no Session needs, in the drain all.
LEMMA CleanupKeeps ==
  ASSUME IInv, CleanupCredentials \/ CleanupAll
  PROVE  IInv'
<1>1. /\ UNCHANGED <<serviceVars, response, tried, at, given, entryVars, threadVars,
                    stop, objects, refreshes, failed, broken>>
      /\ \A k \in Keys : map'[k] \in {map[k], None}
      /\ map' \in [Keys -> MaybeObject]
      /\ mode' \in {"run", "drain", "last", "done"}
  BY DEF CleanupCredentials, CleanupAll, IInv, TypeOK, MaybeObject
<1>2. disk' \in [Queues -> [process : BOOLEAN, creds : BOOLEAN]]
  BY CleanedUpType DEF CleanupCredentials, CleanupAll, IInv
<1>3. pc' = pc \/ (pc = "remove" /\ pc' = "create" /\ at = None)
  BY DEF CleanupCredentials, CleanupAll, IInv, Places
<1>4. TypeOK'
  BY <1>1, <1>2, <1>3 DEF IInv, TypeOK, serviceVars, entryVars, threadVars
<1>5. KnownThreads'
  BY <1>1, SameThreads DEF IInv, threadVars
<1>6. Places' /\ MadeOnce'
  BY <1>1, <1>3, SameMade DEF IInv, Places, serviceVars, entryVars
<1>7. OwnKeys' /\ Counted' /\ Refreshing'
  BY <1>1, SameKeys, SameCounts, SameRefreshing DEF IInv, serviceVars, threadVars
<1>8. Managed'
  <2>1. CASE CleanupAll
    BY <2>1 DEF CleanupAll, Managed
  <2>2. CASE CleanupCredentials
    <3>1. ASSUME NEW s \in Sessions \ stop, creds[s] # None, Key(s) \notin FailedKeys,
                 thread[s] \in {"submitted", "warming", "working"}, mode = "run"
          PROVE  map'[Key(s)] = creds[s]
      <4>1. map[Key(s)] = creds[s]
        BY <3>1 DEF IInv, Managed
      <4>2. s \in response
        BY <2>2, <3>1, SessionSetupAssumption
        DEF CleanupCredentials, Removable, IInv, KnownThreads, Places,
            SessionSetupAssumption
      <4>3. Key(s) \in Keys /\ Key(s)[1] \in AssignedQueues(response)
        BY <3>1, <4>2, SessionSetupAssumption
        DEF Key, Keys, AssignedQueues, IInv, OwnKeys, MadeOnce, TypeOK, MaybeObject,
            SessionSetupAssumption
      <4> QED BY <2>2, <4>1, <4>3 DEF CleanupCredentials
    <3>2. given = None
      BY <2>2 DEF CleanupCredentials, IInv, Places
    <3>3. /\ Key(at)' = Key(at) /\ \A s \in Sessions : Key(s)' = Key(s)
          /\ FailedKeys' = FailedKeys
      BY <1>1, SameFailed DEF serviceVars
    <3>4. mode' = mode
      BY <2>2 DEF CleanupCredentials
    <3> QED BY <1>1, <3>1, <3>2, <3>3, <3>4 DEF Managed, threadVars
  <2> QED BY <2>1, <2>2
<1> QED BY <1>4, <1>5, <1>6, <1>7, <1>8 DEF IInv

\* A Session cannot be set up, or the loop ends over it.
LEMMA CreateFailsKeeps ==
  ASSUME IInv, NEW s \in Sessions,
         SetupFails(s) \/ CredentialsRefused(s) \/ LogRaises(s) \/ DirectoryFails(s)
  PROVE  IInv'
<1>1. Rebound(s) \in [Sessions -> MaybeObject] /\ bind \in [Sessions -> MaybeObject]
  BY DEF Rebound, MaybeObject, IInv, TypeOK
<1>2. CleanedUp({QueueOf[s]}) \in [Queues -> [process : BOOLEAN, creds : BOOLEAN]]
  BY CleanedUpType DEF IInv
<1>3. /\ UNCHANGED <<serviceVars, at, given, entryVars, thread, creds, logs, map, objects,
                    refreshes, failed, broken>>
      /\ disk' \in {disk, CleanedUp({QueueOf[s]})} /\ bind' \in {bind, Rebound(s)}
      /\ stop \subseteq stop' /\ stop' \subseteq Sessions /\ tried' \subseteq Sessions
      /\ mode' \in {"run", "drain", "last", "done"} /\ (mode' = "run" => mode = "run")
      /\ \/ pc' = pc /\ response' = response
         \/ pc' = "idle" /\ at = None /\ response' = {}
  <2>1. CASE SetupFails(s)
    BY <2>1 DEF SetupFails, Visit, IInv, TypeOK, credVars
  <2>2. CASE CredentialsRefused(s)
    BY <2>2 DEF CredentialsRefused, Visit, IInv, TypeOK
  <2>3. CASE LogRaises(s) \/ DirectoryFails(s)
    <3>1. EndsLoop(s) /\ bind' \in {bind, Rebound(s)}
      BY <2>3 DEF LogRaises, DirectoryFails
    <3> QED BY <3>1 DEF EndsLoop, IsNew, IInv, TypeOK, credVars
  <2> QED BY <2>1, <2>2, <2>3
<1>4. TypeOK'
  BY <1>1, <1>2, <1>3 DEF IInv, TypeOK, serviceVars, entryVars
<1>5. KnownThreads'
  BY <1>3, SameThreads DEF IInv
<1>6. Managed'
  BY <1>3, SameFailed DEF IInv, Managed, serviceVars
<1>7. Places'
  BY <1>3 DEF IInv, Places, serviceVars, entryVars
<1>8. MadeOnce'
  BY <1>3 DEF IInv, MadeOnce, serviceVars, entryVars
<1>9. (OwnKeys /\ Counted /\ Refreshing)'
  BY <1>3, SameCredentials DEF serviceVars
<1> QED BY <1>4, <1>5, <1>6, <1>7, <1>8, <1>9 DEF IInv

\* What With does, whatever the credentials.
LEMMA WithKeeps ==
  ASSUME IInv, NEW s \in Sessions, NEW c \in MaybeObject, With(s, c)
  PROVE  /\ UNCHANGED <<serviceVars, mode, pc, response, entryVars, thread, creds, logs,
                        stop, failed, broken>>
         /\ s \in response /\ s \notin entries /\ at = None /\ given = None
         /\ \/ at' = s /\ given' = c
            \/ UNCHANGED <<at, given>>
         /\ tried' \subseteq Sessions /\ bind' \in [Sessions -> MaybeObject]
         /\ KnownThreads' /\ Places'
<1>1. /\ UNCHANGED <<serviceVars, mode, pc, response, entryVars, thread, creds, logs,
                     stop, failed, broken>>
      /\ pc = "create" /\ s \in response /\ s \notin entries /\ at = None
      /\ \/ at' = s /\ given' = c
         \/ UNCHANGED <<at, given>>
      /\ tried' \subseteq Sessions
  BY DEF With, Visit, IsNew, IInv, TypeOK
<1>2. given = None
  BY <1>1 DEF IInv, Places
<1>3. bind' \in [Sessions -> MaybeObject]
  BY DEF With, Rebound, MaybeObject, IInv, TypeOK
<1>4. KnownThreads'
  BY <1>1, SessionSetupAssumption
  DEF IInv, KnownThreads, NoStrayKill, entryVars, SessionSetupAssumption
<1>5. Places'
  BY <1>1, <1>2, SessionSetupAssumption
  DEF IInv, Places, serviceVars, entryVars, SessionSetupAssumption
<1> QED BY <1>1, <1>2, <1>3, <1>4, <1>5

\* The Session does without credentials or shares those of its queue.
LEMMA ShareKeeps ==
  ASSUME IInv, NEW s \in Sessions,
         NoRole(s) \/ ShareCredentials(s) \/ NoCredentials(s)
  PROVE  IInv'
<1>1. PICK c \in MaybeObject :
        /\ With(s, c)
        /\ c # None => map[Key(s)] = c /\ Key(s) \in Keys
        /\ UNCHANGED <<map, objects, refreshes>>
        /\ disk' \in {disk, CleanedUp({QueueOf[s]})}
  <2>1. CASE NoRole(s)
    BY <2>1 DEF NoRole, MaybeObject
  <2>2. CASE ShareCredentials(s)
    <3>1. Key(s) \in Keys
      BY <2>2, SessionSetupAssumption
      DEF ShareCredentials, Key, Keys, IInv, TypeOK, SessionSetupAssumption
    <3> QED BY <2>2, <3>1 DEF ShareCredentials, IInv, TypeOK
  <2>3. CASE NoCredentials(s)
    BY <2>3 DEF NoCredentials, MaybeObject
  <2> QED BY <2>1, <2>2, <2>3
<1>2. /\ UNCHANGED <<serviceVars, mode, pc, response, entryVars, thread, creds, logs,
                     stop, failed, broken>>
      /\ s \in response /\ s \notin entries /\ at = None /\ given = None
      /\ \/ at' = s /\ given' = c
         \/ UNCHANGED <<at, given>>
      /\ tried' \subseteq Sessions /\ bind' \in [Sessions -> MaybeObject]
      /\ KnownThreads' /\ Places'
  BY <1>1, WithKeeps
<1>3. disk' \in [Queues -> [process : BOOLEAN, creds : BOOLEAN]]
  BY <1>1, CleanedUpType DEF IInv, TypeOK
<1>4. TypeOK'
  BY <1>1, <1>2, <1>3 DEF IInv, TypeOK, MaybeObject, serviceVars, entryVars
<1>5. MadeOnce'
  BY <1>1, <1>2, SessionSetupAssumption
  DEF IInv, MadeOnce, serviceVars, entryVars, SessionSetupAssumption
<1>6. OwnKeys'
  BY <1>1, <1>2 DEF IInv, OwnKeys, Key, serviceVars
<1>7. Counted' /\ Refreshing'
  BY <1>1, <1>2, SameCounts, SameRefreshing DEF IInv, serviceVars
<1>8. Managed'
  BY <1>1, <1>2, SameFailed DEF IInv, Managed, serviceVars
<1> QED BY <1>2, <1>4, <1>5, <1>6, <1>7, <1>8 DEF IInv

\* What is in a directory.
LEMMA DirectoryType ==
  ASSUME NEW d \in [process : BOOLEAN, creds : BOOLEAN], NEW got \in BOOLEAN
  PROVE  /\ Installed(d) \in [process : BOOLEAN, creds : BOOLEAN]
         /\ Installed(d).process
         /\ Cached(d, got) \in [process : BOOLEAN, creds : BOOLEAN]
         /\ Cached(d, got).process = d.process
<1>1. (d.creds \/ got) \in BOOLEAN
  OBVIOUS
<1> QED BY <1>1 DEF Installed, Cached

\* What is made: an object, with credentials or without, and its directory.
LEMMA MadeFiles ==
  ASSUME NEW s \in Sessions, MakeCredentials(s)
  PROVE  /\ role[s] # None /\ ~ Shared(Key(s)) /\ With(s, s)
         /\ map' = [map EXCEPT ![Key(s)] = s] /\ UNCHANGED refreshes
         /\ \E new \in {[NoObject EXCEPT !.made = TRUE],
                        SetCredentials([NoObject EXCEPT !.made = TRUE])} :
              objects' = [objects EXCEPT ![s] = new]
         /\ \E got \in BOOLEAN :
              disk' = [disk EXCEPT ![QueueOf[s]] = Cached(Installed(@), got)]
<1>1. PICK answer \in {r \in Responses : FromResponse(r, FALSE) = "ok"} :
        LET got == answer = "credentials"
            new == [NoObject EXCEPT !.made = TRUE] IN
        /\ objects' = [objects EXCEPT ![s] = IF got THEN SetCredentials(new) ELSE new]
        /\ disk' = [disk EXCEPT ![QueueOf[s]] = Cached(Installed(@), got)]
  BY DEF MakeCredentials
<1> DEFINE got == answer = "credentials"
<1>2. disk' = [disk EXCEPT ![QueueOf[s]] = Cached(Installed(@), got)]
      /\ got \in BOOLEAN
  BY <1>1
<1>3. \E new \in {[NoObject EXCEPT !.made = TRUE],
                  SetCredentials([NoObject EXCEPT !.made = TRUE])} :
        objects' = [objects EXCEPT ![s] = new]
  BY <1>1, Zenon
<1>4. role[s] # None /\ ~ Shared(Key(s)) /\ With(s, s)
      /\ map' = [map EXCEPT ![Key(s)] = s] /\ UNCHANGED refreshes
  BY DEF MakeCredentials
<1> HIDE DEF got
<1> QED BY <1>2, <1>3, <1>4, Zenon

\* Credentials are made: for the first time, so that nobody uses the object yet.
LEMMA MakeKeeps ==
  ASSUME IInv, NEW s \in Sessions, MakeCredentials(s)
  PROVE  IInv'
<1>1. /\ role[s] # None /\ ~ Shared(Key(s)) /\ With(s, s)
      /\ map' = [map EXCEPT ![Key(s)] = s] /\ UNCHANGED refreshes
      /\ \E new \in {[NoObject EXCEPT !.made = TRUE],
                     SetCredentials([NoObject EXCEPT !.made = TRUE])} :
           objects' = [objects EXCEPT ![s] = new]
      /\ \E got \in BOOLEAN :
           disk' = [disk EXCEPT ![QueueOf[s]] = Cached(Installed(@), got)]
  BY MadeFiles
<1>2. Key(s) \in Keys /\ map[Key(s)] = None
  BY <1>1, SessionSetupAssumption
  DEF Shared, Key, Keys, IInv, TypeOK, SessionSetupAssumption
<1>3. /\ UNCHANGED <<serviceVars, mode, pc, response, entryVars, thread, creds, logs,
                     stop, failed, broken>>
      /\ s \in response /\ s \notin entries /\ at = None /\ given = None
      /\ \/ at' = s /\ given' = s
         \/ UNCHANGED <<at, given>>
      /\ tried' \subseteq Sessions /\ bind' \in [Sessions -> MaybeObject]
      /\ KnownThreads' /\ Places'
  BY <1>1, WithKeeps DEF MaybeObject
<1>4. at' = s /\ given' = s
  BY <1>1, SessionSetupAssumption DEF With, SessionSetupAssumption
<1>5. ~ objects[s].made
  BY <1>3, SessionSetupAssumption DEF IInv, MadeOnce, SessionSetupAssumption
<1>6. /\ objects' \in [Sessions -> Objects]
      /\ \A o \in Sessions \ {s} : objects'[o] = objects[o]
      /\ objects'[s].made /\ objects'[s].ref = NewRefresher
      /\ objects'[s].out = None
  <2>1. PICK new \in {[NoObject EXCEPT !.made = TRUE],
                     SetCredentials([NoObject EXCEPT !.made = TRUE])} :
          objects' = [objects EXCEPT ![s] = new]
    BY <1>1
  <2>2. new \in Objects
    BY NewObject
  <2>3. new.made /\ new.ref = NewRefresher /\ new.out = None
    BY DEF NoObject, SetCredentials
  <2> QED BY <2>1, <2>2, <2>3 DEF IInv, TypeOK
<1>7. disk' \in [Queues -> [process : BOOLEAN, creds : BOOLEAN]]
  <2>1. PICK got \in BOOLEAN :
          disk' = [disk EXCEPT ![QueueOf[s]] = Cached(Installed(@), got)]
    BY <1>1
  <2> DEFINE d == disk[QueueOf[s]]
  <2>2. d \in [process : BOOLEAN, creds : BOOLEAN]
    BY SessionSetupAssumption DEF IInv, TypeOK, SessionSetupAssumption
  <2>3. Cached(Installed(d), got) \in [process : BOOLEAN, creds : BOOLEAN]
    BY <2>2, DirectoryType
  <2> QED BY <2>1, <2>3 DEF IInv, TypeOK
<1>8. map' \in [Keys -> MaybeObject]
  BY <1>1 DEF IInv, TypeOK, MaybeObject
<1>9. TypeOK'
  BY <1>1, <1>3, <1>4, <1>6, <1>7, <1>8
  DEF IInv, TypeOK, MaybeObject, serviceVars, entryVars
<1>10. MadeOnce'
  BY <1>1, <1>3, <1>4, <1>6, SessionSetupAssumption
  DEF IInv, MadeOnce, Places, serviceVars, entryVars, SessionSetupAssumption
<1>11. OwnKeys'
  BY <1>1, <1>2, <1>3, <1>4, <1>6 DEF IInv, TypeOK, OwnKeys, Key, MaybeObject, serviceVars
<1>12. Counted'
  <2>1. Within(s) = {}
    BY <1>5, SessionSetupAssumption
    DEF IInv, OwnKeys, Within, TypeOK, MaybeObject, SessionSetupAssumption
  <2>2. \A o : Within(o)' = Within(o)
    BY <1>3 DEF Within
  <2>3. \A o \in Sessions : objects'[o].ref.inside = Cardinality(Within(o))
    <3>1. objects'[s].ref.inside = 0
      BY <1>6 DEF NewRefresher
    <3>2. \A o \in Sessions \ {s} : objects'[o].ref.inside = Cardinality(Within(o))
      BY <1>6 DEF IInv, Counted
    <3> QED BY <3>1, <3>2, <2>1, FS_EmptySet
  <2> QED BY <2>2, <2>3 DEF Counted
<1>13. Refreshing'
  BY <1>3, <1>6, SameFailed DEF IInv, Refreshing, Kept, NewRefresher, serviceVars
<1>14. Managed'
  <2>1. \A x \in Sessions : creds[x] # None =>
          creds[x] \in Sessions /\ Key(x) \in Keys /\ Key(x)' = Key(x)
    BY <1>3, SessionSetupAssumption
    DEF IInv, OwnKeys, MadeOnce, TypeOK, MaybeObject, Key, Keys, serviceVars,
        SessionSetupAssumption
  <2>2. Key(s)' = Key(s) /\ FailedKeys' = FailedKeys
    BY <1>3, SameFailed DEF serviceVars
  <2> QED BY <1>1, <1>2, <1>3, <1>4, <2>1, <2>2 DEF IInv, TypeOK, Managed
<1> QED BY <1>3, <1>9, <1>10, <1>11, <1>12, <1>13, <1>14 DEF IInv

\* The Session's thread is submitted, and the Session is entered.
LEMMA EnterKeeps ==
  ASSUME IInv, Submit \/ Register
  PROVE  IInv'
<1>1. CASE Submit
  <2>1. /\ pc = "create" /\ at \in Sessions /\ thread[at] = "none"
        /\ thread' = [thread EXCEPT ![at] = "submitted"]
        /\ creds' = [creds EXCEPT ![at] = given]
        /\ UNCHANGED <<serviceVars, syncVars, entryVars, bind, logs, stop, credVars>>
    BY <1>1 DEF Submit, IInv, TypeOK, MaybeObject
  <2>2. TypeOK'
    BY <2>1 DEF IInv, TypeOK, MaybeObject, Threads, serviceVars, syncVars, entryVars,
                credVars
  <2>3. KnownThreads'
    BY <2>1 DEF IInv, TypeOK, KnownThreads, NoStrayKill, syncVars, entryVars
  <2>4. Places' /\ MadeOnce'
    BY <2>1, SamePlaces, SameMade DEF IInv, serviceVars, syncVars, entryVars, credVars
  <2>5. OwnKeys'
    BY <2>1 DEF IInv, TypeOK, OwnKeys, Key, serviceVars, syncVars, credVars
  <2>6. Counted'
    <3>1. \A o : Within(o)' = Within(o)
      BY <2>1 DEF Within, IInv, TypeOK
    <3> QED BY <2>1, <3>1 DEF IInv, Counted, credVars
  <2>7. Refreshing'
    BY <2>1, SameRefreshing DEF IInv, serviceVars, credVars
  <2>8. Managed'
    BY <2>1, SameFailed DEF IInv, TypeOK, Managed, serviceVars, syncVars, credVars
  <2> QED BY <2>2, <2>3, <2>4, <2>5, <2>6, <2>7, <2>8 DEF IInv
<1>2. CASE Register
  <2>1. /\ pc = "create" /\ at \in Sessions
        /\ entries' = entries \union {at}
        /\ users' = [u \in Users |-> IF u = UserOf[at] THEN users[u] \union {at}
                                     ELSE users[u]]
        /\ at' = None /\ given' = None
        /\ UNCHANGED <<serviceVars, mode, pc, response, tried, struck, threadVars,
                       stop, credVars>>
    BY <1>2 DEF Register, IInv, TypeOK, MaybeObject
  <2>2. TypeOK'
    BY <2>1 DEF IInv, TypeOK, MaybeObject, serviceVars, threadVars, credVars
  <2>3. KnownThreads'
    <3>1. \A x \in Sessions : UserOf[x] # None => UserOf[x] \in Users
      BY SessionSetupAssumption DEF SessionSetupAssumption
    <3> QED BY <2>1, <3>1 DEF IInv, TypeOK, KnownThreads, NoStrayKill, threadVars
  <2>4. Places' /\ MadeOnce'
    BY <2>1, SessionSetupAssumption
    DEF IInv, Places, MadeOnce, serviceVars, credVars, SessionSetupAssumption
  <2>5. OwnKeys'
    BY <2>1 DEF IInv, OwnKeys, Key, serviceVars, threadVars, credVars
  <2>6. Counted' /\ Refreshing'
    BY <2>1, SameCounts, SameRefreshing DEF IInv, serviceVars, threadVars, credVars
  <2>7. Managed'
    BY <2>1, SameFailed DEF IInv, Managed, serviceVars, threadVars, credVars
  <2> QED BY <2>2, <2>3, <2>4, <2>5, <2>6, <2>7 DEF IInv
<1> QED BY <1>1, <1>2

(***************************************************************************)
(* The threads.                                                            *)
(***************************************************************************)

\* Key(s) of a Session whose credentials have been made.
LEMMA MadeKey ==
  ASSUME TypeOK, MadeOnce, NEW o \in Sessions, objects[o].made
  PROVE  Key(o) \in Keys
  BY SessionSetupAssumption DEF TypeOK, MadeOnce, Key, Keys, SessionSetupAssumption

\* A thread starts the actions or ends them, or ends before it has entered
\* anything.
LEMMA GoesKeeps ==
  ASSUME IInv, NEW s \in Sessions,
         Run(s) \/ RunEnds(s) \/ RunFails(s) \/ LogFails(s)
  PROVE  IInv'
<1>1. /\ UNCHANGED <<serviceVars, syncVars, entryVars, logs, stop, credVars>>
      /\ \E to \in {"working", "ran", "ended"} :
           /\ thread' = [thread EXCEPT ![s] = to]
           /\ to = "working" => s \notin stop /\ thread[s] = "warming"
           /\ \/ to # "ended" /\ thread[s] \in {"warming", "working"}
                 /\ UNCHANGED <<creds, bind>>
              \/ to = "ended" /\ thread[s] = "submitted"
                 /\ creds' = [creds EXCEPT ![s] = None]
                 /\ bind' = [bind EXCEPT ![s] = None]
  BY DEF Run, RunEnds, RunFails, LogFails, Goes
<1>2. PICK to \in {"working", "ran", "ended"} :
        /\ thread' = [thread EXCEPT ![s] = to]
        /\ to = "working" => s \notin stop /\ thread[s] = "warming"
        /\ \/ to # "ended" /\ thread[s] \in {"warming", "working"}
              /\ UNCHANGED <<creds, bind>>
           \/ to = "ended" /\ thread[s] = "submitted"
              /\ creds' = [creds EXCEPT ![s] = None]
              /\ bind' = [bind EXCEPT ![s] = None]
  BY <1>1
<1>3. /\ thread' \in [Sessions -> Threads] /\ creds' \in [Sessions -> MaybeObject]
      /\ bind' \in [Sessions -> MaybeObject]
      /\ \A x \in Sessions : creds'[x] \in {creds[x], None}
  BY <1>2 DEF IInv, TypeOK, Threads, MaybeObject
<1>4. TypeOK'
  BY <1>1, <1>3 DEF IInv, TypeOK, serviceVars, syncVars, entryVars, credVars
<1>5. KnownThreads'
  BY <1>1, <1>2 DEF IInv, TypeOK, KnownThreads, NoStrayKill, syncVars, entryVars
<1>6. Places' /\ MadeOnce'
  BY <1>1, SamePlaces, SameMade DEF IInv, serviceVars, syncVars, entryVars, credVars
<1>7. OwnKeys'
  BY <1>1, <1>3 DEF IInv, OwnKeys, Key, serviceVars, syncVars, credVars
<1>8. Counted'
  <2>1. \A o \in Sessions : Within(o)' = Within(o)
    <3>1. CASE to # "ended"
      BY <1>2, <3>1 DEF Within, IInv, TypeOK
    <3>2. CASE to = "ended"
      BY <1>2, <3>2, SessionSetupAssumption DEF Within, IInv, TypeOK, SessionSetupAssumption
    <3> QED BY <3>1, <3>2
  <2> QED BY <1>1, <2>1 DEF IInv, Counted, credVars
<1>9. Refreshing'
  BY <1>1, SameRefreshing DEF IInv, serviceVars, credVars
<1>10. Managed'
  BY <1>1, <1>2, <1>3, SameFailed DEF IInv, TypeOK, Managed, serviceVars, syncVars, credVars
<1> QED BY <1>4, <1>5, <1>6, <1>7, <1>8, <1>9, <1>10 DEF IInv

\* A thread enters the Session and the refresher of its credentials.
LEMMA BeginKeeps ==
  ASSUME IInv, NEW s \in Sessions, Begin(s)
  PROVE  IInv'
<1>1. /\ thread[s] = "submitted"
      /\ thread' = [thread EXCEPT ![s] = "warming"]
      /\ logs' \in [Sessions -> MaybeObject] /\ bind' \in [Sessions -> MaybeObject]
      /\ UNCHANGED <<serviceVars, syncVars, entryVars, creds, stop, map, refreshes, disk,
                     failed, broken>>
  BY DEF Begin, IInv, TypeOK, MaybeObject
<1>2. /\ objects' \in [Sessions -> Objects]
      /\ \A o \in Sessions :
           /\ objects'[o].made = objects[o].made
           /\ ~ objects[o].made => objects'[o] = objects[o]
           /\ objects'[o].ref.inside = Cardinality(Within(o)')
           /\ Kept(o)'
  <2>1. CASE creds[s] = None
    <3>1. \A o \in Sessions : Within(o)' = Within(o)
      BY <1>1, <2>1, SessionSetupAssumption DEF Within, IInv, TypeOK, SessionSetupAssumption
    <3>2. UNCHANGED objects
      BY <2>1 DEF Begin
    <3> QED BY <1>1, <3>1, <3>2, SameFailed
            DEF IInv, TypeOK, Counted, Refreshing, Kept, serviceVars
  <2>2. CASE creds[s] # None
    <3>0. PICK c \in Sessions : c = creds[s]
      BY <2>2 DEF IInv, TypeOK, MaybeObject
    <3> DEFINE r == objects[c].ref
    <3>1. objects[c] \in Objects /\ objects[c].made /\ r \in Refreshers
      BY <2>2, <3>0 DEF IInv, TypeOK, MaybeObject, OwnKeys, Objects
    <3>2. /\ Within(c)' = Within(c) \union {s} /\ s \notin Within(c)
          /\ \A o \in Sessions \ {c} : Within(o)' = Within(o)
      BY <1>1, <3>0 DEF Within, IInv, TypeOK
    <3>3. /\ Cardinality(Within(c)') = r.inside + 1
          /\ Cardinality(Within(c)') \in 0..MaxInside
      <4>1. Within(c) \in SUBSET Sessions /\ Within(c)' \in SUBSET Sessions
        BY DEF Within
      <4> QED BY <3>1, <3>2, <4>1, WithinFits, CountOne DEF IInv, Counted
    <3>4. /\ Entered(r) \in Refreshers
          /\ Entered(r).inside = r.inside + 1
          /\ Entered(r).refreshing = r.refreshing
          /\ r.inside = 0 => Entered(r).timer
          /\ r.inside # 0 => Entered(r).timer = r.timer
      BY <3>1, <3>3, EnteredRefresher
    <3>5. objects' = [objects EXCEPT ![c] = [objects[c] EXCEPT !.ref = Entered(r)]]
      BY <2>2, <3>0, Zenon DEF Begin, RefOf
    <3> DEFINE new == [objects[c] EXCEPT !.ref = Entered(r)]
    <3>6. /\ new \in Objects /\ new.made = objects[c].made /\ new.ref = Entered(r)
          /\ new.out = objects[c].out /\ new.calls = objects[c].calls
      BY <3>1, <3>4 DEF Objects
    <3> HIDE DEF new, r
    <3>7. objects' \in [Sessions -> Objects] /\ objects'[c] = new
          /\ \A o \in Sessions \ {c} : objects'[o] = objects[o]
      BY <3>1, <3>5, <3>6 DEF IInv, TypeOK, new
    <3>8. Kept(c)'
      BY <1>1, <3>1, <3>4, <3>6, <3>7, SameFailed
      DEF IInv, Refreshing, Kept, serviceVars, Refreshers, r
    <3>9. \A o \in Sessions \ {c} : Kept(o)'
      BY <1>1, <3>7, SameFailed DEF IInv, Refreshing, Kept, serviceVars
    <3>10. \A o \in Sessions : objects'[o].ref.inside = Cardinality(Within(o)')
      BY <3>1, <3>2, <3>3, <3>4, <3>6, <3>7 DEF IInv, Counted
    <3> QED BY <3>1, <3>6, <3>7, <3>8, <3>9, <3>10
  <2> QED BY <2>1, <2>2
<1>3. TypeOK'
  BY <1>1, <1>2 DEF IInv, TypeOK, Threads, serviceVars, syncVars, entryVars
<1>4. KnownThreads'
  BY <1>1 DEF IInv, TypeOK, KnownThreads, NoStrayKill, syncVars, entryVars
<1>5. Places' /\ MadeOnce'
  BY <1>1, <1>2, SamePlaces, SameMade DEF IInv, serviceVars, syncVars, entryVars
<1>6. OwnKeys'
  BY <1>1, <1>2, SameKeys DEF IInv, serviceVars, syncVars
<1>7. Counted' /\ Refreshing'
  BY <1>2 DEF Counted, Refreshing
<1>8. Managed'
  BY <1>1, SameFailed DEF IInv, TypeOK, Managed, serviceVars, syncVars
<1> QED BY <1>3, <1>4, <1>5, <1>6, <1>7, <1>8 DEF IInv

\* It leaves them.
LEMMA LeaveKeeps ==
  ASSUME IInv, NEW s \in Sessions, Leave(s)
  PROVE  IInv'
<1>1. /\ thread[s] = "ran"
      /\ thread' = [thread EXCEPT ![s] = "ended"] /\ creds' = [creds EXCEPT ![s] = None]
      /\ logs' \in [Sessions -> MaybeObject] /\ stop' = stop \union {s}
      /\ UNCHANGED <<serviceVars, syncVars, entryVars, bind, map, refreshes, disk,
                     failed>>
  BY DEF Leave, IInv, TypeOK, MaybeObject
<1>2. /\ objects' \in [Sessions -> Objects] /\ broken' \subseteq Sessions
      /\ \A o \in Sessions :
           /\ objects'[o].made = objects[o].made
           /\ ~ objects[o].made => objects'[o] = objects[o]
           /\ objects'[o].ref.inside = Cardinality(Within(o)')
           /\ Kept(o)'
  <2>1. CASE creds[s] = None
    <3>1. \A o \in Sessions : Within(o)' = Within(o)
      BY <1>1, <2>1, SessionSetupAssumption DEF Within, IInv, TypeOK, SessionSetupAssumption
    <3>2. UNCHANGED <<objects, broken>>
      BY <2>1 DEF Leave
    <3> QED BY <1>1, <3>1, <3>2, SameFailed
            DEF IInv, TypeOK, Counted, Refreshing, Kept, serviceVars
  <2>2. CASE creds[s] # None
    <3>0. PICK c \in Sessions : c = creds[s]
      BY <2>2 DEF IInv, TypeOK, MaybeObject
    <3> DEFINE r == objects[c].ref
    <3>1. objects[c] \in Objects /\ objects[c].made /\ r \in Refreshers
      BY <2>2, <3>0 DEF IInv, TypeOK, MaybeObject, OwnKeys, Objects
    <3>2. /\ Within(c)' = Within(c) \ {s} /\ s \in Within(c)
          /\ \A o \in Sessions \ {c} : Within(o)' = Within(o)
      BY <1>1, <3>0, SessionSetupAssumption DEF Within, IInv, TypeOK, SessionSetupAssumption
    <3>3. Cardinality(Within(c)') = r.inside - 1 /\ Cardinality(Within(c)') \in 0..MaxInside
          /\ r.inside # 0
      <4>1. Within(c) \in SUBSET Sessions /\ Within(c)' \in SUBSET Sessions
        BY DEF Within
      <4> QED BY <3>1, <3>2, <4>1, WithinFits, CountOne, MaxInsideAssumption
              DEF IInv, Counted
    <3>4. /\ Left(r) \in Refreshers
          /\ Left(r).inside = r.inside - 1
          /\ Left(r).refreshing = r.refreshing
          /\ r.inside # 1 => Left(r).timer = r.timer
      BY <3>1, <3>3, LeftRefresher
    <3>5. /\ objects' = [objects EXCEPT ![c] = [objects[c] EXCEPT !.ref = Left(r)]]
          /\ broken' = IF Left(r).inside = 0 THEN broken \ {c} ELSE broken
      BY <2>2, <3>0, Zenon DEF Leave, RefOf
    <3> DEFINE new == [objects[c] EXCEPT !.ref = Left(r)]
    <3>6. /\ new \in Objects /\ new.made = objects[c].made /\ new.ref = Left(r)
          /\ new.out = objects[c].out /\ new.calls = objects[c].calls
      BY <3>1, <3>4 DEF Objects
    <3> HIDE DEF new, r
    <3>7. objects' \in [Sessions -> Objects] /\ objects'[c] = new
          /\ \A o \in Sessions \ {c} : objects'[o] = objects[o]
      BY <3>1, <3>5, <3>6 DEF IInv, TypeOK, new
    <3>8. Kept(c)'
      BY <1>1, <3>1, <3>3, <3>4, <3>5, <3>6, <3>7, SameFailed
      DEF IInv, Refreshing, Kept, serviceVars, Refreshers, r
    <3>9. \A o \in Sessions \ {c} : Kept(o)'
      BY <1>1, <3>5, <3>7, SameFailed DEF IInv, Refreshing, Kept, serviceVars
    <3>10. \A o \in Sessions : objects'[o].ref.inside = Cardinality(Within(o)')
      BY <3>1, <3>2, <3>3, <3>4, <3>6, <3>7 DEF IInv, Counted
    <3>11. broken' \subseteq Sessions
      BY <3>5 DEF IInv, TypeOK
    <3> QED BY <3>1, <3>6, <3>7, <3>8, <3>9, <3>10, <3>11
  <2> QED BY <2>1, <2>2
<1>3. TypeOK'
  BY <1>1, <1>2 DEF IInv, TypeOK, Threads, MaybeObject, serviceVars, syncVars, entryVars
<1>4. KnownThreads'
  BY <1>1 DEF IInv, TypeOK, KnownThreads, NoStrayKill, syncVars, entryVars
<1>5. Places' /\ MadeOnce'
  BY <1>1, <1>2, SamePlaces, SameMade DEF IInv, serviceVars, syncVars, entryVars
<1>6. OwnKeys'
  BY <1>1, <1>2 DEF IInv, TypeOK, MaybeObject, OwnKeys, Key, serviceVars, syncVars
<1>7. Counted' /\ Refreshing'
  BY <1>2 DEF Counted, Refreshing
<1>8. Managed'
  BY <1>1, SameFailed DEF IInv, TypeOK, Managed, serviceVars, syncVars
<1> QED BY <1>3, <1>4, <1>5, <1>6, <1>7, <1>8 DEF IInv

(***************************************************************************)
(* The timers.                                                             *)
(***************************************************************************)

\* A step of the timer of o's refresher: who is within stays, and what becomes
\* of o keeps it refreshed.
LEMMA TimerKeeps ==
  ASSUME IInv, NEW o \in Sessions, NEW new \in Objects,
         objects[o].made, new.made, new.ref.inside = objects[o].ref.inside,
         objects' = [objects EXCEPT ![o] = new],
         UNCHANGED <<serviceVars, syncVars, entryVars, threadVars>>,
         stop \subseteq stop', stop' \subseteq Sessions,
         map' \in [Keys -> MaybeObject],
         \A k \in Keys : map'[k] = map[k] \/ (map'[k] = None /\ k \in FailedKeys'),
         failed \subseteq failed', failed' \subseteq Failures,
         \A f \in failed' : f \in failed \/ f.of = o,
         broken \subseteq broken', broken' \subseteq Sessions,
         refreshes' \in 0..MaxRefreshes,
         disk' \in [Queues -> [process : BOOLEAN, creds : BOOLEAN]],
         Kept(o)'
  PROVE  IInv'
<1>1. /\ objects' \in [Sessions -> Objects] /\ objects'[o] = new
      /\ \A x \in Sessions \ {o} : objects'[x] = objects[x]
  BY DEF IInv, TypeOK
<1>2. TypeOK'
  BY <1>1 DEF IInv, TypeOK, serviceVars, syncVars, entryVars, threadVars
<1>3. KnownThreads'
  BY SameThreads DEF IInv, syncVars, threadVars
<1>4. Places' /\ MadeOnce'
  BY <1>1, SamePlaces, SameMade DEF IInv, serviceVars, syncVars, entryVars
<1>5. OwnKeys' /\ Counted'
  BY <1>1, SameKeys, SameCounts DEF IInv, serviceVars, syncVars, threadVars
<1>6. Refreshing'
  <2>1. \A x \in Sessions \ {o} : Kept(x)'
    BY <1>1, SameFailed DEF IInv, Refreshing, Kept, serviceVars
  <2> QED BY <2>1 DEF Refreshing
<1>7. Managed'
  <2>1. \A x \in Sessions : creds[x] # None => Key(x) \in Keys
    BY MadeKey DEF IInv, OwnKeys, TypeOK, MaybeObject
  <2>2. given # None => Key(at) \in Keys
    BY MadeKey DEF IInv, OwnKeys, TypeOK, MaybeObject
  <2>3. /\ Key(at)' = Key(at) /\ \A x \in Sessions : Key(x)' = Key(x)
        /\ FailedKeys \subseteq FailedKeys'
    BY SameFailed DEF serviceVars, syncVars
  <2> QED BY <2>1, <2>2, <2>3 DEF IInv, Managed, syncVars, threadVars
<1> QED BY <1>2, <1>3, <1>4, <1>5, <1>6, <1>7 DEF IInv

\* Only an object that has been made has a timer, a refresh or a callback.
LEMMA UnmadeIsIdle ==
  ASSUME IInv, NEW o \in Sessions, ~ objects[o].made
  PROVE  /\ ~ objects[o].ref.timer /\ ~ objects[o].ref.refreshing
         /\ objects[o].calls = <<>> /\ objects[o].out = None
  BY DEF IInv, MadeOnce, NoObject, NewRefresher

\* The end of a refresh with nobody to call (any more).
LEMMA EndedObject ==
  ASSUME NEW object \in Objects, NEW o \in Sessions, NEW outcome \in Outcomes,
         Ended(o, object, outcome),
         \/ Callbacks(outcome, object.valid) = <<>>
         \/ Key(o) \in FailedKeys, UNCHANGED <<failed, role>>,
         objects \in [Sessions -> Objects], broken \subseteq Sessions,
         object.made
  PROVE  \E new \in Objects :
           /\ objects' = [objects EXCEPT ![o] = new]
           /\ new.made = object.made /\ new.ref.inside = object.ref.inside
           /\ broken \subseteq broken' /\ broken' \subseteq Sessions
           /\ Kept(o)'
<1> DEFINE r == object.ref
           new == [object EXCEPT !.ref = Refreshed(r, outcome, object.valid),
                                 !.out = None]
<1>1. r \in Refreshers /\ object.valid \in Validities
  BY DEF Objects
<1>2. /\ Refreshed(r, outcome, object.valid) \in Refreshers
      /\ Refreshed(r, outcome, object.valid).inside = r.inside
      /\ Callbacks(outcome, object.valid) = <<>>
         /\ outcome \notin {"Interrupted", "unknown"}
           => Refreshed(r, outcome, object.valid).timer
  BY <1>1, RefreshedRefresher
<1>3. /\ objects' = [objects EXCEPT ![o] = new]
      /\ broken' = IF outcome \in {"Interrupted", "unknown"} /\ r.inside > 0
                   THEN broken \union {o} ELSE broken
  BY Zenon DEF Ended, Update
<1>4. /\ new \in Objects /\ new.made = object.made /\ new.out = None
      /\ new.ref = Refreshed(r, outcome, object.valid)
  BY <1>2 DEF Objects
<1> HIDE DEF new, r
<1>5. r.inside \in Nat
  BY <1>1 DEF Refreshers
<1>6. objects'[o] = new /\ Key(o)' = Key(o) /\ FailedKeys' = FailedKeys
  BY <1>3, SameFailed
<1>7. Kept(o)'
  <2>1. objects'[o].made /\ objects'[o].out = None
    BY <1>4, <1>6
  <2>2. \/ Key(o)' \in FailedKeys'
        \/ o \in broken' \/ objects'[o].ref.inside = 0
        \/ objects'[o].ref.timer
    BY <1>2, <1>3, <1>4, <1>5, <1>6
  <2> QED BY <2>1, <2>2 DEF Kept
<1>8. broken \subseteq broken' /\ broken' \subseteq Sessions
  BY <1>3
<1> QED BY <1>2, <1>3, <1>4, <1>7, <1>8 DEF r

LEMMA TimersKeep ==
  ASSUME IInv, NEW o \in Sessions, Timers(o)
  PROVE  IInv'
<1> DEFINE old == objects[o]
<1>0. /\ old \in Objects /\ old.ref \in Refreshers
      /\ refreshes \in 0..MaxRefreshes /\ failed \subseteq Failures /\ broken \subseteq Sessions
      /\ disk \in [Queues -> [process : BOOLEAN, creds : BOOLEAN]]
      /\ map \in [Keys -> MaybeObject] /\ stop \subseteq Sessions
      /\ entries \subseteq Sessions /\ Kept(o)
  BY DEF IInv, TypeOK, Objects, Refreshing
<1>1. CASE TimePasses(o)
  <2> DEFINE new == [old EXCEPT !.valid = Later(old.valid)]
  <2>1. /\ old.made /\ objects' = [objects EXCEPT ![o] = new]
        /\ UNCHANGED <<serviceVars, syncVars, entryVars, threadVars, stop, map, refreshes,
                       disk, failed, broken>>
    BY <1>1, Zenon DEF TimePasses, Update
  <2>2. /\ new \in Objects /\ new.made = old.made /\ new.ref = old.ref
        /\ new.out = old.out /\ new.calls = old.calls
    BY <1>0 DEF Objects, Later, Validities
  <2> HIDE DEF new
  <2>3. objects'[o] = new
    BY <2>1 DEF IInv, TypeOK
  <2>4. Kept(o)'
    BY <1>0, <2>1, <2>2, <2>3, SameFailed DEF Kept, serviceVars
  <2> QED BY <1>0, <2>1, <2>2, <2>4, TimerKeeps
<1>2. CASE Fire(o)
  <2> DEFINE new == [old EXCEPT !.ref = Fired(old.ref)]
  <2>1. /\ old.ref.timer /\ objects' = [objects EXCEPT ![o] = new]
        /\ refreshes < MaxRefreshes /\ refreshes' = refreshes + 1
        /\ UNCHANGED <<serviceVars, syncVars, entryVars, threadVars, stop, map, disk,
                       failed, broken>>
    BY <1>2, Zenon DEF Fire, Update
  <2>2. Fired(old.ref) \in Refreshers /\ Fired(old.ref).inside = old.ref.inside
        /\ Fired(old.ref).refreshing
    BY <1>0 DEF Fired, Refreshers
  <2>3. /\ new \in Objects /\ new.made = old.made /\ new.ref = Fired(old.ref)
        /\ new.out = old.out /\ new.calls = old.calls
    BY <1>0, <2>2 DEF Objects
  <2> HIDE DEF new
  <2>4. objects'[o] = new
    BY <2>1 DEF IInv, TypeOK
  <2>5. Kept(o)'
    BY <1>0, <2>1, <2>2, <2>3, <2>4, SameFailed DEF Kept, serviceVars
  <2>6. old.made
    BY <2>1, UnmadeIsIdle
  <2>7. refreshes' \in 0..MaxRefreshes
    BY <1>0, <2>1, SessionSetupAssumption DEF SessionSetupAssumption
  <2> QED BY <1>0, <2>1, <2>2, <2>3, <2>5, <2>6, <2>7, TimerKeeps
<1>3. CASE Callback(o)
  <2> DEFINE error == Head(old.calls)
             new == [old EXCEPT !.calls = Tail(old.calls)]
  <2>1. /\ old.calls # <<>> /\ objects' = [objects EXCEPT ![o] = new]
        /\ map' = Forget(Key(o), error)
        /\ disk' \in {disk, CleanedUp({QueueOf[o]})}
        /\ failed' = failed \union {Failure(o, error)} /\ stop' = stop \union entries
        /\ UNCHANGED <<serviceVars, syncVars, entryVars, threadVars, refreshes, broken>>
    BY <1>3 DEF Callback, Update
  <2>2. old.made /\ Key(o) \in Keys
    BY <2>1, UnmadeIsIdle, MadeKey DEF IInv
  <2>3. /\ new \in Objects /\ new.made = old.made /\ new.ref = old.ref
        /\ new.out = old.out
    <3>1. old.calls \in Seq(Outcomes \union {"Timeout"})
      BY <1>0 DEF Objects
    <3>2. Tail(old.calls) \in Seq(Outcomes \union {"Timeout"})
      BY <2>1, <3>1
    <3> QED BY <1>0, <3>2 DEF Objects
  <2>0. /\ Failure(o, error) \in Failures /\ Failure(o, error).of = o
        /\ Key(o)' = Key(o) /\ Key(o) \in FailedKeys'
    <3>1. Failure(o, error) \in Failures /\ Failure(o, error).of = o
      BY DEF Failure, Failures
    <3>2. Key(o)' = Key(o)
      BY <2>1 DEF Key, serviceVars
    <3>3. FailedKeys' = {Key(f.of)' : f \in failed'}
      BY DEF FailedKeys
    <3>4. PICK f \in failed' : f.of = o
      BY <2>1, <3>1
    <3>5. Key(f.of)' = Key(o)
      BY <3>2, <3>4 DEF Key
    <3> QED BY <3>1, <3>2, <3>3, <3>4, <3>5
  <2> HIDE DEF new
  <2>4. objects'[o] = new
    BY <2>1 DEF IInv, TypeOK
  <2>5. Kept(o)'
    BY <1>0, <2>0, <2>1, <2>2, <2>3, <2>4 DEF Kept
  <2>6. /\ map' \in [Keys -> MaybeObject]
        /\ \A k \in Keys : map'[k] = map[k] \/ (map'[k] = None /\ k \in FailedKeys')
    BY <1>0, <2>0, <2>1 DEF Forget, MaybeObject
  <2>7. disk' \in [Queues -> [process : BOOLEAN, creds : BOOLEAN]]
    BY <1>0, <2>1, CleanedUpType DEF IInv
  <2>8. /\ stop \subseteq stop' /\ stop' \subseteq Sessions
        /\ failed \subseteq failed' /\ failed' \subseteq Failures
        /\ \A f \in failed' : f \in failed \/ f.of = o
    BY <1>0, <2>0, <2>1, <2>2
  <2> QED BY <1>0, <2>1, <2>2, <2>3, <2>5, <2>6, <2>7, <2>8, TimerKeeps
<1>4. CASE RefreshEnds(o)
  <2>1. /\ old.out # None /\ old.calls = <<>> /\ Ended(o, old, old.out)
        /\ UNCHANGED <<serviceVars, syncVars, entryVars, threadVars, stop, map, refreshes,
                       disk, failed>>
    BY <1>4 DEF RefreshEnds
  <2>2. old.made
    BY <2>1, UnmadeIsIdle
  <2>3. old.out \in Outcomes /\ Key(o) \in FailedKeys
    BY <1>0, <2>1 DEF Objects, Kept
  <2>4. PICK new \in Objects :
          /\ objects' = [objects EXCEPT ![o] = new]
          /\ new.made = old.made /\ new.ref.inside = old.ref.inside
          /\ broken \subseteq broken' /\ broken' \subseteq Sessions
          /\ Kept(o)'
    BY <1>0, <2>1, <2>2, <2>3, EndedObject DEF IInv, TypeOK, serviceVars
  <2> QED BY <1>0, <2>1, <2>2, <2>4, TimerKeeps
<1>5. CASE \E raised \in Outcomes : RefreshReturns(o, raised)
  <2>1. PICK raised \in Outcomes : RefreshReturns(o, raised)
    BY <1>5
  <2>2. PICK answer \in Responses :
          LET outcome == IF raised = "ok" THEN FromResponse(answer, FALSE) ELSE raised
              got     == raised = "ok" /\ answer = "credentials"
              new     == IF got THEN SetCredentials(objects[o]) ELSE objects[o]
              calls   == Callbacks(outcome, new.valid) IN
          /\ IF calls = <<>> THEN Ended(o, new, outcome)
             ELSE /\ Update(o, [new EXCEPT !.out = outcome, !.calls = calls])
                  /\ UNCHANGED broken
          /\ disk' = [disk EXCEPT ![QueueOf[o]] = Cached(@, got)]
    BY <2>1 DEF RefreshReturns
  <2> DEFINE outcome == IF raised = "ok" THEN FromResponse(answer, FALSE) ELSE raised
             got     == raised = "ok" /\ answer = "credentials"
             obj     == IF got THEN SetCredentials(objects[o]) ELSE objects[o]
             calls   == Callbacks(outcome, obj.valid)
  <2>3. /\ calls = <<>> => Ended(o, obj, outcome)
        /\ calls # <<>> => /\ Update(o, [obj EXCEPT !.out = outcome, !.calls = calls])
                           /\ UNCHANGED broken
        /\ disk' = [disk EXCEPT ![QueueOf[o]] = Cached(@, got)]
    BY <2>2
  <2>4. /\ old.ref.refreshing
        /\ UNCHANGED <<serviceVars, syncVars, entryVars, threadVars, stop, map, refreshes,
                       failed>>
    BY <2>1 DEF RefreshReturns
  <2>5. old.made
    BY <2>4, UnmadeIsIdle
  <2>6. outcome \in Outcomes
    BY <2>1, FromResponseType DEF Outcomes
  <2>7. obj \in Objects /\ obj.made = old.made /\ obj.ref = old.ref
    BY <1>0 DEF SetCredentials, Objects, Validities
  <2>8. disk' \in [Queues -> [process : BOOLEAN, creds : BOOLEAN]]
    <3>1. QueueOf[o] \in Queues
      BY SessionSetupAssumption DEF SessionSetupAssumption
    <3>2. got \in BOOLEAN
      OBVIOUS
    <3> HIDE DEF got
    <3>3. Cached(disk[QueueOf[o]], got) \in [process : BOOLEAN, creds : BOOLEAN]
      BY <1>0, <3>1, <3>2, DirectoryType
    <3> QED BY <1>0, <2>3, <3>3
  <2>9. calls \in Seq(Outcomes \union {"Timeout"})
    BY <2>6, <2>7, CallbacksType DEF Objects
  <2> HIDE DEF outcome, got, obj
  <2>10. CASE calls = <<>>
    <3>1. PICK new \in Objects :
            /\ objects' = [objects EXCEPT ![o] = new]
            /\ new.made = obj.made /\ new.ref.inside = obj.ref.inside
            /\ broken \subseteq broken' /\ broken' \subseteq Sessions
            /\ Kept(o)'
      BY <1>0, <2>3, <2>4, <2>5, <2>6, <2>7, <2>10, EndedObject
      DEF IInv, TypeOK, serviceVars
    <3> QED BY <1>0, <2>4, <2>5, <2>7, <2>8, <3>1, TimerKeeps
  <2>11. CASE calls # <<>>
    <3> HIDE DEF calls
    <3> DEFINE new == [obj EXCEPT !.out = outcome, !.calls = calls]
    <3>1. objects' = [objects EXCEPT ![o] = new] /\ UNCHANGED broken
      BY <2>3, <2>11 DEF Update
    <3>2. /\ new \in Objects /\ new.made = obj.made /\ new.ref = obj.ref
          /\ new.calls = calls
      BY <2>6, <2>7, <2>9 DEF Objects
    <3> HIDE DEF new
    <3>3. objects'[o] = new
      BY <3>1 DEF IInv, TypeOK
    <3>4. Kept(o)'
      BY <2>4, <2>5, <2>7, <2>11, <3>2, <3>3 DEF Kept
    <3> QED BY <1>0, <2>4, <2>5, <2>7, <2>8, <3>1, <3>2, <3>4, TimerKeeps
  <2> QED BY <2>10, <2>11
<1> QED BY <1>1, <1>2, <1>3, <1>4, <1>5 DEF Timers

LEMMA StepKeeps == IInv /\ [Next]_vars => IInv'
<1> SUFFICES ASSUME IInv, [Next]_vars PROVE IInv'
  OBVIOUS
<1>1. ASSUME NEW s \in Sessions, Assign(s) \/ Unassign(s) \/ Thread(s) \/ Timers(s)
      PROVE  IInv'
  BY <1>1, ServiceKeeps, GoesKeeps, BeginKeeps, LeaveKeeps, TimersKeep DEF Thread
<1>2. ASSUME NEW s \in Sessions, Create(s)
      PROVE  IInv'
  BY <1>2, CreateFailsKeeps, ShareKeeps, MakeKeeps DEF Create
<1>3. CASE Sync
  BY <1>2, <1>3, SyncKeeps, RemoveKeeps, CleanupKeeps, EnterKeeps DEF Sync
<1>4. CASE Shutdown \/ CleanupAll
  BY <1>4, SyncKeeps, CleanupKeeps
<1>5. CASE UNCHANGED vars
  <2>1. UNCHANGED <<serviceVars, syncVars, entryVars, threadVars, stop, credVars>>
    BY <1>5 DEF vars
  <2>2. TypeOK'
    BY <2>1 DEF IInv, TypeOK, serviceVars, syncVars, entryVars, threadVars, credVars
  <2>3. KnownThreads' /\ Places' /\ MadeOnce'
    BY <2>1, SameThreads, SamePlaces, SameMade
    DEF IInv, serviceVars, syncVars, entryVars, threadVars, credVars
  <2>4. (OwnKeys /\ Counted /\ Refreshing)'
    BY <2>1, SameCredentials DEF serviceVars, syncVars, threadVars, credVars
  <2>5. Managed'
    BY <2>1, SameManaged DEF IInv, serviceVars, syncVars, threadVars, credVars
  <2> QED BY <2>2, <2>3, <2>4, <2>5 DEF IInv
<1> QED BY <1>1, <1>3, <1>4, <1>5 DEF Next

LEMMA Invariance == Spec => []IInv
  BY InitIInv, StepKeeps, PTL DEF Spec

(***************************************************************************)
(* The files of a queue.                                                   *)
(***************************************************************************)

\* The two halves of MapHasFiles.
FilesThere == \A k \in Keys : map[k] # None /\ OneRole(k[1]) => disk[k[1]].process

Dropped == \A k \in Keys : map[k] # None => \A f \in failed : f.of = map[k] => f.timeout

LEMMA Halves == MapHasFiles <=> FilesThere /\ Dropped
  BY DEF MapHasFiles, FilesThere, Dropped

LEMMA SameRoles == [Next]_vars => UNCHANGED role
  BY DEF Next, Assign, Unassign, Thread, Begin, LogFails, Run, RunEnds, RunFails, Goes,
         Leave, Timers, TimePasses, Fire, Callback, RefreshEnds, RefreshReturns, Sync,
         BeginSync, StopRemoved, Remove, CleanupCredentials, Create, SetupFails,
         LogRaises, DirectoryFails, EndsLoop, NoRole, ShareCredentials, MakeCredentials,
         NoCredentials, CredentialsRefused, With, Submit, Register, EndSync, Shutdown,
         CleanupAll, serviceVars, vars

\* The directory is the queue's, the key has the role as well: where the jobs of
\* a queue name one role, its map entry is the one for that role.
LEMMA OneKey ==
  ASSUME IInv, NEW k \in Keys, OneRole(k[1]), map[k] # None,
         NEW s \in Sessions, role[s] # None, QueueOf[s] = k[1]
  PROVE  k = Key(s)
<1>1. /\ map[k] \in Sessions /\ objects[map[k]].made /\ Key(map[k]) = k
      /\ role[map[k]] # None
  BY DEF IInv, TypeOK, MaybeObject, OwnKeys, MadeOnce
<1>2. QueueOf[map[k]] = k[1]
  BY <1>1 DEF Key
<1>3. role[map[k]] = role[s]
  BY <1>1, <1>2 DEF OneRole
<1> QED BY <1>1, <1>2, <1>3 DEF Key

\* What is cleaned up are queues whose credentials are no longer handed out.
LEMMA CleanedFiles ==
  ASSUME IInv, FilesThere, UNCHANGED role, NEW gone,
         disk' = CleanedUp(gone), map' \in [Keys -> MaybeObject],
         \A k \in Keys : map'[k] \in {map[k], None},
         \A k \in Keys : k[1] \in gone /\ OneRole(k[1]) => map'[k] = None
  PROVE  FilesThere'
<1>1. \A k \in Keys : k[1] \in Queues
  BY DEF Keys
<1>2. \A q \in Queues \ gone : disk'[q] = disk[q]
  BY CleanedUpType DEF IInv
<1>3. ASSUME NEW k \in Keys, map'[k] # None, OneRole(k[1])'
      PROVE  disk'[k[1]].process
  <2>1. OneRole(k[1])
    BY <1>3 DEF OneRole
  <2> QED BY <1>1, <1>2, <1>3, <2>1 DEF FilesThere
<1> QED BY <1>3 DEF FilesThere

LEMMA FilesKept ==
  ASSUME IInv, FilesThere, [Next]_vars
  PROVE  FilesThere'
<1>0. UNCHANGED role
  BY SameRoles
<1>1. CASE UNCHANGED <<map, disk>>
  BY <1>0, <1>1 DEF FilesThere, OneRole
<1>2. CASE CleanupCredentials
  <2> DEFINE over == {k \in Keys : /\ map[k] # None
                                   /\ k[1] \notin AssignedQueues(response)}
  <2>1. /\ map' = [k \in Keys |-> IF k \in over THEN None ELSE map[k]]
        /\ disk' = CleanedUp({k[1] : k \in over})
    BY <1>2 DEF CleanupCredentials
  <2>2. \A k \in Keys : k[1] \in {l[1] : l \in over} => map'[k] = None
    BY <2>1
  <2>3. map' \in [Keys -> MaybeObject] /\ \A k \in Keys : map'[k] \in {map[k], None}
    BY <2>1 DEF IInv, TypeOK, MaybeObject
  <2> QED BY <1>0, <2>1, <2>2, <2>3, CleanedFiles
<1>3. CASE CleanupAll
  BY <1>3 DEF CleanupAll, FilesThere
<1>4. ASSUME NEW s \in Sessions, NoCredentials(s) \/ CredentialsRefused(s)
      PROVE  FilesThere'
  <2>1. /\ role[s] # None /\ ~ Shared(Key(s)) /\ UNCHANGED map
        /\ disk' = CleanedUp({QueueOf[s]})
    BY <1>4 DEF NoCredentials, CredentialsRefused
  <2>2. Key(s) \in Keys /\ map[Key(s)] = None /\ Key(s)[1] = QueueOf[s]
    BY <2>1, SessionSetupAssumption
    DEF Shared, Key, Keys, IInv, TypeOK, SessionSetupAssumption
  <2>3. \A k \in Keys : k[1] \in {QueueOf[s]} /\ OneRole(k[1]) => map'[k] = None
    BY <2>1, <2>2, OneKey
  <2> QED BY <1>0, <2>1, <2>3, CleanedFiles DEF IInv, TypeOK
<1>5. ASSUME NEW s \in Sessions, MakeCredentials(s)
      PROVE  FilesThere'
  <2>1. /\ map' = [map EXCEPT ![Key(s)] = s]
        /\ \E got \in BOOLEAN :
             disk' = [disk EXCEPT ![QueueOf[s]] = Cached(Installed(@), got)]
    BY <1>5, MadeFiles
  <2>2. PICK got \in BOOLEAN :
          disk' = [disk EXCEPT ![QueueOf[s]] = Cached(Installed(@), got)]
    BY <2>1
  <2>3. QueueOf[s] \in Queues /\ disk \in [Queues -> [process : BOOLEAN, creds : BOOLEAN]]
    BY SessionSetupAssumption DEF IInv, TypeOK, SessionSetupAssumption
  <2>4. Cached(Installed(disk[QueueOf[s]]), got).process
    BY <2>3, DirectoryType
  <2>5. \A k \in Keys : k[1] \in Queues /\ (k # Key(s) => map'[k] = map[k])
    BY <2>1 DEF Keys, IInv, TypeOK
  <2>6. Key(s)[1] = QueueOf[s]
    BY DEF Key
  <2>7. \A q \in Queues : disk'[q] = IF q = QueueOf[s]
                                     THEN Cached(Installed(disk[QueueOf[s]]), got)
                                     ELSE disk[q]
    BY <2>2, <2>3
  <2> QED BY <1>0, <2>4, <2>5, <2>6, <2>7 DEF FilesThere, OneRole
<1>6. ASSUME NEW o \in Sessions, NEW raised \in Outcomes, RefreshReturns(o, raised)
      PROVE  FilesThere'
  <2>1. /\ UNCHANGED map
        /\ \E got \in BOOLEAN : disk' = [disk EXCEPT ![QueueOf[o]] = Cached(@, got)]
    <3>1. \E answer \in Responses :
            disk' = [disk EXCEPT ![QueueOf[o]] =
                      Cached(@, raised = "ok" /\ answer = "credentials")]
      BY <1>6, Zenon DEF RefreshReturns
    <3>2. UNCHANGED map
      BY <1>6 DEF RefreshReturns
    <3> QED BY <3>1, <3>2, Zenon
  <2>2. PICK got \in BOOLEAN : disk' = [disk EXCEPT ![QueueOf[o]] = Cached(@, got)]
    BY <2>1
  <2>3. QueueOf[o] \in Queues /\ disk \in [Queues -> [process : BOOLEAN, creds : BOOLEAN]]
    BY SessionSetupAssumption DEF IInv, TypeOK, SessionSetupAssumption
  <2>4. Cached(disk[QueueOf[o]], got).process = disk[QueueOf[o]].process
    BY <2>3, DirectoryType
  <2>5. \A k \in Keys : k[1] \in Queues
    BY DEF Keys
  <2>6. \A q \in Queues : disk'[q].process = disk[q].process
    BY <2>2, <2>3, <2>4
  <2> QED BY <1>0, <2>1, <2>5, <2>6 DEF FilesThere, OneRole
<1>7. ASSUME NEW o \in Sessions, Callback(o)
      PROVE  FilesThere'
  <2> DEFINE error == Head(objects[o].calls)
  <2>1. /\ map' = Forget(Key(o), error)
        /\ disk' = IF error = "Timeout" \/ map[Key(o)] = None THEN disk
                   ELSE CleanedUp({QueueOf[o]})
        /\ objects[o].calls # <<>>
    BY <1>7 DEF Callback
  <2>2. Key(o) \in Keys /\ Key(o)[1] = QueueOf[o]
    BY <2>1, UnmadeIsIdle, MadeKey DEF IInv, Key
  <2>3. /\ map' \in [Keys -> MaybeObject] /\ \A k \in Keys : map'[k] \in {map[k], None}
        /\ error # "Timeout" => map'[Key(o)] = None
    BY <2>1, <2>2 DEF Forget, IInv, TypeOK, MaybeObject
  <2>4. CASE disk' = disk
    BY <1>0, <2>3, <2>4 DEF FilesThere, OneRole
  <2>5. CASE error # "Timeout" /\ disk' = CleanedUp({QueueOf[o]})
    <3>1. role[o] # None
      BY <2>1, UnmadeIsIdle DEF IInv, MadeOnce
    <3>2. \A k \in Keys : k[1] \in {QueueOf[o]} /\ OneRole(k[1]) => map'[k] = None
      BY <2>2, <2>3, <2>5, <3>1, OneKey
    <3> QED BY <1>0, <2>3, <2>5, <3>2, CleanedFiles
  <2> QED BY <2>1, <2>4, <2>5
<1>8. CASE UNCHANGED vars
  BY <1>1, <1>8 DEF vars, credVars
<1>9. ASSUME NEW s \in Sessions, Assign(s) \/ Unassign(s) \/ Thread(s) \/ Timers(s)
      PROVE  FilesThere'
  <2>1. CASE Assign(s) \/ Unassign(s)
    BY <1>1, <2>1 DEF Assign, Unassign, credVars
  <2>2. CASE Thread(s)
    BY <1>1, <2>2 DEF Thread, Begin, LogFails, Run, RunEnds, RunFails, Goes, Leave, credVars
  <2>3. CASE Timers(s)
    <3>1. CASE TimePasses(s) \/ Fire(s) \/ RefreshEnds(s)
      BY <1>1, <3>1 DEF TimePasses, Fire, RefreshEnds
    <3> QED BY <1>6, <1>7, <2>3, <3>1 DEF Timers
  <2> QED BY <1>9, <2>1, <2>2, <2>3
<1>10. CASE Sync
  <2>1. ASSUME NEW s \in Sessions, Create(s)
        PROVE  FilesThere'
    <3>1. CASE \/ SetupFails(s) \/ LogRaises(s) \/ DirectoryFails(s)
               \/ NoRole(s) \/ ShareCredentials(s)
      BY <1>1, <3>1 DEF SetupFails, LogRaises, DirectoryFails, EndsLoop, NoRole,
                        ShareCredentials, credVars
    <3> QED BY <1>4, <1>5, <2>1, <3>1 DEF Create
  <2>2. CASE \/ BeginSync \/ Submit \/ Register \/ EndSync
             \/ \E s \in Sessions : StopRemoved(s) \/ Remove(s)
    BY <1>1, <2>2 DEF BeginSync, Submit, Register, EndSync, StopRemoved, Remove, credVars
  <2> QED BY <1>2, <1>10, <2>1, <2>2 DEF Sync
<1>11. CASE Shutdown
  BY <1>1, <1>11 DEF Shutdown, credVars
<1> QED BY <1>3, <1>8, <1>9, <1>10, <1>11 DEF Next

\* An object whose refresh was refused for good leaves the map with the call of
\* failure_callback, and is not put there again: who is made is new.
LEMMA DroppedKept ==
  ASSUME IInv, Dropped, [Next]_vars
  PROVE  Dropped'
<1>1. ASSUME UNCHANGED failed, \A k \in Keys : map'[k] \in {map[k], None}
      PROVE  Dropped'
  BY <1>1 DEF Dropped
<1>2. ASSUME NEW s \in Sessions, MakeCredentials(s)
      PROVE  Dropped'
  <2>1. With(s, s) /\ map' = [map EXCEPT ![Key(s)] = s]
    BY <1>2, MadeFiles
  <2>2. s \in response /\ s \notin entries /\ at = None /\ UNCHANGED failed
    BY <2>1, WithKeeps DEF MaybeObject
  <2>3. ~ objects[s].made
    BY <2>2, SessionSetupAssumption DEF IInv, MadeOnce, SessionSetupAssumption
  <2>4. \A f \in failed : f.of # s
    BY <2>3 DEF IInv, Refreshing, Kept
  <2>5. \A k \in Keys : map'[k] \in {map[k], s}
    BY <2>1 DEF IInv, TypeOK
  <2> QED BY <2>2, <2>4, <2>5 DEF Dropped
<1>3. ASSUME NEW o \in Sessions, Callback(o)
      PROVE  Dropped'
  <2> DEFINE error == Head(objects[o].calls)
  <2>1. /\ map' = Forget(Key(o), error) /\ failed' = failed \union {Failure(o, error)}
        /\ objects[o].calls # <<>>
    BY <1>3 DEF Callback
  <2>2. Key(o) \in Keys
    BY <2>1, UnmadeIsIdle, MadeKey DEF IInv
  <2>3. /\ \A k \in Keys : map'[k] \in {map[k], None}
        /\ error # "Timeout" => map'[Key(o)] = None
    BY <2>1, <2>2 DEF Forget, IInv, TypeOK
  <2>4. /\ Failure(o, error).of = o
        /\ Failure(o, error).timeout = (error = "Timeout")
    BY DEF Failure
  <2> HIDE DEF error
  <2>5. ASSUME NEW k \in Keys, map'[k] # None, NEW f \in failed', f.of = map'[k]
        PROVE  f.timeout
    <3>1. map'[k] = map[k] /\ map[k] # None
      BY <2>3, <2>5
    <3>2. CASE f \in failed
      BY <2>5, <3>1, <3>2 DEF Dropped
    <3>3. CASE f = Failure(o, error)
      <4>1. map[k] = o
        BY <2>4, <2>5, <3>1, <3>3
      <4>2. k = Key(o)
        BY <3>1, <4>1 DEF IInv, OwnKeys
      <4>3. error = "Timeout"
        BY <2>3, <2>5, <4>2
      <4> QED BY <2>4, <3>3, <4>3
    <3> QED BY <2>1, <2>5, <3>2, <3>3
  <2> QED BY <2>5 DEF Dropped
<1>4. CASE UNCHANGED vars \/ Shutdown
  BY <1>1, <1>4 DEF vars, credVars, Shutdown
<1>5. CASE CleanupAll
  BY <1>1, <1>5 DEF CleanupAll
<1>6. ASSUME NEW s \in Sessions, Assign(s) \/ Unassign(s) \/ Thread(s) \/ Timers(s)
      PROVE  Dropped'
  <2>1. CASE Assign(s) \/ Unassign(s)
    BY <1>1, <2>1 DEF Assign, Unassign, credVars
  <2>2. CASE Thread(s)
    BY <1>1, <2>2 DEF Thread, Begin, LogFails, Run, RunEnds, RunFails, Goes, Leave, credVars
  <2>3. CASE Timers(s)
    <3>1. CASE \/ TimePasses(s) \/ Fire(s) \/ RefreshEnds(s)
               \/ \E raised \in Outcomes : RefreshReturns(s, raised)
      BY <1>1, <3>1 DEF TimePasses, Fire, RefreshEnds, RefreshReturns
    <3> QED BY <1>3, <2>3, <3>1 DEF Timers
  <2> QED BY <1>6, <2>1, <2>2, <2>3
<1>7. CASE Sync
  <2>1. ASSUME NEW s \in Sessions, Create(s)
        PROVE  Dropped'
    <3>1. CASE \/ SetupFails(s) \/ LogRaises(s) \/ DirectoryFails(s)
               \/ CredentialsRefused(s)
      BY <1>1, <3>1 DEF SetupFails, LogRaises, DirectoryFails, EndsLoop,
                        CredentialsRefused, credVars
    <3>2. CASE NoRole(s) \/ ShareCredentials(s) \/ NoCredentials(s)
      BY <1>1, <3>2 DEF NoRole, ShareCredentials, NoCredentials, With
    <3> QED BY <1>2, <2>1, <3>1, <3>2 DEF Create
  <2>2. CASE \/ BeginSync \/ Submit \/ Register \/ EndSync
             \/ \E s \in Sessions : StopRemoved(s) \/ Remove(s)
    BY <1>1, <2>2 DEF BeginSync, Submit, Register, EndSync, StopRemoved, Remove, credVars
  <2>3. CASE CleanupCredentials
    BY <1>1, <2>3 DEF CleanupCredentials
  <2> QED BY <1>7, <2>1, <2>2, <2>3 DEF Sync
<1> QED BY <1>4, <1>5, <1>6, <1>7 DEF Next

LEMMA MapKept ==
  ASSUME IInv, MapHasFiles, [Next]_vars
  PROVE  MapHasFiles'
<1>1. FilesThere' /\ Dropped'
  BY Halves, FilesKept, DroppedKept
<1> QED BY <1>1 DEF MapHasFiles, FilesThere, Dropped

(***************************************************************************)
(* The theorems.                                                           *)
(***************************************************************************)

\* The type invariant; it needs that no refresher counts more threads than
\* there are Sessions (AwsCredentialsRefresher._context_count).
THEOREM TypeCorrect == Spec => []TypeOK
<1>1. IInv => TypeOK
  BY DEF IInv
<1> QED BY Invariance, <1>1, PTL

\* Credentials that Sessions use are refreshed, however many threads enter and
\* leave the refresher's context, until a failure has been announced or the
\* refresh was interrupted or broke (AwsCredentialsRefresher).
THEOREM CredentialsRefreshed == Spec => []HeldMeansRefreshed
<1>1. IInv => HeldMeansRefreshed
  <2> SUFFICES ASSUME IInv, NEW s \in Inside, creds[s] # None, Key(s) \notin FailedKeys
               PROVE  LET o == objects[creds[s]] IN
                      o.ref.timer \/ o.ref.refreshing \/ creds[s] \in broken
    BY DEF HeldMeansRefreshed
  <2>1. s \in Sessions /\ creds[s] \in Sessions /\ Key(creds[s]) = Key(s)
        /\ s \in Within(creds[s])
    BY DEF Inside, Within, IInv, TypeOK, MaybeObject, OwnKeys
  <2>2. objects[creds[s]].ref.inside # 0
    <3>1. Within(creds[s]) \in SUBSET Sessions
      BY DEF Within
    <3>2. IsFiniteSet(Within(creds[s]))
      BY <3>1, WithinFits
    <3> QED BY <2>1, <3>2, FS_EmptySet DEF IInv, Counted
  <2> QED BY <2>1, <2>2 DEF IInv, Refreshing, Kept
<1> QED BY Invariance, <1>1, PTL

\* What a Session uses is what the scheduler manages and hands to later Sessions
\* of the queue, and, where the jobs of its queue all name the same role, its
\* files are there, as long as no refresh of its queue and role has failed.
THEOREM CredentialsManaged == Spec => []UsesManagedCredentials
<1>1. IInv /\ MapHasFiles => UsesManagedCredentials
  <2> SUFFICES ASSUME IInv, MapHasFiles, NEW s \in Inside \ stop, creds[s] # None,
                      mode = "run", Key(s) \notin FailedKeys
               PROVE  /\ map[Key(s)] = creds[s]
                      /\ OneRole(QueueOf[s]) => disk[QueueOf[s]].process
    BY DEF UsesManagedCredentials
  <2>1. s \in Sessions /\ map[Key(s)] = creds[s]
    BY DEF Inside, IInv, Managed
  <2>2. Key(s) \in Keys
    <3>1. creds[s] \in Sessions /\ objects[creds[s]].made /\ Key(creds[s]) = Key(s)
      BY <2>1 DEF IInv, TypeOK, MaybeObject, OwnKeys
    <3>2. Key(creds[s]) \in Keys
      BY <3>1, MadeKey DEF IInv
    <3> QED BY <3>1, <3>2
  <2> QED BY <2>1, <2>2 DEF MapHasFiles, Key
<1>2. Init => MapHasFiles
  BY DEF Init, MapHasFiles
<1>3. IInv /\ MapHasFiles /\ [Next]_vars => MapHasFiles'
  BY MapKept
<1> QED BY Invariance, <1>1, <1>2, <1>3, PTL DEF Spec

\* The scheduler never hands out credentials whose refresh was refused for good,
\* nor, where the jobs of a queue all name the same role, credentials whose files
\* were deleted (_queue_credentials_refresh_failed,
\* _cleanup_queue_aws_credentials, QueueBoto3Session.__init__).
THEOREM FilesExist == Spec => []MapHasFiles
<1>1. Init => MapHasFiles
  BY DEF Init, MapHasFiles
<1>2. IInv /\ MapHasFiles /\ [Next]_vars => MapHasFiles'
  BY MapKept
<1> QED BY Invariance, <1>1, <1>2, PTL DEF Spec

\* Cleaning up after the last Session of a user hits no Session that works,
\* although wait() returns before a thread has begun: such a thread was told to
\* stop and starts nothing (SessionUserCleanupManager.deregister, Session.wait).
THEOREM KillsNoWork == Spec => []NoStrayKill
<1>1. IInv => NoStrayKill
  BY DEF IInv, KnownThreads
<1> QED BY Invariance, <1>1, PTL
================================================================================
