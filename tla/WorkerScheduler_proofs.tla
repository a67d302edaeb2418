------------------------ MODULE WorkerScheduler_proofs ------------------------
(***************************************************************************)
(* The sync loop of WorkerScheduler keeps the contract under which Session *)
(* is proved correct, and loses no completion: for any number of Sessions  *)
(* and any pipelines.                                                      *)
(***************************************************************************)
EXTENDS WorkerScheduler, SessionOutcome_proofs

(***************************************************************************)
(* The strengthening: what relates the scheduler, the service and the      *)
(* Sessions.                                                               *)
(***************************************************************************)
Places == {"top", "clear", "snapshot", "gate", "request", "answer", "remove",
           "removing", "create", "register", "look", "apply", "wait", "drain",
           "stopAll", "exited"}

OwnAssigned(s) == Own(s) \intersect svcAssigned

\* what the service knows once it has taken in the request
Told(a) == IF request[a] = "none" THEN svc[a] ELSE request[a]

\* A status the service may be told and what is reported are the same, but
\* for an action whose details were missing.
Agrees(status, a) == Done(status) =>
  /\ Done(reported[a])
  /\ "entity" \in Faults \/ status = reported[a]

LoopTypes ==
  /\ at \in Places
  /\ request \in [Actions -> Statuses] /\ svc \in [Actions -> Statuses]
  /\ listed \subseteq Sessions /\ todo \subseteq Sessions
  /\ svcClosed \subseteq Sessions
  /\ lists \in [Sessions -> SUBSET Actions]
  /\ cancels \subseteq Actions
  /\ svcAssigned \subseteq Actions

\* The map has the last report or none, and nothing comes from elsewhere.
MapCurrent ==
  /\ assigned \subseteq svcAssigned
  /\ \A a \in Actions : updates[a].status \in {"none", reported[a]}
  /\ \A a \in Actions : Agrees(svc[a], a)

\* While a request may be sent: it takes back no outcome, and what it does not
\* tell is still in the map.
InFlight ==
  at \in {"gate", "request"} => \A a \in Actions :
    /\ Agrees(request[a], a)
    /\ Done(svc[a]) => request[a] = "none" \/ Done(request[a])
    /\ Done(reported[a]) /\ Told(a) # reported[a] =>
         updates[a].status = reported[a]

\* The entries that will be deleted have been told.
SentIsRequested ==
  /\ at \in {"gate", "request", "answer"} =>
       \A a \in Actions : updates[a].sent => request[a] = updates[a].status
  /\ at = "answer" =>
       \A a \in Actions : request[a] # "none" => svc[a] = request[a]

\* The response at hand is what the service has decided: it decides nothing
\* else before the next request.
Response ==
  /\ at \in {"answer", "remove", "removing", "create", "register", "look", "apply"} =>
       \A s \in Sessions : lists[s] = {a \in OwnAssigned(s) : ~ Done(svc[a])}
  /\ at \in {"answer", "remove", "removing"} =>
       listed = {SessionOf[a] : a \in svcAssigned} \ svcClosed

\* The Sessions that each phase of a sync still has to do.
Phases ==
  /\ at \in {"remove", "removing"} => todo \subseteq registered \ listed
  /\ at = "removing" => session \in todo /\ stop[session]
  /\ at \in {"create", "register"} =>
       /\ listed \subseteq registered
       /\ \A s \in todo : /\ OwnAssigned(s) # {}
                          /\ pc[s] = "new" \/ (at = "register" /\ session = s)
  /\ at = "register" => session \in todo /\ pc[session] # "new"
  /\ at \in {"look", "apply", "stopAll"} => todo \subseteq registered
  /\ at = "apply" => session \in todo /\ (gone => pc[session] = "done")

\* A Session that was created is registered until the service has closed it.
Lives ==
  /\ \A s \in Sessions : pc[s] # "new" =>
       s \in registered \union svcClosed \/ (at = "register" /\ session = s)
  /\ \A s \in registered : OwnAssigned(s) # {}

\* The service learns what failed with the creation of a Session before the
\* creation is tried again.
Fresh ==
  \A a \in Actions :
    pc[SessionOf[a]] = "new" /\ Done(reported[a]) =>
      /\ at \in {"gate", "request"} => Done(request[a]) \/ Done(svc[a])
      /\ at \in {"answer", "remove", "removing"} => Done(svc[a])
      /\ at \in {"create", "register"} /\ SessionOf[a] \in todo => Done(svc[a])

Link == /\ LoopTypes /\ MapCurrent /\ NoCompletionLost /\ InFlight
        /\ SentIsRequested /\ Response /\ Phases /\ Lives /\ Fresh

SysInv == TypeOK /\ OutcomeInv /\ Link

(***************************************************************************)
(* What the threads of a Session do to what the scheduler relies on.       *)
(***************************************************************************)
\* The reports of a step of Session s, on actions of its own: what was complete
\* stays so, and a Session that has not been created reports nothing.
Reports(s) ==
  \A a \in Actions :
    \/ updates'[a] = updates[a] /\ reported'[a] = reported[a]
    \/ /\ updates'[a] = Recorded(updates[a], reported'[a])
       /\ reported'[a] # "none"
       /\ Done(reported[a]) => Done(reported'[a])
       /\ SessionOf[a] = s /\ pc[s] # "new"

LEMMA ReportReports ==
  ASSUME TypeOK, NEW s \in Sessions, NEW st, NEW idle, Report(s, st, idle),
         pc[s] # "new",
         \A a \in Actions : st[a] # "none" =>
           a \in Own(s) /\ (Completed(a) => st[a] \in CompletedStatuses)
  PROVE  Reports(s)
BY DEF Report, Reports, Completed, Done, Own

LEMMA ThreadReports ==
  ASSUME TypeOK, NEW s \in Sessions, SessionInv(s), SessionThread(s)
  PROVE  Reports(s)
<1>0. /\ Queued(s) \subseteq Own(s) /\ Cancelable(s) \subseteq Own(s)
      /\ current[s] # None => current[s] \in Own(s)
      /\ target[s] # None => target[s] \in Own(s)
  BY HeldOwn
<1>1. CASE DequeueFails(s)
  <2>1. /\ Report(s, One(Front(s), "FAILED"), FALSE) /\ pc[s] # "new"
        /\ Queued(s) # {}
    BY <1>1 DEF DequeueFails, ReadyToStart
  <2>2. Front(s) \in Own(s)
    BY <1>0, <2>1, FrontIn
  <2>3. \A a \in Actions : One(Front(s), "FAILED")[a] # "none" =>
          a \in Own(s) /\ One(Front(s), "FAILED")[a] \in CompletedStatuses
    BY <2>2 DEF One, CompletedStatuses
  <2> QED BY <2>1, <2>3, ReportReports
<1>2. CASE StartFails(s)
  <2>1. Queued(s) # {} /\ pc[s] # "new"
    BY <1>2 DEF StartFails, ReadyToStart
  <2> DEFINE left   == Cancelable(s) \ {Front(s)}
             failed == IF target[s] # None THEN target[s] ELSE Front(s)
             st     == Both(failed, "FAILED", left)
  <2>2. Report(s, st, FALSE)
    BY <1>2, Zenon DEF StartFails
  <2>3. failed \in Own(s) /\ left \subseteq Own(s)
    BY <1>0, <2>1, FrontIn
  <2>4. \A a \in Actions : st[a] # "none" =>
          a \in Own(s) /\ st[a] \in CompletedStatuses
    BY <2>3 DEF Both, CompletedStatuses
  <2> HIDE DEF st
  <2> QED BY <2>1, <2>2, <2>4, ReportReports
<1>3. CASE Interrupt(s)
  <2>1. CASE current[s] = None
    BY <1>3, <2>1 DEF Interrupt, schedVars, Reports
  <2>2. CASE current[s] # None
    <3>1. Report(s, One(current[s], stopResult[s]), FALSE) /\ pc[s] # "new"
      BY <1>3, <2>2 DEF Interrupt, Goto
    <3>2. stopResult[s] \in CompletedStatuses
      BY DEF TypeOK, CompletedStatuses
    <3>3. \A a \in Actions : One(current[s], stopResult[s])[a] # "none" =>
            a \in Own(s) /\ One(current[s], stopResult[s])[a] \in CompletedStatuses
      BY <1>0, <2>2, <3>2 DEF One
    <3> QED BY <3>1, <3>3, ReportReports
  <2> QED BY <2>1, <2>2
<1>4. CASE TellNeverAttempted(s)
  <2>1. Report(s, One(popped[s], "NEVER_ATTEMPTED"), Idle(s)) /\ pc[s] = "tell"
    BY <1>4 DEF TellNeverAttempted, Goto
  <2>2. popped[s] \in Own(s)
    BY <2>1 DEF SessionInv, Cancelling, HoldsOwn, OptionalSet
  <2> QED BY <2>1, <2>2, ReportReports DEF One, CompletedStatuses
<1>5. CASE \/ Run(s) \/ CheckStop(s) \/ NothingToStart(s) \/ DequeueRaises(s)
           \/ StartAction(s) \/ SnapshotQueue(s) \/ (\E a \in Actions : PopAction(s, a))
           \/ RemoveAction(s) \/ PlanExits(s)
  BY <1>5 DEF Run, CheckStop, NothingToStart, DequeueRaises, StartAction,
       SnapshotQueue, PopAction, RemoveAction, PlanExits, schedVars, history, Reports
<1>6. CASE \/ CancelRunning(s) \/ ExitEnvironment(s) \/ StepOver(s)
           \/ StepTimesOut(s) \/ StepsDone(s) \/ Close(s) \/ WakeScheduler(s)
           \/ Finish(s)
  BY <1>6 DEF CancelRunning, ExitEnvironment, StepOver, StepTimesOut, StepsDone,
       Close, WakeScheduler, Finish, schedVars, history, Reports
<1> QED BY <1>1, <1>2, <1>3, <1>4, <1>5, <1>6 DEF SessionThread

LEMMA CallbackReports ==
  ASSUME TypeOK, NEW s \in Sessions, SessionInv(s), OpenjdThread(s)
  PROVE  Reports(s)
<1>1. ASSUME NEW state \in EndStates \union {"RUNNING"}, Updated(s, state)
      PROVE  Reports(s)
  <2>1. CASE UNCHANGED <<schedVars, reported>>
    BY <2>1 DEF schedVars, Reports
  <2>2. CASE \E a \in {current[s], target[s]} \ {None} :
               /\ HandleUpdate(s, state, a)
               /\ ~ interrupted[s] /\ current[s] # None
    <3>1. PICK a \in {current[s], target[s]} \ {None} :
            /\ HandleUpdate(s, state, a)
            /\ ~ interrupted[s] /\ current[s] # None
      BY <2>2
    <3>2. PICK never, idle :
            /\ Report(s, Both(a, ReportedAs(state), never), idle)
            /\ never \subseteq Cancelable(s)
      BY <3>1 DEF HandleUpdate
    <3>3. a \in Own(s) /\ never \subseteq Own(s) /\ pc[s] # "new"
      BY <3>1, <3>2, HeldOwn DEF SessionInv, HoldsOwn
    <3>4. ~ Completed(a)
      BY <3>1 DEF SessionInv, Undecided, Cancelling
    <3> QED BY <3>2, <3>3, <3>4, ReportReports DEF Both, CompletedStatuses
  <2> QED BY <1>1, <2>1, <2>2 DEF Updated
<1>2. CASE Progress(s)
  BY <1>1, <1>2 DEF Progress
<1>3. CASE ProcessesEnd(s)
  BY <1>3 DEF ProcessesEnd, ProcessEnds, schedVars, history, Reports
<1>4. CASE Callback(s)
  <2>1. pendingCb[s] \in EndStates
    BY <1>4 DEF Callback, TypeOK
  <2> QED BY <1>1, <1>4, <2>1 DEF Callback
<1> QED BY <1>2, <1>3, <1>4 DEF OpenjdThread

\* The threads of a Session neither enter nor leave it in _sessions, begin no
\* other and take no stop back.
Proceeds ==
  /\ UNCHANGED <<registered, assigned>>
  /\ \A s \in Sessions : /\ pc'[s] = "new" <=> pc[s] = "new"
                         /\ pc[s] = "done" => pc'[s] = "done"
                         /\ stop[s] => stop'[s]

LEMMA ThreadProceeds ==
  ASSUME TypeOK, NEW s \in Sessions, SessionThread(s) \/ OpenjdThread(s)
  PROVE  Proceeds
<1>1. CASE SessionThread(s)
  <2>1. UNCHANGED <<registered, assigned>>
    BY <1>1 DEF SessionThread, Run, CheckStop, NothingToStart, DequeueFails,
         DequeueRaises, StartAction, StartFails, Interrupt, SnapshotQueue,
         PopAction, RemoveAction, TellNeverAttempted, PlanExits, CancelRunning,
         ExitEnvironment, StepOver, StepTimesOut, StepsDone, Close,
         WakeScheduler, Finish, Report, schedVars, history
  <2>2. PICK p : /\ pc' = [pc EXCEPT ![s] = p]
                 /\ p # "new" /\ pc[s] \notin {"new", "done"}
    <3>1. CASE \/ Run(s) \/ CheckStop(s) \/ NothingToStart(s) \/ DequeueFails(s)
               \/ DequeueRaises(s) \/ StartAction(s) \/ StartFails(s)
               \/ Interrupt(s) \/ SnapshotQueue(s) \/ RemoveAction(s)
               \/ TellNeverAttempted(s) \/ PlanExits(s)
      BY <3>1 DEF Run, CheckStop, NothingToStart, DequeueFails, DequeueRaises,
           StartAction, StartFails, ReadyToStart, Interrupt, SnapshotQueue,
           RemoveAction, TellNeverAttempted, PlanExits, Goto
    <3>2. CASE \E a \in Actions : PopAction(s, a)
      <4>1. pc[s] = "cancelAll" /\ pc' \in {pc, [pc EXCEPT ![s] = "remove"]}
        BY <3>2 DEF PopAction
      <4> QED BY <4>1 DEF TypeOK
    <3>3. CASE \/ CancelRunning(s) \/ ExitEnvironment(s) \/ StepOver(s)
               \/ StepTimesOut(s) \/ StepsDone(s) \/ Close(s)
               \/ WakeScheduler(s) \/ Finish(s)
      BY <3>3 DEF CancelRunning, ExitEnvironment, StepOver, StepTimesOut,
           StepsDone, Close, WakeScheduler, Finish, Goto
    <3> QED BY <1>1, <3>1, <3>2, <3>3 DEF SessionThread
  <2>3. stop' = stop \/ stop' = [stop EXCEPT ![s] = TRUE]
    BY <1>1 DEF SessionThread, Run, CheckStop, NothingToStart, DequeueFails,
         DequeueRaises, StartAction, StartFails, Interrupt, SnapshotQueue,
         PopAction, RemoveAction, TellNeverAttempted, PlanExits, CancelRunning,
         ExitEnvironment, StepOver, StepTimesOut, StepsDone, Close,
         WakeScheduler, Finish, stopVars
  <2>4. \A r \in Sessions : stop[r] => stop'[r]
    BY <2>3 DEF TypeOK
  <2> QED BY <2>1, <2>2, <2>4 DEF Proceeds, TypeOK
<1>2. CASE OpenjdThread(s)
  <2>1. ASSUME NEW state, Updated(s, state) PROVE UNCHANGED <<registered, assigned>>
    BY <2>1 DEF Updated, HandleUpdate, QueueUpload, Report, schedVars
  <2>2. UNCHANGED <<registered, assigned, pc, stop>>
    BY <1>2, <2>1 DEF OpenjdThread, Progress, ProcessesEnd, ProcessEnds, Callback,
         callbackFrame, stopVars, schedVars, history
  <2> QED BY <2>2 DEF Proceeds
<1> QED BY <1>1, <1>2

(***************************************************************************)
(* The loop keeps the contract.                                            *)
(***************************************************************************)
LEMMA SomeSession == \E s \in Sessions : TRUE
BY SchedulerAssumption DEF SchedulerAssumption

\* The list of a Session that exists holds its unfinished actions, and others
\* only if their outcome is in the map.
LEMMA ListOfSession ==
  ASSUME Link, NEW s \in Sessions, at \in {"look", "apply"},
         assigned' = assigned \union lists[s]
  PROVE  /\ lists[s] \in SUBSET Own(s)
         /\ Unfinished(s) = {a \in lists[s] : ~ Done(reported[a])}
         /\ \A a \in lists[s] : Done(reported[a]) => updates[a].status = reported[a]
         /\ Unfinished(s) = {a \in lists[s] : Pending(a)}
<1>1. /\ lists[s] = {a \in Own(s) : a \in svcAssigned /\ ~ Done(svc[a])}
      /\ Own(s) \subseteq Actions
  BY DEF Link, Response, OwnAssigned, Own
<1>2. \A a \in lists[s] : Done(reported[a]) => updates[a].status = reported[a]
  BY <1>1 DEF Link, NoCompletionLost
<1>3. Unfinished(s) = {a \in lists[s] : ~ Done(reported[a])}
  <2>1. ASSUME NEW a \in Own(s), a \in assigned, ~ Done(reported[a])
        PROVE  a \in lists[s]
    BY <1>1, <2>1 DEF Link, MapCurrent, Agrees
  <2> QED BY <1>1, <2>1 DEF Unfinished, Done
<1>4. \A a \in lists[s] : Pending(a) <=> ~ Done(reported[a])
  BY <1>1, <1>2 DEF Link, MapCurrent, Pending, Done, CompletedStatuses
<1> QED BY <1>1, <1>2, <1>3, <1>4

\* The list of a Session that does not exist holds nothing that has failed.
LEMMA ListOfNewSession ==
  ASSUME Link, NEW s \in todo, at = "create", assigned' = assigned \union lists[s]
  PROVE  /\ s \in Sessions /\ pc[s] = "new"
         /\ lists[s] \in SUBSET Own(s)
         /\ Unfinished(s) = lists[s]
<1>1. s \in Sessions /\ pc[s] = "new"
  BY DEF Link, LoopTypes, Phases
<1>2. /\ lists[s] = {a \in Own(s) : a \in svcAssigned /\ ~ Done(svc[a])}
      /\ \A a \in Own(s) : a \in Actions /\ SessionOf[a] = s
  BY <1>1 DEF Link, Response, OwnAssigned, Own
<1>3. \A a \in lists[s] : ~ Done(reported[a])
  BY <1>1, <1>2 DEF Link, Fresh
<1>4. ASSUME NEW a \in Own(s), a \in assigned, ~ Done(reported[a])
      PROVE  a \in lists[s]
  BY <1>2, <1>4 DEF Link, MapCurrent, Agrees
<1> QED BY <1>1, <1>2, <1>3, <1>4 DEF Unfinished, Done

\* The steps in which the scheduler touches no Session and no map.
Unseen == \/ CheckShutdown \/ Gate \/ RetryRequest \/ RequestFails
          \/ ServiceAnswers \/ AllRemoved \/ AllCreated
          \/ (\E s \in Sessions : LookAtFuture(s)) \/ EndSync
          \/ ServiceShutdown \/ WakeUp \/ IntervalPasses \/ SetShutdown
          \/ TellStopping \/ AllStopped

LEMMA UnseenUnchanged == Unseen => UNCHANGED vars
BY DEF Unseen, CheckShutdown, Gate, RetryRequest, RequestFails, ServiceAnswers,
       AllRemoved, AllCreated, LookAtFuture, EndSync, ServiceShutdown, WakeUp,
       IntervalPasses, SetShutdown, TellStopping, AllStopped

LEMMA StepOfScheduler ==
  ASSUME NEW s \in Sessions, SchedulerThread(s)
  PROVE  Next
BY DEF Next

LEMMA StopsImplement ==
  ASSUME Link, NEW s \in Sessions,
         StopFinished(s) \/ StopForDrain(s) \/ CredentialsExpire(s)
  PROVE  Next
<1>1. PICK how \in Stops : StopSession(s, how[1], how[2])
  <2>1. CASE StopFinished(s)
    BY <2>1, SchedulerAssumption DEF StopFinished, SchedulerAssumption
  <2>2. CASE StopForDrain(s)
    BY <2>2 DEF StopForDrain
  <2>3. CASE CredentialsExpire(s)
    BY <2>3, SchedulerAssumption DEF CredentialsExpire, SchedulerAssumption
  <2> QED BY <2>1, <2>2, <2>3
<1> QED BY <1>1, StepOfScheduler DEF SchedulerThread

LEMMA MapImplements ==
  ASSUME Clear \/ Snapshot \/ Commit \/ SetWakeup
  PROVE  Next
<1>1. PICK s \in Sessions : TRUE
  BY SomeSession
<1>2. ClearWakeup \/ SnapshotUpdates \/ CommitUpdates \/ WakeLoop
  BY DEF Clear, Snapshot, Commit, SetWakeup
<1> QED BY <1>2, StepOfScheduler DEF SchedulerThread

LEMMA RegistryImplements ==
  ASSUME Link, RemoveFinished \/ Register
  PROVE  Next
<1>1. session \in Sessions
  BY DEF Link, LoopTypes, Phases, RemoveFinished, Register, Step
<1>2. RemoveSession(session) \/ RegisterSession(session)
  BY DEF RemoveFinished, Register
<1> QED BY <1>1, <1>2, StepOfScheduler DEF SchedulerThread

LEMMA CreationImplements ==
  ASSUME Link, NEW s \in Sessions, CreateSession(s) \/ CreationFails(s)
  PROVE  SchedulerThread(s)
<1>1. s \in todo /\ at = "create" /\ assigned' = assigned \union lists[s]
  BY DEF CreateSession, CreationFails, Step
<1>2. /\ pc[s] = "new" /\ lists[s] \in SUBSET Own(s) /\ Unfinished(s) = lists[s]
  BY <1>1, ListOfNewSession
<1>3. CASE CreateSession(s)
  <2>1. SubmitSession(s, lists[s])
    BY <1>2, <1>3 DEF CreateSession, SubmitSession, Assign
  <2> QED BY <1>2, <2>1 DEF SchedulerThread
<1>4. CASE CreationFails(s)
  <2>1. FailSession(s, lists[s])
    BY <1>2, <1>4 DEF CreationFails, FailSession, Assign
  <2> QED BY <1>2, <2>1 DEF SchedulerThread
<1> QED BY <1>3, <1>4

LEMMA ApplicationImplements ==
  ASSUME Link, ApplyToSession \/ CancelBreaksSync \/ ReturnToService
  PROVE  session \in Sessions /\ SchedulerThread(session)
<1>1. at = "apply" /\ session \in Sessions /\ session \in registered
      /\ (gone => pc[session] = "done")
  BY DEF Link, LoopTypes, Phases, ApplyToSession, CancelBreaksSync,
         ReturnToService, Step
<1>2. CASE CancelBreaksSync
  <2>1. CancelRaised(session)
    BY <1>2 DEF CancelBreaksSync
  <2> QED BY <1>1, <2>1 DEF SchedulerThread
<1>3. CASE ApplyToSession
  <2>1. assigned' = assigned \union lists[session]
    BY <1>3 DEF ApplyToSession
  <2>2. /\ lists[session] \in SUBSET Own(session)
        /\ Unfinished(session) = {a \in lists[session] : Pending(a)}
    BY <1>1, <2>1, ListOfSession
  <2>3. Hit(session) \in BOOLEAN /\ (Hit(session) => current[session] # None)
    BY ConstantsAssumption DEF Hit, Link, LoopTypes, ConstantsAssumption
  <2>4. ReplaceActions(session, lists[session], Hit(session))
    BY <1>1, <1>3, <2>1, <2>2, <2>3 DEF ApplyToSession, ReplaceActions, Assign
  <2> QED BY <1>1, <2>2, <2>3, <2>4 DEF SchedulerThread
<1>4. CASE ReturnToService
  <2>1. assigned' = assigned \union lists[session] /\ gone
    BY <1>4 DEF ReturnToService
  <2> DEFINE noted == {a \in lists[session] : Done(reported[a])}
  <2>2. /\ lists[session] \in SUBSET Own(session)
        /\ Unfinished(session) \union noted = lists[session]
        /\ \A a \in noted : updates[a].status = reported[a]
    BY <1>1, <2>1, ListOfSession
  <2>3. noted \in SUBSET Noted(session)
    BY <2>2 DEF Noted, Done, CompletedStatuses
  <2>4. ReturnActions(session, lists[session], noted)
    BY <1>1, <1>4, <2>1, <2>2 DEF ReturnToService, ReturnActions, Assign
  <2> HIDE DEF noted
  <2> QED BY <1>1, <2>2, <2>3, <2>4 DEF SchedulerThread
<1> QED BY <1>2, <1>3, <1>4

\* The steps of the system, by what they do to the Sessions.
LEMMA SystemSteps ==
  SystemNext => \/ Unseen
                \/ \E s \in Sessions :
                     \/ StopFinished(s) \/ StopForDrain(s) \/ CredentialsExpire(s)
                     \/ CreateSession(s) \/ CreationFails(s)
                     \/ /\ SessionThread(s) \/ OpenjdThread(s)
                        /\ UNCHANGED schedulerVars
                \/ Clear \/ Snapshot \/ Commit \/ SetWakeup
                \/ RemoveFinished \/ Register
                \/ ApplyToSession \/ CancelBreaksSync \/ ReturnToService
BY DEF SystemNext, SyncLoop, Drain, Unseen

LEMMA Implements ==
  ASSUME Link, [SystemNext]_allVars
  PROVE  [Next]_vars
<1>1. CASE UNCHANGED allVars
  BY <1>1 DEF allVars
<1>2. ASSUME NEW s \in Sessions, SessionThread(s) \/ OpenjdThread(s)
      PROVE  Next
  BY <1>2 DEF Next
<1> QED BY <1>1, <1>2, SystemSteps, UnseenUnchanged, StopsImplement, MapImplements,
           RegistryImplements, CreationImplements, ApplicationImplements,
           StepOfScheduler

(***************************************************************************)
(* The scheduler's side of the invariant.                                  *)
(***************************************************************************)
\* what the threads of the Sessions do not change
loopFrame == <<request, listed, lists, cancels, svc, svcAssigned, svcClosed>>

\* Where nothing is promised but for the map and the Sessions that live.
Resting == {"top", "clear", "snapshot", "wait", "drain", "exited"}

LEMMA RestingKept ==
  ASSUME Link, at \notin {"register"}, at' \in Resting, todo' \subseteq Sessions,
         UNCHANGED <<vars, loopFrame>>
  PROVE  Link'
<1>1. LoopTypes' /\ MapCurrent' /\ NoCompletionLost'
  BY DEF Link, LoopTypes, MapCurrent, NoCompletionLost, Agrees, Resting, Places,
         vars, schedVars, history, loopFrame
<1>2. InFlight' /\ SentIsRequested' /\ Response' /\ Phases'
  BY DEF InFlight, SentIsRequested, Response, Phases, Resting
<1>3. Lives' /\ Fresh'
  BY DEF Link, Lives, Fresh, Resting, OwnAssigned, vars, schedVars, loopFrame
<1> QED BY <1>1, <1>2, <1>3 DEF Link

LEMMA LooksKept ==
  ASSUME TypeOK, Link,
         \/ Gate \/ AllRemoved \/ AllCreated
         \/ (\E s \in Sessions : LookAtFuture(s)) \/ SetShutdown \/ TellStopping
  PROVE  Link'
<1>1. UNCHANGED <<vars, svc, svcAssigned, svcClosed, request, lists, cancels>>
  BY DEF Gate, AllRemoved, AllCreated, LookAtFuture, SetShutdown, TellStopping,
         respVars, svcVars
<1>2. UNCHANGED <<updates, registered, assigned, reported, pc, stop>>
  BY <1>1 DEF vars, schedVars, stopVars, history
<1>3. MapCurrent' /\ NoCompletionLost'
  BY <1>1, <1>2 DEF Link, MapCurrent, NoCompletionLost, Agrees
<1>4. CASE SetShutdown
  <2>1. UNCHANGED <<at, todo, session, gone, listed>>
    BY <1>4 DEF SetShutdown, respVars, loopVars
  <2>2. LoopTypes' /\ InFlight' /\ SentIsRequested'
    BY <1>1, <1>2, <2>1 DEF Link, LoopTypes, InFlight, Told, Agrees, SentIsRequested
  <2>3. Response' /\ Phases' /\ Lives' /\ Fresh'
    BY <1>1, <1>2, <2>1 DEF Link, Response, Phases, Lives, Fresh, OwnAssigned
  <2> QED BY <1>3, <2>2, <2>3 DEF Link
<1>5. CASE Gate
  <2>1. /\ at = "gate" /\ at' \in {"top", "request"}
        /\ UNCHANGED <<todo, session, gone, listed>>
    BY <1>5 DEF Gate, Step, respVars, loopVars
  <2>2. LoopTypes' /\ InFlight' /\ SentIsRequested'
    BY <1>1, <1>2, <2>1 DEF Link, LoopTypes, InFlight, Told, Agrees,
       SentIsRequested, Places
  <2>3. Response' /\ Phases' /\ Lives' /\ Fresh'
    BY <1>1, <1>2, <2>1 DEF Link, Response, Phases, Lives, Fresh, OwnAssigned
  <2> QED BY <1>3, <2>2, <2>3 DEF Link
<1>6. CASE AllRemoved
  <2>1. /\ at = "remove" /\ at' = "create" /\ todo = {} /\ UNCHANGED session
        /\ todo' = listed \ registered /\ listed' = listed \intersect registered
    BY <1>6 DEF AllRemoved, Step
  <2>2. LoopTypes' /\ InFlight' /\ SentIsRequested' /\ Response'
    BY <1>1, <1>2, <2>1 DEF Link, LoopTypes, InFlight, SentIsRequested, Places,
       Response, OwnAssigned
  <2>3. Phases'
    <3>1. ASSUME NEW s \in todo'
          PROVE  OwnAssigned(s)' # {} /\ pc'[s] = "new"
      <4>1. s \in Sessions /\ s \notin svcClosed /\ s \notin registered
            /\ s \in {SessionOf[a] : a \in svcAssigned}
        BY <2>1, <3>1 DEF Link, LoopTypes, Response
      <4>2. pc[s] = "new"
        BY <2>1, <4>1 DEF Link, Lives
      <4>3. \E a \in svcAssigned : a \in Own(s)
        BY <4>1 DEF Own, Link, LoopTypes
      <4> QED BY <1>1, <1>2, <4>2, <4>3 DEF OwnAssigned
    <3> QED BY <1>2, <2>1, <3>1 DEF Phases
  <2>4. Lives' /\ Fresh'
    BY <1>1, <1>2, <2>1 DEF Link, Lives, Fresh, OwnAssigned
  <2> QED BY <1>3, <2>2, <2>3, <2>4 DEF Link
<1>7. CASE AllCreated
  <2>1. /\ at = "create" /\ at' = "look" /\ todo = {} /\ UNCHANGED <<listed, session>>
        /\ todo' = listed
    BY <1>7 DEF AllCreated, Step, respVars
  <2>2. LoopTypes' /\ InFlight' /\ SentIsRequested' /\ Response' /\ Phases'
    BY <1>1, <1>2, <2>1 DEF Link, LoopTypes, InFlight, SentIsRequested, Places,
       Response, OwnAssigned, Phases
  <2>3. Lives' /\ Fresh'
    BY <1>1, <1>2, <2>1 DEF Link, Lives, Fresh, OwnAssigned
  <2> QED BY <1>3, <2>2, <2>3 DEF Link
<1>8. CASE \E s \in Sessions : LookAtFuture(s)
  <2>1. /\ at = "look" /\ at' = "apply" /\ UNCHANGED <<listed, todo>>
        /\ session' \in todo /\ gone' = (pc[session'] = "done")
    BY <1>8 DEF LookAtFuture, Step, respVars
  <2>2. LoopTypes' /\ InFlight' /\ SentIsRequested' /\ Response' /\ Phases'
    BY <1>1, <1>2, <2>1 DEF Link, LoopTypes, InFlight, SentIsRequested, Places,
       Response, OwnAssigned, Phases
  <2>3. Lives' /\ Fresh'
    BY <1>1, <1>2, <2>1 DEF Link, Lives, Fresh, OwnAssigned
  <2> QED BY <1>3, <2>2, <2>3 DEF Link
<1>9. CASE TellStopping
  <2>1. /\ at = "drain" /\ at' = "stopAll" /\ todo' = registered
        /\ UNCHANGED <<listed, session>>
    BY <1>9 DEF TellStopping, Step, respVars
  <2>2. registered \subseteq Sessions
    BY DEF TypeOK
  <2>3. LoopTypes' /\ InFlight' /\ SentIsRequested' /\ Response' /\ Phases'
    BY <1>1, <1>2, <2>1, <2>2 DEF Link, LoopTypes, InFlight, SentIsRequested, Places,
       Response, OwnAssigned, Phases
  <2>4. Lives' /\ Fresh'
    BY <1>1, <1>2, <2>1 DEF Link, Lives, Fresh, OwnAssigned
  <2> QED BY <1>3, <2>3, <2>4 DEF Link
<1> QED BY <1>4, <1>5, <1>6, <1>7, <1>8, <1>9

\* A request that is repeated tells what it told before.
LEMMA RetryKept ==
  ASSUME TypeOK, Link, RetryRequest
  PROVE  Link'
<1>1. /\ at = "request" /\ at' \in {"request", "gate"}
      /\ \A a \in Actions : svc'[a] \in {svc[a], Told(a)}
      /\ svc' \in [Actions -> Statuses]
  BY DEF RetryRequest, Step, Told, Link, LoopTypes
<1>2. /\ UNCHANGED <<request, listed, lists, cancels, todo, session, svcAssigned, svcClosed>>
      /\ UNCHANGED <<updates, registered, assigned, reported, pc, stop>>
  BY DEF RetryRequest, vars, respVars, loopVars, schedVars, history, stopVars
<1>3. ASSUME NEW a \in Actions
      PROVE  /\ Agrees(svc[a], a)'
             /\ Agrees(request[a], a)'
             /\ Done(svc[a])' => request[a] = "none" \/ Done(request[a])
             /\ Told(a)' = Told(a)
             /\ Done(reported[a]) /\ svc'[a] # reported[a] =>
                  updates[a].status = reported[a]
             /\ Done(svc[a]) => Done(svc[a])'
  BY <1>1, <1>2 DEF Link, MapCurrent, NoCompletionLost, InFlight, Agrees, Told
<1>4. LoopTypes'
  BY <1>1, <1>2 DEF Link, LoopTypes, Places
<1>5. MapCurrent' /\ NoCompletionLost' /\ InFlight'
  BY <1>1, <1>2, <1>3 DEF Link, MapCurrent, NoCompletionLost, InFlight, Agrees
<1>6. SentIsRequested' /\ Response' /\ Phases'
  BY <1>1, <1>2 DEF Link, SentIsRequested, Response, Phases
<1>7. Lives' /\ Fresh'
  BY <1>1, <1>2, <1>3, ConstantsAssumption
     DEF Link, Lives, Fresh, OwnAssigned, ConstantsAssumption
<1> QED BY <1>4, <1>5, <1>6, <1>7 DEF Link

LEMMA AnswerKept ==
  ASSUME TypeOK, Link, ServiceAnswers
  PROVE  Link'
<1>1. /\ at = "request" /\ at' = "answer"
      /\ svc' = [a \in Actions |-> Told(a)]
      /\ svcClosed \subseteq svcClosed' /\ svcClosed' \subseteq Sessions
      /\ svcAssigned \subseteq svcAssigned' /\ svcAssigned' \subseteq Actions
      /\ listed' = {SessionOf[a] : a \in svcAssigned'} \ svcClosed'
      /\ cancels' \subseteq Actions
  BY DEF ServiceAnswers, Step, Told, Link, LoopTypes
<1>2. /\ UNCHANGED <<request, todo, session>>
      /\ UNCHANGED <<updates, registered, assigned, reported, pc, stop>>
  BY DEF ServiceAnswers, vars, loopVars, schedVars, history, stopVars
<1>3. /\ lists' = [s \in Sessions |-> {a \in Own(s) \intersect svcAssigned' :
                                        ~ Done(svc'[a])}]
  BY DEF ServiceAnswers
<1>4. ASSUME NEW a \in Actions
      PROVE  /\ Agrees(svc[a], a)'
             /\ svc'[a] \in Statuses
             /\ request[a] # "none" => svc'[a] = request[a]
             /\ Done(reported[a]) /\ svc'[a] # reported[a] =>
                  updates[a].status = reported[a]
             /\ Done(request[a]) \/ Done(svc[a]) => Done(svc[a])'
  BY <1>1, <1>2 DEF Link, LoopTypes, MapCurrent, InFlight, Agrees, Told, Done,
                    CompletedStatuses
<1>5. LoopTypes'
  <2>1. svc' \in [Actions -> Statuses]
    BY <1>1, <1>4
  <2>2. listed' \subseteq Sessions
    BY <1>1, ConstantsAssumption DEF ConstantsAssumption
  <2>3. lists' \in [Sessions -> SUBSET Actions]
    BY <1>3 DEF Own
  <2> QED BY <1>1, <1>2, <2>1, <2>2, <2>3 DEF Link, LoopTypes, Places
<1>6. MapCurrent' /\ NoCompletionLost'
  BY <1>1, <1>2, <1>4 DEF Link, MapCurrent, NoCompletionLost
<1>7. InFlight' /\ SentIsRequested' /\ Phases'
  BY <1>1, <1>2, <1>4 DEF Link, InFlight, SentIsRequested, Phases
<1>8. Response'
  BY <1>1, <1>3 DEF Response, OwnAssigned
<1>9. Lives' /\ Fresh'
  BY <1>1, <1>2, <1>4 DEF Link, Lives, Fresh, OwnAssigned
<1> QED BY <1>5, <1>6, <1>7, <1>8, <1>9 DEF Link

LEMMA WakeupKept ==
  ASSUME TypeOK, Link, Clear \/ SetWakeup
  PROVE  Link'
<1>1. /\ UNCHANGED <<request, listed, lists, cancels, todo, session, gone, svc,
                     svcAssigned, svcClosed>>
      /\ UNCHANGED <<updates, registered, assigned, reported, pc, stop>>
      /\ at' = at \/ (at = "clear" /\ at' = "snapshot")
  BY DEF Clear, SetWakeup, Step, ClearWakeup, WakeLoop, syncFrame, respVars,
         loopVars, svcVars, stopVars, history
<1>2. LoopTypes' /\ MapCurrent' /\ NoCompletionLost' /\ InFlight'
  BY <1>1 DEF Link, LoopTypes, MapCurrent, NoCompletionLost, InFlight, Agrees,
              Told, Places
<1>3. SentIsRequested' /\ Response' /\ Phases' /\ Lives' /\ Fresh'
  BY <1>1 DEF Link, SentIsRequested, Response, Phases, Lives, Fresh, OwnAssigned
<1> QED BY <1>2, <1>3 DEF Link

\* The request takes everything from the map.
LEMMA SnapshotKept ==
  ASSUME TypeOK, Link, Snapshot
  PROVE  Link'
<1>1. /\ at = "snapshot" /\ at' \in {"request", "gate"}
      /\ request' = [a \in Actions |-> updates[a].status]
      /\ updates' = [a \in Actions |->
                       [updates[a] EXCEPT !.sent = updates[a].status # "none"]]
  BY DEF Snapshot, SnapshotUpdates, Step
<1>2. UNCHANGED <<listed, lists, cancels, todo, session, svc, svcAssigned, svcClosed,
                  registered, assigned, reported, pc, stop>>
  BY DEF Snapshot, SnapshotUpdates, syncFrame, loopVars, svcVars, stopVars, history
<1>3. ASSUME NEW a \in Actions
      PROVE  /\ request'[a] = updates[a].status /\ updates'[a].status = updates[a].status
             /\ request'[a] \in Statuses /\ request'[a] \in {"none", reported[a]}
             /\ Done(svc[a]) => Done(reported[a])
             /\ Done(reported[a]) /\ svc[a] # reported[a] => request'[a] = reported[a]
  BY <1>1 DEF TypeOK, Link, MapCurrent, NoCompletionLost, Agrees
<1>4. LoopTypes' /\ MapCurrent' /\ NoCompletionLost'
  BY <1>1, <1>2, <1>3 DEF Link, LoopTypes, MapCurrent, NoCompletionLost, Agrees,
                          Places
<1>5. InFlight' /\ SentIsRequested'
  BY <1>1, <1>2, <1>3 DEF InFlight, SentIsRequested, Told, Agrees, Done,
                          CompletedStatuses
<1>6. Response' /\ Phases' /\ Lives'
  BY <1>1, <1>2 DEF Link, Response, Phases, Lives, OwnAssigned
<1>7. Fresh'
  BY <1>1, <1>2, <1>3 DEF Fresh, Done, CompletedStatuses
<1> QED BY <1>4, <1>5, <1>6, <1>7 DEF Link

\* What the commit deletes has been told, and nothing newer came in between.
LEMMA CommitKept ==
  ASSUME TypeOK, Link, Commit
  PROVE  Link'
<1>1. /\ at = "answer" /\ at' = "remove" /\ todo' = registered \ listed
      /\ updates' = [a \in Actions |-> IF updates[a].sent THEN NoUpdate
                                       ELSE updates[a]]
  BY DEF Commit, CommitUpdates, Step
<1>2. UNCHANGED <<request, listed, lists, cancels, session, svc, svcAssigned, svcClosed,
                  registered, assigned, reported, pc, stop>>
  BY DEF Commit, CommitUpdates, syncFrame, respVars, svcVars, stopVars, history
<1>3. ASSUME NEW a \in Actions
      PROVE  /\ updates'[a].status \in {"none", reported[a]}
             /\ Done(reported[a]) /\ svc[a] # reported[a] =>
                  updates'[a].status = reported[a]
  <2>1. CASE updates[a].sent
    BY <1>1, <2>1 DEF Link, NoCompletionLost, SentIsRequested, NoUpdate, Done,
                      CompletedStatuses
  <2>2. CASE ~ updates[a].sent
    BY <1>1, <2>2 DEF Link, NoCompletionLost, MapCurrent
  <2> QED BY <2>1, <2>2
<1>4. LoopTypes' /\ MapCurrent' /\ NoCompletionLost'
  BY <1>1, <1>2, <1>3 DEF TypeOK, Link, LoopTypes, MapCurrent, NoCompletionLost, Agrees,
                          Places
<1>5. InFlight' /\ SentIsRequested' /\ Response' /\ Phases'
  BY <1>1, <1>2 DEF Link, InFlight, SentIsRequested, Response, Phases, OwnAssigned
<1>6. Lives' /\ Fresh'
  BY <1>1, <1>2 DEF Link, Lives, Fresh, OwnAssigned
<1> QED BY <1>4, <1>5, <1>6 DEF Link

\* Stopping Sessions, and taking them out of _sessions.
LEMMA StopsKept ==
  ASSUME TypeOK, Link, NEW r \in Sessions,
         StopFinished(r) \/ StopForDrain(r) \/ CredentialsExpire(r)
  PROVE  Link'
<1>1. /\ UNCHANGED <<request, listed, lists, cancels, svc, svcAssigned, svcClosed>>
      /\ UNCHANGED <<updates, registered, assigned, reported, pc>>
      /\ stop' = [stop EXCEPT ![r] = TRUE]
  BY DEF StopFinished, StopForDrain, CredentialsExpire, StopSession, respVars,
         svcVars, schedulerVars, schedVars, history
<1>2. \/ at = "remove" /\ at' = "removing" /\ r \in todo /\ session' = r /\ UNCHANGED todo
      \/ at = "stopAll" /\ UNCHANGED <<at, session>> /\ todo' = todo \ {r}
      \/ UNCHANGED <<at, todo, session, gone>>
  BY DEF StopFinished, StopForDrain, CredentialsExpire, Step, schedulerVars, loopVars
<1>3. \A s \in Sessions : (stop[s] => stop'[s]) /\ stop'[r]
  BY <1>1 DEF TypeOK
<1>4. LoopTypes' /\ MapCurrent' /\ NoCompletionLost' /\ InFlight'
  BY <1>1, <1>2 DEF Link, LoopTypes, MapCurrent, NoCompletionLost, InFlight, Agrees,
                    Told, Places
<1>5. SentIsRequested' /\ Response' /\ Lives' /\ Fresh'
  BY <1>1, <1>2 DEF Link, SentIsRequested, Response, Lives, Fresh, OwnAssigned
<1>6. Phases'
  BY <1>1, <1>2, <1>3 DEF Link, LoopTypes, Phases, OwnAssigned
<1> QED BY <1>4, <1>5, <1>6 DEF Link

LEMMA RegistryKept ==
  ASSUME TypeOK, Link, RemoveFinished \/ Register
  PROVE  Link'
<1>1. /\ UNCHANGED <<request, listed, lists, cancels, svc, svcAssigned, svcClosed>>
      /\ UNCHANGED <<updates, assigned, reported, pc, stop>>
      /\ todo' = todo \ {session} /\ session' = None
      /\ at \in {"removing", "register"} /\ at' \notin {"removing", "register"}
  BY DEF RemoveFinished, Register, RemoveSession, RegisterSession, Step, syncFrame,
         respVars, svcVars, stopVars, history
<1>2. MapCurrent' /\ NoCompletionLost'
  BY <1>1 DEF Link, MapCurrent, NoCompletionLost, Agrees
<1>3. CASE RemoveFinished
  <2>1. /\ at = "removing" /\ at' = "remove" /\ registered' = registered \ {session}
        /\ session \in registered /\ session \notin listed
    BY <1>3 DEF RemoveFinished, RemoveSession, Step, Link, Phases
  <2>2. session \in svcClosed
    <3>1. OwnAssigned(session) # {}
      BY <2>1 DEF Link, Lives
    <3>2. PICK a \in svcAssigned : SessionOf[a] = session
      BY <3>1 DEF OwnAssigned, Own
    <3> QED BY <2>1, <3>2 DEF Link, Response
  <2>3. LoopTypes' /\ InFlight' /\ SentIsRequested' /\ Response' /\ Phases'
    BY <1>1, <2>1 DEF Link, LoopTypes, InFlight, SentIsRequested, Response, Phases,
                      OwnAssigned, Places
  <2>4. Lives' /\ Fresh'
    BY <1>1, <2>1, <2>2 DEF Link, Lives, Fresh, OwnAssigned
  <2> QED BY <1>2, <2>3, <2>4 DEF Link
<1>4. CASE Register
  <2>1. /\ at = "register" /\ at' = "create" /\ registered' = registered \union {session}
        /\ session \in todo /\ pc[session] # "new"
    BY <1>4 DEF Register, RegisterSession, Step, Link, Phases
  <2>2. LoopTypes' /\ InFlight' /\ SentIsRequested' /\ Response' /\ Phases'
    BY <1>1, <2>1 DEF Link, LoopTypes, InFlight, SentIsRequested, Response, Phases,
                      OwnAssigned, Places
  <2>3. Lives' /\ Fresh'
    BY <1>1, <2>1 DEF Link, Lives, Fresh, OwnAssigned, Phases
  <2> QED BY <1>2, <2>2, <2>3 DEF Link
<1> QED BY <1>3, <1>4

\* Reports go to the map, and end nothing that has ended.
LEMMA ReportsKept ==
  ASSUME TypeOK, Link, OutcomesKept, UNCHANGED <<svc, svcAssigned>>,
         assigned' \subseteq svcAssigned,
         \A a \in Actions :
           \/ updates'[a] = updates[a] /\ reported'[a] = reported[a]
           \/ /\ updates'[a].status = reported'[a]
              /\ Done(reported[a]) => Done(reported'[a])
  PROVE  MapCurrent' /\ NoCompletionLost'
<1>1. ASSUME NEW a \in Actions
      PROVE  Agrees(svc[a], a)'
  BY DEF Link, MapCurrent, Agrees, OutcomesKept, Decided, Completed, Refused, Done,
         TypeOK
<1> QED BY <1>1 DEF Link, MapCurrent, NoCompletionLost

LEMMA CreateKept ==
  ASSUME TypeOK, Link, NEW r \in Sessions, CreateSession(r)
  PROVE  Link'
<1>1. /\ at = "create" /\ at' = "register" /\ r \in todo /\ session' = r
      /\ pc' = [pc EXCEPT ![r] = "starting"]
      /\ assigned' = assigned \union lists[r]
  BY DEF CreateSession, Step, Goto
<1>2. /\ UNCHANGED <<request, listed, lists, cancels, todo, svc, svcAssigned, svcClosed>>
      /\ UNCHANGED <<updates, registered, reported>>
  BY DEF CreateSession, respVars, svcVars, schedVars
<1>3. \A s \in Sessions : pc'[s] = IF s = r THEN "starting" ELSE pc[s]
  BY <1>1 DEF TypeOK
<1>4. lists[r] \subseteq svcAssigned
  BY <1>1 DEF Link, Response, OwnAssigned
<1>5. LoopTypes' /\ MapCurrent' /\ NoCompletionLost' /\ InFlight' /\ SentIsRequested'
  BY <1>1, <1>2, <1>4 DEF Link, LoopTypes, MapCurrent, NoCompletionLost, InFlight,
     Agrees, SentIsRequested, Places
<1>6. Response' /\ Phases'
  BY <1>1, <1>2, <1>3 DEF Link, Response, Phases, LoopTypes, OwnAssigned
<1>7. Lives'
  BY <1>1, <1>2, <1>3 DEF Link, Lives, OwnAssigned
<1>8. Fresh'
  BY <1>1, <1>2, <1>3, ConstantsAssumption DEF Link, Fresh, ConstantsAssumption
<1> QED BY <1>5, <1>6, <1>7, <1>8 DEF Link

\* The scheduler answers for a Session, whose creation failed or whose thread
\* is gone.
LEMMA AnsweredKept ==
  ASSUME TypeOK, Link, OutcomesKept,
         \/ \E r \in Sessions : CreationFails(r)
         \/ ReturnToService
  PROVE  Link'
<1>1. PICK r \in todo, st \in [Actions -> CompletedStatuses] :
        /\ \/ at = "create" /\ at' = "create" /\ session' = session
           \/ at = "apply" /\ at' = "look"
        /\ todo' = todo \ {r}
        /\ assigned' = assigned \union lists[r]
        /\ \E A \in SUBSET lists[r] : Record(A, st)
  <2>1. CASE \E r \in Sessions : CreationFails(r)
    <3>1. PICK r \in Sessions : CreationFails(r)
      BY <2>1
    <3> DEFINE st == [a \in Actions |-> IF a = First(lists[r]) THEN "FAILED"
                                        ELSE "NEVER_ATTEMPTED"]
    <3>2. /\ at = "create" /\ at' = "create" /\ session' = session
          /\ r \in todo /\ todo' = todo \ {r}
          /\ assigned' = assigned \union lists[r] /\ Record(lists[r], st)
      BY <3>1 DEF CreationFails
    <3>3. st \in [Actions -> CompletedStatuses]
      BY DEF CompletedStatuses
    <3> HIDE DEF st
    <3> QED BY <3>2, <3>3
  <2>2. CASE ReturnToService
    <3> DEFINE st == [a \in Actions |-> IF \/ a = First(lists[session])
                                           \/ Kind[a] = "ENV_EXIT"
                                        THEN "FAILED" ELSE "NEVER_ATTEMPTED"]
               A == {a \in lists[session] : updates[a].status = "none"}
    <3>1. /\ at = "apply" /\ at' = "look" /\ todo' = todo \ {session}
          /\ assigned' = assigned \union lists[session] /\ Record(A, st)
      BY <2>2 DEF ReturnToService, Step
    <3>2. session \in todo
      BY <3>1 DEF Link, Phases
    <3>3. st \in [Actions -> CompletedStatuses]
      BY DEF CompletedStatuses
    <3>4. A \in SUBSET lists[session]
      OBVIOUS
    <3> HIDE DEF st, A
    <3> QED BY <3>1, <3>2, <3>3, <3>4
  <2> QED BY <2>1, <2>2
<1>2. PICK A \in SUBSET lists[r] : Record(A, st)
  BY <1>1
<1>3. /\ UNCHANGED <<request, listed, lists, cancels, svc, svcAssigned, svcClosed>>
      /\ UNCHANGED <<registered, pc, stop>>
  BY DEF CreationFails, ReturnToService, respVars, svcVars, stopVars
<1>4. /\ lists[r] \subseteq svcAssigned
      /\ \A a \in lists[r] : SessionOf[a] = r
  BY <1>1 DEF Link, LoopTypes, Response, OwnAssigned, Own
<1>5. \A a \in Actions :
        /\ a \notin A => updates'[a] = updates[a] /\ reported'[a] = reported[a]
        /\ a \in A => updates'[a].status = reported'[a] /\ Done(reported'[a])
  BY <1>1, <1>2 DEF Record, Recorded, Done
<1>6. MapCurrent' /\ NoCompletionLost'
  <2>1. assigned' \subseteq svcAssigned
    BY <1>1, <1>4 DEF Link, MapCurrent
  <2> QED BY <1>3, <1>5, <2>1, ReportsKept
<1>7. LoopTypes' /\ InFlight' /\ SentIsRequested' /\ Response'
  BY <1>1, <1>3 DEF Link, LoopTypes, InFlight, SentIsRequested, Response, Places,
                    OwnAssigned
<1>8. Phases' /\ Lives'
  BY <1>1, <1>3 DEF Link, Phases, Lives, OwnAssigned
<1>9. Fresh'
  BY <1>1, <1>3, <1>4, <1>5 DEF Link, Fresh
<1> QED BY <1>6, <1>7, <1>8, <1>9 DEF Link

LEMMA ApplyKept ==
  ASSUME TypeOK, Link, ApplyToSession \/ CancelBreaksSync
  PROVE  Link'
<1>1. /\ at = "apply" /\ at' \in {"look", "drain", "exited"} /\ session' = None
      /\ at' = "look" => todo' = todo \ {session}
      /\ todo' \subseteq todo
      /\ assigned' = assigned \/ assigned' = assigned \union lists[session]
      /\ UNCHANGED <<request, listed, lists, cancels, svc, svcAssigned, svcClosed>>
      /\ UNCHANGED <<updates, registered, reported, pc, stop>>
  BY DEF ApplyToSession, CancelBreaksSync, CancelRaised, Step, respVars, svcVars,
         schedVars, stopVars, history
<1>2. assigned' \subseteq svcAssigned
  BY <1>1 DEF Link, LoopTypes, MapCurrent, Phases, Response, OwnAssigned
<1>3. LoopTypes' /\ MapCurrent' /\ NoCompletionLost' /\ InFlight' /\ SentIsRequested'
  BY <1>1, <1>2 DEF Link, LoopTypes, MapCurrent, NoCompletionLost, InFlight, Agrees,
                    SentIsRequested, Places
<1>4. Response' /\ Phases' /\ Lives' /\ Fresh'
  BY <1>1 DEF Link, Response, Phases, Lives, Fresh, OwnAssigned
<1> QED BY <1>3, <1>4 DEF Link

LEMMA RecordedSent ==
  ASSUME NEW old, NEW st, Recorded(old, st).sent
  PROVE  old.sent /\ old.status = st
BY Zenon DEF Recorded

\* A step of a Session's threads at any place of the loop.
LEMMA ThreadKept ==
  ASSUME TypeOK, Link, OutcomesKept, NEW s \in Sessions, Reports(s), Proceeds,
         UNCHANGED schedulerVars
  PROVE  Link'
<1>1. UNCHANGED <<at, request, listed, lists, cancels, todo, session, gone, svc,
                  svcAssigned, svcClosed>>
  BY DEF schedulerVars, respVars, loopVars, svcVars
<1>2. UNCHANGED <<registered, assigned>>
  BY DEF Proceeds
<1>3. ASSUME NEW a \in Actions
      PROVE  \/ updates'[a] = updates[a] /\ reported'[a] = reported[a]
             \/ /\ updates'[a].status = reported'[a]
                /\ updates'[a].sent =>
                     updates[a].sent /\ updates[a].status = updates'[a].status
                /\ Done(reported[a]) => Done(reported'[a])
                /\ pc[SessionOf[a]] # "new"
  <2>1. CASE updates'[a] = updates[a] /\ reported'[a] = reported[a]
    BY <2>1
  <2>2. CASE updates'[a] = Recorded(updates[a], reported'[a])
    <3>1. updates'[a].status = reported'[a]
      BY <2>2 DEF Recorded
    <3>2. updates'[a].sent =>
            updates[a].sent /\ updates[a].status = reported'[a]
      BY <2>2, RecordedSent
    <3>3. \/ updates'[a] = updates[a] /\ reported'[a] = reported[a]
          \/ /\ Done(reported[a]) => Done(reported'[a])
             /\ pc[SessionOf[a]] # "new"
      BY DEF Reports
    <3> QED BY <3>1, <3>2, <3>3
  <2> QED BY <2>1, <2>2 DEF Reports
<1>4. MapCurrent' /\ NoCompletionLost'
  <2>1. assigned' \subseteq svcAssigned
    BY <1>2 DEF Link, MapCurrent
  <2> QED BY <1>1, <1>3, <2>1, ReportsKept
<1>5. LoopTypes' /\ Response'
  BY <1>1 DEF Link, LoopTypes, Response, OwnAssigned
<1>6. InFlight'
  <2> SUFFICES ASSUME at \in {"gate", "request"}, NEW a \in Actions
               PROVE  /\ Agrees(request[a], a)'
                      /\ Done(svc[a]) => request[a] = "none" \/ Done(request[a])
                      /\ Done(reported'[a]) /\ Told(a) # reported'[a] =>
                           updates'[a].status = reported'[a]
    BY <1>1 DEF InFlight, Told
  <2>1. Agrees(request[a], a)'
    BY <1>1, <1>3 DEF Link, InFlight, Agrees, OutcomesKept, Decided, Completed,
                      Refused, Done, TypeOK
  <2> QED BY <1>3, <2>1 DEF Link, InFlight
<1>7. SentIsRequested'
  BY <1>1, <1>3 DEF Link, SentIsRequested
<1>8. Phases' /\ Lives'
  <2>1. \A r \in Sessions : /\ pc'[r] = "new" <=> pc[r] = "new"
                            /\ pc[r] = "done" => pc'[r] = "done"
                            /\ stop[r] => stop'[r]
    BY DEF Proceeds
  <2> QED BY <1>1, <1>2, <2>1 DEF Link, Phases, Lives, LoopTypes, OwnAssigned
<1>9. Fresh'
  <2>1. \A a \in Actions : pc'[SessionOf[a]] = "new" =>
          pc[SessionOf[a]] = "new" /\ reported'[a] = reported[a]
    BY <1>3, ConstantsAssumption DEF Proceeds, ConstantsAssumption
  <2> QED BY <1>1, <2>1 DEF Link, Fresh
<1> QED BY <1>4, <1>5, <1>6, <1>7, <1>8, <1>9 DEF Link

LEMMA RestKept ==
  ASSUME Link,
         \/ CheckShutdown \/ RequestFails \/ EndSync \/ ServiceShutdown
         \/ WakeUp \/ IntervalPasses \/ AllStopped
  PROVE  Link'
<1>1. /\ at \in {"top", "request", "look", "wait", "stopAll"}
      /\ at' \in Resting /\ UNCHANGED <<todo, vars, loopFrame>>
  BY DEF CheckShutdown, RequestFails, EndSync, ServiceShutdown, WakeUp,
         IntervalPasses, AllStopped, Step, Resting, respVars, loopVars, svcVars,
         loopFrame
<1>2. todo' \subseteq Sessions
  BY <1>1 DEF Link, LoopTypes
<1> QED BY <1>1, <1>2, RestingKept

LEMMA LinkInit == SystemInit => Link
<1> SUFFICES ASSUME SystemInit PROVE Link
  OBVIOUS
<1>1. LoopTypes /\ MapCurrent /\ NoCompletionLost
  BY DEF SystemInit, Init, LoopTypes, MapCurrent, NoCompletionLost, Agrees, Places,
         Statuses, Done, CompletedStatuses, NoUpdate
<1>2. InFlight /\ SentIsRequested /\ Response /\ Phases /\ Lives /\ Fresh
  BY DEF SystemInit, Init, InFlight, SentIsRequested, Response, Phases, Lives, Fresh
<1> QED BY <1>1, <1>2 DEF Link

LEMMA LinkStep ==
  TypeOK /\ OutcomeInv /\ Link /\ [SystemNext]_allVars => Link' /\ [Next]_vars
<1> SUFFICES ASSUME TypeOK, OutcomeInv, Link, [SystemNext]_allVars
             PROVE  Link' /\ [Next]_vars
  OBVIOUS
<1>1. [Next]_vars
  BY Implements
<1>2. OutcomesKept
  BY <1>1, OutcomeStep
<1>3. CASE UNCHANGED allVars
  <2>1. PICK s \in Sessions : TRUE
    BY SomeSession
  <2>2. Reports(s) /\ Proceeds /\ UNCHANGED schedulerVars
    BY <1>3 DEF allVars, vars, schedVars, stopVars, history, Reports, Proceeds
  <2> QED BY <1>1, <1>2, <2>2, ThreadKept
<1>4. CASE Unseen
  BY <1>1, <1>4, RestKept, LooksKept, RetryKept, AnswerKept DEF Unseen
<1>5. ASSUME NEW s \in Sessions, SessionThread(s) \/ OpenjdThread(s),
             UNCHANGED schedulerVars
      PROVE  Link'
  <2>1. SessionInv(s)
    BY DEF OutcomeInv
  <2>2. Reports(s) /\ Proceeds
    BY <1>5, <2>1, ThreadReports, CallbackReports, ThreadProceeds
  <2> QED BY <1>2, <1>5, <2>2, ThreadKept
<1>6. ASSUME NEW s \in Sessions,
             \/ StopFinished(s) \/ StopForDrain(s) \/ CredentialsExpire(s)
             \/ CreateSession(s) \/ CreationFails(s)
      PROVE  Link'
  BY <1>2, <1>6, StopsKept, CreateKept, AnsweredKept
<1>7. CASE \/ Clear \/ Snapshot \/ Commit \/ SetWakeup \/ RemoveFinished \/ Register
           \/ ApplyToSession \/ CancelBreaksSync \/ ReturnToService
  <2>1. CASE Clear \/ Snapshot \/ Commit \/ SetWakeup
    BY <1>1, <2>1, WakeupKept, SnapshotKept, CommitKept
  <2>2. CASE RemoveFinished \/ Register
    BY <1>1, <2>2, RegistryKept
  <2>3. CASE ApplyToSession \/ CancelBreaksSync
    BY <1>1, <2>3, ApplyKept
  <2>4. CASE ReturnToService
    BY <1>1, <1>2, <2>4, AnsweredKept
  <2> QED BY <1>7, <2>1, <2>2, <2>3, <2>4
<1> QED BY <1>1, <1>3, <1>4, <1>5, <1>6, <1>7, SystemSteps

(***************************************************************************)
(* The results.                                                            *)
(***************************************************************************)
LEMMA SystemCorrect ==
  SystemSpec => [](TypeOK /\ OutcomeInv /\ Link)
<1>1. SystemInit => TypeOK /\ OutcomeInv /\ Link
  BY TypeInit, OutcomeInit, LinkInit DEF SystemInit
<1>2. TypeOK /\ OutcomeInv /\ Link /\ [SystemNext]_allVars
        => TypeOK' /\ OutcomeInv' /\ Link'
  BY LinkStep, TypeStep, OutcomeStep
<1> QED BY <1>1, <1>2, PTL DEF SystemSpec

\* The sync loop, with the service it talks to, keeps the contract of Session:
\* each list it hands over (_create_new_sessions,
\* _update_session_actions_from_scheduler, _fail_all_actions and
\* _return_sessionactions_from_stopped_session) holds the actions that have no
\* outcome, through retries, failures and clean-ups.
THEOREM SchedulerImplementsSession == SystemSpec => Spec
<1>1. SystemInit => Init
  BY DEF SystemInit
<1>2. TypeOK /\ OutcomeInv /\ Link /\ [SystemNext]_allVars => [Next]_vars
  BY LinkStep
<1> QED BY <1>1, <1>2, SystemCorrect, PTL DEF SystemSpec, Spec

\* No completion is lost between the Sessions, the map and the service: the
\* commit of _updated_session_actions deletes only what was told.
THEOREM CompletionsKept == SystemSpec => []NoCompletionLost
<1>1. Link => NoCompletionLost
  BY DEF Link
<1> QED BY <1>1, SystemCorrect, PTL

\* What the service was told of a completed action it is not told otherwise,
\* also by a request that is sent again, unless details of actions are missing
\* (which ends in two reports).
THEOREM OneOutcomeTold ==
  ASSUME "entity" \notin Faults
  PROVE  SystemSpec => ServiceSeesOneOutcome
<1>1. ASSUME TypeOK, OutcomeInv, Link, [SystemNext]_allVars, NEW a \in Actions,
             Done(svc[a])
      PROVE  svc'[a] = svc[a]
  <2>1. CASE RetryRequest \/ ServiceAnswers
    <3>1. at = "request" /\ svc'[a] \in {svc[a], Told(a)}
      BY <2>1 DEF RetryRequest, ServiceAnswers, Step, Told
    <3>2. Told(a) = svc[a]
      BY <1>1, <3>1 DEF Link, InFlight, MapCurrent, Agrees, Told
    <3> QED BY <3>1, <3>2
  <2>2. CASE UNCHANGED svc
    BY <2>2
  <2>3. RetryRequest \/ ServiceAnswers \/ UNCHANGED svc
    BY <1>1 DEF SystemNext, SyncLoop, Drain, CheckShutdown, Clear, Snapshot, Gate,
       Commit, StopFinished, CreateSession, CreationFails, LookAtFuture,
       RemoveFinished, AllRemoved, Register, AllCreated, ApplyToSession,
       CancelBreaksSync, ReturnToService, EndSync, WakeUp, IntervalPasses,
       TellStopping, StopForDrain, AllStopped, RequestFails, ServiceShutdown,
       SetShutdown, SetWakeup, CredentialsExpire, schedulerVars, svcVars, allVars
  <2> QED BY <2>1, <2>2, <2>3
<1>2. TypeOK /\ OutcomeInv /\ Link /\ [SystemNext]_allVars =>
        [\A a \in Actions : Done(svc[a]) => svc'[a] = svc[a]]_allVars
  BY <1>1
<1> QED BY <1>2, SystemCorrect, PTL DEF SystemSpec, ServiceSeesOneOutcome

\* So the theorems about Session hold of the whole system: what is complete
\* stays so, and the work of an action starts once, whatever the service
\* answers, and however requests, shutdowns and threads interleave.
THEOREM SystemOutcomes == SystemSpec => CompletedIsFinal /\ StartsOnce
<1> QED BY SchedulerImplementsSession, CompletionsFinal, WorkStartsOnce, PTL

(***************************************************************************)
(* The service learns outcomes in the order of the pipeline.  The argument *)
(* follows an action through its Session: what the service has assigned    *)
(* before an action the Session holds is complete or held too (Lined), so  *)
(* is what is before an action that cancel_all still has to report         *)
(* (Leaving), and an action that is lost when cancel_all fails was told to *)
(* the service as RUNNING by the time its Session is found gone (Left).    *)
(***************************************************************************)
\* What the service assigned to Session s before action a, ENV_EXITs aside.
Earlier(s, a) ==
  {b \in OwnAssigned(s) : Pos[b] < Pos[a] /\ Kind[b] # "ENV_EXIT"}

\* What Session s was given and has not finished.
Held(s) == Queued(s) \union OptionalSet(current[s])

\* What it has started, and not finished as far as anybody knows.
Underway(s) ==
  {b \in Own(s) : reported[b] = "RUNNING" /\ Kind[b] # "ENV_EXIT"}

\* Its clean-up has not begun to take the queue apart.
InLine(s) == Early(s) \/ pc[s] = "snapshot"

Lined(s) ==
  InLine(s) =>
    /\ Queued(s) \subseteq byId[s]
    /\ Underway(s) \subseteq Held(s)
    /\ \A a \in Held(s) : \A b \in Earlier(s, a) : Completed(b) \/ b \in Held(s)

\* What cancel_all has still to report.
Popping(s) == pc[s] \in {"remove", "tell"}
Leavers(s) == victims[s] \union (IF Popping(s) THEN {popped[s]} ELSE {})

Leaving(s) ==
  Popping(s) \/ pc[s] = "cancelAll" =>
    /\ victims[s] \subseteq Queued(s) \intersect byId[s]
    /\ Leavers(s) \subseteq svcAssigned
    /\ Underway(s) \subseteq Leavers(s)
    /\ \A a \in Leavers(s) :
         \A b \in Earlier(s, a) : Completed(b) \/ b \in Leavers(s)
    /\ Popping(s) => \A v \in victims[s] : Pos[popped[s]] =< Pos[v]

\* cancel_all will fail, or the clean-up is over.
Found(s) == popped[s] \in Queued(s) /\ popped[s] \notin byId[s]
Doomed(s) == \/ pc[s] = "remove" /\ ~ Found(s)
             \/ pc[s] \in {"closing", "closed", "exiting", "done"}

\* What is reported of b in the map is, or will be, taken to the service
\* before the scheduler looks at Session s again.
Taken(s, b) ==
  /\ at \in {"gate", "request", "answer"} =>
       updates[b].sent \/ updates[b].status = "none"
  /\ at \in {"remove", "removing", "create", "register"} =>
       updates[b].status = "none"
  /\ at \in {"look", "apply"} /\ s \in todo => updates[b].status = "none"

Left(s) ==
  /\ ~ Early(s) /\ current[s] # None => Completed(current[s])
  /\ pc[s] \in {"steps", "wait"} => Underway(s) = {}
  /\ Doomed(s) => \A b \in Underway(s) : Taken(s, b)

\* A Session reports in order.
InOrder(s) ==
  \A a \in Own(s) : reported[a] = "NEVER_ATTEMPTED" =>
    a \in svcAssigned /\ \A b \in Earlier(s, a) : Completed(b)

SessionOrder(s) == Lined(s) /\ Leaving(s) /\ Left(s) /\ InOrder(s)

\* The service assigns in order, until a Session is broken.
Pipelines ==
  \A s \in Sessions : \A a \in OwnAssigned(s), b \in Own(s) :
    Pos[b] < Pos[a] /\ Kind[b] # "ENV_EXIT" =>
      b \in svcAssigned \/ Broken(s, svc, svcCanceled)

\* A request tells in order, and so the service knows in order.
ToldInOrder ==
  at \in {"gate", "request"} =>
    \A s \in Sessions : \A a \in Own(s) : Told(a) = "NEVER_ATTEMPTED" =>
      \A b \in Earlier(s, a) : Done(Told(b))

KnownInOrder ==
  \A s \in Sessions : \A a \in Own(s) : svc[a] = "NEVER_ATTEMPTED" =>
    \A b \in Earlier(s, a) : Done(svc[b])

OrderInv == /\ Pipelines /\ ToldInOrder /\ KnownInOrder
            /\ \A s \in Sessions : SessionOrder(s)

(***************************************************************************)
(* Steps that do nothing to a Session.                                     *)
(***************************************************************************)
Same(s) ==
  /\ queue'[s] = queue[s] /\ upload'[s] = upload[s] /\ byId'[s] = byId[s]
  /\ current'[s] = current[s] /\ victims'[s] = victims[s]
  /\ popped'[s] = popped[s] /\ pc'[s] = pc[s]
  /\ \A a \in Own(s) : reported'[a] = reported[a]

LEMMA SameKept ==
  ASSUME TypeOK, NEW s \in Sessions, SessionInv(s), SessionOrder(s), Same(s),
         svcAssigned' = svcAssigned,
         \A b \in Underway(s) : Taken(s, b) => Taken(s, b)'
  PROVE  SessionOrder(s)'
<1>1. /\ Queued(s)' = Queued(s) /\ Held(s)' = Held(s)
      /\ (Early(s)' <=> Early(s)) /\ (InLine(s)' <=> InLine(s))
      /\ (Popping(s)' <=> Popping(s)) /\ Leavers(s)' = Leavers(s)
      /\ (Doomed(s)' <=> Doomed(s))
  BY DEF Same, Queued, Held, Early, InLine, Popping, Leavers, Doomed, Found
<1>2. \A a : Earlier(s, a)' = Earlier(s, a)
  BY DEF Earlier, OwnAssigned, Own
<1>3. /\ Underway(s)' = Underway(s) /\ Own(s)' = Own(s)
      /\ \A a \in Own(s) : Completed(a)' = Completed(a)
  BY DEF Same, Underway, Completed, Own
<1>4. \A a : Earlier(s, a) \subseteq Own(s)
  BY DEF Earlier, OwnAssigned
<1>5. Lined(s)'
  BY <1>1, <1>2, <1>3, <1>4 DEF SessionOrder, Lined, Same
<1>6. Leaving(s)'
  BY <1>1, <1>2, <1>3, <1>4 DEF SessionOrder, Leaving, Same
<1>7. Left(s)'
  <2>1. current[s] # None => current[s] \in Own(s)
    BY HeldOwn
  <2> QED BY <1>1, <1>3, <2>1 DEF SessionOrder, Left, Same
<1>8. InOrder(s)'
  BY <1>2, <1>3, <1>4 DEF SessionOrder, InOrder, Same
<1> QED BY <1>5, <1>6, <1>7, <1>8 DEF SessionOrder

\* With details never missing an outcome is final.
LEMMA OutcomeFinal ==
  ASSUME "entity" \notin Faults, TypeOK, OutcomesKept, NEW a \in Actions, Completed(a)
  PROVE  reported'[a] = reported[a] /\ Completed(a)'
BY DEF OutcomesKept, Decided, Refused, Completed, TypeOK

LEMMA HeldAssigned ==
  ASSUME TypeOK, Link, NEW s \in Sessions, SessionInv(s)
  PROVE  Held(s) \subseteq OwnAssigned(s) /\ Queued(s) \subseteq Held(s)
<1>1. Queued(s) \subseteq Own(s) \intersect assigned
  BY HeldOwn
<1>2. current[s] # None => current[s] \in Own(s) \intersect assigned
  BY HeldOwn
<1> QED BY <1>1, <1>2 DEF Held, OptionalSet, OwnAssigned, Link, MapCurrent

(***************************************************************************)
(* Steps up to the moment cancel_all takes the queue apart: the Session    *)
(* lets go only of what is complete, and reports NEVER_ATTEMPTED only      *)
(* together with all it holds before that.                                 *)
(***************************************************************************)
Advances(s) ==
  /\ Held(s)' \subseteq Held(s)
  /\ \A b \in Held(s) : b \in Held(s)' \/ Completed(b)'
  /\ Queued(s)' \subseteq byId'[s]
  /\ \A a \in Own(s) : reported'[a] = "RUNNING" =>
       reported[a] = "RUNNING" \/ a \in Held(s)'
  /\ \A a \in Own(s) : reported'[a] = "NEVER_ATTEMPTED" =>
       \/ reported[a] = "NEVER_ATTEMPTED"
       \/ /\ a \in Held(s)
          /\ \A b \in Held(s) :
               Pos[b] < Pos[a] /\ Kind[b] # "ENV_EXIT" => Completed(b)'
  /\ current'[s] # None /\ ~ Early(s)' => Completed(current[s])' /\ current'[s] = current[s]

LEMMA AdvanceKept ==
  ASSUME TypeOK, Link, "entity" \notin Faults, OutcomesKept,
         NEW s \in Sessions, SessionInv(s), SessionOrder(s),
         InLine(s), InLine(s)', Advances(s), svcAssigned' = svcAssigned
  PROVE  SessionOrder(s)'
<1>1. /\ \A a : Earlier(s, a)' = Earlier(s, a) /\ Earlier(s, a) \subseteq Own(s)
      /\ Own(s)' = Own(s) /\ Own(s) \subseteq Actions
  BY DEF Earlier, OwnAssigned, Own
<1>2. \A a \in Own(s) : Completed(a) => Completed(a)'
  BY <1>1, OutcomeFinal
<1>3. Held(s) \subseteq OwnAssigned(s)
  BY HeldAssigned
<1>4. Lined(s)'
  <2>1. Underway(s)' \subseteq Held(s)'
    <3> SUFFICES ASSUME NEW b \in Underway(s)' PROVE b \in Held(s)'
      OBVIOUS
    <3>1. b \in Own(s) /\ reported'[b] = "RUNNING" /\ Kind[b] # "ENV_EXIT"
      BY DEF Underway, Own
    <3>2. ~ Completed(b)'
      BY <3>1 DEF Completed, CompletedStatuses
    <3>3. reported[b] = "RUNNING" => b \in Held(s)
      BY <3>1 DEF SessionOrder, Lined, Underway
    <3> QED BY <3>1, <3>2, <3>3 DEF Advances
  <2>2. ASSUME NEW a \in Held(s)', NEW b \in Earlier(s, a)
        PROVE  Completed(b)' \/ b \in Held(s)'
    <3>1. a \in Held(s) /\ b \in Own(s)
      BY <1>1, <2>2 DEF Advances
    <3>2. Completed(b) \/ b \in Held(s)
      BY <2>2, <3>1 DEF SessionOrder, Lined
    <3> QED BY <1>2, <3>1, <3>2 DEF Advances
  <2> QED BY <1>1, <2>1, <2>2 DEF Lined, Advances
<1>5. Leaving(s)'
  BY DEF Leaving, InLine, Early, Popping
<1>6. Left(s)'
  BY DEF Left, InLine, Early, Doomed, Advances
<1>7. InOrder(s)'
  <2> SUFFICES ASSUME NEW a \in Own(s), reported'[a] = "NEVER_ATTEMPTED"
               PROVE  a \in svcAssigned /\ \A b \in Earlier(s, a) : Completed(b)'
    BY <1>1 DEF InOrder
  <2>1. CASE reported[a] = "NEVER_ATTEMPTED"
    BY <1>1, <1>2, <2>1 DEF SessionOrder, InOrder
  <2>2. CASE /\ a \in Held(s)
             /\ \A b \in Held(s) :
                  Pos[b] < Pos[a] /\ Kind[b] # "ENV_EXIT" => Completed(b)'
    <3>1. ASSUME NEW b \in Earlier(s, a) PROVE Completed(b)'
      <4>1. b \in Own(s) /\ Pos[b] < Pos[a] /\ Kind[b] # "ENV_EXIT"
        BY <1>1, <3>1 DEF Earlier
      <4>2. Completed(b) \/ b \in Held(s)
        BY <2>2, <3>1 DEF SessionOrder, Lined
      <4> QED BY <1>2, <2>2, <4>1, <4>2
    <3> QED BY <1>3, <2>2, <3>1 DEF OwnAssigned
  <2> QED BY <2>1, <2>2 DEF Advances
<1> QED BY <1>4, <1>5, <1>6, <1>7 DEF SessionOrder

(***************************************************************************)
(* The loop of the Session thread and the callback.                        *)
(***************************************************************************)
LEMMA StartActionOrder ==
  ASSUME TypeOK, Link, "entity" \notin Faults, OutcomesKept,
         NEW s \in Sessions, SessionInv(s), SessionOrder(s), StartAction(s),
         svcAssigned' = svcAssigned
  PROVE  SessionOrder(s)'
<1>1. /\ pc[s] = "start" /\ current[s] = None /\ Queued(s) # {}
      /\ Early(s) /\ Undecided(s)
  BY DEF StartAction, ReadyToStart, SessionInv, Early
<1>2. PICK f \in Actions :
        /\ f = Front(s) /\ f \in Queued(s)
        /\ upload[s] = None => f \in queue[s]
        /\ upload[s] # None => f = upload[s]
  BY <1>1, FrontIn
<1>3. f # None
  BY ConstantsAssumption DEF ConstantsAssumption
<1>4. /\ queue'[s] = queue[s] \ {f} /\ upload'[s] = None
      /\ byId'[s] = byId[s] \ {f} /\ current'[s] = f /\ pc'[s] = "check"
      /\ reported' = reported
  <2>1. /\ queue' = [queue EXCEPT ![s] = queue[s] \ {Front(s)}]
        /\ upload' = [upload EXCEPT ![s] = None]
        /\ byId' = [byId EXCEPT ![s] = byId[s] \ {Front(s)}]
        /\ current' = [current EXCEPT ![s] = Front(s)]
        /\ pc' = [pc EXCEPT ![s] = "check"]
        /\ reported' = reported
    BY DEF StartAction, Dequeue
  <2> QED BY <1>2, <2>1 DEF TypeOK
<1>5. Queued(s)' = Queued(s) \ {f}
  <2>1. upload[s] # None => f \notin queue[s]
    BY <1>1, <1>2 DEF Undecided
  <2> QED BY <1>2, <1>4, <2>1 DEF Queued, OptionalSet
<1>6. Held(s) = Queued(s) /\ Held(s)' = Queued(s)
  BY <1>1, <1>2, <1>3, <1>4, <1>5 DEF Held, OptionalSet
<1>7. Queued(s)' \subseteq byId'[s]
  BY <1>1, <1>4, <1>5 DEF SessionOrder, Lined, InLine
<1>8. Advances(s)
  BY <1>4, <1>6, <1>7 DEF Advances, Early
<1>9. InLine(s) /\ InLine(s)'
  BY <1>1, <1>4 DEF InLine, Early
<1> QED BY <1>8, <1>9, AdvanceKept

\* A step that reports st and lets go of the actions it completes.
LEMMA DecisionAdvances ==
  ASSUME TypeOK, NEW s \in Sessions, Early(s)', NEW st,
         reported' = [a \in Actions |-> IF st[a] = "none" THEN reported[a]
                                        ELSE st[a]],
         Held(s) \subseteq Actions,
         Held(s)' \subseteq Held(s), Queued(s)' \subseteq byId'[s],
         \A b \in Held(s) : b \in Held(s)' \/ st[b] \in CompletedStatuses,
         \A a \in Actions : st[a] = "RUNNING" => a \in Held(s)',
         \A a \in Actions : st[a] = "NEVER_ATTEMPTED" =>
           /\ a \in Held(s)
           /\ \A b \in Held(s) : Kind[b] = "ENV_EXIT" \/ st[b] \in CompletedStatuses
  PROVE  Advances(s)
<1>1. \A a \in Actions : reported'[a] = IF st[a] = "none" THEN reported[a]
                                        ELSE st[a]
  OBVIOUS
<1>2. \A a \in Actions : st[a] \in CompletedStatuses => Completed(a)'
  BY <1>1 DEF Completed, CompletedStatuses
<1>3. Own(s) \subseteq Actions
  BY DEF Own
<1> QED BY <1>1, <1>2, <1>3 DEF Advances

LEMMA StartFailsOrder ==
  ASSUME TypeOK, Link, "entity" \notin Faults, OutcomesKept,
         NEW s \in Sessions, SessionInv(s), SessionOrder(s), StartFails(s),
         svcAssigned' = svcAssigned
  PROVE  SessionOrder(s)'
<1>1. /\ pc[s] = "start" /\ current[s] = None /\ Queued(s) # {}
      /\ Early(s) /\ Undecided(s)
  BY DEF StartFails, ReadyToStart, SessionInv, Early
<1>2. PICK f \in Actions :
        /\ f = Front(s) /\ f \in Queued(s)
        /\ upload[s] # None => f = upload[s]
  BY <1>1, FrontIn
<1>3. target[s] # None => target[s] = f
  BY <1>1, <1>2 DEF Undecided
<1> DEFINE left == Cancelable(s) \ {f}
           st   == Both(f, "FAILED", left)
<1>4. /\ queue'[s] = queue[s] \ (left \union {f}) /\ upload'[s] = None
      /\ byId'[s] = byId[s] \ (left \union {f})
      /\ current'[s] = None /\ pc'[s] = "check"
      /\ reported' = [a \in Actions |-> IF st[a] = "none" THEN reported[a]
                                        ELSE st[a]]
  <2>1. /\ queue' = [queue EXCEPT ![s] = @ \ (left \union {f})]
        /\ upload' = [upload EXCEPT ![s] = None]
        /\ byId' = [byId EXCEPT ![s] = @ \ (left \union {f})]
        /\ current' = current
        /\ pc' = [pc EXCEPT ![s] = "check"]
        /\ Report(s, st, FALSE)
    BY <1>2, <1>3, Zenon DEF StartFails
  <2> HIDE DEF st, left
  <2>2. reported' = [a \in Actions |-> IF st[a] = "none" THEN reported[a]
                                       ELSE st[a]]
    BY <2>1 DEF Report
  <2> QED BY <1>1, <2>1, <2>2 DEF TypeOK
<1>5. \A a \in Actions :
        /\ a \in left => st[a] = "NEVER_ATTEMPTED"
        /\ a = f => st[a] = "FAILED"
        /\ a \notin left /\ a # f => st[a] = "none"
  BY DEF Both
<1>6. /\ Held(s) = Queued(s) /\ Queued(s) \subseteq Actions
      /\ Held(s)' = queue[s] \ (left \union {f})
      /\ Queued(s)' = queue[s] \ (left \union {f})
      /\ queue[s] \subseteq Queued(s) /\ left \subseteq Queued(s)
      /\ \A b \in Queued(s) : b \in queue[s] \/ b = f
      /\ \A b \in Queued(s) : Kind[b] = "ENV_EXIT" \/ b \in left \/ b = f
  BY <1>1, <1>2, <1>4, QueuedType DEF Held, Queued, Cancelable, OptionalSet, TypeOK
<1> HIDE DEF st, left
<1>7. Queued(s)' \subseteq byId'[s]
  BY <1>1, <1>4, <1>6 DEF SessionOrder, Lined, InLine
<1>8. Advances(s)
  <2>1. Early(s)'
    BY <1>4 DEF Early
  <2>2. \A b \in Held(s) : b \in Held(s)' \/ st[b] \in CompletedStatuses
    BY <1>5, <1>6 DEF CompletedStatuses
  <2>3. \A a \in Actions : st[a] = "NEVER_ATTEMPTED" =>
          /\ a \in Held(s)
          /\ \A b \in Held(s) : Kind[b] = "ENV_EXIT" \/ st[b] \in CompletedStatuses
    BY <1>5, <1>6 DEF CompletedStatuses
  <2>4. \A a \in Actions : st[a] # "RUNNING"
    BY <1>5
  <2> QED BY <1>4, <1>6, <1>7, <2>1, <2>2, <2>3, <2>4, DecisionAdvances
<1>9. InLine(s) /\ InLine(s)'
  BY <1>1, <1>4 DEF InLine, Early
<1> QED BY <1>8, <1>9, AdvanceKept

LEMMA HandleUpdateOrder ==
  ASSUME TypeOK, Link, "entity" \notin Faults, OutcomesKept,
         NEW s \in Sessions, SessionInv(s), SessionOrder(s),
         NEW state \in EndStates \union {"RUNNING"}, NEW a,
         HandleUpdate(s, state, a), ~ interrupted[s], current[s] # None,
         a = current[s], UNCHANGED <<pc, svcAssigned>>
  PROVE  SessionOrder(s)'
<1>1. Early(s) /\ Undecided(s)
  BY DEF SessionInv, Cancelling
<1>2. /\ a \in Actions /\ a \in Held(s) /\ Held(s) \subseteq Actions
      /\ Held(s) = Queued(s) \union {a}
      /\ InLine(s) /\ InLine(s)' /\ Early(s)'
  BY <1>1, HeldOwn, QueuedType DEF Held, OptionalSet, InLine, Early, Own
<1>3. Queued(s) \subseteq byId[s]
  BY <1>2 DEF SessionOrder, Lined
<1>4. CASE state = "RUNNING"
  <2> DEFINE st == Both(a, "RUNNING", {})
  <2>1. /\ UNCHANGED <<queueVars, current>>
        /\ reported' = [b \in Actions |-> IF st[b] = "none" THEN reported[b]
                                          ELSE st[b]]
    <3>1. ReportedAs(state) = "RUNNING" /\ state \notin EndStates \ {"SUCCESS"}
      BY <1>4 DEF ReportedAs, EndStates
    <3>2. \E idle : Report(s, st, idle)
      BY <1>4, <3>1 DEF HandleUpdate
    <3>3. UNCHANGED <<queueVars, current>>
      BY <1>4, <3>1 DEF HandleUpdate
    <3> HIDE DEF st
    <3> QED BY <3>2, <3>3 DEF Report
  <2>2. Held(s)' = Held(s) /\ Queued(s)' \subseteq byId'[s]
    BY <1>3, <2>1 DEF Held, Queued, queueVars
  <2>3. \A b \in Actions : st[b] = IF b = a THEN "RUNNING" ELSE "none"
    BY DEF Both
  <2> HIDE DEF st
  <2>4. Advances(s)
    BY <1>2, <2>1, <2>2, <2>3, DecisionAdvances
  <2> QED BY <1>2, <2>4, AdvanceKept
<1>5. CASE state \in EndStates
  <2>0. PICK never : never = IF state \in EndStates \ {"SUCCESS"}
                             THEN Cancelable(s) ELSE {}
    OBVIOUS
  <2>1. /\ never \in {{}, Cancelable(s)}
        /\ IF never = {} THEN UNCHANGED queueVars ELSE CancelAll(s)
        /\ current' = [current EXCEPT ![s] = None]
        /\ Report(s, Both(a, ReportedAs(state), never), Queued(s) \ never = {})
    BY <1>5, <2>0 DEF HandleUpdate, EndStates
  <2> DEFINE st == Both(a, ReportedAs(state), never)
  <2>2. /\ reported' = [b \in Actions |-> IF st[b] = "none" THEN reported[b]
                                          ELSE st[b]]
        /\ current'[s] = None
    <3>1. Report(s, st, Queued(s) \ never = {})
      BY <2>1
    <3> HIDE DEF st
    <3> QED BY <2>1, <3>1 DEF Report, TypeOK
  <2>3. ReportedAs(state) \in CompletedStatuses \ {"NEVER_ATTEMPTED"}
    BY <1>5 DEF ReportedAs, EndStates, CompletedStatuses
  <2>4. \A b \in Actions :
          /\ b \in never => st[b] = "NEVER_ATTEMPTED"
          /\ b \notin never /\ b = a => st[b] = ReportedAs(state)
          /\ b \notin never /\ b # a => st[b] = "none"
    BY DEF Both
  <2>5. /\ queue'[s] = queue[s] \ never /\ byId'[s] = byId[s] \ never
        /\ upload'[s] = IF never = {} THEN upload[s] ELSE None
    <3>1. CASE never = {}
      BY <2>1, <3>1 DEF queueVars
    <3>2. CASE never # {}
      BY <2>1, <3>2 DEF CancelAll, TypeOK
    <3> QED BY <3>1, <3>2
  <2>6. upload[s] # None => upload[s] \in Cancelable(s) /\ upload[s] \notin queue[s]
    BY <1>1 DEF Cancelable, OptionalSet, Undecided
  <2>7. /\ Queued(s)' = Queued(s) \ never /\ Held(s)' = Queued(s) \ never
        /\ never \subseteq Queued(s)
    BY <2>1, <2>2, <2>5, <2>6, QueuedType DEF Queued, Held, OptionalSet
  <2>8. never # {} => \A b \in Queued(s) : Kind[b] = "ENV_EXIT" \/ b \in never
    BY <2>1 DEF Queued, Cancelable
  <2> HIDE DEF st
  <2>9. /\ Held(s)' \subseteq Held(s)
        /\ Queued(s)' \subseteq byId'[s]
    BY <1>2, <1>3, <2>5, <2>7
  <2>10. \A b \in Held(s) : b \in Held(s)' \/ st[b] \in CompletedStatuses
    BY <1>2, <2>3, <2>4, <2>7 DEF CompletedStatuses
  <2>11. \A b \in Actions : st[b] # "RUNNING"
    BY <2>3, <2>4 DEF CompletedStatuses
  <2>12. ASSUME NEW b \in Actions, st[b] = "NEVER_ATTEMPTED"
         PROVE  /\ b \in Held(s)
                /\ \A c \in Held(s) : Kind[c] = "ENV_EXIT" \/ st[c] \in CompletedStatuses
    <3>1. b \in never
      BY <2>3, <2>4, <2>12
    <3> QED BY <1>2, <2>3, <2>4, <2>7, <2>8, <3>1 DEF CompletedStatuses
  <2>13. Advances(s)
    BY <1>2, <2>2, <2>9, <2>10, <2>11, <2>12, DecisionAdvances
  <2> QED BY <1>2, <2>13, AdvanceKept
<1> QED BY <1>4, <1>5

LEMMA QueueUploadOrder ==
  ASSUME TypeOK, Link, "entity" \notin Faults, OutcomesKept,
         NEW s \in Sessions, SessionInv(s), SessionOrder(s),
         QueueUpload(s), ~ interrupted[s], current[s] # None, target[s] = None,
         UNCHANGED <<queue, reported, pc, svcAssigned>>
  PROVE  SessionOrder(s)'
<1>1. Early(s) /\ upload[s] = None
  BY DEF SessionInv, Cancelling, UploadOfTask
<1>2. /\ upload'[s] = current[s] /\ current'[s] = None
      /\ byId'[s] = byId[s] \union {current[s]}
  BY DEF QueueUpload, TypeOK
<1>3. Held(s)' = Held(s) /\ Queued(s)' = queue[s] \union {current[s]}
  BY <1>1, <1>2 DEF Held, Queued, OptionalSet
<1>4. InLine(s) /\ InLine(s)'
  BY <1>1 DEF InLine, Early
<1>5. Queued(s)' \subseteq byId'[s]
  BY <1>2, <1>3, <1>4 DEF SessionOrder, Lined, Queued
<1>6. Advances(s)
  BY <1>2, <1>3, <1>5 DEF Advances
<1> QED BY <1>4, <1>6, AdvanceKept

\* After the interruption a callback only takes the running action away.
LEMMA LateCallbackOrder ==
  ASSUME TypeOK, Link, "entity" \notin Faults, OutcomesKept,
         NEW s \in Sessions, SessionInv(s), SessionOrder(s),
         interrupted[s], current' \in {current, [current EXCEPT ![s] = None]},
         UNCHANGED <<queueVars, victims, popped, reported, pc, svcAssigned>>,
         \A b \in Underway(s) : Taken(s, b) => Taken(s, b)'
  PROVE  SessionOrder(s)'
<1>1. ~ Early(s) /\ ~ Early(s)'
  BY DEF SessionInv, Undecided, Early
<1>2. /\ current'[s] \in {None, current[s]} /\ Queued(s)' = Queued(s)
      /\ current[s] # None => reported[current[s]] \in CompletedStatuses
  <2>1. current'[s] \in {None, current[s]}
    BY DEF TypeOK
  <2>2. Queued(s)' = Queued(s)
    BY DEF Queued, queueVars
  <2>3. current[s] # None => Completed(current[s])
    BY <1>1 DEF SessionOrder, Left
  <2> QED BY <2>1, <2>2, <2>3 DEF Completed
<1>3. CASE InLine(s)
  <2>1. InLine(s)'
    BY <1>3 DEF InLine, Early
  <2>2. Queued(s)' \subseteq byId'[s]
    BY <1>2, <1>3 DEF SessionOrder, Lined, queueVars
  <2>3. Held(s)' \subseteq Held(s) /\ \A b \in Held(s) : b \in Held(s)' \/ Completed(b)'
    BY <1>2 DEF Held, OptionalSet, Completed
  <2>4. Advances(s)
    <3>1. /\ reported' = reported
          /\ current'[s] # None => current'[s] = current[s] /\ Completed(current[s])'
      BY <1>2 DEF Completed
    <3> QED BY <2>2, <2>3, <3>1 DEF Advances
  <2> QED BY <1>3, <2>1, <2>4, AdvanceKept
<1>4. CASE ~ InLine(s)
  <2>1. /\ (Popping(s)' <=> Popping(s)) /\ Leavers(s)' = Leavers(s)
        /\ (Doomed(s)' <=> Doomed(s)) /\ ~ InLine(s)'
    BY <1>2, <1>4 DEF Popping, Leavers, Doomed, Found, queueVars, InLine, Early
  <2>2. /\ \A a : Earlier(s, a)' = Earlier(s, a)
        /\ Underway(s)' = Underway(s) /\ Own(s)' = Own(s)
        /\ \A a : Completed(a)' <=> Completed(a)
    BY DEF Earlier, OwnAssigned, Own, Underway, Completed
  <2>3. Lined(s)'
    BY <2>1 DEF Lined
  <2>4. Leaving(s)'
    BY <1>2, <2>1, <2>2 DEF SessionOrder, Leaving, queueVars
  <2>5. Left(s)'
    <3>1. current'[s] # None => Completed(current[s])'
      BY <1>2 DEF Completed
    <3>2. pc[s] \in {"steps", "wait"} => Underway(s) = {}
      BY DEF SessionOrder, Left
    <3>3. Doomed(s) => \A b \in Underway(s) : Taken(s, b)'
      BY DEF SessionOrder, Left
    <3> QED BY <2>1, <2>2, <3>1, <3>2, <3>3 DEF Left
  <2>6. InOrder(s)'
    BY <2>2 DEF SessionOrder, InOrder
  <2> QED BY <2>3, <2>4, <2>5, <2>6 DEF SessionOrder
<1> QED BY <1>3, <1>4
\* Steps that neither a Session nor the map nor the loop's place sees.
LEMMA StillKept ==
  ASSUME TypeOK, NEW s \in Sessions, SessionInv(s), SessionOrder(s),
         UNCHANGED <<queueVars, current, victims, popped, pc, reported, updates,
                     at, todo, svcAssigned>>
  PROVE  SessionOrder(s)'
<1>1. Same(s)
  BY DEF Same, queueVars
<1>2. \A b \in Underway(s) : Taken(s, b) => Taken(s, b)'
  BY DEF Taken
<1> QED BY <1>1, <1>2, SameKept

LEMMA UpdatedOrder ==
  ASSUME TypeOK, Link, "entity" \notin Faults, OutcomesKept,
         NEW s \in Sessions, SessionInv(s), SessionOrder(s),
         NEW state \in EndStates \union {"RUNNING"}, Updated(s, state),
         UNCHANGED <<victims, popped, pc, at, todo, svcAssigned>>
  PROVE  SessionOrder(s)'
<1>1. CASE /\ interrupted[s]
           /\ current' \in {current, [current EXCEPT ![s] = None]}
           /\ UNCHANGED <<schedVars, queueVars, reported>>
  <2>1. \A b \in Underway(s) : Taken(s, b) => Taken(s, b)'
    BY <1>1 DEF Taken, schedVars
  <2> QED BY <1>1, <2>1, LateCallbackOrder
<1>2. CASE UNCHANGED <<schedVars, queueVars, current, reported>>
  BY <1>2, StillKept DEF schedVars
<1>3. CASE /\ ~ interrupted[s] /\ current[s] # None
           /\ HandleUpdate(s, state, current[s])
  BY <1>3, HandleUpdateOrder
<1>4. CASE /\ ~ interrupted[s] /\ current[s] # None /\ target[s] = None
           /\ QueueUpload(s) /\ UNCHANGED <<queue, reported>>
  BY <1>4, QueueUploadOrder
<1>5. target[s] # None /\ current[s] # None => target[s] = current[s]
  BY DEF SessionInv, UploadOfTask
<1> QED BY <1>1, <1>2, <1>3, <1>4, <1>5 DEF Updated

LEMMA OpenjdOrder ==
  ASSUME TypeOK, Link, "entity" \notin Faults, OutcomesKept,
         NEW s \in Sessions, SessionInv(s), SessionOrder(s),
         OpenjdThread(s), UNCHANGED <<at, todo, svcAssigned>>
  PROVE  SessionOrder(s)'
<1>1. CASE Progress(s)
  BY <1>1, UpdatedOrder DEF Progress, callbackFrame, cleanVars
<1>2. CASE ProcessesEnd(s)
  BY <1>2, StillKept DEF ProcessesEnd, ProcessEnds, schedVars, runVars, cleanVars,
     history
<1>3. CASE Callback(s)
  <2>1. pendingCb[s] \in EndStates
    BY <1>3 DEF Callback, TypeOK
  <2> QED BY <1>3, <2>1, UpdatedOrder DEF Callback, callbackFrame, cleanVars
<1> QED BY <1>1, <1>2, <1>3 DEF OpenjdThread

(***************************************************************************)
(* The other steps of the Session thread.                                  *)
(***************************************************************************)
\* Moves that change nothing the order depends on but the thread's place.
LEMMA MovesOrder ==
  ASSUME TypeOK, Link, "entity" \notin Faults, OutcomesKept,
         NEW s \in Sessions, SessionInv(s), SessionOrder(s), NEW p,
         pc' = [pc EXCEPT ![s] = p],
         \/ Early(s) /\ p \in {"check", "start", "interrupt"}
         \/ pc[s] \in {"steps", "wait"} /\ p \in {"steps", "wait", "closing"}
         \/ pc[s] \in {"closing", "closed", "exiting"}
            /\ p \in {"closed", "exiting", "done"},
         UNCHANGED <<queueVars, current, victims, popped, reported, updates,
                     at, todo, svcAssigned>>
  PROVE  SessionOrder(s)'
<1>1. /\ pc'[s] = p /\ Queued(s)' = Queued(s) /\ Held(s)' = Held(s)
      /\ Own(s)' = Own(s) /\ Underway(s)' = Underway(s)
      /\ \A a : Earlier(s, a)' = Earlier(s, a)
      /\ \A a : Completed(a)' <=> Completed(a)
  BY DEF TypeOK, Queued, Held, queueVars, Own, Underway, Earlier, OwnAssigned,
         Completed
<1>2. Lined(s)'
  <2>1. InLine(s)' => InLine(s)
    BY <1>1 DEF InLine, Early
  <2> QED BY <1>1, <2>1 DEF SessionOrder, Lined, queueVars
<1>3. Leaving(s)'
  BY <1>1 DEF Leaving, Popping, Early
<1>4. Left(s)'
  <2>1. ~ Early(s)' => ~ Early(s)
    BY <1>1 DEF Early
  <2>2. ~ Early(s)' /\ current'[s] # None => Completed(current[s])'
    BY <2>1 DEF SessionOrder, Left, Completed
  <2>3. pc'[s] \in {"steps", "wait"} => Underway(s) = {}
    BY <1>1 DEF SessionOrder, Left, Early
  <2>4. Doomed(s)' => Doomed(s) \/ Underway(s) = {}
    BY <1>1 DEF SessionOrder, Left, Doomed, Early
  <2>5. Doomed(s) => \A b \in Underway(s) : Taken(s, b)'
    BY DEF SessionOrder, Left, Taken
  <2> QED BY <1>1, <2>2, <2>3, <2>4, <2>5 DEF Left
<1>5. InOrder(s)'
  BY <1>1 DEF SessionOrder, InOrder
<1> QED BY <1>2, <1>3, <1>4, <1>5 DEF SessionOrder

LEMMA QuietThreadOrder ==
  ASSUME TypeOK, Link, "entity" \notin Faults, OutcomesKept,
         NEW s \in Sessions, SessionInv(s), SessionOrder(s),
         \/ Run(s) \/ CheckStop(s) \/ NothingToStart(s)
         \/ CancelRunning(s) \/ ExitEnvironment(s) \/ StepOver(s)
         \/ StepTimesOut(s) \/ StepsDone(s) \/ Close(s) \/ WakeScheduler(s)
         \/ Finish(s),
         UNCHANGED <<at, todo, svcAssigned>>
  PROVE  SessionOrder(s)'
<1>1. UNCHANGED <<queueVars, current, victims, popped, reported, updates>>
  BY DEF Run, CheckStop, NothingToStart, CancelRunning, ExitEnvironment, StepOver,
         StepTimesOut, StepsDone, Close, WakeScheduler, Finish, schedVars, queueVars,
         runVars, cleanVars, history
<1>2. PICK p :
        /\ pc' = [pc EXCEPT ![s] = p]
        /\ \/ Early(s) /\ p \in {"check", "start", "interrupt"}
           \/ pc[s] \in {"steps", "wait"} /\ p \in {"steps", "wait", "closing"}
           \/ pc[s] \in {"closing", "closed", "exiting"}
              /\ p \in {"closed", "exiting", "done"}
  BY DEF Run, CheckStop, NothingToStart, CancelRunning, ExitEnvironment, StepOver,
         StepTimesOut, StepsDone, Close, WakeScheduler, Finish, Goto, Early
<1> QED BY <1>1, <1>2, MovesOrder

\* _cleanup is done with cancel_all.
LEMMA PlanExitsOrder ==
  ASSUME TypeOK, NEW s \in Sessions, SessionInv(s), SessionOrder(s),
         PlanExits(s), UNCHANGED svcAssigned
  PROVE  SessionOrder(s)'
<1>1. /\ pc[s] = "cancelAll" /\ pc'[s] = "steps" /\ victims[s] = {}
      /\ UNCHANGED <<reported, current>>
  BY DEF PlanExits, Goto, TypeOK, history, runVars
<1>2. Underway(s) = {}
  BY <1>1 DEF SessionOrder, Leaving, Leavers, Popping
<1>3. /\ Underway(s)' = {} /\ Own(s)' = Own(s)
      /\ \A a : Earlier(s, a)' = Earlier(s, a)
      /\ \A a : Completed(a)' <=> Completed(a)
  BY <1>1, <1>2 DEF Underway, Earlier, OwnAssigned, Own, Completed
<1>4. Lined(s)' /\ Leaving(s)'
  BY <1>1 DEF Lined, InLine, Early, Leaving, Popping
<1>5. current[s] # None => Completed(current[s])
  BY <1>1 DEF SessionOrder, Left, Early
<1>6. Left(s)'
  BY <1>1, <1>3, <1>5 DEF Left, Doomed, Completed
<1>7. InOrder(s)'
  BY <1>1, <1>3 DEF SessionOrder, InOrder
<1> QED BY <1>4, <1>6, <1>7 DEF SessionOrder
\* The running action is reported, so that what is held stays in line.
LEMMA InterruptOrder ==
  ASSUME TypeOK, Link, "entity" \notin Faults, OutcomesKept,
         NEW s \in Sessions, SessionInv(s), SessionOrder(s),
         Interrupt(s), svcAssigned' = svcAssigned
  PROVE  SessionOrder(s)'
<1>1. /\ pc[s] = "interrupt" /\ pc'[s] = "snapshot"
      /\ UNCHANGED <<queueVars, current>>
  BY DEF Interrupt, Goto, TypeOK, runVars
<1>2. InLine(s) /\ InLine(s)'
  BY <1>1 DEF InLine, Early
<1>3. Held(s)' = Held(s) /\ Queued(s)' \subseteq byId'[s]
  BY <1>1, <1>2 DEF SessionOrder, Lined, Held, Queued, queueVars
<1>4. \A b \in Own(s) : /\ b # current[s] => reported'[b] = reported[b]
                        /\ b = current[s] => reported'[b] = stopResult[s]
  <2>1. CASE current[s] = None
    BY <2>1, ConstantsAssumption DEF Interrupt, Own, ConstantsAssumption
  <2>2. CASE current[s] # None
    <3> DEFINE st == One(current[s], stopResult[s])
    <3>1. Report(s, st, FALSE)
      BY <2>2 DEF Interrupt
    <3>2. \A b \in Actions : st[b] = IF b = current[s] THEN stopResult[s] ELSE "none"
      BY DEF One
    <3>3. stopResult[s] # "none"
      BY DEF TypeOK
    <3> HIDE DEF st
    <3> QED BY <3>1, <3>2, <3>3 DEF Report, Own
  <2> QED BY <2>1, <2>2
<1>5. stopResult[s] \in CompletedStatuses \ {"NEVER_ATTEMPTED"}
  BY DEF TypeOK, CompletedStatuses
<1>6. current[s] # None => current[s] \in Own(s)
  BY HeldOwn
<1>7. \A b \in Own(s) : /\ reported'[b] = "RUNNING" => reported[b] = "RUNNING"
                        /\ reported'[b] = "NEVER_ATTEMPTED" =>
                             reported[b] = "NEVER_ATTEMPTED"
  BY <1>4, <1>5 DEF CompletedStatuses
<1>8. current'[s] # None => /\ reported'[current'[s]] \in CompletedStatuses
                            /\ current'[s] = current[s]
  BY <1>1, <1>4, <1>5, <1>6
<1>9. Advances(s)
  BY <1>3, <1>7, <1>8 DEF Advances, Completed
<1> QED BY <1>2, <1>9, AdvanceKept

\* What is taken off the queue is all that is not complete.
LEMMA SnapshotQueueOrder ==
  ASSUME TypeOK, Link, NEW s \in Sessions, SessionInv(s), SessionOrder(s),
         SnapshotQueue(s), svcAssigned' = svcAssigned
  PROVE  SessionOrder(s)'
<1>1. /\ pc[s] = "snapshot" /\ pc'[s] = "cancelAll"
      /\ victims'[s] = Cancelable(s)
      /\ UNCHANGED <<queueVars, current, reported>>
  <2>1. Cancelable(s) \in SUBSET Actions
    BY HeldOwn DEF Own
  <2> QED BY <2>1 DEF SnapshotQueue, Goto, TypeOK, runVars, history
<1>2. /\ Own(s)' = Own(s) /\ Underway(s)' = Underway(s) /\ Queued(s)' = Queued(s)
      /\ \A a : Earlier(s, a)' = Earlier(s, a)
      /\ \A a : Completed(a)' <=> Completed(a)
      /\ Leavers(s)' = Cancelable(s) /\ ~ Popping(s)'
  BY <1>1 DEF Underway, Earlier, OwnAssigned, Own, Completed, Queued, Leavers,
     Popping, queueVars
<1>3. current[s] # None => Completed(current[s])
  BY <1>1 DEF SessionOrder, Left, Early
<1>4. /\ Queued(s) \subseteq byId[s] /\ Underway(s) \subseteq Held(s)
      /\ \A a \in Held(s) : \A b \in Earlier(s, a) : Completed(b) \/ b \in Held(s)
  BY <1>1 DEF SessionOrder, Lined, InLine
<1>5. \A b \in Held(s) : Kind[b] # "ENV_EXIT" => Completed(b) \/ b \in Cancelable(s)
  BY <1>3 DEF Held, Queued, Cancelable, OptionalSet
<1>6. Cancelable(s) \subseteq Queued(s) /\ Queued(s) \subseteq Held(s)
      /\ Held(s) \subseteq svcAssigned
  BY HeldOwn, HeldAssigned DEF OwnAssigned
<1>7. Leaving(s)'
  <2>1. Underway(s) \subseteq Cancelable(s)
    BY <1>4, <1>5 DEF Underway, Completed, CompletedStatuses
  <2>2. ASSUME NEW a \in Cancelable(s), NEW b \in Earlier(s, a)
        PROVE  Completed(b) \/ b \in Cancelable(s)
    <3>1. Kind[b] # "ENV_EXIT"
      BY DEF Earlier
    <3> QED BY <1>4, <1>5, <1>6, <3>1
  <2> QED BY <1>1, <1>2, <1>4, <1>6, <2>1, <2>2 DEF Leaving, queueVars
<1>8. Lined(s)'
  BY <1>1 DEF Lined, InLine, Early
<1>9. Left(s)'
  BY <1>1, <1>3 DEF Left, Doomed, Completed
<1>10. InOrder(s)'
  BY <1>1, <1>2 DEF SessionOrder, InOrder
<1> QED BY <1>7, <1>8, <1>9, <1>10 DEF SessionOrder

LEMMA PopActionOrder ==
  ASSUME TypeOK, NEW s \in Sessions, SessionInv(s), SessionOrder(s),
         NEW a \in Actions, PopAction(s, a), svcAssigned' = svcAssigned
  PROVE  SessionOrder(s)'
<1>1. /\ pc[s] = "cancelAll" /\ a \in victims[s]
      /\ \A b \in victims[s] : Pos[a] =< Pos[b]
      /\ UNCHANGED <<queue, upload, current, reported>>
  BY DEF PopAction, runVars, history
<1>2. /\ victims[s] \subseteq Queued(s) \intersect byId[s]
      /\ ~ Popping(s) /\ Leavers(s) = victims[s]
  BY <1>1 DEF SessionOrder, Leaving, Popping, Leavers
<1>3. /\ victims'[s] = victims[s] \ {a} /\ popped'[s] = a /\ pc'[s] = "remove"
      /\ byId'[s] = byId[s] \ {a}
  BY <1>1, <1>2 DEF PopAction, TypeOK
<1>4. /\ Own(s)' = Own(s) /\ Underway(s)' = Underway(s) /\ Queued(s)' = Queued(s)
      /\ \A c : Earlier(s, c)' = Earlier(s, c)
      /\ \A c : Completed(c)' <=> Completed(c)
      /\ Popping(s)' /\ Leavers(s)' = Leavers(s) /\ Found(s)'
  BY <1>1, <1>2, <1>3 DEF Underway, Earlier, OwnAssigned, Own, Completed, Queued,
     Leavers, Popping, Found
<1>5. Leaving(s)'
  BY <1>1, <1>2, <1>3, <1>4 DEF SessionOrder, Leaving
<1>6. Lined(s)'
  BY <1>3 DEF Lined, InLine, Early
<1>7. current[s] # None => Completed(current[s])
  BY <1>1 DEF SessionOrder, Left, Early
<1>8. Left(s)'
  BY <1>1, <1>3, <1>4, <1>7 DEF Left, Doomed, Completed
<1>9. InOrder(s)'
  BY <1>4, <1>1 DEF SessionOrder, InOrder
<1> QED BY <1>5, <1>6, <1>8, <1>9 DEF SessionOrder

LEMMA RemoveActionOrder ==
  ASSUME TypeOK, NEW s \in Sessions, SessionInv(s), SessionOrder(s),
         RemoveAction(s), UNCHANGED <<at, todo, svcAssigned>>
  PROVE  SessionOrder(s)'
<1>1. /\ pc[s] = "remove" /\ pc'[s] = IF Found(s) THEN "tell" ELSE "closing"
      /\ UNCHANGED <<byId, victims, popped, current, reported, updates>>
  BY DEF RemoveAction, Goto, TypeOK, Found, runVars, cleanVars, history, schedVars
<1>2. /\ queue'[s] = IF Found(s) THEN queue[s] \ {popped[s]} ELSE queue[s]
      /\ upload'[s] = IF Found(s) /\ upload[s] = popped[s] THEN None ELSE upload[s]
  BY DEF RemoveAction, TypeOK, Found
<1>3. popped[s] # None /\ popped[s] \notin victims[s]
  BY <1>1 DEF SessionInv, Cancelling
<1>4. /\ Own(s)' = Own(s) /\ Underway(s)' = Underway(s)
      /\ \A c : Earlier(s, c)' = Earlier(s, c)
      /\ \A c : Completed(c)' <=> Completed(c)
      /\ Popping(s) /\ (Popping(s)' <=> Found(s))
  BY <1>1 DEF Underway, Earlier, OwnAssigned, Own, Completed, Popping
<1>5. Leaving(s)'
  <2>1. CASE Found(s)
    <3>1. Leavers(s)' = Leavers(s)
      BY <1>1, <1>4, <2>1 DEF Leavers
    <3>2. victims[s] \subseteq Queued(s)'
      BY <1>2, <1>3, <1>4 DEF SessionOrder, Leaving, Queued, OptionalSet
    <3> QED BY <1>1, <1>4, <2>1, <3>1, <3>2 DEF SessionOrder, Leaving
  <2>2. CASE ~ Found(s)
    BY <1>1, <1>4, <2>2 DEF Leaving
  <2> QED BY <2>1, <2>2
<1>6. Lined(s)'
  BY <1>1 DEF Lined, InLine, Early
<1>7. current[s] # None => Completed(current[s])
  BY <1>1 DEF SessionOrder, Left, Early
<1>8. Left(s)'
  <2>1. Doomed(s)' => Doomed(s)
    BY <1>1 DEF Doomed
  <2>2. Doomed(s) => \A b \in Underway(s) : Taken(s, b)'
    BY <1>1 DEF SessionOrder, Left, Taken
  <2> QED BY <1>1, <1>4, <1>7, <2>1, <2>2 DEF Left, Completed
<1>9. InOrder(s)'
  BY <1>1, <1>4 DEF SessionOrder, InOrder
<1> QED BY <1>5, <1>6, <1>8, <1>9 DEF SessionOrder

LEMMA TellOrder ==
  ASSUME TypeOK, Link, "entity" \notin Faults, OutcomesKept,
         NEW s \in Sessions, SessionInv(s), SessionOrder(s),
         TellNeverAttempted(s), svcAssigned' = svcAssigned
  PROVE  SessionOrder(s)'
<1>1. /\ pc[s] = "tell" /\ pc'[s] = "cancelAll"
      /\ UNCHANGED <<queueVars, victims, current>>
  BY DEF TellNeverAttempted, Goto, TypeOK, runVars
<1>2. PICK a \in Own(s) : a = popped[s] /\ a \notin victims[s]
  BY <1>1 DEF SessionInv, Cancelling, HoldsOwn, OptionalSet
<1>3. \A b \in Own(s) : /\ b # a => reported'[b] = reported[b]
                        /\ b = a => reported'[b] = "NEVER_ATTEMPTED"
  <2> DEFINE st == One(a, "NEVER_ATTEMPTED")
  <2>1. Report(s, st, Idle(s))
    BY <1>2 DEF TellNeverAttempted
  <2>2. \A b \in Actions : st[b] = IF b = a THEN "NEVER_ATTEMPTED" ELSE "none"
    BY DEF One
  <2> HIDE DEF st
  <2> QED BY <2>1, <2>2 DEF Report, Own
<1>4. /\ Own(s)' = Own(s) /\ Queued(s)' = Queued(s)
      /\ \A c : Earlier(s, c)' = Earlier(s, c) /\ Earlier(s, c) \subseteq Own(s)
      /\ \A c \in Own(s) : Completed(c)' <=> Completed(c) \/ c = a
      /\ Popping(s) /\ ~ Popping(s)' /\ Leavers(s)' = victims[s]
      /\ Leavers(s) = victims[s] \union {a}
  <2>1. \A c \in Own(s) : Completed(c)' <=> Completed(c) \/ c = a
    BY <1>3 DEF Completed, CompletedStatuses
  <2>2. Own(s)' = Own(s) /\ Queued(s)' = Queued(s)
    BY <1>1 DEF Own, Queued, queueVars
  <2> QED BY <1>1, <1>2, <2>1, <2>2 DEF Earlier, OwnAssigned, Own, Popping, Leavers
<1>5. /\ victims[s] \subseteq Queued(s) \intersect byId[s]
      /\ Leavers(s) \subseteq svcAssigned
      /\ Underway(s) \subseteq Leavers(s)
      /\ \A v \in Leavers(s) :
           \A b \in Earlier(s, v) : Completed(b) \/ b \in Leavers(s)
      /\ \A v \in victims[s] : Pos[a] =< Pos[v]
  BY <1>2, <1>4 DEF SessionOrder, Leaving
<1>6. Underway(s)' \subseteq Underway(s) \ {a}
  BY <1>3, <1>4 DEF Underway
<1>7. Leaving(s)'
  BY <1>1, <1>4, <1>5, <1>6 DEF Leaving, queueVars
<1>8. Lined(s)'
  BY <1>1 DEF Lined, InLine, Early
<1>9. Left(s)'
  <2>1. current[s] # None => Completed(current[s]) /\ current[s] \in Own(s)
    BY <1>1, HeldOwn DEF SessionOrder, Left, Early
  <2>2. current'[s] # None => Completed(current[s])'
    BY <1>1, <1>3, <2>1 DEF Completed, CompletedStatuses
  <2> QED BY <1>1, <2>2 DEF Left, Doomed
<1>10. InOrder(s)'
  <2> SUFFICES ASSUME NEW c \in Own(s), reported'[c] = "NEVER_ATTEMPTED"
               PROVE  c \in svcAssigned /\ \A b \in Earlier(s, c) : Completed(b)'
    BY <1>4 DEF InOrder
  <2>1. CASE c = a
    <3>1. ASSUME NEW b \in Earlier(s, a) PROVE Completed(b)
      <4>1. Pos[b] < Pos[a] /\ Pos[a] \in Nat /\ Pos[b] \in Nat /\ b # a
        BY ConstantsAssumption DEF Earlier, OwnAssigned, Own, ConstantsAssumption
      <4> QED BY <1>4, <1>5, <4>1
    <3> QED BY <1>4, <1>5, <2>1, <3>1
  <2>2. CASE c # a
    BY <1>3, <1>4, <2>2 DEF SessionOrder, InOrder
  <2> QED BY <2>1, <2>2
<1> QED BY <1>7, <1>8, <1>9, <1>10 DEF SessionOrder
LEMMA SessionThreadOrder ==
  ASSUME TypeOK, Link, "entity" \notin Faults, OutcomesKept,
         NEW s \in Sessions, SessionInv(s), SessionOrder(s),
         SessionThread(s), UNCHANGED <<at, todo, svcAssigned>>
  PROVE  SessionOrder(s)'
<1>1. CASE \/ Run(s) \/ CheckStop(s) \/ NothingToStart(s)
           \/ CancelRunning(s) \/ ExitEnvironment(s) \/ StepOver(s)
           \/ StepTimesOut(s) \/ StepsDone(s) \/ Close(s) \/ WakeScheduler(s)
           \/ Finish(s)
  BY <1>1, QuietThreadOrder
<1>2. CASE DequeueFails(s) \/ DequeueRaises(s)
  BY <1>2 DEF DequeueFails, DequeueRaises, DetailsMissing
<1>3. CASE StartAction(s) \/ StartFails(s) \/ Interrupt(s)
  BY <1>3, StartActionOrder, StartFailsOrder, InterruptOrder
<1>4. CASE SnapshotQueue(s) \/ RemoveAction(s) \/ TellNeverAttempted(s)
  BY <1>4, SnapshotQueueOrder, RemoveActionOrder, TellOrder
<1>5. CASE \E a \in Actions : PopAction(s, a)
  BY <1>5, PopActionOrder
<1>6. CASE PlanExits(s)
  BY <1>6, PlanExitsOrder
<1> QED BY <1>1, <1>2, <1>3, <1>4, <1>5, <1>6 DEF SessionThread

\* The threads of a Session touch no other queue.
LEMMA QueuesOfOthers ==
  ASSUME TypeOK, NEW s \in Sessions, SessionThread(s) \/ OpenjdThread(s),
         NEW r \in Sessions \ {s}
  PROVE  byId'[r] = byId[r]
<1>1. CASE SessionThread(s)
  <2>1. \/ byId' = byId
        \/ \E A : byId' = [byId EXCEPT ![s] = A]
    BY <1>1 DEF SessionThread, Run, CheckStop, NothingToStart, DequeueFails,
         DequeueRaises, StartAction, Dequeue, StartFails, Interrupt, SnapshotQueue,
         PopAction, RemoveAction, TellNeverAttempted, PlanExits, CancelRunning,
         ExitEnvironment, StepOver, StepTimesOut, StepsDone, Close,
         WakeScheduler, Finish, queueVars
  <2> QED BY <2>1 DEF TypeOK
<1>2. CASE OpenjdThread(s)
  <2>1. ASSUME NEW state, NEW a, HandleUpdate(s, state, a)
        PROVE  byId' = byId \/ \E A : byId' = [byId EXCEPT ![s] = A]
    BY <2>1 DEF HandleUpdate, CancelAll, queueVars
  <2>2. ASSUME NEW state, Updated(s, state)
        PROVE  byId' = byId \/ \E A : byId' = [byId EXCEPT ![s] = A]
    BY <2>1, <2>2 DEF Updated, QueueUpload, queueVars
  <2>3. byId' = byId \/ \E A : byId' = [byId EXCEPT ![s] = A]
    BY <1>2, <2>2 DEF OpenjdThread, Progress, ProcessesEnd, ProcessEnds, Callback,
         queueVars
  <2> QED BY <2>3 DEF TypeOK
<1> QED BY <1>1, <1>2

LEMMA ThreadsOrder ==
  ASSUME TypeOK, OutcomeInv, Link, "entity" \notin Faults,
         NEW s \in Sessions, SessionThread(s) \/ OpenjdThread(s),
         UNCHANGED schedulerVars,
         NEW r \in Sessions, SessionOrder(r)
  PROVE  SessionOrder(r)'
<1>1. UNCHANGED <<at, todo, svcAssigned>>
  BY DEF schedulerVars, loopVars, svcVars
<1>2. SessionInv(s) /\ SessionInv(r)
  BY DEF OutcomeInv
<1>3. GoodStep(s)
  BY <1>2, SessionThreadGood, OpenjdGood
<1>4. CASE r = s
  BY <1>1, <1>2, <1>3, <1>4, SessionThreadOrder, OpenjdOrder DEF GoodStep
<1>5. CASE r # s
  <2>1. Untouched(r) /\ byId'[r] = byId[r]
    BY <1>3, <1>5, QueuesOfOthers DEF GoodStep
  <2>2. Same(r)
    BY <2>1 DEF Same, Untouched
  <2>3. Reports(s)
    BY <1>2, ThreadReports, CallbackReports
  <2>4. \A b \in Own(r) : updates'[b] = updates[b]
    BY <1>5, <2>3 DEF Reports, Own
  <2>5. \A b \in Underway(r) : Taken(r, b) => Taken(r, b)'
    BY <1>1, <2>4 DEF Taken, Underway
  <2> QED BY <1>1, <1>2, <2>2, <2>5, SameKept
<1> QED BY <1>4, <1>5
(***************************************************************************)
(* The steps of the scheduler thread.                                      *)
(***************************************************************************)
Telling == {"gate", "request", "answer"}
Removing == {"remove", "removing", "create", "register"}
Applying == {"look", "apply"}

\* In the order of the loop what has been taken stays so.
LEMMA TakenKept ==
  ASSUME NEW s, NEW b, updates'[b] = updates[b],
         \/ at' \notin Telling \union Removing \union Applying
         \/ at \in Telling /\ at' \in Telling
         \/ at \in Removing /\ at' \in Removing \union Applying
         \/ at \in Applying /\ at' \in Applying /\ todo' \subseteq todo
         \/ UNCHANGED <<at, todo>>,
         Taken(s, b)
  PROVE  Taken(s, b)'
BY DEF Taken, Telling, Removing, Applying

\* Steps that change no Session, and neither the request nor the service.
Passing == \/ CheckShutdown \/ Gate \/ RetryRequest \/ RequestFails
           \/ AllRemoved \/ AllCreated \/ (\E s \in Sessions : LookAtFuture(s))
           \/ EndSync \/ ServiceShutdown \/ WakeUp \/ IntervalPasses
           \/ SetShutdown \/ TellStopping \/ AllStopped \/ Clear \/ SetWakeup
           \/ (\E s \in Sessions : StopFinished(s) \/ StopForDrain(s)
                                   \/ CredentialsExpire(s))
           \/ RemoveFinished \/ Register \/ CancelBreaksSync

sessionState == <<queueVars, current, victims, popped, pc, reported>>

LEMMA PassingUnchanged ==
  Passing => UNCHANGED <<sessionState, updates, svcAssigned>>
<1>1. CASE \/ CheckShutdown \/ Gate \/ RetryRequest \/ RequestFails
           \/ AllRemoved \/ AllCreated \/ (\E s \in Sessions : LookAtFuture(s))
           \/ EndSync \/ ServiceShutdown \/ WakeUp \/ IntervalPasses
           \/ SetShutdown \/ TellStopping \/ AllStopped
  <2>1. UNCHANGED <<vars, svcAssigned>>
    BY <1>1 DEF CheckShutdown, Gate, RetryRequest, RequestFails, AllRemoved,
       AllCreated, LookAtFuture, EndSync, ServiceShutdown, WakeUp, IntervalPasses,
       SetShutdown, TellStopping, AllStopped, svcVars
  <2> QED BY <2>1 DEF vars, sessionState, schedVars, runVars, cleanVars, history
<1>2. CASE Clear \/ SetWakeup \/ RemoveFinished \/ Register
  BY <1>2 DEF Clear, SetWakeup, RemoveFinished, Register, ClearWakeup, WakeLoop,
     RemoveSession, RegisterSession, syncFrame, threadFrame, sessionState, runVars,
     cleanVars, history, svcVars
<1>3. CASE CancelBreaksSync \/ \E s \in Sessions :
             StopFinished(s) \/ StopForDrain(s) \/ CredentialsExpire(s)
  BY <1>3 DEF CancelBreaksSync, CancelRaised, StopFinished, StopForDrain,
     CredentialsExpire, StopSession, sessionState, schedVars, runVars, cleanVars,
     history, svcVars, schedulerVars
<1> QED BY <1>1, <1>2, <1>3 DEF Passing

\* Where the loop goes.
LEMMA PassingMoves ==
  ASSUME Passing
  PROVE  \/ at' \notin Telling \union Removing \union Applying
         \/ at \in Telling /\ at' \in Telling
         \/ at \in Removing /\ at' \in Removing \union Applying
         \/ at \in Applying /\ at' \in Applying /\ todo' \subseteq todo
         \/ UNCHANGED <<at, todo>>
<1>1. CASE \/ CheckShutdown \/ Gate \/ RetryRequest \/ RequestFails
           \/ AllRemoved \/ AllCreated
           \/ EndSync \/ ServiceShutdown \/ WakeUp \/ IntervalPasses
           \/ TellStopping \/ AllStopped \/ Clear
           \/ RemoveFinished \/ Register \/ CancelBreaksSync
  BY <1>1 DEF CheckShutdown, Gate, RetryRequest, RequestFails, AllRemoved,
     AllCreated, EndSync, ServiceShutdown, WakeUp, IntervalPasses, TellStopping,
     AllStopped, Clear, RemoveFinished, Register, CancelBreaksSync, Step, Telling,
     Removing, Applying
<1>2. CASE SetShutdown \/ SetWakeup \/ \E s \in Sessions :
             \/ LookAtFuture(s) \/ StopFinished(s) \/ StopForDrain(s)
             \/ CredentialsExpire(s)
  BY <1>2 DEF SetShutdown, SetWakeup, LookAtFuture, StopFinished, StopForDrain,
     CredentialsExpire, Step, Telling, Removing, Applying, loopVars, schedulerVars
<1> QED BY <1>1, <1>2 DEF Passing

LEMMA PassingOrder ==
  ASSUME TypeOK, Passing, NEW s \in Sessions, SessionInv(s), SessionOrder(s)
  PROVE  SessionOrder(s)'
<1>1. UNCHANGED <<sessionState, updates, svcAssigned>>
  BY PassingUnchanged
<1>2. Same(s)
  BY <1>1 DEF Same, sessionState, queueVars
<1>3. \A b \in Underway(s) : Taken(s, b) => Taken(s, b)'
  BY <1>1, PassingMoves, TakenKept
<1> QED BY <1>1, <1>2, <1>3, SameKept

\* The request takes every entry of the map; the commit deletes them.
LEMMA MapOrder ==
  ASSUME TypeOK, Snapshot \/ Commit, NEW s \in Sessions, SessionInv(s), SessionOrder(s)
  PROVE  SessionOrder(s)'
<1>1. UNCHANGED <<sessionState, svcAssigned>>
  BY DEF Snapshot, Commit, SnapshotUpdates, CommitUpdates, syncFrame, threadFrame,
     sessionState, runVars, cleanVars, history, svcVars
<1>2. Same(s)
  BY <1>1 DEF Same, sessionState, queueVars
<1>3. ASSUME NEW b \in Underway(s), Taken(s, b) PROVE Taken(s, b)'
  <2>1. b \in Actions
    BY DEF Underway, Own
  <2>2. CASE Snapshot
    <3>1. at' \in {"gate", "request"}
      BY <2>2 DEF Snapshot, Step
    <3>2. updates'[b] = [updates[b] EXCEPT !.sent = updates[b].status # "none"]
      BY <2>1, <2>2 DEF Snapshot, SnapshotUpdates
    <3>3. updates'[b].sent = (updates[b].status # "none")
          /\ updates'[b].status = updates[b].status
      BY <2>1, <3>2 DEF TypeOK
    <3> QED BY <3>1, <3>3 DEF Taken
  <2>3. CASE Commit
    <3>1. at = "answer" /\ at' = "remove"
      BY <2>3 DEF Commit, Step
    <3>2. updates'[b] = IF updates[b].sent THEN NoUpdate ELSE updates[b]
      BY <2>1, <2>3 DEF Commit, CommitUpdates
    <3> QED BY <1>3, <3>1, <3>2 DEF Taken, NoUpdate
  <2> QED BY <2>2, <2>3
<1> QED BY <1>1, <1>2, <1>3, SameKept
\* An action that is complete for the service is complete.
LEMMA KnownComplete ==
  ASSUME Link, NEW b \in Actions, Done(svc[b])
  PROVE  Completed(b)
BY DEF Link, MapCurrent, Agrees, Completed, Done

\* A step on Session s leaves another Session in order.
LEMMA OthersOrder ==
  ASSUME TypeOK, NEW r \in Sessions, SessionInv(r), SessionOrder(r), Untouched(r),
         byId'[r] = byId[r], \A b \in Own(r) : updates'[b] = updates[b],
         \/ at \in Removing /\ at' \in Removing \union Applying
         \/ at \in Applying /\ at' \in Applying /\ todo' \subseteq todo,
         svcAssigned' = svcAssigned
  PROVE  SessionOrder(r)'
<1>1. Same(r)
  BY DEF Same, Untouched
<1>2. \A b \in Underway(r) : Taken(r, b) => Taken(r, b)'
  BY TakenKept DEF Underway
<1> QED BY <1>1, <1>2, SameKept

\* The queue of a Session after it was handed the list A.
LEMMA Replaced ==
  ASSUME TypeOK, NEW s \in Sessions, NEW A \in SUBSET Actions, ReplaceQueue(s, A)
  PROVE  /\ Queued(s)' = A \ OptionalSet(current[s])
         /\ byId'[s] = byId[s] \union Queued(s)'
         /\ \A r \in Sessions \ {s} : byId'[r] = byId[r]
<1>1. PICK new \in SUBSET Actions : new = A \ OptionalSet(current[s])
  OBVIOUS
<1>2. /\ queue'[s] = new \ OptionalSet(upload[s])
      /\ upload'[s] = IF upload[s] \in new THEN upload[s] ELSE None
      /\ byId'[s] = byId[s] \union new
      /\ \A r \in Sessions \ {s} : byId'[r] = byId[r]
  BY <1>1 DEF ReplaceQueue, TypeOK
<1>3. Queued(s)' = new
  BY <1>2, ConstantsAssumption DEF Queued, OptionalSet, ConstantsAssumption
<1> QED BY <1>1, <1>2, <1>3

\* A list that holds all that is open puts the Session in line.
LEMMA ListedInLine ==
  ASSUME TypeOK, Link, NEW s \in Sessions, SessionInv(s), SessionOrder(s),
         NEW A \in SUBSET Actions, ReplaceQueue(s, A), InLine(s),
         \A b \in OwnAssigned(s) : Completed(b) \/ b \in A,
         A \subseteq OwnAssigned(s),
         UNCHANGED <<current, reported, svcAssigned>>
  PROVE  Lined(s)'
<1>1. /\ Queued(s)' = A \ OptionalSet(current[s]) /\ Queued(s)' \subseteq byId'[s]
  BY Replaced
<1>2. /\ Held(s)' = A \union OptionalSet(current[s])
      /\ Underway(s)' = Underway(s)
      /\ \A a : Earlier(s, a)' = Earlier(s, a)
      /\ \A a : Completed(a)' <=> Completed(a)
  BY <1>1 DEF Held, Underway, Earlier, OwnAssigned, Own, Completed
<1>3. Underway(s) \subseteq Held(s)'
  <2> SUFFICES ASSUME NEW b \in Underway(s) PROVE b \in A
    BY <1>2
  <2>1. b \in OwnAssigned(s)
    BY HeldAssigned DEF SessionOrder, Lined
  <2>2. ~ Completed(b)
    BY DEF Underway, Completed, CompletedStatuses
  <2> QED BY <2>1, <2>2
<1>4. ASSUME NEW a \in Held(s)', NEW b \in Earlier(s, a)
      PROVE  Completed(b) \/ b \in Held(s)'
  BY <1>2 DEF Earlier
<1> QED BY <1>1, <1>2, <1>3, <1>4 DEF Lined

LEMMA CreateOrder ==
  ASSUME TypeOK, OutcomeInv, Link, NEW s \in Sessions, CreateSession(s),
         \A r \in Sessions \ {s} : Untouched(r),
         NEW r \in Sessions, SessionOrder(r)
  PROVE  SessionOrder(r)'
<1>1. /\ at = "create" /\ at' = "register" /\ s \in todo
      /\ pc[s] = "new" /\ pc'[s] = "starting"
      /\ ReplaceQueue(s, lists[s])
      /\ UNCHANGED <<updates, current, reported, svcAssigned>>
  BY DEF CreateSession, Step, Goto, TypeOK, schedVars, threadFrame, runVars, svcVars
<1>2. /\ lists[s] = {a \in OwnAssigned(s) : ~ Done(svc[a])}
      /\ lists[s] \in SUBSET Actions
  BY <1>1 DEF Link, Response, OwnAssigned, Own
<1>3. SessionInv(r) /\ SessionInv(s)
  BY DEF OutcomeInv
<1>4. CASE r = s
  <2>1. \A b \in OwnAssigned(s) : Completed(b) \/ b \in lists[s]
    BY <1>2, KnownComplete DEF OwnAssigned, Own
  <2>2. Lined(s)'
    BY <1>1, <1>2, <1>3, <1>4, <2>1, ListedInLine DEF InLine, Early
  <2>3. Leaving(s)' /\ Left(s)'
    BY <1>1 DEF Leaving, Popping, Left, Early, Doomed
  <2>4. InOrder(s)'
    BY <1>1, <1>4 DEF SessionOrder, InOrder, Earlier, OwnAssigned, Own, Completed
  <2> QED BY <1>4, <2>2, <2>3, <2>4 DEF SessionOrder
<1>5. CASE r # s
  <2>1. byId'[r] = byId[r] /\ Untouched(r)
    BY <1>1, <1>2, <1>5, Replaced
  <2> QED BY <1>1, <1>3, <2>1, OthersOrder DEF Removing
<1> QED BY <1>4, <1>5

LEMMA ApplyOrder ==
  ASSUME TypeOK, OutcomeInv, Link, "entity" \notin Faults, ApplyToSession,
         \A r \in Sessions \ {session} : Untouched(r),
         NEW r \in Sessions, SessionOrder(r)
  PROVE  SessionOrder(r)'
<1>0. PICK s : s = session
  OBVIOUS
<1>1. /\ at = "apply" /\ at' = "look" /\ s \in todo /\ s \in Sessions
      /\ todo' = todo \ {s}
      /\ ReplaceQueue(s, {a \in lists[s] : Pending(a)})
      /\ UNCHANGED <<updates, current, victims, popped, pc, reported, svcAssigned>>
  BY <1>0 DEF ApplyToSession, Step, Link, LoopTypes, Phases, schedVars, runVars,
     cleanVars, svcVars
<1>2. lists[s] = {a \in OwnAssigned(s) : ~ Done(svc[a])}
  BY <1>1 DEF Link, Response
<1>3. PICK A \in SUBSET Actions : A = {a \in lists[s] : Pending(a)}
  BY <1>2 DEF OwnAssigned, Own
<1>4. SessionInv(r) /\ SessionInv(s)
  BY <1>1 DEF OutcomeInv
<1>5. \A b \in OwnAssigned(s) : Completed(b) \/ b \in A
  <2> SUFFICES ASSUME NEW b \in OwnAssigned(s), ~ Completed(b) PROVE b \in A
    OBVIOUS
  <2>1. b \in Actions /\ ~ Done(svc[b])
    BY KnownComplete DEF OwnAssigned, Own
  <2>2. Pending(b)
    BY <2>1 DEF Link, MapCurrent, Pending, Completed, Done, CompletedStatuses
  <2> QED BY <1>2, <1>3, <2>1, <2>2
<1>6. CASE r = s
  <2>1. /\ \A a : Earlier(s, a)' = Earlier(s, a) /\ Underway(s)' = Underway(s)
        /\ Own(s)' = Own(s) /\ \A a : Completed(a)' <=> Completed(a)
        /\ (Early(s)' <=> Early(s)) /\ (Popping(s)' <=> Popping(s))
        /\ Leavers(s)' = Leavers(s) /\ (InLine(s)' <=> InLine(s))
    BY <1>1 DEF Earlier, OwnAssigned, Own, Underway, Completed, Early, Popping,
       Leavers, InLine
  <2>2. Lined(s)'
    <3>1. CASE InLine(s)
      <4>1. A \subseteq OwnAssigned(s)
        BY <1>2, <1>3
      <4> QED BY <1>1, <1>3, <1>4, <1>5, <1>6, <3>1, <4>1, ListedInLine
    <3>2. CASE ~ InLine(s)
      BY <2>1, <3>2 DEF Lined
    <3> QED BY <3>1, <3>2
  <2>3. Leaving(s)'
    <3>1. CASE pc[s] \in {"cancelAll", "remove", "tell"}
      <4>1. Queued(s)' = A \ OptionalSet(current[s]) /\ byId[s] \subseteq byId'[s]
        BY <1>1, <1>3, Replaced
      <4>2. \A v \in victims[s] : Open(v)
        BY <1>4, <3>1 DEF SessionInv, Cancelling
      <4>3. ~ Early(s) /\ (current[s] # None => Completed(current[s]))
        BY <1>6, <3>1 DEF SessionOrder, Left, Early
      <4>4. /\ victims[s] \subseteq svcAssigned /\ victims[s] \subseteq byId[s]
            /\ victims[s] \subseteq Own(s)
        BY <1>4, <1>6, <3>1 DEF SessionOrder, Leaving, Leavers, Popping, SessionInv,
           HoldsOwn
      <4>5. \A v \in victims[s] : ~ Completed(v)
        BY <4>2 DEF Open, Decided, Refused, TypeOK
      <4>6. victims[s] \subseteq Queued(s)'
        BY <1>5, <4>1, <4>3, <4>4, <4>5 DEF OwnAssigned, OptionalSet
      <4> QED BY <1>1, <1>6, <2>1, <3>1, <4>1, <4>4, <4>6
              DEF SessionOrder, Leaving, Popping
    <3>2. CASE pc[s] \notin {"cancelAll", "remove", "tell"}
      BY <1>1, <3>2 DEF Leaving, Popping
    <3> QED BY <3>1, <3>2
  <2>4. Left(s)'
    <3>1. \A b : Taken(s, b)'
      BY <1>1 DEF Taken
    <3>2. ~ Early(s) /\ current[s] # None => Completed(current[s])
      BY <1>6 DEF SessionOrder, Left
    <3>3. pc[s] \in {"steps", "wait"} => Underway(s) = {}
      BY <1>6 DEF SessionOrder, Left
    <3> QED BY <1>1, <2>1, <3>1, <3>2, <3>3 DEF Left, Completed
  <2>5. InOrder(s)'
    BY <1>1, <1>6, <2>1 DEF SessionOrder, InOrder
  <2> QED BY <1>6, <2>2, <2>3, <2>4, <2>5 DEF SessionOrder
<1>7. CASE r # s
  <2>1. byId'[r] = byId[r] /\ Untouched(r)
    BY <1>0, <1>1, <1>3, <1>7, Replaced
  <2> QED BY <1>1, <1>4, <2>1, OthersOrder DEF Applying
<1> QED BY <1>6, <1>7
\* The scheduler answers for all that is open.
LEMMA AnsweredInOrder ==
  ASSUME "entity" \notin Faults, TypeOK, OutcomesKept, svcAssigned' = svcAssigned,
         NEW s \in Sessions, SessionOrder(s), NEW A \in SUBSET OwnAssigned(s),
         \A a \in Own(s) : IF a \in A THEN Done(reported'[a])
                                      ELSE reported'[a] = reported[a],
         \A b \in OwnAssigned(s) : Completed(b) \/ b \in A \/ Kind[b] = "ENV_EXIT"
  PROVE  InOrder(s)'
<1> SUFFICES ASSUME NEW a \in Own(s), reported'[a] = "NEVER_ATTEMPTED"
             PROVE  a \in svcAssigned /\ \A b \in Earlier(s, a) : Completed(b)'
  BY DEF InOrder, Earlier, OwnAssigned, Own
<1>1. a \in svcAssigned
  BY DEF SessionOrder, InOrder, OwnAssigned
<1>2. ASSUME NEW b \in Earlier(s, a) PROVE Completed(b)'
  <2>1. b \in OwnAssigned(s) /\ b \in Own(s) /\ b \in Actions /\ Kind[b] # "ENV_EXIT"
    BY DEF Earlier, OwnAssigned, Own
  <2>2. Completed(b) => Completed(b)'
    BY <2>1, OutcomeFinal
  <2> QED BY <2>1, <2>2 DEF Completed, Done
<1> QED BY <1>1, <1>2

LEMMA CreationFailsOrder ==
  ASSUME TypeOK, OutcomeInv, Link, "entity" \notin Faults, OutcomesKept,
         NEW s \in Sessions, CreationFails(s),
         \A r \in Sessions \ {s} : Untouched(r),
         NEW r \in Sessions, SessionOrder(r)
  PROVE  SessionOrder(r)'
<1>1. /\ at = "create" /\ at' = "create" /\ s \in todo
      /\ UNCHANGED <<queueVars, current, pc, svcAssigned>>
  BY DEF CreationFails, threadFrame, runVars, svcVars
<1>2. pc[s] = "new"
  BY <1>1 DEF Link, Phases
<1>3. lists[s] = {a \in OwnAssigned(s) : ~ Done(svc[a])}
  BY <1>1 DEF Link, Response
<1>4. \A a \in Actions : IF a \in lists[s]
        THEN Done(reported'[a])
        ELSE reported'[a] = reported[a] /\ updates'[a] = updates[a]
  BY DEF CreationFails, Record, Done, CompletedStatuses
<1>5. SessionInv(r) /\ SessionInv(s)
  BY DEF OutcomeInv
<1>6. CASE r = s
  <2>1. InOrder(s)'
    <3>1. \A b \in OwnAssigned(s) : Completed(b) \/ b \in lists[s]
      BY <1>3, KnownComplete DEF OwnAssigned, Own
    <3>2. lists[s] \in SUBSET OwnAssigned(s) /\ Own(s) \subseteq Actions
      BY <1>3 DEF Own
    <3> QED BY <1>1, <1>4, <1>6, <3>1, <3>2, AnsweredInOrder
  <2>2. Lined(s)'
    <3>1. Held(s) = {} /\ Queued(s) = {}
      BY <1>2, <1>5 DEF SessionInv, HoldsOwn, Held, Queued, OptionalSet
    <3>2. Held(s)' = {} /\ Queued(s)' = {}
      BY <1>1, <3>1 DEF Held, Queued, queueVars
    <3>3. Underway(s) = {}
      BY <1>2, <1>6, <3>1 DEF SessionOrder, Lined, InLine, Early
    <3>4. Underway(s)' = {}
      BY <1>4, <3>3 DEF Underway, Own, Done, CompletedStatuses
    <3> QED BY <3>2, <3>4 DEF Lined
  <2>3. Leaving(s)' /\ Left(s)'
    BY <1>1, <1>2 DEF Leaving, Popping, Left, Early, Doomed
  <2> QED BY <1>6, <2>1, <2>2, <2>3 DEF SessionOrder
<1>7. CASE r # s
  <2>1. \A b \in Own(r) : updates'[b] = updates[b]
    BY <1>3, <1>4, <1>7 DEF OwnAssigned, Own
  <2> QED BY <1>1, <1>5, <1>7, <2>1, OthersOrder DEF Removing, queueVars
<1> QED BY <1>6, <1>7

\* What a Session left behind without an outcome is answered all at once.
LEMMA ReturnOrder ==
  ASSUME TypeOK, OutcomeInv, Link, "entity" \notin Faults, OutcomesKept,
         ReturnToService,
         \A r \in Sessions \ {session} : Untouched(r),
         NEW r \in Sessions, SessionOrder(r)
  PROVE  SessionOrder(r)'
<1>0. PICK s : s = session
  OBVIOUS
<1>1. /\ at = "apply" /\ at' = "look" /\ s \in todo /\ s \in Sessions
      /\ todo' = todo \ {s} /\ pc[s] = "done"
      /\ UNCHANGED <<queueVars, current, pc, svcAssigned>>
  BY <1>0 DEF ReturnToService, Step, Link, LoopTypes, Phases, threadFrame, runVars,
     svcVars
<1>2. lists[s] = {a \in OwnAssigned(s) : ~ Done(svc[a])}
  BY <1>1 DEF Link, Response
<1>3. PICK A : A = {a \in lists[s] : updates[a].status = "none"}
  OBVIOUS
<1>4. \A a \in Actions : IF a \in A
        THEN Done(reported'[a])
        ELSE reported'[a] = reported[a] /\ updates'[a] = updates[a]
  BY <1>0, <1>3 DEF ReturnToService, Record, Done, CompletedStatuses
<1>5. SessionInv(r) /\ SessionInv(s)
  BY <1>1 DEF OutcomeInv
<1>6. CASE r = s
  <2>1. \A b \in Underway(s) : updates[b].status = "none"
    BY <1>1, <1>6 DEF SessionOrder, Left, Doomed, Taken
  <2>2. InOrder(s)'
    <3>1. ASSUME NEW b \in OwnAssigned(s), ~ Completed(b), Kind[b] # "ENV_EXIT"
          PROVE  b \in A
      <4>1. b \in Actions /\ b \in Own(s) /\ ~ Done(svc[b])
        BY <3>1, KnownComplete DEF OwnAssigned, Own
      <4>2. reported[b] \in {"none", "RUNNING"}
        BY <3>1, <4>1 DEF TypeOK, Statuses, Completed
      <4>3. updates[b].status \in {"none", "RUNNING"}
        BY <4>1, <4>2 DEF Link, MapCurrent
      <4>4. updates[b].status = "none"
        BY <2>1, <3>1, <4>1, <4>2, <4>3 DEF Link, MapCurrent, Underway
      <4> QED BY <1>2, <1>3, <4>1, <4>4
    <3>2. A \in SUBSET OwnAssigned(s) /\ Own(s) \subseteq Actions
      BY <1>2, <1>3 DEF Own
    <3> QED BY <1>1, <1>4, <1>6, <3>1, <3>2, AnsweredInOrder
  <2>3. Lined(s)' /\ Leaving(s)'
    BY <1>1 DEF Lined, InLine, Early, Leaving, Popping
  <2>4. Left(s)'
    <3>1. current[s] # None => Completed(current[s]) /\ current[s] \in Actions
      BY <1>1, <1>5, <1>6, HeldOwn DEF SessionOrder, Left, Early, Own
    <3>2. current'[s] # None => Completed(current[s])'
      BY <1>1, <1>4, <3>1 DEF Completed, Done
    <3>3. \A b : Taken(s, b)'
      BY <1>1 DEF Taken
    <3> QED BY <1>1, <3>2, <3>3 DEF Left
  <2> QED BY <1>6, <2>2, <2>3, <2>4 DEF SessionOrder
<1>7. CASE r # s
  <2>1. \A b \in Own(r) : updates'[b] = updates[b]
    BY <1>1, <1>2, <1>3, <1>4, <1>7 DEF OwnAssigned, Own
  <2> QED BY <1>0, <1>1, <1>5, <1>7, <2>1, OthersOrder DEF Applying, queueVars
<1> QED BY <1>6, <1>7

(***************************************************************************)
(* The service.                                                            *)
(***************************************************************************)
\* What the service has completed stays so, and so a Session is broken for good.
LEMMA KnownFinal ==
  ASSUME Link, "entity" \notin Faults, at = "request", NEW a \in Actions,
         Done(svc[a])
  PROVE  Told(a) = svc[a]
BY DEF Link, InFlight, MapCurrent, Agrees, Told

LEMMA BrokenForGood ==
  ASSUME Link, "entity" \notin Faults, at = "request", NEW s \in Sessions,
         \A a \in Actions : svc'[a] \in {svc[a], Told(a)},
         svcCanceled \subseteq svcCanceled', Broken(s, svc, svcCanceled)
  PROVE  Broken(s, svc', svcCanceled')
<1>1. CASE s \in svcCanceled
  BY <1>1 DEF Broken
<1>2. ASSUME NEW a \in Own(s), svc[a] \in {"FAILED", "CANCELED", "INTERRUPTED"}
      PROVE  svc'[a] = svc[a]
  BY <1>2, KnownFinal DEF Own, Done, CompletedStatuses
<1> QED BY <1>1, <1>2 DEF Broken

\* The service assigns nothing before what it has assigned, ENV_EXITs aside.
LEMMA EarlierKept ==
  ASSUME Link, "entity" \notin Faults, Pipelines, ServiceAnswers,
         NEW s \in Sessions, NEW a \in OwnAssigned(s)
  PROVE  Earlier(s, a)' = Earlier(s, a)
<1>1. /\ at = "request" /\ svcCanceled \subseteq svcCanceled'
      /\ svcAssigned \subseteq svcAssigned'
      /\ \A c \in Actions : svc'[c] = Told(c)
  BY DEF ServiceAnswers, Step, Told
<1>2. PICK new \in SUBSET (Actions \ svcAssigned) :
        /\ Assignable(new, svc', svcCanceled')
        /\ svcAssigned' = svcAssigned \union new
  BY DEF ServiceAnswers
<1>3. ASSUME NEW b \in new, b \in Own(s), Pos[b] < Pos[a], Kind[b] # "ENV_EXIT"
      PROVE  FALSE
  <2>1. Broken(s, svc, svcCanceled)
    BY <1>2, <1>3 DEF Pipelines
  <2>2. Broken(s, svc', svcCanceled')
    BY <1>1, <2>1, BrokenForGood
  <2>3. SessionOf[b] = s
    BY <1>3 DEF Own
  <2> QED BY <1>2, <1>3, <2>2, <2>3 DEF Assignable
<1> QED BY <1>2, <1>3 DEF Earlier, OwnAssigned, Own
LEMMA AnswerOrder ==
  ASSUME TypeOK, Link, "entity" \notin Faults, Pipelines, ServiceAnswers,
         NEW s \in Sessions, SessionInv(s), SessionOrder(s)
  PROVE  SessionOrder(s)'
<1>1. UNCHANGED <<sessionState, updates>> /\ at = "request" /\ at' = "answer"
      /\ svcAssigned \subseteq svcAssigned'
  BY DEF ServiceAnswers, Step, vars, sessionState, schedVars, runVars, cleanVars,
     history
<1>2. \A a \in OwnAssigned(s) : Earlier(s, a)' = Earlier(s, a)
  BY EarlierKept
<1>3. /\ Queued(s)' = Queued(s) /\ Held(s)' = Held(s)
      /\ Own(s)' = Own(s) /\ Underway(s)' = Underway(s)
      /\ \A a : Completed(a)' <=> Completed(a)
      /\ (Early(s)' <=> Early(s)) /\ (InLine(s)' <=> InLine(s))
      /\ (Popping(s)' <=> Popping(s)) /\ Leavers(s)' = Leavers(s)
      /\ (Doomed(s)' <=> Doomed(s))
  BY <1>1 DEF sessionState, queueVars, Queued, Held, Own, Underway, Completed, Early,
     InLine, Popping, Leavers, Doomed, Found
<1>4. Lined(s)'
  <2>1. Held(s) \subseteq OwnAssigned(s)
    BY HeldAssigned
  <2> QED BY <1>1, <1>2, <1>3, <2>1 DEF SessionOrder, Lined, sessionState, queueVars
<1>5. Leaving(s)'
  <2>1. CASE Popping(s) \/ pc[s] = "cancelAll"
    <3>1. Leavers(s) \subseteq OwnAssigned(s)
      <4>1. victims[s] \subseteq Own(s) /\ (Popping(s) => popped[s] \in Own(s))
        BY DEF SessionInv, HoldsOwn, Cancelling, Popping, OptionalSet
      <4> QED BY <2>1, <4>1 DEF SessionOrder, Leaving, Leavers, OwnAssigned
    <3>2. /\ victims[s] \subseteq Queued(s) \intersect byId[s]
          /\ Underway(s) \subseteq Leavers(s)
          /\ \A a \in Leavers(s) :
               \A b \in Earlier(s, a) : Completed(b) \/ b \in Leavers(s)
          /\ Popping(s) => \A v \in victims[s] : Pos[popped[s]] =< Pos[v]
      BY <2>1 DEF SessionOrder, Leaving
    <3>3. \A a \in Leavers(s) :
            \A b \in Earlier(s, a)' : Completed(b) \/ b \in Leavers(s)
      BY <1>2, <3>1, <3>2
    <3>4. Leavers(s) \subseteq svcAssigned'
      BY <1>1, <3>1 DEF OwnAssigned
    <3> QED BY <1>1, <1>3, <3>2, <3>3, <3>4 DEF Leaving, sessionState, queueVars
  <2>2. CASE ~ (Popping(s) \/ pc[s] = "cancelAll")
    BY <1>1, <1>3, <2>2 DEF Leaving, sessionState
  <2> QED BY <2>1, <2>2
<1>6. Left(s)'
  <2>1. \A b \in Underway(s) : Taken(s, b) => Taken(s, b)'
    BY <1>1, TakenKept DEF Telling
  <2>2. UNCHANGED <<current, reported, pc>>
    BY <1>1 DEF sessionState
  <2> QED BY <1>3, <2>1, <2>2 DEF SessionOrder, Left, Completed
<1>7. InOrder(s)'
  <2>1. UNCHANGED reported
    BY <1>1 DEF sessionState
  <2> QED BY <1>1, <1>2, <1>3, <2>1 DEF SessionOrder, InOrder, OwnAssigned
<1> QED BY <1>4, <1>5, <1>6, <1>7 DEF SessionOrder

LEMMA AnswerPipelines ==
  ASSUME Link, "entity" \notin Faults, Pipelines, ServiceAnswers
  PROVE  Pipelines'
<1>1. /\ at = "request" /\ svcCanceled \subseteq svcCanceled'
      /\ \A c \in Actions : svc'[c] \in {svc[c], Told(c)}
  BY DEF ServiceAnswers, Step, Told
<1>2. PICK new \in SUBSET (Actions \ svcAssigned) :
        /\ Assignable(new, svc', svcCanceled')
        /\ svcAssigned' = svcAssigned \union new
  BY DEF ServiceAnswers
<1> SUFFICES ASSUME NEW s \in Sessions, NEW a \in Own(s), a \in svcAssigned',
                    NEW b \in Own(s), Pos[b] < Pos[a], Kind[b] # "ENV_EXIT"
             PROVE  b \in svcAssigned' \/ Broken(s, svc', svcCanceled')
  BY DEF Pipelines, OwnAssigned, Own, Broken
<1>3. CASE a \in svcAssigned
  <2>1. b \in svcAssigned \/ Broken(s, svc, svcCanceled)
    BY <1>3 DEF Pipelines, OwnAssigned
  <2> QED BY <1>1, <1>2, <2>1, BrokenForGood
<1>4. CASE a \in new
  <2>1. SessionOf[a] = s
    BY DEF Own
  <2> QED BY <1>2, <1>4, <2>1 DEF Assignable
<1> QED BY <1>2, <1>3, <1>4

LEMMA AnswerKnown ==
  ASSUME TypeOK, Link, "entity" \notin Faults, Pipelines, ToldInOrder, ServiceAnswers,
         \A s \in Sessions : SessionOrder(s)
  PROVE  KnownInOrder'
<1>1. at = "request" /\ \A c \in Actions : svc'[c] = Told(c)
  BY DEF ServiceAnswers, Step, Told
<1> SUFFICES ASSUME NEW s \in Sessions, NEW a \in Own(s),
                    svc'[a] = "NEVER_ATTEMPTED", NEW b \in Earlier(s, a)'
             PROVE  Done(svc'[b])
  BY DEF KnownInOrder, Own, Done
<1>2. a \in Actions /\ b \in Actions /\ Told(a) = "NEVER_ATTEMPTED"
  BY <1>1 DEF Own, Earlier, OwnAssigned
<1>3. reported[a] = "NEVER_ATTEMPTED"
  BY <1>1, <1>2 DEF Told, Link, InFlight, MapCurrent, Agrees, Done, CompletedStatuses
<1>4. b \in Earlier(s, a)
  BY <1>3, EarlierKept DEF SessionOrder, InOrder, OwnAssigned
<1> QED BY <1>1, <1>2, <1>4 DEF ToldInOrder

\* What is repeated was told in order.
LEMMA RetryTells ==
  ASSUME Link, "entity" \notin Faults, Pipelines, ToldInOrder, KnownInOrder,
         TypeOK, RetryRequest
  PROVE  Pipelines' /\ ToldInOrder' /\ KnownInOrder'
<1>1. /\ at = "request" /\ UNCHANGED <<request, svcAssigned, svcCanceled>>
      /\ \/ svc' = svc
         \/ \A a \in Actions : svc'[a] = Told(a)
  BY DEF RetryRequest, Step, Told, respVars
<1>2. /\ \A a \in Actions : svc'[a] \in {svc[a], Told(a)} /\ Told(a)' = Told(a)
      /\ \A s, a : Earlier(s, a)' = Earlier(s, a) /\ Earlier(s, a) \subseteq Actions
      /\ \A s : Own(s)' = Own(s) /\ Own(s) \subseteq Actions
  BY <1>1 DEF Told, Earlier, OwnAssigned, Own
<1>3. Pipelines'
  <2> SUFFICES ASSUME NEW s \in Sessions, NEW a \in OwnAssigned(s), NEW b \in Own(s),
                      Pos[b] < Pos[a], Kind[b] # "ENV_EXIT"
               PROVE  b \in svcAssigned' \/ Broken(s, svc', svcCanceled')
    BY <1>1 DEF Pipelines, OwnAssigned, Own, Broken
  <2>1. b \in svcAssigned \/ Broken(s, svc, svcCanceled)
    BY DEF Pipelines
  <2> QED BY <1>1, <1>2, <2>1, BrokenForGood
<1>4. ToldInOrder'
  BY <1>1, <1>2 DEF ToldInOrder
<1>5. KnownInOrder'
  <2>1. CASE svc' = svc
    BY <1>2, <2>1 DEF KnownInOrder
  <2>2. CASE \A a \in Actions : svc'[a] = Told(a)
    BY <1>1, <1>2, <2>2 DEF ToldInOrder, KnownInOrder
  <2> QED BY <1>1, <2>1, <2>2
<1> QED BY <1>3, <1>4, <1>5

\* A request holds a NEVER_ATTEMPTED together with what was complete by then.
LEMMA SnapshotTells ==
  ASSUME TypeOK, Link, "entity" \notin Faults, Snapshot,
         \A s \in Sessions : SessionOrder(s)
  PROVE  ToldInOrder'
<1>1. /\ UNCHANGED <<svc, svcAssigned>>
      /\ \A a \in Actions : request'[a] = updates[a].status
  BY DEF Snapshot, svcVars
<1>2. \A a \in Actions : Told(a)' = IF updates[a].status = "none" THEN svc[a]
                                    ELSE updates[a].status
  BY <1>1 DEF Told
<1> SUFFICES ASSUME NEW s \in Sessions, NEW a \in Own(s),
                    Told(a)' = "NEVER_ATTEMPTED", NEW b \in Earlier(s, a)
             PROVE  Done(Told(b)')
  BY <1>1 DEF ToldInOrder, Earlier, OwnAssigned, Own, Done
<1>3. a \in Actions /\ b \in Actions
  BY DEF Own, Earlier, OwnAssigned
<1>4. reported[a] = "NEVER_ATTEMPTED"
  BY <1>2, <1>3 DEF Link, MapCurrent, Agrees, Done, CompletedStatuses
<1>5. Done(reported[b])
  BY <1>4 DEF SessionOrder, InOrder, Completed, Done
<1>6. updates[b].status = reported[b] \/ svc[b] = reported[b]
  BY <1>3, <1>5 DEF Link, NoCompletionLost
<1>7. updates[b].status \in {"none", reported[b]}
  BY <1>3 DEF Link, MapCurrent
<1> QED BY <1>2, <1>3, <1>5, <1>6, <1>7 DEF Done, CompletedStatuses
(***************************************************************************)
(* The invariant, and what follows.                                        *)
(***************************************************************************)
Knowledge == Pipelines /\ ToldInOrder /\ KnownInOrder

LEMMA KnowledgeKept ==
  ASSUME Knowledge, UNCHANGED <<svc, svcAssigned, svcCanceled>>,
         at' \in {"gate", "request"} =>
           at \in {"gate", "request"} /\ UNCHANGED request
  PROVE  Knowledge'
<1>1. Pipelines'
  BY DEF Knowledge, Pipelines, OwnAssigned, Own, Broken
<1>2. KnownInOrder'
  BY DEF Knowledge, KnownInOrder, Earlier, OwnAssigned, Own
<1>3. ToldInOrder'
  BY DEF Knowledge, ToldInOrder, Told, Earlier, OwnAssigned, Own
<1> QED BY <1>1, <1>2, <1>3 DEF Knowledge

LEMMA OrderInit == SystemInit => OrderInv
<1> SUFFICES ASSUME SystemInit PROVE OrderInv
  OBVIOUS
<1>1. Pipelines /\ ToldInOrder /\ KnownInOrder
  BY DEF SystemInit, Pipelines, ToldInOrder, KnownInOrder, OwnAssigned, Own
<1>2. ASSUME NEW s \in Sessions PROVE SessionOrder(s)
  <2>1. Held(s) = {} /\ Queued(s) = {} /\ Underway(s) = {}
    BY DEF SystemInit, Init, Held, Queued, OptionalSet, Underway, Own
  <2>2. pc[s] = "new"
    BY DEF SystemInit, Init
  <2>3. Lined(s) /\ Leaving(s) /\ Left(s)
    BY <2>1, <2>2 DEF Lined, Leaving, Left, Popping, Early, Doomed
  <2>4. InOrder(s)
    BY DEF SystemInit, Init, InOrder, Own
  <2> QED BY <2>3, <2>4 DEF SessionOrder
<1> QED BY <1>1, <1>2 DEF OrderInv

\* What the scheduler does to one Session.
LEMMA HandOverOrder ==
  ASSUME TypeOK, OutcomeInv, Link, "entity" \notin Faults, OutcomesKept,
         \/ (\E s \in Sessions : CreateSession(s) \/ CreationFails(s))
         \/ ApplyToSession \/ ReturnToService,
         NEW r \in Sessions, SessionOrder(r)
  PROVE  SessionOrder(r)'
<1>1. ASSUME NEW s \in Sessions, SchedulerThread(s)
      PROVE  \A q \in Sessions \ {s} : Untouched(q)
  BY <1>1, SchedulerThreadGood DEF OutcomeInv, GoodStep
<1>2. ASSUME NEW s \in Sessions, CreateSession(s) \/ CreationFails(s)
      PROVE  SessionOrder(r)'
  <2>1. \A q \in Sessions \ {s} : Untouched(q)
    BY <1>1, <1>2, CreationImplements
  <2> QED BY <1>2, <2>1, CreateOrder, CreationFailsOrder
<1>3. CASE ApplyToSession \/ ReturnToService
  <2>1. \A q \in Sessions \ {session} : Untouched(q)
    BY <1>1, <1>3, ApplicationImplements
  <2> QED BY <1>3, <2>1, ApplyOrder, ReturnOrder
<1> QED BY <1>2, <1>3

LEMMA OrderStep ==
  ASSUME "entity" \notin Faults, TypeOK, OutcomeInv, Link, OrderInv,
         [SystemNext]_allVars
  PROVE  OrderInv'
<1>1. OutcomesKept
  BY LinkStep, OutcomeStep
<1>2. Knowledge /\ \A s \in Sessions : SessionOrder(s) /\ SessionInv(s)
  BY DEF OrderInv, Knowledge, OutcomeInv
<1> SUFFICES Knowledge' /\ \A s \in Sessions : SessionOrder(s)'
  BY DEF OrderInv, Knowledge
<1>3. CASE UNCHANGED allVars
  <2>1. UNCHANGED <<vars, schedulerVars>>
    BY <1>3 DEF allVars
  <2>2. Knowledge'
    BY <1>2, <2>1, KnowledgeKept DEF schedulerVars, respVars, svcVars
  <2>3. UNCHANGED <<queueVars, current, victims, popped, pc, reported, updates,
                    at, todo, svcAssigned>>
    BY <2>1 DEF vars, schedVars, runVars, cleanVars, history, schedulerVars,
       loopVars, svcVars
  <2> QED BY <1>2, <2>2, <2>3, StillKept
<1>4. ASSUME NEW s \in Sessions, SessionThread(s) \/ OpenjdThread(s),
             UNCHANGED schedulerVars
      PROVE  Knowledge' /\ \A r \in Sessions : SessionOrder(r)'
  <2>1. Knowledge'
    BY <1>2, <1>4, KnowledgeKept DEF schedulerVars, respVars, svcVars
  <2> QED BY <1>2, <1>4, <2>1, ThreadsOrder
<1>5. CASE Passing
  <2>1. \A r \in Sessions : SessionOrder(r)'
    BY <1>2, <1>5, PassingOrder
  <2>2. CASE RetryRequest
    BY <1>2, <2>1, <2>2, RetryTells DEF Knowledge
  <2>3. CASE ~ RetryRequest
    <3>1. /\ UNCHANGED <<svc, svcAssigned, svcCanceled, request>>
          /\ at' \in {"gate", "request"} => at \in {"gate", "request"}
      <4>1. CASE \/ CheckShutdown \/ Gate \/ RequestFails \/ AllRemoved
                 \/ AllCreated \/ EndSync \/ ServiceShutdown \/ WakeUp
                 \/ IntervalPasses \/ TellStopping \/ AllStopped \/ Clear
                 \/ RemoveFinished \/ Register \/ CancelBreaksSync
        BY <4>1 DEF CheckShutdown, Gate, RequestFails, AllRemoved, AllCreated,
           EndSync, ServiceShutdown, WakeUp, IntervalPasses, TellStopping,
           AllStopped, Clear, RemoveFinished, Register, CancelBreaksSync, Step,
           respVars, svcVars
      <4>2. CASE SetShutdown \/ SetWakeup \/ \E s \in Sessions :
                   \/ LookAtFuture(s) \/ StopFinished(s) \/ StopForDrain(s)
                   \/ CredentialsExpire(s)
        BY <4>2 DEF SetShutdown, SetWakeup, LookAtFuture, StopFinished,
           StopForDrain, CredentialsExpire, Step, respVars, svcVars, schedulerVars
      <4> QED BY <1>5, <2>3, <4>1, <4>2 DEF Passing
    <3> QED BY <1>2, <2>1, <3>1, KnowledgeKept
  <2> QED BY <2>1, <2>2, <2>3
<1>6. CASE Snapshot \/ Commit
  <2>1. \A r \in Sessions : SessionOrder(r)'
    BY <1>2, <1>6, MapOrder
  <2>2. CASE Snapshot
    <3>1. UNCHANGED <<svc, svcAssigned, svcCanceled>>
      BY <2>2 DEF Snapshot, svcVars
    <3>2. Pipelines' /\ KnownInOrder'
      BY <1>2, <3>1 DEF Knowledge, Pipelines, KnownInOrder, Earlier, OwnAssigned,
         Own, Broken
    <3>3. ToldInOrder'
      BY <1>2, <2>2, SnapshotTells
    <3> QED BY <2>1, <3>2, <3>3 DEF Knowledge
  <2>3. CASE Commit
    <3>1. Knowledge'
      BY <1>2, <2>3, KnowledgeKept DEF Commit, Step, svcVars
    <3> QED BY <2>1, <3>1
  <2> QED BY <1>6, <2>2, <2>3
<1>7. CASE ServiceAnswers
  <2>1. \A r \in Sessions : SessionOrder(r)'
    BY <1>2, <1>7, AnswerOrder DEF Knowledge
  <2>2. Pipelines' /\ KnownInOrder'
    BY <1>2, <1>7, AnswerPipelines, AnswerKnown DEF Knowledge
  <2>3. ToldInOrder'
    BY <1>7 DEF ServiceAnswers, Step, ToldInOrder
  <2> QED BY <2>1, <2>2, <2>3 DEF Knowledge
<1>8. CASE \/ (\E s \in Sessions : CreateSession(s) \/ CreationFails(s))
           \/ ApplyToSession \/ ReturnToService
  <2>1. Knowledge'
    BY <1>2, <1>8, KnowledgeKept DEF CreateSession, CreationFails, ApplyToSession,
       ReturnToService, Step, respVars, svcVars
  <2> QED BY <1>1, <1>2, <1>8, <2>1, HandOverOrder
<1> QED BY <1>3, <1>4, <1>5, <1>6, <1>7, <1>8, SystemSteps DEF Unseen, Passing

\* The service learns that an action was NEVER_ATTEMPTED only once it knows the
\* outcomes of the actions before it, ENV_EXITs aside: through cancel_all, which
\* reports one by one while other requests are sent, and through Sessions that
\* end before they have reported, whose actions the scheduler answers.
THEOREM ServiceLearnsInOrder ==
  ASSUME "entity" \notin Faults
  PROVE  SystemSpec => []OutcomesInOrder
<1>1. SystemInit => OrderInv
  BY OrderInit
<1>2. TypeOK /\ OutcomeInv /\ Link /\ OrderInv /\ [SystemNext]_allVars => OrderInv'
  BY OrderStep
<1>3. OrderInv => OutcomesInOrder
  <2> SUFFICES ASSUME OrderInv, NEW a \in Actions, NEW b \in Actions,
                      SessionOf[a] = SessionOf[b], Pos[b] < Pos[a],
                      Kind[b] # "ENV_EXIT", b \in svcAssigned,
                      svc[a] = "NEVER_ATTEMPTED"
               PROVE  Done(svc[b])
    BY DEF OutcomesInOrder
  <2>1. PICK s \in Sessions : s = SessionOf[a]
    BY ConstantsAssumption DEF ConstantsAssumption
  <2>2. a \in Own(s) /\ b \in Earlier(s, a)
    BY <2>1 DEF Own, Earlier, OwnAssigned
  <2> QED BY <2>2 DEF OrderInv, KnownInOrder
<1> QED BY <1>1, <1>2, <1>3, SystemCorrect, PTL DEF SystemSpec
================================================================================
