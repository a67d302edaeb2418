--------------------------- MODULE WorkerScheduler ---------------------------
(***************************************************************************)
(* The sync loop of WorkerScheduler (scheduler/scheduler.py) together with *)
(* the Sessions it runs and the service it talks to.  The scheduler thread *)
(* takes the steps of run(), _sync(), _update_sessions() and               *)
(* _drain_scheduler() one by one, so that the threads of the Sessions get  *)
(* in between wherever the code holds no lock.  A signal handler calls     *)
(* shutdown().                                                             *)
(*                                                                         *)
(* The service is external: it is modelled from what the scheduler does    *)
(* with its responses, which are computed in pipeline order, list a        *)
(* Session until it is over, and repeat a cancellation until the action is *)
(* complete.                                                               *)
(***************************************************************************)
EXTENDS Session

CONSTANTS
  Drains,   \* what may end the main loop: "worker", "service", "error"
  Cancels   \* the Sessions whose actions the service may cancel

\* the ways the scheduler itself calls stop() are among the Stops of Session
ASSUME SchedulerAssumption ==
  /\ Drains \subseteq {"worker", "service", "error"}
  /\ Sessions # {}
  /\ <<"FAILED", "spent">> \in Stops
  /\ "creds" \in Faults => <<"INTERRUPTED", "none">> \in Stops

VARIABLES
  at,        \* where the scheduler thread is
  request,   \* updatedSessionActions of the request in flight
  listed,    \* assignedSessions of the response: the Sessions ...
  lists,     \* ... and their sessionActions
  cancels,   \* cancelSessionActions of the response
  todo,      \* Sessions the current phase of _update_sessions still has to do
  session,   \* the Session it works on, or None
  gone,      \* future.exception() said that its thread is over
  shutdown,  \* _shutdown
  handler,   \* how far shutdown() has come
  draining,  \* the sync under way is the last one of _drain_scheduler
  svc,       \* the service: the status of each action
  svcAssigned,
  svcCanceled, \* Sessions it has cancelled
  svcClosed,   \* Sessions that are over for it
  svcStopping  \* it knows that the Worker is STOPPING

respVars == <<request, listed, lists, cancels>>
loopVars == <<todo, session, gone>>
downVars == <<shutdown, handler, draining>>
svcVars  == <<svc, svcAssigned, svcCanceled, svcClosed, svcStopping>>
schedulerVars == <<at, respVars, loopVars, downVars, svcVars>>
allVars  == <<vars, schedulerVars>>

Step(from, to) == at = from /\ at' = to

(***************************************************************************)
(* run() and the first half of _sync().                                    *)
(***************************************************************************)
\* while not self._shutdown.is_set()
CheckShutdown ==
  /\ Step("top", IF shutdown THEN "drain" ELSE "clear")
  /\ UNCHANGED <<vars, respVars, loopVars, downVars, svcVars>>

Clear ==
  /\ Step("clear", "snapshot")
  /\ ClearWakeup
  /\ UNCHANGED <<respVars, loopVars, downVars, svcVars>>

Snapshot ==
  /\ Step("snapshot", IF draining THEN "request" ELSE "gate")
  /\ SnapshotUpdates
  /\ request' = [a \in Actions |-> updates[a].status]
  /\ UNCHANGED <<listed, lists, cancels, loopVars, downVars, svcVars>>

\* update_worker_schedule looks at the interrupt event before each attempt;
\* DeadlineRequestInterrupted takes run() back to the top of its loop
Gate ==
  /\ Step("gate", IF shutdown THEN "top" ELSE "request")
  /\ UNCHANGED <<vars, respVars, loopVars, downVars, svcVars>>

\* A retryable error, before or after the service has taken the updates in
RetryRequest ==
  /\ Step("request", IF draining THEN "request" ELSE "gate")
  /\ svc' \in {svc, [a \in Actions |-> IF request[a] = "none" THEN svc[a]
                                       ELSE request[a]]}
  /\ UNCHANGED <<vars, respVars, loopVars, downVars, svcAssigned, svcCanceled,
                 svcClosed, svcStopping>>

\* an unrecoverable error ends the loop; in the last sync it ends run()
RequestFails ==
  /\ "error" \in Drains
  /\ Step("request", IF draining THEN "exited" ELSE "drain")
  /\ UNCHANGED <<vars, respVars, loopVars, downVars, svcVars>>

(***************************************************************************)
(* The service.                                                            *)
(***************************************************************************)
Done(status) == status \in CompletedStatuses
Attempted(status) == status \notin {"none", "NEVER_ATTEMPTED"}

\* a Session that may get nothing but ENV_EXITs any more
Broken(s, status, canceled) ==
  \/ s \in canceled
  \/ \E a \in Own(s) : status[a] \in {"FAILED", "CANCELED", "INTERRUPTED"}

\* the service may extend the pipelines by the actions of `new`
Assignable(new, status, canceled) ==
  \A a \in new :
    LET s == SessionOf[a]
        before == {b \in Own(s) : Pos[b] < Pos[a]}
    IN /\ s \notin svcClosed
       /\ (Broken(s, status, canceled) \/ svcStopping) => Kind[a] = "ENV_EXIT"
       /\ Kind[a] = "ENV_EXIT" =>
            \E e \in before : /\ Kind[e] = "ENV_ENTER" /\ EnvOf[e] = EnvOf[a]
                              /\ e \in svcAssigned \union new
                              /\ status[e] # "NEVER_ATTEMPTED"
       /\ \A b \in before :
            \/ b \in svcAssigned \union new
            \/ /\ Broken(s, status, canceled)
               /\ Kind[b] # "ENV_EXIT" \/
                    \A e \in Own(s) : Kind[e] = "ENV_ENTER" /\ EnvOf[e] = EnvOf[b]
                                        => ~ Attempted(status[e])

\* all that was assigned is done and no environment is left to exit
Closable(s, status) ==
  /\ Own(s) \intersect svcAssigned # {}
  /\ \A a \in Own(s) \intersect svcAssigned : Done(status[a])
  /\ \A e \in Own(s) : Kind[e] = "ENV_ENTER" /\ Attempted(status[e]) =>
       \E x \in Own(s) : /\ Kind[x] = "ENV_EXIT" /\ EnvOf[x] = EnvOf[e]
                         /\ Done(status[x])

ServiceAnswers ==
  /\ Step("request", "answer")
  /\ svc' = [a \in Actions |-> IF request[a] = "none" THEN svc[a]
                               ELSE request[a]]
  /\ \E more \in SUBSET Cancels :
       svcCanceled' = svcCanceled \union (more \ svcClosed)
  /\ \E over \in SUBSET {s \in Sessions : Closable(s, svc')} :
       svcClosed' = svcClosed \union over
  /\ \E new \in SUBSET (Actions \ svcAssigned) :
       /\ Assignable(new, svc', svcCanceled')
       /\ \A a \in new : SessionOf[a] \notin svcClosed'
       /\ svcAssigned' = svcAssigned \union new
  /\ listed' = {SessionOf[a] : a \in svcAssigned'} \ svcClosed'
  /\ lists' = [s \in Sessions |-> {a \in Own(s) \intersect svcAssigned' :
                                     ~ Done(svc'[a])}]
  /\ cancels' = {a \in svcAssigned' : /\ SessionOf[a] \in svcCanceled'
                                      /\ ~ Done(svc'[a])
                                      /\ Kind[a] # "ENV_EXIT"}
  /\ UNCHANGED <<vars, request, loopVars, downVars, svcStopping>>

(***************************************************************************)
(* The second half of _sync(): _update_sessions(response).                 *)
(***************************************************************************)
Commit ==
  /\ Step("answer", "remove")
  /\ CommitUpdates
  /\ todo' = registered \ listed
  /\ UNCHANGED <<respVars, session, gone, downVars, svcVars>>

\* _remove_finished_sessions: stop(grace_time=timedelta()) ...
StopFinished(s) ==
  /\ Step("remove", "removing")
  /\ s \in todo
  /\ StopSession(s, "FAILED", "spent")
  /\ session' = s
  /\ UNCHANGED <<respVars, todo, gone, downVars, svcVars>>

\* ... wait for _stopped_running, and delete it
RemoveFinished ==
  /\ Step("removing", "remove")
  /\ stopped[session]
  /\ RemoveSession(session)
  /\ todo' = todo \ {session}
  /\ session' = None
  /\ UNCHANGED <<respVars, gone, downVars, svcVars>>

\* from here on `listed` holds the existing_sessions only
AllRemoved ==
  /\ Step("remove", "create")
  /\ todo = {}
  /\ todo' = listed \ registered
  /\ listed' = listed \intersect registered
  /\ UNCHANGED <<vars, request, lists, cancels, session, gone, downVars,
                 svcVars>>

\* _create_new_sessions: the Session is submitted to the executor, where it
\* may run before ...
CreateSession(s) ==
  /\ Step("create", "register")
  /\ s \in todo
  /\ Goto(s, "new", "starting")
  /\ assigned' = assigned \union lists[s]
  /\ ReplaceQueue(s, lists[s])
  /\ session' = s
  /\ UNCHANGED <<schedVars, stopVars, reported, threadFrame, respVars, todo,
                 gone, downVars, svcVars>>

\* ... it is entered into _sessions
Register ==
  /\ Step("register", "create")
  /\ RegisterSession(session)
  /\ todo' = todo \ {session}
  /\ session' = None
  /\ UNCHANGED <<respVars, gone, downVars, svcVars>>

\* ... or its set-up fails, and so do its actions
CreationFails(s) ==
  /\ at = "create" /\ s \in todo
  /\ "create" \in Faults
  /\ assigned' = assigned \union lists[s]
  /\ Record(lists[s], [a \in Actions |-> IF a = First(lists[s]) THEN "FAILED"
                                         ELSE "NEVER_ATTEMPTED"])
  /\ todo' = todo \ {s}
  /\ UNCHANGED <<at, registered, queueVars, stopVars, threadFrame, pc,
                 respVars, session, gone, downVars, svcVars>>

AllCreated ==
  /\ Step("create", "look")
  /\ todo = {}
  /\ todo' = listed
  /\ UNCHANGED <<vars, respVars, session, gone, downVars, svcVars>>

\* _update_session_actions_from_scheduler: future.exception(timeout=0.2),
\* read before the lock is taken
LookAtFuture(s) ==
  /\ Step("look", "apply")
  /\ s \in todo
  /\ session' = s
  /\ gone' = (pc[s] = "done")
  /\ UNCHANGED <<vars, respVars, todo, downVars, svcVars>>

\* Mutant: completed actions are not filtered out of the response.
AllPending(a) == a \in Actions

Pending(a) == ~ Done(updates[a].status)
Hit(s) == current[s] \in {a \in cancels : Pending(a)}

\* under the lock: cancel what is cancelled, then replace the queue
ApplyToSession ==
  LET s == session IN
  /\ Step("apply", "look")
  /\ ~ gone
  /\ Hit(s) => ~ CancelRaises(s)
  /\ cancelSent' = [cancelSent EXCEPT ![s] = @ \/ Hit(s)]
  /\ assigned' = assigned \union lists[s]
  /\ ReplaceQueue(s, {a \in lists[s] : Pending(a)})
  /\ todo' = todo \ {s}
  /\ session' = None
  /\ UNCHANGED <<schedVars, stopVars, reported, runVars, proc, pendingCb,
                 cleanVars, ran, refused, interrupted, stopped, pc, respVars,
                 gone, downVars, svcVars>>

\* the running action is over, but not yet reported: the CancelationError is
\* caught by nobody and ends the main loop, or the drain in its last sync
CancelBreaksSync ==
  /\ Step("apply", IF draining THEN "exited" ELSE "drain")
  /\ Hit(session)
  /\ CancelRaised(session)
  /\ session' = None
  /\ todo' = {}
  /\ UNCHANGED <<respVars, gone, downVars, svcVars>>

\* Mutant: the actions of a thread that is gone are not answered.
ReturnNothing ==
  LET s == session IN
  /\ Step("apply", "look")
  /\ gone
  /\ assigned' = assigned \union lists[s]
  /\ todo' = todo \ {s}
  /\ session' = None
  /\ UNCHANGED <<schedVars, queueVars, stopVars, reported, threadFrame, pc,
                 respVars, gone, downVars, svcVars>>

\* _return_sessionactions_from_stopped_session
ReturnToService ==
  LET s == session IN
  /\ Step("apply", "look")
  /\ gone
  /\ ~ (Hit(s) /\ CancelRaises(s))
  /\ assigned' = assigned \union lists[s]
  /\ Record({a \in lists[s] : updates[a].status = "none"},
            [a \in Actions |-> IF a = First(lists[s]) \/ Kind[a] = "ENV_EXIT"
                               THEN "FAILED" ELSE "NEVER_ATTEMPTED"])
  /\ todo' = todo \ {s}
  /\ session' = None
  /\ UNCHANGED <<registered, queueVars, stopVars, threadFrame, pc, respVars,
                 gone, downVars, svcVars>>

\* back in run(): wait for the wakeup or the update interval
EndSync ==
  /\ Step("look", IF draining THEN "exited" ELSE "wait")
  /\ todo = {}
  /\ UNCHANGED <<vars, respVars, loopVars, downVars, svcVars>>

\* desiredWorkerStatus=STOPPED, sent only when no Session is assigned
ServiceShutdown ==
  /\ "service" \in Drains
  /\ Step("look", IF draining THEN "exited" ELSE "drain")
  /\ todo = {}
  /\ {SessionOf[a] : a \in svcAssigned} \subseteq svcClosed
  /\ UNCHANGED <<vars, respVars, loopVars, downVars, svcVars>>

WakeUp ==
  /\ Step("wait", "top")
  /\ wakeup
  /\ UNCHANGED <<vars, respVars, loopVars, downVars, svcVars>>

\* the update interval is over: no step of the loop waits for it to be fair
IntervalPasses ==
  /\ Step("wait", "top")
  /\ ~ wakeup
  /\ UNCHANGED <<vars, respVars, loopVars, downVars, svcVars>>

(***************************************************************************)
(* Shutting down: shutdown(), called by a signal handler, and              *)
(* _drain_scheduler().                                                     *)
(***************************************************************************)
\* Mutant: the wakeup is set first.
WakeupFirst(event) == IF event = "wakeup" THEN "idle" ELSE "set"

\* "THIS ORDER IS IMPORTANT": where the handler stands when it sets an event
Turn(event) == IF event = "shutdown" THEN "idle" ELSE "set"

Handle(event) ==
  /\ "worker" \in Drains
  /\ handler = Turn(event)
  /\ handler' = IF handler = "idle" THEN "set" ELSE "done"

\* self._shutdown.set()
SetShutdown ==
  /\ Handle("shutdown")
  /\ shutdown' = TRUE
  /\ UNCHANGED <<vars, at, respVars, loopVars, draining, svcVars>>

\* self._wakeup.set()
SetWakeup ==
  /\ Handle("wakeup")
  /\ WakeLoop
  /\ UNCHANGED <<at, respVars, loopVars, shutdown, draining, svcVars>>

\* _transition_to_stopping, which may be given up
TellStopping ==
  /\ Step("drain", "stopAll")
  /\ svcStopping' \in {svcStopping, svcStopping \/ (shutdown /\ registered # {})}
  /\ todo' = registered
  /\ UNCHANGED <<vars, respVars, session, gone, downVars, svc, svcAssigned,
                 svcCanceled, svcClosed>>

\* _shutdown_sessions: a thread of the executor calls stop()
StopForDrain(s) ==
  /\ at = "stopAll" /\ s \in todo
  /\ \E how \in Stops : how[1] = "INTERRUPTED" /\ StopSession(s, how[1], how[2])
  /\ todo' = todo \ {s}
  /\ UNCHANGED <<at, respVars, session, gone, downVars, svcVars>>

\* all the calls of stop() have returned: report once more
AllStopped ==
  /\ Step("stopAll", IF shutdown /\ registered # {} THEN "snapshot"
                     ELSE "exited")
  /\ todo = {}
  /\ draining' = TRUE
  /\ UNCHANGED <<vars, respVars, loopVars, shutdown, handler, svcVars>>

\* _queue_credentials_refresh_failed, in the thread of a refresher's timer
CredentialsExpire(s) ==
  /\ "creds" \in Faults
  /\ StopSession(s, "INTERRUPTED", "none")
  /\ UNCHANGED schedulerVars

SyncLoop ==
  \/ CheckShutdown \/ Clear \/ Snapshot \/ Gate \/ ServiceAnswers \/ Commit
  \/ (\E s \in Sessions : StopFinished(s) \/ CreateSession(s)
                          \/ CreationFails(s) \/ LookAtFuture(s))
  \/ RemoveFinished \/ AllRemoved \/ Register \/ AllCreated
  \/ ApplyToSession \/ CancelBreaksSync \/ ReturnToService \/ EndSync
  \/ WakeUp

Drain == TellStopping \/ (\E s \in Sessions : StopForDrain(s)) \/ AllStopped

SystemInit ==
  /\ Init
  /\ at = "top"
  /\ request = [a \in Actions |-> "none"]
  /\ listed = {} /\ cancels = {}
  /\ lists = [s \in Sessions |-> {}]
  /\ todo = {} /\ session = None /\ gone = FALSE
  /\ shutdown = FALSE /\ handler = "idle" /\ draining = FALSE
  /\ svc = [a \in Actions |-> "none"]
  /\ svcAssigned = {} /\ svcCanceled = {} /\ svcClosed = {}
  /\ svcStopping = FALSE

SystemNext ==
  \/ SyncLoop \/ IntervalPasses
  \/ RetryRequest \/ RequestFails \/ ServiceShutdown
  \/ Drain \/ SetShutdown \/ SetWakeup
  \/ \E s \in Sessions : \/ CredentialsExpire(s)
                         \/ /\ SessionThread(s) \/ OpenjdThread(s)
                            /\ UNCHANGED schedulerVars

SystemSpec == SystemInit /\ [][SystemNext]_allVars

\* The threads are never starved, processes end, and the service does not
\* answer with retryable errors for ever.  A sleep of the loop need not end of
\* its own accord: whoever counts on the wakeup must have set it.
Fairness ==
  /\ WF_allVars(SyncLoop) /\ WF_allVars(Drain) /\ WF_allVars(SetWakeup)
  /\ SF_allVars(ServiceAnswers)
  /\ \A s \in Sessions :
       /\ WF_allVars(SessionThread(s) /\ UNCHANGED schedulerVars)
       /\ WF_allVars(ProcessesEnd(s) /\ UNCHANGED schedulerVars)
       /\ WF_allVars(Callback(s) /\ UNCHANGED schedulerVars)

WokenSystemSpec == SystemSpec /\ Fairness

\* ... but the service's interval does pass: wait(timeout=...)
PollingSystemSpec == WokenSystemSpec /\ WF_allVars(IntervalPasses)

(***************************************************************************)
(* Properties.                                                             *)
(***************************************************************************)
\* No completion is lost: until the service has it, it stays in the map of
\* updates, whatever is committed, retried or overwritten meanwhile
\* (_updated_session_actions and its commit()).
NoCompletionLost ==
  \A a \in Actions :
    Done(reported[a]) /\ svc[a] # reported[a] =>
      updates[a].status = reported[a]

\* The service is told one outcome of an action, and nothing after it, also
\* when a request is retried.
ServiceSeesOneOutcome ==
  [][\A a \in Actions : Done(svc[a]) => svc'[a] = svc[a]]_allVars

\* The service does not learn that an action was NEVER_ATTEMPTED before it
\* knows the outcome of all actions before it (worker_api_protocol.md:137), but
\* for the ENV_EXITs, which cancel_all leaves in the queue to be run.
OutcomesInOrder ==
  \A a, b \in Actions :
    SessionOf[a] = SessionOf[b] /\ Pos[b] < Pos[a] /\ Kind[b] # "ENV_EXIT"
      /\ b \in svcAssigned /\ svc[a] = "NEVER_ATTEMPTED" => Done(svc[b])

\* Whatever fails on the way, every action the service assigns gets an
\* outcome, and the service learns it: no report waits for ever in the map,
\* and no action is left to a thread that is gone.
AssignedActionsComplete ==
  \A a \in Actions : a \in svcAssigned ~> Done(svc[a])

\* A Session the service has closed is removed, its thread having ended.
ClosedSessionsEnd ==
  \A s \in Sessions : s \in svcClosed ~> s \notin registered

\* The loop does not go to sleep on a Session that is over.  When its thread
\* has ended, or could not be started, the service has been told all that was
\* reported of it, or a wakeup is due: run_session sets it last of all
\* (scheduler.py, 1166), whether the Session is registered by then or not, and
\* the loop clears it before it collects the updates (296).
SleepMissesNoEnd ==
  at = "wait" /\ ~ wakeup =>
    \A s \in Sessions : pc[s] \in {"new", "exiting", "done"} =>
      \A a \in Own(s) : updates[a].status = "none"

\* A shutdown drains the scheduler, whatever the loop was doing.  It is never
\* slept through, even if the update interval never ends: shutdown() sets the
\* event before the wakeup (scheduler.py, 1527-1530), and the loop looks at the
\* event after it has cleared the wakeup.
ShutdownDrains == shutdown ~> at = "exited"
=============================================================================
