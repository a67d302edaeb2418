------------------------------- MODULE Session -------------------------------
(***************************************************************************)
(* A worker Session (sessions/session.py), its SessionActionQueue          *)
(* (scheduler/session_queue.py) and the Open Job Description (openjd)      *)
(* session it drives.  Three kinds of thread meet here:                    *)
(*   - the Session thread: Session.run, its loop and its clean-up;         *)
(*   - the openjd threads, which run a process and call update_action;     *)
(*   - the scheduler thread, which replaces the queue, cancels and stops.  *)
(* Each block of code that holds the action-update lock and the            *)
(* current-action lock is one action; code outside the locks is split      *)
(* where another thread can get in between.                                *)
(*                                                                         *)
(* Here the scheduler and the service are reduced to a contract: at any    *)
(* moment the scheduler may hand a Session every assigned action that has  *)
(* not been reported as completed.  WorkerScheduler replaces the contract  *)
(* by the real sync loop and is checked to implement this specification.   *)
(***************************************************************************)
EXTENDS Naturals, Sequences

CONSTANTS
  Sessions,   \* session ids
  Actions,    \* session action ids
  Envs,       \* environment ids
  SessionOf,  \* the Session an action belongs to
  Kind,       \* the actionType of an action
  EnvOf,      \* the environmentId of an ENV_ENTER or ENV_EXIT
  Pos,        \* the place of an action in the pipeline the service sends
  Faults,     \* the faults that may happen: see the assumption below
  Stops,      \* the <<result, grace time>> stop() may be called with
  None

Kinds == {"ENV_ENTER", "ENV_EXIT", "TASK_RUN", "SYNC_INPUT", "SYNC_DEPS"}

ASSUME ConstantsAssumption ==
  /\ SessionOf \in [Actions -> Sessions]
  /\ Kind \in [Actions -> Kinds]
  /\ EnvOf \in [Actions -> Envs]
  /\ Pos \in [Actions -> Nat]
  /\ Faults \subseteq {"entity", "start", "create", "creds"}
  /\ Stops \subseteq {"INTERRUPTED", "FAILED"} \X {"none", "left", "spent"}
  /\ None \notin Actions

CompletedStatuses ==
  {"SUCCEEDED", "FAILED", "INTERRUPTED", "CANCELED", "NEVER_ATTEMPTED"}
Statuses == {"none", "RUNNING"} \union CompletedStatuses
EndStates == {"SUCCESS", "FAILED", "CANCELED", "TIMEOUT"}

\* Mutant: the openjd state is passed on as it is.
UnmappedState(state) == state

\* OPENJD_ACTION_STATE_TO_DEADLINE_COMPLETED_STATUS, and RUNNING for itself
ReportedAs(state) ==
  CASE state = "SUCCESS"  -> "SUCCEEDED"
    [] state = "CANCELED" -> "CANCELED"
    [] state = "RUNNING"  -> "RUNNING"
    [] OTHER              -> "FAILED"

VARIABLES
  \* the scheduler's side, written through callbacks
  updates,     \* WorkerScheduler._action_updates_map
  wakeup,      \* WorkerScheduler._wakeup
  registered,  \* the keys of WorkerScheduler._sessions
  \* the action queue
  queue,       \* the entries of _actions that came from the service
  upload,      \* the SYNC_OUTPUT entry insert_front put first, or None
  byId,        \* the keys of _actions_by_id
  \* what the Session runs
  current,     \* _current_action
  target,      \* _output_sync_target_action
  attached,    \* _job_attachment_details and _asset_sync are both there
  envs,        \* _active_envs
  fetched,     \* environments whose details the job entities cache holds
  \* the openjd session
  proc,        \* the state of its last action
  pendingCb,   \* a final state whose callback has not taken the locks yet
  cancelSent,  \* the process was told to cancel (_current_action_cancel_sent)
  \* stopping
  stop,        \* _stop
  stopResult,  \* _stop_current_action_result
  grace,       \* what is left of _stop_grace_time
  interrupted, \* _interrupted
  stopped,     \* _stopped_running
  pc,          \* where the Session thread is
  cancelDue,   \* the clean-up list starts with "cancel running action"
  victims,     \* the action_ids cancel_all has still to look at
  popped,      \* the one it has taken out of _actions_by_id
  exits,       \* the environments the clean-up has still to exit
  \* history: what the service could know
  assigned,    \* the actions the service has assigned so far
  reported,    \* the last status reported for each action
  ran,         \* the actions whose own work was started
  refused      \* the actions that failed because their details are missing

schedVars  == <<updates, wakeup, registered>>
queueVars  == <<queue, upload, byId>>
runVars    == <<current, target, attached, envs, fetched>>
openjdVars == <<proc, pendingCb, cancelSent>>
stopVars   == <<stop, stopResult, grace>>
cleanVars  == <<cancelDue, victims, popped, exits>>
history    == <<assigned, reported, ran, refused>>
vars == <<schedVars, queueVars, runVars, openjdVars, stopVars, cleanVars,
          history, interrupted, stopped, pc>>

(***************************************************************************)
(* The queue.                                                              *)
(***************************************************************************)
OptionalSet(a) == IF a = None THEN {} ELSE {a}

Queued(s) == queue[s] \union OptionalSet(upload[s])

\* _actions[0]
First(A) == CHOOSE a \in A : \A b \in A : Pos[a] =< Pos[b]
Front(s) == IF upload[s] # None THEN upload[s] ELSE First(queue[s])

\* the ids cancel_all(ignore_env_exits=True) goes through
Cancelable(s) ==
  {a \in queue[s] : Kind[a] # "ENV_EXIT"} \union OptionalSet(upload[s])

\* cancel_all when nothing can interleave with it
CancelAll(s) ==
  /\ queue'  = [queue  EXCEPT ![s] = @ \ Cancelable(s)]
  /\ upload' = [upload EXCEPT ![s] = None]
  /\ byId'   = [byId   EXCEPT ![s] = @ \ Cancelable(s)]

\* Mutant: the running action is not taken off the list.
ReplaceUnfiltered(s, A) ==
  /\ queue'  = [queue  EXCEPT ![s] = A \ OptionalSet(upload[s])]
  /\ upload' = [upload EXCEPT ![s] = IF @ \in A THEN @ ELSE None]
  /\ byId'   = [byId   EXCEPT ![s] = @ \union A]

\* SessionActionQueue.replace with the list A, less the running action
ReplaceQueue(s, A) ==
  LET new == A \ OptionalSet(current[s]) IN
  /\ queue'  = [queue  EXCEPT ![s] = new \ OptionalSet(upload[s])]
  /\ upload' = [upload EXCEPT ![s] = IF @ \in new THEN @ ELSE None]
  /\ byId'   = [byId   EXCEPT ![s] = @ \union new]

(***************************************************************************)
(* Reporting: WorkerScheduler._handle_session_action_update, called once   *)
(* per reported action.  st[a] is the status reported for a, "none" for no *)
(* report.  A map entry is "sent" when the request in flight carries it;   *)
(* its identity is its completed status, or else its update time, so only  *)
(* the same completed status again leaves it sent.                         *)
(***************************************************************************)
Idle(s) == current[s] = None /\ Queued(s) = {}

Recorded(old, st) ==
  [status |-> st,
   sent   |-> old.sent /\ old.status = st /\ st \in CompletedStatuses]

Report(s, st, idle) ==
  /\ updates'  = [a \in Actions |-> IF st[a] = "none" THEN updates[a]
                                    ELSE Recorded(updates[a], st[a])]
  /\ reported' = [a \in Actions |-> IF st[a] = "none" THEN reported[a]
                                    ELSE st[a]]
  /\ wakeup'   = \/ wakeup
                 \/ /\ \E a \in Actions : st[a] # "none"
                    /\ \/ idle /\ s \in registered
                       \/ \E o \in registered \ {s} : Idle(o)
  /\ UNCHANGED <<registered, assigned>>

\* action a gets status st, every action of `never` NEVER_ATTEMPTED
One(a, st) == [b \in Actions |-> IF b = a THEN st ELSE "none"]
\* Mutant: a is cancelled with the others, but its own status is not reported.
OnlyTheOthers(a, st, never) ==
  [b \in Actions |-> IF b \in never THEN "NEVER_ATTEMPTED" ELSE "none"]

Both(a, st, never) ==
  [b \in Actions |-> IF b \in never THEN "NEVER_ATTEMPTED"
                     ELSE IF b = a THEN st ELSE "none"]

(***************************************************************************)
(* The Session thread: Session.run and Session._run.                       *)
(***************************************************************************)
Goto(s, from, to) == pc[s] = from /\ pc' = [pc EXCEPT ![s] = to]

\* _warm_job_entities_cache is over and _stopped_running is cleared
Run(s) ==
  /\ Goto(s, "starting", "check")
  /\ stopped' = [stopped EXCEPT ![s] = FALSE]
  /\ UNCHANGED <<schedVars, queueVars, runVars, openjdVars, stopVars,
                 cleanVars, history, interrupted>>

\* while not self._stop.wait(timeout=0.1)
CheckStop(s) ==
  /\ Goto(s, "check", IF stop[s] THEN "interrupt" ELSE "start")
  /\ UNCHANGED <<schedVars, queueVars, runVars, openjdVars, stopVars,
                 cleanVars, history, interrupted, stopped>>

\* nothing to start: an action is running, or the queue is empty
NothingToStart(s) ==
  /\ Goto(s, "start", "check")
  /\ ~ (current[s] = None /\ Queued(s) # {})
  /\ UNCHANGED <<schedVars, queueVars, runVars, openjdVars, stopVars,
                 cleanVars, history, interrupted, stopped>>

ReadyToStart(s) == pc[s] = "start" /\ current[s] = None /\ Queued(s) # {}

\* dequeue() needs details from the job entities that it cannot have
DetailsMissing(s) ==
  /\ "entity" \in Faults
  /\ upload[s] = None
  /\ Kind[Front(s)] \in {"ENV_ENTER", "ENV_EXIT"} =>
       EnvOf[Front(s)] \notin fetched[s]

\* dequeue() raises a SessionActionError before it removes the entry.  The
\* failure is reported; the log event that follows reads e.step_id, which
\* SessionActionError.__init__ never sets: run() fails with the entry queued
DequeueFails(s) ==
  /\ ReadyToStart(s)
  /\ DetailsMissing(s)
  /\ Report(s, One(Front(s), "FAILED"), FALSE)
  /\ refused' = refused \union {Front(s)}
  /\ stop' = [stop EXCEPT ![s] = TRUE]
  /\ pc'   = [pc EXCEPT ![s] = "interrupt"]
  /\ UNCHANGED <<queueVars, runVars, openjdVars, stopResult, grace, cleanVars,
                 ran, interrupted, stopped>>

\* for the SYNC_INPUT kinds dequeue() turns a ValueError into an error of the
\* action, but not the RuntimeError of JobEntities.request: run() fails
DequeueRaises(s) ==
  /\ ReadyToStart(s)
  /\ DetailsMissing(s)
  /\ Kind[Front(s)] \in {"SYNC_INPUT", "SYNC_DEPS"}
  /\ stop' = [stop EXCEPT ![s] = TRUE]
  /\ pc'   = [pc EXCEPT ![s] = "interrupt"]
  /\ UNCHANGED <<schedVars, queueVars, runVars, openjdVars, stopResult,
                 grace, cleanVars, history, interrupted, stopped>>

Dequeue(s) ==
  /\ queue'  = [queue  EXCEPT ![s] = @ \ {Front(s)}]
  /\ upload' = [upload EXCEPT ![s] = None]
  /\ byId'   = [byId   EXCEPT ![s] = @ \ {Front(s)}]

\* the details that dequeue() has read are in the cache from then on
Fetch(s) ==
  fetched' = IF upload[s] = None /\ Kind[Front(s)] \in {"ENV_ENTER", "ENV_EXIT"}
             THEN [fetched EXCEPT ![s] = @ \union {EnvOf[Front(s)]}]
             ELSE fetched

Innermost(s) == envs[s][Len(envs[s])]

\* start() of the front action does not raise of its own accord
CanStart(s) ==
  \/ upload[s] # None
  \/ Kind[Front(s)] \in {"ENV_ENTER", "TASK_RUN", "SYNC_INPUT"}
  \/ Kind[Front(s)] = "SYNC_DEPS" /\ attached[s]
  \/ /\ Kind[Front(s)] = "ENV_EXIT"
     /\ envs[s] # <<>> /\ Innermost(s) = EnvOf[Front(s)]

FrontKind(s) == IF upload[s] # None THEN "SYNC_OUTPUT" ELSE Kind[Front(s)]

\* enter_environment and exit_environment
EnvsAfter(s) ==
  IF FrontKind(s) = "ENV_ENTER" THEN Append(envs[s], EnvOf[Front(s)])
  ELSE IF FrontKind(s) = "ENV_EXIT" THEN SubSeq(envs[s], 1, Len(envs[s]) - 1)
  ELSE envs[s]

\* AttachmentDownloadAction.start: the job's, unlike a step's, bring the details
\* with them
AttachedAfter(s) == attached[s] \/ FrontKind(s) = "SYNC_INPUT"

\* AttachmentUploadAction.start runs under the id of the task, but is not its work
WorkAfter(s) == IF upload[s] = None THEN ran \union {Front(s)} ELSE ran

\* the effect of start() on the Session, for the front action
StartEffect(s) ==
  /\ envs'     = [envs EXCEPT ![s] = EnvsAfter(s)]
  /\ attached' = [attached EXCEPT ![s] = AttachedAfter(s)]
  /\ ran'      = WorkAfter(s)

\* _start_action: the openjd action is under way
StartAction(s) ==
  /\ ReadyToStart(s)
  /\ CanStart(s)
  /\ Dequeue(s)
  /\ Fetch(s)
  /\ StartEffect(s)
  /\ current'    = [current EXCEPT ![s] = Front(s)]
  /\ proc'       = [proc EXCEPT ![s] = "RUNNING"]
  /\ cancelSent' = [cancelSent EXCEPT ![s] = FALSE]
  /\ pc'         = [pc EXCEPT ![s] = "check"]
  /\ UNCHANGED <<schedVars, target, pendingCb, stopVars, cleanVars, assigned,
                 reported, refused, interrupted, stopped>>

\* start() raised: the action (or the task whose output it uploads) FAILED.
\* _current_action is reset only after the reports.
StartFails(s) ==
  /\ ReadyToStart(s)
  /\ ~ CanStart(s) \/ "start" \in Faults
  /\ LET left   == Cancelable(s) \ {Front(s)}
         failed == IF target[s] # None THEN target[s] ELSE Front(s)
     IN /\ queue'  = [queue  EXCEPT ![s] = @ \ (left \union {Front(s)})]
        /\ upload' = [upload EXCEPT ![s] = None]
        /\ byId'   = [byId   EXCEPT ![s] = @ \ (left \union {Front(s)})]
        /\ Report(s, Both(failed, "FAILED", left), FALSE)
  /\ Fetch(s)
  /\ target'   = [target EXCEPT ![s] = None]
  /\ \E b \in BOOLEAN : /\ b => upload[s] = None /\ Kind[Front(s)] = "SYNC_INPUT"
                        /\ attached' = [attached EXCEPT ![s] = @ \/ b]
  /\ pc' = [pc EXCEPT ![s] = "check"]
  /\ UNCHANGED <<current, envs, openjdVars, stopVars, cleanVars, ran,
                 refused, interrupted, stopped>>

(***************************************************************************)
(* The openjd session and its callback, Session.update_action.             *)
(***************************************************************************)
\* Mutant: any update ends the action.
AnyUpdateEnds(s, state, a) ==
  LET never == IF state \in EndStates \ {"SUCCESS"} THEN Cancelable(s) ELSE {}
  IN /\ IF never = {} THEN UNCHANGED queueVars ELSE CancelAll(s)
     /\ current' = [current EXCEPT ![s] = None]
     /\ Report(s, Both(a, ReportedAs(state), never), Queued(s) \ never = {})

\* _handle_action_update: action a reached openjd state `state`.  The reset
\* of _current_action comes before the report, so the Session may be idle.
HandleUpdate(s, state, a) ==
  LET over  == state # "RUNNING"
      never == IF state \in EndStates \ {"SUCCESS"} THEN Cancelable(s) ELSE {}
  IN /\ IF never = {} THEN UNCHANGED queueVars ELSE CancelAll(s)
     /\ current' = IF over THEN [current EXCEPT ![s] = None] ELSE current
     /\ Report(s, Both(a, ReportedAs(state), never),
               over /\ Queued(s) \ never = {})

\* Mutant: the task of the upload is not remembered.
UploadWithoutTarget(s) ==
  /\ upload'  = [upload EXCEPT ![s] = current[s]]
  /\ byId'    = [byId EXCEPT ![s] = @ \union {current[s]}]
  /\ current' = [current EXCEPT ![s] = None]
  /\ UNCHANGED target

\* the task succeeded and its output has to be uploaded: insert_front
QueueUpload(s) ==
  /\ upload'  = [upload EXCEPT ![s] = current[s]]
  /\ byId'    = [byId EXCEPT ![s] = @ \union {current[s]}]
  /\ target'  = [target EXCEPT ![s] = current[s]]
  /\ current' = [current EXCEPT ![s] = None]

\* _action_updated_impl
Updated(s, state) ==
  \/ \* the interruption has been reported already
     /\ interrupted[s]
     /\ IF state = "RUNNING"
        THEN UNCHANGED <<current, interrupted>>
        ELSE /\ current' = [current EXCEPT ![s] = None]
             /\ interrupted' = [interrupted EXCEPT ![s] = FALSE]
     /\ UNCHANGED <<schedVars, queueVars, target, assigned, reported>>
  \/ /\ ~ interrupted[s]
     /\ current[s] = None
     /\ UNCHANGED <<schedVars, queueVars, current, target, assigned, reported,
                    interrupted>>
  \/ \* an upload runs on behalf of its task; its progress is not reported
     /\ ~ interrupted[s]
     /\ current[s] # None /\ target[s] # None
     /\ IF state = "RUNNING"
        THEN UNCHANGED <<schedVars, queueVars, current, target, assigned,
                         reported>>
        ELSE /\ HandleUpdate(s, state, target[s])
             /\ target' = [target EXCEPT ![s] = None]
     /\ UNCHANGED interrupted
  \/ /\ ~ interrupted[s]
     /\ current[s] # None /\ target[s] = None
     /\ IF state = "SUCCESS" /\ Kind[current[s]] = "TASK_RUN" /\ attached[s]
        THEN /\ QueueUpload(s)
             /\ UNCHANGED <<schedVars, queue, assigned, reported>>
        ELSE /\ HandleUpdate(s, state, current[s])
             /\ UNCHANGED target
     /\ UNCHANGED interrupted

callbackFrame == <<attached, envs, fetched, stopVars, cleanVars, ran, refused,
                   stopped, pc>>

\* a progress or status message of the running process
Progress(s) ==
  /\ proc[s] = "RUNNING"
  /\ Updated(s, "RUNNING")
  /\ UNCHANGED <<openjdVars, callbackFrame>>

\* The process is over: its state can be seen from now on, the callback with
\* it has still to get the locks.  Only a cancelled action ends CANCELED.
ProcessEnds(s, state) ==
  /\ proc[s] = "RUNNING" /\ pendingCb[s] = "none"
  /\ state = "CANCELED" => cancelSent[s]
  /\ proc' = [proc EXCEPT ![s] = state]
  /\ pendingCb' = [pendingCb EXCEPT ![s] = state]
  /\ UNCHANGED <<schedVars, queueVars, runVars, cancelSent, stopVars,
                 cleanVars, history, interrupted, stopped, pc>>

Callback(s) ==
  /\ pendingCb[s] # "none"
  /\ Updated(s, pendingCb[s])
  /\ pendingCb' = [pendingCb EXCEPT ![s] = "none"]
  /\ UNCHANGED <<proc, cancelSent, callbackFrame>>

(***************************************************************************)
(* Session._cleanup, run by the Session thread once it has left its loop.  *)
(***************************************************************************)
\* Mutant: the interruption is reported but not remembered.
ForgetInterruption(s) ==
  /\ Goto(s, "interrupt", "snapshot")
  /\ cancelDue' = [cancelDue EXCEPT ![s] = current[s] # None]
  /\ IF current[s] = None
     THEN UNCHANGED <<schedVars, assigned, reported>>
     ELSE Report(s, One(current[s], stopResult[s]), FALSE)
  /\ UNCHANGED <<queueVars, runVars, openjdVars, stopVars, victims, popped,
                 exits, ran, refused, interrupted, stopped>>

\* under both locks: the running action is reported without waiting for it
Interrupt(s) ==
  /\ Goto(s, "interrupt", "snapshot")
  /\ cancelDue' = [cancelDue EXCEPT ![s] = current[s] # None]
  /\ IF current[s] = None
     THEN UNCHANGED <<schedVars, assigned, reported, interrupted>>
     ELSE /\ Report(s, One(current[s], stopResult[s]), FALSE)
          /\ interrupted' = [interrupted EXCEPT ![s] = TRUE]
  /\ UNCHANGED <<queueVars, runVars, openjdVars, stopVars, victims, popped,
                 exits, ran, refused, stopped>>

\* cancel_all, without the locks: the list of ids ...
SnapshotQueue(s) ==
  /\ Goto(s, "snapshot", "cancelAll")
  /\ victims' = [victims EXCEPT ![s] = Cancelable(s)]
  /\ UNCHANGED <<schedVars, queueVars, runVars, openjdVars, stopVars,
                 cancelDue, popped, exits, history, interrupted, stopped>>

\* ... then for each of them, in the order of the queue: pop it from
\* _actions_by_id if it is there ...
PopAction(s, a) ==
  /\ pc[s] = "cancelAll" /\ a \in victims[s]
  /\ \A b \in victims[s] : Pos[a] =< Pos[b]
  /\ victims' = [victims EXCEPT ![s] = @ \ {a}]
  /\ IF a \in byId[s]
     THEN /\ popped' = [popped EXCEPT ![s] = a]
          /\ pc' = [pc EXCEPT ![s] = "remove"]
     ELSE UNCHANGED <<popped, pc>>
  /\ byId' = [byId EXCEPT ![s] = @ \ {a}]
  /\ UNCHANGED <<schedVars, queue, upload, runVars, openjdVars, stopVars,
                 cancelDue, exits, history, interrupted, stopped>>

\* ... remove the entry from _actions: list.remove raises a ValueError when
\* replace() has built the list anew, with a new entry for a or without a ...
RemoveAction(s) ==
  LET a == popped[s]
      found == a \in Queued(s) /\ a \notin byId[s]
  IN /\ Goto(s, "remove", IF found THEN "tell" ELSE "closing")
     /\ queue'  = [queue EXCEPT ![s] = IF found THEN @ \ {a} ELSE @]
     /\ upload' = [upload EXCEPT ![s] = IF found /\ @ = a THEN None ELSE @]
     /\ UNCHANGED <<schedVars, byId, runVars, openjdVars, stopVars, cleanVars,
                    history, interrupted, stopped>>

\* ... and report it
TellNeverAttempted(s) ==
  /\ Goto(s, "tell", "cancelAll")
  /\ Report(s, One(popped[s], "NEVER_ATTEMPTED"), Idle(s))
  /\ popped' = [popped EXCEPT ![s] = None]
  /\ UNCHANGED <<queueVars, runVars, openjdVars, stopVars, cancelDue, victims,
                 exits, ran, refused, interrupted, stopped>>

\* the clean-up list is complete: cancel, then exit the environments
PlanExits(s) ==
  /\ Goto(s, "cancelAll", "steps")
  /\ victims[s] = {}
  /\ exits' = [exits EXCEPT ![s] = envs[s]]
  /\ UNCHANGED <<schedVars, queueVars, runVars, openjdVars, stopVars,
                 cancelDue, victims, popped, history, interrupted, stopped>>

\* "cancel running action"; when it cannot be cancelled any more the
\* exception is logged and the next step taken
CancelRunning(s) ==
  LET raises == current[s] = None \/ (~ cancelSent[s] /\ proc[s] # "RUNNING")
  IN /\ cancelDue[s]
     /\ Goto(s, "steps", IF raises THEN "steps" ELSE "wait")
     /\ cancelDue'  = [cancelDue EXCEPT ![s] = FALSE]
     /\ cancelSent' = [cancelSent EXCEPT ![s] = @ \/ current[s] # None]
     /\ UNCHANGED <<schedVars, queueVars, runVars, proc, pendingCb, stopVars,
                    victims, popped, exits, history, interrupted, stopped>>

\* "exit environment", innermost first
ExitEnvironment(s) ==
  /\ ~ cancelDue[s] /\ exits[s] # <<>>
  /\ exits' = [exits EXCEPT ![s] = SubSeq(@, 1, Len(@) - 1)]
  /\ \/ /\ Goto(s, "steps", "wait")
        /\ proc[s] # "RUNNING"
        /\ proc' = [proc EXCEPT ![s] = "RUNNING"]
     \/ /\ Goto(s, "steps", "steps")
        /\ proc[s] = "RUNNING" \/ "start" \in Faults
        /\ UNCHANGED proc
  /\ UNCHANGED <<schedVars, queueVars, runVars, pendingCb, cancelSent,
                 stopVars, cancelDue, victims, popped, history, interrupted,
                 stopped>>

\* _monitor_action: the step is over; the grace time may have run out by now
StepOver(s) ==
  /\ Goto(s, "wait", "steps")
  /\ proc[s] # "RUNNING"
  /\ \E g \in {grace[s]} \union (IF grace[s] = "left" THEN {"spent"} ELSE {}) :
       grace' = [grace EXCEPT ![s] = g]
  /\ UNCHANGED <<schedVars, queueVars, runVars, openjdVars, stop, stopResult,
                 cleanVars, history, interrupted, stopped>>

\* TimeoutError: give up the other steps.  A time limit of zero is no limit.
StepTimesOut(s) ==
  /\ Goto(s, "wait", "closing")
  /\ proc[s] = "RUNNING"
  /\ grace[s] = "left"
  /\ grace' = [grace EXCEPT ![s] = "spent"]
  /\ cancelSent' = [cancelSent EXCEPT ![s] = TRUE]
  /\ UNCHANGED <<schedVars, queueVars, runVars, proc, pendingCb, stop,
                 stopResult, cleanVars, history, interrupted, stopped>>

\* no step is left
StepsDone(s) ==
  /\ Goto(s, "steps", "closing")
  /\ ~ cancelDue[s] /\ exits[s] = <<>>
  /\ UNCHANGED <<schedVars, queueVars, runVars, openjdVars, stopVars,
                 cleanVars, history, interrupted, stopped>>

\* Mutant: _stopped_running is not set.
CloseSilently(s) ==
  /\ Goto(s, "closing", "closed")
  /\ UNCHANGED <<schedVars, queueVars, runVars, openjdVars, stopVars,
                 cleanVars, history, interrupted, stopped>>

\* the openjd session is cleaned up and _stopped_running is set
Close(s) ==
  /\ Goto(s, "closing", "closed")
  /\ stopped' = [stopped EXCEPT ![s] = TRUE]
  /\ UNCHANGED <<schedVars, queueVars, runVars, openjdVars, stopVars,
                 cleanVars, history, interrupted>>

\* Mutant: the loop is left to the wakeups of the last report.
EndSilently(s) ==
  /\ Goto(s, "closed", "exiting")
  /\ UNCHANGED <<schedVars, queueVars, runVars, openjdVars, stopVars,
                 cleanVars, history, interrupted, stopped>>

\* run_session: wake the scheduler up ...
WakeScheduler(s) ==
  /\ Goto(s, "closed", "exiting")
  /\ wakeup' = TRUE
  /\ UNCHANGED <<updates, registered, queueVars, runVars, openjdVars,
                 stopVars, cleanVars, history, interrupted, stopped>>

\* ... Session.__exit__ calls stop(), and the future is done
Finish(s) ==
  /\ Goto(s, "exiting", "done")
  /\ stop'       = [stop EXCEPT ![s] = TRUE]
  /\ stopResult' = [stopResult EXCEPT ![s] = "FAILED"]
  /\ grace'      = [grace EXCEPT ![s] = "none"]
  /\ UNCHANGED <<schedVars, queueVars, runVars, openjdVars, cleanVars,
                 history, interrupted, stopped>>

SessionThread(s) ==
  \/ Run(s) \/ CheckStop(s) \/ NothingToStart(s) \/ DequeueFails(s)
  \/ DequeueRaises(s) \/ StartAction(s) \/ StartFails(s)
  \/ Interrupt(s) \/ SnapshotQueue(s) \/ (\E a \in Actions : PopAction(s, a))
  \/ RemoveAction(s) \/ TellNeverAttempted(s) \/ PlanExits(s)
  \/ CancelRunning(s) \/ ExitEnvironment(s) \/ StepOver(s) \/ StepTimesOut(s)
  \/ StepsDone(s) \/ Close(s) \/ WakeScheduler(s) \/ Finish(s)

ProcessesEnd(s) == \E state \in EndStates : ProcessEnds(s, state)

OpenjdThread(s) ==
  \/ Progress(s)
  \/ ProcessesEnd(s)
  \/ Callback(s)

(***************************************************************************)
(* What the scheduler thread does to a Session, as a contract: the list it *)
(* hands over holds every action assigned so far whose completion has not  *)
(* been reported.                                                          *)
(***************************************************************************)
Own(s) == {a \in Actions : SessionOf[a] = s}

Unfinished(s) == {a \in assigned' \intersect Own(s) :
                    reported[a] \notin CompletedStatuses}

Assign(s, new) == /\ new \subseteq Own(s)
                  /\ assigned' = assigned \union new

threadFrame == <<runVars, openjdVars, cleanVars, ran, refused, interrupted,
                 stopped>>

\* _create_new_sessions: the queue is filled and the thread submitted ...
SubmitSession(s, new) ==
  /\ Goto(s, "new", "starting")
  /\ Assign(s, new)
  /\ ReplaceQueue(s, Unfinished(s))
  /\ UNCHANGED <<schedVars, stopVars, reported, threadFrame>>

\* ... and only then does the Session get its place in _sessions
RegisterSession(s) ==
  /\ pc[s] # "new"
  /\ registered' = registered \union {s}
  /\ UNCHANGED <<updates, wakeup, queueVars, stopVars, history, runVars,
                 openjdVars, cleanVars, interrupted, stopped, pc>>

\* Session.cancel_actions cancels only the running action.  When its process
\* is over already, the CancelationError goes to the caller.
CancelRaises(s) == ~ cancelSent[s] /\ proc[s] # "RUNNING"

CancelRaised(s) ==
  /\ s \in registered
  /\ current[s] # None /\ CancelRaises(s)
  /\ cancelSent' = [cancelSent EXCEPT ![s] = TRUE]
  /\ UNCHANGED <<schedVars, queueVars, runVars, proc, pendingCb, stopVars,
                 cleanVars, history, interrupted, stopped, pc>>

\* Session.cancel_actions (when hit), then Session.replace_assigned_actions
ReplaceActions(s, new, hit) ==
  /\ s \in registered
  /\ hit => current[s] # None /\ ~ CancelRaises(s)
  /\ cancelSent' = [cancelSent EXCEPT ![s] = @ \/ hit]
  /\ Assign(s, new)
  /\ ReplaceQueue(s, Unfinished(s))
  /\ UNCHANGED <<schedVars, stopVars, reported, runVars, proc, pendingCb,
                 cleanVars, ran, refused, interrupted, stopped, pc>>

\* Session.stop; a grace time of "spent" stands for timedelta(0)
StopSession(s, result, g) ==
  /\ s \in registered
  /\ stop'       = [stop EXCEPT ![s] = TRUE]
  /\ stopResult' = [stopResult EXCEPT ![s] = result]
  /\ grace'      = [grace EXCEPT ![s] = g]
  /\ UNCHANGED <<schedVars, queueVars, runVars, openjdVars, cleanVars,
                 history, interrupted, stopped, pc>>

\* The scheduler writes st[a] for the actions of A into the map itself
Record(A, st) ==
  /\ updates'  = [a \in Actions |-> IF a \in A THEN Recorded(updates[a], st[a])
                                    ELSE updates[a]]
  /\ reported' = [a \in Actions |-> IF a \in A THEN st[a] ELSE reported[a]]
  /\ wakeup'   = TRUE

\* _fail_all_actions: the Session could not be created
FailSession(s, new) ==
  /\ "create" \in Faults
  /\ pc[s] = "new"
  /\ Assign(s, new)
  /\ LET given == Unfinished(s) IN
     Record(given, [a \in Actions |-> IF a = First(given) THEN "FAILED"
                                      ELSE "NEVER_ATTEMPTED"])
  /\ UNCHANGED <<registered, queueVars, stopVars, threadFrame, pc>>

\* _return_sessionactions_from_stopped_session: what has no update in the map
\* is answered for the thread that is gone.  `noted` are actions of the list
\* that are in the map already.
ReturnActions(s, new, noted) ==
  /\ s \in registered /\ pc[s] = "done"
  /\ Assign(s, new)
  /\ LET given == Unfinished(s) \union noted IN
     Record({a \in given : updates[a].status = "none"},
            [a \in Actions |-> IF a = First(given) \/ Kind[a] = "ENV_EXIT"
                               THEN "FAILED" ELSE "NEVER_ATTEMPTED"])
  /\ UNCHANGED <<registered, queueVars, stopVars, threadFrame, pc>>

syncFrame == <<queueVars, stopVars, history, threadFrame, pc>>
NoUpdate == [status |-> "none", sent |-> FALSE]

\* shutdown(): self._wakeup.set()
WakeLoop ==
  /\ wakeup' = TRUE
  /\ UNCHANGED <<updates, registered, syncFrame>>

\* self._wakeup.clear()
ClearWakeup ==
  /\ wakeup' = FALSE
  /\ UNCHANGED <<updates, registered, syncFrame>>

\* _updated_session_actions: the transaction takes everything in the map
SnapshotUpdates ==
  /\ updates' = [a \in Actions |->
                   [updates[a] EXCEPT !.sent = updates[a].status # "none"]]
  /\ UNCHANGED <<wakeup, registered, syncFrame>>

\* Mutant: commit() empties the map.
CommitEverything ==
  /\ updates' = [a \in Actions |-> NoUpdate]
  /\ UNCHANGED <<wakeup, registered, syncFrame>>

\* commit(): delete what the transaction carried and nothing newer
CommitUpdates ==
  /\ updates' = [a \in Actions |-> IF updates[a].sent THEN NoUpdate
                                   ELSE updates[a]]
  /\ UNCHANGED <<wakeup, registered, syncFrame>>

\* _remove_finished_sessions, once stop() was called and wait() returned
RemoveSession(s) ==
  /\ s \in registered
  /\ stop[s] /\ stopped[s]
  /\ registered' = registered \ {s}
  /\ UNCHANGED <<updates, wakeup, syncFrame>>

Noted(s) == {a \in Own(s) : updates[a].status # "none"}

SchedulerThread(s) ==
  \/ \E new \in SUBSET Own(s) :
       \/ SubmitSession(s, new)
       \/ FailSession(s, new)
       \/ \E hit \in BOOLEAN : ReplaceActions(s, new, hit)
       \/ \E noted \in SUBSET Noted(s) : ReturnActions(s, new, noted)
  \/ RegisterSession(s)
  \/ CancelRaised(s)
  \/ \E how \in Stops : StopSession(s, how[1], how[2])
  \/ WakeLoop \/ ClearWakeup \/ SnapshotUpdates \/ CommitUpdates
  \/ RemoveSession(s)

Init ==
  /\ updates = [a \in Actions |-> NoUpdate]
  /\ wakeup = FALSE
  /\ registered = {}
  /\ queue = [s \in Sessions |-> {}]
  /\ upload = [s \in Sessions |-> None]
  /\ byId = [s \in Sessions |-> {}]
  /\ current = [s \in Sessions |-> None]
  /\ target = [s \in Sessions |-> None]
  /\ attached = [s \in Sessions |-> FALSE]
  /\ envs = [s \in Sessions |-> <<>>]
  /\ fetched = [s \in Sessions |-> {}]
  /\ proc = [s \in Sessions |-> "none"]
  /\ pendingCb = [s \in Sessions |-> "none"]
  /\ cancelSent = [s \in Sessions |-> FALSE]
  /\ stop = [s \in Sessions |-> FALSE]
  /\ stopResult = [s \in Sessions |-> "FAILED"]
  /\ grace = [s \in Sessions |-> "none"]
  /\ interrupted = [s \in Sessions |-> FALSE]
  /\ stopped = [s \in Sessions |-> TRUE]
  /\ pc = [s \in Sessions |-> "new"]
  /\ cancelDue = [s \in Sessions |-> FALSE]
  /\ victims = [s \in Sessions |-> {}]
  /\ popped = [s \in Sessions |-> None]
  /\ exits = [s \in Sessions |-> <<>>]
  /\ assigned = {}
  /\ reported = [a \in Actions |-> "none"]
  /\ ran = {}
  /\ refused = {}

Next == \E s \in Sessions :
          SessionThread(s) \/ OpenjdThread(s) \/ SchedulerThread(s)

Spec == Init /\ [][Next]_vars

(***************************************************************************)
(* Properties.                                                             *)
(***************************************************************************)
PcStates ==
  {"new", "starting", "check", "start", "interrupt", "snapshot", "cancelAll",
   "remove", "tell", "steps", "wait", "closing", "closed", "exiting", "done"}

\* The Session thread is in, or on its way into, its main loop.
Looping(s) == pc[s] \in {"new", "starting", "check", "start"}

\* Every variable keeps its type.
TypeOK ==
  /\ updates \in [Actions -> [status : Statuses, sent : BOOLEAN]]
  /\ wakeup \in BOOLEAN
  /\ registered \in SUBSET Sessions
  /\ queue \in [Sessions -> SUBSET Actions]
  /\ upload \in [Sessions -> Actions \union {None}]
  /\ byId \in [Sessions -> SUBSET Actions]
  /\ current \in [Sessions -> Actions \union {None}]
  /\ target \in [Sessions -> Actions \union {None}]
  /\ attached \in [Sessions -> BOOLEAN]
  /\ envs \in [Sessions -> Seq(Envs)]
  /\ fetched \in [Sessions -> SUBSET Envs]
  /\ proc \in [Sessions -> {"none", "RUNNING"} \union EndStates]
  /\ pendingCb \in [Sessions -> {"none"} \union EndStates]
  /\ cancelSent \in [Sessions -> BOOLEAN]
  /\ stop \in [Sessions -> BOOLEAN]
  /\ stopResult \in [Sessions -> {"INTERRUPTED", "FAILED"}]
  /\ grace \in [Sessions -> {"none", "left", "spent"}]
  /\ interrupted \in [Sessions -> BOOLEAN]
  /\ stopped \in [Sessions -> BOOLEAN]
  /\ pc \in [Sessions -> PcStates]
  /\ cancelDue \in [Sessions -> BOOLEAN]
  /\ victims \in [Sessions -> SUBSET Actions]
  /\ popped \in [Sessions -> Actions \union {None}]
  /\ exits \in [Sessions -> Seq(Envs)]
  /\ assigned \in SUBSET Actions
  /\ reported \in [Actions -> Statuses]
  /\ ran \in SUBSET Actions
  /\ refused \in SUBSET {a \in Actions : "entity" \in Faults}

\* DequeueFails reports an action whose details are missing as FAILED and
\* leaves it in the queue, where _cleanup finds it when it cancels what is
\* left.  Any other completed status, and any other FAILED, is meant to stay.
Completed(a) == reported[a] \in CompletedStatuses
Refused(a) == a \in refused /\ reported[a] = "FAILED"
Decided(a) == Completed(a) /\ ~ Refused(a)

\* A completed status is the last word on an action: no late callback, no
\* cancel_all and no hand-over of a dead Session's actions (lines 934-1080
\* and 407-460 of session.py, 1345-1485 of scheduler.py) reports it anew,
\* with one exception: the FAILED DequeueFails reported (session.py 639-660),
\* and FailureStands says what becomes of that.
CompletedIsFinal ==
  [][\A a \in Actions : Decided(a) => reported'[a] = reported[a]]_vars

\* The work of an action is started at most once, and never once the action
\* is complete, however the service's lists and the completions interleave
\* (replace_assigned_actions, session.py 505-554; the filter in
\* _update_session_actions_from_scheduler).
StartsOnce ==
  [][\A s \in Sessions :
       current[s] = None /\ current'[s] # None /\ upload[s] = None =>
         /\ current'[s] \notin ran
         /\ reported[current'[s]] \notin CompletedStatuses]_vars

\* The assertion in _action_updated_impl (session.py:985): openjd reports on
\* an action nobody knows of only while the Session stops.
CallbackHasAction ==
  \A s \in Sessions :
    /\ proc[s] = "RUNNING" \/ pendingCb[s] # "none"
    /\ current[s] = None
    => stop[s]

\* The end of an upload is reported for the task whose output it uploads, and
\* an upload that is queued is always run on behalf of a task.
UploadIsForItsTask ==
  \A s \in Sessions :
    /\ upload[s] # None => upload[s] = target[s]
    /\ target[s] # None /\ current[s] # None => current[s] = target[s]

(***************************************************************************)
(* The inductive invariant from which CompletedIsFinal, StartsOnce and     *)
(* UploadIsForItsTask follow (SessionOutcome_proofs).                      *)
(***************************************************************************)
Open(a) == ~ Decided(a)

\* A queued action may have failed already: nothing is started any more.
Refusing(s) == pc[s] = "interrupt"

\* The Session thread has not come to the part of _cleanup that interrupts.
Early(s) == pc[s] \in {"new", "starting", "check", "start", "interrupt"}

\* Sessions share no action, and what a Session holds was assigned to it.
HoldsOwn(s) ==
  /\ queue[s] \subseteq Own(s) \intersect assigned
  /\ OptionalSet(current[s]) \subseteq Own(s) \intersect assigned
  /\ OptionalSet(target[s]) \subseteq Own(s) \intersect assigned
  /\ OptionalSet(popped[s]) \subseteq Own(s)
  /\ victims[s] \subseteq Own(s)
  /\ pc[s] = "new" => /\ s \notin registered
                      /\ queue[s] = {} /\ upload[s] = None
                      /\ current[s] = None /\ target[s] = None

\* The task whose output is uploaded, the queued and the running upload.
UploadOfTask(s) ==
  /\ target[s] # None => Kind[target[s]] = "TASK_RUN"
  /\ upload[s] # None => upload[s] = target[s]
  /\ target[s] # None /\ current[s] # None => current[s] = target[s]

\* Before the interruption nothing the Session holds has an outcome, but for
\* a refused action, and what was started and has none is the running action
\* or the task of the upload.
Undecided(s) ==
  Early(s) =>
    /\ ~ interrupted[s]
    /\ \A a \in Queued(s) : Completed(a) => Refusing(s) /\ Refused(a)
    /\ current[s] # None => ~ Completed(current[s])
    /\ target[s] # None => ~ Completed(target[s])
    /\ current[s] # None => current[s] \notin Queued(s)
    /\ upload[s] # None => upload[s] \notin queue[s]
    /\ target[s] \in {None, upload[s], current[s]}
    /\ \A a \in ran \intersect Own(s) :
         Completed(a) \/ a = current[s] \/ a = target[s]

\* After it a callback changes nothing, and _cleanup reports each action left
\* in the queue once.
Cancelling(s) ==
  /\ ~ Early(s) /\ current[s] # None => interrupted[s]
  /\ pc[s] = "snapshot" => \A a \in Queued(s) : Open(a)
  /\ pc[s] \in {"cancelAll", "remove", "tell"} =>
       \A a \in victims[s] : Open(a)
  /\ pc[s] \in {"remove", "tell"} =>
       popped[s] # None /\ Open(popped[s]) /\ popped[s] \notin victims[s]

SessionInv(s) ==
  HoldsOwn(s) /\ UploadOfTask(s) /\ Undecided(s) /\ Cancelling(s)

OutcomeInv == \A s \in Sessions : SessionInv(s)

(***************************************************************************)
(* What the protocol says and the code does not keep.                      *)
(***************************************************************************)
\* An action that FAILED stays so: it is the actions after it in the Session
\* that are NEVER_ATTEMPTED (worker_api_protocol.md, 355-359).
FailureStands ==
  [][\A a \in Actions : reported[a] = "FAILED" =>
                          reported'[a] # "NEVER_ATTEMPTED"]_vars
=============================================================================
