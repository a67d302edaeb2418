------------------------------ MODULE WorkerMain -------------------------------
(***************************************************************************)
(* Worker.run() (worker.py) and the threads around it: the main thread,    *)
(* which also runs the signal handler; the scheduler's loop, as far as the *)
(* events it waits for go; the monitor of EC2 shutdowns; the timer that    *)
(* refreshes the Worker's credentials.  As a Windows service the agent has *)
(* no signal handler, and one event is both Worker._stop and               *)
(* WorkerScheduler._shutdown.                                              *)
(***************************************************************************)
EXTENDS Refresher, FiniteSets

CONSTANT None

ASSUME NoneAssumption == None \notin {"normal", "service", "error", "spot", "lifecycle",
                                      "raised"}

VARIABLES
  windows,     \* the agent is a Windows service
  main,        \* where the main thread is
  outcome,     \* what run() ends with
  completed,   \* complete_futures still to be looked at
  sched, result,       \* the scheduler's thread and the result of its future
  monitor, found,      \* the monitor's thread and its result
  signal,      \* the signal handler, or the service's SvcStop
  call, wanted,        \* WorkerScheduler.shutdown(), per calling thread
  stop, shutdown,      \* Worker._stop and WorkerScheduler._shutdown
  grace,       \* WorkerScheduler._shutdown_grace
  valid, refresher,    \* the Worker's credentials
  calling,     \* the failure callbacks the timer's thread has still to make
  \* history
  drained,     \* the grace time the drain went by
  asked,       \* the grace times written so far
  leftBusy,    \* main left the refresher while a refresh ran
  died         \* the timer's thread ended by an exception nobody caught

mainVars    == <<main, outcome, completed>>
schedVars   == <<sched, result, drained>>
monitorVars == <<monitor, found>>
callVars    == <<call, wanted, grace, asked>>
credVars    == <<valid, refresher, calling, leftBusy, died>>
vars == <<windows, mainVars, schedVars, monitorVars, signal, callVars,
          stop, shutdown, credVars>>

Threads == {"handler", "main", "timer"}
Graces == {None, "signal", "spot", "lifecycle", "expired", "remaining", "fatal"}

(***************************************************************************)
(* WorkerScheduler.shutdown(grace_time), by one of the threads             *)
(***************************************************************************)
Begin(t, g) == /\ call' = [call EXCEPT ![t] = "grace"]
               /\ wanted' = [wanted EXCEPT ![t] = g]

Idle(t) == call[t] = "idle"

SetGrace(t) ==
  /\ call[t] = "grace"
  /\ call' = [call EXCEPT ![t] = "event"]
  /\ grace' = wanted[t]
  /\ asked' = asked \union {wanted[t]}
  /\ UNCHANGED <<shutdown, stop, wanted>>

SetEvent(t) ==
  /\ call[t] = "event"
  /\ call' = [call EXCEPT ![t] = "idle"]
  /\ shutdown' = TRUE /\ stop' = (stop \/ windows)
  /\ UNCHANGED <<grace, asked, wanted>>

\* Mutant: the event is set before the grace time.
EventFirst(t) ==
  \/ /\ call[t] = "grace"
     /\ call' = [call EXCEPT ![t] = "event"]
     /\ shutdown' = TRUE /\ stop' = (stop \/ windows)
     /\ UNCHANGED <<grace, asked, wanted>>
  \/ /\ call[t] = "event"
     /\ call' = [call EXCEPT ![t] = "idle"]
     /\ grace' = wanted[t] /\ asked' = asked \union {wanted[t]}
     /\ UNCHANGED <<shutdown, stop, wanted>>

\* Mutant: the event is not set.
GraceOnly(t) ==
  /\ call[t] = "grace"
  /\ call' = [call EXCEPT ![t] = "idle"]
  /\ grace' = wanted[t] /\ asked' = asked \union {wanted[t]}
  /\ UNCHANGED <<shutdown, stop, wanted>>

ShutdownStep(t) == SetGrace(t) \/ SetEvent(t)

ShutdownCall(t) ==
  /\ ShutdownStep(t)
  /\ UNCHANGED <<windows, mainVars, schedVars, monitorVars, signal, credVars>>

\* self._stop.set()
SetStop == stop' = TRUE /\ shutdown' = (shutdown \/ windows)

(***************************************************************************)
(* _signal_handler, which interrupts the main thread, and SvcStop          *)
(***************************************************************************)
SignalArrives ==
  /\ ~ windows /\ signal = "none" /\ main \notin {"start", "ended"}
  /\ signal' = "handling"
  /\ Begin("handler", "signal")
  /\ UNCHANGED <<windows, mainVars, schedVars, monitorVars, grace, asked, stop,
                 shutdown, credVars>>

HandlerReturns ==
  /\ signal = "handling" /\ Idle("handler")
  /\ signal' = "handled"
  /\ SetStop
  /\ UNCHANGED <<windows, mainVars, schedVars, monitorVars, callVars,
                 credVars>>

SvcStop ==
  /\ windows /\ signal = "none"
  /\ signal' = "handled"
  /\ SetStop
  /\ UNCHANGED <<windows, mainVars, schedVars, monitorVars, callVars,
                 credVars>>

(***************************************************************************)
(* run()                                                                   *)
(***************************************************************************)
MainRuns == signal # "handling" /\ Idle("main")

\* the refresher is entered, the scheduler submitted, IMDS asked for a token
Enter ==
  /\ main = "start" /\ main' = "waiting"
  /\ refresher' = Entered(refresher)
  /\ sched' = "top"
  /\ monitor' \in {"absent", "polling"}
  /\ UNCHANGED <<windows, outcome, completed, result, drained, found, signal,
                 callVars, stop, shutdown, valid, calling, leftBusy, died>>

Done == {f \in {"scheduler", "monitor"} :
           \/ f = "scheduler" /\ sched = "done"
           \/ f = "monitor" /\ monitor = "done"}

Wait ==
  /\ main = "waiting" /\ MainRuns
  /\ Done # {}
  /\ completed' = Done
  /\ main' = "handling"
  /\ UNCHANGED <<windows, outcome, schedVars, monitorVars, signal, callVars,
                 stop, shutdown, credVars>>

ShutDownFor(reason) == SetStop /\ Begin("main", reason)

HandleMonitor ==
  /\ main = "handling" /\ MainRuns /\ "monitor" \in completed
  /\ completed' = completed \ {"monitor"}
  /\ CASE found = "raised" -> /\ outcome' = "error" /\ main' = "leaving"
                              /\ UNCHANGED <<stop, shutdown, call, wanted>>
       [] found = None     -> /\ Begin("main", None)
                              /\ UNCHANGED <<stop, shutdown, outcome, main>>
       [] OTHER            -> ShutDownFor(found) /\ UNCHANGED <<outcome, main>>
  /\ UNCHANGED <<windows, schedVars, monitorVars, signal, grace, asked,
                 credVars>>

HandleScheduler ==
  /\ main = "handling" /\ MainRuns /\ "scheduler" \in completed
  /\ completed' = completed \ {"scheduler"}
  /\ SetStop
  /\ IF result = "normal" THEN UNCHANGED <<outcome, main>>
                          ELSE outcome' = result /\ main' = "leaving"
  /\ UNCHANGED <<windows, schedVars, monitorVars, signal, callVars,
                 credVars>>

HandledAll ==
  /\ main = "handling" /\ MainRuns /\ completed = {}
  /\ outcome' = "normal" /\ main' = "leaving"
  /\ UNCHANGED <<windows, completed, schedVars, monitorVars, signal, callVars,
                 stop, shutdown, credVars>>

\* the context managers are left: first the refresher, then the executor,
\* which joins its threads
LeaveRefresher ==
  /\ main = "leaving" /\ MainRuns
  /\ main' = "joining"
  /\ refresher' = Left(refresher)
  /\ leftBusy' = refresher.refreshing
  /\ UNCHANGED <<windows, outcome, completed, schedVars, monitorVars, signal,
                 callVars, stop, shutdown, valid, calling, died>>

Join ==
  /\ main = "joining" /\ MainRuns
  /\ sched = "done" /\ monitor \in {"absent", "done"}
  /\ main' = "ended"
  /\ UNCHANGED <<windows, outcome, completed, schedVars, monitorVars, signal,
                 callVars, stop, shutdown, credVars>>

Main == Enter \/ Wait \/ HandleMonitor \/ HandleScheduler \/ HandledAll
        \/ LeaveRefresher \/ Join

(***************************************************************************)
(* WorkerScheduler.run(): WorkerScheduler has the rest of it               *)
(***************************************************************************)
Top ==
  /\ sched = "top"
  /\ IF shutdown THEN /\ sched' = "drain" /\ result' = "normal"
                 ELSE sched' = "sync" /\ UNCHANGED result
  /\ UNCHANGED <<windows, mainVars, drained, monitorVars, signal, callVars, stop,
                 shutdown, credVars>>

\* with credentials that have expired every request is an error
Sync ==
  /\ sched = "sync"
  /\ \/ valid # "expired" /\ sched' = "idle" /\ UNCHANGED result
     \/ shutdown /\ sched' = "top" /\ UNCHANGED result
     \/ valid # "expired" /\ sched' = "drain" /\ result' = "service"
     \/ sched' = "drain" /\ result' = "error"
  /\ UNCHANGED <<windows, mainVars, drained, monitorVars, signal, callVars, stop,
                 shutdown, credVars>>

\* until the interval is over or _wakeup is set, which only ends it earlier
IdleEnds ==
  /\ sched = "idle"
  /\ sched' = "top"
  /\ UNCHANGED <<windows, mainVars, result, drained, monitorVars, signal, callVars,
                 stop, shutdown, credVars>>

Drain ==
  /\ sched = "drain"
  /\ sched' = "draining"
  /\ drained' = grace
  /\ UNCHANGED <<windows, mainVars, result, monitorVars, signal, callVars, stop,
                 shutdown, credVars>>

DrainEnds ==
  /\ sched = "draining"
  /\ sched' = "done"
  /\ UNCHANGED <<windows, mainVars, result, drained, monitorVars, signal, callVars,
                 stop, shutdown, credVars>>

Scheduler == Top \/ Sync \/ IdleEnds \/ Drain \/ DrainEnds

(***************************************************************************)
(* _monitor_ec2_shutdown: every second, until _stop is set                 *)
(***************************************************************************)
Monitor ==
  /\ monitor = "polling"
  /\ IF stop THEN monitor' = "done" /\ found' = None
     ELSE monitor' = "done" /\ found' \in {"spot", "lifecycle", "raised"}
  /\ UNCHANGED <<windows, mainVars, schedVars, signal, callVars, stop, shutdown, credVars>>

(***************************************************************************)
(* The refresher's timer and _aws_credentials_refresh_failure              *)
(***************************************************************************)
Fire ==
  /\ refresher.timer /\ ~ refresher.refreshing
  /\ valid # "fresh"
  /\ refresher' = Fired(refresher)
  /\ UNCHANGED <<windows, mainVars, schedVars, monitorVars, signal, callVars, stop,
                 shutdown, valid, calling, leftBusy, died>>

\* WorkerBoto3Session.refresh_credentials: the service may hand out credentials
\* that are good for a short time only; writing them to disk may raise OSError
Refresh ==
  /\ refresher.refreshing /\ calling = <<>> /\ Idle("timer")
  /\ \E o \in {FromResponse(r, TRUE) : r \in Responses} \union {"unknown"},
        v \in Validities \ {"expired"} :
       /\ valid' = IF o = "ok" THEN v ELSE valid
       /\ calling' = Callbacks(o, valid')
       /\ refresher' = Refreshed(refresher, o, valid')
       /\ died' = (died \/ o = "unknown")
  /\ UNCHANGED <<windows, mainVars, schedVars, monitorVars, signal, callVars, stop,
                 shutdown, leftBusy>>

\* time_remaining = now - expiry_time, which is below zero while the
\* credentials are good
Overdue == valid # "expired"

RefreshFailed ==
  /\ calling # <<>> /\ Idle("timer")
  /\ SetStop
  /\ Begin("timer", IF Head(calling) # "Timeout" THEN "fatal"
                    ELSE IF Overdue THEN "expired" ELSE "remaining")
  /\ calling' = Tail(calling)
  /\ UNCHANGED <<windows, mainVars, schedVars, monitorVars, signal, grace, asked, valid, refresher, leftBusy, died>>

TimePasses ==
  /\ MayPass(refresher, valid) /\ valid # "expired"
  /\ valid' = Later(valid)
  /\ UNCHANGED <<windows, mainVars, schedVars, monitorVars, signal, callVars, stop,
                 shutdown, refresher, calling, leftBusy, died>>

Init ==
  /\ windows \in BOOLEAN
  /\ main = "start" /\ outcome = None /\ completed = {}
  /\ sched = "new" /\ result = None /\ drained = None
  /\ monitor = "new" /\ found = None /\ signal = "none"
  /\ call = [t \in Threads |-> "idle"] /\ wanted = [t \in Threads |-> None]
  /\ stop = FALSE /\ shutdown = FALSE
  /\ grace = None /\ asked = {}
  /\ valid \in Validities /\ refresher = NewRefresher
  /\ calling = <<>> /\ leftBusy = FALSE /\ died = FALSE

Next ==
  \/ Main \/ Scheduler \/ Monitor
  \/ SignalArrives \/ HandlerReturns \/ SvcStop
  \/ \E t \in Threads : ShutdownCall(t)
  \/ Fire \/ Refresh \/ RefreshFailed \/ TimePasses

Spec == Init /\ [][Next]_vars

\* Every thread runs when it can, waits have a time limit, and a drain ends
\* (ShutdownDrains of WorkerScheduler).
FairSpec == /\ Spec
            /\ WF_vars(Main) /\ WF_vars(Scheduler) /\ WF_vars(Monitor)
            /\ WF_vars(HandlerReturns)
            /\ \A t \in Threads : WF_vars(ShutdownCall(t))
            /\ WF_vars(RefreshFailed)

(***************************************************************************)
(* Properties.                                                             *)
(***************************************************************************)
TypeOK ==
  /\ windows \in BOOLEAN
  /\ main \in {"start", "waiting", "handling", "leaving", "joining", "ended"}
  /\ outcome \in {None, "normal", "service", "error"}
  /\ completed \subseteq {"scheduler", "monitor"}
  /\ sched \in {"new", "top", "sync", "idle", "drain", "draining", "done"}
  /\ result \in {None, "normal", "service", "error"}
  /\ monitor \in {"new", "absent", "polling", "done"}
  /\ found \in {None, "spot", "lifecycle", "raised"}
  /\ signal \in {"none", "handling", "handled"}
  /\ call \in [Threads -> {"idle", "grace", "event"}]
  /\ wanted \in [Threads -> Graces] /\ grace \in Graces /\ drained \in Graces
  /\ asked \subseteq Graces
  /\ {stop, shutdown, leftBusy, died} \subseteq BOOLEAN
  /\ valid \in Validities /\ refresher \in Refreshers
  /\ calling \in {<<>>, <<"Timeout">>, <<"Unrecoverable">>}

\* The drain of an agent with two events goes by a grace time that a call of
\* shutdown() has written: the loop never sees the event before its reason.
DrainKnowsGrace ==
  sched \in {"draining", "done"} /\ result = "normal" /\ ~ windows => drained \in asked

\* Once run() is over no timer is left that would keep the process alive, unless
\* a refresh was under way when the main thread left the refresher.
NoTimerLeft == main = "ended" /\ ~ leftBusy => ~ refresher.timer

\* While the Worker takes work, its credentials have expired only if a request
\* for new ones is due or still being tried, or failed in a way nobody foresaw.
\* (They may have expired before: nothing refreshes them while the host
\* configuration script runs.)
WorksWithCredentials ==
  main = "waiting" /\ valid = "expired" /\ ~ shutdown =>
    refresher.timer \/ refresher.refreshing \/ calling # <<>>
    \/ call["timer"] # "idle" \/ died

\* A signal, or the service manager, ends the agent.
AgentStops == (signal = "handled") ~> (main = "ended")

\* A refresh that fails for good ends the agent.
FailedRefreshStops == (calling # <<>>) ~> (main = "ended")
================================================================================
