--------------------------- MODULE WorkerMain_proofs ---------------------------
(***************************************************************************)
(* Proofs about WorkerMain: its type invariant and its safety properties.  *)
(***************************************************************************)
EXTENDS WorkerMain, TLAPS

(***************************************************************************)
(* The refresher.                                                          *)
(***************************************************************************)

\* The failure callbacks of a refresh of the Worker's credentials: at most one.
LEMMA CallbacksOf ==
  ASSUME NEW v \in Validities
  PROVE  /\ Callbacks("ok", v) = IF v \in {"mandatory", "expired"} THEN <<"Timeout">>
                                                                   ELSE <<>>
         /\ Callbacks("Unrecoverable", v) = <<"Unrecoverable">>
         /\ Callbacks("unknown", v) = <<>>
  BY DEF Callbacks, GoesOn, Validities

\* What a request for the Worker's credentials may end with.
LEMMA WorkerOutcomes ==
  ASSUME NEW o \in {FromResponse(r, TRUE) : r \in Responses} \union {"unknown"}
  PROVE  o \in {"ok", "Unrecoverable", "unknown"}
  BY DEF FromResponse

\* A refresh that ends well, with time left, sets the timer again.
LEMMA RefreshedRefresher ==
  ASSUME NEW r \in Refreshers, NEW o, NEW v
  PROVE  /\ Refreshed(r, o, v) \in Refreshers
         /\ Refreshed(r, o, v).inside = r.inside
         /\ GoesOn(o) /\ v \in {"fresh", "advisory"} => Refreshed(r, o, v).timer
<1>1. Refreshed(r, o, v) \in Refreshers
  BY DEF Refreshed, Refreshers, SetTimer
<1>2. Refreshed(r, o, v).inside = r.inside
  BY DEF Refreshed, Refreshers, SetTimer
<1>3. GoesOn(o) /\ v \in {"fresh", "advisory"} => Refreshed(r, o, v).timer
  BY DEF Refreshed, Refreshers, SetTimer
<1> QED BY <1>1, <1>2, <1>3

\* The first to enter sets the timer.
LEMMA EnteredFirst ==
  ASSUME NEW r \in Refreshers, r.inside = 0
  PROVE  /\ Entered(r) \in Refreshers
         /\ Entered(r).inside = 1
         /\ Entered(r).timer
<1>1. Entered(r) \in Refreshers
  <2>1. Entered(r) = [[r EXCEPT !.inside = 1] EXCEPT !.timer = TRUE]
    BY DEF Entered, SetTimer, Refreshers
  <2>2. 1 \in 0..MaxInside
    BY MaxInsideAssumption
  <2> QED BY <2>1, <2>2 DEF Refreshers
<1>2. Entered(r).inside = 1
  BY DEF Entered, SetTimer, Refreshers
<1>3. Entered(r).timer
  BY DEF Entered, SetTimer, Refreshers
<1> QED BY <1>1, <1>2, <1>3

\* The last to leave cancels it, but not a refresh under way.
LEMMA LeftLast ==
  ASSUME NEW r \in Refreshers, r.inside = 1
  PROVE  /\ Left(r) \in Refreshers
         /\ Left(r).inside = 0
         /\ ~ Left(r).timer
         /\ Left(r).refreshing = r.refreshing
<1>1. Left(r) \in Refreshers
  <2>1. (r.timer /\ r.inside # 1) = FALSE
    OBVIOUS
  <2>2. Left(r) = [r EXCEPT !.inside = r.inside - 1, !.timer = FALSE]
    BY <2>1, Zenon DEF Left
  <2>3. r.inside - 1 \in 0..MaxInside
    BY MaxInsideAssumption
  <2> QED BY <2>2, <2>3 DEF Refreshers
<1>2. Left(r).inside = 0
  BY DEF Left, Refreshers
<1>3. ~ Left(r).timer
  BY DEF Left, Refreshers
<1>4. Left(r).refreshing = r.refreshing
  BY DEF Left, Refreshers
<1> QED BY <1>1, <1>2, <1>3, <1>4

(***************************************************************************)
(* The inductive invariant.                                                *)
(***************************************************************************)

\* The events, the grace times and the drain: an event of an agent that is no
\* Windows service is set after a grace time was written, in whatever order the
\* threads go through shutdown().
Shutdowns ==
  /\ asked # {} => grace \in asked
  /\ \A t \in Threads : call[t] = "event" => asked # {}
  /\ shutdown /\ ~ windows => asked # {}
  /\ result = "normal" /\ ~ windows => asked # {}
  /\ DrainKnowsGrace

\* Main is in the refresher while it waits, handles and leaves.
Inside ==
  /\ main = "start" => refresher = NewRefresher
  /\ main \in {"waiting", "handling", "leaving"} => refresher.inside = 1
  /\ main \in {"joining", "ended"} =>
       /\ refresher.inside = 0
       /\ ~ leftBusy => ~ refresher.timer /\ ~ refresher.refreshing

\* Until the loop is told to shut down, somebody renews the credentials.
Renewed ==
  main \in {"waiting", "handling"} /\ ~ shutdown =>
    refresher.timer \/ refresher.refreshing \/ calling # <<>>
    \/ call["timer"] # "idle" \/ died

IInv == TypeOK /\ Shutdowns /\ Inside /\ Renewed

LEMMA InitIInv == Init => IInv
<1> SUFFICES ASSUME Init PROVE IInv
  OBVIOUS
<1>1. refresher \in Refreshers
  BY MaxInsideAssumption DEF Init, NewRefresher, Refreshers
<1>2. TypeOK
  BY <1>1 DEF Init, TypeOK, Graces
<1>3. Shutdowns
  BY NoneAssumption DEF Init, Shutdowns, DrainKnowsGrace
<1>4. Inside /\ Renewed
  BY DEF Init, Inside, Renewed
<1> QED BY <1>2, <1>3, <1>4 DEF IInv

\* IInv implies the properties.
LEMMA IInvImplies == IInv => DrainKnowsGrace /\ NoTimerLeft /\ WorksWithCredentials
  BY DEF IInv, Shutdowns, Inside, Renewed, NoTimerLeft, WorksWithCredentials

(***************************************************************************)
(* The steps.                                                              *)
(***************************************************************************)

\* A step that leaves the events, the calls and the loop alone keeps Shutdowns.
LEMMA SameShutdowns ==
  ASSUME Shutdowns, UNCHANGED <<windows, schedVars, callVars, shutdown>>
  PROVE  Shutdowns'
  BY DEF Shutdowns, DrainKnowsGrace, schedVars, callVars

\* A step that sets _stop, and begins a call or does not.
LEMMA StopShutdowns ==
  ASSUME Shutdowns, TypeOK, SetStop, UNCHANGED <<windows, schedVars, grace, asked>>,
         \/ UNCHANGED <<call, wanted>>
         \/ \E t \in Threads : \E g : Begin(t, g)
  PROVE  Shutdowns'
  BY DEF Shutdowns, TypeOK, DrainKnowsGrace, schedVars, SetStop, Begin

\* A step that leaves main and the credentials alone, and sets no event back.
LEMMA SameCredentials ==
  ASSUME Inside, Renewed, UNCHANGED <<main, credVars>>, shutdown => shutdown',
         call["timer"] # "idle" => call'["timer"] # "idle" \/ shutdown'
  PROVE  (Inside /\ Renewed)'
  BY DEF Inside, Renewed, credVars

LEMMA CallKeeps ==
  ASSUME IInv, NEW t \in Threads, ShutdownCall(t)
  PROVE  IInv'
<1>1. CASE SetGrace(t)
  <2>1. TypeOK'
    BY <1>1 DEF IInv, TypeOK, SetGrace, ShutdownCall, mainVars, schedVars, monitorVars,
                credVars
  <2>2. Shutdowns'
    BY <1>1 DEF IInv, TypeOK, Shutdowns, DrainKnowsGrace, SetGrace, ShutdownCall,
                schedVars
  <2>3. call["timer"] # "idle" => call'["timer"] # "idle"
    BY <1>1 DEF IInv, TypeOK, SetGrace, Threads
  <2>4. (Inside /\ Renewed)'
    BY <1>1, <2>3, SameCredentials DEF IInv, SetGrace, ShutdownCall, mainVars
  <2> QED BY <2>1, <2>2, <2>4 DEF IInv
<1>2. CASE SetEvent(t)
  <2>1. TypeOK'
    BY <1>2 DEF IInv, TypeOK, SetEvent, ShutdownCall, mainVars, schedVars, monitorVars,
                credVars
  <2>2. Shutdowns'
    BY <1>2 DEF IInv, TypeOK, Shutdowns, DrainKnowsGrace, SetEvent, ShutdownCall,
                schedVars
  <2>3. (Inside /\ Renewed)'
    BY <1>2, SameCredentials DEF IInv, SetEvent, ShutdownCall, mainVars
  <2> QED BY <2>1, <2>2, <2>3 DEF IInv
<1> QED BY <1>1, <1>2 DEF ShutdownCall, ShutdownStep

\* The handler, the monitor and the service manager.
LEMMA EnvironmentKeeps ==
  ASSUME IInv, SignalArrives \/ HandlerReturns \/ SvcStop \/ Monitor
  PROVE  IInv'
<1>1. CASE SignalArrives
  <2>1. TypeOK'
    BY <1>1 DEF IInv, TypeOK, SignalArrives, Begin, Threads, Graces, mainVars, schedVars,
                monitorVars, credVars
  <2>2. Shutdowns'
    BY <1>1 DEF IInv, TypeOK, Shutdowns, DrainKnowsGrace, SignalArrives, Begin, schedVars
  <2>3. call'["timer"] = call["timer"]
    BY <1>1 DEF IInv, TypeOK, SignalArrives, Begin, Threads
  <2>4. (Inside /\ Renewed)'
    BY <1>1, <2>3, SameCredentials DEF IInv, SignalArrives, mainVars
  <2> QED BY <2>1, <2>2, <2>4 DEF IInv
<1>2. CASE HandlerReturns \/ SvcStop
  <2>1. TypeOK'
    <3>1. stop' \in BOOLEAN /\ shutdown' \in BOOLEAN /\ signal' = "handled"
      BY <1>2 DEF IInv, TypeOK, HandlerReturns, SvcStop, SetStop
    <3>2. UNCHANGED <<windows, mainVars, schedVars, monitorVars, callVars, credVars>>
      BY <1>2 DEF HandlerReturns, SvcStop
    <3> QED BY <3>1, <3>2 DEF IInv, TypeOK, mainVars, schedVars, monitorVars, callVars,
                              credVars
  <2>2. Shutdowns'
    BY <1>2, StopShutdowns DEF IInv, HandlerReturns, SvcStop, callVars
  <2>3. (Inside /\ Renewed)'
    BY <1>2, SameCredentials DEF IInv, HandlerReturns, SvcStop, SetStop, mainVars, callVars
  <2> QED BY <2>1, <2>2, <2>3 DEF IInv
<1>3. CASE Monitor
  <2>1. TypeOK'
    BY <1>3 DEF IInv, TypeOK, Monitor, mainVars, schedVars, callVars, credVars
  <2>2. Shutdowns'
    BY <1>3, SameShutdowns DEF IInv, Monitor
  <2>3. (Inside /\ Renewed)'
    BY <1>3, SameCredentials DEF IInv, Monitor, mainVars, callVars
  <2> QED BY <2>1, <2>2, <2>3 DEF IInv
<1> QED BY <1>1, <1>2, <1>3

LEMMA SchedulerKeeps ==
  ASSUME IInv, Scheduler
  PROVE  IInv'
<1>1. TypeOK'
  <2>1. /\ sched' \in {"new", "top", "sync", "idle", "drain", "draining", "done"}
        /\ result' \in {None, "normal", "service", "error"} /\ drained' \in Graces
    BY DEF IInv, TypeOK, Scheduler, Top, Sync, IdleEnds, Drain, DrainEnds
  <2>2. UNCHANGED <<windows, mainVars, monitorVars, signal, callVars, stop, shutdown,
                    credVars>>
    BY DEF Scheduler, Top, Sync, IdleEnds, Drain, DrainEnds
  <2> QED BY <2>1, <2>2 DEF IInv, TypeOK, mainVars, monitorVars, callVars, credVars
<1>2. Shutdowns'
  <2>1. UNCHANGED <<windows, callVars, shutdown>>
    BY DEF Scheduler, Top, Sync, IdleEnds, Drain, DrainEnds
  <2>2. result' = "normal" /\ ~ windows => asked # {}
    BY DEF IInv, Shutdowns, Scheduler, Top, Sync, IdleEnds, Drain, DrainEnds
  <2>3. sched' \in {"draining", "done"} /\ result' = "normal" /\ ~ windows =>
          drained' \in asked
    BY <2>2 DEF IInv, Shutdowns, DrainKnowsGrace, Scheduler, Top, Sync, IdleEnds, Drain,
                DrainEnds
  <2> QED BY <2>1, <2>2, <2>3 DEF IInv, Shutdowns, DrainKnowsGrace, callVars
<1>3. (Inside /\ Renewed)'
  BY SameCredentials DEF IInv, Scheduler, Top, Sync, IdleEnds, Drain, DrainEnds,
                         mainVars, callVars
<1> QED BY <1>1, <1>2, <1>3 DEF IInv

LEMMA MainKeeps ==
  ASSUME IInv, Main
  PROVE  IInv'
<1>1. CASE Enter
  <2>1. /\ refresher.inside = 0 /\ refresher \in Refreshers /\ refresher' = Entered(refresher)
    BY <1>1 DEF IInv, TypeOK, Inside, Enter, NewRefresher
  <2>2. refresher' \in Refreshers /\ refresher'.inside = 1 /\ refresher'.timer
    BY <2>1, EnteredFirst
  <2>3. TypeOK'
    BY <1>1, <2>2 DEF IInv, TypeOK, Enter, callVars
  <2>4. Shutdowns'
    BY <1>1 DEF IInv, Shutdowns, DrainKnowsGrace, Enter, callVars
  <2>5. Inside' /\ Renewed'
    BY <1>1, <2>2 DEF Inside, Renewed, Enter
  <2> QED BY <2>3, <2>4, <2>5 DEF IInv
<1>2. CASE Wait \/ HandledAll \/ Join
  <2>1. TypeOK'
    <3>1. /\ main' \in {"handling", "leaving", "ended"}
          /\ outcome' \in {outcome, "normal"}
          /\ completed' \subseteq {"scheduler", "monitor"}
      BY <1>2 DEF IInv, TypeOK, Wait, HandledAll, Join, Done
    <3>2. UNCHANGED <<windows, schedVars, monitorVars, signal, callVars, stop, shutdown,
                      credVars>>
      BY <1>2 DEF Wait, HandledAll, Join
    <3> QED BY <3>1, <3>2 DEF IInv, TypeOK, schedVars, monitorVars, callVars, credVars
  <2>2. Shutdowns'
    BY <1>2, SameShutdowns DEF IInv, Wait, HandledAll, Join
  <2>3. Inside' /\ Renewed'
    BY <1>2 DEF IInv, Inside, Renewed, Wait, HandledAll, Join, callVars, credVars
  <2> QED BY <2>1, <2>2, <2>3 DEF IInv
<1>3. CASE HandleMonitor
  <2>1. /\ main = "handling" /\ main' \in {"handling", "leaving"} /\ Idle("main")
        /\ completed' = completed \ {"monitor"} /\ outcome' \in {outcome, "error"}
        /\ \/ UNCHANGED <<stop, shutdown, call, wanted>>
           \/ Begin("main", None) /\ UNCHANGED <<stop, shutdown>>
           \/ \E g \in {"spot", "lifecycle"} : ShutDownFor(g)
        /\ UNCHANGED <<windows, schedVars, monitorVars, signal, grace, asked, credVars>>
    BY <1>3 DEF IInv, TypeOK, HandleMonitor, MainRuns
  <2>2. call \in [Threads -> {"idle", "grace", "event"}] /\ wanted \in [Threads -> Graces]
        /\ {stop, shutdown} \subseteq BOOLEAN /\ windows \in BOOLEAN
    BY DEF IInv, TypeOK
  <2>3. /\ call' \in [Threads -> {"idle", "grace", "event"}]
        /\ wanted' \in [Threads -> Graces]
        /\ {stop', shutdown'} \subseteq BOOLEAN
        /\ call'["timer"] = call["timer"] /\ (shutdown => shutdown')
    <3>1. CASE UNCHANGED <<stop, shutdown, call, wanted>>
      BY <2>2, <3>1
    <3>2. CASE Begin("main", None) /\ UNCHANGED <<stop, shutdown>>
      BY <2>2, <3>2 DEF Begin, Threads, Graces
    <3>3. CASE \E g \in {"spot", "lifecycle"} : ShutDownFor(g)
      <4>1. call' = [call EXCEPT !["main"] = "grace"]
            /\ \E g \in {"spot", "lifecycle"} : wanted' = [wanted EXCEPT !["main"] = g]
        BY <3>3 DEF Begin, ShutDownFor
      <4>2. stop' \in BOOLEAN /\ shutdown' \in BOOLEAN /\ (shutdown => shutdown')
        BY <2>2, <3>3 DEF ShutDownFor, SetStop
      <4> QED BY <2>2, <4>1, <4>2 DEF Threads, Graces
    <3> QED BY <2>1, <3>1, <3>2, <3>3
  <2>4. TypeOK'
    BY <2>1, <2>3 DEF IInv, TypeOK, schedVars, monitorVars, credVars
  <2>5. Shutdowns'
    <3>1. CASE UNCHANGED <<stop, shutdown, call, wanted>>
      BY <2>1, <3>1, SameShutdowns DEF IInv, callVars
    <3>2. CASE Begin("main", None) /\ UNCHANGED <<stop, shutdown>>
      BY <2>1, <2>2, <3>2 DEF IInv, Shutdowns, DrainKnowsGrace, Begin, schedVars
    <3>3. CASE \E g \in {"spot", "lifecycle"} : ShutDownFor(g)
      BY <2>1, <3>3, StopShutdowns DEF IInv, ShutDownFor, Threads
    <3> QED BY <2>1, <3>1, <3>2, <3>3
  <2>6. Inside' /\ Renewed'
    BY <2>1, <2>3 DEF IInv, Inside, Renewed, credVars
  <2> QED BY <2>4, <2>5, <2>6 DEF IInv
<1>4. CASE HandleScheduler
  <2>1. TypeOK'
    BY <1>4 DEF IInv, TypeOK, HandleScheduler, SetStop, schedVars, monitorVars, callVars,
                credVars
  <2>2. Shutdowns'
    BY <1>4, StopShutdowns DEF IInv, HandleScheduler, callVars
  <2>3. Inside' /\ Renewed'
    BY <1>4 DEF IInv, Inside, Renewed, HandleScheduler, SetStop, callVars, credVars
  <2> QED BY <2>1, <2>2, <2>3 DEF IInv
<1>5. CASE LeaveRefresher
  <2>1. /\ refresher.inside = 1 /\ refresher \in Refreshers /\ refresher' = Left(refresher)
    BY <1>5 DEF IInv, TypeOK, Inside, LeaveRefresher
  <2>2. /\ refresher' \in Refreshers /\ refresher'.inside = 0 /\ ~ refresher'.timer
        /\ refresher'.refreshing = refresher.refreshing
    BY <2>1, LeftLast
  <2>3. TypeOK'
    BY <1>5, <2>1, <2>2 DEF IInv, TypeOK, LeaveRefresher, Refreshers, schedVars,
                            monitorVars, callVars
  <2>4. Shutdowns'
    BY <1>5, SameShutdowns DEF IInv, LeaveRefresher
  <2>5. Inside' /\ Renewed'
    BY <1>5, <2>2 DEF Inside, Renewed, LeaveRefresher
  <2> QED BY <2>3, <2>4, <2>5 DEF IInv
<1> QED BY <1>1, <1>2, <1>3, <1>4, <1>5 DEF Main

LEMMA TimerKeeps ==
  ASSUME IInv, Fire \/ Refresh \/ RefreshFailed \/ TimePasses
  PROVE  IInv'
<1>1. CASE Fire
  <2>1. refresher' \in Refreshers
        /\ refresher'.inside = refresher.inside /\ refresher'.refreshing
    BY <1>1 DEF IInv, TypeOK, Fire, Fired, Refreshers
  <2>2. TypeOK'
    BY <1>1, <2>1 DEF IInv, TypeOK, Fire, mainVars, schedVars, monitorVars, callVars
  <2>3. Shutdowns'
    BY <1>1, SameShutdowns DEF IInv, Fire
  <2>4. refresher # NewRefresher /\ refresher.timer
    BY <1>1 DEF Fire, NewRefresher
  <2>5. Inside' /\ Renewed'
    BY <1>1, <2>1, <2>4 DEF IInv, Inside, Renewed, Fire, mainVars
  <2> QED BY <2>2, <2>3, <2>5 DEF IInv
<1>2. CASE Refresh
  <2>1. PICK o \in {FromResponse(r, TRUE) : r \in Responses} \union {"unknown"},
             v \in Validities \ {"expired"} :
          /\ valid' = IF o = "ok" THEN v ELSE valid
          /\ calling' = Callbacks(o, valid')
          /\ refresher' = Refreshed(refresher, o, valid')
          /\ died' = (died \/ o = "unknown")
    BY <1>2 DEF Refresh
  <2>2. o \in {"ok", "Unrecoverable", "unknown"} /\ valid' \in Validities
        /\ (o = "ok" => valid' = v)
    BY <2>1, WorkerOutcomes DEF IInv, TypeOK
  <2>3. /\ o = "ok" => calling' = IF v = "mandatory" THEN <<"Timeout">> ELSE <<>>
        /\ o = "Unrecoverable" => calling' = <<"Unrecoverable">>
        /\ o = "unknown" => calling' = <<>>
    BY <2>1, <2>2, CallbacksOf
  <2>4. /\ refresher' \in Refreshers /\ refresher'.inside = refresher.inside
        /\ o = "ok" /\ v \in {"fresh", "advisory"} => refresher'.timer
    BY <2>1, <2>2, RefreshedRefresher DEF IInv, TypeOK, GoesOn
  <2>5. /\ refresher.refreshing
        /\ UNCHANGED <<mainVars, leftBusy, windows, schedVars, monitorVars, signal,
                       callVars, stop, shutdown>>
    BY <1>2 DEF Refresh
  <2>6. TypeOK'
    BY <2>1, <2>2, <2>3, <2>4, <2>5 DEF IInv, TypeOK, mainVars, schedVars, monitorVars,
                                        callVars
  <2>7. Shutdowns'
    BY <2>5, SameShutdowns DEF IInv
  <2>8. Inside'
    BY <2>4, <2>5 DEF IInv, Inside, NewRefresher, mainVars
  <2>9. Renewed'
    <3>1. CASE o = "ok" /\ v = "mandatory"
      BY <2>3, <3>1 DEF Renewed
    <3>2. CASE o = "ok" /\ v # "mandatory"
      BY <2>4, <3>2 DEF Renewed, Validities
    <3>3. CASE o = "Unrecoverable"
      BY <2>3, <3>3 DEF Renewed
    <3>4. CASE o = "unknown"
      BY <2>1, <3>4 DEF Renewed
    <3> QED BY <2>2, <3>1, <3>2, <3>3, <3>4
  <2> QED BY <2>6, <2>7, <2>8, <2>9 DEF IInv
<1>3. CASE RefreshFailed
  <2>1. calling \in {<<"Timeout">>, <<"Unrecoverable">>} /\ calling' = <<>>
    <3>1. calling # <<>> /\ calling' = Tail(calling)
      BY <1>3 DEF RefreshFailed
    <3>2. calling \in {<<"Timeout">>, <<"Unrecoverable">>}
      BY <3>1 DEF IInv, TypeOK
    <3>3. Tail(<<"Timeout">>) = <<>> /\ Tail(<<"Unrecoverable">>) = <<>>
      OBVIOUS
    <3> QED BY <3>1, <3>2, <3>3
  <2>2. PICK g \in {"fatal", "expired", "remaining"} : Begin("timer", g)
    BY <1>3 DEF RefreshFailed
  <2>3. /\ call' \in [Threads -> {"idle", "grace", "event"}] /\ call'["timer"] = "grace"
        /\ wanted' \in [Threads -> Graces]
    BY <2>2 DEF IInv, TypeOK, Begin, Threads, Graces
  <2>4. TypeOK'
    BY <1>3, <2>1, <2>3 DEF IInv, TypeOK, RefreshFailed, SetStop, mainVars, schedVars,
                            monitorVars
  <2>5. Shutdowns'
    BY <1>3, <2>2, StopShutdowns DEF IInv, RefreshFailed, Threads
  <2>6. Inside' /\ Renewed'
    BY <1>3, <2>3 DEF IInv, Inside, Renewed, RefreshFailed, mainVars
  <2> QED BY <2>4, <2>5, <2>6 DEF IInv
<1>4. CASE TimePasses
  <2>1. TypeOK'
    BY <1>4 DEF IInv, TypeOK, TimePasses, Later, Validities, mainVars, schedVars,
                monitorVars, callVars
  <2>2. Shutdowns'
    BY <1>4, SameShutdowns DEF IInv, TimePasses
  <2>3. Inside' /\ Renewed'
    BY <1>4 DEF IInv, Inside, Renewed, TimePasses, mainVars, callVars
  <2> QED BY <2>1, <2>2, <2>3 DEF IInv
<1> QED BY <1>1, <1>2, <1>3, <1>4

LEMMA Invariance == Spec => []IInv
<1>1. IInv /\ [Next]_vars => IInv'
  <2> SUFFICES ASSUME IInv, [Next]_vars PROVE IInv'
    OBVIOUS
  <2>1. CASE Next
    BY <2>1, MainKeeps, SchedulerKeeps, EnvironmentKeeps, CallKeeps, TimerKeeps DEF Next
  <2>2. CASE UNCHANGED vars
    BY <2>2 DEF IInv, TypeOK, Shutdowns, DrainKnowsGrace, Inside, Renewed, vars, mainVars,
                schedVars, monitorVars, callVars, credVars
  <2> QED BY <2>1, <2>2
<1> QED BY InitIInv, <1>1, PTL DEF Spec

(***************************************************************************)
(* The theorems.                                                           *)
(***************************************************************************)

\* The type invariant of the main thread, its helpers and the refresher
\* (Worker.run, WorkerScheduler.shutdown, AwsCredentialsRefresher).
THEOREM TypeCorrect == Spec => []TypeOK
<1>1. IInv => TypeOK
  BY DEF IInv
<1> QED BY Invariance, <1>1, PTL

\* A drain goes by a grace time that a call of WorkerScheduler.shutdown() has
\* written, however the signal handler, the main thread and the timer's thread
\* interleave in it: grace time first, event second.
THEOREM DrainInformed == Spec => []DrainKnowsGrace
  BY Invariance, IInvImplies, PTL

\* Once Worker.run is over, no timer of the refresher keeps the process alive,
\* unless the main thread left while a refresh ran.
THEOREM TimerGone == Spec => []NoTimerLeft
  BY Invariance, IInvImplies, PTL

\* The agent does not wait for work with credentials that have expired and that
\* nobody renews (_refresh sets the timer again or calls back, and the callback
\* shuts the agent down), save for an exception _refresh does not know.
THEOREM CredentialsRenewed == Spec => []WorksWithCredentials
  BY Invariance, IInvImplies, PTL
================================================================================
