---------------------------- MODULE Session_proofs ----------------------------
(***************************************************************************)
(* Proofs about Session, for all Sessions, actions, pipelines and faults.  *)
(***************************************************************************)
EXTENDS Session, TLAPS, SequenceTheorems, WellFoundedInduction

(***************************************************************************)
(* The queue: its front is one of its entries.                             *)
(***************************************************************************)
\* Positions are natural numbers, so a set of actions has a first one.
LEMMA FirstIn ==
  ASSUME NEW A \in SUBSET Actions, A # {}
  PROVE  First(A) \in A
<1> DEFINE P == {Pos[a] : a \in A}
<1>1. P # {} /\ P \subseteq Nat
  BY ConstantsAssumption DEF ConstantsAssumption
<1>2. PICK n \in P : \A m \in P : ~ (<<m, n>> \in OpToRel(<, Nat))
  <2> HIDE DEF P
  <2> QED BY <1>1, WFMin, NatLessThanWellFounded, Zenon
<1>3. \A m \in P : ~ (m < n)
  BY <1>1, <1>2, Zenon DEF OpToRel
<1>4. PICK a \in A : n = Pos[a]
  BY <1>1
<1>5. \A b \in A : Pos[b] \in P /\ Pos[b] \in Nat /\ Pos[a] \in Nat
  BY ConstantsAssumption DEF ConstantsAssumption
<1>6. \A b \in A : Pos[a] =< Pos[b]
  <2> HIDE DEF P
  <2> QED BY <1>3, <1>4, <1>5
<1> QED
  BY <1>6 DEF First

LEMMA FrontIn ==
  ASSUME TypeOK, NEW s \in Sessions, Queued(s) # {}
  PROVE  /\ Front(s) \in Queued(s) /\ Front(s) \in Actions
         /\ upload[s] = None => Front(s) \in queue[s]
         /\ upload[s] # None => Front(s) = upload[s]
<1>1. CASE upload[s] # None
  BY <1>1 DEF Front, Queued, OptionalSet, TypeOK
<1>2. CASE upload[s] = None
  <2>1. queue[s] \in SUBSET Actions /\ queue[s] # {} /\ Queued(s) = queue[s]
    BY <1>2 DEF Queued, OptionalSet, TypeOK
  <2> QED
    BY <1>2, <2>1, FirstIn DEF Front
<1> QED BY <1>1, <1>2

LEMMA QueuedType ==
  ASSUME TypeOK, NEW s \in Sessions
  PROVE  /\ Queued(s) \in SUBSET Actions
         /\ Cancelable(s) \in SUBSET Queued(s)
         /\ Cancelable(s) \in SUBSET Actions
BY DEF Queued, Cancelable, OptionalSet, TypeOK

\* Changing one Session's set of actions.
LEMMA SetOfSessionType ==
  ASSUME NEW f \in [Sessions -> SUBSET Actions], NEW s \in Sessions,
         NEW X \in SUBSET Actions
  PROVE  [f EXCEPT ![s] = X] \in [Sessions -> SUBSET Actions]
OBVIOUS

(***************************************************************************)
(* Reports keep the types of what they write.                              *)
(***************************************************************************)
LEMMA ReportType ==
  ASSUME TypeOK, NEW s \in Sessions, NEW st \in [Actions -> Statuses],
         NEW idle, Report(s, st, idle)
  PROVE  /\ updates' \in [Actions -> [status : Statuses, sent : BOOLEAN]]
         /\ reported' \in [Actions -> Statuses]
         /\ wakeup' \in BOOLEAN
         /\ registered' = registered /\ assigned' = assigned
<1>1. \A a \in Actions : Recorded(updates[a], st[a])
                           \in [status : Statuses, sent : BOOLEAN]
  BY DEF Recorded, TypeOK
<1> QED
  BY <1>1 DEF Report, TypeOK

LEMMA RecordType ==
  ASSUME TypeOK, NEW A \in SUBSET Actions, NEW st \in [Actions -> Statuses],
         Record(A, st)
  PROVE  /\ updates' \in [Actions -> [status : Statuses, sent : BOOLEAN]]
         /\ reported' \in [Actions -> Statuses]
         /\ wakeup' \in BOOLEAN
<1>1. \A a \in Actions : Recorded(updates[a], st[a])
                           \in [status : Statuses, sent : BOOLEAN]
  BY DEF Recorded, TypeOK
<1> QED
  BY <1>1 DEF Record, TypeOK

LEMMA StatusFunctions ==
  ASSUME NEW st \in Statuses, NEW a, NEW never
  PROVE  /\ One(a, st) \in [Actions -> Statuses]
         /\ Both(a, st, never) \in [Actions -> Statuses]
BY DEF One, Both, Statuses, CompletedStatuses

LEMMA ReportedAsType ==
  ASSUME NEW state \in EndStates \union {"RUNNING"}
  PROVE  ReportedAs(state) \in Statuses
BY DEF ReportedAs, EndStates, Statuses, CompletedStatuses

\* Taking the last element off a nonempty sequence.
LEMMA FrontSeqType ==
  ASSUME NEW S, NEW q \in Seq(S), q # <<>>
  PROVE  SubSeq(q, 1, Len(q) - 1) \in Seq(S)
<1>1. Len(q) \in Nat /\ Len(q) # 0 /\ DOMAIN q = 1 .. Len(q)
      /\ \A i \in 1 .. Len(q) : q[i] \in S
  BY LenProperties, EmptySeq, ElementOfSeq
<1> QED
  BY <1>1, SubSeqProperties

(***************************************************************************)
(* Type correctness.                                                       *)
(***************************************************************************)
\* What update_action does keeps the types of all it may write.
LEMMA UpdatedType ==
  ASSUME TypeOK, NEW s \in Sessions,
         NEW state \in EndStates \union {"RUNNING"}, Updated(s, state)
  PROVE  /\ updates' \in [Actions -> [status : Statuses, sent : BOOLEAN]]
         /\ wakeup' \in BOOLEAN
         /\ registered' = registered /\ assigned' = assigned
         /\ queue' \in [Sessions -> SUBSET Actions]
         /\ upload' \in [Sessions -> Actions \union {None}]
         /\ byId' \in [Sessions -> SUBSET Actions]
         /\ current' \in [Sessions -> Actions \union {None}]
         /\ target' \in [Sessions -> Actions \union {None}]
         /\ interrupted' \in [Sessions -> BOOLEAN]
         /\ reported' \in [Actions -> Statuses]
<1> USE DEF schedVars, queueVars
<1>1. ASSUME NEW a \in Actions, HandleUpdate(s, state, a)
      PROVE  /\ updates' \in [Actions -> [status : Statuses, sent : BOOLEAN]]
             /\ wakeup' \in BOOLEAN
             /\ registered' = registered /\ assigned' = assigned
             /\ queue' \in [Sessions -> SUBSET Actions]
             /\ upload' \in [Sessions -> Actions \union {None}]
             /\ byId' \in [Sessions -> SUBSET Actions]
             /\ current' \in [Sessions -> Actions \union {None}]
             /\ reported' \in [Actions -> Statuses]
  <2> DEFINE never == IF state \in EndStates \ {"SUCCESS"} THEN Cancelable(s)
                      ELSE {}
             st == Both(a, ReportedAs(state), never)
  <2>1. st \in [Actions -> Statuses]
    BY ReportedAsType, StatusFunctions
  <2>2. Report(s, st, state # "RUNNING" /\ Queued(s) \ never = {})
    BY <1>1 DEF HandleUpdate
  <2>3. /\ IF never = {} THEN UNCHANGED queueVars ELSE CancelAll(s)
        /\ current' = IF state # "RUNNING" THEN [current EXCEPT ![s] = None]
                      ELSE current
    BY <1>1 DEF HandleUpdate
  <2> HIDE DEF never, st
  <2>4. /\ updates' \in [Actions -> [status : Statuses, sent : BOOLEAN]]
        /\ wakeup' \in BOOLEAN
        /\ registered' = registered /\ assigned' = assigned
        /\ reported' \in [Actions -> Statuses]
    BY <2>1, <2>2, ReportType
  <2>5. /\ queue' \in [Sessions -> SUBSET Actions]
        /\ upload' \in [Sessions -> Actions \union {None}]
        /\ byId' \in [Sessions -> SUBSET Actions]
        /\ current' \in [Sessions -> Actions \union {None}]
    <3>1. CASE never = {}
      BY <2>3, <3>1 DEF TypeOK
    <3>2. CASE never # {}
      <4>1. /\ queue' = [queue EXCEPT ![s] = queue[s] \ Cancelable(s)]
            /\ upload' = [upload EXCEPT ![s] = None]
            /\ byId' = [byId EXCEPT ![s] = byId[s] \ Cancelable(s)]
        BY <2>3, <3>2 DEF CancelAll
      <4>2. /\ queue[s] \ Cancelable(s) \in SUBSET Actions
            /\ byId[s] \ Cancelable(s) \in SUBSET Actions
        BY DEF TypeOK
      <4>3. queue' \in [Sessions -> SUBSET Actions]
        BY <4>1, <4>2, SetOfSessionType DEF TypeOK
      <4>4. byId' \in [Sessions -> SUBSET Actions]
        BY <4>1, <4>2, SetOfSessionType DEF TypeOK
      <4> QED BY <2>3, <4>1, <4>3, <4>4 DEF TypeOK
    <3> QED BY <3>1, <3>2
  <2> QED BY <2>4, <2>5
<1>2. CASE interrupted[s]
  BY <1>2 DEF Updated, TypeOK
<1>3. CASE ~ interrupted[s] /\ current[s] = None
  BY <1>3 DEF Updated, TypeOK
<1>4. CASE ~ interrupted[s] /\ current[s] # None /\ target[s] # None
  <2>1. target[s] \in Actions
    BY <1>4 DEF TypeOK
  <2> QED BY <1>1, <1>4, <2>1 DEF Updated, TypeOK
<1>5. CASE ~ interrupted[s] /\ current[s] # None /\ target[s] = None
  <2>1. current[s] \in Actions
    BY <1>5 DEF TypeOK
  <2>2. CASE state = "SUCCESS" /\ Kind[current[s]] = "TASK_RUN" /\ attached[s]
    <3>1. /\ QueueUpload(s)
          /\ UNCHANGED <<schedVars, queue, assigned, reported, interrupted>>
      BY <1>5, <2>2 DEF Updated
    <3>2. byId' \in [Sessions -> SUBSET Actions]
      <4>1. byId[s] \union {current[s]} \in SUBSET Actions
        BY <2>1 DEF TypeOK
      <4> QED BY <3>1, <4>1, SetOfSessionType DEF QueueUpload, TypeOK
    <3> QED BY <2>1, <3>1, <3>2 DEF QueueUpload, TypeOK
  <2>3. CASE ~ (state = "SUCCESS" /\ Kind[current[s]] = "TASK_RUN"
                /\ attached[s])
    <3>1. HandleUpdate(s, state, current[s]) /\ UNCHANGED <<target, interrupted>>
      BY <1>5, <2>3 DEF Updated
    <3> QED BY <1>1, <2>1, <3>1 DEF TypeOK
  <2> QED BY <2>2, <2>3
<1> QED BY <1>2, <1>3, <1>4, <1>5

LEMMA OpenjdType ==
  ASSUME TypeOK, NEW s \in Sessions, OpenjdThread(s)
  PROVE  TypeOK'
<1> USE DEF openjdVars, callbackFrame, stopVars, cleanVars
<1>1. CASE Progress(s)
  <2>1. Updated(s, "RUNNING")
    BY <1>1 DEF Progress
  <2> QED BY <1>1, <2>1, UpdatedType DEF Progress, TypeOK
<1>2. CASE ProcessesEnd(s)
  BY <1>2 DEF ProcessesEnd, ProcessEnds, TypeOK, schedVars, queueVars,
              runVars, history
<1>3. CASE Callback(s)
  <2>1. Updated(s, pendingCb[s]) /\ pendingCb[s] \in EndStates
    BY <1>3 DEF Callback, TypeOK
  <2> QED BY <1>3, <2>1, UpdatedType DEF Callback, TypeOK
<1> QED BY <1>1, <1>2, <1>3 DEF OpenjdThread

\* The steps of Session.run and Session._run.
LEMMA LoopType ==
  ASSUME TypeOK, NEW s \in Sessions,
         \/ Run(s) \/ CheckStop(s) \/ NothingToStart(s) \/ DequeueFails(s)
         \/ DequeueRaises(s) \/ StartAction(s) \/ StartFails(s)
  PROVE  TypeOK'
<1> USE DEF schedVars, queueVars, runVars, openjdVars, stopVars, cleanVars,
            history, Goto
<1>1. CASE Run(s)
  BY <1>1 DEF Run, TypeOK, PcStates
<1>2. CASE CheckStop(s)
  BY <1>2 DEF CheckStop, TypeOK, PcStates
<1>3. CASE NothingToStart(s)
  BY <1>3 DEF NothingToStart, TypeOK, PcStates
<1>4. CASE DequeueFails(s)
  <2> DEFINE st == One(Front(s), "FAILED")
  <2>1. st \in [Actions -> Statuses]
    <3>1. "FAILED" \in Statuses
      BY DEF Statuses, CompletedStatuses
    <3> QED BY <3>1, StatusFunctions
  <2>2. Report(s, st, FALSE)
    BY <1>4 DEF DequeueFails
  <2> HIDE DEF st
  <2>3. /\ updates' \in [Actions -> [status : Statuses, sent : BOOLEAN]]
        /\ reported' \in [Actions -> Statuses]
        /\ wakeup' \in BOOLEAN
        /\ registered' = registered /\ assigned' = assigned
    BY <2>1, <2>2, ReportType
  <2>4. refused' \in SUBSET {a \in Actions : "entity" \in Faults}
    <3>1. Queued(s) # {} /\ "entity" \in Faults
      BY <1>4 DEF DequeueFails, ReadyToStart, DetailsMissing
    <3>2. Front(s) \in Actions
      BY <3>1, FrontIn
    <3> QED BY <1>4, <3>1, <3>2 DEF DequeueFails, TypeOK
  <2> QED BY <1>4, <2>3, <2>4 DEF DequeueFails, TypeOK, PcStates
<1>5. CASE DequeueRaises(s)
  BY <1>5 DEF DequeueRaises, TypeOK, PcStates
<1>6. CASE StartAction(s)
  <2>1. Queued(s) # {} /\ ReadyToStart(s)
    BY <1>6 DEF StartAction, ReadyToStart
  <2>2. Front(s) \in Actions /\ EnvOf[Front(s)] \in Envs
    BY <2>1, FrontIn, ConstantsAssumption DEF ConstantsAssumption
  <2>3. envs' \in [Sessions -> Seq(Envs)] /\ attached' \in [Sessions -> BOOLEAN]
    <3>1. Append(envs[s], EnvOf[Front(s)]) \in Seq(Envs)
      BY <2>2, AppendProperties DEF TypeOK
    <3>2. envs[s] # <<>> => SubSeq(envs[s], 1, Len(envs[s]) - 1) \in Seq(Envs)
      BY FrontSeqType DEF TypeOK
    <3>3. upload[s] = None /\ Kind[Front(s)] = "ENV_EXIT" => envs[s] # <<>>
      BY <1>6 DEF StartAction, CanStart
    <3>4. attached' \in [Sessions -> BOOLEAN]
      BY <1>6 DEF StartAction, StartEffect, AttachedAfter, TypeOK
    <3>5. FrontKind(s) = "ENV_EXIT" => envs[s] # <<>>
      BY <3>3 DEF FrontKind
    <3>6. EnvsAfter(s) \in Seq(Envs)
      BY <3>1, <3>2, <3>5 DEF EnvsAfter, TypeOK
    <3> QED BY <1>6, <3>4, <3>6 DEF StartAction, StartEffect, TypeOK
  <2>4. fetched' \in [Sessions -> SUBSET Envs]
    BY <1>6, <2>2 DEF StartAction, Fetch, TypeOK
  <2>5. ran' \subseteq Actions
    BY <1>6, <2>2 DEF StartAction, StartEffect, WorkAfter, TypeOK
  <2> QED BY <1>6, <2>2, <2>3, <2>4, <2>5 DEF StartAction, Dequeue, TypeOK, PcStates
<1>7. CASE StartFails(s)
  <2>1. Queued(s) # {}
    BY <1>7 DEF StartFails, ReadyToStart
  <2>2. Front(s) \in Actions /\ EnvOf[Front(s)] \in Envs
    BY <2>1, FrontIn, ConstantsAssumption DEF ConstantsAssumption
  <2> DEFINE left   == Cancelable(s) \ {Front(s)}
             failed == IF target[s] # None THEN target[s] ELSE Front(s)
             st     == Both(failed, "FAILED", left)
  <2>3. st \in [Actions -> Statuses]
    <3>1. "FAILED" \in Statuses
      BY DEF Statuses, CompletedStatuses
    <3> HIDE DEF left, failed
    <3> QED BY <3>1, StatusFunctions
  <2>4. Report(s, st, FALSE)
    BY <1>7 DEF StartFails
  <2> HIDE DEF st
  <2>5. /\ updates' \in [Actions -> [status : Statuses, sent : BOOLEAN]]
        /\ reported' \in [Actions -> Statuses]
        /\ wakeup' \in BOOLEAN
        /\ registered' = registered /\ assigned' = assigned
    BY <2>3, <2>4, ReportType
  <2>6. fetched' \in [Sessions -> SUBSET Envs]
    BY <1>7, <2>2 DEF StartFails, Fetch, TypeOK
  <2>7. /\ queue' = [queue EXCEPT ![s] = @ \ (left \union {Front(s)})]
        /\ upload' = [upload EXCEPT ![s] = None]
        /\ byId' = [byId EXCEPT ![s] = @ \ (left \union {Front(s)})]
        /\ target' = [target EXCEPT ![s] = None]
        /\ attached' \in [Sessions -> BOOLEAN]
        /\ pc' = [pc EXCEPT ![s] = "check"]
        /\ UNCHANGED <<current, envs, openjdVars, stopVars, cleanVars, ran,
                       refused, interrupted, stopped>>
    BY <1>7 DEF StartFails, TypeOK
  <2> HIDE DEF left
  <2> QED BY <2>5, <2>6, <2>7 DEF TypeOK, PcStates
<1> QED BY <1>1, <1>2, <1>3, <1>4, <1>5, <1>6, <1>7

\* The steps of Session._cleanup and what follows it.
LEMMA CleanupType ==
  ASSUME TypeOK, NEW s \in Sessions,
         \/ Interrupt(s) \/ SnapshotQueue(s)
         \/ (\E a \in Actions : PopAction(s, a))
         \/ RemoveAction(s) \/ TellNeverAttempted(s) \/ PlanExits(s)
         \/ CancelRunning(s) \/ ExitEnvironment(s) \/ StepOver(s)
         \/ StepTimesOut(s) \/ StepsDone(s) \/ Close(s) \/ WakeScheduler(s)
         \/ Finish(s)
  PROVE  TypeOK'
<1> USE DEF schedVars, queueVars, runVars, openjdVars, stopVars, cleanVars,
            history, Goto
<1>1. CASE Interrupt(s)
  <2>1. CASE current[s] = None
    BY <1>1, <2>1 DEF Interrupt, TypeOK, PcStates
  <2>2. CASE current[s] # None
    <3>1. stopResult[s] \in Statuses
      BY DEF TypeOK, Statuses, CompletedStatuses
    <3>2. One(current[s], stopResult[s]) \in [Actions -> Statuses]
      BY <3>1, StatusFunctions
    <3>3. Report(s, One(current[s], stopResult[s]), FALSE)
      BY <1>1, <2>2 DEF Interrupt
    <3>4. /\ updates' \in [Actions -> [status : Statuses, sent : BOOLEAN]]
          /\ reported' \in [Actions -> Statuses]
          /\ wakeup' \in BOOLEAN
          /\ registered' = registered /\ assigned' = assigned
      BY <3>2, <3>3, ReportType
    <3> QED BY <1>1, <2>2, <3>4 DEF Interrupt, TypeOK, PcStates
  <2> QED BY <2>1, <2>2
<1>2. CASE SnapshotQueue(s)
  BY <1>2, QueuedType DEF SnapshotQueue, TypeOK, PcStates
<1>3. CASE \E a \in Actions : PopAction(s, a)
  <2>1. PICK a \in Actions : PopAction(s, a)
    BY <1>3
  <2>2. /\ victims' \in [Sessions -> SUBSET Actions]
        /\ byId' \in [Sessions -> SUBSET Actions]
    <3>1. victims[s] \ {a} \in SUBSET Actions /\ byId[s] \ {a} \in SUBSET Actions
      BY DEF TypeOK
    <3>2. victims' = [victims EXCEPT ![s] = victims[s] \ {a}]
          /\ byId' = [byId EXCEPT ![s] = byId[s] \ {a}]
      BY <2>1 DEF PopAction
    <3> QED BY <3>1, <3>2, SetOfSessionType DEF TypeOK
  <2>3. /\ popped' \in [Sessions -> Actions \union {None}]
        /\ pc' \in [Sessions -> PcStates]
    <3>1. CASE a \in byId[s]
      <4>1. /\ popped' = [popped EXCEPT ![s] = a]
            /\ pc' = [pc EXCEPT ![s] = "remove"]
        BY <2>1, <3>1 DEF PopAction
      <4> QED BY <4>1 DEF TypeOK, PcStates
    <3>2. CASE a \notin byId[s]
      BY <2>1, <3>2 DEF PopAction, TypeOK
    <3> QED BY <3>1, <3>2
  <2> QED BY <2>1, <2>2, <2>3 DEF PopAction, TypeOK
<1>4. CASE RemoveAction(s)
  BY <1>4 DEF RemoveAction, TypeOK, PcStates
<1>5. CASE TellNeverAttempted(s)
  <2>1. "NEVER_ATTEMPTED" \in Statuses
    BY DEF Statuses, CompletedStatuses
  <2>2. One(popped[s], "NEVER_ATTEMPTED") \in [Actions -> Statuses]
    BY <2>1, StatusFunctions
  <2>3. Report(s, One(popped[s], "NEVER_ATTEMPTED"), Idle(s))
    BY <1>5 DEF TellNeverAttempted
  <2>4. /\ updates' \in [Actions -> [status : Statuses, sent : BOOLEAN]]
        /\ reported' \in [Actions -> Statuses]
        /\ wakeup' \in BOOLEAN
        /\ registered' = registered /\ assigned' = assigned
    BY <2>2, <2>3, ReportType
  <2> QED BY <1>5, <2>4 DEF TellNeverAttempted, TypeOK, PcStates
<1>6. CASE PlanExits(s)
  BY <1>6 DEF PlanExits, TypeOK, PcStates
<1>7. CASE CancelRunning(s)
  BY <1>7 DEF CancelRunning, TypeOK, PcStates
<1>8. CASE ExitEnvironment(s)
  <2>1. SubSeq(exits[s], 1, Len(exits[s]) - 1) \in Seq(Envs)
    BY <1>8, FrontSeqType DEF ExitEnvironment, TypeOK
  <2> QED BY <1>8, <2>1 DEF ExitEnvironment, TypeOK, PcStates
<1>9. CASE StepOver(s)
  BY <1>9 DEF StepOver, TypeOK, PcStates
<1>10. CASE StepTimesOut(s)
  BY <1>10 DEF StepTimesOut, TypeOK, PcStates
<1>11. CASE StepsDone(s)
  BY <1>11 DEF StepsDone, TypeOK, PcStates
<1>12. CASE Close(s)
  BY <1>12 DEF Close, TypeOK, PcStates
<1>13. CASE WakeScheduler(s)
  BY <1>13 DEF WakeScheduler, TypeOK, PcStates
<1>14. CASE Finish(s)
  BY <1>14 DEF Finish, TypeOK, PcStates
<1> QED BY <1>1, <1>2, <1>3, <1>4, <1>5, <1>6, <1>7, <1>8, <1>9, <1>10, <1>11,
           <1>12, <1>13, <1>14

\* What the scheduler thread does to the Sessions.
LEMMA SchedulerType ==
  ASSUME TypeOK, NEW s \in Sessions, SchedulerThread(s)
  PROVE  TypeOK'
<1> USE DEF schedVars, queueVars, runVars, openjdVars, stopVars, cleanVars,
            history, threadFrame, syncFrame, Goto
<1>1. ASSUME NEW new \in SUBSET Own(s), Assign(s, new)
      PROVE  /\ assigned' \in SUBSET Actions
             /\ Unfinished(s) \in SUBSET Actions
             /\ ReplaceQueue(s, Unfinished(s)) =>
                  /\ queue' \in [Sessions -> SUBSET Actions]
                  /\ upload' \in [Sessions -> Actions \union {None}]
                  /\ byId' \in [Sessions -> SUBSET Actions]
  <2>1. assigned' \in SUBSET Actions /\ Unfinished(s) \in SUBSET Actions
    BY <1>1 DEF Assign, Own, Unfinished, TypeOK
  <2> SUFFICES ASSUME ReplaceQueue(s, Unfinished(s))
               PROVE  /\ queue' \in [Sessions -> SUBSET Actions]
                      /\ upload' \in [Sessions -> Actions \union {None}]
                      /\ byId' \in [Sessions -> SUBSET Actions]
    BY <2>1
  <2> DEFINE X == Unfinished(s) \ OptionalSet(current[s])
  <2>2. X \in SUBSET Actions
    BY <2>1
  <2>3. /\ queue' = [queue EXCEPT ![s] = X \ OptionalSet(upload[s])]
        /\ upload' = [upload EXCEPT ![s] = IF upload[s] \in X THEN upload[s]
                                           ELSE None]
        /\ byId' = [byId EXCEPT ![s] = byId[s] \union X]
    BY DEF ReplaceQueue
  <2> HIDE DEF X
  <2>4. X \ OptionalSet(upload[s]) \in SUBSET Actions
        /\ byId[s] \union X \in SUBSET Actions
    BY <2>2 DEF TypeOK
  <2>5. queue' \in [Sessions -> SUBSET Actions]
    BY <2>3, <2>4, SetOfSessionType DEF TypeOK
  <2>6. byId' \in [Sessions -> SUBSET Actions]
    BY <2>3, <2>4, SetOfSessionType DEF TypeOK
  <2> QED BY <2>3, <2>5, <2>6 DEF TypeOK
<1>2. ASSUME NEW new \in SUBSET Own(s), SubmitSession(s, new)
      PROVE  TypeOK'
  BY <1>1, <1>2 DEF SubmitSession, TypeOK, PcStates
<1>3. ASSUME NEW new \in SUBSET Own(s), FailSession(s, new)
      PROVE  TypeOK'
  <2> DEFINE st == [a \in Actions |-> IF a = First(Unfinished(s)) THEN "FAILED"
                                      ELSE "NEVER_ATTEMPTED"]
  <2>1. st \in [Actions -> Statuses]
    BY DEF Statuses, CompletedStatuses
  <2>2. Assign(s, new) /\ Record(Unfinished(s), st)
    BY <1>3 DEF FailSession
  <2> HIDE DEF st
  <2>3. /\ updates' \in [Actions -> [status : Statuses, sent : BOOLEAN]]
        /\ reported' \in [Actions -> Statuses]
        /\ wakeup' \in BOOLEAN
    BY <1>1, <2>1, <2>2, RecordType
  <2> QED BY <1>1, <1>3, <2>2, <2>3 DEF FailSession, TypeOK
<1>4. ASSUME NEW new \in SUBSET Own(s), NEW hit \in BOOLEAN,
             ReplaceActions(s, new, hit)
      PROVE  TypeOK'
  BY <1>1, <1>4 DEF ReplaceActions, TypeOK
<1>5. ASSUME NEW new \in SUBSET Own(s), NEW noted \in SUBSET Noted(s),
             ReturnActions(s, new, noted)
      PROVE  TypeOK'
  <2> DEFINE given == Unfinished(s) \union noted
             A  == {a \in given : updates[a].status = "none"}
             st == [a \in Actions |-> IF a = First(given) \/ Kind[a] = "ENV_EXIT"
                                      THEN "FAILED" ELSE "NEVER_ATTEMPTED"]
  <2>1. st \in [Actions -> Statuses]
    BY DEF Statuses, CompletedStatuses
  <2>2. Assign(s, new) /\ Record(A, st)
    BY <1>5 DEF ReturnActions
  <2>3. noted \in SUBSET Actions
    BY DEF Noted, Own
  <2>4. A \in SUBSET Actions
    BY <1>1, <2>2, <2>3
  <2> HIDE DEF given, A, st
  <2>5. /\ updates' \in [Actions -> [status : Statuses, sent : BOOLEAN]]
        /\ reported' \in [Actions -> Statuses]
        /\ wakeup' \in BOOLEAN
    BY <2>1, <2>2, <2>4, RecordType
  <2> QED BY <1>1, <1>5, <2>2, <2>5 DEF ReturnActions, TypeOK
<1>6. CASE RegisterSession(s)
  BY <1>6 DEF RegisterSession, TypeOK
<1>7. CASE CancelRaised(s)
  BY <1>7 DEF CancelRaised, TypeOK
<1>8. CASE \E how \in Stops : StopSession(s, how[1], how[2])
  <2>1. \A how \in Stops : /\ how[1] \in {"INTERRUPTED", "FAILED"}
                           /\ how[2] \in {"none", "left", "spent"}
    BY ConstantsAssumption DEF ConstantsAssumption
  <2> QED BY <1>8, <2>1 DEF StopSession, TypeOK
<1>9. CASE WakeLoop
  BY <1>9 DEF WakeLoop, TypeOK
<1>10. CASE ClearWakeup
  BY <1>10 DEF ClearWakeup, TypeOK
<1>11. CASE SnapshotUpdates
  <2>1. \A a \in Actions :
          [updates[a] EXCEPT !.sent = updates[a].status # "none"]
            \in [status : Statuses, sent : BOOLEAN]
    <3>1. ASSUME NEW r \in [status : Statuses, sent : BOOLEAN], NEW b \in BOOLEAN
          PROVE  [r EXCEPT !.sent = b] \in [status : Statuses, sent : BOOLEAN]
      OBVIOUS
    <3>2. \A a \in Actions : /\ updates[a] \in [status : Statuses, sent : BOOLEAN]
                             /\ (updates[a].status # "none") \in BOOLEAN
      BY DEF TypeOK
    <3> QED BY <3>1, <3>2
  <2> QED BY <1>11, <2>1 DEF SnapshotUpdates, TypeOK
<1>12. CASE CommitUpdates
  <2>1. NoUpdate \in [status : Statuses, sent : BOOLEAN]
    BY DEF NoUpdate, Statuses
  <2> QED BY <1>12, <2>1 DEF CommitUpdates, TypeOK
<1>13. CASE RemoveSession(s)
  BY <1>13 DEF RemoveSession, TypeOK
<1> QED BY <1>2, <1>3, <1>4, <1>5, <1>6, <1>7, <1>8, <1>9, <1>10, <1>11,
           <1>12, <1>13 DEF SchedulerThread

LEMMA TypeStutters ==
  ASSUME TypeOK, UNCHANGED vars
  PROVE  TypeOK'
BY DEF TypeOK, vars, schedVars, queueVars, runVars, openjdVars, stopVars,
       cleanVars, history

LEMMA TypeInit == Init => TypeOK
<1> SUFFICES ASSUME Init PROVE TypeOK
  OBVIOUS
<1>1. NoUpdate \in [status : Statuses, sent : BOOLEAN] /\ "none" \in Statuses
  BY DEF NoUpdate, Statuses
<1>2. <<>> \in Seq(Envs)
  OBVIOUS
<1> QED BY <1>1, <1>2 DEF Init, TypeOK, PcStates

\* Every step, of whatever thread, keeps the types.
LEMMA TypeStep == TypeOK /\ [Next]_vars => TypeOK'
<1> SUFFICES ASSUME TypeOK, [Next]_vars PROVE TypeOK'
  OBVIOUS
<1>1. ASSUME NEW s \in Sessions, SessionThread(s) PROVE TypeOK'
  BY <1>1, LoopType, CleanupType DEF SessionThread
<1>2. ASSUME NEW s \in Sessions, OpenjdThread(s) PROVE TypeOK'
  BY <1>2, OpenjdType
<1>3. ASSUME NEW s \in Sessions, SchedulerThread(s) PROVE TypeOK'
  BY <1>3, SchedulerType
<1> QED BY <1>1, <1>2, <1>3, TypeStutters DEF Next

\* Every variable of the Session, the queue, the openjd session and the map of
\* updates keeps its type: of the code's state, whatever the interleaving of
\* Session.run, update_action and the scheduler's calls.
THEOREM TypeCorrect == Spec => []TypeOK
<1> QED BY TypeInit, TypeStep, PTL DEF Spec
=============================================================================
