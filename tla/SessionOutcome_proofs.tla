------------------------ MODULE SessionOutcome_proofs ------------------------
(***************************************************************************)
(* Every action has one outcome: the proof that OutcomeInv is an invariant *)
(* of Session, and what follows from it.                                   *)
(***************************************************************************)
EXTENDS Session_proofs

(***************************************************************************)
(* What a step of one Session's threads, or of the scheduler on one        *)
(* Session, leaves alone in another Session s.                             *)
(***************************************************************************)
Untouched(s) ==
  /\ queue'[s] = queue[s] /\ upload'[s] = upload[s]
  /\ current'[s] = current[s] /\ target'[s] = target[s]
  /\ interrupted'[s] = interrupted[s] /\ pc'[s] = pc[s]
  /\ victims'[s] = victims[s] /\ popped'[s] = popped[s]
  /\ s \in registered' => s \in registered
  /\ assigned \subseteq assigned' /\ refused \subseteq refused'
  /\ \A a \in Own(s) : /\ reported'[a] = reported[a]
                       /\ a \in ran' => a \in ran

\* Outcomes that are final are kept.
OutcomesKept ==
  \A a \in Actions : Decided(a) => reported'[a] = reported[a]

\* What is proved of each action that concerns Session s.
GoodStep(s) ==
  /\ SessionInv(s)'
  /\ \A r \in Sessions \ {s} : Untouched(r)
  /\ OutcomesKept

LEMMA OwnDisjoint ==
  ASSUME NEW s \in Sessions, NEW r \in Sessions \ {s}
  PROVE  Own(s) \intersect Own(r) = {}
BY DEF Own

\* A step that leaves Session s untouched preserves its part of OutcomeInv.
LEMMA UntouchedInv ==
  ASSUME TypeOK, NEW s \in Sessions, SessionInv(s), Untouched(s)
  PROVE  SessionInv(s)'
<1>1. \A a \in Own(s) : Open(a) => Open(a)'
  BY DEF Untouched, Open, Decided, Refused, Completed
<1>2. HoldsOwn(s)'
  BY DEF SessionInv, HoldsOwn, Untouched, OptionalSet, Own
<1>3. UploadOfTask(s)'
  BY DEF SessionInv, UploadOfTask, Untouched
<1>4. /\ queue[s] \subseteq Own(s) /\ victims[s] \subseteq Own(s)
      /\ current[s] # None => current[s] \in Own(s)
      /\ target[s] # None => target[s] \in Own(s)
      /\ popped[s] # None => popped[s] \in Own(s)
      /\ upload[s] # None => upload[s] \in Own(s)
  BY DEF SessionInv, HoldsOwn, UploadOfTask, OptionalSet
<1>5. Queued(s)' = Queued(s) /\ Queued(s) \subseteq Own(s)
  BY <1>4 DEF Queued, OptionalSet, Untouched
<1>6. Undecided(s)'
  <2>1. Early(s)' = Early(s) /\ Refusing(s)' = Refusing(s)
    BY DEF Early, Refusing, Untouched
  <2> SUFFICES ASSUME Early(s), Undecided(s)
               PROVE  Undecided(s)'
    BY <2>1 DEF Undecided, SessionInv
  <2>2. \A a \in Own(s) : Completed(a)' <=> Completed(a)
    BY DEF Completed, Untouched
  <2>3. \A a \in Own(s) : Refused(a) => Refused(a)'
    BY DEF Refused, Untouched
  <2>4. \A a \in ran' \intersect Own(s) :
          Completed(a)' \/ a = current[s] \/ a = target[s]
    BY <2>2 DEF Undecided, Untouched
  <2> QED BY <1>4, <1>5, <2>1, <2>2, <2>3, <2>4 DEF Undecided, Untouched, Own
<1>7. Cancelling(s)'
  BY <1>1, <1>4, <1>5 DEF SessionInv, Cancelling, Untouched, Early
<1> QED BY <1>2, <1>3, <1>6, <1>7 DEF SessionInv

(***************************************************************************)
(* Steps that decide nothing.                                              *)
(***************************************************************************)
heldVars == <<queue, upload, current, target, interrupted, victims, popped>>

\* Nothing of what OutcomeInv is about changes, but for _sessions that shrinks.
LEMMA QuietStep ==
  ASSUME TypeOK, NEW s \in Sessions, SessionInv(s),
         UNCHANGED <<heldVars, pc, history>>, registered' \subseteq registered
  PROVE  GoodStep(s)
<1>1. \A r \in Sessions : Untouched(r)
  BY DEF heldVars, history, Untouched
<1>2. OutcomesKept
  BY DEF OutcomesKept, history
<1> QED BY <1>1, <1>2, UntouchedInv DEF GoodStep

\* Only the Session thread moves, on the same side of the interruption and
\* not into cancel_all.
LEMMA ThreadMoves ==
  ASSUME TypeOK, NEW s \in Sessions, SessionInv(s), NEW p,
         UNCHANGED <<heldVars, registered, history>>,
         pc' = [pc EXCEPT ![s] = p],
         p \notin {"new", "snapshot", "cancelAll", "remove", "tell"},
         Early(s) <=> p \in {"starting", "check", "start", "interrupt"},
         pc[s] # "interrupt"
  PROVE  GoodStep(s)
<1>1. \A r \in Sessions \ {s} : Untouched(r)
  BY DEF heldVars, history, Untouched, TypeOK
<1>2. OutcomesKept
  BY DEF OutcomesKept, history
<1>3. pc'[s] = p /\ (Early(s)' <=> Early(s))
  BY DEF Early, TypeOK
<1>5. HoldsOwn(s)'
  BY <1>3 DEF SessionInv, HoldsOwn, OptionalSet, Own, heldVars, history
<1>6. UploadOfTask(s)'
  BY DEF SessionInv, UploadOfTask, heldVars
<1>7. Undecided(s)'
  BY <1>3 DEF SessionInv, Undecided, Refusing, Queued, OptionalSet, Completed,
              Own, heldVars, history
<1>8. Cancelling(s)'
  BY <1>3 DEF SessionInv, Cancelling, heldVars
<1> QED BY <1>1, <1>2, <1>5, <1>6, <1>7, <1>8 DEF GoodStep, SessionInv

(***************************************************************************)
(* The main loop of the Session thread.                                    *)
(***************************************************************************)
\* A Session that has been submitted holds its Pos-ordered pipeline; what it
\* holds are actions.
LEMMA HeldOwn ==
  ASSUME TypeOK, NEW s \in Sessions, SessionInv(s)
  PROVE  /\ Queued(s) \subseteq Own(s) \intersect assigned
         /\ Cancelable(s) \subseteq Queued(s)
         /\ upload[s] # None => /\ upload[s] \in Own(s) \intersect assigned
                                /\ Kind[upload[s]] = "TASK_RUN"
         /\ target[s] # None => /\ target[s] \in Own(s) \intersect assigned
         /\ current[s] # None => current[s] \in Own(s) \intersect assigned
BY DEF SessionInv, HoldsOwn, UploadOfTask, Queued, Cancelable, OptionalSet,
       TypeOK

LEMMA StartActionGood ==
  ASSUME TypeOK, NEW s \in Sessions, SessionInv(s), StartAction(s)
  PROVE  GoodStep(s)
<1>1. /\ pc[s] = "start" /\ current[s] = None /\ Queued(s) # {}
  BY DEF StartAction, ReadyToStart
<1>2. PICK f \in Actions :
        /\ f = Front(s) /\ f \in Queued(s)
        /\ upload[s] = None => f \in queue[s]
        /\ upload[s] # None => f = upload[s]
  BY <1>1, FrontIn
<1>3. /\ queue' = [queue EXCEPT ![s] = queue[s] \ {f}]
      /\ upload' = [upload EXCEPT ![s] = None]
      /\ current' = [current EXCEPT ![s] = f]
      /\ ran' = IF upload[s] = None THEN ran \union {f} ELSE ran
      /\ pc' = [pc EXCEPT ![s] = "check"]
      /\ UNCHANGED <<target, interrupted, victims, popped, registered,
                     assigned, reported, refused>>
  <2>1. /\ queue' = [queue EXCEPT ![s] = queue[s] \ {Front(s)}]
        /\ upload' = [upload EXCEPT ![s] = None]
        /\ current' = [current EXCEPT ![s] = Front(s)]
        /\ ran' = IF upload[s] = None THEN ran \union {Front(s)} ELSE ran
        /\ pc' = [pc EXCEPT ![s] = "check"]
        /\ UNCHANGED <<target, interrupted, victims, popped, registered,
                       assigned, reported, refused>>
    BY DEF StartAction, StartEffect, WorkAfter, Dequeue, schedVars, cleanVars
  <2> QED BY <1>2, <2>1
<1>4. /\ Undecided(s) /\ HoldsOwn(s) /\ UploadOfTask(s) /\ Early(s)
      /\ Early(s)'
  BY <1>1, <1>3 DEF SessionInv, Early, TypeOK
<1>5. /\ queue'[s] = queue[s] \ {f} /\ upload'[s] = None /\ current'[s] = f
      /\ pc'[s] = "check" /\ target'[s] = target[s]
      /\ interrupted'[s] = interrupted[s]
  BY <1>3 DEF TypeOK
<1>6. f \in Own(s) \intersect assigned /\ ~ Completed(f) /\ f # None
  <2>1. f \in Own(s) \intersect assigned
    BY <1>2, HeldOwn
  <2>2. ~ Completed(f)
    BY <1>1, <1>2, <1>4 DEF Undecided, Refusing
  <2> QED BY <2>1, <2>2, ConstantsAssumption DEF ConstantsAssumption
<1>7. \A r \in Sessions \ {s} : Untouched(r)
  <2> TAKE r \in Sessions \ {s}
  <2>1. f \notin Own(r)
    BY <1>6, OwnDisjoint
  <2> QED BY <1>3, <2>1 DEF Untouched, TypeOK
<1>8. OutcomesKept
  BY <1>3 DEF OutcomesKept
<1>9. \A a \in Actions : Completed(a)' = Completed(a)
  BY <1>3 DEF Completed
<1>10. HoldsOwn(s)'
  BY <1>3, <1>4, <1>5, <1>6 DEF HoldsOwn, OptionalSet, Own
<1>11. target[s] # None => target[s] = f /\ upload[s] # None
  <2>1. target[s] \in {None, upload[s], current[s]}
    BY <1>4 DEF Undecided
  <2> QED BY <1>1, <1>2, <2>1
<1>12. UploadOfTask(s)'
  BY <1>4, <1>5, <1>11 DEF UploadOfTask
<1>13. Undecided(s)'
  <2>1. Queued(s)' = queue[s] \ {f}
    BY <1>5 DEF Queued, OptionalSet
  <2>2. queue[s] \subseteq Queued(s)
    BY DEF Queued
  <2>3. \A a \in ran' \intersect Own(s)' :
          Completed(a)' \/ a = current'[s] \/ a = target'[s]
    <3>1. \A a \in ran \intersect Own(s) : Completed(a) \/ a = target[s]
      BY <1>1, <1>4, ConstantsAssumption DEF Undecided, ConstantsAssumption, Own
    <3> QED BY <1>3, <1>5, <3>1 DEF Completed, Own
  <2>4. \A a \in Queued(s)' : ~ Completed(a)'
    BY <1>1, <1>3, <1>4, <2>1, <2>2 DEF Undecided, Refusing, Completed
  <2>5. ~ Completed(f)'
    BY <1>3, <1>6 DEF Completed
  <2>6. target'[s] # None => target'[s] = f
    BY <1>5, <1>11
  <2> QED BY <1>4, <1>5, <1>11, <2>1, <2>3, <2>4, <2>5, <2>6 DEF Undecided
<1>14. Cancelling(s)'
  BY <1>4, <1>5 DEF Cancelling
<1> QED BY <1>7, <1>8, <1>10, <1>12, <1>13, <1>14 DEF GoodStep, SessionInv

\* Every action the step completes is one of Session s that had no outcome.
DecidesOwn(s, st) ==
  \A a \in Actions : st[a] # "none" =>
    /\ a \in Own(s) /\ Open(a)
    /\ Completed(a) => st[a] \in CompletedStatuses

LEMMA ReportKeeps ==
  ASSUME TypeOK, NEW s \in Sessions, NEW st,
         DecidesOwn(s, st),
         reported' = [a \in Actions |-> IF st[a] = "none" THEN reported[a]
                                        ELSE st[a]]
  PROVE  /\ OutcomesKept
         /\ \A r \in Sessions \ {s} : \A a \in Own(r) : reported'[a] = reported[a]
<1>1. OutcomesKept
  BY DEF OutcomesKept, DecidesOwn, Open, Decided, Refused
<1>2. \A r \in Sessions \ {s} : \A a \in Own(r) : reported'[a] = reported[a]
  BY OwnDisjoint DEF DecidesOwn, Own
<1> QED BY <1>1, <1>2

\* A step before the interruption that reports st, and leaves Session s with
\* part of its queue q, perhaps its upload u, its running action c and the
\* task t of the upload, and nothing that st completes.
LEMMA DecisionGood ==
  ASSUME TypeOK, NEW s \in Sessions, SessionInv(s), Early(s),
         NEW st, DecidesOwn(s, st),
         reported' = [a \in Actions |-> IF st[a] = "none" THEN reported[a]
                                        ELSE st[a]],
         NEW q \in SUBSET queue[s], NEW u \in {None, upload[s]},
         NEW c \in {None, current[s]}, NEW t \in {None, target[s]},
         queue' = [queue EXCEPT ![s] = q],
         upload' = [upload EXCEPT ![s] = u],
         current' = [current EXCEPT ![s] = c],
         target' = [target EXCEPT ![s] = t],
         UNCHANGED <<interrupted, victims, popped, registered, assigned, ran>>,
         refused \subseteq refused',
         \/ pc' = pc
         \/ /\ pc[s] = "start"
            /\ \E p \in {"check", "interrupt"} : pc' = [pc EXCEPT ![s] = p],
         \A a \in q : st[a] \in CompletedStatuses =>
                      Refusing(s)' /\ a \in refused' /\ st[a] = "FAILED",
         \A a \in {u, c, t} \ {None} : st[a] \notin CompletedStatuses,
         u # None => u = t, t # None /\ c # None => c = t, t \in {None, u, c},
         \A a \in {current[s], target[s]} \ {None, c, t} :
           st[a] \in CompletedStatuses
  PROVE  GoodStep(s)
<1>1. /\ queue'[s] = q /\ upload'[s] = u /\ current'[s] = c /\ target'[s] = t
      /\ interrupted'[s] = interrupted[s] /\ victims'[s] = victims[s]
      /\ popped'[s] = popped[s]
  BY DEF TypeOK
<1>2. Early(s)' /\ (pc[s] # "new" => pc'[s] # "new")
      /\ (pc'[s] = "new" => pc[s] = "new")
  BY DEF Early, TypeOK
<1>3. /\ HoldsOwn(s) /\ UploadOfTask(s) /\ ~ interrupted[s]
      /\ \A a \in Queued(s) : Completed(a) => Refusing(s) /\ Refused(a)
      /\ current[s] # None => ~ Completed(current[s])
      /\ target[s] # None => ~ Completed(target[s])
      /\ current[s] # None => current[s] \notin Queued(s)
      /\ upload[s] # None => upload[s] \notin queue[s]
      /\ \A a \in ran \intersect Own(s) :
           Completed(a) \/ a = current[s] \/ a = target[s]
  BY DEF SessionInv, Undecided
<1>4. OutcomesKept /\ \A r \in Sessions \ {s} :
                        \A a \in Own(r) : reported'[a] = reported[a]
  BY ReportKeeps
<1>5. \A r \in Sessions \ {s} : Untouched(r)
  BY <1>4 DEF Untouched, TypeOK
<1>6. HoldsOwn(s)'
  BY <1>1, <1>2, <1>3 DEF HoldsOwn, OptionalSet, Own
<1>7. UploadOfTask(s)'
  BY <1>1, <1>3 DEF UploadOfTask
<1>8. \A a \in Actions : Completed(a)' =
        IF st[a] = "none" THEN Completed(a) ELSE st[a] \in CompletedStatuses
  BY DEF Completed
<1>9. /\ q \subseteq Actions /\ queue[s] \subseteq Queued(s)
      /\ \A a \in {u, c, t} \ {None} : a \in Actions /\ (a = u => u = t)
  BY <1>3, HeldOwn DEF Queued, OptionalSet, TypeOK, Own
<1>10. /\ \A a \in q : Completed(a)' => Refusing(s)' /\ Refused(a)'
       /\ \A a \in {u, c, t} \ {None} : ~ Completed(a)'
  <2>1. Refusing(s) => Refusing(s)'
    BY DEF Refusing
  <2>2. ASSUME NEW a \in q, Completed(a)'
        PROVE  Refusing(s)' /\ Refused(a)'
    <3>1. a \in Actions /\ a \in Queued(s)
      BY <1>9
    <3>2. CASE st[a] = "none"
      <4>1. Completed(a) /\ reported'[a] = reported[a]
        BY <1>8, <2>2, <3>1, <3>2
      <4> QED BY <1>3, <2>1, <3>1, <4>1 DEF Refused
    <3>3. CASE st[a] # "none"
      <4>1. st[a] \in CompletedStatuses /\ reported'[a] = st[a]
        BY <1>8, <2>2, <3>1, <3>3
      <4> QED BY <4>1 DEF Refused
    <3> QED BY <3>2, <3>3
  <2>3. \A a \in {u, c, t} \ {None} : ~ Completed(a)
    BY <1>3, <1>9
  <2> QED BY <1>8, <1>9, <2>2, <2>3
<1>11. ASSUME NEW a \in ran \intersect Own(s)
       PROVE  Completed(a)' \/ a = c \/ a = t
  <2>1. a \in Actions /\ a # None
    BY ConstantsAssumption DEF Own, ConstantsAssumption
  <2>2. CASE a \in {current[s], target[s]}
    BY <1>8, <2>1, <2>2 DEF CompletedStatuses
  <2>3. CASE a \notin {current[s], target[s]}
    <3>1. Completed(a)
      BY <1>3, <2>3
    <3> QED BY <1>8, <2>1, <3>1 DEF DecidesOwn
  <2> QED BY <2>2, <2>3
<1>12. Undecided(s)'
  <2>1. Queued(s)' = q \union OptionalSet(u)
    BY <1>1 DEF Queued
  <2>2. \A a \in Queued(s)' : Completed(a)' => Refusing(s)' /\ Refused(a)'
    BY <1>10, <2>1 DEF OptionalSet
  <2>3. c # None => c \notin Queued(s)'
    <3>1. c # None => c \notin Queued(s)
      BY <1>3
    <3>2. Queued(s)' \subseteq Queued(s)
      BY <2>1 DEF Queued, OptionalSet
    <3> QED BY <3>1, <3>2
  <2>4. u # None => u \notin q
    BY <1>3
  <2>5. /\ ~ interrupted'[s]
        /\ current'[s] # None => ~ Completed(c)'
        /\ target'[s] # None => ~ Completed(t)'
    BY <1>1, <1>3, <1>10
  <2>6. \A a \in (ran \intersect Own(s))' : Completed(a)' \/ a = c \/ a = t
    BY <1>11 DEF Own
  <2> QED BY <1>1, <2>2, <2>3, <2>4, <2>5, <2>6 DEF Undecided
<1>13. Cancelling(s)'
  BY <1>2 DEF Cancelling, Early
<1> QED BY <1>4, <1>5, <1>6, <1>7, <1>12, <1>13 DEF GoodStep, SessionInv

LEMMA DequeueFailsGood ==
  ASSUME TypeOK, NEW s \in Sessions, SessionInv(s), DequeueFails(s)
  PROVE  GoodStep(s)
<1>1. /\ pc[s] = "start" /\ current[s] = None /\ Queued(s) # {}
      /\ "entity" \in Faults
      /\ Early(s) /\ Undecided(s)
  BY DEF DequeueFails, ReadyToStart, DetailsMissing, SessionInv, Early
<1>2. PICK f \in Actions : f = Front(s) /\ f \in Queued(s)
  BY <1>1, FrontIn
<1>3. PICK st : st = One(Front(s), "FAILED")
  OBVIOUS
<1>4. /\ queue' = [queue EXCEPT ![s] = queue[s]]
      /\ upload' = [upload EXCEPT ![s] = upload[s]]
      /\ current' = [current EXCEPT ![s] = current[s]]
      /\ target' = [target EXCEPT ![s] = target[s]]
      /\ UNCHANGED <<interrupted, victims, popped, registered, assigned, ran>>
      /\ refused' = refused \union {f}
      /\ pc' = [pc EXCEPT ![s] = "interrupt"]
      /\ reported' = [a \in Actions |-> IF st[a] = "none" THEN reported[a]
                                        ELSE st[a]]
  <2>1. UNCHANGED <<queue, upload, current, target>>
    BY DEF DequeueFails, queueVars, runVars
  <2>2. /\ queue = [queue EXCEPT ![s] = queue[s]]
        /\ upload = [upload EXCEPT ![s] = upload[s]]
        /\ current = [current EXCEPT ![s] = current[s]]
        /\ target = [target EXCEPT ![s] = target[s]]
    BY DEF TypeOK
  <2> QED BY <1>2, <1>3, <2>1, <2>2 DEF DequeueFails, Report, cleanVars
<1>5. \A a \in Actions : st[a] = IF a = f THEN "FAILED" ELSE "none"
  BY <1>2, <1>3 DEF One
<1>6. DecidesOwn(s, st)
  <2>1. f \in Own(s) /\ ~ Completed(f)
    BY <1>1, <1>2, HeldOwn DEF Undecided, Refusing
  <2> QED BY <1>5, <2>1 DEF DecidesOwn, Open, Decided
<1>7. \A a \in queue[s] : st[a] \in CompletedStatuses =>
                          Refusing(s)' /\ a \in refused' /\ st[a] = "FAILED"
  <2>1. Refusing(s)' /\ f \in refused' /\ queue[s] \subseteq Actions
    BY <1>4 DEF Refusing, TypeOK
  <2> QED BY <1>1, <1>5, <2>1 DEF CompletedStatuses
<1>8. upload[s] = None /\ current[s] = None /\ target[s] = None
  BY <1>1 DEF Undecided, DequeueFails, DetailsMissing
<1> QED BY <1>1, <1>4, <1>6, <1>7, <1>8, DecisionGood

LEMMA StartFailsGood ==
  ASSUME TypeOK, NEW s \in Sessions, SessionInv(s), StartFails(s)
  PROVE  GoodStep(s)
<1>1. /\ pc[s] = "start" /\ current[s] = None /\ Queued(s) # {}
      /\ Early(s) /\ Undecided(s)
  BY DEF StartFails, ReadyToStart, SessionInv, Early
<1>2. PICK f \in Actions :
        /\ f = Front(s) /\ f \in Queued(s)
        /\ upload[s] = None => f \in queue[s]
        /\ upload[s] # None => f = upload[s]
  BY <1>1, FrontIn
<1>3. PICK left : left = Cancelable(s) \ {f}
  OBVIOUS
<1>4. PICK failed : failed = IF target[s] # None THEN target[s] ELSE f
  OBVIOUS
<1>5. PICK st : st = Both(failed, "FAILED", left)
  OBVIOUS
<1>6. PICK q : q = queue[s] \ (left \union {f})
  OBVIOUS
<1>7. target[s] \in {None, upload[s]} /\ failed = f
  <2>1. target[s] \in {None, upload[s]}
    BY <1>1 DEF Undecided
  <2> QED BY <1>2, <1>4, <2>1
<1>8. /\ queue' = [queue EXCEPT ![s] = q]
      /\ upload' = [upload EXCEPT ![s] = None]
      /\ current' = [current EXCEPT ![s] = current[s]]
      /\ target' = [target EXCEPT ![s] = None]
      /\ UNCHANGED <<interrupted, victims, popped, registered, assigned, ran, refused>>
      /\ pc' = [pc EXCEPT ![s] = "check"]
      /\ reported' = [a \in Actions |-> IF st[a] = "none" THEN reported[a]
                                        ELSE st[a]]
  <2>1. /\ UNCHANGED current
        /\ current = [current EXCEPT ![s] = current[s]]
    BY DEF StartFails, TypeOK
  <2>2. /\ left = Cancelable(s) \ {Front(s)}
        /\ failed = IF target[s] # None THEN target[s] ELSE Front(s)
        /\ q = queue[s] \ (left \union {Front(s)})
    BY <1>2, <1>3, <1>4, <1>6
  <2> QED BY <1>5, <2>1, <2>2 DEF StartFails, Report, cleanVars
<1>9. /\ \A a \in Actions : st[a] # "none" => a = f \/ a \in left
      /\ st[f] = "FAILED"
  BY <1>2, <1>3, <1>5, <1>7 DEF Both
<1>10. DecidesOwn(s, st)
  BY <1>1, <1>2, <1>3, <1>9, HeldOwn DEF DecidesOwn, Undecided, Refusing, Open, Decided, Refused
<1>11. q \in SUBSET queue[s] /\ queue[s] \subseteq Actions
  BY <1>6 DEF TypeOK
<1>12. \A a \in q : st[a] \notin CompletedStatuses
  BY <1>6, <1>9, <1>11 DEF CompletedStatuses
<1>13. \A a \in {current[s], target[s]} \ {None} : st[a] \in CompletedStatuses
  BY <1>1, <1>2, <1>7, <1>9 DEF CompletedStatuses
<1> QED BY <1>1, <1>8, <1>10, <1>11, <1>12, <1>13, DecisionGood

(***************************************************************************)
(* The callback.                                                           *)
(***************************************************************************)
LEMMA ReportedAsCompletes ==
  /\ ReportedAs("RUNNING") \notin CompletedStatuses
  /\ \A state \in EndStates : ReportedAs(state) \in CompletedStatuses
BY DEF ReportedAs, EndStates, CompletedStatuses

LEMMA HandleUpdateGood ==
  ASSUME TypeOK, NEW s \in Sessions, SessionInv(s), ~ interrupted[s],
         current[s] # None, NEW state \in EndStates \union {"RUNNING"},
         HandleUpdate(s, state, current[s]),
         target[s] # None => state # "RUNNING",
         target' = [target EXCEPT ![s] = None],
         UNCHANGED <<callbackFrame, interrupted>>
  PROVE  GoodStep(s)
<1>1. Early(s) /\ Undecided(s) /\ UploadOfTask(s)
  BY DEF SessionInv, Cancelling
<1>2. upload[s] = None /\ target[s] \in {None, current[s]}
  BY <1>1 DEF Undecided, UploadOfTask, Queued, OptionalSet
<1>3. PICK never : never = IF state \in EndStates \ {"SUCCESS"}
                           THEN Cancelable(s) ELSE {}
  OBVIOUS
<1>4. PICK st : st = Both(current[s], ReportedAs(state), never)
  OBVIOUS
<1>5. PICK c : c = IF state # "RUNNING" THEN None ELSE current[s]
  OBVIOUS
<1>6. PICK q : q = queue[s] \ never
  OBVIOUS
<1>7. /\ queue' = [queue EXCEPT ![s] = q]
      /\ upload' = [upload EXCEPT ![s] = None]
      /\ current' = [current EXCEPT ![s] = c]
      /\ reported' = [a \in Actions |-> IF st[a] = "none" THEN reported[a]
                                        ELSE st[a]]
      /\ UNCHANGED <<interrupted, victims, popped, registered, assigned, ran,
                     refused, pc>>
  <2>1. /\ IF never = {} THEN UNCHANGED queueVars ELSE CancelAll(s)
        /\ current' = IF state # "RUNNING" THEN [current EXCEPT ![s] = None]
                                           ELSE current
        /\ Report(s, st, state # "RUNNING" /\ Queued(s) \ never = {})
    BY <1>3, <1>4 DEF HandleUpdate
  <2>2. current' = [current EXCEPT ![s] = c]
    BY <1>5, <2>1 DEF TypeOK
  <2>3. /\ queue' = [queue EXCEPT ![s] = q]
        /\ upload' = [upload EXCEPT ![s] = None]
    <3>1. CASE never = {}
      BY <1>2, <1>6, <2>1, <3>1 DEF queueVars, TypeOK
    <3>2. CASE never # {}
      BY <1>3, <1>6, <2>1, <3>2 DEF CancelAll
    <3> QED BY <3>1, <3>2
  <2> QED BY <2>1, <2>2, <2>3 DEF Report, callbackFrame, cleanVars
<1>8. /\ current[s] \in Own(s) /\ current[s] \in Actions
      /\ current[s] \notin Queued(s) /\ ~ Completed(current[s])
      /\ never \subseteq Queued(s) /\ queue[s] \subseteq Queued(s)
      /\ queue[s] \subseteq Actions
  <2>1. current[s] \in Own(s) /\ never \subseteq Queued(s)
    BY <1>3, HeldOwn
  <2> QED BY <1>1, <2>1 DEF Own, Undecided, Queued, TypeOK
<1>9. /\ \A a \in Actions : st[a] # "none" => a = current[s] \/ a \in never
      /\ \A a \in q : st[a] = "none"
      /\ st[current[s]] = ReportedAs(state)
  BY <1>4, <1>6, <1>8 DEF Both
<1>10. DecidesOwn(s, st)
  <2>1. \A a \in never : Open(a)
    BY <1>1, <1>8 DEF Undecided, Refusing, Open, Decided, Refused
  <2>2. \A a \in never : a # current[s] => st[a] = "NEVER_ATTEMPTED"
    BY <1>4, <1>8, HeldOwn DEF Both, Own
  <2> QED BY <1>8, <1>9, <2>1, <2>2, HeldOwn
          DEF DecidesOwn, Open, Decided, Refused, CompletedStatuses
<1>11. \A a \in q : st[a] \notin CompletedStatuses
  BY <1>9 DEF CompletedStatuses
<1>12. \A a \in {None, c, None} \ {None} : st[a] \notin CompletedStatuses
  BY <1>5, <1>9, ReportedAsCompletes
<1>13. \A a \in {current[s], target[s]} \ {None, c, None} :
         st[a] \in CompletedStatuses
  BY <1>2, <1>5, <1>9, ReportedAsCompletes
<1>14. q \in SUBSET queue[s] /\ c \in {None, current[s]}
  BY <1>5, <1>6
<1> QED BY <1>1, <1>7, <1>10, <1>11, <1>12, <1>13, <1>14, DecisionGood

LEMMA QueueUploadGood ==
  ASSUME TypeOK, NEW s \in Sessions, SessionInv(s), ~ interrupted[s],
         current[s] # None, target[s] = None,
         Kind[current[s]] = "TASK_RUN", QueueUpload(s),
         UNCHANGED <<schedVars, queue, assigned, reported, callbackFrame,
                     interrupted>>
  PROVE  GoodStep(s)
<1>1. Early(s) /\ Undecided(s) /\ UploadOfTask(s) /\ HoldsOwn(s)
  BY DEF SessionInv, Cancelling
<1>2. UNCHANGED <<queue, reported, assigned, registered, ran, refused, victims,
                  popped, pc, interrupted>>
  BY DEF schedVars, callbackFrame, cleanVars
<1>3. /\ upload' = [upload EXCEPT ![s] = current[s]]
      /\ target' = [target EXCEPT ![s] = current[s]]
      /\ current' = [current EXCEPT ![s] = None]
  BY DEF QueueUpload
<1>4. /\ upload'[s] = current[s] /\ target'[s] = current[s]
      /\ current'[s] = None
  BY <1>3 DEF TypeOK
<1>5. OutcomesKept /\ \A r \in Sessions \ {s} : Untouched(r)
  BY <1>2, <1>3 DEF OutcomesKept, Untouched, TypeOK
<1>6. HoldsOwn(s)'
  BY <1>1, <1>2, <1>4 DEF HoldsOwn, OptionalSet, Own
<1>7. UploadOfTask(s)'
  BY <1>1, <1>4 DEF UploadOfTask
<1>8. Undecided(s)'
  <2>1. /\ \A a \in Actions : /\ Completed(a)' = Completed(a)
                                /\ Refused(a)' = Refused(a)
        /\ Refusing(s)' = Refusing(s)
    BY <1>2 DEF Completed, Refused, Refusing
  <2>2. Queued(s)' = queue[s] \union {current[s]}
    BY <1>2, <1>4 DEF Queued, OptionalSet
  <2>3. \A a \in Queued(s)' : Completed(a)' => Refusing(s)' /\ Refused(a)'
    BY <1>1, <1>2, <2>1, <2>2 DEF Undecided, Queued, TypeOK
  <2>4. \A a \in (ran \intersect Own(s))' :
          Completed(a)' \/ a = current'[s] \/ a = target'[s]
    <3>1. \A a \in ran \intersect Own(s) : Completed(a) \/ a = current[s]
      BY <1>1, ConstantsAssumption DEF Undecided, ConstantsAssumption, Own
    <3> QED BY <1>2, <1>4, <2>1, <3>1 DEF Own
  <2>5. /\ current[s] \notin queue[s] /\ current[s] \in Actions
        /\ ~ Completed(current[s])
    BY <1>1 DEF Undecided, Queued, TypeOK
  <2> QED BY <1>1, <1>2, <1>4, <2>1, <2>3, <2>4, <2>5 DEF Undecided
<1>9. Cancelling(s)'
  BY <1>1, <1>2 DEF Cancelling, Early
<1> QED BY <1>5, <1>6, <1>7, <1>8, <1>9 DEF GoodStep, SessionInv

LEMMA UpdatedGood ==
  ASSUME TypeOK, NEW s \in Sessions, SessionInv(s),
         NEW state \in EndStates \union {"RUNNING"},
         Updated(s, state), UNCHANGED callbackFrame
  PROVE  GoodStep(s)
<1>1. UNCHANGED <<victims, popped, pc, ran, refused>>
  BY DEF callbackFrame, cleanVars
<1>2. CASE /\ interrupted[s] /\ state # "RUNNING"
           /\ current' = [current EXCEPT ![s] = None]
           /\ interrupted' = [interrupted EXCEPT ![s] = FALSE]
           /\ UNCHANGED <<schedVars, queueVars, target, assigned, reported>>
  <2>1. ~ Early(s) /\ ~ Early(s)'
    BY <1>1, <1>2 DEF SessionInv, Undecided, Early
  <2>2. UNCHANGED <<queue, upload, target, registered, assigned, reported>>
    BY <1>2 DEF schedVars, queueVars
  <2>3. current'[s] = None
    BY <1>2 DEF TypeOK
  <2>4. OutcomesKept /\ \A r \in Sessions \ {s} : Untouched(r)
    BY <1>1, <1>2, <2>2 DEF OutcomesKept, Untouched, TypeOK
  <2>5. HoldsOwn(s)' /\ UploadOfTask(s)'
    BY <1>1, <2>2, <2>3 DEF SessionInv, HoldsOwn, UploadOfTask, OptionalSet, Own
  <2>6. Undecided(s)'
    BY <2>1 DEF Undecided
  <2>7. Cancelling(s)'
    BY <1>1, <2>2, <2>3 DEF SessionInv, Cancelling, Open, Decided, Refused, Completed, Queued
  <2> QED BY <2>4, <2>5, <2>6, <2>7 DEF GoodStep, SessionInv
<1>3. CASE UNCHANGED <<schedVars, queueVars, current, target, assigned,
                       reported, interrupted>>
  BY <1>1, <1>3, QuietStep DEF schedVars, queueVars, heldVars, history
<1>4. CASE /\ ~ interrupted[s] /\ current[s] # None /\ target[s] # None
           /\ state # "RUNNING" /\ HandleUpdate(s, state, target[s])
           /\ target' = [target EXCEPT ![s] = None] /\ UNCHANGED interrupted
  <2>1. target[s] = current[s]
    BY <1>4 DEF SessionInv, UploadOfTask
  <2> QED BY <1>4, <2>1, HandleUpdateGood
<1>5. CASE /\ ~ interrupted[s] /\ current[s] # None /\ target[s] = None
           /\ HandleUpdate(s, state, current[s])
           /\ UNCHANGED <<target, interrupted>>
  <2>1. target' = [target EXCEPT ![s] = None]
    BY <1>5 DEF TypeOK
  <2> QED BY <1>5, <2>1, HandleUpdateGood
<1>6. CASE /\ ~ interrupted[s] /\ current[s] # None /\ target[s] = None
           /\ Kind[current[s]] = "TASK_RUN" /\ QueueUpload(s)
           /\ UNCHANGED <<schedVars, queue, assigned, reported, interrupted>>
  BY <1>6, QueueUploadGood
<1> QED BY <1>2, <1>3, <1>4, <1>5, <1>6 DEF Updated

LEMMA OpenjdGood ==
  ASSUME TypeOK, NEW s \in Sessions, SessionInv(s), OpenjdThread(s)
  PROVE  GoodStep(s)
<1>1. CASE Progress(s)
  BY <1>1, UpdatedGood DEF Progress
<1>2. CASE ProcessesEnd(s)
  BY <1>2, QuietStep DEF ProcessesEnd, ProcessEnds, heldVars, history,
       schedVars, queueVars, runVars, cleanVars
<1>3. CASE Callback(s)
  <2>1. pendingCb[s] \in EndStates
    BY <1>3 DEF Callback, TypeOK
  <2> QED BY <1>3, <2>1, UpdatedGood DEF Callback
<1> QED BY <1>1, <1>2, <1>3 DEF OpenjdThread

(***************************************************************************)
(* The clean-up.                                                           *)
(***************************************************************************)
LEMMA QuietThreadGood ==
  ASSUME TypeOK, NEW s \in Sessions, SessionInv(s),
         \/ Run(s) \/ CheckStop(s) \/ NothingToStart(s) \/ DequeueRaises(s)
         \/ PlanExits(s) \/ CancelRunning(s) \/ ExitEnvironment(s)
         \/ StepOver(s) \/ StepTimesOut(s) \/ StepsDone(s) \/ Close(s)
         \/ WakeScheduler(s) \/ Finish(s)
  PROVE  GoodStep(s)
<1>1. UNCHANGED <<heldVars, registered, history>>
  BY DEF Run, CheckStop, NothingToStart, DequeueRaises, PlanExits,
         CancelRunning, ExitEnvironment, StepOver, StepTimesOut, StepsDone,
         Close, WakeScheduler, Finish, heldVars, schedVars, queueVars,
         runVars, cleanVars, history
<1>2. PICK p :
        /\ pc' = [pc EXCEPT ![s] = p]
        /\ \/ /\ pc[s] \in {"starting", "check", "start"}
              /\ p \in {"check", "start", "interrupt"}
           \/ /\ pc[s] \in {"cancelAll", "steps", "wait", "closing", "closed",
                            "exiting"}
              /\ p \in {"steps", "wait", "closing", "closed", "exiting", "done"}
  BY DEF Run, CheckStop, NothingToStart, DequeueRaises, ReadyToStart,
         PlanExits, CancelRunning, ExitEnvironment, StepOver, StepTimesOut,
         StepsDone, Close, WakeScheduler, Finish, Goto
<1>3. /\ p \notin {"new", "snapshot", "cancelAll", "remove", "tell"}
      /\ pc[s] # "interrupt"
      /\ Early(s) <=> p \in {"starting", "check", "start", "interrupt"}
  BY <1>2 DEF Early
<1> QED BY <1>1, <1>2, <1>3, ThreadMoves

\* A step from or into the clean-up: what is left to prove is Cancelling.
LEMMA LateStep ==
  ASSUME TypeOK, NEW s \in Sessions, SessionInv(s), OutcomesKept,
         \A r \in Sessions \ {s} : \A a \in Own(r) : reported'[a] = reported[a],
         queue' = [queue EXCEPT ![s] = queue'[s]], queue'[s] \subseteq queue[s],
         upload' = [upload EXCEPT ![s] = upload'[s]],
         upload'[s] \in {None, upload[s]},
         victims' = [victims EXCEPT ![s] = victims'[s]],
         victims'[s] \subseteq Own(s),
         popped' = [popped EXCEPT ![s] = popped'[s]],
         OptionalSet(popped'[s]) \subseteq Own(s),
         interrupted' = [interrupted EXCEPT ![s] = interrupted'[s]],
         pc' = [pc EXCEPT ![s] = pc'[s]], pc[s] # "new",
         pc'[s] \notin {"new", "starting", "check", "start", "interrupt"},
         UNCHANGED <<current, target, registered, assigned, ran, refused>>,
         Cancelling(s)'
  PROVE  GoodStep(s)
<1>1. \A r \in Sessions \ {s} : Untouched(r)
  BY DEF Untouched, TypeOK
<1>2. HoldsOwn(s)'
  BY DEF SessionInv, HoldsOwn, OptionalSet, Own
<1>3. UploadOfTask(s)'
  BY DEF SessionInv, UploadOfTask
<1>4. Undecided(s)'
  BY DEF Undecided, Early
<1> QED BY <1>1, <1>2, <1>3, <1>4 DEF GoodStep, SessionInv

LEMMA InterruptGood ==
  ASSUME TypeOK, NEW s \in Sessions, SessionInv(s), Interrupt(s)
  PROVE  GoodStep(s)
<1>1. /\ pc[s] = "interrupt" /\ pc' = [pc EXCEPT ![s] = "snapshot"]
      /\ Early(s) /\ Undecided(s) /\ HoldsOwn(s)
      /\ pc'[s] = "snapshot"
  BY DEF Interrupt, Goto, Early, SessionInv, TypeOK
<1>2. /\ queue' = [queue EXCEPT ![s] = queue[s]]
      /\ upload' = [upload EXCEPT ![s] = upload[s]]
      /\ victims' = [victims EXCEPT ![s] = victims[s]]
      /\ popped' = [popped EXCEPT ![s] = popped[s]]
      /\ UNCHANGED <<queue, upload, current, target, victims, popped,
                     registered, assigned, ran, refused>>
  <2>1. UNCHANGED <<queue, upload, current, target, victims, popped,
                    registered, assigned, ran, refused>>
    BY DEF Interrupt, queueVars, runVars, schedVars, Report
  <2> QED BY <2>1 DEF TypeOK
<1>3. PICK i : interrupted' = [interrupted EXCEPT ![s] = i]
               /\ (current[s] # None => i = TRUE)
  <2>1. CASE current[s] = None
    BY <2>1 DEF Interrupt, TypeOK
  <2>2. CASE current[s] # None
    BY <2>2 DEF Interrupt
  <2> QED BY <2>1, <2>2
<1>4. /\ OutcomesKept
      /\ \A r \in Sessions \ {s} : \A a \in Own(r) : reported'[a] = reported[a]
      /\ \A a \in Actions : a # current[s] => reported'[a] = reported[a]
  <2>1. CASE current[s] = None
    BY <2>1 DEF Interrupt, OutcomesKept
  <2>2. CASE current[s] # None
    <3>1. PICK st : st = One(current[s], stopResult[s])
      OBVIOUS
    <3>2. reported' = [a \in Actions |-> IF st[a] = "none" THEN reported[a]
                                         ELSE st[a]]
      BY <2>2, <3>1 DEF Interrupt, Report
    <3>3. \A a \in Actions : a # current[s] => st[a] = "none"
      BY <3>1 DEF One
    <3>4. current[s] \in Own(s) /\ ~ Completed(current[s])
      BY <1>1, <2>2, HeldOwn DEF Undecided
    <3>5. DecidesOwn(s, st)
      BY <3>3, <3>4 DEF DecidesOwn, Open, Decided, Refused
    <3> QED BY <3>2, <3>3, <3>5, ReportKeeps
  <2> QED BY <2>1, <2>2
<1>5. Cancelling(s)'
  <2>1. \A a \in Queued(s) : a \in Actions /\ a # current[s] /\ Open(a)
    BY <1>1, HeldOwn, ConstantsAssumption
       DEF Undecided, Refusing, Open, Decided, Refused, Own, ConstantsAssumption
  <2>2. Queued(s)' = Queued(s)
    BY <1>2 DEF Queued
  <2>3. \A a \in Queued(s)' : Open(a)'
    BY <1>2, <1>4, <2>1, <2>2 DEF Open, Decided, Refused, Completed
  <2>4. current'[s] # None => interrupted'[s]
    BY <1>2, <1>3 DEF TypeOK
  <2> QED BY <1>1, <2>3, <2>4 DEF Cancelling
<1>6. victims[s] \in SUBSET Own(s) /\ OptionalSet(popped[s]) \subseteq Own(s)
  BY <1>1 DEF HoldsOwn
<1> QED BY <1>1, <1>2, <1>3, <1>4, <1>5, <1>6, LateStep

LEMMA SnapshotQueueGood ==
  ASSUME TypeOK, NEW s \in Sessions, SessionInv(s), SnapshotQueue(s)
  PROVE  GoodStep(s)
<1>1. /\ pc[s] = "snapshot" /\ pc' = [pc EXCEPT ![s] = "cancelAll"]
      /\ pc'[s] = "cancelAll" /\ Cancelling(s) /\ HoldsOwn(s)
  BY DEF SnapshotQueue, Goto, SessionInv, TypeOK
<1>2. PICK v \in SUBSET Queued(s) : v = Cancelable(s)
  BY HeldOwn
<1>3. /\ victims' = [victims EXCEPT ![s] = v] /\ victims'[s] = v
      /\ queue' = [queue EXCEPT ![s] = queue[s]]
      /\ upload' = [upload EXCEPT ![s] = upload[s]]
      /\ popped' = [popped EXCEPT ![s] = popped[s]]
      /\ interrupted' = [interrupted EXCEPT ![s] = interrupted[s]]
      /\ UNCHANGED <<queue, upload, current, target, popped, interrupted,
                     registered, assigned, ran, refused, reported>>
  BY <1>2 DEF SnapshotQueue, queueVars, runVars, schedVars, history, TypeOK
<1>4. /\ OutcomesKept
      /\ \A r \in Sessions \ {s} : \A a \in Own(r) : reported'[a] = reported[a]
  BY <1>3 DEF OutcomesKept
<1>5. Cancelling(s)'
  <2>1. \A a \in v : Open(a)'
    BY <1>1, <1>2, <1>3 DEF Cancelling, Open, Decided, Refused, Completed
  <2>2. current'[s] # None => interrupted'[s]
    BY <1>1, <1>3 DEF Cancelling, Early
  <2> QED BY <1>1, <1>3, <2>1, <2>2 DEF Cancelling
<1>6. v \in SUBSET Own(s) /\ OptionalSet(popped[s]) \subseteq Own(s)
  BY <1>1, <1>2, HeldOwn DEF HoldsOwn
<1> QED BY <1>1, <1>3, <1>4, <1>5, <1>6, LateStep

LEMMA PopActionGood ==
  ASSUME TypeOK, NEW s \in Sessions, SessionInv(s), NEW a \in Actions,
         PopAction(s, a)
  PROVE  GoodStep(s)
<1>1. /\ pc[s] = "cancelAll" /\ Cancelling(s) /\ HoldsOwn(s) /\ a \in victims[s]
  BY DEF PopAction, SessionInv
<1>2. PICK v : v = victims[s] \ {a}
  OBVIOUS
<1>3. /\ victims' = [victims EXCEPT ![s] = v] /\ victims'[s] = v
      /\ queue' = [queue EXCEPT ![s] = queue[s]]
      /\ upload' = [upload EXCEPT ![s] = upload[s]]
      /\ interrupted' = [interrupted EXCEPT ![s] = interrupted[s]]
      /\ UNCHANGED <<queue, upload, current, target, interrupted,
                     registered, assigned, ran, refused, reported>>
  BY <1>2 DEF PopAction, runVars, schedVars, history, TypeOK
<1>4. /\ OutcomesKept
      /\ \A r \in Sessions \ {s} : \A b \in Own(r) : reported'[b] = reported[b]
  BY <1>3 DEF OutcomesKept
<1>5. /\ \A b \in victims[s] : Open(b)'
      /\ a \in Own(s) /\ a # None /\ a \notin v
      /\ v \in SUBSET Own(s) /\ v \subseteq victims[s]
      /\ OptionalSet(popped[s]) \subseteq Own(s)
  <2>1. \A b \in victims[s] : Open(b)'
    BY <1>1, <1>3 DEF Cancelling, Open, Decided, Refused, Completed
  <2>2. a # None
    BY ConstantsAssumption DEF ConstantsAssumption
  <2> QED BY <1>1, <1>2, <2>1, <2>2 DEF HoldsOwn
<1>6. current'[s] # None => interrupted'[s]
  BY <1>1, <1>3 DEF Cancelling, Early
<1>7. CASE a \in byId[s]
  <2>1. /\ popped' = [popped EXCEPT ![s] = a] /\ popped'[s] = a
        /\ pc' = [pc EXCEPT ![s] = "remove"] /\ pc'[s] = "remove"
    BY <1>7 DEF PopAction, TypeOK
  <2>2. Cancelling(s)'
    <3>1. \A b \in victims'[s] : Open(b)'
      BY <1>3, <1>5
    <3>2. (popped[s] # None /\ Open(popped[s]) /\ popped[s] \notin victims[s])'
      BY <1>1, <1>3, <1>5, <2>1 DEF Open, Decided, Refused, Completed
    <3> QED BY <1>6, <2>1, <3>1, <3>2 DEF Cancelling
  <2>3. OptionalSet(a) \subseteq Own(s)
    BY <1>5 DEF OptionalSet
  <2> QED BY <1>1, <1>3, <1>4, <1>5, <2>1, <2>2, <2>3, LateStep
<1>8. CASE a \notin byId[s]
  <2>1. /\ popped' = [popped EXCEPT ![s] = popped[s]]
        /\ pc' = [pc EXCEPT ![s] = "cancelAll"] /\ pc'[s] = "cancelAll"
    BY <1>1, <1>8 DEF PopAction, TypeOK
  <2>2. Cancelling(s)'
    <3>1. \A b \in victims'[s] : Open(b)'
      BY <1>3, <1>5
    <3> QED BY <1>6, <2>1, <3>1 DEF Cancelling
  <2>3. /\ queue'[s] = queue[s] /\ upload'[s] = upload[s]
        /\ interrupted'[s] = interrupted[s] /\ popped'[s] = popped[s]
    BY <1>3, <2>1 DEF TypeOK
  <2> QED BY <1>1, <1>3, <1>4, <1>5, <2>1, <2>2, <2>3, LateStep
<1> QED BY <1>7, <1>8

LEMMA RemoveActionGood ==
  ASSUME TypeOK, NEW s \in Sessions, SessionInv(s), RemoveAction(s)
  PROVE  GoodStep(s)
<1>1. /\ pc[s] = "remove" /\ Cancelling(s) /\ HoldsOwn(s)
  BY DEF RemoveAction, Goto, SessionInv
<1>2. PICK found \in BOOLEAN :
        found = (popped[s] \in Queued(s) /\ popped[s] \notin byId[s])
  OBVIOUS
<1>3. PICK q : q = IF found THEN queue[s] \ {popped[s]} ELSE queue[s]
  OBVIOUS
<1>4. PICK u : u = IF found /\ upload[s] = popped[s] THEN None ELSE upload[s]
  OBVIOUS
<1>5. PICK p : p = IF found THEN "tell" ELSE "closing"
  OBVIOUS
<1>6. /\ queue' = [queue EXCEPT ![s] = q]
      /\ upload' = [upload EXCEPT ![s] = u]
      /\ pc' = [pc EXCEPT ![s] = p] /\ pc'[s] = p
  BY <1>2, <1>3, <1>4, <1>5 DEF RemoveAction, Goto, TypeOK
<1>7. /\ victims' = [victims EXCEPT ![s] = victims[s]]
      /\ popped' = [popped EXCEPT ![s] = popped[s]]
      /\ interrupted' = [interrupted EXCEPT ![s] = interrupted[s]]
      /\ UNCHANGED <<current, target, interrupted, victims, popped,
                     registered, assigned, ran, refused, reported>>
  <2>1. UNCHANGED <<current, target, interrupted, victims, popped,
                    registered, assigned, ran, refused, reported>>
    BY DEF RemoveAction, runVars, schedVars, history, cleanVars
  <2> QED BY <2>1 DEF TypeOK
<1>8. /\ OutcomesKept
      /\ \A r \in Sessions \ {s} : \A b \in Own(r) : reported'[b] = reported[b]
  BY <1>7 DEF OutcomesKept
<1>9. Cancelling(s)'
  <2>1. \A b \in victims[s] : Open(b)'
    BY <1>1, <1>7 DEF Cancelling, Open, Decided, Refused, Completed
  <2>2. popped[s] # None /\ Open(popped[s])' /\ popped[s] \notin victims[s]
    BY <1>1, <1>7 DEF Cancelling, Open, Decided, Refused, Completed
  <2>3. current'[s] # None => interrupted'[s]
    BY <1>1, <1>7 DEF Cancelling, Early
  <2>4. pc'[s] \in {"tell", "closing"}
    BY <1>5, <1>6
  <2> QED BY <1>7, <2>1, <2>2, <2>3, <2>4 DEF Cancelling
<1>10. /\ victims[s] \in SUBSET Own(s) /\ OptionalSet(popped[s]) \subseteq Own(s)
       /\ q \in SUBSET queue[s] /\ u \in {None, upload[s]}
       /\ p \notin {"new", "starting", "check", "start", "interrupt"}
  BY <1>1, <1>3, <1>4, <1>5 DEF HoldsOwn
<1>11. /\ queue'[s] = q /\ upload'[s] = u /\ victims'[s] = victims[s]
       /\ popped'[s] = popped[s] /\ interrupted'[s] = interrupted[s]
  BY <1>6, <1>7 DEF TypeOK
<1> QED BY <1>1, <1>6, <1>7, <1>8, <1>9, <1>10, <1>11, LateStep

LEMMA TellNeverAttemptedGood ==
  ASSUME TypeOK, NEW s \in Sessions, SessionInv(s), TellNeverAttempted(s)
  PROVE  GoodStep(s)
<1>1. /\ pc[s] = "tell" /\ Cancelling(s) /\ HoldsOwn(s)
      /\ pc' = [pc EXCEPT ![s] = "cancelAll"] /\ pc'[s] = "cancelAll"
  BY DEF TellNeverAttempted, Goto, SessionInv, TypeOK
<1>2. /\ queue' = [queue EXCEPT ![s] = queue[s]]
      /\ upload' = [upload EXCEPT ![s] = upload[s]]
      /\ victims' = [victims EXCEPT ![s] = victims[s]]
      /\ popped' = [popped EXCEPT ![s] = None]
      /\ interrupted' = [interrupted EXCEPT ![s] = interrupted[s]]
      /\ UNCHANGED <<current, target, interrupted, victims, registered,
                     assigned, ran, refused>>
  <2>1. UNCHANGED <<queue, upload, current, target, interrupted, victims,
                    registered, assigned, ran, refused>>
    BY DEF TellNeverAttempted, runVars, queueVars, Report
  <2> QED BY <2>1 DEF TellNeverAttempted, TypeOK
<1>3. PICK st : st = One(popped[s], "NEVER_ATTEMPTED")
  OBVIOUS
<1>4. reported' = [a \in Actions |-> IF st[a] = "none" THEN reported[a]
                                     ELSE st[a]]
  BY <1>3 DEF TellNeverAttempted, Report
<1>5. /\ popped[s] \in Own(s) /\ Open(popped[s])
      /\ \A a \in Actions : a # popped[s] => st[a] = "none"
  BY <1>1, <1>3 DEF Cancelling, HoldsOwn, OptionalSet, One
<1>6. DecidesOwn(s, st)
  BY <1>3, <1>5 DEF DecidesOwn, One, CompletedStatuses
<1>7. Cancelling(s)'
  <2>1. \A a \in victims[s] : a \in Actions /\ a # popped[s] /\ Open(a)
    BY <1>1 DEF Cancelling, TypeOK
  <2>2. \A a \in victims[s] : Open(a)'
    BY <1>2, <1>4, <1>5, <2>1 DEF Open, Decided, Refused, Completed
  <2>3. current'[s] # None => interrupted'[s]
    BY <1>1, <1>2 DEF Cancelling, Early
  <2> QED BY <1>1, <1>2, <2>2, <2>3 DEF Cancelling
<1>8. victims[s] \in SUBSET Own(s) /\ OptionalSet(None) \subseteq Own(s)
  BY <1>1 DEF HoldsOwn, OptionalSet
<1>9. /\ OutcomesKept
      /\ \A r \in Sessions \ {s} : \A b \in Own(r) : reported'[b] = reported[b]
  BY <1>4, <1>6, ReportKeeps
<1>10. /\ queue'[s] = queue[s] /\ upload'[s] = upload[s]
       /\ victims'[s] = victims[s] /\ popped'[s] = None
       /\ interrupted'[s] = interrupted[s]
  BY <1>2 DEF TypeOK
<1> QED BY <1>1, <1>2, <1>7, <1>8, <1>9, <1>10, LateStep

LEMMA SessionThreadGood ==
  ASSUME TypeOK, NEW s \in Sessions, SessionInv(s), SessionThread(s)
  PROVE  GoodStep(s)
BY QuietThreadGood, DequeueFailsGood, StartActionGood, StartFailsGood,
   InterruptGood, SnapshotQueueGood, PopActionGood, RemoveActionGood,
   TellNeverAttemptedGood DEF SessionThread

(***************************************************************************)
(* The scheduler.                                                          *)
(***************************************************************************)
LEMMA QuietSchedulerGood ==
  ASSUME TypeOK, NEW s \in Sessions, SessionInv(s),
         \/ CancelRaised(s) \/ \E how \in Stops : StopSession(s, how[1], how[2])
         \/ WakeLoop \/ ClearWakeup \/ SnapshotUpdates \/ CommitUpdates
         \/ RemoveSession(s)
  PROVE  GoodStep(s)
<1>1. UNCHANGED <<heldVars, pc, history>> /\ registered' \subseteq registered
  BY DEF CancelRaised, StopSession, WakeLoop, ClearWakeup, SnapshotUpdates,
         CommitUpdates, RemoveSession, heldVars, history, schedVars, queueVars,
         runVars, cleanVars, syncFrame, threadFrame
<1> QED BY <1>1, QuietStep

LEMMA RegisterSessionGood ==
  ASSUME TypeOK, NEW s \in Sessions, SessionInv(s), RegisterSession(s)
  PROVE  GoodStep(s)
<1>1. /\ UNCHANGED <<heldVars, pc, history>> /\ pc[s] # "new"
      /\ registered' = registered \union {s}
  BY DEF RegisterSession, heldVars, history, queueVars, runVars, cleanVars
<1>2. OutcomesKept /\ \A r \in Sessions \ {s} : Untouched(r)
  BY <1>1 DEF OutcomesKept, Untouched, heldVars, history
<1>3. \A a \in Actions : Open(a)' = Open(a)
  BY <1>1 DEF Open, Decided, Refused, Completed, history
<1>4. HoldsOwn(s)' /\ UploadOfTask(s)'
  BY <1>1 DEF SessionInv, HoldsOwn, UploadOfTask, OptionalSet, Own, heldVars,
              history
<1>5. Undecided(s)'
  BY <1>1 DEF SessionInv, Undecided, Refusing, Early, Queued, OptionalSet,
              Completed, Refused, Own, heldVars, history
<1>6. Cancelling(s)'
  BY <1>1 DEF SessionInv, Cancelling, Early, Queued, OptionalSet, Open,
              Decided, Refused, Completed, heldVars, history
<1> QED BY <1>2, <1>4, <1>5, <1>6 DEF GoodStep, SessionInv

\* replace() puts only actions without an outcome into the queue, and keeps
\* the upload of a task that has none.
LEMMA ReplaceGood ==
  ASSUME TypeOK, NEW s \in Sessions, SessionInv(s), NEW new,
         Assign(s, new), ReplaceQueue(s, Unfinished(s)),
         UNCHANGED <<current, target, interrupted, victims, popped, ran,
                   refused, reported, registered>>,
         \/ UNCHANGED pc /\ pc[s] # "new"
         \/ pc' = [pc EXCEPT ![s] = "starting"] /\ pc[s] = "new"
  PROVE  GoodStep(s)
<1>1. PICK U : /\ U = Unfinished(s) \ OptionalSet(current[s])
               /\ U \subseteq Own(s) \intersect assigned'
               /\ \A a \in U : ~ Completed(a)' /\ a # current[s]
  <2>1. \A a \in Unfinished(s) : ~ Completed(a)'
    BY DEF Unfinished, Completed, Own
  <2>2. \A a \in Unfinished(s) \ OptionalSet(current[s]) : a # current[s]
    BY ConstantsAssumption DEF OptionalSet, Unfinished, ConstantsAssumption, Own
  <2> QED BY <2>1, <2>2 DEF Unfinished
<1>2. PICK q : q = U \ OptionalSet(upload[s])
  OBVIOUS
<1>3. PICK u : u = IF upload[s] \in U THEN upload[s] ELSE None
  OBVIOUS
<1>4. /\ queue' = [queue EXCEPT ![s] = q] /\ queue'[s] = q
      /\ upload' = [upload EXCEPT ![s] = u] /\ upload'[s] = u
  BY <1>1, <1>2, <1>3 DEF ReplaceQueue, TypeOK
<1>5. pc'[s] # "new" /\ (Early(s)' <=> Early(s)) /\ (pc[s] = "new" => Early(s))
      /\ (pc'[s] = pc[s] \/ pc'[s] = "starting")
  BY DEF Early, TypeOK
<1>6. OutcomesKept /\ \A r \in Sessions \ {s} : Untouched(r)
  BY <1>4 DEF OutcomesKept, Untouched, Assign, TypeOK
<1>7. HoldsOwn(s)'
  <2>1. q \subseteq Own(s)' \intersect assigned'
    BY <1>1, <1>2 DEF Own
  <2>2. assigned \subseteq assigned' /\ Own(s)' = Own(s)
    BY DEF Assign, Own
  <2> QED BY <1>4, <1>5, <2>1, <2>2 DEF SessionInv, HoldsOwn, OptionalSet
<1>8. UploadOfTask(s)'
  BY <1>3, <1>4 DEF SessionInv, UploadOfTask
<1>9. /\ Queued(s)' = q \union OptionalSet(u)
      /\ \A a \in Queued(s)' : ~ Completed(a)' /\ a # current[s]
  <2>1. Queued(s)' = q \union OptionalSet(u)
    BY <1>4 DEF Queued
  <2>2. q \union OptionalSet(u) \subseteq U
    BY <1>2, <1>3 DEF OptionalSet
  <2> QED BY <1>1, <2>1, <2>2
<1>10. Undecided(s)'
  <2> SUFFICES ASSUME Early(s) PROVE Undecided(s)'
    BY <1>5 DEF Undecided
  <2>1. Undecided(s) /\ UploadOfTask(s)
    BY DEF SessionInv
  <2>2. u = upload[s]
    <3> SUFFICES ASSUME upload[s] # None PROVE upload[s] \in U
      BY <1>3
    <3>1. /\ upload[s] \in Own(s) \intersect assigned
          /\ upload[s] \in Queued(s) /\ upload[s] = target[s]
      BY <2>1, HeldOwn DEF Queued, OptionalSet, UploadOfTask
    <3>2. ~ Completed(upload[s])
      BY <2>1, <3>1 DEF Undecided
    <3>3. upload[s] \in Unfinished(s)
      BY <3>1, <3>2 DEF Unfinished, Completed, Assign
    <3>4. upload[s] \notin OptionalSet(current[s])
      BY <2>1, <3>1 DEF Undecided, OptionalSet
    <3> QED BY <1>1, <3>3, <3>4
  <2>3. \A a \in Actions : Completed(a)' = Completed(a)
    BY DEF Completed
  <2>4. \A a \in (ran \intersect Own(s))' :
          Completed(a)' \/ a = current'[s] \/ a = target'[s]
    BY <2>1, <2>3 DEF Undecided, Own
  <2>5. /\ ~ interrupted'[s]
        /\ current'[s] # None => ~ Completed(current[s])'
        /\ target'[s] # None => ~ Completed(target[s])'
    BY <2>1 DEF Undecided, Completed
  <2>6. current'[s] # None => current'[s] \notin Queued(s)'
    BY <1>9
  <2>7. upload'[s] # None => upload'[s] \notin queue'[s]
    BY <1>2, <1>4, <2>2 DEF OptionalSet
  <2>8. target'[s] \in {None, upload'[s], current'[s]}
    BY <1>4, <2>1, <2>2 DEF Undecided
  <2> QED BY <1>9, <2>4, <2>5, <2>6, <2>7, <2>8 DEF Undecided
<1>11. Cancelling(s)'
  BY <1>5, <1>9 DEF SessionInv, Cancelling, Open, Decided, Refused, Completed
<1> QED BY <1>6, <1>7, <1>8, <1>10, <1>11 DEF GoodStep, SessionInv

\* The scheduler itself decides actions only where no thread holds any.
LEMMA RecordGood ==
  ASSUME TypeOK, NEW s \in Sessions, SessionInv(s), pc[s] \in {"new", "done"},
         NEW new, Assign(s, new), NEW A \in SUBSET Unfinished(s), NEW st,
         Record(A, st), UNCHANGED <<registered, queueVars, threadFrame, pc>>
  PROVE  GoodStep(s)
<1>1. /\ UNCHANGED <<heldVars, pc, registered, ran, refused>>
      /\ assigned \subseteq assigned'
      /\ reported' = [a \in Actions |-> IF a \in A THEN st[a] ELSE reported[a]]
  BY DEF queueVars, threadFrame, runVars, cleanVars, heldVars, Assign, Record
<1>2. A \subseteq Own(s) /\ \A a \in A : ~ Completed(a) /\ Open(a)
  BY DEF Unfinished, Completed, Open, Decided, Refused
<1>3. OutcomesKept
  BY <1>1, <1>2 DEF OutcomesKept, Open
<1>4. \A r \in Sessions \ {s} : Untouched(r)
  BY <1>1, <1>2, OwnDisjoint DEF Untouched, heldVars, Own
<1>5. HoldsOwn(s)' /\ UploadOfTask(s)'
  BY <1>1 DEF SessionInv, HoldsOwn, UploadOfTask, OptionalSet, Own, heldVars
<1>6. Undecided(s)'
  <2> SUFFICES ASSUME pc[s] = "new" PROVE Undecided(s)'
    BY <1>1 DEF Undecided, Early
  <2>1. /\ queue[s] = {} /\ upload[s] = None /\ current[s] = None
        /\ target[s] = None /\ Early(s) /\ Undecided(s)
    BY DEF SessionInv, HoldsOwn, Early
  <2>2. \A a \in ran \intersect Own(s) : Completed(a)
    BY <2>1, ConstantsAssumption DEF Undecided, Own, ConstantsAssumption
  <2>3. \A a \in (ran \intersect Own(s))' : Completed(a)'
    BY <1>1, <1>2, <2>2 DEF Completed, Own
  <2>4. Queued(s)' = {} /\ ~ interrupted'[s]
    BY <1>1, <2>1 DEF Queued, OptionalSet, heldVars, Undecided
  <2> QED BY <1>1, <2>1, <2>3, <2>4 DEF Undecided, heldVars
<1>7. Cancelling(s)'
  BY <1>1 DEF SessionInv, Cancelling, Early, heldVars
<1> QED BY <1>3, <1>4, <1>5, <1>6, <1>7 DEF GoodStep, SessionInv

LEMMA SchedulerThreadGood ==
  ASSUME TypeOK, NEW s \in Sessions, SessionInv(s), SchedulerThread(s)
  PROVE  GoodStep(s)
<1>1. CASE \E new \in SUBSET Own(s) : SubmitSession(s, new)
  <2>1. PICK new \in SUBSET Own(s) : SubmitSession(s, new)
    BY <1>1
  <2> QED BY <2>1, ReplaceGood DEF SubmitSession, Goto, schedVars, threadFrame,
                                   runVars, cleanVars
<1>2. CASE \E new \in SUBSET Own(s) :
             \E hit \in BOOLEAN : ReplaceActions(s, new, hit)
  <2>1. PICK new \in SUBSET Own(s), hit \in BOOLEAN : ReplaceActions(s, new, hit)
    BY <1>2
  <2>2. pc[s] # "new"
    BY <2>1 DEF ReplaceActions, SessionInv, HoldsOwn
  <2> QED BY <2>1, <2>2, ReplaceGood DEF ReplaceActions, schedVars, runVars,
                                         cleanVars
<1>3. CASE \E new \in SUBSET Own(s) : FailSession(s, new)
  <2>1. PICK new \in SUBSET Own(s) : FailSession(s, new)
    BY <1>3
  <2>2. PICK st : Record(Unfinished(s), st)
    BY <2>1 DEF FailSession
  <2>3. /\ pc[s] \in {"new", "done"} /\ Assign(s, new)
        /\ UNCHANGED <<registered, queueVars, threadFrame, pc>>
    BY <2>1 DEF FailSession
  <2> QED BY <2>2, <2>3, RecordGood
<1>4. CASE \E new \in SUBSET Own(s) :
             \E noted \in SUBSET Noted(s) : ReturnActions(s, new, noted)
  <2>1. PICK new \in SUBSET Own(s), noted \in SUBSET Noted(s) :
          ReturnActions(s, new, noted)
    BY <1>4
  <2>2. PICK A : A = {a \in Unfinished(s) \union noted :
                        updates[a].status = "none"}
    OBVIOUS
  <2>3. \E st : Record(A, st)
    BY <2>1, <2>2 DEF ReturnActions
  <2>4. A \in SUBSET Unfinished(s)
    BY <2>2 DEF Noted
  <2>5. /\ pc[s] \in {"new", "done"} /\ Assign(s, new)
        /\ UNCHANGED <<registered, queueVars, threadFrame, pc>>
    BY <2>1 DEF ReturnActions
  <2> QED BY <2>3, <2>4, <2>5, RecordGood
<1>5. CASE RegisterSession(s)
  BY <1>5, RegisterSessionGood
<1>6. CASE \/ CancelRaised(s)
           \/ \E how \in Stops : StopSession(s, how[1], how[2])
           \/ WakeLoop \/ ClearWakeup \/ SnapshotUpdates \/ CommitUpdates
           \/ RemoveSession(s)
  BY <1>6, QuietSchedulerGood
<1> QED BY <1>1, <1>2, <1>3, <1>4, <1>5, <1>6 DEF SchedulerThread

(***************************************************************************)
(* The theorems.                                                           *)
(***************************************************************************)
LEMMA OutcomeInit == Init => OutcomeInv
<1> SUFFICES ASSUME Init, NEW s \in Sessions PROVE SessionInv(s)
  BY DEF OutcomeInv
<1>1. HoldsOwn(s) /\ UploadOfTask(s)
  BY DEF Init, HoldsOwn, UploadOfTask, OptionalSet
<1>2. Undecided(s)
  BY DEF Init, Undecided, Queued, OptionalSet
<1>3. Cancelling(s)
  BY DEF Init, Cancelling, Early
<1> QED BY <1>1, <1>2, <1>3 DEF SessionInv

LEMMA OutcomeStep ==
  TypeOK /\ OutcomeInv /\ [Next]_vars => OutcomeInv' /\ OutcomesKept
<1> SUFFICES ASSUME TypeOK, OutcomeInv, [Next]_vars
             PROVE  OutcomeInv' /\ OutcomesKept
  OBVIOUS
<1>1. CASE \E s \in Sessions : SessionThread(s) \/ OpenjdThread(s)
                                 \/ SchedulerThread(s)
  <2>1. PICK s \in Sessions : GoodStep(s)
    BY <1>1, SessionThreadGood, OpenjdGood, SchedulerThreadGood DEF OutcomeInv
  <2>2. \A r \in Sessions \ {s} : SessionInv(r)'
    BY <2>1, UntouchedInv DEF GoodStep, OutcomeInv
  <2> QED BY <2>1, <2>2 DEF GoodStep, OutcomeInv
<1>2. CASE UNCHANGED vars
  <2>1. /\ UNCHANGED <<heldVars, pc, history>> /\ registered' \subseteq registered
    BY <1>2 DEF vars, heldVars, history, schedVars, queueVars, runVars, cleanVars
  <2>2. \A s \in Sessions : SessionInv(s)'
    BY <2>1, QuietStep DEF GoodStep, OutcomeInv
  <2> QED BY <2>1, <2>2 DEF OutcomeInv, OutcomesKept, history
<1> QED BY <1>1, <1>2 DEF Next

\* What a Session holds is its own, undecided until the interruption, and
\* decided once by the clean-up: for the queue, the running action, the upload
\* and cancel_all of session.py and session_queue.py in every interleaving.
THEOREM OutcomeCorrect == Spec => []OutcomeInv
<1> QED BY OutcomeInit, OutcomeStep, TypeInit, TypeStep, PTL DEF Spec

\* An upload that is queued or running is that of the task its end is reported
\* for (insert_front, _output_sync_target_action of session.py).
THEOREM UploadsCorrect == Spec => []UploadIsForItsTask
<1>1. OutcomeInv => UploadIsForItsTask
  BY DEF OutcomeInv, SessionInv, UploadOfTask, UploadIsForItsTask
<1> QED BY <1>1, OutcomeCorrect, PTL

\* A completed status is the last word on an action, but for the failure of
\* one whose details are missing, whichever of the callback, cancel_all, a
\* failed start or the scheduler reports it.
THEOREM CompletionsFinal == Spec => CompletedIsFinal
<1>1. TypeOK /\ OutcomeInv /\ [Next]_vars =>
        [\A a \in Actions : Decided(a) => reported'[a] = reported[a]]_vars
  BY OutcomeStep DEF OutcomesKept
<1> QED BY <1>1, OutcomeCorrect, TypeCorrect, PTL DEF Spec, CompletedIsFinal

\* Only _start_action gives an idle Session a running action.
LEMMA OnlyStartActionStarts ==
  ASSUME TypeOK, NEW s \in Sessions, [Next]_vars,
         current[s] = None, current'[s] # None
  PROVE  StartAction(s)
<1>1. ASSUME NEW r \in Sessions, SessionThread(r) PROVE StartAction(s)
  <2>1. CASE StartAction(r)
    BY <2>1 DEF StartAction, TypeOK
  <2>2. CASE \/ Run(r) \/ CheckStop(r) \/ NothingToStart(r) \/ DequeueFails(r)
             \/ DequeueRaises(r) \/ StartFails(r)
    BY <2>2 DEF Run, CheckStop, NothingToStart, DequeueFails, DequeueRaises,
                StartFails, runVars
  <2>3. CASE \/ Interrupt(r) \/ SnapshotQueue(r)
             \/ (\E a \in Actions : PopAction(r, a))
             \/ RemoveAction(r) \/ TellNeverAttempted(r) \/ PlanExits(r)
             \/ CancelRunning(r) \/ ExitEnvironment(r)
    BY <2>3 DEF Interrupt, SnapshotQueue, PopAction, RemoveAction,
                TellNeverAttempted, PlanExits, CancelRunning, ExitEnvironment,
                runVars
  <2>4. CASE \/ StepOver(r) \/ StepTimesOut(r) \/ StepsDone(r) \/ Close(r)
             \/ WakeScheduler(r) \/ Finish(r)
    BY <2>4 DEF StepOver, StepTimesOut, StepsDone, Close, WakeScheduler,
                Finish, runVars
  <2> QED BY <1>1, <2>1, <2>2, <2>3, <2>4 DEF SessionThread
<1>2. ASSUME NEW r \in Sessions, OpenjdThread(r) PROVE FALSE
  <2>1. ASSUME NEW state, Updated(r, state) PROVE FALSE
    BY <2>1 DEF Updated, HandleUpdate, QueueUpload, TypeOK
  <2> QED BY <1>2, <2>1 DEF OpenjdThread, Progress, Callback, ProcessesEnd,
                            ProcessEnds, runVars
<1>3. ASSUME NEW r \in Sessions, SchedulerThread(r) PROVE FALSE
  BY <1>3 DEF SchedulerThread, SubmitSession, FailSession, ReplaceActions,
       ReturnActions, RegisterSession, CancelRaised, StopSession, WakeLoop,
       ClearWakeup, SnapshotUpdates, CommitUpdates, RemoveSession, threadFrame,
       syncFrame, runVars
<1>4. CASE UNCHANGED vars
  BY <1>4 DEF vars, runVars
<1> QED BY <1>1, <1>2, <1>3, <1>4 DEF Next

\* The work of an action is started at most once and never after its outcome,
\* whatever lists replace_assigned_actions is called with meanwhile.
THEOREM WorkStartsOnce == Spec => StartsOnce
<1> DEFINE Starts == \A s \in Sessions :
       current[s] = None /\ current'[s] # None /\ upload[s] = None =>
         /\ current'[s] \notin ran
         /\ reported[current'[s]] \notin CompletedStatuses
<1>1. ASSUME TypeOK, OutcomeInv, [Next]_vars PROVE Starts
  <2> SUFFICES ASSUME NEW s \in Sessions, current[s] = None,
                      current'[s] # None, upload[s] = None
               PROVE  /\ current'[s] \notin ran
                      /\ reported[current'[s]] \notin CompletedStatuses
    OBVIOUS
  <2>1. StartAction(s)
    BY <1>1, OnlyStartActionStarts
  <2>2. Queued(s) # {} /\ current'[s] = Front(s) /\ pc[s] = "start"
    BY <1>1, <2>1 DEF StartAction, ReadyToStart, TypeOK
  <2>3. PICK f \in Actions : f = Front(s) /\ f \in Queued(s)
    BY <1>1, <2>2, FrontIn
  <2>4. SessionInv(s) /\ Undecided(s) /\ Early(s)
    BY <1>1, <2>2 DEF OutcomeInv, SessionInv, Early
  <2>5. ~ Completed(f) /\ f \in Own(s) /\ f # None
    BY <1>1, <2>2, <2>3, <2>4, HeldOwn, ConstantsAssumption
       DEF Undecided, Refusing, Own, ConstantsAssumption
  <2>6. target[s] = None
    BY <2>4 DEF Undecided
  <2>7. f \notin ran
    BY <2>4, <2>5, <2>6 DEF Undecided
  <2> QED BY <2>2, <2>3, <2>5, <2>7 DEF Completed
<1>2. TypeOK /\ OutcomeInv /\ [Next]_vars => [Starts]_vars
  BY <1>1
<1> QED BY <1>2, OutcomeCorrect, TypeCorrect, PTL DEF Spec, StartsOnce
(***************************************************************************)
(* A callback finds the action it is about, unless the Session stops.      *)
(***************************************************************************)
\* openjd runs a process, or a final state has not been handled yet.
Busy(s) == proc[s] = "RUNNING" \/ pendingCb[s] # "none"

\* A Session leaves its loop to stop, and while it is in the loop openjd is
\* busy with the running action only; the one whose final state waits to be
\* handled is over.
Attended(s) ==
  /\ ~ Looping(s) => stop[s]
  /\ Looping(s) /\ Busy(s) => current[s] # None
  /\ Looping(s) /\ pendingCb[s] # "none" => proc[s] # "RUNNING"

attentionVars == <<current, proc, pendingCb, stop, pc>>

\* What a step that is none of Session s's own leaves alone in it.
Unattended(s) ==
  /\ current'[s] = current[s] /\ proc'[s] = proc[s]
  /\ pendingCb'[s] = pendingCb[s] /\ stop'[s] = stop[s] /\ pc'[s] = pc[s]

LEMMA UnattendedKept ==
  ASSUME NEW s \in Sessions, Attended(s), Unattended(s)
  PROVE  Attended(s)'
BY DEF Attended, Unattended, Busy, Looping

\* The Session thread leaves the loop only to stop, stays out of it, and
\* starts an action only when openjd is idle.
LEMMA LoopAttended ==
  ASSUME TypeOK, NEW s \in Sessions, Attended(s),
         \/ Run(s) \/ CheckStop(s) \/ NothingToStart(s) \/ DequeueFails(s)
         \/ DequeueRaises(s) \/ StartAction(s) \/ StartFails(s)
  PROVE  Attended(s)' /\ \A r \in Sessions \ {s} : Unattended(r)
<1>1. CASE Run(s) \/ CheckStop(s) \/ NothingToStart(s)
  BY <1>1 DEF Run, CheckStop, NothingToStart, Goto, Attended, Unattended,
              Busy, Looping, runVars, openjdVars, stopVars, TypeOK
<1>2. CASE DequeueFails(s) \/ DequeueRaises(s)
  BY <1>2 DEF DequeueFails, DequeueRaises, Attended, Unattended, Busy,
              Looping, runVars, openjdVars, TypeOK
<1>3. CASE StartAction(s)
  <2>1. /\ pc[s] = "start" /\ current[s] = None
        /\ pendingCb[s] = "none"
    BY <1>3 DEF StartAction, ReadyToStart, Attended, Busy, Looping
  <2>2. Front(s) # None
    BY <1>3, FrontIn, ConstantsAssumption
       DEF StartAction, ReadyToStart, ConstantsAssumption
  <2> QED BY <1>3, <2>1, <2>2 DEF StartAction, Attended, Unattended, Busy,
                                  Looping, stopVars, TypeOK
<1>4. CASE StartFails(s)
  BY <1>4 DEF StartFails, ReadyToStart, Attended, Unattended, Busy, Looping,
              openjdVars, stopVars, TypeOK
<1> QED BY <1>1, <1>2, <1>3, <1>4

LEMMA CleanupAttended ==
  ASSUME TypeOK, NEW s \in Sessions, Attended(s),
         \/ Interrupt(s) \/ SnapshotQueue(s)
         \/ (\E a \in Actions : PopAction(s, a))
         \/ RemoveAction(s) \/ TellNeverAttempted(s) \/ PlanExits(s)
         \/ CancelRunning(s) \/ ExitEnvironment(s) \/ StepOver(s)
         \/ StepTimesOut(s) \/ StepsDone(s) \/ Close(s)
         \/ WakeScheduler(s) \/ Finish(s)
  PROVE  Attended(s)' /\ \A r \in Sessions \ {s} : Unattended(r)
<1>1. \A r \in Sessions \ {s} : Unattended(r)
  <2>1. CASE \/ Interrupt(s) \/ SnapshotQueue(s) \/ RemoveAction(s)
             \/ TellNeverAttempted(s) \/ PlanExits(s)
    BY <2>1 DEF Interrupt, SnapshotQueue, RemoveAction, TellNeverAttempted,
         PlanExits, Goto, Unattended, runVars, openjdVars, stopVars, TypeOK
  <2>2. CASE \/ CancelRunning(s) \/ ExitEnvironment(s) \/ StepOver(s)
             \/ StepTimesOut(s) \/ StepsDone(s) \/ Close(s)
             \/ WakeScheduler(s) \/ Finish(s)
    BY <2>2 DEF CancelRunning, ExitEnvironment, StepOver, StepTimesOut,
         StepsDone, Close, WakeScheduler, Finish, Goto, Unattended, runVars,
         openjdVars, stopVars, TypeOK
  <2>3. CASE \E a \in Actions : PopAction(s, a)
    <3>1. PICK a \in Actions : PopAction(s, a)
      BY <2>3
    <3>2. /\ UNCHANGED <<current, proc, pendingCb, stop>>
          /\ pc' = pc \/ pc' = [pc EXCEPT ![s] = "remove"]
      BY <3>1 DEF PopAction, runVars, openjdVars, stopVars
    <3> QED BY <3>2 DEF Unattended, TypeOK
  <2> QED BY <2>1, <2>2, <2>3
<1>2. /\ ~ Looping(s)
      /\ \/ pc' = pc
         \/ \E p \in {"snapshot", "cancelAll", "remove", "tell", "steps",
                       "wait", "closing", "closed", "exiting", "done"} :
              pc' = [pc EXCEPT ![s] = p]
  <2>1. CASE Interrupt(s) \/ SnapshotQueue(s) \/ TellNeverAttempted(s)
    BY <2>1 DEF Interrupt, SnapshotQueue, TellNeverAttempted, Goto, Looping
  <2>2. CASE \E a \in Actions : PopAction(s, a)
    <3>1. PICK a \in Actions : PopAction(s, a)
      BY <2>2
    <3>2. pc[s] = "cancelAll" /\ (pc' = pc \/ pc' = [pc EXCEPT ![s] = "remove"])
      BY <3>1 DEF PopAction
    <3> QED BY <3>2 DEF Looping
  <2>3. CASE RemoveAction(s)
    BY <2>3 DEF RemoveAction, Goto, Looping
  <2>4. CASE PlanExits(s) \/ CancelRunning(s) \/ ExitEnvironment(s)
    BY <2>4 DEF PlanExits, CancelRunning, ExitEnvironment, Goto, Looping
  <2>5. CASE \/ StepOver(s) \/ StepTimesOut(s) \/ StepsDone(s) \/ Close(s)
             \/ WakeScheduler(s) \/ Finish(s)
    BY <2>5 DEF StepOver, StepTimesOut, StepsDone, Close, WakeScheduler,
                Finish, Goto, Looping
  <2> QED BY <2>1, <2>2, <2>3, <2>4, <2>5
<1>3. ~ Looping(s)'
  <2>1. CASE pc' = pc
    BY <1>2, <2>1 DEF Looping
  <2>2. CASE pc' # pc
    <3>1. PICK p \in {"snapshot", "cancelAll", "remove", "tell", "steps",
                      "wait", "closing", "closed", "exiting", "done"} :
            pc' = [pc EXCEPT ![s] = p]
      BY <1>2, <2>2
    <3>2. pc'[s] = p
      BY <3>1 DEF TypeOK
    <3> QED BY <3>1, <3>2 DEF Looping
  <2> QED BY <2>1, <2>2
<1>4. stop' = stop \/ stop' = [stop EXCEPT ![s] = TRUE]
  <2>1. CASE Finish(s)
    BY <2>1 DEF Finish
  <2>2. CASE ~ Finish(s)
    BY <2>2 DEF Interrupt, SnapshotQueue, PopAction, RemoveAction,
         TellNeverAttempted, PlanExits, CancelRunning, ExitEnvironment,
         StepOver, StepTimesOut, StepsDone, Close, WakeScheduler, stopVars
  <2> QED BY <2>1, <2>2
<1>5. stop[s] => stop'[s]
  BY <1>4 DEF TypeOK
<1> QED BY <1>1, <1>2, <1>3, <1>5 DEF Attended

\* Only the callback of a final state takes the running action away, and
\* openjd is idle then.
LEMMA OpenjdAttended ==
  ASSUME TypeOK, NEW s \in Sessions, Attended(s),
         OpenjdThread(s)
  PROVE  Attended(s)' /\ \A r \in Sessions \ {s} : Unattended(r)
<1>1. CASE Progress(s)
  <2>1. UNCHANGED current
    BY <1>1 DEF Progress, Updated, HandleUpdate
  <2> QED BY <1>1, <2>1 DEF Progress, Attended, Unattended, Busy, Looping,
                            openjdVars, callbackFrame, stopVars
<1>2. CASE ProcessesEnd(s)
  <2>1. PICK state \in EndStates : ProcessEnds(s, state)
    BY <1>2 DEF ProcessesEnd
  <2> QED BY <2>1 DEF ProcessEnds, Attended, Unattended, Busy, Looping,
                      EndStates, runVars, stopVars, TypeOK
<1>3. CASE Callback(s)
  <2>1. \A r \in Sessions \ {s} : current'[r] = current[r]
    BY <1>3 DEF Callback, Updated, HandleUpdate, QueueUpload, TypeOK
  <2> QED BY <1>3, <2>1 DEF Callback, Attended, Unattended, Busy, Looping,
                            callbackFrame, stopVars, TypeOK
<1> QED BY <1>1, <1>2, <1>3 DEF OpenjdThread

LEMMA SchedulerAttended ==
  ASSUME TypeOK, NEW s \in Sessions, Attended(s), SchedulerThread(s)
  PROVE  Attended(s)' /\ \A r \in Sessions \ {s} : Unattended(r)
<1>1. CASE \E new \in SUBSET Own(s) : SubmitSession(s, new)
  BY <1>1 DEF SubmitSession, Goto, Attended, Unattended, Busy, Looping,
              stopVars, threadFrame, runVars, openjdVars, TypeOK
<1>2. CASE \E how \in Stops : StopSession(s, how[1], how[2])
  BY <1>2 DEF StopSession, Attended, Unattended, Busy, Looping, runVars,
              openjdVars, TypeOK
<1>3. CASE \E new \in SUBSET Own(s) :
             \/ FailSession(s, new)
             \/ \E hit \in BOOLEAN : ReplaceActions(s, new, hit)
             \/ \E noted \in SUBSET Noted(s) : ReturnActions(s, new, noted)
  <2>1. UNCHANGED attentionVars
    BY <1>3 DEF FailSession, ReplaceActions, ReturnActions, threadFrame,
                runVars, openjdVars, stopVars, attentionVars
  <2> QED BY <2>1 DEF attentionVars, Attended, Unattended, Busy, Looping
<1>4. CASE \/ RegisterSession(s) \/ CancelRaised(s) \/ WakeLoop \/ ClearWakeup
           \/ SnapshotUpdates \/ CommitUpdates \/ RemoveSession(s)
  <2>1. UNCHANGED attentionVars
    BY <1>4 DEF RegisterSession, CancelRaised, WakeLoop, ClearWakeup,
         SnapshotUpdates, CommitUpdates, RemoveSession, syncFrame,
         threadFrame, runVars, openjdVars, stopVars, attentionVars
  <2> QED BY <2>1 DEF attentionVars, Attended, Unattended, Busy, Looping
<1> QED BY <1>1, <1>2, <1>3, <1>4 DEF SchedulerThread

\* openjd reports on an action nobody knows of only while the Session stops:
\* the assertion in _action_updated_impl (session.py:985) holds.
THEOREM CallbacksHaveAction == Spec => []CallbackHasAction
<1> DEFINE AttendedInv == \A s \in Sessions : Attended(s)
<1>1. Init => AttendedInv
  <2> SUFFICES ASSUME Init, NEW s \in Sessions PROVE Attended(s)
    OBVIOUS
  <2> QED BY DEF Init, Attended, Busy, Looping
<1>2. TypeOK /\ AttendedInv /\ [Next]_vars => AttendedInv'
  <2> SUFFICES ASSUME TypeOK, AttendedInv, [Next]_vars
               PROVE  AttendedInv'
    OBVIOUS
  <2>1. CASE Next
    <3>1. PICK s \in Sessions :
            SessionThread(s) \/ OpenjdThread(s) \/ SchedulerThread(s)
      BY <2>1 DEF Next
    <3>2. Attended(s)' /\ \A r \in Sessions \ {s} : Unattended(r)
      BY <3>1, LoopAttended, CleanupAttended, OpenjdAttended,
         SchedulerAttended DEF SessionThread
    <3> QED BY <3>2, UnattendedKept
  <2>2. CASE UNCHANGED vars
    BY <2>2 DEF vars, runVars, openjdVars, stopVars, Attended, Busy, Looping
  <2> QED BY <2>1, <2>2
<1>3. AttendedInv => CallbackHasAction
  BY DEF Attended, Busy, CallbackHasAction
<1> QED BY <1>1, <1>2, <1>3, TypeCorrect, PTL DEF Spec
=============================================================================
