----------------------------- MODULE JobEntities -----------------------------
(***************************************************************************)
(* Where the Sessions get the details of their job and actions             *)
(* (sessions/job_entities/job_entities.py): the scheduler's thread asks    *)
(* for the job when it creates a Session, the Session's thread warms the   *)
(* cache for all it was assigned and asks again for what is missing when   *)
(* it dequeues an action.  EntityDetails says what is accepted,            *)
(* WindowsCredentials what becomes of the user of a job on Windows.        *)
(*                                                                         *)
(* Sessions share nothing here but the resolver's cache, which only the    *)
(* scheduler's thread uses: they are modelled one after the other, and     *)
(* time, which only that cache looks at, passes between them.              *)
(***************************************************************************)
EXTENDS EntityDetails, WindowsCredentials, Integers, FiniteSets

CONSTANTS
  Queue,      \* the kinds of the actions a Session is assigned, in order
  Shapes,     \* the data the service sends, by entity type
  MaxBatch,   \* identifiers in one BatchGetJobEntity request
  None

ASSUME JobEntitiesAssumption ==
  /\ Queue \in Seq({"ENV_ENTER", "ENV_EXIT", "TASK_RUN", "SYNC_INPUT",
                    "SYNC_DEPENDENCIES"})
  /\ DOMAIN Shapes = EntityTypes
  /\ MaxBatch \in Nat \ {0}
  /\ None \notin {"started", "FAILED", "died"}
  \* a user's settings are no element of a list, and its name is no mark
  /\ \A d \in Shapes["job"], own \in {Posix, Windows} :
       own \in DOMAIN d =>
         /\ d[own] # "not an object"
         /\ own \o <<"user">> \in DOMAIN d =>
              d[own \o <<"user">>] \notin {NoUser, AgentUser, OverrideUser}

VARIABLES
  host, zero, override,  \* os.name, is_windows_session_zero(), the override
  phase,    \* what the Session is at
  records,  \* _entity_record_map
  batch,    \* the batch the Session's thread warms the cache with
  left,     \* the kinds of the actions that are queued
  user,     \* os_user
  fate,     \* what the last action came to
  cache,    \* _user_cache
  logons,   \* logon tokens that are open
  sent,     \* history: the job as the service sent it
  fetch,    \* history: the secret just fetched and how long after a failure
  failure   \* history: by key, the last failed fetch and the time since

hostVars == <<host, zero, override>>
resolverVars == <<cache, logons, fetch, failure>>
vars == <<hostVars, phase, records, batch, left, user, fate,
          resolverVars, sent>>

(***************************************************************************)
(* The cache of entities.  There is one of each type, named for it.        *)
(***************************************************************************)
Entity(kind) ==
  CASE kind \in {"ENV_ENTER", "ENV_EXIT"} -> "env"
    [] kind \in {"TASK_RUN", "SYNC_DEPENDENCIES"} -> "step"
    [] kind = "SYNC_INPUT" -> "ja"

NewRecord == [data |-> None, error |-> FALSE]

\* What a response says of an identifier; one too large for the batch, or left
\* out, changes nothing.
Answers(type) ==
  {[what |-> "data", data |-> d] : d \in Shapes[type]}
    \union {[what |-> w, data |-> None] : w \in {"error", "too large"}}

Saved(record, answer) ==
  CASE answer.what = "data"  -> [record EXCEPT !.data = answer.data]
    [] answer.what = "error" -> [record EXCEPT !.error = TRUE]
    [] OTHER -> record
\* _entity_key: the job and its attachments have keys of their own
CacheByJob(answers) ==
  [t \in EntityTypes |-> IF t = "job" /\ "ja" \in DOMAIN answers
                         THEN Saved(records[t], answers["ja"])
                         ELSE IF t \in DOMAIN answers \ {"ja"}
                         THEN Saved(records[t], answers[t]) ELSE records[t]]
Cache(answers) ==
  [t \in EntityTypes |-> IF t \in DOMAIN answers
                         THEN Saved(records[t], answers[t]) ELSE records[t]]

\* request(): what it returns is in the record; None is for the RuntimeError
\* it raises.  An error of an earlier request is looked at only without data.
DataUnlessError(record) == IF record.error THEN None ELSE record.data
Found(record) == record.data

\* cache_entities([identifier]); an exception of the request itself is swallowed
Request(type, answer) ==
  records' = IF records[type].data # None THEN records
             ELSE Cache([t \in {type} |-> answer])

NoAnswer == [what |-> "refused", data |-> None]

(***************************************************************************)
(* The creation of a Session (_create_new_sessions, JobEntities.job_details)*)
(***************************************************************************)
KeyOf(d) ==
  UserKey(zero, d[Windows \o <<"user">>], d[Windows \o <<"passwordArn">>])

\* get_windows_session_user, with what the history keeps of it
Resolve(k, secret) ==
  LET pruned  == PruneCache(zero, cache)
      fetches == ~ Cached(pruned, k) /\ ShouldFetch(pruned, k)
      known   == k \in DOMAIN failure
  IN /\ cache' = AfterRequest(pruned, k, secret)
     /\ logons' = IF zero /\ fetches /\ secret = "good" THEN logons + 1
                                                       ELSE logons
     /\ fetch' = IF fetches /\ known THEN failure[k] ELSE None
     /\ failure' = IF ~ fetches THEN failure
                   ELSE [key \in DOMAIN failure \union {k} |->
                           IF key = k THEN [why |-> secret, age |-> 0]
                           ELSE failure[key]]

NoResolve == fetch' = None /\ UNCHANGED <<cache, logons, failure>>

SessionFails ==
  UNCHANGED <<phase, records, batch, left, user, sent>>
\* _create_new_sessions does not catch an AttributeError: the main loop is over
LoopEnds ==
  phase' = "drain" /\ UNCHANGED <<records, batch, left, user, sent>>
SessionStarts(sentData, d) ==
  /\ phase' = "warm" /\ batch' = 1 /\ left' = Queue
  /\ user' = UserForSession(d, host, override)
  /\ records' = [records EXCEPT !["job"].data = d]
  /\ sent' = sentData

\* job_details(), the refusal to run as an Administrator, and the user
CreateSession(answer, secret) ==
  /\ phase = "idle"
  /\ LET d == Kept(answer.data, override)
         details == /\ answer.what = "data"
                    /\ JobOutcome(answer.data, host, override) = "details"
         asks == details /\ AsksResolver(d, host)
         pruned == PruneCache(zero, cache)
     IN /\ IF asks THEN Resolve(KeyOf(d), secret) ELSE NoResolve
        /\ IF /\ details /\ ~ RefusesAgentUser(d, host, override)
              /\ asks => Resolves(pruned, KeyOf(d), secret)
              /\ UserForSession(d, host, override) # NoUser
           THEN SessionStarts(answer.data, d)
           ELSE IF asks /\ Breaks(pruned, KeyOf(d), secret) THEN LoopEnds
           ELSE SessionFails
  /\ UNCHANGED <<hostVars, fate>>

(***************************************************************************)
(* The Session's thread.                                                   *)
(***************************************************************************)
threadFrame == UNCHANGED <<hostVars, resolverVars>>
sessionFrame == threadFrame /\ UNCHANGED <<user, sent>>

\* The batches of list_all_action_identifiers.  A batch whose request fails is
\* passed over; what the loop does not expect in a response ends it half-way,
\* and the thread goes on without the rest.
Batches == (Len(Queue) + MaxBatch - 1) \div MaxBatch
Batch(n) == {Entity(Queue[i]) : i \in {j \in 1 .. Len(Queue) :
                                         (j - 1) \div MaxBatch = n - 1}}
AnswersTo(types) ==
  {f \in [types -> UNION {Answers(t) : t \in types}] :
     \A t \in types : f[t] \in Answers(t)}

WarmBatch ==
  /\ phase = "warm" /\ batch <= Batches
  /\ \E some \in SUBSET Batch(batch) :
       /\ \E answers \in AnswersTo(some) : records' = Cache(answers)
       /\ \/ some \in {{}, Batch(batch)} /\ batch' = batch + 1
          \/ batch' = Batches + 1
  /\ UNCHANGED <<phase, left, fate>> /\ sessionFrame

Warmed ==
  /\ phase = "warm" /\ batch > Batches
  /\ phase' = "run"
  /\ UNCHANGED <<records, batch, left, fate>> /\ sessionFrame

\* what dequeue() turns into a SessionActionError, and _start_action reports
Handled(kind, exception) ==
  \/ exception \in {"ValueError", "UnsupportedSchema"}
  \/ exception = "RuntimeError"
     /\ kind \in {"ENV_ENTER", "ENV_EXIT", "TASK_RUN"}

Dequeue ==
  /\ phase = "run" /\ left # <<>>
  /\ LET kind == Head(left)
         type == Entity(kind)
     IN \E answer \in Answers(type) \union {NoAnswer} :
          /\ records[type].data # None => answer = NoAnswer
          /\ Request(type, answer)
          /\ LET d == Found(records'[type])
                 came == IF d = None THEN "RuntimeError"
                         ELSE Outcome(type, d, host, override)
             IN IF came = "details"
                THEN /\ left' = Tail(left)
                     /\ fate' = "started" /\ UNCHANGED phase
                ELSE /\ fate' = IF Handled(kind, came) THEN "FAILED"
                                                       ELSE "died"
                     /\ phase' = "ended" /\ UNCHANGED left
  /\ UNCHANGED batch /\ sessionFrame

\* the Session is removed, and its JobEntities with it
Finish ==
  /\ phase = "ended" \/ (phase = "run" /\ left = <<>>)
  /\ phase' = "idle"
  /\ records' = [t \in EntityTypes |-> NewRecord]
  /\ left' = <<>> /\ batch' = 1
  /\ user' = NoUser /\ fate' = None /\ sent' = None
  /\ threadFrame

(***************************************************************************)
(* The main loop: prune_cache after a sync; clear() after the drain.       *)
(***************************************************************************)
schedulerFrame ==
  UNCHANGED <<hostVars, records, batch, left, user, fate, sent>>

Prune ==
  /\ phase = "idle"
  /\ cache' = PruneCache(zero, cache) /\ fetch' = None
  /\ UNCHANGED <<phase, logons, failure>> /\ schedulerFrame

Clear ==
  /\ phase \in {"idle", "drain"}
  /\ phase' = "over"
  /\ logons' = logons - Cardinality(LogonsOf(zero, cache))
  /\ cache' = <<>> /\ fetch' = None
  /\ UNCHANGED failure /\ schedulerFrame

TimePasses ==
  /\ phase = "idle"
  /\ cache' = Aged(cache) /\ fetch' = None
  /\ failure' = [k \in DOMAIN failure |->
                   [failure[k] EXCEPT !.age = Older(@, RetryAfter)]]
  /\ UNCHANGED <<phase, logons>> /\ schedulerFrame

Init ==
  /\ host \in Hosts /\ zero \in BOOLEAN /\ override \in Overrides
  /\ zero => host = "nt"
  /\ phase = "idle" /\ batch = 1 /\ left = <<>>
  /\ user = NoUser /\ fate = None
  /\ records = [t \in EntityTypes |-> NewRecord]
  /\ cache = <<>> /\ logons = 0
  /\ sent = None /\ fetch = None /\ failure = <<>>

Thread == WarmBatch \/ Warmed \/ Dequeue \/ Finish
Scheduler ==
  \/ \E answer \in Answers("job"), secret \in Secrets :
       CreateSession(answer, secret)
  \/ Prune \/ Clear

Next == Thread \/ Scheduler \/ TimePasses
Spec == Init /\ [][Next]_vars

(***************************************************************************)
(* Properties.                                                             *)
(***************************************************************************)
Phases == {"idle", "warm", "run", "ended", "drain", "over"}
TypeOK ==
  /\ phase \in Phases
  /\ batch \in 1 .. Batches + 1
  /\ \A t \in EntityTypes :
       /\ records[t].error \in BOOLEAN
       /\ records[t].data # None =>
            IF t = "job"
            THEN records[t].data \in {Kept(d, override) : d \in Shapes[t]}
            ELSE records[t].data \in Shapes[t]
  /\ \E n \in 0 .. Len(Queue) : left = SubSeq(Queue, n + 1, Len(Queue))
  /\ fate \in {None, "started", "FAILED", "died"}
  /\ \A k \in DOMAIN cache : cache[k] \in Entries

\* A Session runs as the user the host was configured with, whatever the job
\* says; without one as the job's user of this platform; and as the agent only
\* if the job says so and the agent is no Administrator (validate_entity_data,
\* job_run_as_user_api_model_to_worker_agent, _create_new_sessions and
\* _determine_user_for_session together).
RunsAsConfigured ==
  user # NoUser =>
    /\ override = "agent" => user = AgentUser
    /\ override = "user" => user = OverrideUser
    /\ override = "none" =>
         IF user = AgentUser
         THEN host = "posix" /\ sent[RunAs \o <<"runAs">>] = "WORKER_AGENT_USER"
         ELSE user = sent[(IF host = "nt" THEN Windows ELSE Posix) \o <<"user">>]

\* No action fails for the lack of details that have arrived and are good,
\* whatever errors came before them (an error of the warm-up stays in the
\* record when the next request brings the data).
FailsForItself ==
  [][phase = "run" /\ fate' \in {"FAILED", "died"} /\ fate' # fate =>
       LET type == Entity(Head(left))
           d == records'[type].data
       IN d # None => Outcome(type, d, host, override) # "details"]_vars

\* Every logon that is open is one of the cache's, so that clear() closes it:
\* a service never forgets a user it has logged on, and clears all of them.
LogonsKept == logons = Cardinality(LogonsOf(zero, cache))

\* A user whose secret was refused is not fetched again for RETRY_AFTER,
\* however many Sessions ask for it.
FailureWaits ==
  fetch # None /\ fetch.why = "refused" => fetch.age = RetryAfter
=============================================================================
