------------------------------ MODULE SessionSetup ------------------------------
(***************************************************************************)
(* What a sync of the WorkerScheduler sets up around the Sessions, and     *)
(* takes down again (scheduler/scheduler.py): the AWS credentials of the   *)
(* queues with their files (aws_credentials/queue_boto3_session.py) and    *)
(* their refreshers, the thread of a Session with the contexts it is in    *)
(* (run_session), the log it goes to, and the processes that are killed    *)
(* when the last Session of a user is removed (session_cleanup.py).        *)
(* WorkerScheduler and Session have the actions of the Sessions.           *)
(*                                                                         *)
(* A credentials object (QueueAwsCredentials) is named for the Session it  *)
(* was made for; those that come later share it.                           *)
(***************************************************************************)
EXTENDS Refresher, FiniteSets

CONSTANTS
  Sessions, Queues, Users,
  QueueOf,       \* the queue of a Session's job
  Roles,         \* queueRoleArn
  UserOf,        \* the OS user a Session runs as, or None for the agent's
  Attachments,   \* the Sessions whose queue has job attachment settings
  AgentUser,
  MaxRefreshes,  \* bound: refreshes, of all queues
  None

ASSUME SessionSetupAssumption ==
  /\ IsFiniteSet(Sessions) /\ Cardinality(Sessions) <= MaxInside
  /\ QueueOf \in [Sessions -> Queues]
  /\ UserOf \in [Sessions -> Users \union {None}]
  /\ Attachments \subseteq Sessions /\ MaxRefreshes \in Nat
  /\ None \notin Sessions \union Users \union Roles

Keys  == Queues \X Roles
VARIABLES
  assigned,   \* the Sessions the service has assigned
  past,       \* those it no longer has
  role,       \* the role of a Session's queue when its job is looked at, or None
  mode,       \* "run", "drain", "last" sync of the drain, "done"
  pc,         \* where the sync is
  response,   \* the assigned Sessions it was told of
  tried,      \* the new ones it has looked at
  at,         \* the one it creates, or None
  given,      \* queue_credentials of the one it creates
  entries,    \* _sessions
  users,      \* _user_session_map
  thread,     \* where the thread of a Session is
  creds,      \* the credentials object of a Session
  stop,       \* the Sessions told to stop
  bind,       \* what log_config is bound to for a thread yet to begin
  logs,       \* the Session whose log a thread writes to
  map,        \* _queue_aws_credentials
  objects,    \* the credentials objects
  refreshes,  \* how many there have been
  disk,       \* what is in the credentials directory of a queue
  struck,     \* history: Sessions that worked when their user was cleaned up
  failed,     \* history: the failed refreshes that were announced
  broken      \* history: objects in use whose refresh was interrupted, or broke

serviceVars == <<assigned, past, role>>
syncVars   == <<mode, pc, response, tried, at, given>>
entryVars  == <<entries, users, struck>>
threadVars == <<thread, creds, bind, logs>>
credVars   == <<map, objects, refreshes, disk, failed, broken>>
vars == <<serviceVars, syncVars, entryVars, threadVars, stop, credVars>>

Key(s) == <<QueueOf[s], role[s]>>   \* hash_key

\* refresh_credentials has returned "ok" or raised what "out" says; "calls" are
\* the calls of failure_callback still to come.
Objects == [made : BOOLEAN, ref : Refreshers, valid : Validities,
            out : Outcomes \union {None}, calls : Seq(Outcomes \union {"Timeout"})]
NoObject == [made |-> FALSE, ref |-> NewRefresher, valid |-> "mandatory",
             out |-> None, calls |-> <<>>]

\* what failure_callback is told, as far as it tells errors apart: a timeout is
\* no DeadlineRequestError
Failures == [of : Sessions, timeout : BOOLEAN]
Failure(o, error) == [of |-> o, timeout |-> error = "Timeout"]

Empty == [process |-> FALSE, creds |-> FALSE]

\* _install_credential_process, into a directory that may be there
Installed(directory) == [directory EXCEPT !.process = TRUE]

\* temporary_creds.cache(), which makes the directory if it is gone
Cached(directory, got) == [directory EXCEPT !.creds = @ \/ got]

\* SettableCredentials.set_credentials, under its lock
SetCredentials(object) == [object EXCEPT !.valid = "fresh"]

\* self.cleanup() of a QueueBoto3Session: its directory is the queue's
CleanedUp(queues) == [q \in Queues |-> IF q \in queues THEN Empty ELSE disk[q]]

(***************************************************************************)
(* The service                                                             *)
(***************************************************************************)
Assign(s) ==
  /\ mode \in {"run", "drain"}
  /\ s \notin assigned \union past
  /\ assigned' = assigned \union {s}
  /\ UNCHANGED <<past, role, syncVars, entryVars, threadVars, stop, credVars>>

Unassign(s) ==
  /\ s \in assigned
  /\ assigned' = assigned \ {s} /\ past' = past \union {s}
  /\ UNCHANGED <<role, syncVars, entryVars, threadVars, stop, credVars>>

(***************************************************************************)
(* _update_sessions                                                        *)
(***************************************************************************)
BeginSync ==
  /\ pc = "idle" /\ mode \in {"run", "last"}
  /\ pc' = "remove" /\ response' = assigned
  /\ UNCHANGED <<serviceVars, mode, tried, at, given, entryVars, threadVars,
                 stop, credVars>>

Removable == entries \ response

\* _remove_finished_sessions
StopRemoved(s) ==
  /\ pc = "remove" /\ s \in Removable /\ s \notin stop
  /\ stop' = stop \union {s}
  /\ UNCHANGED <<serviceVars, syncVars, entryVars, threadVars, credVars>>

\* Mutant: any Session that leaves takes its user's processes with it.
Lonely(s, others) == TRUE

LastOfUser(s, others) == others = {}

\* SessionUserCleanupManager.deregister, from the map's __delitem__
Deregister(s) ==
  LET u == UserOf[s] IN
  IF u = None \/ s \notin users[u]
  THEN UNCHANGED <<users, struck>>
  ELSE /\ users' = [users EXCEPT ![u] = @ \ {s}]
       /\ IF LastOfUser(s, users'[u]) /\ u # AgentUser
          THEN struck' = struck \union
                 {x \in Sessions : UserOf[x] = u /\ thread[x] = "working"}
          ELSE UNCHANGED struck

\* session.wait(): _stopped_running is set from the start
NotRunning(s) == thread[s] # "working"

Remove(s) ==
  /\ pc = "remove" /\ s \in Removable \intersect stop /\ NotRunning(s)
  /\ entries' = entries \ {s}
  /\ Deregister(s)
  /\ UNCHANGED <<serviceVars, syncVars, threadVars, stop, credVars>>

\* Mutant: the queues of the new Sessions only.
QueuesOfNew(sessions) == {QueueOf[s] : s \in sessions \ entries}

AssignedQueues(sessions) == {QueueOf[s] : s \in sessions}

\* _cleanup_queue_aws_credentials
CleanupCredentials ==
  /\ pc = "remove" /\ Removable = {}
  /\ pc' = "create"
  /\ LET over == {k \in Keys : /\ map[k] # None
                              /\ k[1] \notin AssignedQueues(response)} IN
     /\ map' = [k \in Keys |-> IF k \in over THEN None ELSE map[k]]
     /\ disk' = CleanedUp({k[1] : k \in over})
  /\ UNCHANGED <<serviceVars, mode, response, tried, at, given, entryVars,
                 threadVars, stop, objects, refreshes, failed, broken>>

(***************************************************************************)
(* _create_new_sessions.  A Session that cannot be set up is not entered   *)
(* in _sessions: the next sync tries again.                                *)
(***************************************************************************)
\* the Sessions of this call, whose threads see the loop's variables change
ThisCall == tried \intersect entries

\* run_session is a closure: it takes log_config when the thread begins
Rebound(s) == [x \in Sessions |->
                IF x = s \/ (x \in ThisCall /\ thread[x] = "submitted") THEN s
                ELSE bind[x]]

IsNew(s) == pc = "create" /\ at = None /\ s \in response \ (entries \union tried)

Visit(s) == IsNew(s) /\ tried' = tried \union {s}

\* The log directory, the log file or the log configuration fails; or, after
\* log_config is bound, job_details or _determine_user_for_session.
SetupFails(s) ==
  /\ Visit(s)
  /\ bind' \in {bind, Rebound(s)}
  /\ UNCHANGED <<serviceVars, mode, pc, response, at, given, entryVars, thread,
                 creds, logs, stop, credVars>>

\* the Session can be set up, with credentials or without: job attachments
\* cannot do without
With(s, c) ==
  /\ Visit(s)
  /\ bind' = Rebound(s)
  /\ IF c = None /\ s \in Attachments THEN UNCHANGED <<at, given>>
                                      ELSE at' = s /\ given' = c
  /\ UNCHANGED <<serviceVars, mode, pc, response, entryVars, thread, creds, logs,
                 stop, failed, broken>>

NoRole(s) ==
  /\ role[s] = None
  /\ With(s, None)
  /\ UNCHANGED <<map, objects, refreshes, disk>>

Shared(k) == map[k] # None

\* _get_queue_aws_credentials
ShareCredentials(s) ==
  /\ role[s] # None /\ Shared(Key(s))
  /\ With(s, map[Key(s)])
  /\ UNCHANGED <<map, objects, refreshes, disk>>

\* QueueBoto3Session.__init__: the directory, the credential process, and the
\* first credentials; a response may hold none
MakeCredentials(s) ==
  /\ role[s] # None /\ ~ Shared(Key(s)) /\ mode = "run"
  /\ With(s, s)
  /\ map' = [map EXCEPT ![Key(s)] = s]
  /\ \E answer \in {r \in Responses : FromResponse(r, FALSE) = "ok"} :
       LET got == answer = "credentials"
           new == [NoObject EXCEPT !.made = TRUE] IN
       /\ objects' = [objects EXCEPT ![s] = IF got THEN SetCredentials(new) ELSE new]
       /\ disk' = [disk EXCEPT ![QueueOf[s]] = Cached(Installed(@), got)]
  /\ UNCHANGED refreshes

\* The request is interrupted, or fails with an error that may pass: cleanup(),
\* and the Session does without.
NoCredentials(s) ==
  /\ role[s] # None /\ ~ Shared(Key(s))
  /\ With(s, None)
  /\ disk' = CleanedUp({QueueOf[s]})
  /\ UNCHANGED <<map, objects, refreshes>>

\* It fails for good: cleanup(), and _fail_all_actions.
CredentialsRefused(s) ==
  /\ role[s] # None /\ ~ Shared(Key(s))
  /\ Visit(s)
  /\ bind' = Rebound(s)
  /\ disk' = CleanedUp({QueueOf[s]})
  /\ UNCHANGED <<serviceVars, mode, pc, response, at, given, entryVars, thread,
                 creds, logs, stop, map, objects, refreshes, failed, broken>>

\* What _create_new_sessions does not catch ends the scheduler's loop, ...
EndsLoop(s) ==
  /\ IsNew(s)
  /\ pc' = "idle" /\ response' = {} /\ tried' = {}
  /\ IF mode = "run" THEN mode' = "drain" /\ stop' = stop \union entries
                      ELSE mode' = "done" /\ UNCHANGED stop
  /\ UNCHANGED <<serviceVars, at, given, entryVars, thread, creds, logs, credVars>>

\* ... the ValueError of LogConfiguration.from_boto for a driver or an interval
\* it does not know, ...
LogRaises(s) == EndsLoop(s) /\ UNCHANGED bind

\* ... and the OSError of _create_credentials_directory
DirectoryFails(s) ==
  /\ role[s] # None /\ ~ Shared(Key(s))
  /\ EndsLoop(s) /\ bind' = Rebound(s)

Create(s) == SetupFails(s) \/ LogRaises(s) \/ DirectoryFails(s) \/ NoRole(s)
             \/ ShareCredentials(s) \/ MakeCredentials(s) \/ NoCredentials(s) \/ CredentialsRefused(s)

Submit ==
  /\ pc = "create" /\ at # None /\ thread[at] = "none"
  /\ thread' = [thread EXCEPT ![at] = "submitted"]
  /\ creds' = [creds EXCEPT ![at] = given]
  /\ UNCHANGED <<serviceVars, syncVars, entryVars, bind, logs, stop, credVars>>

\* _sessions[...] = ..., which registers the Session's user
Register ==
  /\ pc = "create" /\ at # None /\ thread[at] # "none"
  /\ entries' = entries \union {at}
  /\ users' = [u \in Users |-> IF u = UserOf[at] THEN users[u] \union {at}
                               ELSE users[u]]
  /\ at' = None /\ given' = None
  /\ UNCHANGED <<serviceVars, mode, pc, response, tried, struck,
                 threadVars, stop, credVars>>

EndSync ==
  /\ pc = "create" /\ at = None /\ response \subseteq entries \union tried
  /\ pc' = "idle" /\ response' = {} /\ tried' = {}
  /\ mode' = IF mode = "last" THEN "done" ELSE mode
  /\ UNCHANGED <<serviceVars, at, given, entryVars, threadVars, stop, credVars>>

(***************************************************************************)
(* _drain_scheduler                                                        *)
(***************************************************************************)
\* _shutdown_sessions
Shutdown ==
  /\ mode = "run" /\ pc = "idle"
  /\ mode' = "drain"
  /\ stop' = stop \union entries
  /\ UNCHANGED <<serviceVars, pc, response, tried, at, given, entryVars,
                 threadVars, credVars>>

\* the credentials of all queues; then the last sync if the Worker initiated it
CleanupAll ==
  /\ mode = "drain"
  /\ mode' \in {"last", "done"}
  /\ map' = [k \in Keys |-> None]
  /\ disk' = CleanedUp({k[1] : k \in {x \in Keys : map[x] # None}})
  /\ UNCHANGED <<serviceVars, pc, response, tried, at, given, entryVars,
                 threadVars, stop, objects, refreshes, failed, broken>>

Sync == BeginSync \/ (\E s \in Sessions : StopRemoved(s) \/ Remove(s))
        \/ CleanupCredentials \/ (\E s \in Sessions : Create(s))
        \/ Submit \/ Register \/ EndSync

(***************************************************************************)
(* run_session, in a thread of its own                                     *)
(***************************************************************************)
RefOf(s, new) == [objects EXCEPT ![creds[s]].ref = new]

\* log_session, the Session and the refresher are entered; the cache of job
\* entities is warmed
Begin(s) ==
  /\ thread[s] = "submitted"
  /\ thread' = [thread EXCEPT ![s] = "warming"]
  /\ logs' = [logs EXCEPT ![s] = bind[s]] /\ bind' = [bind EXCEPT ![s] = None]
  /\ IF creds[s] = None THEN UNCHANGED objects
     ELSE objects' = RefOf(s, Entered(objects[creds[s]].ref))
  /\ UNCHANGED <<serviceVars, syncVars, entryVars, creds, stop, map, refreshes,
                 disk, failed, broken>>

\* create_remote_handler: the log configuration names no group or stream; the
\* thread ends before the Session is entered
LogFails(s) ==
  /\ thread[s] = "submitted"
  /\ thread' = [thread EXCEPT ![s] = "ended"]
  /\ bind' = [bind EXCEPT ![s] = None] /\ creds' = [creds EXCEPT ![s] = None]
  /\ UNCHANGED <<serviceVars, syncVars, entryVars, logs, stop, credVars>>

Goes(s, from, to) ==
  /\ thread[s] = from
  /\ thread' = [thread EXCEPT ![s] = to]
  /\ UNCHANGED <<serviceVars, syncVars, entryVars, creds, bind, logs, stop,
                 credVars>>

\* _stopped_running is cleared, and actions are started until the Session is
\* told to stop, or fails
Run(s)      == Goes(s, "warming", IF s \in stop THEN "ran" ELSE "working")
RunEnds(s)  == s \in stop /\ Goes(s, "working", "ran")
RunFails(s) == s \notin stop /\ Goes(s, "working", "ran")

\* the contexts are left, and the Session's stop() is called
Leave(s) ==
  /\ thread[s] = "ran"
  /\ thread' = [thread EXCEPT ![s] = "ended"]
  /\ stop' = stop \union {s}
  /\ logs' = [logs EXCEPT ![s] = None] /\ creds' = [creds EXCEPT ![s] = None]
  /\ IF creds[s] = None THEN UNCHANGED <<objects, broken>>
     ELSE LET left == Left(objects[creds[s]].ref) IN
          /\ objects' = RefOf(s, left)
          /\ broken' = IF left.inside = 0 THEN broken \ {creds[s]} ELSE broken
  /\ UNCHANGED <<serviceVars, syncVars, entryVars, bind, map, refreshes,
                 disk, failed>>

Thread(s) == Begin(s) \/ LogFails(s) \/ Run(s) \/ RunEnds(s) \/ RunFails(s) \/ Leave(s)

(***************************************************************************)
(* The refreshers                                                          *)
(***************************************************************************)
Update(o, new) == objects' = [objects EXCEPT ![o] = new]

\* Past the mandatory timeout nothing changes; what passes during a callback is
\* left out.
TimePasses(o) ==
  /\ objects[o].made /\ objects[o].valid \in {"fresh", "advisory"}
  /\ objects[o].out = None
  /\ MayPass(objects[o].ref, objects[o].valid)
  /\ Update(o, [objects[o] EXCEPT !.valid = Later(@)])
  /\ UNCHANGED <<serviceVars, syncVars, entryVars, threadVars, stop, map, refreshes,
                 disk, failed, broken>>

Fire(o) ==
  /\ objects[o].ref.timer /\ ~ objects[o].ref.refreshing
  /\ refreshes < MaxRefreshes /\ refreshes' = refreshes + 1
  /\ Update(o, [objects[o] EXCEPT !.ref = Fired(@)])
  /\ UNCHANGED <<serviceVars, syncVars, entryVars, threadVars, stop, map, disk,
                 failed, broken>>

\* the end of _refresh; "broken" has those whose thread just ends
Ended(o, object, outcome) ==
  /\ Update(o, [object EXCEPT !.ref = Refreshed(@, outcome, object.valid), !.out = None])
  /\ broken' = IF outcome \in {"Interrupted", "unknown"} /\ object.ref.inside > 0
               THEN broken \union {o} ELSE broken

\* refresh_credentials: what it obtains goes to the directory of the queue
RefreshReturns(o, raised) ==
  /\ objects[o].ref.refreshing /\ objects[o].out = None
  /\ raised = "Interrupted" => mode # "run"
  /\ \E answer \in Responses :
       LET outcome == IF raised = "ok" THEN FromResponse(answer, FALSE) ELSE raised
           got     == raised = "ok" /\ answer = "credentials"
           new     == IF got THEN SetCredentials(objects[o]) ELSE objects[o]
           calls   == Callbacks(outcome, new.valid) IN
       /\ IF calls = <<>> THEN Ended(o, new, outcome)
          ELSE /\ Update(o, [new EXCEPT !.out = outcome, !.calls = calls])
               /\ UNCHANGED broken
       /\ disk' = [disk EXCEPT ![QueueOf[o]] = Cached(@, got)]
  /\ UNCHANGED <<serviceVars, syncVars, entryVars, threadVars, stop, map, refreshes,
                 failed>>

\* Mutant: the files are deleted, the entry is kept.
KeepEntry(k, error) == map

\* Whoever has the key now loses its credentials.
Forget(k, error) == IF error = "Timeout" THEN map ELSE [map EXCEPT ![k] = None]

\* _queue_credentials_refresh_failed
Callback(o) ==
  /\ objects[o].calls # <<>>
  /\ LET error == Head(objects[o].calls) IN
     /\ map' = Forget(Key(o), error)
     /\ disk' = IF error = "Timeout" \/ map[Key(o)] = None THEN disk
                ELSE CleanedUp({QueueOf[o]})
  /\ failed' = failed \union {Failure(o, Head(objects[o].calls))}
  /\ stop' = stop \union entries
  /\ Update(o, [objects[o] EXCEPT !.calls = Tail(@)])
  /\ UNCHANGED <<serviceVars, syncVars, entryVars, threadVars, refreshes, broken>>

RefreshEnds(o) ==
  /\ objects[o].out # None /\ objects[o].calls = <<>>
  /\ Ended(o, objects[o], objects[o].out)
  /\ UNCHANGED <<serviceVars, syncVars, entryVars, threadVars, stop, map, refreshes,
                 disk, failed>>

Timers(o) == TimePasses(o) \/ Fire(o) \/ Callback(o) \/ RefreshEnds(o)
             \/ \E raised \in Outcomes : RefreshReturns(o, raised)

Init ==
  /\ assigned = {} /\ past = {} /\ role \in [Sessions -> Roles \union {None}]
  /\ mode = "run" /\ pc = "idle" /\ response = {} /\ tried = {} /\ at = None
  /\ given = None /\ entries = {} /\ users = [u \in Users |-> {}]
  /\ thread = [s \in Sessions |-> "none"] /\ creds = [s \in Sessions |-> None]
  /\ stop = {} /\ bind = [s \in Sessions |-> None] /\ logs = bind
  /\ map = [k \in Keys |-> None] /\ objects = [s \in Sessions |-> NoObject]
  /\ refreshes = 0 /\ disk = [q \in Queues |-> Empty]
  /\ struck = {} /\ failed = {} /\ broken = {}

Next == \/ \E s \in Sessions : Assign(s) \/ Unassign(s) \/ Thread(s) \/ Timers(s)
        \/ Sync \/ Shutdown \/ CleanupAll

Spec == Init /\ [][Next]_vars

(***************************************************************************)
(* Properties.                                                             *)
(***************************************************************************)
Threads == {"none", "submitted", "warming", "working", "ran", "ended"}
Inside == {s \in Sessions : thread[s] \in {"warming", "working"}}
MaybeObject == Sessions \union {None}

TypeOK ==
  /\ assigned \union past \union response \union tried \union entries
     \union stop \union struck \subseteq Sessions
  /\ role \in [Sessions -> Roles \union {None}]
  /\ mode \in {"run", "drain", "last", "done"}
  /\ pc \in {"idle", "remove", "create"}
  /\ at \in MaybeObject /\ given \in MaybeObject
  /\ users \in [Users -> SUBSET Sessions]
  /\ thread \in [Sessions -> Threads]
  /\ creds \in [Sessions -> MaybeObject] /\ bind \in [Sessions -> MaybeObject]
  /\ logs \in [Sessions -> MaybeObject]
  /\ map \in [Keys -> MaybeObject] /\ objects \in [Sessions -> Objects]
  /\ disk \in [Queues -> [process : BOOLEAN, creds : BOOLEAN]]
  /\ failed \subseteq Failures /\ refreshes \in 0..MaxRefreshes /\ broken \subseteq Sessions

FailedKeys == {Key(f.of) : f \in failed}

\* While Sessions use the credentials of a queue, they are refreshed, however
\* many come and go, until the failure of a refresh has been announced, a
\* refresh was interrupted or has broken.
HeldMeansRefreshed ==
  \A s \in Inside : creds[s] # None /\ Key(s) \notin FailedKeys =>
    LET o == objects[creds[s]] IN o.ref.timer \/ o.ref.refreshing \/ creds[s] \in broken

\* The jobs of the queue all name the same role.  Its files are in a directory
\* of the queue, so credentials for another role overwrite and delete them.
OneRole(q) == \A s, x \in Sessions :
                /\ QueueOf[s] = q /\ role[s] # None
                /\ QueueOf[x] = q /\ role[x] # None
                => role[s] = role[x]

\* What a Session uses is what the scheduler manages: a later Session shares
\* it, and the files of its queue are there (unless jobs of the queue name
\* different roles), as long as no refresh failed.
UsesManagedCredentials ==
  \A s \in Inside \ stop : creds[s] # None /\ mode = "run" /\ Key(s) \notin FailedKeys =>
    map[Key(s)] = creds[s] /\ (OneRole(QueueOf[s]) => disk[QueueOf[s]].process)

\* Credentials whose refresh the service refused for good are not handed out
\* again: a later Session makes new ones.  What is handed out has its files
\* (unless jobs of the queue name different roles).  This is less than the
\* comment in _queue_credentials_refresh_failed wants (scheduler.py,
\* 1311-1314): a refresh that fails by TimeoutError leaves credentials in the
\* map that have expired and that nothing renews.
MapHasFiles ==
  \A k \in Keys : map[k] # None =>
    /\ \A f \in failed : f.of = map[k] => f.timeout
    /\ OneRole(k[1]) => disk[k[1]].process

\* Cleaning up after a user hits no Session that works.
NoStrayKill == struck = {}

\* Every Session logs where its own log configuration says.
LogsAreItsOwn == \A s \in Inside : logs[s] = s
=================================================================================
