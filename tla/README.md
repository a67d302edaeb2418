# A verification project for the Deadline Cloud worker agent

The worker agent (`src/src/deadline_worker_agent`) runs render jobs for AWS Deadline Cloud. It gives
its host an identity as a *Worker*, then repeats one request, `UpdateWorkerSchedule`: the request
tells the service how the assigned *session actions* are doing, the response assigns *Sessions* with
pipelines of session actions and cancels some of them. Each Session runs its pipeline in a thread
of its own by means of the Open Job Description (*openjd*) library, which runs processes and calls
back. This directory models that program in TLA+, checks the models with TLC and proves theorems
about them with TLAPS.

- [1. The system](#1-the-system): parts, state, operations, interactions, what is hard
- [2. The modules and the code](#2-the-modules-and-the-code)
- [3. What the runs check](#3-what-the-runs-check)
- [4. What is proved](#4-what-is-proved)
- [5. Where code and documentation disagree](#5-where-code-and-documentation-disagree)
- [6. What is not modelled, and what comes next](#6-what-is-not-modelled-and-what-comes-next)

Run a configuration with `tlc -config X.cfg M` (section 3 names the module of each), check the
proofs with `tlapm M.tla` for each module `M` whose name ends in `_proofs`. `PROJECT.json` has, for
every definition, the lines of the source it stands for.

## 1. The system

### Threads and locks

| thread | runs | shares |
| --- | --- | --- |
| main | `entrypoint`, `bootstrap_worker`, `Worker.run`, signal handlers, `WorkerScheduler.shutdown` | `_stop`, `_shutdown`, `_wakeup` |
| scheduler | `WorkerScheduler.run` → `_sync` → `_update_sessions`, `_drain_scheduler` | `_sessions`, `_action_updates_map`, `_queue_aws_credentials`, all Sessions |
| EC2 monitor | `Worker._monitor_ec2_shutdown` | `_stop` |
| Session (one each) | `run_session`: log, queue credentials, `Session.run` with warm-up, loop, `_cleanup` | its queue, `_current_action`, the callbacks into the scheduler |
| openjd (one per process) | `Session.update_action` | the same |
| refresher timers | `AwsCredentialsRefresher._refresh` and its failure callbacks | `_sessions`, the queue credentials, `_shutdown` |
| log threads | `CloudWatchLogStreamThread.run` | a deque of log events |

Two locks order most of a Session's life: the scheduler's *action-update lock* (re-entrant), always
taken first, and each Session's *current-action lock*. The hard places are where the code holds
neither: the whole of `cancel_all` when `_cleanup` calls it, the test of a Session's future before
its queue is replaced, the map `_sessions`, and the request itself.

### Components

For every part: the state it keeps, its operations, what makes it correct. `PROJECT.json` lists
the sources of each and how far it is modelled.

| component | state | operations | correct when |
| --- | --- | --- | --- |
| **Session** `sessions/session.py` | current action, task whose output is being uploaded, active environments, stop flag with result and grace time, interrupted | `run`, `_start_action`, `update_action`, `replace_assigned_actions`, `cancel_actions`, `stop`, `_cleanup` | each action starts at most once and gets one final outcome; environments that were entered are exited; `stop` ends it |
| **SessionActionQueue** `scheduler/session_queue.py` | `_actions`, `_actions_by_id` | `replace`, `insert_front`, `dequeue`, `cancel_all` | list and dictionary agree whenever someone relies on it; a replacement neither repeats nor loses an action |
| **Session actions** `sessions/actions` | whether a cancel was sent | `start`, `cancel` | a start that fails is an outcome of the action |
| **Sync loop** `scheduler/scheduler.py` | `_sessions`, `_action_updates_map`, `_wakeup`, `_shutdown` | `run`, `_sync`, the transaction of updates, `_update_sessions`, `_drain_scheduler`, `shutdown` | no completion is lost or told twice differently; outcomes reach the service in pipeline order; a dead Session's actions are answered; a shutdown is noticed and ends |
| **API calls** `aws/deadline` | attempt, backoff | nine wrapped calls | each error is retried, given up, or answered by the recovery meant for it |
| **Queue credentials** `aws_credentials` | the map of credentials, expiry, timer, number of Sessions inside, files | enter, exit, refresh, share, clean up | they are refreshed and on disk while a Session uses them; a failed refresh stops the Sessions |
| **Worker credentials** `aws_credentials/worker_boto3_session.py` | the fleet role's credentials, the timer | enter, exit, refresh | the agent never takes work with credentials nobody renews |
| **Worker** `worker.py` | the scheduler, the EC2 monitor, the signal handlers | run, shut down | whichever ends first ends the others; the drain goes by the grace time of a cause |
| **Entrypoint, bootstrap** `startup` | the state file, the credentials file, the Worker's status in the service | load or create, save, start, stop, delete | a crash at any point leaves no needless Worker; the agent is online only as what it has saved |
| **Host configuration** `startup/host_configuration_script.py` | the script's process, `hostOk` in the state file | run | no job runs on a host that is not configured |
| **Job entities** `sessions/job_entities` | a cache of details | warm-up in batches, single requests, validation | an action fails only for details that are bad or absent; a job runs as the configured user |
| **Windows credentials resolver** `windows/win_credentials_resolver.py` | a cache of logons | get, prune, clear | every logon is closed in the end; a refused one is not tried again at once |
| **Session user clean-up** `scheduler/session_cleanup.py` | the map of Sessions per OS user | register, deregister | a user's processes are killed only when none of its Sessions is at work |
| **CloudWatch streaming** `log_sync`, `sessions/log_config.py` | two deques, a batch, a thread | emit, partition, collect, upload, close | batches keep the limits, order is kept, nothing is lost at the end, each Session logs to its own stream |
| **Configuration, capabilities** `config`, `capabilities.py` | — | merge | later sources win |
| **Installer, other Windows support, boto shims, utilities** | — | — | see section 6 |

How they call each other: the entrypoint bootstraps (API calls, Worker credentials), runs the host
configuration script and then `Worker.run`, which starts the scheduler and the monitor inside the
Worker's refresher. A sync of the scheduler may create Sessions (job entities, user, log, queue
credentials), replaces their queues, cancels, removes (user clean-up, queue credentials). A Session
asks the job entities for details and reports through the scheduler's callback. Failures of a
refresh call back into the scheduler (`shutdown` or `stop` of every Session).

### What is hard

`PROJECT.json` lists the hazards at their lines, with the properties that cover them. In groups:
(a) the clean-up of a Session racing with the scheduler and with late callbacks; (b) responses that
are older than the outcomes the Worker already has; (c) the transaction of updates: a request in
flight, a newer update, a retry after the service took the first one in; (d) one step failing after
another has taken effect: `dequeue`, `start`, the creation of a Session, the thread itself;
(e) shutdown: several causes at once, two events and a loop that clears one of them; (f) credentials
that are shared by Sessions which come and go, renewed by a timer and deleted by the scheduler or by
the failure of the renewal; (g) an identity that is kept in two places, the service and a file, with
crashes in between; (h) limits of a log service, and a stream that has to end.

## 2. The modules and the code

| module | component | extends | lines of code it stands for |
| --- | --- | --- | --- |
| `Session` | a Session, its queue, its actions, the openjd session | – | `sessions/session.py`, `scheduler/session_queue.py`, `sessions/actions` |
| `WorkerScheduler` | the sync loop, the Sessions it runs, the service | `Session` | `scheduler/scheduler.py` |
| `SessionSetup` | what a sync sets up around the Sessions: queue credentials, logs, users | `Refresher` | `scheduler/scheduler.py`, `aws_credentials`, `sessions/log_config.py`, `scheduler/session_cleanup.py` |
| `Refresher` | `AwsCredentialsRefresher`, as operators on a record | – | `aws_credentials/credentials_refresher.py` |
| `WorkerMain` | main thread, signals, EC2 monitor, Worker credentials | `Refresher` | `worker.py`, `aws_credentials/worker_boto3_session.py`, `windows/win_service.py` |
| `Bootstrap` | the host's launches, from the first to a crash or the end | `DeadlineApi` | `startup`, `aws_credentials/temporary_credentials.py` |
| `DeadlineApi` | what each API call makes of each error | – | `aws/deadline/__init__.py` |
| `JobEntities` | the cache of entities, the thread that fills it, the creation of a Session | `EntityDetails`, `WindowsCredentials` | `sessions/job_entities`, `scheduler/scheduler.py` |
| `EntityDetails` | validation and conversion of the details, the choice of the OS user | – | `sessions/job_entities`, `scheduler/scheduler.py` |
| `WindowsCredentials` | the cache of logons | – | `windows/win_credentials_resolver.py` |
| `LogStream` | the CloudWatch handler and its thread | – | `log_sync/cloudwatch.py` |
| `LogChannel` | abstract: what a log handler promises | – | – |

`MC…` modules have the instances. `Session_proofs`, `SessionOutcome_proofs`, `WorkerScheduler_proofs`,
`SessionSetup_proofs`, `WorkerMain_proofs`, `Bootstrap_proofs`, `LogStream_proofs` and `JobEntities_proofs`
have the theorems. The abstract specifications are two: `Session` read as the contract that
`WorkerScheduler` implements (`Spec`), and `LogChannel`, which `LogStream` implements (`ChannelSpec`).

### Session

One action per block of code that holds both locks; code outside the locks is split wherever another
thread can get in between.

State: `queue` holds the entries of `_actions` the service sent, as a set, since their order is
always the pipeline's, `Pos`; `upload` is the SYNC_OUTPUT entry that `insert_front` puts before them,
and `byId` the keys of `_actions_by_id`, which differ from the list exactly while `cancel_all` works
without locks or `replace` has dropped an action. `current`, `target`, `envs`, `interrupted`, `stop`,
`stopResult`, `grace`, `stopped` are the fields of the same meaning. `attached` says that
`_asset_sync` and `_job_attachment_details` are both there. `proc` and `pendingCb` are the openjd
session: a process ends (its state is visible at once), and only later its callback gets the locks.
`updates` is the scheduler's map with, per entry, whether the request in flight carries it.
`assigned`, `reported`, `ran` and `refused` are history: they guard nothing the code does except the
contract. `refused` has the actions that `DequeueFails` has reported for want of their details.

| actions | code |
| --- | --- |
| `Run`, `CheckStop`, `NothingToStart`, `StartAction`, `StartFails`, `DequeueFails`, `DequeueRaises` | `run`, `_run`, `_start_action` with `dequeue`, `start` and every way they fail |
| `Progress`, `ProcessEnds`, `Callback` | `update_action`, `_action_updated_impl`, `_handle_action_update`; `ProcessEnds` is the library's |
| `Interrupt`, `SnapshotQueue`, `PopAction`, `RemoveAction`, `TellNeverAttempted`, `PlanExits`, `CancelRunning`, `ExitEnvironment`, `StepOver`, `StepTimesOut`, `StepsDone` | `_cleanup`, with `cancel_all` one access to shared state at a time and `_monitor_action` |
| `Close`, `WakeScheduler`, `Finish` | the `finally` clauses of `run` and `run_session`, and `__exit__` |
| `SubmitSession` … `RemoveSession` | what the scheduler thread does to a Session, as a contract: a list holds every assigned action that has no reported completion |

Abstractions: messages, time stamps and manifests are left out. Of a grace time only *none*, *left*
or *spent* matters; it may run out at the end of any step. `start()` is one step with the callback
that reports RUNNING following as `Progress`. Details that cannot be had (`"entity" \in Faults`)
fail the `dequeue` that needs them; whether they can is the subject of `JobEntities`.

### WorkerScheduler

Replaces the contract by the loop: `at` is the scheduler thread's place in `run`, `_sync`,
`_update_sessions` and `_drain_scheduler`; `request` is what the request in flight carries;
`listed`, `lists`, `cancels` are the response; `gone` is what `future.exception()` said before the
lock was taken. `SetShutdown` and `SetWakeup` are the two lines of `shutdown()`, which a signal
handler runs at any time (`Turn` is their order). A wait in `run` ends by the wakeup (`WakeUp`) or by its time
limit (`IntervalPasses`), which are two actions so that fairness can tell them apart. `RetryRequest` is a retryable error, before or after the service has taken
the updates in; `Gate` is the test of the interrupt event before each attempt.

The service (external) is modelled from what `src/` does with it and `docs/dev/worker_api_protocol.md`:
it assigns a pipeline in order, gives nothing but ENV_EXITs to a Session with an unsuccessful or
cancelled action, lists a Session until all its actions are complete, repeats a cancellation while
the action is incomplete, and asks for STOPPED only with no Session left.

### SessionSetup and Refresher

The other half of a sync: `remove` (stop, wait, delete, clear up the user), the credentials of queues
nobody needs any more, then for each new Session the log, the user, the credentials – shared, made,
refused, done without – the submission to the executor and the entry in `_sessions`. A credentials
object is named for the Session it was made for, so that an old one whose timer still runs and the
new one of the same queue are told apart; `map` is `_queue_aws_credentials`, `disk` what is in the
directory of a queue. `failed` is history: of which object a failed refresh was announced, and whether
as a `TimeoutError`. The thread of a Session goes through the contexts of `run_session`; `bind` is
what the closure's variables hold until it reads them. A refresh is four steps: the timer fires, the
request returns (its outcome decides about files and callbacks), each callback, the end.

`Refresher` has the state of one refresher as a record and `__enter__`, `__exit__`, `_set_timer`,
`_refresh` as operators on it. Remaining lifetimes are the four periods its tests tell apart: *fresh*,
*advisory*, *mandatory*, *expired*. A timer is due at the end of *fresh* and then every minute; in the
model no period ends before a timer that was set has fired (`MayPass`, see section 6).

### WorkerMain

`run` from entering the refresher to the join of the executor, `shutdown()` in two steps for each
thread that may call it (handler, main, refresh timer), the scheduler reduced to the places where it
looks at the events, the monitor's poll. `windows` says that the agent is a Windows service, where
`Worker._stop` and `WorkerScheduler._shutdown` are one event and `SvcStop` sets it. The waits of
the scheduler's loop have a time limit, and so `_wakeup` only makes it faster (`WorkerScheduler` is
about the wakeup itself).

### Bootstrap and DeadlineApi

`Bootstrap` is one thread, but one that may crash between any two steps (`Crash`) and starts over
with what is on disk (`file`, `cached`) and in the service (`workers`). The file is emptied and
written in two steps, as `save` does. Every call of the service may succeed, fail with any error of
`Errors` or one that follows from the Worker's status, or succeed with the answer lost; what the agent
does then is what `DeadlineApi` says the wrapper raises. `workers` may also change behind the agent's
back: a Worker is deleted, or stops responding. `Worker.run` is the one step `running`.

### JobEntities, EntityDetails, WindowsCredentials

Details are a function from the paths that are present to a mark of what is there, so that a
validator is a statement about paths: required, optional, of the wrong type. The instance has a good
answer of each kind and one that is bad in each way the code tells apart. `JobEntities` is the
scheduler's thread that asks for the job and creates the Session, then the Session's thread with its
warm-up batches, of which each may fail, be partly answered, or end the warm-up, and the request per
action. The Sessions come one after the other: they share the cache of Windows logons only, which the
scheduler's thread alone uses.

### LogStream and LogChannel

A message is the sequence of the widths of its characters, which is what cutting it depends on.
Several threads log (`Loggers`): a record has its time stamp before `emit` appends it, and others may be
appended in between, so that the deque need not be in the order of time, as the comment at
cloudwatch.py:486 says. Records are numbered as they are appended. `raw` and `parts` are the two deques,
`Collect` takes one event into the batch, or finds it full, or rejected. A notice about a record that
cannot be encoded holds the record whole, and its size is a constant of the model (`NoticeSize`). An
upload fails before or after the service has stored it. The clock may go back, as
Python's `datetime.now` may. Of the channel, `owed` is what was accepted and is still in a deque or in
the batch.

## 3. What the runs check

All runs set `CHECK_DEADLOCK FALSE`: a Session that ended, a closed service, a scheduler or an agent
that has exited is the program's normal end.

| run | module | states | shows |
| --- | --- | --- | --- |
| `session_attachments` | MCSession | 462,036 | one outcome (`CompletedIsFinal`) and one start (`StartsOnce`) per action, whatever fails; callbacks find an action unless the Session stops; the inductive invariant `OutcomeInv` |
| `scheduler_faults` | MCWorkerScheduler | 851,508 | the loop implements `Session` (`Spec`), loses no completion, tells outcomes once and in order, and does not sleep on a Session that has ended (`SleepMissesNoEnd`), although Sessions fail, expire, are cancelled and requests are retried |
| `session_envs` | MCSession | 187,708 | the same invariant where the clean-up exits environments, within its time or beyond |
| `scheduler_drain` | MCWorkerScheduler | 140,224 | a shutdown ends the scheduler (`ShutdownDrains`), from every point of the loop and for every cause, without the help of the update interval |
| `scheduler_progress` | MCWorkerScheduler | 217,011 | every assigned action gets an outcome that reaches the service; closed Sessions are removed |
| `bootstrap` | MCBootstrap | 1,305,214 | online only as the saved Worker; no needless Worker; no job on a host that is not configured; every launch ends or runs |
| `worker_main` | MCWorkerMain | 227,264 | the drain knows its grace time; no timer survives; expired credentials are being renewed; a signal and a failed refresh end the agent |
| `session_setup` | MCSessionSetup | 3,550,071 | the credentials a Session uses are renewed, managed and on disk; what was refused for good is not handed out again; no clean-up of a user hits a working Session |
| `log_stream` | MCLogStream | 2,875,100 | batches keep all limits, characters stay whole, order is kept, the handler implements `LogChannel`, `close()` returns |
| `job_entities` | MCJobEntities | 495,525 | the user of a Session is the configured one; an action fails only for bad or absent details; logons are kept and failures remembered |
| `session_logs`, `details_failure` | | | section 5 |

**Bounds.** Nothing in the Session and the loop is counted, so there is no bound on their steps:
retries, syncs, stops and progress messages may go on for ever. One Session is enough for the races
of a Session, as Sessions share nothing but the map, the wakeup and the scheduler thread. A download
and a task with its upload make every kind of entry and leave something to cancel, replace and skip;
environments are in `session_envs` and `scheduler_progress`. The proofs of section 4 cover every
pipeline and any number of Sessions, for `Session` and for `WorkerScheduler`. `bootstrap`: two launches, so that one meets
what a crash of the other left, and three Workers, as many as two launches can ask for; one error
that is retried and one that is not, next to those that depend on the Worker's status. `session_setup`: two Sessions, the
fewest that share credentials and a user, of one queue, each with one of two roles or without, and two
refreshes, so that one can come late while another has failed; where the Sessions name different roles,
one (`FewRefreshes`), since their credentials have nothing in common but the files, which the
properties except there (section 5). Sessions and roles are interchangeable, hence the symmetry set; no
temporal property is checked with it. Its view leaves out where the Sessions log, which nothing else
depends on. Its queue has no job attachment settings (a Session that has
them and gets no credentials is not created, which is a subset of what happens otherwise); the run
`session_logs` has one with them. `log_stream`: three records of two threads, the limits so small that each
of them is met, and three times for a span of one; one change of the clock, forward or back. The notice
about the second record, if that cannot be encoded, is larger than a batch; those about the others are
small, so that both kinds occur.
`job_entities`: four actions in batches of two. `worker_main` has the threads of the code and no
bound. Time is abstract everywhere: ages and lifetimes are counted in the steps the code's
comparisons tell apart.

**Fairness.** `WorkerScheduler` (`WokenSystemSpec`): weak fairness of the scheduler thread, of each
Session thread, of `SetWakeup` (a signal handler that has begun goes on) and of callbacks: threads of
a running program are not starved, and the locks are held only for finite code. Weak fairness of
`ProcessesEnd`: a job's process ends at some time. It is the job's, not the agent's; without it a task
that never ends has no outcome, which is no fault of the agent. Strong fairness of `ServiceAnswers`:
retries may interrupt it again and again, but the service does not answer with retryable errors for
ever. No fairness for `SetShutdown`, `CredentialsExpire`, assignment or cancellation, nor for the end
of an update interval: the interval is of the service's choosing, and with it every sleep would end, and
no order of `_shutdown`, `_wakeup` and `clear()` could be wrong. `scheduler_drain` checks
`ShutdownDrains` under this. `scheduler_progress` adds the interval (`PollingSystemSpec`), because the
code relies on it: the first reports of a Session, made before it is registered, and those of a Session
that still has actions, wake nobody. What must not wait for it is the end of a Session, and
`SleepMissesNoEnd` says so as an invariant.
`WorkerMain`: each thread, and each call of `shutdown()` that has begun; none for signals, time, the
timer or the answer of a refresh. That a drain ends is `ShutdownDrains`, and that it is fair to assume.
`Bootstrap`: the agent's steps, none for crashes, launches and the service; in particular the host
configuration script is assumed to end, since the agent waits for it without a limit of its own.
`LogStream`: the stream's thread and `close()`; an upload need never succeed.

Some properties except a case in which the code promises nothing. `CloseReturns`: the notices that are
rejected like the record they are about, and the notice about a record that cannot be encoded if no
batch can hold it. `WorksWithCredentials`: a refresh that ends by an exception `_refresh` does not know
(an `OSError` when the credentials are written). `UsesManagedCredentials` and `MapHasFiles`: the files,
but not the entries, of a queue whose jobs name different roles; `MapHasFiles` also the entries that are
kept after a `TimeoutError`, against the comment at scheduler.py:1311-1314. `OrderKept`: records of
different threads are in the order in which the handler was given them, which need not be that in which
they were created. `CompletedIsFinal` excepts the FAILED that `DequeueFails` reports of an action whose
details are missing, by the ghost `refused`, and no other FAILED; this is the finding `details_failure`.

## 4. What is proved

For all values of the constants that satisfy the named assumptions (`ConstantsAssumption`,
`SchedulerAssumption`, `SessionSetupAssumption`, `MaxInsideAssumption`, `NoneAssumption`,
`BootstrapAssumption`, `LogStreamAssumption`, `JobEntitiesAssumption`, `WindowsCredentialsAssumption`;
TLC checks them on every instance). Every invariant that a passing run checks is stated by a theorem, and the type invariant of `WorkerMain`,
which no run repeats:

| theorem | module | states |
| --- | --- | --- |
| `TypeCorrect` | `Session_proofs` | `Spec => []TypeOK` |
| `OutcomeCorrect` | `SessionOutcome_proofs` | `Spec => []OutcomeInv` |
| `UploadsCorrect` | `SessionOutcome_proofs` | `Spec => []UploadIsForItsTask` |
| `CompletionsFinal` | `SessionOutcome_proofs` | `Spec => CompletedIsFinal` |
| `WorkStartsOnce` | `SessionOutcome_proofs` | `Spec => StartsOnce` |
| `CallbacksHaveAction` | `SessionOutcome_proofs` | `Spec => []CallbackHasAction` |
| `SchedulerImplementsSession` | `WorkerScheduler_proofs` | `SystemSpec => Spec` |
| `CompletionsKept` | `WorkerScheduler_proofs` | `SystemSpec => []NoCompletionLost` |
| `OneOutcomeTold` | `WorkerScheduler_proofs` | `SystemSpec => ServiceSeesOneOutcome`, if no details are missing |
| `ServiceLearnsInOrder` | `WorkerScheduler_proofs` | `SystemSpec => []OutcomesInOrder`, if no details are missing |
| `SystemOutcomes` | `WorkerScheduler_proofs` | `SystemSpec => CompletedIsFinal /\ StartsOnce` |
| `TypeCorrect` | `SessionSetup_proofs` | `Spec => []TypeOK` |
| `CredentialsRefreshed` | `SessionSetup_proofs` | `Spec => []HeldMeansRefreshed` |
| `CredentialsManaged` | `SessionSetup_proofs` | `Spec => []UsesManagedCredentials` |
| `FilesExist` | `SessionSetup_proofs` | `Spec => []MapHasFiles` |
| `KillsNoWork` | `SessionSetup_proofs` | `Spec => []NoStrayKill` |
| `TypeCorrect` | `WorkerMain_proofs` | `Spec => []TypeOK` |
| `DrainInformed` | `WorkerMain_proofs` | `Spec => []DrainKnowsGrace` |
| `TimerGone` | `WorkerMain_proofs` | `Spec => []NoTimerLeft` |
| `CredentialsRenewed` | `WorkerMain_proofs` | `Spec => []WorksWithCredentials` |
| `TypeCorrect` | `Bootstrap_proofs` | `Spec => []TypeOK` |
| `OnlineIsSaved` | `Bootstrap_proofs` | `Spec => []OnlineAsSaved` |
| `WorkersNeeded` | `Bootstrap_proofs` | `Spec => NoNeedlessWorkers` |
| `ConfiguredFirst` | `Bootstrap_proofs` | `Spec => []ConfiguredBeforeJobs` |
| `TypeCorrect` | `LogStream_proofs` | `Spec => []TypeOK` |
| `BatchesAreAccepted` | `LogStream_proofs` | `Spec => []BatchAccepted` |
| `NoCharacterIsCut` | `LogStream_proofs` | `Spec => []CharactersWhole` |
| `TheStreamIsInOrder` | `LogStream_proofs` | `Spec => []OrderKept` |
| `TheHandlerIsAChannel` | `LogStream_proofs` | `Spec => ChannelSpec` |
| `TypeCorrect` | `JobEntities_proofs` | `Spec => []TypeOK` |
| `UserIsConfigured` | `JobEntities_proofs` | `Spec => []RunsAsConfigured` |
| `LogonsAreCached` | `JobEntities_proofs` | `Spec => []LogonsKept` |
| `RefusedIsNotRetried` | `JobEntities_proofs` | `Spec => []FailureWaits` |
| `FailureIsItsOwn` | `JobEntities_proofs` | `Spec => FailsForItself` |

**Session.** `CompletedIsFinal` is not inductive. The argument (`OutcomeInv`, one conjunct each): a
Session holds only its own assigned actions (`HoldsOwn`), so a step of one Session cannot report
another's; uploads are those of their task (`UploadOfTask`); until the clean-up interrupts, nothing
that is queued, running or waiting for its upload has an outcome (`Undecided`) – each action that
reports takes what it reports out of the queue, and the contract hands over only what has no outcome;
after it, `interrupted` makes the late callback silent, and `cancel_all` pops each id before it
reports it (`Cancelling`). This last conjunct is where the missing lock matters: a `replace()` in the
midst of `cancel_all` puts a popped action back into the dictionary, but the list of ids was taken
before, so no id is reported twice. The proof has one lemma per action (what it preserves in its own
Session) and one that a step of another Session disturbs nothing (`UntouchedInv`). `Open` in
`OutcomeInv` excepts an action that is in `refused`, which has failed without leaving the queue.
`CallbackHasAction` has an invariant of its own (`Attended`): a thread leaves its loop only to stop, and
while it is in the loop openjd runs something only on behalf of the running action.

**The system.** That `WorkerScheduler` implements `Session` needs to know what the scheduler's variables
have to do with the Sessions' (`Link`, added to `TypeOK` and `OutcomeInv`). Each hand-over of the
contract must hold exactly the assigned actions without an outcome; the loop computes it from a
response that may be older than the outcomes and filters it by the map of updates. This is right
because a completion stays in the map until the service has it (`NoCompletionLost`), and that because
a request takes back nothing (`InFlight`) and a commit deletes only what was told
(`SentIsRequested`). The response itself does not grow old in another way: the service decides
nothing between its answer and the next request (`Response`). A Session that is created has nothing
that failed before (`Fresh`), since a Session exists from its creation until the service has closed it
(`Lives`). The proof has a lemma for each step that the contract knows (`…Implements`), one for what
each step does to `Link` (`…Kept`), and two for the threads of a Session, whose effect on the
scheduler is that they report and proceed (`Reports`, `Proceeds`). `OneOutcomeTold` excepts missing
details: they end in two reports (`details_failure`).

**Order.** `OutcomesInOrder` follows a report from the queue of a Session to the service (`OrderInv`).
While a Session still has its queue (`Lined`), all that the service has assigned ahead of what it holds
is complete or held too. `cancel_all` reports in the order of the queue, one id at a time and without the
locks, while requests are sent: whatever is ahead of what it still has to report is complete or still to
report (`Leaving`). When `list.remove` raises in the midst of it, an action is lost that was last reported
RUNNING; by the time the scheduler finds the Session gone and answers NEVER_ATTEMPTED for the rest, the map
has no RUNNING left to tell (`Left`), so that its list of what is incomplete has that action too. Hence
each Session reports in order (`InOrder`), a request tells in order, since it carries all of the map
(`ToldInOrder`), and the service, which assigns a pipeline from the front (`Pipelines`), learns in order
(`KnownInOrder`). ENV_EXITs are excepted in the property itself: `cancel_all` leaves them in the queue, to
be run while what follows them is reported. Missing details are excepted by the theorem, since they fail
an action that is not taken out of the queue.

**Setup of Sessions.** `IInv` of `SessionSetup_proofs` has seven parts. `NoStrayKill` rests on
`KnownThreads`: a thread that works belongs to an entry or to the Session about to be entered, and one
that has not begun to work may have lost its entry only if it was told to stop – which is why a
`wait()` that returns too early does no harm here. `HeldMeansRefreshed` rests on `Counted`, that
`_context_count` is the number of threads within (a cardinality, hence the assumption that `Sessions` is
finite), on `Refreshing`, that while the count is not zero somebody will refresh, and on `MadeOnce`,
that an object is made while nobody can hold it, since a Session that left `_sessions` is in no later
response (`Places`). `UsesManagedCredentials` adds `Managed`. The properties of the files have their
premise, `OneRole`, for each queue of its own and in each state, so that the theorems assume nothing of
the roles; that two objects of such a queue have one key (`OneKey`, from `OwnKeys`) is why a failure of
one does not delete the files of another.

**Main thread.** `Shutdowns` says that an event of an agent with two events is set only after some
grace time was written, whichever threads interleave in `shutdown()`; `Inside` that the main thread is
in the refresher exactly until it leaves; `Renewed` that until the shutdown there is a timer, a refresh,
a callback to come, a call of `shutdown()` under way or a dead thread.

**Bootstrap.** `IInv` relates the agent's memory, the disk and the service: once the agent has an id
it is the one in the file or the one about to be saved (`Known`, `Kept`, `HostSaved`), an emptied
file belongs to a save under way or to a crash in it (`Emptied`), a second try happens only after the
first Worker turned out to be deleted (`Tried`, `FreshMeansGone`), an identity that came with a disk
image is given up once (`Foreign`), and every Worker this host has created is the one in the
file, the one in memory, deleted, or lost in one of the ways the ghost `lost` counts (`Accounted`).
`NoNeedlessWorkers` follows from the last conjunct at the step that creates a Worker.

**Logs.** `IInv` of `LogStream_proofs` has four parts. `Types` says that each part in a deque, in the batch
or in the stream is a chunk of the record whose number it has (`Genuine`). Which chunks a message has is a
recursive function, and what it computes is proved by hand: the ends of the chunks grow, never cut a
character – one is at most four bytes wide, an event no smaller – and so reach the end of the message;
each induction is the least counterexample in a set of naturals (`LeastElement`). `Batches` says that
what `Collect` has put into the batch fits, in events, bytes and time, and that sorting changes none of it
(`ByTime` puts each event at its rank, which is shown to be a permutation). `Order` is the invariant
`OrderKept` needs: by number of record and place in it, the batch is ahead of the deques, what is stored is
ahead of the batch – or is the batch, when an answer was lost – and the stable sort keeps the order
among parts of the same time. `Flow` carries the refinement: the stream's thread ends only with nothing owed; and a record
gets its number, which nothing in the handler has yet (`KnownBefore`), when it is appended, so that each
step is one of `LogChannel` or a stutter, however many threads are about to append.

**Job entities.** `IInv` of `JobEntities_proofs` adds to `TypeOK` the shape of the records and what the
cache of logons knows. `LogonsKept` is about a cardinality, and so the cache must be finite (`CacheOK`).
`FailureWaits` is not inductive: it needs that a refused secret is remembered by an entry no older than
the refusal, or that its time is over (`Remembered`), and this in turn that nothing sets an entry's
`last_fetched_at` back but a fetch – and that a read may set it forward, which is the divergence noted
below. `RunsAsConfigured` holds for any data, through the validation that accepts or refuses them.

TLC only: liveness, since the prover has none under fairness (`AssignedActionsComplete`,
`ClosedSessionsEnd`, `ShutdownDrains`, `BootstrapEnds`, `AgentStops`, `FailedRefreshStops`,
`CloseReturns`), and the two findings of section 5.

## 5. Where code and documentation disagree

Each of these runs checks a sentence of a document, and TLC shows a behaviour of the code that
violates it. `PROJECT.json` quotes the lines.

| run | what happens |
| --- | --- |
| `session_logs` | One response creates two Sessions. `run_session` is a closure over variables of the loop that creates them, and the executor's thread may read `log_config`, `queue_id`, `job_id` and `new_session_id` after the loop has gone on: the first Session logs to the file and the stream of the second. |
| `details_failure` | The details of an action are missing: the handler reports FAILED, then reads `e.step_id`, which `SessionActionError` never sets; the `AttributeError` ends the thread with the entry still queued, and the clean-up reports the same action NEVER_ATTEMPTED in place of FAILED. |

Further divergences, which the models show or which were met while reading, and which no run checks:

- *Sessions.* A cancellation that meets a process which is over, with the callback still waiting for
  the locks, raises `CancelationError` through `_sync` (scheduler.py:1354) and ends the main loop
  (`CancelBreaksSync`). `replace()` during the clean-up's unlocked `cancel_all` may make
  `list.remove` raise (session_queue.py:212): the running action is then never cancelled.
  `_monitor_action` tests `if timeout:` (session.py:818), and `timedelta(0)` is false, so that a
  spent grace time is no limit. Details whose absence raises another exception than
  `SessionActionError` (a step without `dependencies`, a manifest that is not an object, a
  `RuntimeError` while SYNC_INPUT is dequeued) end the Session's thread.
- *Scheduler.* The last sync of a drain may create a Session that nobody stops (scheduler.py:402).
  A log driver or interval that is not known raises `ValueError` out of `_sync`, and so does an
  `OSError` of a credentials directory: the agent drains. `worker_api_protocol.md:87` wants failures
  reported at once, but the loop is woken only if a Session is idle; `:448` wants the last request of a
  drain to carry every interrupted action, but `Session.stop` returns before the Session has reported;
  `:450` reserves NEVER_ATTEMPTED for actions that have not run, but a task whose upload is still
  queued gets it; `:103` wants FAILED for an unknown type of action, but `replace` raises
  `NotImplementedError` through `_sync`.
- *Credentials.* `_queue_credentials_refresh_failed` keeps the entry after a `TimeoutError`, so that
  a later Session gets expired credentials nobody renews; it misses a Session that is submitted and not
  yet registered; a refresh under way when the last Session leaves sets its timer again and writes
  files of a queue that was cleaned up. The map's key has the queue and its role, the directory only
  the queue: after the role of a queue has changed, `cleanup()` for one role deletes the files that
  Sessions of the other use (without the premise `OneRole`, TLC finds it in nine steps).
  `time_remaining` in `_aws_credentials_refresh_failure` has the
  wrong sign: an expiry still to come is taken for one that is past. An exception `_refresh` does not
  know ends the timer without a word.
- *Worker.* On EC2 the 4 seconds a signal's shutdown grants may be overwritten by the shutdown without
  a grace time that follows when the monitor ends. An exception in the monitor leaves the refresher
  while the scheduler goes on. No refresher runs during the host configuration script, and the agent sets
  no limit to it.
- *Bootstrap.* A crash between emptying and writing the state file leaves a file with which every later
  launch exits. A missing answer of IMDS lets the identity of another host's disk image be used. A
  lost answer to CreateWorker leaves a Worker without a host. Some failures after STARTED leave the
  Worker STARTED.
- *Job entities.* A request that fails is passed over, so that the branch called "Should be
  impossible" is reached. The message about a secret without a password is an f-string that cannot be
  formatted: its `ValueError` comes before the failure is cached, against the comment at
  win_credentials_resolver.py:142. Within the retry time a request that fetches nothing renews the
  time of the failure, so that it may never be fetched again. A secret that is JSON but no object has no
  `get()`: the `AttributeError` (win_credentials_resolver.py:179) is none of the exceptions that
  `_create_new_sessions` catches and ends the main loop (`LoopEnds`), against the comment that a failure
  raises `ValueError`.
- *Logs.* The notice about a rejected record has the record's time and is rejected too, for ever;
  `close()` then never returns. The notice about a record that cannot be encoded holds the record whole
  and is not cut. One that no batch can hold leaves the batch full while it is empty: the thread puts it
  back and tries again for ever, with everything behind it, and `close()` never returns either; one that
  a batch can hold and that is larger than a log event is refused by PutLogEvents, with its batch, until
  the handler is closed and the attempts are used up. Records that threads log at the same time may be
  appended, and uploaded, in another order than their time stamps. A put that is retried after a lost answer stores a batch twice. A
  record appended after the thread has ended is lost.

## 6. What is not modelled, and what comes next

Not modelled at all: the installer (runs once, alone), the command line, TOML files and capabilities
(sequential merging before any thread runs), the Windows session and admin runners (thin layers over
the platform), the boto shims and the types of the API, log formatting and metrics: they keep no
state the other parts depend on.

Left out of the modelled parts: the manifests an upload reports; progress and messages; the
executor's 100 threads; the timers of the drain; the pauses between retries and the limit of requests
per second of the log thread; owners and modes of files; on Windows, that users are compared by lower-case
name in one place and by exact name in another. An exception out of iterating `_sessions` while it is
changed is a hazard that no action has. The branch of `Worker.run` for an exception out of `wait()`
is not modelled: SIGINT, its one cause, has a handler. In `LogStream` the notice about a rejected event,
which quotes 100 characters of it at most, is taken to be small. In `job_entities` an answer with an
openjd schema the agent does not support is modelled and not among the instance's answers.

Three simplifications within modelled steps:

- `Refresher.SetTimer` is one step, while `_refresh` calls `_set_timer` without the lock
  (credentials_refresher.py:192). A thread that enters the refresher at that very moment may set a timer
  too; of the two only one is remembered, and cancelled in the end.
- `Refresher.MayPass` lets no period of the credentials' life end before a timer that was set has fired.
  Within the advisory period the timer is set a minute ahead, and a period may end in that minute. The
  properties ask whether there is a timer, not when it is due.
- In `WindowsCredentials` a failure after `LogonUser` has succeeded (win_logon.py:89-106) is a refused
  secret: no open logon or loaded profile is counted for it, and `LogonsKept` does not speak of it.

Next: an abstract specification of the credentials Sessions share, and of the agent as its service sees it
(STARTED, STOPPING, STOPPED over crashes), each with its refinement proved; the executor's capacity and
the last request of a drain.
