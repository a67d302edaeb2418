------------------------------ MODULE DeadlineApi ------------------------------
(***************************************************************************)
(* What the wrappers of the service's API (aws/deadline/__init__.py) make  *)
(* of an answer that is an error: try again, or raise an exception of one  *)
(* of their classes.  Every wrapper is the same loop, so what it decides   *)
(* is all that tells them apart; the delays between tries are left out.    *)
(***************************************************************************)

Codes     == {"Throttling", "InternalServer", "AccessDenied", "Validation",
              "ResourceNotFound", "Conflict", "Unknown"}
Reasons   == {"STATUS_CONFLICT", "CONCURRENT_MODIFICATION",
              "RESOURCE_ALREADY_EXISTS", "other"}
Resources == {"worker", "fleet", "queue", "other"}
ResourceStatuses == {"ASSOCIATED", "STARTED", "STOPPING", "STOPPED",
                     "NOT_RESPONDING", "NOT_COMPATIBLE", "RUNNING", "IDLE",
                     "CREATE_IN_PROGRESS", "other"}

\* a ClientError: its code and, for a conflict, what conflicts and how
ClientErrors == [code : Codes, reason : Reasons, resource : Resources,
                 status : ResourceStatuses]

\* an error of which only the code matters
Plain(code) == [code |-> code, reason |-> "other", resource |-> "other",
                status |-> "other"]
ConflictOf(resource, status) ==
  [code |-> "Conflict", reason |-> "STATUS_CONFLICT", resource |-> resource,
   status |-> status]

\* the exception classes, and "retry" for no exception
Decisions == {"retry", "stop first", "Unrecoverable", "WorkerNotFound",
              "Conditional", "WorkerOffline", "Recoverable"}

\* except DeadlineRequestUnrecoverableError / ...ConditionallyRecoverableError
IsUnrecoverable(d) == d \in {"Unrecoverable", "WorkerNotFound"}
IsConditional(d)   == d \in {"Conditional", "WorkerOffline"}

Transient(e) == e.code \in {"Throttling", "InternalServer"}
HasReason(e, reason) == e.code = "Conflict" /\ e.reason = reason
StatusConflict(e, resource) ==
  HasReason(e, "STATUS_CONFLICT") /\ e.resource = resource

AssumeFleetRole(e) == IF Transient(e) THEN "retry" ELSE "Unrecoverable"

\* late: more than 10 seconds have passed since the call began
AssumeQueueRole(e, late) ==
  IF Transient(e) \/ (StatusConflict(e, "queue") /\ ~ late) THEN "retry"
  ELSE IF StatusConflict(e, "worker") THEN "WorkerOffline"
  ELSE IF e.code \in {"AccessDenied", "Validation", "Conflict"}
       THEN "Conditional" ELSE "Unrecoverable"

BatchGetJobEntity(e) ==
  IF Transient(e) THEN "retry"
  ELSE IF e.code = "ResourceNotFound" THEN "WorkerNotFound"
  ELSE "Unrecoverable"

CreateWorker(e) ==
  IF Transient(e)
     \/ (StatusConflict(e, "fleet") /\ e.status = "CREATE_IN_PROGRESS")
  THEN "retry" ELSE "Unrecoverable"

DeleteWorker(e) ==
  IF Transient(e) THEN "retry"
  ELSE IF /\ StatusConflict(e, "worker")
          /\ e.status \in {"STARTED", "STOPPING", "NOT_RESPONDING",
                           "NOT_COMPATIBLE", "RUNNING", "IDLE"}
       THEN "Recoverable" ELSE "Unrecoverable"

\* "stop first": a nested call sets the status to STOPPED before the next try
UpdateWorker(e, status) ==
  IF \/ Transient(e) \/ HasReason(e, "CONCURRENT_MODIFICATION")
     \/ (StatusConflict(e, "worker") /\ e.status = "ASSOCIATED")
  THEN "retry"
  ELSE IF e.code = "ResourceNotFound" THEN "Conditional"
  ELSE IF /\ StatusConflict(e, "worker") /\ status = "STARTED"
          /\ e.status \in {"STOPPING", "NOT_COMPATIBLE"}
       THEN "stop first" ELSE "Unrecoverable"

UpdateWorkerSchedule(e) ==
  IF Transient(e) \/ HasReason(e, "CONCURRENT_MODIFICATION") THEN "retry"
  ELSE IF e.code = "ResourceNotFound" THEN "WorkerNotFound"
  ELSE IF StatusConflict(e, "worker") THEN "WorkerOffline"
  ELSE "Unrecoverable"

\* construct_worker_log_config: a Worker logs to CloudWatch if the answer says
\* so and names both the group and the stream
CanLog(log) == /\ log.driver = "awslogs"
               /\ {"group", "stream"} \subseteq log.options
================================================================================
