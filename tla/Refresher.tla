------------------------------- MODULE Refresher -------------------------------
(***************************************************************************)
(* AwsCredentialsRefresher (aws_credentials/credentials_refresher.py): a   *)
(* context manager that several threads may be in at a time; while one is, *)
(* a timer refreshes the credentials of a boto3 session.  Its state is a   *)
(* record, its operations are operators on it.  The timer's thread runs    *)
(* _refresh without the lock that __enter__ and __exit__ take.             *)
(***************************************************************************)
EXTENDS Naturals, Sequences

CONSTANT MaxInside   \* bound: threads within the context

ASSUME MaxInsideAssumption == MaxInside \in Nat \ {0}

Refreshers == [inside     : 0..MaxInside,  \* _context_count
               timer      : BOOLEAN,       \* a Timer has been started and waits
               refreshing : BOOLEAN]       \* its thread is in _refresh

NewRefresher == [inside |-> 0, timer |-> FALSE, refreshing |-> FALSE]

\* how long the credentials are still good, against the two timeouts
Validities == {"fresh", "advisory", "mandatory", "expired"}

\* _set_timer: cancels the old timer, and starts the new one
SetTimer(r) == [r EXCEPT !.timer = TRUE]

\* Mutant: a later thread is counted, but the first to come has left.
EnteredOnce(r) == IF r.inside = 0 THEN SetTimer([r EXCEPT !.inside = 1]) ELSE r

\* __enter__
Entered(r) == LET n == [r EXCEPT !.inside = @ + 1] IN
              IF r.inside = 0 THEN SetTimer(n) ELSE n

\* Mutants: whoever leaves stops the timer; nobody does
LeftAlone(r)   == [r EXCEPT !.inside = @ - 1, !.timer = FALSE]
LeftRunning(r) == [r EXCEPT !.inside = @ - 1]

\* __exit__: the last thread cancels the timer, not a refresh that runs
Left(r) == [r EXCEPT !.inside = @ - 1, !.timer = @ /\ r.inside # 1]

Fired(r) == [r EXCEPT !.timer = FALSE, !.refreshing = TRUE]

\* The timer is set for the start of the advisory period, and within it for
\* every minute: no period ends before it has fired.
MayPass(r, valid) == valid = "fresh" \/ ~ r.timer

Later(valid) == CASE valid = "fresh" -> "advisory"
                  [] valid = "advisory" -> "mandatory"
                  [] OTHER -> "expired"

\* TemporaryCredentials.from_deadline_assume_role_response, for a request that
\* has been answered: a queue's role may have no credentials
Responses == {"credentials", "none", "malformed"}
FromResponse(response, required) ==
  IF response = "malformed" \/ (required /\ response = "none")
  THEN "Unrecoverable" ELSE "ok"

(***************************************************************************)
(* _refresh, after refresh_credentials has returned or raised: "ok", one   *)
(* of the exceptions, or an exception _refresh does not know, which ends   *)
(* the thread.                                                             *)
(***************************************************************************)
Outcomes == {"ok", "Interrupted", "Conditional", "Unrecoverable", "unknown"}

GoesOn(outcome) == outcome \in {"ok", "Conditional"}

\* the calls of failure_callback, in order
Callbacks(outcome, valid) ==
  (IF outcome \in {"Conditional", "Unrecoverable"} THEN <<outcome>> ELSE <<>>)
  \o (IF GoesOn(outcome) /\ valid \in {"mandatory", "expired"}
      THEN <<"Timeout">> ELSE <<>>)

\* Mutant: the timer is not set again.
RefreshedOnce(r, outcome, valid) == [r EXCEPT !.refreshing = FALSE]

Refreshed(r, outcome, valid) ==
  LET done == [r EXCEPT !.refreshing = FALSE] IN
  IF GoesOn(outcome) /\ valid \in {"fresh", "advisory"} THEN SetTimer(done)
  ELSE done
================================================================================
