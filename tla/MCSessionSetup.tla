----------------------------- MODULE MCSessionSetup -----------------------------
(* SessionSetup on small instances. *)
EXTENDS SessionSetup, TLC

CONSTANTS s1, s2, s3, q1, q2, u1

OneQueue == [s \in Sessions |-> q1]
OneUser  == [s \in Sessions |-> u1]

Symmetry == Permutations(Sessions) \union Permutations(Roles)

\* bound: with two roles, the credentials of one of them are refreshed once
FewRefreshes == (\A q \in Queues : OneRole(q)) \/ refreshes <= 1

\* nothing but LogsAreItsOwn depends on where the logs go
ButForLogs == <<serviceVars, syncVars, entryVars, thread, creds, stop, credVars>>
=================================================================================
