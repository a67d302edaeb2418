------------------------------- MODULE LogChannel ------------------------------
(***************************************************************************)
(* What a log handler promises to the threads that log: what it was given  *)
(* is owed until it is settled, that is, stored in the log stream or given *)
(* up after the attempts it makes when it is closed; and closing it waits  *)
(* until nothing is owed but what came after the call of close().          *)
(***************************************************************************)
CONSTANT Events

VARIABLES owed, settled, late, closed

vars == <<owed, settled, late, closed>>

Init == owed = {} /\ settled = {} /\ late = {} /\ closed = FALSE

Accept(n) ==
  /\ n \notin owed \union settled \union late /\ ~ closed
  /\ \/ owed' = owed \union {n} /\ UNCHANGED late
     \/ late' = late \union {n} /\ UNCHANGED owed
  /\ UNCHANGED <<settled, closed>>

\* the handler has been closed: nobody takes this any more
AcceptTooLate(n) ==
  /\ closed /\ n \notin owed \union settled \union late
  /\ late' = late \union {n}
  /\ UNCHANGED <<owed, settled, closed>>

Settle(S) ==
  /\ S # {} /\ S \subseteq owed \union late
  /\ owed' = owed \ S /\ late' = late \ S /\ settled' = settled \union S
  /\ UNCHANGED closed

Close == owed = {} /\ closed' = TRUE /\ UNCHANGED <<owed, settled, late>>

Next == \/ \E n \in Events : Accept(n) \/ AcceptTooLate(n)
        \/ \E S \in SUBSET Events : Settle(S)
        \/ Close

Spec == Init /\ [][Next]_vars
================================================================================
