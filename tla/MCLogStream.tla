------------------------------ MODULE MCLogStream ------------------------------
(* LogStream on small instances: the limits are small, not the messages. *)
EXTENDS LogStream, TLC

\* an empty line; one of two chunks, cut before a character of three bytes; and
\* one that cannot be encoded
SomeMessages == {<<>>, <<1, 2, 3, 1>>, Malformed}

\* the notice about the second record is more than a batch may hold
SizeOfNotice == <<1, 7, 1>>
================================================================================
