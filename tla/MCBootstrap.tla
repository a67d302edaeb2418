------------------------------ MODULE MCBootstrap ------------------------------
(* Bootstrap on small instances. *)
EXTENDS Bootstrap, TLC

CONSTANTS W1, W2, W3

SomeErrors == {Plain("Throttling"), Plain("AccessDenied")}
================================================================================
