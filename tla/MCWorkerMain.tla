------------------------------ MODULE MCWorkerMain -----------------------------
(* WorkerMain, whose threads are those of the code: there is nothing to bound. *)
EXTENDS WorkerMain, TLC
================================================================================
