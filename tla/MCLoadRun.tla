------------------------------ MODULE MCLoadRun ------------------------------
(***************************************************************************)
(* LoadRun for TLC, with two interrupts and a failure of every kind.       *)
(***************************************************************************)
EXTENDS LoadRun, TLC
=============================================================================
