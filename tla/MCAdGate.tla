------------------------------ MODULE MCAdGate ------------------------------
(***************************************************************************)
(* The pacing of ads for TLC, in a process that starts late in an hour.    *)
(***************************************************************************)
EXTENDS AdGate, TLC
=============================================================================
