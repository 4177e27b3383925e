----------------------------- MODULE MCEventLog -----------------------------
(***************************************************************************)
(* The event log for TLC, with tails that follow it.                       *)
(***************************************************************************)
EXTENDS EventLog, TLC
=============================================================================
