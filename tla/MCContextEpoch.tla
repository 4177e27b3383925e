---------------------------- MODULE MCContextEpoch ---------------------------
(***************************************************************************)
(* The system context of a session for TLC, as drains of two places share  *)
(* it.                                                                     *)
(***************************************************************************)
EXTENDS ContextEpoch, TLC
=============================================================================
