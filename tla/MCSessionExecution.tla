------------------------- MODULE MCSessionExecution -------------------------
(***************************************************************************)
(* Instances of one session's execution for TLC.                           *)
(***************************************************************************)
EXTENDS SessionExecution
=============================================================================
