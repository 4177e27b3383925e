----------------------------- MODULE MCWithdraw -----------------------------
(***************************************************************************)
(* The withdraw handler with its gateway for TLC.  The configuration gives *)
(* every constant a value; liveness is checked, so there is no symmetry.   *)
(***************************************************************************)
EXTENDS Withdraw
=============================================================================
