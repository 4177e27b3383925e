------------------------------ MODULE MCPayout ------------------------------
(***************************************************************************)
(* An instance of the payout service for TLC.                              *)
(***************************************************************************)
EXTENDS Payout
=============================================================================
