-------------------------- MODULE MCRunCoordinator --------------------------
(***************************************************************************)
(* Instances of the drain chain for TLC.                                   *)
(***************************************************************************)
EXTENDS RunPromises, TLC

Symmetry == Permutations(Callers)
=============================================================================
