----------------------------- MODULE MCFileLock -----------------------------
(***************************************************************************)
(* The lock between processes for TLC, as effect-flock.ts renews it.       *)
(***************************************************************************)
EXTENDS FileLock, TLC

Symmetry == Permutations(Contenders)
=============================================================================
