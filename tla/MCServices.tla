----------------------------- MODULE MCServices -----------------------------
(***************************************************************************)
(* What runs in turn, for TLC: the drain chain of a session, the runner of *)
(* a session of the first-version engine, and the lock between processes.  *)
(* A behaviour is about one of them, chosen at the start.                  *)
(***************************************************************************)
EXTENDS RunPromises, SessionRunState, FileLock, TLC

VARIABLE part

serviceVars == <<promiseVars, runVars, lockVars, part>>

ServicesInit == PromisesInit /\ RunInit /\ LockInit /\ part \in {"drains", "runs", "locks"}

\* A lock is followed until something happens that its protocol does not provide for.
Calm == excuses = {}

ServicesNext ==
  /\ UNCHANGED part
  /\ \/ part = "drains" /\ PromisesNext /\ UNCHANGED <<runVars, lockVars>>
     \/ part = "runs" /\ RunNext /\ UNCHANGED <<promiseVars, lockVars>>
     \/ part = "locks" /\ Calm /\ LockNext /\ UNCHANGED <<promiseVars, runVars>>

ServicesSpec == ServicesInit /\ [][ServicesNext]_serviceVars /\ FairDrains /\ FairRuns /\ FairLocks
=============================================================================
