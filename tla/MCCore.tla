------------------------------- MODULE MCCore -------------------------------
(***************************************************************************)
(* The services of the core for TLC: the event log as processes share it,  *)
(* the system context of a session, jobs of subagents, the runner of a     *)
(* session, and the lock between processes.  A behaviour is about one of   *)
(* them, chosen at the start.                                              *)
(***************************************************************************)
EXTENDS EventLog, ContextEpoch, BackgroundJob, SessionRunState, FileLock, TLC

CONSTANT Home   \* where the session is at first

VARIABLE part

coreVars == <<eventVars, epochVars, jobVars, runVars, lockVars, part>>

CoreInit ==
  /\ Init /\ EpochInit /\ JobInit /\ RunInit /\ LockInit
  /\ part \in {"events", "epoch", "job", "runs", "lock"}
  /\ place = Home

\* A lock is followed until something happens that its protocol does not provide for,
\* the runners of a session until the map loses one, an epoch until a drain of the old
\* place is overlapped.
Calm == excuses = {}
Settled == ~overlapped
Kept == ~strayed

\* Bounds of the runners: one for each body, and one shell command.
FewRunners == runners' <= MaxBodies /\ Cardinality({b \in BodyIds : body'[b].kind = "shell"}) <= 1

CoreNext ==
  /\ UNCHANGED part
  /\ \/ part = "events" /\ Next /\ UNCHANGED <<epochVars, jobVars, runVars, lockVars>>
     \/ part = "epoch" /\ Settled /\ EpochNext /\ UNCHANGED <<eventVars, jobVars, runVars, lockVars>>
     \/ part = "job" /\ JobNext /\ UNCHANGED <<eventVars, epochVars, runVars, lockVars>>
     \/ part = "runs" /\ Kept /\ RunNext /\ FewRunners /\ UNCHANGED <<eventVars, epochVars, jobVars, lockVars>>
     \/ part = "lock" /\ Calm /\ LockNext /\ UNCHANGED <<eventVars, epochVars, jobVars, runVars>>

CoreSpec == CoreInit /\ [][CoreNext]_coreVars

Symmetry == Permutations(Drains) \union Permutations(Bodies)
=============================================================================
