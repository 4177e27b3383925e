------------------------------ MODULE FileLock ------------------------------
(***************************************************************************)
(* The lock between processes that is a directory: core/src/util/flock.ts, *)
(* and core/src/util/effect-flock.ts, which follows the same protocol.     *)
(*                                                                         *)
(* Every system call is a step.  Time is abstract: a file is fresh until   *)
(* staleMs have passed since its mtime, and old from then on.  A process   *)
(* takes less than staleMs from one call of an attempt to the next, but    *)
(* the critical section takes any time; a process may be suspended in it   *)
(* (it is late: its timer does not run) and a dead one takes no step       *)
(* again.  The token of an attempt stands for its process, which starts an *)
(* attempt only when its former one is over.                               *)
(***************************************************************************)
EXTENDS Naturals, FiniteSets

CONSTANTS
  Contenders,   \* processes that acquire the lock
  NoOne,        \* a file that nobody has made
  MaxFaults,    \* BOUND: processes that are dead or late together
  Renewing      \* the heartbeat moves the mtime: flock.ts; not so in effect-flock.ts

ASSUME NoOneAssumption == NoOne \notin Contenders

VARIABLES
  file,      \* file[f]: its age and who made it
  pc,        \* pc[p]: the next call of process p
  left,      \* left[p]: what rm -r has still to remove, once it has read the directory
  late,      \* holders that were suspended
  excuses    \* what has happened that the protocol does not provide for

lockVars == <<file, pc, left, late, excuses>>

Children == {"heartbeat", "meta"}
Files == Children \union {"dir", "breaker"}
NoFile == [age |-> "none", by |-> NoOne]
FreshBy(p) == [age |-> "fresh", by |-> p]

Exists(f) == file[f].age # "none"
IsOld(f) == file[f].age = "old"
ChildrenThere == {f \in Children : Exists(f)}

\* Points of an attempt.
Cleaning == {"recheck", "wipe", "remake", "unclaim", "unclaimOwn", "unclaimFail"}
Removing == {"wipe", "erase", "abandon"}
Owning == {"unclaimOwn", "beat", "sign", "held", "verify", "erase"}
LockPoints == {"idle", "waiting", "make", "check", "claim", "dropBreaker", "abandon", "dead"} \union Cleaning \union Owning

LockInit ==
  /\ file = [f \in Files |-> NoFile]
  /\ pc = [p \in Contenders |-> "idle"]
  /\ left = [p \in Contenders |-> {}]
  /\ late = {}
  /\ excuses = {}

LockAt(p, point) == pc[p] = point
LockGoes(p, point) == pc' = [pc EXCEPT ![p] = point]

\* A file is made; a child that is made or removed touches the directory.
ChangedFiles(f, to) ==
  IF f \in Children THEN [file EXCEPT ![f] = to, !["dir"].age = IF @ = "none" THEN @ ELSE "fresh"]
                    ELSE [file EXCEPT ![f] = to]
MakesFile(p, f) == file' = ChangedFiles(f, FreshBy(p))
RemovesFile(f) == file' = ChangedFiles(f, NoFile)
FilesAlone == UNCHANGED <<file, left, late>>

-----------------------------------------------------------------------------
(***************************************************************************)
(* stale: the heartbeat tells, without one the metadata, without either    *)
(* the directory.                                                          *)
(***************************************************************************)
Stale ==
  CASE Exists("heartbeat") -> IsOld("heartbeat")
    [] ~Exists("heartbeat") /\ Exists("meta") -> IsOld("meta")
    [] OTHER -> IsOld("dir")

(***************************************************************************)
(* tryAcquireLockDir: make the directory, or judge who has made it.        *)
(***************************************************************************)
TryLock(p) ==
  /\ LockAt(p, "idle")
  /\ LockGoes(p, "make")
  /\ late' = late \ {p}
  /\ UNCHANGED <<file, left, excuses>>

\* A waiting process tries again after its delay, until it times out or is aborted.
TryAgain(p) ==
  /\ LockAt(p, "waiting")
  /\ LockGoes(p, "make")
  /\ FilesAlone /\ UNCHANGED excuses

LockTimesOut(p) ==
  /\ LockAt(p, "waiting")
  /\ LockGoes(p, "idle")
  /\ FilesAlone /\ UNCHANGED excuses

MakeDir(p) ==
  /\ LockAt(p, "make")
  /\ IF Exists("dir")
       THEN LockGoes(p, "check") /\ UNCHANGED file
       ELSE MakesFile(p, "dir") /\ LockGoes(p, "beat")
  /\ UNCHANGED <<left, late, excuses>>

CheckStale(p) ==
  /\ LockAt(p, "check")
  /\ LockGoes(p, IF Stale THEN "claim" ELSE "waiting")
  /\ FilesAlone /\ UNCHANGED excuses

NeverAbandoned == FALSE   \* mutant: a breaker that was left behind is left alone
BreakerAbandoned == IsOld("breaker")

\* mkdir of the breaker, and its stat when it exists.
TakeBreaker(p) ==
  /\ LockAt(p, "claim")
  /\ IF Exists("breaker")
       THEN LockGoes(p, IF BreakerAbandoned THEN "dropBreaker" ELSE "waiting") /\ UNCHANGED file
       ELSE MakesFile(p, "breaker") /\ LockGoes(p, "recheck")
  /\ UNCHANGED <<left, late, excuses>>

LiveProcess(p) == ~LockAt(p, "dead")

\* A breaker that was old at its stat may be another one by now.
DropBreaker(p) ==
  /\ LockAt(p, "dropBreaker")
  /\ RemovesFile("breaker")
  /\ LockGoes(p, "waiting")
  /\ excuses' = IF \E q \in Contenders : pc[q] \in Cleaning THEN excuses \union {"breaker"} ELSE excuses
  /\ UNCHANGED <<left, late>>

(***************************************************************************)
(* The breaker's holder judges again, removes the stale directory and      *)
(* makes its own; it drops the breaker whatever has come of that.          *)
(***************************************************************************)
\* An owner that is about to remove its lock has removed the heartbeat first.
Uncovered == \E q \in Contenders : LockAt(q, "erase")

JudgeAgain(p) ==
  /\ LockAt(p, "recheck")
  /\ LockGoes(p, IF Stale THEN "wipe" ELSE "unclaim")
  /\ excuses' = IF Stale /\ Uncovered THEN excuses \union {"uncovered"} ELSE excuses
  /\ FilesAlone

RemakeDir(p) ==
  /\ LockAt(p, "remake")
  /\ IF Exists("dir")
       THEN LockGoes(p, "unclaim") /\ UNCHANGED file
       ELSE MakesFile(p, "dir") /\ LockGoes(p, "unclaimOwn")
  /\ UNCHANGED <<left, late, excuses>>

AfterUnclaim(point) == CASE point = "unclaim" -> "waiting" [] point = "unclaimOwn" -> "beat" [] OTHER -> "idle"

ReturnBreaker(p) ==
  /\ pc[p] \in {"unclaim", "unclaimOwn", "unclaimFail"}
  /\ RemovesFile("breaker")
  /\ LockGoes(p, AfterUnclaim(pc[p]))
  /\ UNCHANGED <<left, late, excuses>>

(***************************************************************************)
(* rm -r of the lock directory: read it, remove its children in any order, *)
(* then the directory, which fails when something was put there meanwhile. *)
(***************************************************************************)
AfterRemoval(point) == IF point = "wipe" THEN "remake" ELSE "idle"
AfterFailure(point) == IF point = "wipe" THEN "unclaimFail" ELSE "idle"

ScanDir(p) ==
  /\ pc[p] \in Removing
  /\ left[p] = {}
  /\ IF Exists("dir")
       THEN left' = [left EXCEPT ![p] = ChildrenThere \union {"dir"}] /\ UNCHANGED pc
       ELSE LockGoes(p, AfterRemoval(pc[p])) /\ UNCHANGED left
  /\ UNCHANGED <<file, late, excuses>>

UnlinkChild(p, f) ==
  /\ pc[p] \in Removing
  /\ f \in left[p] \intersect Children
  /\ IF Exists(f) THEN RemovesFile(f) ELSE UNCHANGED file
  /\ left' = [left EXCEPT ![p] = @ \ {f}]
  /\ UNCHANGED <<pc, late, excuses>>

RemoveDir(p) ==
  /\ pc[p] \in Removing
  /\ left[p] = {"dir"}
  /\ left' = [left EXCEPT ![p] = {}]
  /\ IF ChildrenThere = {}
       THEN RemovesFile("dir") /\ LockGoes(p, AfterRemoval(pc[p]))
       ELSE LockGoes(p, AfterFailure(pc[p])) /\ UNCHANGED file
  /\ UNCHANGED <<late, excuses>>

-----------------------------------------------------------------------------
(***************************************************************************)
(* The owner writes its heartbeat and its metadata, each of which must be  *)
(* new; otherwise it removes the directory and throws.                     *)
(***************************************************************************)
WriteNew(p, f, next) ==
  /\ IF Exists("dir") /\ ~Exists(f)
       THEN MakesFile(p, f) /\ LockGoes(p, next)
       ELSE LockGoes(p, "abandon") /\ UNCHANGED file
  /\ UNCHANGED <<left, late, excuses>>

WriteHeartbeat(p) == LockAt(p, "beat") /\ WriteNew(p, "heartbeat", "sign")
WriteMeta(p) == LockAt(p, "sign") /\ WriteNew(p, "meta", "held")

\* The timer of the heartbeat; utimes takes whatever file is there.
RenewHeartbeat(p) ==
  /\ Renewing
  /\ LockAt(p, "held")
  /\ Exists("heartbeat")
  /\ file' = [file EXCEPT !["heartbeat"].age = "fresh"]
  /\ UNCHANGED <<pc, left, late, excuses>>

ReleaseLock(p) ==
  /\ LockAt(p, "held")
  /\ LockGoes(p, "verify")
  /\ FilesAlone /\ UNCHANGED excuses

(***************************************************************************)
(* The token of the metadata must be the owner's, else release refuses.    *)
(* An owner that was late and still finds its token races with whoever has *)
(* judged the lock meanwhile.                                              *)
(***************************************************************************)
AnyOwner(p) == Exists("meta")   \* mutant: the token is not compared
OwnToken(p) == file["meta"].by = p

VerifyToken(p) ==
  /\ LockAt(p, "verify")
  /\ IF OwnToken(p)
       THEN /\ LockGoes(p, "erase")
            /\ excuses' = IF p \in late /\ file["meta"].by = p THEN excuses \union {"late"} ELSE excuses
       ELSE LockGoes(p, "idle") /\ UNCHANGED excuses
  /\ FilesAlone

-----------------------------------------------------------------------------
(***************************************************************************)
(* Time and faults.  A file that a punctual process is about to supersede  *)
(* stays fresh: the directory while its owner puts in or takes out what    *)
(* belongs there, the heartbeat while its timer runs, the breaker until    *)
(* the clean-up is over.                                                   *)
(***************************************************************************)
Punctual(p) == LiveProcess(p) /\ p \notin late

Minded(f, p) ==
  CASE f = "heartbeat" -> pc[p] \in Owning /\ (LockAt(p, "held") => Renewing)
    [] f = "meta" -> FALSE
    [] f = "breaker" -> pc[p] \in Cleaning
    [] f = "dir" -> pc[p] \in Owning \ {"held"}

GrowOld(f) ==
  /\ file[f].age = "fresh"
  /\ ~ \E p \in Contenders : Punctual(p) /\ file[f].by = p /\ Minded(f, p)
  /\ file' = [file EXCEPT ![f].age = "old"]
  /\ UNCHANGED <<pc, left, late, excuses>>

FaultyOnes == {p \in Contenders : ~LiveProcess(p) \/ p \in late}

DieAnywhere(p) ==
  /\ LiveProcess(p)
  /\ Cardinality(FaultyOnes) < MaxFaults
  /\ LockGoes(p, "dead")
  /\ left' = [left EXCEPT ![p] = {}]
  /\ late' = late \ {p}
  /\ UNCHANGED <<file, excuses>>

FallBehind(p) ==
  /\ LockAt(p, "held")
  /\ p \notin late
  /\ Cardinality(FaultyOnes) < MaxFaults
  /\ late' = late \union {p}
  /\ UNCHANGED <<file, pc, left, excuses>>

\* What a process does without being asked to.
LockSteps(p) ==
  \/ TryAgain(p) \/ MakeDir(p) \/ CheckStale(p) \/ TakeBreaker(p) \/ DropBreaker(p) \/ JudgeAgain(p) \/ RemakeDir(p) \/ ReturnBreaker(p)
  \/ ScanDir(p) \/ (\E f \in Children : UnlinkChild(p, f)) \/ RemoveDir(p)
  \/ WriteHeartbeat(p) \/ WriteMeta(p) \/ VerifyToken(p)

LockNext ==
  \/ \E p \in Contenders :
       LockSteps(p) \/ TryLock(p) \/ LockTimesOut(p) \/ RenewHeartbeat(p) \/ ReleaseLock(p) \/ DieAnywhere(p) \/ FallBehind(p)
  \/ \E f \in Files : GrowOld(f)

LockSpec == LockInit /\ [][LockNext]_lockVars

\* A live process goes on with its attempt, and time passes.
FairLocks ==
  /\ \A p \in Contenders : WF_lockVars(LockSteps(p))
  /\ \A f \in Files : WF_lockVars(GrowOld(f))
FairLockSpec == LockSpec /\ FairLocks

-----------------------------------------------------------------------------
LockTypeOK ==
  /\ file \in [Files -> [age : {"none", "fresh", "old"}, by : Contenders \union {NoOne}]]
  /\ pc \in [Contenders -> LockPoints]
  /\ left \in [Contenders -> SUBSET (Children \union {"dir"})]
  /\ late \subseteq Contenders
  /\ excuses \subseteq {"late", "breaker", "uncovered"}

InsideLock(p) == pc[p] \in {"held", "verify"} /\ p \notin late

(***************************************************************************)
(* Mutual exclusion, through deaths, suspensions and the removal of what   *)
(* they leave: no two processes are inside that have not been suspended    *)
(* there (effect-flock.test.ts:330 "enforces mutual exclusion under        *)
(* process contention") - unless a breaker was removed under its holder, a *)
(* lock was judged by its metadata while its owner was removing it, or a   *)
(* suspended owner came back while it was being judged.                    *)
(***************************************************************************)
Exclusive ==
  excuses = {} => \A p, q \in Contenders : InsideLock(p) /\ InsideLock(q) => p = q

(***************************************************************************)
(* A holder finds its own token and its own heartbeat when it comes to     *)
(* release: the lock was not removed under it, not even by a former holder *)
(* that was evicted (flock.ts:259 "Token check prevents deleting a lock    *)
(* that was re-acquired by another process").                              *)
(***************************************************************************)
HeldIsMine ==
  excuses = {} => \A p \in Contenders : InsideLock(p) => file["meta"].by = p /\ file["heartbeat"].by = p

(***************************************************************************)
(* What a dead owner or a dead cleaner has left does not block the others  *)
(* for good: while somebody waits, somebody alive comes to hold the lock.  *)
(***************************************************************************)
LockRecovers ==
  \A p \in Contenders :
    LockAt(p, "waiting") ~> (pc[p] \in {"idle", "dead"} \/ (\E q \in Contenders : LockAt(q, "held")) \/ excuses # {})
=============================================================================
