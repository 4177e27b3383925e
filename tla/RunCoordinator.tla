--------------------------- MODULE RunCoordinator ---------------------------
(***************************************************************************)
(* The drain chain of one session: core/src/session/run-coordinator.ts.    *)
(* Sessions share nothing in the coordinator, so one key is modelled.      *)
(*                                                                         *)
(* Every transition is synchronous JavaScript, hence one step.  The fiber  *)
(* that drains is part of the entry: it starts, drains, and exits into     *)
(* settle.  A Deferred is the set of callers that wait for it; they are    *)
(* found in caller, and "on" says which Deferred of the entry they await.  *)
(***************************************************************************)
EXTENDS Integers, FiniteSets

CONSTANTS
  Callers,    \* fibers that call run
  MaxSeq,     \* BOUND: durable sequence numbers are 1 .. MaxSeq
  NoEntry     \* active.get(key) is undefined

ASSUME MaxSeqAssumption == MaxSeq \in Nat

VARIABLES
  entry,     \* the active Entry, or NoEntry
  barrier,   \* interruptSeq.get(key)
  caller     \* caller[c]: what a caller of run waits for, or its outcome

coordinatorVars == <<entry, barrier, caller>>

None == 0            \* an undefined sequence number
Seqs == 1 .. MaxSeq

Run == [tag |-> "run", seq |-> None]
WakeAt(seq) == [tag |-> "wake", seq |-> seq]
NoDemand == [tag |-> "none", seq |-> None]
Demand == {Run} \union {WakeAt(n) : n \in Seqs \union {None}}

MaxOf(m, n) == IF m > n THEN m ELSE n   \* maxSeq: None is below every number

KeepLeft(left, right) == left   \* mutant: an active entry takes no follow-up
Coalesce(left, right) ==
  IF left.tag = "run" \/ right.tag = "run" THEN Run ELSE WakeAt(MaxOf(left.seq, right.seq))

NewEntry(demand, explicit) ==
  [current |-> demand, pending |-> NoDemand, explicit |-> explicit,
   stopping |-> FALSE, interruptSeq |-> None, owner |-> "starting"]

Active == entry # NoEntry

Resting == [at |-> "resting", forced |-> FALSE, hit |-> FALSE]
Waiting(on) == [at |-> on, forced |-> FALSE, hit |-> FALSE]
Waits(c) == caller[c].at \in {"done", "explicit", "settled"}

Init ==
  /\ entry = NoEntry
  /\ barrier = None
  /\ caller = [c \in Callers |-> Resting]

-----------------------------------------------------------------------------
(***************************************************************************)
(* wake, after the boundary of the last interrupt.  A stopping entry takes *)
(* only wakes that are newer than the interrupt that stopped it, and none  *)
(* when that interrupt had no number.                                      *)
(***************************************************************************)
AfterBoundary(seq) == barrier = None \/ seq > barrier

OnlyWhileRunning(e, seq) == ~e.stopping   \* mutant: a stopping entry takes no wake
AcceptsWake(e, seq) == ~e.stopping \/ (e.interruptSeq # None /\ seq > e.interruptSeq)

Wake(seq) ==
  /\ entry' =
       IF ~AfterBoundary(seq) THEN entry
       ELSE IF ~Active THEN NewEntry(WakeAt(seq), FALSE)
       ELSE IF AcceptsWake(entry, seq) THEN [entry EXCEPT !.pending = Coalesce(@, WakeAt(seq))]
       ELSE entry
  /\ UNCHANGED <<barrier, caller>>

(***************************************************************************)
(* run: start an entry, wait for the current chain, upgrade the follow-up  *)
(* of a wake, or try again after the entry that is being stopped.          *)
(***************************************************************************)
JoinOn(e) == IF e.stopping THEN "settled" ELSE IF e.current.tag = "wake" THEN "explicit" ELSE "done"

CallRun(c) ==
  /\ caller[c].at \in {"resting", "again"}
  /\ IF ~Active
       THEN /\ entry' = NewEntry(Run, FALSE)
            /\ caller' = [caller EXCEPT ![c] = Waiting("done")]
       ELSE LET on == JoinOn(entry) IN
            /\ entry' = IF on = "explicit" THEN [entry EXCEPT !.pending = Coalesce(@, Run), !.explicit = TRUE]
                                           ELSE entry
            /\ caller' = [caller EXCEPT ![c] =
                 [Waiting(on) EXCEPT !.forced = entry.current.tag = "run" /\ entry.owner = "draining"]]
  /\ UNCHANGED barrier

(***************************************************************************)
(* interrupt: an older boundary changes nothing, a wake newer than it goes *)
(* on, and everything else is stopped without its older follow-up.         *)
(***************************************************************************)
KeepsCurrent(e, seq) ==
  seq # None /\ e.current.tag = "wake" /\ e.current.seq # None /\ e.current.seq > seq

Unsuppressed(e, seq) ==
  IF e.pending.tag = "wake" /\ seq # None /\ e.pending.seq # None /\ e.pending.seq > seq
    THEN e.pending ELSE NoDemand

Interrupt(seq) ==
  /\ seq = None \/ barrier = None \/ seq > barrier
  /\ barrier' = IF seq = None THEN barrier ELSE seq
  /\ IF ~Active \/ KeepsCurrent(entry, seq)
       THEN UNCHANGED <<entry, caller>>
       ELSE /\ entry' = [entry EXCEPT
                 !.stopping = TRUE,
                 !.interruptSeq = IF entry.stopping THEN MaxOf(@, seq) ELSE seq,
                 !.pending = Unsuppressed(entry, seq)]
            /\ caller' = [c \in Callers |->
                 IF caller[c].at \in {"done", "explicit"} THEN [caller[c] EXCEPT !.hit = TRUE] ELSE caller[c]]

-----------------------------------------------------------------------------
(***************************************************************************)
(* The owner's fiber: the drain begins once ownership is published, and    *)
(* ends with success, a failure of its own (an interrupt that the drain    *)
(* itself raises is one), or the interrupt it was sent.                    *)
(***************************************************************************)
Begin ==
  /\ Active
  /\ entry.owner = "starting"
  /\ ~entry.stopping
  /\ entry' = [entry EXCEPT !.owner = "draining"]
  /\ caller' = [c \in Callers |->
       IF caller[c].at \in {"done", "explicit"} /\ entry.current.tag = "run"
         THEN [caller[c] EXCEPT !.forced = TRUE] ELSE caller[c]]
  /\ UNCHANGED barrier

Exits == {"success", "failure", "interrupted"}

CanExit(exit) ==
  /\ Active
  /\ exit = "interrupted" => entry.stopping
  /\ entry.owner = "starting" => exit = "interrupted"

\* The Deferreds settle completes before it looks at the entry's follow-up.
KeepExplicit(e) == e.current.tag = "run" /\ e.explicit   \* mutant: the stopped wake forgets its explicit waiter
SettlesExplicit(e) == e.explicit /\ (e.current.tag = "run" \/ e.stopping)

Answer(c, exit) == [caller[c] EXCEPT !.at = exit]

Tell(on, exit) ==
  caller' = [c \in Callers |->
    CASE caller[c].at = "settled" /\ "settled" \in on -> [caller[c] EXCEPT !.at = "again"]
      [] caller[c].at \in on \ {"settled"} -> Answer(c, exit)
      [] OTHER -> caller[c]]

DropFollowUp(e, explicit) == NoEntry   \* mutant: a failed drain starts no successor
Successor(e, explicit) == IF e.pending = NoDemand THEN NoEntry ELSE NewEntry(e.pending, explicit)

Settle(exit) ==
  LET answered == IF SettlesExplicit(entry) THEN {"explicit"} ELSE {}
      explicit == entry.explicit /\ ~SettlesExplicit(entry)
  IN
  /\ CanExit(exit)
  /\ IF exit = "success" /\ ~entry.stopping /\ entry.pending # NoDemand
       THEN \* the same entry goes on with its follow-up
            /\ entry' = [entry EXCEPT !.current = entry.pending, !.pending = NoDemand,
                                      !.explicit = explicit, !.owner = "starting"]
            /\ Tell(answered, exit)
       ELSE /\ entry' = Successor(entry, explicit)
            /\ Tell(answered \union {"done", "settled"}, exit)
  /\ UNCHANGED barrier

\* The fiber of a caller is interrupted while it waits; the owner goes on.
GiveUp(c) ==
  /\ Waits(c)
  /\ caller' = [caller EXCEPT ![c] = Resting]
  /\ UNCHANGED <<entry, barrier>>

\* An answered caller may call again.
Rest(c) ==
  /\ caller[c].at \in Exits
  /\ caller' = [caller EXCEPT ![c] = Resting]
  /\ UNCHANGED <<entry, barrier>>

-----------------------------------------------------------------------------
Next ==
  \/ \E n \in Seqs : Wake(n)
  \/ \E n \in Seqs \union {None} : Interrupt(n)
  \/ \E c \in Callers : CallRun(c) \/ GiveUp(c) \/ Rest(c)
  \/ Begin
  \/ \E exit \in Exits : Settle(exit)

Spec == Init /\ [][Next]_coordinatorVars

\* A forked drain starts, and a drain that runs ends: the runner bounds its
\* steps, and an interrupted fiber exits.
FairDrains == WF_coordinatorVars(Begin) /\ WF_coordinatorVars(\E exit \in Exits : Settle(exit))
FairSpec == Spec /\ FairDrains

-----------------------------------------------------------------------------
EntryRecord ==
  [current : Demand, pending : Demand \union {NoDemand}, explicit : BOOLEAN,
   stopping : BOOLEAN, interruptSeq : Seqs \union {None}, owner : {"starting", "draining"}]

CallerRecord ==
  [at : {"resting", "done", "explicit", "settled", "again"} \union Exits, forced : BOOLEAN, hit : BOOLEAN]

ASSUME NoEntryAssumption == NoEntry \notin EntryRecord

TypeOK ==
  /\ entry \in EntryRecord \union {NoEntry}
  /\ barrier \in Seqs \union {None}
  /\ caller \in [Callers -> CallerRecord]

(***************************************************************************)
(* A caller that waits is waiting for a Deferred somebody will complete:   *)
(* the entry is there, and an explicit waiter has its run pending, has     *)
(* become the current run, or is being stopped.                            *)
(***************************************************************************)
NoOrphanWaiter ==
  \A c \in Callers : Waits(c) =>
    /\ Active
    /\ caller[c].at = "explicit" =>
         /\ entry.explicit
         /\ entry.pending.tag = "run" \/ entry.current.tag = "run" \/ entry.stopping
    /\ caller[c].at = "settled" => entry.stopping

(***************************************************************************)
(* A call of run that no interrupt hit is answered only by a drain in the  *)
(* explicit mode, even when it joined a chain that a wake had started      *)
(* (run-coordinator.ts:20, "upgrades a pending follow-up so the caller     *)
(* receives explicit-run semantics").                                      *)
(***************************************************************************)
RunsWereForced ==
  \A c \in Callers : caller[c].at \in {"success", "failure"} => caller[c].forced \/ caller[c].hit

(***************************************************************************)
(* Only a caller that was waiting when an interrupt came is answered with  *)
(* an interruption; a run called during the cleanup outlives it.           *)
(***************************************************************************)
InterruptedAskedFor == \A c \in Callers : caller[c].at = "interrupted" => caller[c].hit

(***************************************************************************)
(* A caller that was promised a drain of its own - the follow-up of a wake *)
(* chain, or another attempt after the entry being stopped - is released   *)
(* however many wakes, runs and interrupts arrive meanwhile.  (One that    *)
(* joined a running chain waits for the whole chain, which later wakes can *)
(* prolong.)                                                               *)
(***************************************************************************)
PromisedRunAnswered ==
  \A c \in Callers : caller[c].at \in {"explicit", "settled"} ~> caller[c].at \notin {"explicit", "settled"}
=============================================================================
