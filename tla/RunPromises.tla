---------------------------- MODULE RunPromises ----------------------------
(***************************************************************************)
(* What the drain chain owes to the wakes it was given: the coordinator    *)
(* with two history variables.  They watch its steps and steer none.       *)
(***************************************************************************)
EXTENDS RunCoordinator

VARIABLES
  due,       \* sequence numbers of wakes that still have to reach a drain
  absorbed   \* those of due whose demand was coalesced with an explicit run

promises == <<due, absorbed>>
promiseVars == <<coordinatorVars, promises>>

PromisesInit ==
  /\ Init
  /\ due = {}
  /\ absorbed = {}

\* A wake is owed a drain unless an interrupt without a number is cleaning up.
StoppedForAll == Active /\ entry.stopping /\ entry.interruptSeq = None
RunPending == Active /\ entry.pending = Run

WakeNoted(seq) ==
  /\ Wake(seq)
  /\ due' = IF seq > barrier /\ ~StoppedForAll THEN due \union {seq} ELSE due
  /\ absorbed' = IF RunPending THEN absorbed \union (due' \ due) ELSE absorbed \ (due' \ due)

CallRunNoted(c) ==
  /\ CallRun(c)
  /\ absorbed' = IF Active /\ JoinOn(entry) = "explicit" THEN due ELSE absorbed
  /\ UNCHANGED due

\* An interrupt takes the debt up to its boundary, or all of it.
InterruptNoted(seq) ==
  /\ Interrupt(seq)
  /\ due' = IF seq = None THEN {} ELSE {n \in due : n > seq}
  /\ absorbed' = absorbed \intersect due'

BeginPays ==
  /\ Begin
  /\ due' = {}
  /\ absorbed' = {}

PromisesNext ==
  \/ \E n \in Seqs : WakeNoted(n)
  \/ \E n \in Seqs \union {None} : InterruptNoted(n)
  \/ \E c \in Callers : CallRunNoted(c) \/ ((GiveUp(c) \/ Rest(c)) /\ UNCHANGED promises)
  \/ BeginPays
  \/ \E exit \in Exits : Settle(exit) /\ UNCHANGED promises

PromisesSpec == PromisesInit /\ [][PromisesNext]_promiseVars
FairPromisesSpec == PromisesSpec /\ FairDrains

-----------------------------------------------------------------------------
(***************************************************************************)
(* A wake that is newer than every interrupt is never lost: until a drain  *)
(* begins after it, one is about to begin or is the chain's follow-up -    *)
(* through failures of the drain, other wakes and the cleanup of an        *)
(* interrupted drain.  The wakes whose demand an explicit run has absorbed *)
(* share that run's fate.                                                  *)
(***************************************************************************)
AboutToBegin(e) == e.owner = "starting" /\ ~e.stopping
DrainComes == Active /\ (AboutToBegin(entry) \/ entry.pending # NoDemand)

PlainWakeNotLost == due # absorbed => DrainComes

(***************************************************************************)
(* run-coordinator.ts:26-27 promises more: "advisory wakes after the       *)
(* boundary run after cleanup", whatever they were coalesced with.         *)
(***************************************************************************)
NoWakeLost == due # {} => DrainComes
=============================================================================
