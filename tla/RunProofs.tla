------------------------------ MODULE RunProofs -----------------------------
(***************************************************************************)
(* Who runs in a session: what the drain chain guarantees its callers and  *)
(* what it owes to the wakes it was given, for any number of callers and   *)
(* any sequence numbers; and the first-version engine, for any number of   *)
(* callers and of bodies.  And the lock between processes, for any number  *)
(* of processes.                                                           *)
(***************************************************************************)
EXTENDS RunPromises, SessionRunState, FileLock, FiniteSetTheorems, TLAPS


(***************************************************************************)
(* The drain chain.                                                        *)
(***************************************************************************)

Joined(c) == caller[c].at \in {"done", "explicit"}
Served(c) == caller[c].forced \/ caller[c].hit
ChainRuns == entry.current.tag = "run" /\ entry.owner = "draining"

\* A stopped entry was stopped by an interrupt that hit everyone who had joined it.
StopHitsJoined == Active /\ entry.stopping => \A c \in Callers : Joined(c) => caller[c].hit

\* Who has joined a run that drains was there when it began, or joined it then.
RunServesJoined == Active /\ ChainRuns => \A c \in Callers : Joined(c) => Served(c)

\* Who waits for the chain as a whole has had its run, or the run is current.
DoneIsServed ==
  Active /\ entry.current.tag # "run" => \A c \in Callers : caller[c].at = "done" => Served(c)

ChainInvariant ==
  /\ TypeOK
  /\ NoOrphanWaiter
  /\ RunsWereForced
  /\ InterruptedAskedFor
  /\ StopHitsJoined
  /\ RunServesJoined
  /\ DoneIsServed

-----------------------------------------------------------------------------
(***************************************************************************)
(* Demands stay demands when they are coalesced (run-coordinator.ts:53).   *)
(***************************************************************************)
LEMMA CoalesceIsDemand ==
  ASSUME NEW former \in Demand \union {NoDemand}, NEW latter \in Demand
  PROVE  Coalesce(former, latter) \in Demand
<1>1. MaxSeq \in Nat
  BY MaxSeqAssumption
<1>2. former.seq \in Seqs \union {None} /\ latter.seq \in Seqs \union {None}
  BY DEF Demand, NoDemand, Run, WakeAt
<1>3. MaxOf(former.seq, latter.seq) \in Seqs \union {None}
  BY <1>2 DEF MaxOf
<1> QED
  BY <1>3 DEF Coalesce, Demand

\* A new entry is one, whoever waits for it.
LEMMA NewEntryIsEntry ==
  ASSUME NEW d \in Demand, NEW explicit \in BOOLEAN
  PROVE  NewEntry(d, explicit) \in EntryRecord
BY DEF NewEntry, EntryRecord, NoDemand, None

\* Both kinds of demand are demands.
LEMMA DemandKinds == Run \in Demand /\ \A n \in Seqs : WakeAt(n) \in Demand
BY DEF Demand

-----------------------------------------------------------------------------
(***************************************************************************)
(* Each operation of the coordinator keeps the invariant.                  *)
(***************************************************************************)
LEMMA WakeKeeps == ASSUME ChainInvariant, NEW n \in Seqs, Wake(n) PROVE ChainInvariant'
<1> USE NoEntryAssumption
<1>1. WakeAt(n) \in Demand
  BY DemandKinds
<1>2. CASE UNCHANGED entry
  BY <1>2 DEF Wake, ChainInvariant, TypeOK, NoOrphanWaiter, RunsWereForced, InterruptedAskedFor, StopHitsJoined, RunServesJoined, DoneIsServed, Joined, Served, ChainRuns, Active, Waits
<1>3. CASE ~Active /\ entry' = NewEntry(WakeAt(n), FALSE)
  <2>1. entry' \in EntryRecord
    BY <1>1, <1>3, NewEntryIsEntry
  <2>2. \A c \in Callers : ~Waits(c)
    BY <1>3 DEF ChainInvariant, NoOrphanWaiter
  <2> QED
    BY <1>3, <2>1, <2>2 DEF Wake, NewEntry, ChainInvariant, TypeOK, NoOrphanWaiter, RunsWereForced, InterruptedAskedFor, StopHitsJoined, RunServesJoined, DoneIsServed, Joined, Served, ChainRuns, Active, Waits
<1>4. CASE Active /\ entry' = [entry EXCEPT !.pending = Coalesce(@, WakeAt(n))]
  <2>1. entry \in EntryRecord
    BY <1>4 DEF ChainInvariant, TypeOK, Active
  <2>2. Coalesce(entry.pending, WakeAt(n)) \in Demand
    BY <1>1, <2>1, CoalesceIsDemand DEF EntryRecord
  <2>3. entry' \in EntryRecord
    BY <1>4, <2>1, <2>2 DEF EntryRecord
  <2>4. entry.pending.tag = "run" => entry'.pending.tag = "run"
    BY <1>4, <2>1 DEF EntryRecord, Coalesce, Run
  <2>5. entry'.current = entry.current /\ entry'.explicit = entry.explicit /\ entry'.stopping = entry.stopping /\ entry'.owner = entry.owner
    BY <1>4, <2>1 DEF EntryRecord
  <2> QED
    BY <1>4, <2>3, <2>4, <2>5 DEF Wake, ChainInvariant, TypeOK, NoOrphanWaiter, RunsWereForced, InterruptedAskedFor, StopHitsJoined, RunServesJoined, DoneIsServed, Joined, Served, ChainRuns, Active, Waits
<1> QED
  BY <1>2, <1>3, <1>4 DEF Wake

LEMMA CallRunKeeps == ASSUME ChainInvariant, NEW c \in Callers, CallRun(c) PROVE ChainInvariant'
<1> USE NoEntryAssumption
<1>1. CASE ~Active
  <2>1. entry' = NewEntry(Run, FALSE) /\ caller' = [caller EXCEPT ![c] = Waiting("done")] /\ barrier' = barrier
    BY <1>1 DEF CallRun
  <2>2. entry' \in EntryRecord
    BY <2>1, DemandKinds, NewEntryIsEntry
  <2>3. caller' \in [Callers -> CallerRecord]
    BY <2>1 DEF ChainInvariant, TypeOK, CallerRecord, Waiting, Exits
  <2>4. \A d \in Callers : ~Waits(d)
    BY <1>1 DEF ChainInvariant, NoOrphanWaiter
  <2>5. \A d \in Callers : caller'[d].at = "done" \/ (caller'[d] = caller[d] /\ ~Waits(d))
    BY <2>1, <2>4 DEF ChainInvariant, TypeOK, Waiting
  <2> QED
    BY <2>1, <2>2, <2>3, <2>5 DEF NewEntry, Run, ChainInvariant, TypeOK, NoOrphanWaiter, RunsWereForced, InterruptedAskedFor, StopHitsJoined, RunServesJoined, DoneIsServed, Joined, Served, ChainRuns, Active, Waits
<1>2. CASE Active
  <2> DEFINE on == JoinOn(entry)
             forced == entry.current.tag = "run" /\ entry.owner = "draining"
  <2>1. entry \in EntryRecord /\ entry # NoEntry
    BY <1>2 DEF ChainInvariant, TypeOK, Active
  <2>2. caller' = [caller EXCEPT ![c] = [at |-> on, forced |-> forced, hit |-> FALSE]] /\ barrier' = barrier
    BY <1>2 DEF CallRun, Waiting
  <2>3. on \in {"done", "explicit", "settled"} /\ forced \in BOOLEAN
    BY DEF JoinOn
  <2>4. caller' \in [Callers -> CallerRecord]
    BY <2>2, <2>3 DEF ChainInvariant, TypeOK, CallerRecord
  <2>5. /\ entry' \in EntryRecord
        /\ entry'.current = entry.current /\ entry'.stopping = entry.stopping /\ entry'.owner = entry.owner
        /\ entry.explicit => entry'.explicit
        /\ entry.pending.tag = "run" => entry'.pending.tag = "run"
        /\ on = "explicit" => entry'.explicit /\ entry'.pending.tag = "run"
    <3>1. CASE on = "explicit"
      <4>1. entry' = [entry EXCEPT !.pending = Run, !.explicit = TRUE]
        BY <1>2, <3>1 DEF CallRun, Coalesce, Run
      <4> QED
        BY <2>1, <4>1, DemandKinds DEF EntryRecord, Run
    <3>2. CASE on # "explicit"
      BY <1>2, <2>1, <3>2 DEF CallRun
    <3> QED
      BY <3>1, <3>2
  <2>6. /\ on = "settled" => entry.stopping
        /\ on # "settled" => ~entry.stopping
        /\ on = "done" => entry.current.tag # "wake"
        /\ entry.current.tag \in {"run", "wake"}
    BY <2>1 DEF JoinOn, EntryRecord, Demand, Run, WakeAt
  <2>7. \A d \in Callers : d # c => caller'[d] = caller[d]
    BY <2>2 DEF ChainInvariant, TypeOK
  <2>8. caller'[c] = [at |-> on, forced |-> forced, hit |-> FALSE]
    BY <2>2 DEF ChainInvariant, TypeOK
  <2> HIDE DEF on, forced
  <2>9. Active'
    BY <2>5 DEF Active
  <2>10. forced <=> ChainRuns
    BY DEF forced, ChainRuns
  <2>11. NoOrphanWaiter'
    BY <1>2, <2>3, <2>5, <2>6, <2>7, <2>8, <2>9 DEF ChainInvariant, NoOrphanWaiter, Waits
  <2>12. RunsWereForced' /\ InterruptedAskedFor'
    BY <2>3, <2>7, <2>8 DEF ChainInvariant, RunsWereForced, InterruptedAskedFor
  <2>13. StopHitsJoined'
    BY <1>2, <2>3, <2>5, <2>6, <2>7, <2>8 DEF ChainInvariant, StopHitsJoined, Joined
  <2>14. RunServesJoined'
    <3>1. ChainRuns' => ChainRuns
      BY <2>5 DEF ChainRuns
    <3>2. ChainRuns => Served(c)'
      BY <2>8, <2>10 DEF Served
    <3>3. \A d \in Callers : d # c => (Joined(d)' => Joined(d)) /\ (Served(d) => Served(d)')
      BY <2>7 DEF Joined, Served
    <3> QED
      BY <1>2, <3>1, <3>2, <3>3 DEF ChainInvariant, RunServesJoined
  <2>15. DoneIsServed'
    BY <1>2, <2>5, <2>6, <2>7, <2>8 DEF ChainInvariant, DoneIsServed, Served
  <2> QED
    BY <2>2, <2>4, <2>5, <2>11, <2>12, <2>13, <2>14, <2>15 DEF ChainInvariant, TypeOK
<1> QED
  BY <1>1, <1>2

LEMMA InterruptKeeps ==
  ASSUME ChainInvariant, NEW n \in Seqs \union {None}, Interrupt(n)
  PROVE  ChainInvariant'
<1> USE NoEntryAssumption
<1>1. barrier' \in Seqs \union {None}
  BY DEF Interrupt, ChainInvariant, TypeOK
<1>2. CASE ~Active \/ KeepsCurrent(entry, n)
  BY <1>1, <1>2 DEF Interrupt, ChainInvariant, TypeOK, NoOrphanWaiter, RunsWereForced, InterruptedAskedFor, StopHitsJoined, RunServesJoined, DoneIsServed, Joined, Served, ChainRuns, Active, Waits
<1>3. CASE Active /\ ~KeepsCurrent(entry, n)
  <2>1. entry \in EntryRecord /\ entry # NoEntry
    BY <1>3 DEF ChainInvariant, TypeOK, Active
  <2>2. MaxOf(entry.interruptSeq, n) \in Seqs \union {None} /\ Unsuppressed(entry, n) \in Demand \union {NoDemand}
    BY <2>1 DEF MaxOf, Unsuppressed, EntryRecord
  <2>3. entry' = [entry EXCEPT !.stopping = TRUE,
                    !.interruptSeq = IF entry.stopping THEN MaxOf(entry.interruptSeq, n) ELSE n,
                    !.pending = Unsuppressed(entry, n)]
    BY <1>3 DEF Interrupt
  <2>4. /\ entry' \in EntryRecord
        /\ entry'.stopping
        /\ entry'.current = entry.current /\ entry'.explicit = entry.explicit /\ entry'.owner = entry.owner
    BY <2>1, <2>2, <2>3 DEF EntryRecord
  <2>5. caller' = [c \in Callers |->
          IF caller[c].at \in {"done", "explicit"} THEN [caller[c] EXCEPT !.hit = TRUE] ELSE caller[c]]
    BY <1>3 DEF Interrupt
  <2>6. caller' \in [Callers -> CallerRecord]
    BY <2>5 DEF ChainInvariant, TypeOK, CallerRecord
  <2>7. \A c \in Callers : /\ caller'[c].at = caller[c].at /\ caller'[c].forced = caller[c].forced
                           /\ caller[c].hit => caller'[c].hit
                           /\ caller[c].at \in {"done", "explicit"} => caller'[c].hit
    BY <2>5 DEF ChainInvariant, TypeOK, CallerRecord
  <2> QED
    BY <1>1, <2>4, <2>6, <2>7 DEF ChainInvariant, TypeOK, NoOrphanWaiter, RunsWereForced, InterruptedAskedFor, StopHitsJoined, RunServesJoined, DoneIsServed, Joined, Served, ChainRuns, Active, Waits
<1> QED
  BY <1>2, <1>3

LEMMA BeginKeeps == ASSUME ChainInvariant, Begin PROVE ChainInvariant'
<1> USE NoEntryAssumption
<1>1. entry \in EntryRecord /\ entry # NoEntry /\ ~entry.stopping
  BY DEF Begin, ChainInvariant, TypeOK, Active
<1>2. entry' = [entry EXCEPT !.owner = "draining"]
  BY DEF Begin
<1>3. /\ entry' \in EntryRecord
      /\ entry'.current = entry.current /\ entry'.pending = entry.pending
      /\ entry'.explicit = entry.explicit /\ entry'.stopping = entry.stopping
  BY <1>1, <1>2 DEF EntryRecord
<1>4. caller' = [c \in Callers |->
        IF caller[c].at \in {"done", "explicit"} /\ entry.current.tag = "run"
          THEN [caller[c] EXCEPT !.forced = TRUE] ELSE caller[c]]
  BY DEF Begin
<1>5. caller' \in [Callers -> CallerRecord]
  BY <1>4 DEF ChainInvariant, TypeOK, CallerRecord
<1>6. \A c \in Callers :
        /\ caller'[c].at = caller[c].at /\ caller'[c].hit = caller[c].hit
        /\ caller[c].forced => caller'[c].forced
        /\ entry.current.tag = "run" /\ caller[c].at \in {"done", "explicit"} => caller'[c].forced
  BY <1>4 DEF ChainInvariant, TypeOK, CallerRecord
<1> QED
  BY <1>1, <1>3, <1>5, <1>6 DEF Begin, ChainInvariant, TypeOK, NoOrphanWaiter, RunsWereForced, InterruptedAskedFor, StopHitsJoined, RunServesJoined, DoneIsServed, Joined, Served, ChainRuns, Active, Waits

\* A caller that stops waiting, or rests, takes nothing from the others.
LEMMA LeaveKeeps ==
  ASSUME ChainInvariant, NEW c \in Callers, GiveUp(c) \/ Rest(c)
  PROVE  ChainInvariant'
<1>1. caller' = [caller EXCEPT ![c] = Resting] /\ entry' = entry /\ barrier' = barrier
  BY DEF GiveUp, Rest
<1>2. caller' \in [Callers -> CallerRecord]
  BY <1>1 DEF ChainInvariant, TypeOK, CallerRecord, Resting
<1>3. \A d \in Callers : caller'[d] = caller[d] \/ caller'[d].at = "resting"
  BY <1>1 DEF ChainInvariant, TypeOK, Resting
<1> QED
  BY <1>1, <1>2, <1>3 DEF ChainInvariant, TypeOK, NoOrphanWaiter, RunsWereForced, InterruptedAskedFor, StopHitsJoined, RunServesJoined, DoneIsServed, Joined, Served, ChainRuns, Active, Waits

(***************************************************************************)
(* What settle tells the waiters: everyone keeps its marks, those it       *)
(* completes get the exit, and a run that waited for the stop goes again.  *)
(***************************************************************************)
LEMMA TellAnswers ==
  ASSUME TypeOK, NEW on \in SUBSET {"done", "explicit", "settled"}, NEW exit \in Exits, Tell(on, exit)
  PROVE  /\ caller' \in [Callers -> CallerRecord]
         /\ \A c \in Callers :
              /\ caller'[c].forced = caller[c].forced /\ caller'[c].hit = caller[c].hit
              /\ \/ caller'[c] = caller[c] /\ caller[c].at \notin on
                 \/ caller'[c].at = exit /\ caller[c].at \in on \ {"settled"}
                 \/ caller'[c].at = "again" /\ caller[c].at = "settled" /\ "settled" \in on
<1>1. \A c \in Callers : caller[c] \in CallerRecord
  BY DEF TypeOK
<1> DEFINE told(c) ==
      CASE caller[c].at = "settled" /\ "settled" \in on -> [caller[c] EXCEPT !.at = "again"]
        [] caller[c].at \in on \ {"settled"} -> [caller[c] EXCEPT !.at = exit]
        [] OTHER -> caller[c]
<1>2. caller' = [c \in Callers |-> told(c)]
  BY DEF Tell, Answer
<1>3. ASSUME NEW c \in Callers
      PROVE  /\ told(c) \in CallerRecord
             /\ told(c).forced = caller[c].forced /\ told(c).hit = caller[c].hit
             /\ \/ told(c) = caller[c] /\ caller[c].at \notin on
                \/ told(c).at = exit /\ caller[c].at \in on \ {"settled"}
                \/ told(c).at = "again" /\ caller[c].at = "settled" /\ "settled" \in on
  <2>1. CASE caller[c].at = "settled" /\ "settled" \in on
    <3>1. told(c) = [caller[c] EXCEPT !.at = "again"]
      BY <2>1
    <3> QED
      BY <1>1, <2>1, <3>1 DEF CallerRecord
  <2>2. CASE caller[c].at \in on \ {"settled"}
    <3>1. told(c) = [caller[c] EXCEPT !.at = exit]
      BY <2>2
    <3> QED
      BY <1>1, <2>2, <3>1 DEF CallerRecord
  <2>3. CASE caller[c].at \notin on
    <3>1. told(c) = caller[c]
      BY <2>3
    <3> QED
      BY <1>1, <2>3, <3>1
  <2> QED
    BY <2>1, <2>2, <2>3
<1> HIDE DEF told
<1> QED
  BY <1>2, <1>3

LEMMA SettleKeeps == ASSUME ChainInvariant, NEW exit \in Exits, Settle(exit) PROVE ChainInvariant'
<1> USE NoEntryAssumption
<1> DEFINE answered == IF SettlesExplicit(entry) THEN {"explicit"} ELSE {}
           explicit == entry.explicit /\ ~SettlesExplicit(entry)
           goesOn == exit = "success" /\ ~entry.stopping /\ entry.pending # NoDemand
           on == IF goesOn THEN answered ELSE answered \union {"done", "settled"}
<1>1. entry \in EntryRecord /\ entry # NoEntry /\ Active
  BY DEF Settle, CanExit, ChainInvariant, TypeOK, Active
<1>2. on \in SUBSET {"done", "explicit", "settled"} /\ explicit \in BOOLEAN
  BY <1>1 DEF EntryRecord
<1>3. Tell(on, exit) /\ barrier' = barrier
  BY DEF Settle
<1>4. TypeOK
  BY DEF ChainInvariant
<1>5. /\ caller' \in [Callers -> CallerRecord]
      /\ \A c \in Callers :
           /\ caller'[c].forced = caller[c].forced /\ caller'[c].hit = caller[c].hit
           /\ \/ caller'[c] = caller[c] /\ caller[c].at \notin on
              \/ caller'[c].at = exit /\ caller[c].at \in on \ {"settled"}
              \/ caller'[c].at = "again" /\ caller[c].at = "settled" /\ "settled" \in on
  BY <1>2, <1>3, <1>4, TellAnswers
<1>6. ~entry.stopping => entry.owner = "draining" /\ exit \in {"success", "failure"}
  BY <1>1 DEF Settle, CanExit, EntryRecord, Exits
\* Everyone who is answered has been served, or was hit by the interrupt.
<1>7. ASSUME NEW c \in Callers, caller[c].at \in on \ {"settled"}
      PROVE  caller[c].hit \/ (Served(c) /\ exit # "interrupted")
  <2>1. Joined(c)
    BY <1>2, <1>7 DEF Joined
  <2>2. CASE entry.stopping
    BY <1>1, <2>1, <2>2 DEF ChainInvariant, StopHitsJoined
  <2>3. CASE ~entry.stopping /\ entry.current.tag = "run"
    BY <1>1, <1>6, <2>1, <2>3 DEF ChainInvariant, RunServesJoined, ChainRuns
  <2>4. CASE ~entry.stopping /\ entry.current.tag # "run"
    <3>1. caller[c].at = "done"
      BY <1>7, <2>4 DEF SettlesExplicit
    <3> QED
      BY <1>1, <1>6, <2>4, <3>1 DEF ChainInvariant, DoneIsServed
  <2> QED
    BY <2>2, <2>3, <2>4
<1>8. RunsWereForced' /\ InterruptedAskedFor'
  BY <1>5, <1>7 DEF ChainInvariant, RunsWereForced, InterruptedAskedFor, Served
\* Who still waits for an explicit run has it pending behind a wake.
<1>9. ASSUME NEW c \in Callers, caller[c].at = "explicit", "explicit" \notin on
      PROVE  explicit /\ ~entry.stopping /\ entry.pending.tag = "run"
  <2>1. entry.explicit /\ ~SettlesExplicit(entry)
    BY <1>9 DEF ChainInvariant, NoOrphanWaiter, Waits
  <2> QED
    BY <1>9, <2>1 DEF ChainInvariant, NoOrphanWaiter, Waits, SettlesExplicit
<1>10. CASE goesOn
  <2>1. entry' = [entry EXCEPT !.current = entry.pending, !.pending = NoDemand,
                               !.explicit = explicit, !.owner = "starting"]
    BY <1>10 DEF Settle
  <2>2. entry.pending \in Demand
    BY <1>1, <1>10 DEF EntryRecord
  <2>3. /\ entry' \in EntryRecord
        /\ entry'.current = entry.pending /\ entry'.explicit = explicit
        /\ entry'.owner = "starting" /\ entry'.stopping = FALSE
    BY <1>1, <1>2, <1>10, <2>1, <2>2 DEF EntryRecord
  <2>4. \A c \in Callers : caller'[c].at = "done" => caller[c].at = "done" /\ Served(c)
    <3> SUFFICES ASSUME NEW c \in Callers, caller'[c].at = "done"
                 PROVE  caller[c].at = "done" /\ Served(c)
      OBVIOUS
    <3>1. caller[c].at = "done"
      BY <1>5 DEF Exits
    <3>2. CASE entry.current.tag = "run"
      BY <1>1, <1>6, <1>10, <3>1, <3>2 DEF ChainInvariant, RunServesJoined, ChainRuns, Joined
    <3>3. CASE entry.current.tag # "run"
      BY <1>1, <3>1, <3>3 DEF ChainInvariant, DoneIsServed
    <3> QED
      BY <3>1, <3>2, <3>3
  <2>5. \A c \in Callers : caller'[c].at = "explicit" => caller[c].at = "explicit" /\ "explicit" \notin on
    BY <1>5 DEF Exits
  <2>6. \A c \in Callers : caller'[c].at # "settled"
    BY <1>5, <1>10 DEF Exits, ChainInvariant, NoOrphanWaiter, Waits
  <2>7. NoOrphanWaiter'
    BY <1>9, <2>3, <2>5, <2>6 DEF NoOrphanWaiter, Waits, Active
  <2>8. StopHitsJoined' /\ RunServesJoined' /\ DoneIsServed'
    BY <1>5, <2>3, <2>4 DEF StopHitsJoined, RunServesJoined, DoneIsServed, ChainRuns, Served
  <2> QED
    BY <1>3, <1>4, <1>5, <1>8, <2>3, <2>7, <2>8 DEF ChainInvariant, TypeOK
<1>11. CASE ~goesOn
  <2>1. entry' = Successor(entry, explicit)
    BY <1>11 DEF Settle
  <2>2. \A c \in Callers : caller'[c].at \notin {"done", "settled"}
    BY <1>5, <1>11 DEF Exits
  <2>3. \A c \in Callers : caller'[c].at = "explicit" => caller[c].at = "explicit" /\ "explicit" \notin on
    BY <1>5 DEF Exits
  <2>4. CASE entry.pending = NoDemand
    <3>1. entry' = NoEntry
      BY <2>1, <2>4 DEF Successor
    <3>2. \A c \in Callers : caller'[c].at # "explicit"
      BY <1>9, <2>3, <2>4 DEF NoDemand
    <3> QED
      BY <1>3, <1>4, <1>5, <1>8, <2>2, <3>1, <3>2 DEF ChainInvariant, TypeOK, NoOrphanWaiter, StopHitsJoined, RunServesJoined, DoneIsServed, Waits, Active
  <2>5. CASE entry.pending # NoDemand
    <3>1. entry' = NewEntry(entry.pending, explicit)
      BY <2>1, <2>5 DEF Successor
    <3>2. entry.pending \in Demand
      BY <1>1, <2>5 DEF EntryRecord
    <3>3. entry' \in EntryRecord
      BY <1>2, <3>1, <3>2, NewEntryIsEntry
    <3>4. /\ entry'.current = entry.pending /\ entry'.explicit = explicit
          /\ entry'.owner = "starting" /\ entry'.stopping = FALSE
      BY <3>1 DEF NewEntry
    <3>5. NoOrphanWaiter'
      BY <1>9, <2>2, <2>3, <3>3, <3>4 DEF NoOrphanWaiter, Waits, Active
    <3> QED
      BY <1>3, <1>4, <1>5, <1>8, <2>2, <3>3, <3>4, <3>5 DEF ChainInvariant, TypeOK, StopHitsJoined, RunServesJoined, DoneIsServed, ChainRuns
  <2> QED
    BY <2>4, <2>5
<1> QED
  BY <1>10, <1>11

-----------------------------------------------------------------------------
(***************************************************************************)
(* The invariant holds of every behaviour of the drain chain.              *)
(***************************************************************************)
THEOREM ChainHolds == Spec => []ChainInvariant
<1>1. Init => ChainInvariant
  BY DEF Init, Resting, CallerRecord, ChainInvariant, TypeOK, NoOrphanWaiter, RunsWereForced, InterruptedAskedFor, StopHitsJoined, RunServesJoined, DoneIsServed, Active, Waits, Exits
<1>2. ChainInvariant /\ [Next]_coordinatorVars => ChainInvariant'
  <2> SUFFICES ASSUME ChainInvariant, [Next]_coordinatorVars
               PROVE  ChainInvariant'
    OBVIOUS
  <2>1. ASSUME NEW n \in Seqs, Wake(n) PROVE ChainInvariant'
    BY <2>1, WakeKeeps
  <2>2. ASSUME NEW n \in Seqs \union {None}, Interrupt(n) PROVE ChainInvariant'
    BY <2>2, InterruptKeeps
  <2>3. ASSUME NEW c \in Callers, CallRun(c) PROVE ChainInvariant'
    BY <2>3, CallRunKeeps
  <2>4. ASSUME NEW c \in Callers, GiveUp(c) \/ Rest(c) PROVE ChainInvariant'
    BY <2>4, LeaveKeeps
  <2>5. CASE Begin
    BY <2>5, BeginKeeps
  <2>6. ASSUME NEW exit \in Exits, Settle(exit) PROVE ChainInvariant'
    BY <2>6, SettleKeeps
  <2>7. CASE UNCHANGED coordinatorVars
    BY <2>7 DEF coordinatorVars, ChainInvariant, TypeOK, NoOrphanWaiter, RunsWereForced, InterruptedAskedFor, StopHitsJoined, RunServesJoined, DoneIsServed, Joined, Served, ChainRuns, Active, Waits
  <2> QED
    BY <2>1, <2>2, <2>3, <2>4, <2>5, <2>6, <2>7 DEF Next
<1> QED
  BY <1>1, <1>2, PTL DEF Spec

(***************************************************************************)
(* No caller of run waits for a Deferred that nobody will complete.        *)
(***************************************************************************)
THEOREM NobodyIsOrphaned == Spec => []NoOrphanWaiter
<1>1. ChainInvariant => NoOrphanWaiter
  BY DEF ChainInvariant
<1> QED
  BY <1>1, ChainHolds, PTL

(***************************************************************************)
(* A run that no interrupt hit is answered by a drain in explicit mode.    *)
(***************************************************************************)
THEOREM ExplicitRunsAreForced == Spec => []RunsWereForced
<1>1. ChainInvariant => RunsWereForced
  BY DEF ChainInvariant
<1> QED
  BY <1>1, ChainHolds, PTL

(***************************************************************************)
(* A run called while an older drain is cleaned up is not interrupted with *)
(* it.                                                                     *)
(***************************************************************************)
THEOREM InterruptsHitTheirOwn == Spec => []InterruptedAskedFor
<1>1. ChainInvariant => InterruptedAskedFor
  BY DEF ChainInvariant
<1> QED
  BY <1>1, ChainHolds, PTL

-----------------------------------------------------------------------------
(***************************************************************************)
(* What the chain owes to its wakes.                                       *)
(***************************************************************************)

\* The demand that a wake n, not absorbed by a run, is carried by.
Carries(demand, n) == demand.tag = "wake" /\ demand.seq >= n
Carried(n) ==
  /\ Active
  /\ (AboutToBegin(entry) /\ Carries(entry.current, n)) \/ Carries(entry.pending, n)

\* A pending run has absorbed every wake; a boundary never falls behind the
\* interrupt an entry remembers.
RunAbsorbsAll == RunPending => absorbed = due
BoundaryKept == Active => entry.interruptSeq <= barrier

PromiseInvariant ==
  /\ due \subseteq Seqs
  /\ absorbed \subseteq due
  /\ BoundaryKept
  /\ RunAbsorbsAll
  /\ \A n \in due \ absorbed : Carried(n)

-----------------------------------------------------------------------------
\* Coalescing a wake into the follow-up carries it, unless a run absorbs it.
LEMMA CoalesceCarries ==
  ASSUME NEW former \in Demand \union {NoDemand}, NEW n \in Seqs
  PROVE  /\ former = Run => Coalesce(former, WakeAt(n)) = Run
         /\ former # Run => /\ Carries(Coalesce(former, WakeAt(n)), n)
                          /\ \A m \in Seqs : Carries(former, m) => Carries(Coalesce(former, WakeAt(n)), m)
<1>1. MaxSeq \in Nat
  BY MaxSeqAssumption
<1>2. former = Run \/ (former.tag # "run" /\ former.seq \in Seqs \union {None})
  BY DEF Demand, NoDemand, Run, WakeAt
<1>3. former # Run => Coalesce(former, WakeAt(n)) = [tag |-> "wake", seq |-> MaxOf(former.seq, n)]
  BY <1>2 DEF Coalesce, WakeAt
<1>4. former # Run => MaxOf(former.seq, n) >= n /\ MaxOf(former.seq, n) >= former.seq
  BY <1>2 DEF MaxOf, Seqs, None
<1>5. former # Run => MaxOf(former.seq, n) \in Seqs
  BY <1>2 DEF MaxOf, Seqs, None
<1>6. former = Run => Coalesce(former, WakeAt(n)) = Run
  BY DEF Coalesce, Run
<1> QED
  BY <1>2, <1>3, <1>4, <1>5, <1>6 DEF Carries, Seqs, None

LEMMA WakeNotedKeeps ==
  ASSUME PromiseInvariant, TypeOK, NEW n \in Seqs, WakeNoted(n)
  PROVE  PromiseInvariant'
<1> USE NoEntryAssumption
<1>1. MaxSeq \in Nat /\ n \in Nat /\ n > None /\ barrier \in Nat
  BY MaxSeqAssumption DEF TypeOK, Seqs, None
<1>2. due' \subseteq Seqs /\ absorbed' \subseteq due' /\ barrier' = barrier
  BY DEF WakeNoted, PromiseInvariant, Wake
<1>3. CASE ~(n > barrier)
  <2>1. due' = due /\ absorbed' = absorbed
    BY <1>3 DEF WakeNoted, PromiseInvariant
  <2>2. entry' = entry
    BY <1>1, <1>3 DEF WakeNoted, Wake, AfterBoundary, None
  <2> QED
    BY <1>2, <2>1, <2>2 DEF PromiseInvariant, BoundaryKept, RunAbsorbsAll, RunPending, Carried, Active
<1>4. CASE n > barrier /\ ~Active
  <2>1. entry' = NewEntry(WakeAt(n), FALSE)
    BY <1>4 DEF WakeNoted, Wake, AfterBoundary
  <2>2. entry' \in EntryRecord
    BY <2>1, DemandKinds, NewEntryIsEntry
  <2>3. /\ entry'.current = [tag |-> "wake", seq |-> n] /\ entry'.pending = NoDemand
        /\ entry'.interruptSeq = None /\ entry'.owner = "starting" /\ entry'.stopping = FALSE
    BY <2>1 DEF NewEntry, WakeAt
  <2>4. due = absorbed /\ due' \subseteq due \union {n}
    BY <1>4 DEF PromiseInvariant, Carried, WakeNoted
  <2>5. due' \ absorbed' \subseteq {n}
    BY <2>4 DEF WakeNoted
  <2>6. Active'
    BY <2>2 DEF Active
  <2>7. Carried(n)'
    BY <1>1, <2>3, <2>6 DEF Carried, Carries, AboutToBegin
  <2>8. BoundaryKept'
    BY <1>1, <1>2, <2>3 DEF BoundaryKept, None
  <2>9. RunAbsorbsAll'
    BY <2>3 DEF RunAbsorbsAll, RunPending, NoDemand, Run
  <2> QED
    BY <1>2, <2>5, <2>7, <2>8, <2>9 DEF PromiseInvariant
<1>5. CASE n > barrier /\ Active /\ ~AcceptsWake(entry, n)
  <2>1. entry \in EntryRecord
    BY <1>5 DEF TypeOK, Active
  <2>2. entry.interruptSeq \in Nat /\ entry.interruptSeq <= barrier
    BY <1>1, <1>5, <2>1 DEF PromiseInvariant, BoundaryKept, EntryRecord, Seqs, None
  <2>3. StoppedForAll
    BY <1>1, <1>5, <2>1, <2>2 DEF AcceptsWake, StoppedForAll, EntryRecord
  <2>4. due' = due /\ absorbed' = absorbed
    BY <2>3 DEF WakeNoted, PromiseInvariant
  <2>5. entry' = entry
    BY <1>5 DEF WakeNoted, Wake
  <2> QED
    BY <1>2, <2>4, <2>5 DEF PromiseInvariant, BoundaryKept, RunAbsorbsAll, RunPending, Carried, Active
<1>6. CASE n > barrier /\ Active /\ AcceptsWake(entry, n)
  <2>1. entry \in EntryRecord
    BY <1>6 DEF TypeOK, Active
  <2>2. entry' = [entry EXCEPT !.pending = Coalesce(entry.pending, WakeAt(n))]
    BY <1>6 DEF WakeNoted, Wake, AfterBoundary
  <2>3. entry.pending \in Demand \union {NoDemand} /\ Coalesce(entry.pending, WakeAt(n)) \in Demand
    BY <2>1, CoalesceIsDemand, DemandKinds DEF EntryRecord
  <2>4. /\ entry' \in EntryRecord
        /\ entry'.pending = Coalesce(entry.pending, WakeAt(n))
        /\ entry'.current = entry.current /\ entry'.interruptSeq = entry.interruptSeq
        /\ entry'.owner = entry.owner /\ entry'.stopping = entry.stopping
    BY <2>1, <2>2, <2>3 DEF EntryRecord
  <2>5. Active'
    BY <2>4 DEF Active
  <2>6. BoundaryKept'
    BY <1>2, <1>6, <2>4 DEF PromiseInvariant, BoundaryKept
  <2>7. CASE entry.pending = Run
    <3>1. absorbed = due /\ absorbed' = absorbed \union (due' \ due) /\ due \subseteq due'
      BY <1>6, <2>7 DEF WakeNoted, PromiseInvariant, RunAbsorbsAll, RunPending
    <3> QED
      BY <1>2, <2>6, <3>1 DEF PromiseInvariant, RunAbsorbsAll
  <2>8. CASE entry.pending # Run
    <3>1. absorbed' = absorbed \ (due' \ due) /\ due' \subseteq due \union {n} /\ due \subseteq due'
      BY <1>6, <2>8 DEF WakeNoted, RunPending
    <3>2. due' \ absorbed' \subseteq (due \ absorbed) \union {n}
      BY <3>1
    <3>3. /\ Carries(entry'.pending, n)
          /\ \A m \in Seqs : Carries(entry.pending, m) => Carries(entry'.pending, m)
      BY <2>3, <2>4, <2>8, CoalesceCarries
    <3>4. \A m \in Seqs : Carried(m) => Carried(m)'
      BY <2>4, <2>5, <3>3 DEF Carried, AboutToBegin, Carries
    <3>5. Carried(n)'
      BY <2>5, <3>3 DEF Carried, Carries
    <3>6. entry'.pending # Run
      BY <3>3 DEF Carries, Run
    <3> QED
      BY <1>2, <2>6, <3>2, <3>4, <3>5, <3>6 DEF PromiseInvariant, RunAbsorbsAll, RunPending
  <2> QED
    BY <2>7, <2>8
<1> QED
  BY <1>1, <1>3, <1>4, <1>5, <1>6

LEMMA CallRunNotedKeeps ==
  ASSUME PromiseInvariant, TypeOK, NEW c \in Callers, CallRunNoted(c)
  PROVE  PromiseInvariant'
<1> USE NoEntryAssumption
<1>1. due' = due /\ barrier' = barrier /\ barrier \in Nat
  BY MaxSeqAssumption DEF CallRunNoted, CallRun, TypeOK, Seqs, None
<1>2. CASE ~Active
  <2>1. entry' = NewEntry(Run, FALSE) /\ absorbed' = absorbed
    BY <1>2 DEF CallRunNoted, CallRun
  <2>2. entry'.pending = NoDemand /\ entry'.interruptSeq = None
    BY <2>1 DEF NewEntry
  <2>3. due = absorbed
    BY <1>2 DEF PromiseInvariant, Carried
  <2>4. BoundaryKept'
    BY <1>1, <2>2 DEF BoundaryKept, None
  <2>5. absorbed' = due'
    BY <1>1, <2>1, <2>3
  <2> QED
    BY <1>1, <2>4, <2>5 DEF PromiseInvariant, RunAbsorbsAll
<1>3. CASE Active /\ JoinOn(entry) = "explicit"
  <2>1. entry \in EntryRecord
    BY <1>3 DEF TypeOK, Active
  <2>2. entry'.interruptSeq = entry.interruptSeq
    BY <1>3, <2>1 DEF CallRunNoted, CallRun, EntryRecord
  <2>3. absorbed' = due'
    BY <1>3 DEF CallRunNoted
  <2> QED
    BY <1>1, <1>3, <2>2, <2>3 DEF PromiseInvariant, BoundaryKept, RunAbsorbsAll
<1>4. CASE Active /\ JoinOn(entry) # "explicit"
  <2>1. entry' = entry /\ absorbed' = absorbed
    BY <1>4 DEF CallRunNoted, CallRun
  <2> QED
    BY <1>1, <2>1 DEF PromiseInvariant, BoundaryKept, RunAbsorbsAll, RunPending, Carried, Active
<1> QED
  BY <1>2, <1>3, <1>4

LEMMA InterruptNotedKeeps ==
  ASSUME PromiseInvariant, TypeOK, NEW n \in Seqs \union {None}, InterruptNoted(n)
  PROVE  PromiseInvariant'
<1> USE NoEntryAssumption
<1>1. /\ MaxSeq \in Nat /\ n \in Nat /\ barrier \in Nat /\ barrier' \in Nat
      /\ barrier <= barrier' /\ n <= barrier'
  BY MaxSeqAssumption DEF InterruptNoted, Interrupt, TypeOK, Seqs, None
<1>2. /\ due' = (IF n = None THEN {} ELSE {m \in due : m > n})
      /\ absorbed' = absorbed \intersect due'
  BY DEF InterruptNoted
<1>3. due' \subseteq Seqs /\ absorbed' \subseteq due' /\ due' \ absorbed' \subseteq due \ absorbed
  BY <1>2 DEF PromiseInvariant
<1>4. \A m \in due' : n # None /\ m > n /\ m \in Nat
  BY <1>1, <1>2, <1>3 DEF Seqs
<1>5. CASE ~Active \/ KeepsCurrent(entry, n)
  <2>1. entry' = entry
    BY <1>5 DEF InterruptNoted, Interrupt
  <2>2. BoundaryKept'
    <3> SUFFICES ASSUME Active PROVE entry.interruptSeq <= barrier'
      BY <2>1 DEF BoundaryKept, Active
    <3>1. entry.interruptSeq \in Nat /\ entry.interruptSeq <= barrier
      BY <1>1 DEF PromiseInvariant, BoundaryKept, TypeOK, Active, EntryRecord, Seqs, None
    <3> QED
      BY <1>1, <3>1
  <2>3. RunAbsorbsAll'
    BY <1>2, <2>1 DEF PromiseInvariant, RunAbsorbsAll, RunPending, Active
  <2> QED
    BY <1>3, <2>1, <2>2, <2>3 DEF PromiseInvariant, Carried, Active
<1>6. CASE Active /\ ~KeepsCurrent(entry, n)
  <2>1. entry \in EntryRecord
    BY <1>6 DEF TypeOK, Active
  <2>2. entry' = [entry EXCEPT !.stopping = TRUE,
                    !.interruptSeq = IF entry.stopping THEN MaxOf(entry.interruptSeq, n) ELSE n,
                    !.pending = Unsuppressed(entry, n)]
    BY <1>6 DEF InterruptNoted, Interrupt
  <2>3. /\ entry'.pending = Unsuppressed(entry, n)
        /\ entry'.interruptSeq = IF entry.stopping THEN MaxOf(entry.interruptSeq, n) ELSE n
    BY <2>1, <2>2 DEF EntryRecord
  <2>4. entry.interruptSeq \in Nat /\ entry.interruptSeq <= barrier
    BY <1>1, <1>6, <2>1 DEF PromiseInvariant, BoundaryKept, EntryRecord, Seqs, None
  <2>5. BoundaryKept'
    BY <1>1, <2>3, <2>4 DEF BoundaryKept, MaxOf
  <2>6. RunAbsorbsAll'
    BY <2>3 DEF RunAbsorbsAll, RunPending, Unsuppressed, Run, NoDemand
  <2>7. entry' \in EntryRecord
    <3>1. MaxOf(entry.interruptSeq, n) \in Seqs \union {None} /\ Unsuppressed(entry, n) \in Demand \union {NoDemand}
      BY <2>1 DEF MaxOf, Unsuppressed, EntryRecord
    <3> QED
      BY <2>1, <2>2, <3>1 DEF EntryRecord
  <2>8. ASSUME NEW m \in due' \ absorbed'
        PROVE  Carried(m)'
    <3>1. Carried(m) /\ m > n /\ n # None /\ m \in Nat
      BY <1>3, <1>4, <2>7 DEF PromiseInvariant
    <3>2. ~Carries(entry.current, m)
      <4> SUFFICES ASSUME Carries(entry.current, m) PROVE FALSE
        OBVIOUS
      <4>1. entry.current.seq \in Nat
        BY <1>1, <2>1 DEF EntryRecord, Demand, Run, WakeAt, Seqs, None
      <4> QED
        BY <1>1, <1>6, <3>1, <4>1 DEF Carries, KeepsCurrent, None
    <3>3. Carries(entry.pending, m)
      BY <3>1, <3>2 DEF Carried
    <3>4. entry.pending.seq \in Nat
      BY <1>1, <2>1 DEF EntryRecord, Demand, Run, WakeAt, NoDemand, Seqs, None
    <3>5. entry'.pending = entry.pending
      BY <1>1, <2>3, <3>1, <3>3, <3>4 DEF Unsuppressed, Carries, None
    <3>6. entry' # NoEntry
      BY <2>7
    <3> QED
      BY <3>3, <3>5, <3>6 DEF Carried, Carries, Active
  <2> QED
    BY <1>3, <2>5, <2>6, <2>8 DEF PromiseInvariant
<1> QED
  BY <1>5, <1>6

\* A demand that was pending is carried by the entry that takes it up.
LEMMA SettleKeepsPromises ==
  ASSUME PromiseInvariant, TypeOK, NEW exit \in Exits, Settle(exit), UNCHANGED promises
  PROVE  PromiseInvariant'
<1> USE NoEntryAssumption
<1>1. due' = due /\ absorbed' = absorbed /\ barrier' = barrier /\ barrier \in Nat
  BY MaxSeqAssumption DEF Settle, promises, TypeOK, Seqs, None
<1>2. entry \in EntryRecord /\ Active
  BY DEF Settle, CanExit, TypeOK, Active
<1>3. ~AboutToBegin(entry)
  BY <1>2 DEF Settle, CanExit, AboutToBegin
<1>4. \A n \in due \ absorbed : Carries(entry.pending, n)
  BY <1>3 DEF PromiseInvariant, Carried
<1>5. CASE entry.pending = NoDemand
  <2>1. due = absorbed
    BY <1>4, <1>5 DEF PromiseInvariant, Carries, NoDemand
  <2>2. entry' = NoEntry
    BY <1>5 DEF Settle, Successor
  <2> QED
    BY <1>1, <2>1, <2>2 DEF PromiseInvariant, BoundaryKept, RunAbsorbsAll, Active
<1>6. CASE entry.pending # NoDemand
  <2>1. entry.pending \in Demand
    BY <1>2, <1>6 DEF EntryRecord
  <2>2. \/ entry' = NewEntry(entry.pending, entry.explicit /\ ~SettlesExplicit(entry))
        \/ /\ ~entry.stopping
           /\ entry' = [entry EXCEPT !.current = entry.pending, !.pending = NoDemand,
                          !.explicit = entry.explicit /\ ~SettlesExplicit(entry), !.owner = "starting"]
    BY <1>6 DEF Settle, Successor
  <2>3. /\ entry'.current = entry.pending /\ entry'.pending = NoDemand
        /\ entry'.owner = "starting" /\ ~entry'.stopping
        /\ entry'.interruptSeq \in {None, entry.interruptSeq}
        /\ entry' \in EntryRecord
    <3>1. CASE entry' = NewEntry(entry.pending, entry.explicit /\ ~SettlesExplicit(entry))
      BY <1>2, <2>1, <3>1, NewEntryIsEntry DEF NewEntry
    <3>2. CASE /\ ~entry.stopping
               /\ entry' = [entry EXCEPT !.current = entry.pending, !.pending = NoDemand,
                              !.explicit = entry.explicit /\ ~SettlesExplicit(entry), !.owner = "starting"]
      BY <1>2, <2>1, <3>2 DEF EntryRecord
    <3> QED
      BY <2>2, <3>1, <3>2
  <2>4. BoundaryKept'
    BY <1>1, <1>2, <2>3 DEF PromiseInvariant, BoundaryKept, None
  <2>5. RunAbsorbsAll'
    BY <2>3 DEF RunAbsorbsAll, RunPending, NoDemand, Run
  <2>6. \A n \in due' \ absorbed' : Carried(n)'
    BY <1>1, <1>4, <2>3 DEF Carried, AboutToBegin, Active, Carries
  <2> QED
    BY <1>1, <2>4, <2>5, <2>6 DEF PromiseInvariant
<1> QED
  BY <1>5, <1>6

\* A drain that begins pays every debt.
LEMMA BeginPaysAll == ASSUME PromiseInvariant, TypeOK, BeginPays PROVE PromiseInvariant'
<1>1. entry \in EntryRecord /\ entry' = [entry EXCEPT !.owner = "draining"] /\ barrier' = barrier
  BY DEF BeginPays, Begin, TypeOK, Active
<1>2. Active /\ entry'.interruptSeq = entry.interruptSeq
  BY <1>1 DEF BeginPays, Begin, EntryRecord
<1> QED
  BY <1>1, <1>2 DEF BeginPays, PromiseInvariant, BoundaryKept, RunAbsorbsAll

-----------------------------------------------------------------------------
\* The history variables steer nothing: what happens is a behaviour of the chain.
LEMMA PromisesAreOnlyWatched == PromisesSpec => Spec
<1>1. PromisesInit => Init
  BY DEF PromisesInit
<1>2. [PromisesNext]_promiseVars => [Next]_coordinatorVars
  BY DEF PromisesNext, Next, WakeNoted, CallRunNoted, InterruptNoted, BeginPays, promiseVars, coordinatorVars
<1> QED
  BY <1>1, <1>2, PTL DEF PromisesSpec, Spec

THEOREM PromisesHold == PromisesSpec => []PromiseInvariant
<1>1. PromisesInit => PromiseInvariant
  BY DEF PromisesInit, Init, PromiseInvariant, BoundaryKept, RunAbsorbsAll, Active
<1>2. PromiseInvariant /\ TypeOK /\ [PromisesNext]_promiseVars => PromiseInvariant'
  <2> SUFFICES ASSUME PromiseInvariant, TypeOK, [PromisesNext]_promiseVars
               PROVE  PromiseInvariant'
    OBVIOUS
  <2>1. ASSUME NEW n \in Seqs, WakeNoted(n) PROVE PromiseInvariant'
    BY <2>1, WakeNotedKeeps
  <2>2. ASSUME NEW n \in Seqs \union {None}, InterruptNoted(n) PROVE PromiseInvariant'
    BY <2>2, InterruptNotedKeeps
  <2>3. ASSUME NEW c \in Callers, CallRunNoted(c) PROVE PromiseInvariant'
    BY <2>3, CallRunNotedKeeps
  <2>4. ASSUME NEW exit \in Exits, Settle(exit), UNCHANGED promises PROVE PromiseInvariant'
    BY <2>4, SettleKeepsPromises
  <2>5. CASE BeginPays
    BY <2>5, BeginPaysAll
  <2>6. ASSUME entry' = entry, barrier' = barrier, UNCHANGED promises PROVE PromiseInvariant'
    BY <2>6 DEF promises, PromiseInvariant, BoundaryKept, RunAbsorbsAll, RunPending, Carried, Active
  <2>7. ASSUME NEW c \in Callers, GiveUp(c) \/ Rest(c), UNCHANGED promises PROVE PromiseInvariant'
    BY <2>6, <2>7 DEF GiveUp, Rest
  <2>8. CASE UNCHANGED promiseVars
    BY <2>6, <2>8 DEF promiseVars, coordinatorVars
  <2> QED
    BY <2>1, <2>2, <2>3, <2>4, <2>5, <2>7, <2>8 DEF PromisesNext
<1>3. PromisesSpec => []TypeOK
  <2>1. ChainInvariant => TypeOK
    BY DEF ChainInvariant
  <2> QED
    BY <2>1, PromisesAreOnlyWatched, ChainHolds, PTL
<1> QED
  BY <1>1, <1>2, <1>3, PTL DEF PromisesSpec

(***************************************************************************)
(* A wake newer than every interrupt reaches a drain, unless an explicit   *)
(* run has absorbed it.                                                    *)
(***************************************************************************)
THEOREM PlainWakesAreKept == PromisesSpec => []PlainWakeNotLost
<1>1. PromiseInvariant => PlainWakeNotLost
  BY DEF PromiseInvariant, PlainWakeNotLost, DrainComes, Carried, Carries, NoDemand
<1> QED
  BY <1>1, PromisesHold, PTL

-----------------------------------------------------------------------------
(***************************************************************************)
(* The first-version engine.                                               *)
(***************************************************************************)

USE MaxBodiesAssumption DEF RunnerIds, BodyIds, NoRunner, NoBody

-----------------------------------------------------------------------------
(***************************************************************************)
(* The invariant.                                                          *)
(***************************************************************************)
\* Ids name what has been made.
IdsAreBorn ==
  /\ \A b \in BodyIds : IF b <= bodies THEN body[b].of \in RunnerIds /\ body[b].at # "unborn" ELSE body[b].at = "unborn"
  /\ \A r \in RunnerIds : runner[r].runs <= bodies /\ runner[r].then <= bodies
  /\ \A p \in Prompters : prompter[p].on <= bodies /\ prompter[p].then <= bodies /\ prompter[p].since <= bodies

\* A busy runner has a body, and one that is to go on after its shell has the next.
BusyRunners ==
  \A r \in RunnerIds :
    /\ Tag(r) # "Idle" => runner[r].runs # NoBody
    /\ Tag(r) = "ShellThenRun" => runner[r].then # NoBody /\ body[runner[r].then].of = r

PromptersHaveRunner ==
  \A p \in Prompters :
    /\ prompter[p].at # "away" => prompter[p].with \in RunnerIds
    /\ prompter[p].at \in {"awaiting", "shelling", "interrupt", "join"} => prompter[p].on # NoBody

\* The runner of a body has not left it behind: it runs it, or will after its shell.
Runs(b) == Tag(body[b].of) # "Idle" /\ runner[body[b].of].runs = b
WillRun(b) == Tag(body[b].of) = "ShellThenRun" /\ runner[body[b].of].then = b

\* What works, or is still to work, is its runner's or is being cancelled.
NobodyForgotten ==
  \A b \in BodyIds :
    /\ Working(b) => Runs(b) \/ BeingCancelled(b)
    /\ body[b].at = "pending" => WillRun(b) \/ BeingCancelled(b)

\* Unless one has strayed, the runner of the map is the only one that is busy.
OneRunner == ~strayed => \A r \in RunnerIds : r # mapped => Tag(r) = "Idle"

\* A cancel has to do with the runner of all that was there; once it has stopped it, with none of that any more.
CancelMeetsAll ==
  ~strayed =>
    \A p \in Prompters, b \in BodyIds : b <= prompter[p].since /\ (Runs(b) \/ WillRun(b)) =>
      /\ prompter[p].at = "cancel" => body[b].of = prompter[p].with
      /\ prompter[p].at \notin {"interrupt", "join", "idle?", "unmap"}

RunParts == IdsAreBorn /\ BusyRunners /\ PromptersHaveRunner /\ NobodyForgotten /\ OneRunner /\ CancelMeetsAll
RunInvariant == RunTypeOK /\ RunParts

-----------------------------------------------------------------------------
(***************************************************************************)
(* Types, and what the updates do.                                         *)
(***************************************************************************)
RunnerRecords == [tag : {"Idle", "Running", "Shell", "ShellThenRun"}, runs : 0 .. MaxBodies, then : 0 .. MaxBodies]
BodyPoints == {"unborn", "pending", "preparing", "alive", "stopping", "telling", "unmapping", "completing", "ended"}
BodyRecords ==
  [kind : {"run", "shell"}, of : 0 .. 2 * MaxBodies, at : BodyPoints,
   done : {"open", "interrupted", "completed", "cancelled"}]
PrompterPoints == {"away", "prompt", "shell", "awaiting", "shelling", "cancel", "interrupt", "join", "idle?", "unmap"}
PrompterRecords ==
  [at : PrompterPoints, with : 0 .. 2 * MaxBodies, on : 0 .. MaxBodies, then : 0 .. MaxBodies, since : 0 .. MaxBodies]

LEMMA RunTypes ==
  RunTypeOK <=>
    /\ mapped \in RunnerIds \union {NoRunner} /\ runners \in 0 .. 2 * MaxBodies /\ bodies \in 0 .. MaxBodies
    /\ runner \in [RunnerIds -> RunnerRecords] /\ body \in [BodyIds -> BodyRecords]
    /\ prompter \in [Prompters -> PrompterRecords] /\ strayed \in BOOLEAN
  BY DEF RunTypeOK, RunnerRecords, BodyRecords, PrompterRecords, BodyPoints, PrompterPoints

\* One caller is at another point.
LEMMA PrompterBecomes ==
  ASSUME RunTypeOK, NEW p \in Prompters, NEW now \in PrompterRecords, prompter' = [prompter EXCEPT ![p] = now]
  PROVE  /\ prompter' \in [Prompters -> PrompterRecords] /\ prompter'[p] = now
         /\ \A q \in Prompters : q # p => prompter'[q] = prompter[q]
<1>1. prompter \in [Prompters -> PrompterRecords]
  BY RunTypes
<1> QED
  BY <1>1

LEMMA PrompterLeaves ==
  ASSUME RunTypeOK, NEW p \in Prompters, Leaves(p)
  PROVE  /\ prompter' \in [Prompters -> PrompterRecords] /\ prompter'[p] = Away
         /\ \A q \in Prompters : q # p => prompter'[q] = prompter[q]
<1>1. Away \in PrompterRecords
  BY DEF Away, PrompterRecords, PrompterPoints
<1> QED
  BY <1>1, PrompterBecomes DEF Leaves

LEMMA PrompterMoves ==
  ASSUME RunTypeOK, NEW p \in Prompters, NEW point \in PrompterPoints, Moves(p, point)
  PROVE  /\ prompter' \in [Prompters -> PrompterRecords]
         /\ prompter'[p].at = point /\ prompter'[p].with = prompter[p].with /\ prompter'[p].on = prompter[p].on
         /\ prompter'[p].then = prompter[p].then /\ prompter'[p].since = prompter[p].since
         /\ \A q \in Prompters : q # p => prompter'[q] = prompter[q]
<1>1. prompter \in [Prompters -> PrompterRecords]
  BY RunTypes
<1> DEFINE now == [at |-> point, with |-> prompter[p].with, on |-> prompter[p].on, then |-> prompter[p].then,
                   since |-> prompter[p].since]
<1>2. now \in PrompterRecords
  BY <1>1 DEF PrompterRecords
<1>3. [prompter[p] EXCEPT !.at = point] = now
  BY <1>1 DEF PrompterRecords
<1>4. prompter' = [prompter EXCEPT ![p] = now]
  BY <1>3 DEF Moves
<1> QED
  BY <1>2, <1>4, PrompterBecomes

LEMMA PrompterAwaits ==
  ASSUME RunTypeOK, NEW p \in Prompters, NEW point \in PrompterPoints, NEW b \in 0 .. MaxBodies, AwaitsBody(p, point, b)
  PROVE  /\ prompter' \in [Prompters -> PrompterRecords]
         /\ prompter'[p].at = point /\ prompter'[p].with = prompter[p].with /\ prompter'[p].on = b
         /\ prompter'[p].then = prompter[p].then /\ prompter'[p].since = prompter[p].since
         /\ \A q \in Prompters : q # p => prompter'[q] = prompter[q]
<1>1. prompter \in [Prompters -> PrompterRecords]
  BY RunTypes
<1> DEFINE now == [at |-> point, with |-> prompter[p].with, on |-> b, then |-> prompter[p].then, since |-> prompter[p].since]
<1>2. now \in PrompterRecords
  BY <1>1 DEF PrompterRecords
<1> DEFINE there == [at |-> point, with |-> prompter[p].with, on |-> prompter[p].on, then |-> prompter[p].then,
                     since |-> prompter[p].since]
<1>0. [prompter[p] EXCEPT !.at = point] = there
  BY <1>1 DEF PrompterRecords
<1>01. [there EXCEPT !.on = b] = now
  OBVIOUS
<1> HIDE DEF there, now
<1>3. [[prompter[p] EXCEPT !.at = point] EXCEPT !.on = b] = now
  BY <1>0, <1>01
<1>4. prompter' = [prompter EXCEPT ![p] = now]
  BY <1>1, <1>3 DEF AwaitsBody
<1> USE DEF now
<1> QED
  BY <1>2, <1>4, PrompterBecomes

\* One body is at another point.
LEMMA BodyBecomes ==
  ASSUME RunTypeOK, NEW b \in BodyIds, NEW point \in BodyPoints, BodyMoves(b, point)
  PROVE  /\ body' \in [BodyIds -> BodyRecords] /\ body'[b].at = point /\ body'[b].of = body[b].of
         /\ \A d \in BodyIds : d # b => body'[d] = body[d]
<1>1. body \in [BodyIds -> BodyRecords]
  BY RunTypes
<1>2. [body[b] EXCEPT !.at = point] = [kind |-> body[b].kind, of |-> body[b].of, at |-> point, done |-> body[b].done]
  BY <1>1 DEF BodyRecords
<1> DEFINE now == [kind |-> body[b].kind, of |-> body[b].of, at |-> point, done |-> body[b].done]
<1>3. now \in BodyRecords
  BY <1>1 DEF BodyRecords
<1>4. body' = [body EXCEPT ![b] = now]
  BY <1>2 DEF BodyMoves
<1> QED
  BY <1>1, <1>3, <1>4

LEMMA RunnerBecomes ==
  ASSUME RunTypeOK, NEW r \in RunnerIds, NEW tag \in {"Idle", "Running", "Shell", "ShellThenRun"},
         NEW runs \in 0 .. MaxBodies, NEW then \in 0 .. MaxBodies, SetRunner(r, tag, runs, then)
  PROVE  /\ runner' \in [RunnerIds -> RunnerRecords]
         /\ runner'[r].tag = tag /\ runner'[r].runs = runs /\ runner'[r].then = then
         /\ \A q \in RunnerIds : q # r => runner'[q] = runner[q]
<1>1. runner \in [RunnerIds -> RunnerRecords]
  BY RunTypes
<1>2. [tag |-> tag, runs |-> runs, then |-> then] \in RunnerRecords
  BY DEF RunnerRecords
<1> QED
  BY <1>1, <1>2 DEF SetRunner

\* A body that is interrupted is the same body, and does not come to work.
LEMMA BodyInterrupted ==
  ASSUME RunTypeOK, NEW b \in BodyIds, body' = Interrupted(b)
  PROVE  /\ body' \in [BodyIds -> BodyRecords] /\ body'[b].of = body[b].of
         /\ body[b].at = "alive" => body'[b].at = "stopping"
         /\ body[b].at # "alive" => body'[b].at = body[b].at
         /\ \A d \in BodyIds : d # b => body'[d] = body[d]
<1> DEFINE point == IF body[b].at = "alive" THEN "stopping" ELSE body[b].at
<1>1. body \in [BodyIds -> BodyRecords]
  BY RunTypes
<1>2. point \in BodyPoints
  BY <1>1 DEF BodyRecords, BodyPoints
<1>3. BodyMoves(b, point)
  BY DEF Interrupted, BodyMoves
<1>4. /\ body[b].at = "alive" => point = "stopping"
      /\ body[b].at # "alive" => point = body[b].at
  OBVIOUS
<1> HIDE DEF point
<1> QED
  BY <1>2, <1>3, <1>4, BodyBecomes

\* A new body is the next, of the runner it is made for.
LEMMA BodyIsNew ==
  ASSUME RunTypeOK, NEW kind \in {"run", "shell"}, NEW r \in RunnerIds, NEW point \in BodyPoints, NewBody(kind, r, point)
  PROVE  /\ body' \in [BodyIds -> BodyRecords] /\ bodies + 1 \in BodyIds /\ bodies' = bodies + 1 /\ bodies' \in 0 .. MaxBodies
         /\ bodies \in Nat
         /\ body'[bodies + 1].of = r /\ body'[bodies + 1].at = point
         /\ \A d \in BodyIds : d # bodies + 1 => body'[d] = body[d]
<1>1. body \in [BodyIds -> BodyRecords] /\ bodies \in 0 .. MaxBodies
  BY RunTypes
<1>2. bodies + 1 \in BodyIds /\ bodies' = bodies + 1 /\ bodies' \in 0 .. MaxBodies
  BY <1>1 DEF NewBody
<1> DEFINE now == [kind |-> kind, of |-> r, at |-> point, done |-> "open"]
<1>3. now \in BodyRecords
  BY DEF BodyRecords
<1>4. body' = [body EXCEPT ![bodies + 1] = now]
  BY DEF NewBody
<1>5. now.of = r /\ now.at = point
  OBVIOUS
<1> HIDE DEF now
<1>6. body' \in [BodyIds -> BodyRecords] /\ body'[bodies + 1] = now /\ \A d \in BodyIds : d # bodies + 1 => body'[d] = body[d]
  BY <1>1, <1>2, <1>3, <1>4
<1> QED
  BY <1>1, <1>2, <1>5, <1>6

-----------------------------------------------------------------------------
(***************************************************************************)
(* Steps that leave the runners as they are.                               *)
(***************************************************************************)
Attached(b) == Runs(b) \/ WillRun(b)
Stopped == {"interrupt", "join", "idle?", "unmap"}

\* No body comes to work or to wait, none changes its runner, and none is dropped by who cancels it.
BodiesOnlyEnd ==
  \A b \in BodyIds :
    /\ body'[b].of = body[b].of
    /\ Working(b)' => Working(b)
    /\ body'[b].at = "pending" => body[b].at = "pending"
    /\ body[b].at = "unborn" <=> body'[b].at = "unborn"
    /\ (Working(b)' \/ body'[b].at = "pending") /\ BeingCancelled(b) => BeingCancelled(b)'

\* A caller goes on with its cancel, starts one of the runner in the map, or has no cancel.
PrompterGoesOn(p) ==
  /\ prompter'[p].on <= bodies /\ prompter'[p].then <= bodies /\ prompter'[p].since \in 0 .. bodies
  /\ prompter'[p].at # "away" => prompter'[p].with \in RunnerIds
  /\ prompter'[p].at \in {"awaiting", "shelling", "interrupt", "join"} => prompter'[p].on # NoBody
  /\ \/ prompter'[p].since = 0
     \/ prompter'[p].at = "cancel" /\ prompter'[p].with = mapped
     \/ /\ prompter'[p].since = prompter[p].since /\ prompter'[p].with = prompter[p].with
        /\ prompter'[p].at = "cancel" => prompter[p].at = "cancel"
        /\ prompter'[p].at \in Stopped => prompter[p].at \in Stopped

\* A runner of the map alone is busy in the next state too, unless that is noted.
LEMMA StrayIsNoted == NotesStray => OneRunner' /\ (strayed => strayed')
  BY DEF NotesStray, Stray, OneRunner, Tag

LEMMA RunnersStay ==
  ASSUME RunTypeOK, RunParts, UNCHANGED <<runner, bodies>>, NotesStray, BodiesOnlyEnd,
         \A p \in Prompters : PrompterGoesOn(p)
  PROVE  RunParts'
<1>0. bodies \in Nat /\ body \in [BodyIds -> BodyRecords] /\ runner \in [RunnerIds -> RunnerRecords]
  BY RunTypes
<1>1. IdsAreBorn'
  BY DEF RunParts, IdsAreBorn, BodiesOnlyEnd, PrompterGoesOn
<1>2. BusyRunners'
  <2>1. \A r \in RunnerIds : Tag(r)' = Tag(r)
    BY DEF Tag
  <2>2. \A r \in RunnerIds : Tag(r) = "ShellThenRun" => runner[r].then \in BodyIds
    BY <1>0 DEF RunParts, BusyRunners, RunnerRecords
  <2> QED
    BY <2>1, <2>2 DEF RunParts, BusyRunners, BodiesOnlyEnd
<1>3. PromptersHaveRunner'
  BY DEF PromptersHaveRunner, PrompterGoesOn
<1>4. \A b \in BodyIds : (Runs(b)' <=> Runs(b)) /\ (WillRun(b)' <=> WillRun(b))
  BY DEF Runs, WillRun, Tag, BodiesOnlyEnd
<1>5. NobodyForgotten'
  BY <1>4 DEF RunParts, NobodyForgotten, BodiesOnlyEnd
<1>6. OneRunner' /\ (strayed => strayed')
  BY StrayIsNoted
<1>7. CancelMeetsAll'
  <2> SUFFICES ASSUME ~strayed', NEW p \in Prompters, NEW b \in BodyIds, b <= prompter'[p].since, Attached(b)
               PROVE  /\ prompter'[p].at = "cancel" => body'[b].of = prompter'[p].with
                      /\ prompter'[p].at \notin Stopped
    BY <1>4 DEF CancelMeetsAll, Attached, Stopped
  <2>1. ~strayed /\ body'[b].of = body[b].of
    BY <1>6 DEF BodiesOnlyEnd
  <2>2. b > 0 /\ b \in Nat
    OBVIOUS
  <2>3. CASE prompter'[p].at = "cancel" /\ prompter'[p].with = mapped
    <3>1. b <= bodies
      <4>1. prompter'[p].since \in 0 .. bodies
        BY DEF PrompterGoesOn
      <4> QED
        BY <1>0, <2>2, <4>1
    <3>2. body[b].of \in RunnerIds /\ Tag(body[b].of) # "Idle"
      BY <3>1 DEF RunParts, IdsAreBorn, Attached, Runs, WillRun
    <3> QED
      BY <2>1, <2>3, <3>2 DEF RunParts, OneRunner, Stopped
  <2>4. CASE /\ prompter'[p].since = prompter[p].since /\ prompter'[p].with = prompter[p].with
             /\ prompter'[p].at = "cancel" => prompter[p].at = "cancel"
             /\ prompter'[p].at \in Stopped => prompter[p].at \in Stopped
    BY <2>1, <2>4 DEF RunParts, CancelMeetsAll, Attached, Stopped
  <2>5. prompter'[p].since # 0
    BY <2>2
  <2> QED
    BY <2>3, <2>4, <2>5 DEF PrompterGoesOn
<1> QED
  BY <1>1, <1>2, <1>3, <1>5, <1>6, <1>7 DEF RunParts

\* Who stays where it is, or leaves, goes on.
LEMMA SameGoesOn ==
  ASSUME RunTypeOK, RunParts, NEW p \in Prompters, prompter'[p] = prompter[p]
  PROVE  PrompterGoesOn(p)
<1>1. prompter[p] \in PrompterRecords /\ bodies \in Nat
  BY RunTypes
<1>2. prompter[p].since \in 0 .. bodies
  BY <1>1 DEF PrompterRecords, RunParts, IdsAreBorn
<1> QED
  BY <1>2 DEF RunParts, IdsAreBorn, PromptersHaveRunner, PrompterGoesOn

LEMMA AwayGoesOn ==
  ASSUME RunTypeOK, NEW p \in Prompters, prompter'[p] = Away
  PROVE  PrompterGoesOn(p)
<1>1. bodies \in Nat
  BY RunTypes
<1> QED
  BY <1>1 DEF PrompterGoesOn, Away

\* Bodies that nobody touches, and one that moves but not to work.
KeepsCancelling ==
  \A q \in Prompters : prompter[q].at \in {"interrupt", "join"} =>
    prompter'[q].at \in {"interrupt", "join"} /\ prompter'[q].on = prompter[q].on /\ prompter'[q].then = prompter[q].then

LEMMA CancellingKept == KeepsCancelling => \A b \in BodyIds : BeingCancelled(b) => BeingCancelled(b)'
  BY DEF KeepsCancelling, BeingCancelled

LEMMA BodiesAlone ==
  ASSUME body' = body, KeepsCancelling
  PROVE  BodiesOnlyEnd
  BY CancellingKept DEF BodiesOnlyEnd, Working

LEMMA OneBodyEnds ==
  ASSUME NEW b \in BodyIds, KeepsCancelling, body[b].at = "unborn" <=> body'[b].at = "unborn",
         body'[b].of = body[b].of, body'[b].at = "pending" => body[b].at = "pending", Working(b)' => Working(b),
         \A d \in BodyIds : d # b => body'[d] = body[d]
  PROVE  BodiesOnlyEnd
  BY CancellingKept DEF BodiesOnlyEnd, Working

\* The caller's own steps.
LEMMA GetKeeps ==
  ASSUME RunTypeOK, RunParts, NEW p \in Prompters, NEW call \in {"prompt", "shell"}, GetRunner(p, call)
  PROVE  RunTypeOK' /\ RunParts'
<1> DEFINE r == IF mapped # NoRunner THEN mapped ELSE runners + 1
<1>1. /\ prompter[p].at = "away" /\ r \in RunnerIds /\ mapped' = r
      /\ runners' = IF mapped # NoRunner THEN runners ELSE r
      /\ prompter' = [prompter EXCEPT ![p] = [Away EXCEPT !.at = call, !.with = r]]
      /\ UNCHANGED <<runner, bodies, body>> /\ NotesStray
  BY DEF GetRunner
<1> HIDE DEF r
<1> DEFINE now == [at |-> call, with |-> r, on |-> 0, then |-> 0, since |-> 0]
<1>2. [Away EXCEPT !.at = call, !.with = r] = now
  <2> DEFINE there == [at |-> call, with |-> 0, on |-> 0, then |-> 0, since |-> 0]
  <2>1. [Away EXCEPT !.at = call] = there
    BY DEF Away
  <2>2. [there EXCEPT !.with = r] = now
    OBVIOUS
  <2> HIDE DEF there, now
  <2> QED
    BY <2>1, <2>2
<1>3. now \in PrompterRecords
  BY <1>1 DEF PrompterRecords, PrompterPoints
<1>4. now.at = call /\ now.with = r /\ now.on = 0 /\ now.then = 0 /\ now.since = 0
  OBVIOUS
<1> HIDE DEF now
<1>5. /\ prompter' \in [Prompters -> PrompterRecords] /\ prompter'[p] = now
      /\ \A q \in Prompters : q # p => prompter'[q] = prompter[q]
  BY <1>1, <1>2, <1>3, PrompterBecomes
<1>6. runners' \in 0 .. 2 * MaxBodies /\ strayed' \in BOOLEAN
  BY <1>1, RunTypes DEF NotesStray
<1>7. RunTypeOK'
  BY <1>1, <1>5, <1>6, RunTypes DEF RunTypeOK, RunnerRecords, BodyRecords, PrompterRecords, BodyPoints, PrompterPoints
<1>8. bodies \in Nat
  BY RunTypes
<1>9. PrompterGoesOn(p)
  <2>1. /\ prompter'[p].at = call /\ prompter'[p].with = r /\ prompter'[p].on = 0
        /\ prompter'[p].then = 0 /\ prompter'[p].since = 0
    BY <1>4, <1>5
  <2>2. call \notin {"awaiting", "shelling", "interrupt", "join"}
    OBVIOUS
  <2>3. 0 \in 0 .. bodies /\ 0 <= bodies
    BY <1>8
  <2> QED
    BY <1>1, <2>1, <2>2, <2>3 DEF PrompterGoesOn
<1>10. \A q \in Prompters : PrompterGoesOn(q)
  BY <1>5, <1>9, SameGoesOn
<1>11. KeepsCancelling
  BY <1>1, <1>5 DEF KeepsCancelling
<1> QED
  BY <1>1, <1>7, <1>10, <1>11, BodiesAlone, RunnersStay

\* A step of one caller that only moves it, or sends it away.
LEMMA PrompterStep ==
  ASSUME RunTypeOK, RunParts, NEW p \in Prompters, UNCHANGED <<runners, runner, bodies, body>>, NotesStray,
         mapped' \in {mapped, NoRunner},
         prompter' \in [Prompters -> PrompterRecords], PrompterGoesOn(p),
         prompter[p].at \notin {"interrupt", "join"}, \A q \in Prompters : q # p => prompter'[q] = prompter[q]
  PROVE  RunTypeOK' /\ RunParts'
<1>1. strayed' \in BOOLEAN /\ mapped' \in RunnerIds \union {NoRunner}
  BY RunTypes DEF NotesStray
<1>2. RunTypeOK'
  BY <1>1, RunTypes DEF RunTypeOK, RunnerRecords, BodyRecords, PrompterRecords, BodyPoints, PrompterPoints
<1>3. \A q \in Prompters : PrompterGoesOn(q)
  BY SameGoesOn
<1>4. KeepsCancelling
  BY DEF KeepsCancelling
<1> QED
  BY <1>2, <1>3, <1>4, BodiesAlone, RunnersStay

LEMMA LeavingKeeps ==
  ASSUME RunTypeOK, RunParts, NEW p \in Prompters, UNCHANGED <<runners, runner, bodies, body>>, NotesStray,
         mapped' \in {mapped, NoRunner}, prompter[p].at \notin {"interrupt", "join"}, Leaves(p)
  PROVE  RunTypeOK' /\ RunParts'
<1>1. /\ prompter' \in [Prompters -> PrompterRecords] /\ prompter'[p] = Away
      /\ \A q \in Prompters : q # p => prompter'[q] = prompter[q]
  BY PrompterLeaves
<1>2. PrompterGoesOn(p)
  BY <1>1, AwayGoesOn
<1> QED
  BY <1>1, <1>2, PrompterStep

LEMMA CancelKeeps ==
  ASSUME RunTypeOK, RunParts, NEW p \in Prompters, Cancel(p)
  PROVE  RunTypeOK' /\ RunParts'
<1> DEFINE now == [at |-> "cancel", with |-> mapped, on |-> 0, then |-> 0, since |-> bodies]
<1>1. /\ prompter[p].at = "away" /\ mapped # NoRunner
      /\ prompter' = [prompter EXCEPT ![p] = now]
      /\ UNCHANGED <<mapped, runners, runner, bodies, body>> /\ NotesStray
  <2> DEFINE there == [at |-> "cancel", with |-> 0, on |-> 0, then |-> 0, since |-> 0]
             with == [at |-> "cancel", with |-> mapped, on |-> 0, then |-> 0, since |-> 0]
  <2>1. [Away EXCEPT !.at = "cancel"] = there
    BY DEF Away
  <2>2. [there EXCEPT !.with = mapped] = with
    OBVIOUS
  <2>3. [with EXCEPT !.since = bodies] = now
    OBVIOUS
  <2> HIDE DEF there, with, now
  <2> QED
    BY <2>1, <2>2, <2>3 DEF Cancel
<1>2. mapped \in RunnerIds /\ bodies \in 0 .. MaxBodies
  BY <1>1, RunTypes
<1>3. now \in PrompterRecords
  BY <1>2 DEF PrompterRecords, PrompterPoints
<1>4. now.at = "cancel" /\ now.with = mapped /\ now.on = 0 /\ now.then = 0 /\ now.since = bodies
  OBVIOUS
<1> HIDE DEF now
<1>5. /\ prompter' \in [Prompters -> PrompterRecords] /\ prompter'[p] = now
      /\ \A q \in Prompters : q # p => prompter'[q] = prompter[q]
  BY <1>1, <1>3, PrompterBecomes
<1>6. PrompterGoesOn(p)
  BY <1>1, <1>2, <1>4, <1>5 DEF PrompterGoesOn
<1> QED
  BY <1>1, <1>5, <1>6, PrompterStep

LEMMA IdlingKeeps ==
  ASSUME RunTypeOK, RunParts, NEW p \in Prompters, IdleIfCurrent(p) \/ UnmapRunner(p)
  PROVE  RunTypeOK' /\ RunParts'
<1>1. CASE IdleIfCurrent(p) /\ Tag(prompter[p].with) = "Idle"
  <2>1. prompter[p].at = "idle?" /\ Moves(p, "unmap") /\ UNCHANGED <<mapped, runners, runner, bodies, body>> /\ NotesStray
    BY <1>1 DEF IdleIfCurrent
  <2>2. "unmap" \in PrompterPoints
    BY DEF PrompterPoints
  <2>3. /\ prompter' \in [Prompters -> PrompterRecords]
        /\ prompter'[p].at = "unmap" /\ prompter'[p].with = prompter[p].with /\ prompter'[p].on = prompter[p].on
        /\ prompter'[p].then = prompter[p].then /\ prompter'[p].since = prompter[p].since
        /\ \A q \in Prompters : q # p => prompter'[q] = prompter[q]
    BY <2>1, <2>2, PrompterMoves
  <2>4. prompter[p] \in PrompterRecords /\ bodies \in Nat
    BY RunTypes
  <2>5. prompter[p].since \in 0 .. bodies
    BY <2>4 DEF PrompterRecords, RunParts, IdsAreBorn
  <2>6. PrompterGoesOn(p)
    BY <2>1, <2>3, <2>5 DEF PrompterGoesOn, RunParts, IdsAreBorn, PromptersHaveRunner, Stopped
  <2> QED
    BY <2>1, <2>3, <2>6, PrompterStep
<1>2. CASE IdleIfCurrent(p) /\ Tag(prompter[p].with) # "Idle"
  BY <1>2, LeavingKeeps DEF IdleIfCurrent
<1>3. CASE UnmapRunner(p)
  <2>1. prompter[p].at = "unmap" /\ mapped' = NoRunner /\ Leaves(p) /\ UNCHANGED <<runners, runner, bodies, body>> /\ NotesStray
    BY <1>3 DEF UnmapRunner
  <2> QED
    BY <2>1, LeavingKeeps
<1> QED
  BY <1>1, <1>2, <1>3

LEMMA JoiningKeeps ==
  ASSUME RunTypeOK, RunParts, NEW p \in Prompters, prompter[p].at = "prompt", NEW b \in 1 .. bodies,
         AwaitsBody(p, "awaiting", b), UNCHANGED <<mapped, runners, runner, bodies, body>>, NotesStray
  PROVE  RunTypeOK' /\ RunParts'
<1>1. bodies \in 0 .. MaxBodies /\ prompter[p] \in PrompterRecords
  BY RunTypes
<1>2. b \in 0 .. MaxBodies /\ "awaiting" \in PrompterPoints
  BY <1>1 DEF PrompterPoints
<1>3. /\ prompter' \in [Prompters -> PrompterRecords]
      /\ prompter'[p].at = "awaiting" /\ prompter'[p].with = prompter[p].with /\ prompter'[p].on = b
      /\ prompter'[p].then = prompter[p].then /\ prompter'[p].since = prompter[p].since
      /\ \A q \in Prompters : q # p => prompter'[q] = prompter[q]
  BY <1>2, PrompterAwaits
<1>4. prompter[p].since \in 0 .. bodies
  BY <1>1 DEF PrompterRecords, RunParts, IdsAreBorn
<1>5. PrompterGoesOn(p)
  BY <1>1, <1>3, <1>4 DEF PrompterGoesOn, RunParts, IdsAreBorn, PromptersHaveRunner, Stopped
<1> QED
  BY <1>3, <1>5, PrompterStep

\* Steps of a body, of who awaits it, and of who cancels it.
LEMMA BodyStep ==
  ASSUME RunTypeOK, RunParts, NEW b \in BodyIds, UNCHANGED <<runners, runner, bodies>>, NotesStray, mapped' \in {mapped, NoRunner},
         body' \in [BodyIds -> BodyRecords],
         body[b].at = "unborn" <=> body'[b].at = "unborn",
         body'[b].of = body[b].of, body'[b].at = "pending" => body[b].at = "pending", Working(b)' => Working(b),
         \A d \in BodyIds : d # b => body'[d] = body[d],
         KeepsCancelling, prompter' \in [Prompters -> PrompterRecords], \A p \in Prompters : PrompterGoesOn(p)
  PROVE  RunTypeOK' /\ RunParts'
<1>1. strayed' \in BOOLEAN /\ mapped' \in RunnerIds \union {NoRunner}
  BY RunTypes DEF NotesStray
<1>2. RunTypeOK'
  BY <1>1, RunTypes DEF RunTypeOK, RunnerRecords, BodyRecords, PrompterRecords, BodyPoints, PrompterPoints
<1> QED
  BY <1>2, OneBodyEnds, RunnersStay

LEMMA FiberKeeps ==
  ASSUME RunTypeOK, RunParts, NEW b \in BodyIds,
         BecomesReady(b) \/ Ends(b) \/ Unmaps(b) \/ Completes(b) \/ (Tells(b) /\ UNCHANGED runner)
  PROVE  RunTypeOK' /\ RunParts'
<1>1. body \in [BodyIds -> BodyRecords] /\ prompter \in [Prompters -> PrompterRecords]
  BY RunTypes
<1>2. UNCHANGED <<runners, runner, bodies, prompter>> /\ NotesStray /\ mapped' \in {mapped, NoRunner}
  BY DEF BecomesReady, Ends, Unmaps, Completes, Tells
<1>3. /\ body' \in [BodyIds -> BodyRecords] /\ body[b].at # "unborn" /\ body'[b].at # "unborn"
      /\ body'[b].of = body[b].of /\ body'[b].at # "pending" /\ (Working(b)' => Working(b))
      /\ \A d \in BodyIds : d # b => body'[d] = body[d]
  <2>1. CASE BecomesReady(b)
    <3>1. body[b].at = "preparing" /\ BodyMoves(b, "alive") /\ "alive" \in BodyPoints
      BY <2>1 DEF BecomesReady, BodyPoints
    <3> QED
      BY <3>1, BodyBecomes DEF Working
  <2>2. CASE Ends(b)
    <3> DEFINE done == IF body[b].at = "stopping" THEN "interrupted" ELSE body[b].done
               now == [kind |-> body[b].kind, of |-> body[b].of, at |-> "telling", done |-> done]
    <3> DEFINE there == [kind |-> body[b].kind, of |-> body[b].of, at |-> "telling", done |-> body[b].done]
    <3>3. [body[b] EXCEPT !.at = "telling"] = there /\ there.done = body[b].done
      BY <1>1 DEF BodyRecords
    <3>4. [there EXCEPT !.done = done] = now
      OBVIOUS
    <3> HIDE DEF there, now
    <3>1. body[b].at \in {"alive", "stopping"} /\ body' = [body EXCEPT ![b] = now]
      BY <1>1, <2>2, <3>3, <3>4 DEF Ends
    <3> USE DEF now
    <3>2. now \in BodyRecords /\ now.at = "telling" /\ now.of = body[b].of
      BY <1>1 DEF BodyRecords, BodyPoints
    <3> HIDE DEF now
    <3> QED
      BY <1>1, <3>1, <3>2 DEF Working
  <2>3. CASE Unmaps(b)
    <3>1. body[b].at = "unmapping" /\ BodyMoves(b, "completing") /\ "completing" \in BodyPoints
      BY <2>3 DEF Unmaps, BodyPoints
    <3> QED
      BY <3>1, BodyBecomes DEF Working
  <2>4. CASE Completes(b)
    <3> DEFINE done == IF body[b].done = "open" THEN "completed" ELSE "cancelled"
               now == [kind |-> body[b].kind, of |-> body[b].of, at |-> "ended", done |-> done]
    <3> DEFINE there == [kind |-> body[b].kind, of |-> body[b].of, at |-> "ended", done |-> body[b].done]
    <3>3. [body[b] EXCEPT !.at = "ended"] = there /\ there.done = body[b].done
      BY <1>1 DEF BodyRecords
    <3>4. [there EXCEPT !.done = done] = now
      OBVIOUS
    <3> HIDE DEF there, now
    <3>1. body[b].at = "completing" /\ body' = [body EXCEPT ![b] = now]
      BY <1>1, <2>4, <3>3, <3>4 DEF Completes
    <3> USE DEF now
    <3>2. now \in BodyRecords /\ now.at = "ended" /\ now.of = body[b].of
      BY <1>1 DEF BodyRecords, BodyPoints
    <3> HIDE DEF now
    <3> QED
      BY <1>1, <3>1, <3>2 DEF Working
  <2>5. CASE Tells(b) /\ UNCHANGED runner
    <3>1. body[b].at = "telling"
      BY <2>5 DEF Tells
    <3>2. CASE BodyMoves(b, "completing")
      <4>1. "completing" \in BodyPoints
        BY DEF BodyPoints
      <4> QED
        BY <3>1, <3>2, <4>1, BodyBecomes DEF Working
    <3>3. CASE ~BodyMoves(b, "completing")
      <4>1. \/ SetRunner(body[b].of, "Idle", NoBody, NoBody) /\ Tag(body[b].of) # "Idle"
            \/ SetRunner(body[b].of, "Running", runner[body[b].of].then, NoBody) /\ Tag(body[b].of) # "Running"
        BY <2>5, <3>3 DEF Tells, RunsNow, ShellsNow
      <4>2. body[b].of \in RunnerIds
        BY <3>1 DEF RunParts, IdsAreBorn
      <4>3. runner'[body[b].of].tag # runner[body[b].of].tag
        BY <1>1, <4>1, <4>2, RunTypes DEF SetRunner, Tag
      <4> QED
        BY <2>5, <4>3
    <3> QED
      BY <3>2, <3>3
  <2> QED
    BY <2>1, <2>2, <2>3, <2>4, <2>5
<1>4. KeepsCancelling /\ \A p \in Prompters : PrompterGoesOn(p)
  BY <1>2, SameGoesOn DEF KeepsCancelling
<1> QED
  BY <1>1, <1>2, <1>3, <1>4, BodyStep

\* An awaited, interrupted or joined body is one.
LEMMA OnIsBody ==
  ASSUME RunTypeOK, RunParts, NEW p \in Prompters, prompter[p].at \in {"awaiting", "shelling", "interrupt", "join"}
  PROVE  prompter[p].on \in BodyIds
<1>1. prompter[p] \in PrompterRecords
  BY RunTypes
<1> QED
  BY <1>1 DEF PrompterRecords, RunParts, PromptersHaveRunner

LEMMA GivingUpKeeps ==
  ASSUME RunTypeOK, RunParts, NEW p \in Prompters, Answered(p) \/ GivesUp(p)
  PROVE  RunTypeOK' /\ RunParts'
<1>1. CASE Answered(p) \/ (GivesUp(p) /\ UNCHANGED body)
  <2>1. prompter[p].at \in {"awaiting", "shelling"} /\ Leaves(p) /\ UNCHANGED <<mapped, runners, runner, bodies, body>> /\ NotesStray
    BY <1>1 DEF Answered, GivesUp
  <2> QED
    BY <2>1, LeavingKeeps
<1>2. CASE GivesUp(p) /\ ~UNCHANGED body
  <2>1. prompter[p].at = "shelling" /\ body' = Interrupted(prompter[p].on) /\ Leaves(p)
        /\ UNCHANGED <<mapped, runners, runner, bodies>> /\ NotesStray
    BY <1>2 DEF GivesUp
  <2>2. PICK b \in BodyIds : b = prompter[p].on
    BY <2>1, OnIsBody
  <2>3. /\ body' \in [BodyIds -> BodyRecords] /\ body'[b].of = body[b].of
        /\ body[b].at = "alive" => body'[b].at = "stopping"
        /\ body[b].at # "alive" => body'[b].at = body[b].at
        /\ \A d \in BodyIds : d # b => body'[d] = body[d]
    BY <2>1, <2>2, BodyInterrupted
  <2>4. /\ prompter' \in [Prompters -> PrompterRecords] /\ prompter'[p] = Away
        /\ \A q \in Prompters : q # p => prompter'[q] = prompter[q]
    BY <2>1, PrompterLeaves
  <2>5. KeepsCancelling /\ \A q \in Prompters : PrompterGoesOn(q)
    BY <2>1, <2>4, SameGoesOn, AwayGoesOn DEF KeepsCancelling
  <2>6. Working(b)' => Working(b)
    BY <2>3 DEF Working
  <2> QED
    BY <2>1, <2>2, <2>3, <2>4, <2>5, <2>6, BodyStep
<1> QED
  BY <1>1, <1>2

LEMMA InterruptingKeeps ==
  ASSUME RunTypeOK, RunParts, NEW p \in Prompters, InterruptBody(p)
  PROVE  RunTypeOK' /\ RunParts'
<1>1. prompter[p].at = "interrupt" /\ body' = Interrupted(prompter[p].on) /\ Moves(p, "join")
      /\ UNCHANGED <<mapped, runners, runner, bodies>> /\ NotesStray
  BY DEF InterruptBody
<1>2. PICK b \in BodyIds : b = prompter[p].on /\ "join" \in PrompterPoints
  BY <1>1, OnIsBody DEF PrompterPoints
<1>3. /\ body' \in [BodyIds -> BodyRecords] /\ body'[b].of = body[b].of
      /\ body[b].at = "alive" => body'[b].at = "stopping"
      /\ body[b].at # "alive" => body'[b].at = body[b].at
      /\ \A d \in BodyIds : d # b => body'[d] = body[d]
  BY <1>1, <1>2, BodyInterrupted
<1>4. /\ prompter' \in [Prompters -> PrompterRecords]
      /\ prompter'[p].at = "join" /\ prompter'[p].with = prompter[p].with /\ prompter'[p].on = prompter[p].on
      /\ prompter'[p].then = prompter[p].then /\ prompter'[p].since = prompter[p].since
      /\ \A q \in Prompters : q # p => prompter'[q] = prompter[q]
  BY <1>1, <1>2, PrompterMoves
<1>5. prompter[p].since \in 0 .. bodies
  <2>1. prompter[p] \in PrompterRecords /\ bodies \in Nat
    BY RunTypes
  <2> QED
    BY <2>1 DEF PrompterRecords, RunParts, IdsAreBorn
<1>6. PrompterGoesOn(p)
  BY <1>1, <1>4, <1>5 DEF PrompterGoesOn, RunParts, IdsAreBorn, PromptersHaveRunner, Stopped
<1>7. KeepsCancelling /\ \A q \in Prompters : PrompterGoesOn(q)
  BY <1>1, <1>4, <1>6, SameGoesOn DEF KeepsCancelling
<1>8. Working(b)' => Working(b)
  BY <1>3 DEF Working
<1> QED
  BY <1>1, <1>2, <1>3, <1>4, <1>7, <1>8, BodyStep

\* A cancel that has joined its body lets go of it, which has ended, and of the run behind, which it ends.
LEMMA JoinKeeps ==
  ASSUME RunTypeOK, RunParts, NEW p \in Prompters, JoinBody(p)
  PROVE  RunTypeOK' /\ RunParts'
<1> DEFINE next == prompter[p].then
<1> DEFINE on == prompter[p].on
<1>1. /\ prompter[p].at = "join" /\ body[on].at = "ended" /\ Moves(p, "idle?")
      /\ body' = IF next = NoBody THEN body ELSE [body EXCEPT ![next].at = "ended", ![next].done = "cancelled"]
      /\ UNCHANGED <<mapped, runners, runner, bodies>> /\ NotesStray
  BY DEF JoinBody
<1>2. on \in BodyIds /\ "idle?" \in PrompterPoints
  BY <1>1, OnIsBody DEF PrompterPoints
<1>3. body \in [BodyIds -> BodyRecords] /\ prompter[p] \in PrompterRecords /\ bodies \in 0 .. MaxBodies
  BY RunTypes
<1>4. /\ prompter' \in [Prompters -> PrompterRecords]
      /\ prompter'[p].at = "idle?" /\ prompter'[p].with = prompter[p].with /\ prompter'[p].on = prompter[p].on
      /\ prompter'[p].then = prompter[p].then /\ prompter'[p].since = prompter[p].since
      /\ \A q \in Prompters : q # p => prompter'[q] = prompter[q]
  BY <1>1, <1>2, PrompterMoves
<1>5. next \in 0 .. MaxBodies /\ next <= bodies
  BY <1>3 DEF PrompterRecords, RunParts, IdsAreBorn
<1>6. /\ body' \in [BodyIds -> BodyRecords]
      /\ next # NoBody => next \in BodyIds /\ body'[next].at = "ended" /\ body'[next].of = body[next].of
      /\ \A d \in BodyIds : d # next => body'[d] = body[d]
  <2>1. CASE next = NoBody
    BY <1>1, <1>3, <2>1
  <2>2. CASE next # NoBody
    <3>1. next \in BodyIds
      BY <1>5, <2>2
    <3> DEFINE there == [kind |-> body[next].kind, of |-> body[next].of, at |-> "ended", done |-> body[next].done]
               now == [kind |-> body[next].kind, of |-> body[next].of, at |-> "ended", done |-> "cancelled"]
    <3>2. [body[next] EXCEPT !.at = "ended"] = there
      BY <1>3, <3>1 DEF BodyRecords
    <3>3. [there EXCEPT !.done = "cancelled"] = now
      OBVIOUS
    <3>4. now \in BodyRecords /\ now.at = "ended" /\ now.of = body[next].of
      BY <1>3, <3>1 DEF BodyRecords, BodyPoints
    <3> HIDE DEF there, now
    <3>5. body' = [body EXCEPT ![next] = now]
      BY <1>1, <1>3, <2>2, <3>1, <3>2, <3>3
    <3> QED
      BY <1>3, <3>1, <3>4, <3>5
  <2> QED
    BY <2>1, <2>2
<1>7. next # NoBody => body[next].at # "unborn"
  BY <1>5, <1>6 DEF RunParts, IdsAreBorn
<1>8. prompter[p].since \in 0 .. bodies
  BY <1>3 DEF PrompterRecords, RunParts, IdsAreBorn
<1>9. PrompterGoesOn(p)
  BY <1>1, <1>4, <1>8 DEF PrompterGoesOn, RunParts, IdsAreBorn, PromptersHaveRunner, Stopped
<1>10. \A q \in Prompters : PrompterGoesOn(q)
  BY <1>4, <1>9, SameGoesOn
<1>11. BodiesOnlyEnd
  <2> SUFFICES ASSUME NEW d \in BodyIds
               PROVE  /\ body'[d].of = body[d].of
                      /\ Working(d)' => Working(d)
                      /\ body'[d].at = "pending" => body[d].at = "pending"
                      /\ body[d].at = "unborn" <=> body'[d].at = "unborn"
                      /\ (Working(d)' \/ body'[d].at = "pending") /\ BeingCancelled(d) => BeingCancelled(d)'
    BY DEF BodiesOnlyEnd
  <2>1. CASE d = next
    BY <1>6, <1>7, <2>1 DEF Working
  <2>2. CASE d # next
    <3>1. body'[d] = body[d]
      BY <1>6, <2>2
    <3>2. CASE d = on
      BY <1>1, <3>1, <3>2 DEF Working
    <3>3. CASE d # on
      <4> SUFFICES ASSUME BeingCancelled(d) PROVE BeingCancelled(d)'
        BY <3>1 DEF Working
      <4>1. PICK q \in Prompters : prompter[q].at \in {"interrupt", "join"} /\ (prompter[q].on = d \/ prompter[q].then = d)
        BY DEF BeingCancelled
      <4>2. q # p
        BY <2>2, <3>3, <4>1
      <4> QED
        BY <1>4, <4>1, <4>2 DEF BeingCancelled
    <3> QED
      BY <3>2, <3>3
  <2> QED
    BY <2>1, <2>2
<1>12. strayed' \in BOOLEAN
  BY <1>1, RunTypes DEF NotesStray
<1>13. RunTypeOK'
  BY <1>1, <1>4, <1>6, <1>12, RunTypes DEF RunTypeOK, RunnerRecords, BodyRecords, PrompterRecords, BodyPoints, PrompterPoints
<1> QED
  BY <1>1, <1>10, <1>11, <1>13, RunnersStay

-----------------------------------------------------------------------------
(***************************************************************************)
(* Steps that change a runner: a body is started, one ends, or a cancel    *)
(* stops it.                                                               *)
(***************************************************************************)
\* The runner that starts a body was idle, or runs a shell: the body is its current one, or its next.
LEMMA StartingKeeps ==
  ASSUME RunTypeOK, RunParts, NEW p \in Prompters, prompter[p].at \in {"prompt", "shell"},
         NEW r \in RunnerIds,
         NEW kind \in {"run", "shell"}, NEW at \in {"pending", "preparing", "alive"}, NewBody(kind, r, at),
         NEW tag \in {"Running", "Shell", "ShellThenRun"}, NEW runs \in 0 .. MaxBodies, NEW then \in 0 .. MaxBodies,
         SetRunner(r, tag, runs, then),
         NEW point \in {"awaiting", "shelling"}, AwaitsBody(p, point, bodies + 1),
         \/ Tag(r) = "Idle" /\ tag # "ShellThenRun" /\ runs = bodies + 1 /\ then = NoBody /\ at # "pending"
         \/ Tag(r) = "Shell" /\ tag = "ShellThenRun" /\ runs = runner[r].runs /\ then = bodies + 1 /\ at = "pending",
         UNCHANGED <<mapped, runners>>, NotesStray
  PROVE  RunTypeOK' /\ RunParts'
<1>0. /\ body' \in [BodyIds -> BodyRecords] /\ bodies + 1 \in BodyIds /\ bodies' = bodies + 1 /\ bodies' \in 0 .. MaxBodies
      /\ bodies \in Nat
      /\ body'[bodies + 1].of = r /\ body'[bodies + 1].at = at
      /\ \A d \in BodyIds : d # bodies + 1 => body'[d] = body[d]
  <2>1. at \in BodyPoints
    BY DEF BodyPoints
  <2> QED
    BY <2>1, BodyIsNew
<1>5. PICK n \in BodyIds : n = bodies + 1
  BY <1>0
<1>1. /\ body' \in [BodyIds -> BodyRecords] /\ bodies' = n /\ bodies' \in 0 .. MaxBodies
      /\ bodies \in Nat
      /\ body'[n].of = r /\ body'[n].at = at
      /\ \A d \in BodyIds : d # n => body'[d] = body[d]
  BY <1>0, <1>5
<1>01. /\ runner' \in [RunnerIds -> RunnerRecords]
       /\ runner'[r].tag = tag /\ runner'[r].runs = runs /\ runner'[r].then = then
       /\ \A q \in RunnerIds : q # r => runner'[q] = runner[q]
  <2>1. tag \in {"Idle", "Running", "Shell", "ShellThenRun"}
    OBVIOUS
  <2> QED
    BY <2>1, RunnerBecomes
<1>2. /\ runner' \in [RunnerIds -> RunnerRecords]
      /\ Tag(r)' = tag /\ runner'[r].runs = runs /\ runner'[r].then = then
      /\ \A q \in RunnerIds : q # r => runner'[q] = runner[q]
  BY <1>01 DEF Tag
<1>3. /\ prompter' \in [Prompters -> PrompterRecords]
      /\ prompter'[p].at = point /\ prompter'[p].with = prompter[p].with /\ prompter'[p].on = n
      /\ prompter'[p].then = prompter[p].then /\ prompter'[p].since = prompter[p].since
      /\ \A q \in Prompters : q # p => prompter'[q] = prompter[q]
  <2>1. point \in PrompterPoints /\ bodies + 1 \in 0 .. MaxBodies
    BY <1>0 DEF PrompterPoints
  <2> QED
    BY <1>5, <2>1, PrompterAwaits
<1>4. \/ Tag(r) = "Idle" /\ tag # "ShellThenRun" /\ runs = n /\ then = NoBody /\ at # "pending"
      \/ Tag(r) = "Shell" /\ tag = "ShellThenRun" /\ runs = runner[r].runs /\ then = n /\ at = "pending"
  BY <1>5
<1>6. n \in Nat /\ bodies < n /\ \A m \in Nat : m <= bodies => m # n /\ m <= n
  BY <1>1, <1>5
<1>7. /\ \A q \in RunnerIds : runner[q].runs \in Nat /\ runner[q].then \in Nat
      /\ \A q \in Prompters : prompter[q].on \in Nat /\ prompter[q].then \in Nat /\ prompter[q].since \in Nat
      /\ \A d \in BodyIds : d \in Nat
  <2>1. (\A q \in RunnerIds : runner[q] \in RunnerRecords) /\ (\A q \in Prompters : prompter[q] \in PrompterRecords)
    BY RunTypes
  <2> QED
    BY <2>1 DEF RunnerRecords, PrompterRecords
<1>8. strayed' \in BOOLEAN
  BY RunTypes DEF NotesStray
<1>9. RunTypeOK'
  BY <1>1, <1>2, <1>3, <1>8, RunTypes DEF RunTypeOK, RunnerRecords, BodyRecords, PrompterRecords, BodyPoints, PrompterPoints
<1>10. IdsAreBorn'
  <2>1. \A b \in BodyIds : IF b <= n THEN body'[b].of \in RunnerIds /\ body'[b].at # "unborn" ELSE body'[b].at = "unborn"
    <3> SUFFICES ASSUME NEW b \in BodyIds
                 PROVE  IF b <= n THEN body'[b].of \in RunnerIds /\ body'[b].at # "unborn" ELSE body'[b].at = "unborn"
      OBVIOUS
    <3>1. CASE b = n
      BY <1>1, <1>6, <3>1
    <3>2. CASE b # n
      <4>1. body'[b] = body[b] /\ (b <= n <=> b <= bodies)
        BY <1>1, <1>5, <1>7, <3>2
      <4> QED
        BY <4>1 DEF RunParts, IdsAreBorn
    <3> QED
      BY <3>1, <3>2
  <2>2. \A q \in RunnerIds : runner'[q].runs <= n /\ runner'[q].then <= n
    <3>1. \A q \in RunnerIds : runner[q].runs <= n /\ runner[q].then <= n
      BY <1>6, <1>7 DEF RunParts, IdsAreBorn
    <3>2. runs <= n /\ then <= n
      BY <1>4, <1>6, <3>1
    <3> QED
      BY <1>2, <3>1, <3>2
  <2>3. \A q \in Prompters : prompter'[q].on <= n /\ prompter'[q].then <= n /\ prompter'[q].since <= n
    <3>1. \A q \in Prompters : prompter[q].on <= n /\ prompter[q].then <= n /\ prompter[q].since <= n
      BY <1>6, <1>7 DEF RunParts, IdsAreBorn
    <3> QED
      BY <1>3, <1>6, <3>1
  <2> QED
    BY <1>1, <2>1, <2>2, <2>3 DEF IdsAreBorn
<1>11. \A q \in RunnerIds : q # r => Tag(q)' = Tag(q) /\ runner'[q] = runner[q]
  BY <1>2 DEF Tag
<1>12. BusyRunners'
  <2>1. Tag(r) = "Shell" => runner[r].runs # NoBody
    BY DEF RunParts, BusyRunners
  <2>2. \A q \in RunnerIds : q # r /\ Tag(q) = "ShellThenRun" =>
           runner[q].then \in BodyIds /\ runner[q].then # n /\ runner[q].then # NoBody /\ body[runner[q].then].of = q
    <3>1. \A q \in RunnerIds : runner[q] \in RunnerRecords
      BY RunTypes
    <3> QED
      BY <1>6, <1>7, <3>1 DEF RunParts, IdsAreBorn, BusyRunners, RunnerRecords
  <2>3. n # NoBody
    BY <1>1
  <2>4. Tag(r)' # "Idle" => runs # NoBody
    BY <1>4, <2>1, <2>3
  <2>5. Tag(r)' = "ShellThenRun" => then # NoBody /\ body'[then].of = r
    BY <1>1, <1>2, <1>4, <2>3
  <2> SUFFICES ASSUME NEW q \in RunnerIds
               PROVE  /\ Tag(q)' # "Idle" => runner'[q].runs # NoBody
                      /\ Tag(q)' = "ShellThenRun" => runner'[q].then # NoBody /\ body'[runner'[q].then].of = q
    BY DEF BusyRunners
  <2>6. CASE q = r
    BY <1>2, <2>4, <2>5, <2>6
  <2>7. CASE q # r
    <3>1. Tag(q)' = Tag(q) /\ runner'[q] = runner[q]
      BY <1>11, <2>7
    <3>2. Tag(q) # "Idle" => runner[q].runs # NoBody
      BY DEF RunParts, BusyRunners
    <3>3. Tag(q) = "ShellThenRun" => body'[runner[q].then] = body[runner[q].then]
      BY <1>1, <2>2, <2>7
    <3> QED
      BY <2>2, <2>7, <3>1, <3>2, <3>3
  <2> QED
    BY <2>6, <2>7
<1>13. PromptersHaveRunner'
  <2>1. n # NoBody
    BY <1>1
  <2> QED
    BY <1>3, <2>1 DEF RunParts, PromptersHaveRunner
<1>14. \A d \in BodyIds : d <= bodies =>
         /\ body'[d] = body[d] /\ d # n
         /\ Runs(d)' <=> Runs(d)
         /\ WillRun(d)' <=> WillRun(d)
  <2> SUFFICES ASSUME NEW d \in BodyIds, d <= bodies
               PROVE  /\ body'[d] = body[d] /\ d # n
                      /\ Runs(d)' <=> Runs(d)
                      /\ WillRun(d)' <=> WillRun(d)
    OBVIOUS
  <2>1. d # n /\ body'[d] = body[d] /\ body[d].of \in RunnerIds
    BY <1>1, <1>6, <1>7 DEF RunParts, IdsAreBorn
  <2>2. CASE body[d].of # r
    BY <1>11, <2>1, <2>2 DEF Runs, WillRun
  <2>3. CASE body[d].of = r
    BY <1>2, <1>4, <2>1, <2>3 DEF Runs, WillRun
  <2> QED
    BY <2>1, <2>2, <2>3
<1>15. \A d \in BodyIds : BeingCancelled(d) => BeingCancelled(d)'
  BY <1>3 DEF BeingCancelled
<1>16. NobodyForgotten'
  <2> SUFFICES ASSUME NEW d \in BodyIds
               PROVE  /\ Working(d)' => Runs(d)' \/ BeingCancelled(d)'
                      /\ body'[d].at = "pending" => WillRun(d)' \/ BeingCancelled(d)'
    BY DEF NobodyForgotten
  <2>1. CASE d = n
    <3>1. Working(n)' => Runs(n)'
      BY <1>1, <1>2, <1>4 DEF Working, Runs
    <3>2. body'[n].at = "pending" => WillRun(n)'
      BY <1>1, <1>2, <1>4 DEF WillRun
    <3> QED
      BY <2>1, <3>1, <3>2
  <2>2. CASE d # n /\ d <= bodies
    BY <1>14, <1>15, <2>2 DEF RunParts, NobodyForgotten, Working
  <2>3. CASE d # n /\ ~(d <= bodies)
    <3>1. body'[d].at = "unborn"
      BY <1>1, <2>3 DEF RunParts, IdsAreBorn
    <3> QED
      BY <3>1 DEF Working
  <2> QED
    BY <2>1, <2>2, <2>3
<1>17. OneRunner' /\ (strayed => strayed')
  BY StrayIsNoted
<1>18. CancelMeetsAll'
  <2> SUFFICES ASSUME ~strayed', NEW q \in Prompters, NEW b \in BodyIds, b <= prompter'[q].since, Runs(b)' \/ WillRun(b)'
               PROVE  /\ prompter'[q].at = "cancel" => body'[b].of = prompter'[q].with
                      /\ prompter'[q].at \notin {"interrupt", "join", "idle?", "unmap"}
    BY DEF CancelMeetsAll
  <2>1. prompter'[q].since = prompter[q].since /\ prompter[q].since <= bodies
    BY <1>3 DEF RunParts, IdsAreBorn
  <2>2. b <= bodies
    BY <1>1, <1>7, <2>1
  <2>3. body'[b] = body[b] /\ (Runs(b) \/ WillRun(b))
    BY <1>14, <2>2
  <2>4. CASE q = p
    BY <1>3, <2>4
  <2>5. CASE q # p
    BY <1>3, <1>17, <2>1, <2>3, <2>5 DEF RunParts, CancelMeetsAll
  <2> QED
    BY <2>4, <2>5
<1> QED
  BY <1>9, <1>10, <1>12, <1>13, <1>16, <1>17, <1>18 DEF RunParts

\* Prompts and shells.
LEMMA CallsKeep ==
  ASSUME RunTypeOK, RunParts, NEW p \in Prompters, EnsureRunning(p) \/ StartShell(p)
  PROVE  RunTypeOK' /\ RunParts'
<1> DEFINE r == prompter[p].with
<1>1. prompter[p].at \in {"prompt", "shell"} /\ UNCHANGED <<mapped, runners>> /\ NotesStray
  BY DEF EnsureRunning, StartShell
<1>2. r \in RunnerIds
  BY <1>1 DEF RunParts, PromptersHaveRunner
<1>3. runner[r] \in RunnerRecords /\ bodies \in Nat
  BY <1>2, RunTypes
<1>4. runner[r].runs <= bodies /\ runner[r].then <= bodies /\ (Tag(r) # "Idle" => runner[r].runs # NoBody)
      /\ (Tag(r) = "ShellThenRun" => runner[r].then # NoBody)
  BY <1>2 DEF RunParts, IdsAreBorn, BusyRunners
<1>5. Tag(r) # "Idle" => runner[r].runs \in 1 .. bodies
  BY <1>3, <1>4 DEF RunnerRecords
<1>6. Tag(r) = "ShellThenRun" => runner[r].then \in 1 .. bodies
  BY <1>3, <1>4 DEF RunnerRecords
<1>7. CASE EnsureRunning(p)
  <2>1. CASE Tag(r) = "Running" /\ AwaitsBody(p, "awaiting", runner[r].runs) /\ UNCHANGED <<runner, bodies, body>>
    BY <1>1, <1>5, <1>7, <2>1, JoiningKeeps DEF EnsureRunning
  <2>2. CASE Tag(r) = "ShellThenRun" /\ AwaitsBody(p, "awaiting", runner[r].then) /\ UNCHANGED <<runner, bodies, body>>
    BY <1>1, <1>6, <1>7, <2>2, JoiningKeeps DEF EnsureRunning
  <2>3. CASE /\ Tag(r) = "Shell" /\ NewBody("run", r, "pending")
             /\ SetRunner(r, "ShellThenRun", runner[r].runs, bodies + 1) /\ AwaitsBody(p, "awaiting", bodies + 1)
    <3>1. runner[r].runs \in 0 .. MaxBodies
      BY <1>3 DEF RunnerRecords
    <3>2. bodies + 1 \in 0 .. MaxBodies
      BY <1>3, <2>3 DEF NewBody
    <3> HIDE DEF r
    <3> QED
      BY <1>1, <1>2, <2>3, <3>1, <3>2, StartingKeeps
  <2>4. CASE /\ Tag(r) = "Idle" /\ NewBody("run", r, "alive")
             /\ SetRunner(r, "Running", bodies + 1, NoBody) /\ AwaitsBody(p, "awaiting", bodies + 1)
    <3>1. bodies + 1 \in 0 .. MaxBodies
      BY <1>3, <2>4 DEF NewBody
    <3>2. NoBody \in 0 .. MaxBodies
      OBVIOUS
    <3> HIDE DEF r
    <3> QED
      BY <1>1, <1>2, <2>4, <3>1, <3>2, StartingKeeps
  <2> QED
    BY <1>7, <2>1, <2>2, <2>3, <2>4 DEF EnsureRunning
<1>8. CASE StartShell(p) /\ Tag(r) # "Idle"
  <2>1. Leaves(p) /\ UNCHANGED <<runner, bodies, body>>
    BY <1>8 DEF StartShell
  <2> QED
    BY <1>1, <2>1, LeavingKeeps
<1>9. CASE StartShell(p) /\ Tag(r) = "Idle"
  <2>1. /\ NewBody("shell", r, "preparing") /\ SetRunner(r, "Shell", bodies + 1, NoBody)
        /\ AwaitsBody(p, "shelling", bodies + 1)
    BY <1>9 DEF StartShell
  <2>2. bodies + 1 \in 0 .. MaxBodies
    BY <1>3, <2>1 DEF NewBody
  <2>3. NoBody \in 0 .. MaxBodies
    OBVIOUS
  <2> HIDE DEF r
  <2> QED
    BY <1>1, <1>2, <1>9, <2>1, <2>2, <2>3, StartingKeeps
<1> QED
  BY <1>7, <1>8, <1>9

\* A runner falls idle, or goes on to the run behind its shell; nothing is started.
Falls(r) ==
  /\ r \in RunnerIds /\ Tag(r) # "Idle" /\ runner' \in [RunnerIds -> RunnerRecords]
  /\ \A q \in RunnerIds : q # r => runner'[q] = runner[q]
  /\ \/ runner'[r].tag = "Idle" /\ runner'[r].runs = NoBody
     \/ runner'[r].tag = "Running" /\ Tag(r) = "ShellThenRun" /\ runner'[r].runs = runner[r].then
  /\ runner'[r].then = NoBody
  /\ \A b \in BodyIds : body'[b].of = body[b].of /\ (body'[b].at = "unborn" <=> body[b].at = "unborn")

\* A caller stays with its runner; who goes from its cancel on has let this one fall.
FollowsFall(p, r) ==
  /\ prompter'[p].since = prompter[p].since /\ prompter'[p].with = prompter[p].with
  /\ prompter'[p].on <= bodies /\ prompter'[p].then <= bodies
  /\ prompter'[p].at # "away" => prompter'[p].with \in RunnerIds
  /\ prompter'[p].at \in {"awaiting", "shelling", "interrupt", "join"} => prompter'[p].on # NoBody
  /\ prompter'[p].at = "cancel" => prompter[p].at = "cancel"
  /\ prompter'[p].at \in Stopped =>
       prompter[p].at \in Stopped \/ (prompter[p].at = "cancel" /\ prompter[p].with = r /\ runner'[r].tag = "Idle")

LEMMA OthersRunOn ==
  ASSUME RunTypeOK, RunParts, NEW r \in RunnerIds, Falls(r), NEW d \in BodyIds, d <= bodies, body[d].of # r
  PROVE  (Runs(d)' <=> Runs(d)) /\ (WillRun(d)' <=> WillRun(d))
<1>1. body[d].of \in RunnerIds /\ body'[d].of = body[d].of
  BY DEF RunParts, IdsAreBorn, Falls
<1>2. runner'[body[d].of] = runner[body[d].of]
  BY <1>1 DEF Falls
<1> QED
  BY <1>1, <1>2 DEF Runs, WillRun, Tag

LEMMA FallKeeps ==
  ASSUME RunTypeOK, RunParts, NEW r \in RunnerIds, Falls(r), \A p \in Prompters : FollowsFall(p, r),
         UNCHANGED bodies, NotesStray
  PROVE  IdsAreBorn' /\ BusyRunners' /\ PromptersHaveRunner' /\ OneRunner' /\ CancelMeetsAll'
<1>1. bodies \in 0 .. MaxBodies /\ runner \in [RunnerIds -> RunnerRecords]
  BY RunTypes
<1>2. IdsAreBorn'
  <2>1. \A b \in BodyIds : IF b <= bodies THEN body'[b].of \in RunnerIds /\ body'[b].at # "unborn" ELSE body'[b].at = "unborn"
    BY DEF RunParts, IdsAreBorn, Falls
  <2>2. \A q \in RunnerIds : runner'[q].runs <= bodies /\ runner'[q].then <= bodies
    <3>1. runner'[r].runs <= bodies /\ runner'[r].then <= bodies
      BY <1>1 DEF RunParts, IdsAreBorn, Falls
    <3>2. \A q \in RunnerIds : q # r => runner'[q].runs <= bodies /\ runner'[q].then <= bodies
      BY DEF RunParts, IdsAreBorn, Falls
    <3> QED
      BY <3>1, <3>2
  <2>3. \A p \in Prompters : prompter'[p].on <= bodies /\ prompter'[p].then <= bodies /\ prompter'[p].since <= bodies
    BY DEF RunParts, IdsAreBorn, FollowsFall
  <2> QED
    BY <2>1, <2>2, <2>3 DEF IdsAreBorn
<1>3. BusyRunners'
  <2> SUFFICES ASSUME NEW q \in RunnerIds
               PROVE  /\ Tag(q)' # "Idle" => runner'[q].runs # NoBody
                      /\ Tag(q)' = "ShellThenRun" => runner'[q].then # NoBody /\ body'[runner'[q].then].of = q
    BY DEF BusyRunners
  <2>1. CASE q = r
    <3>1. Tag(r) = "ShellThenRun" => runner[r].then # NoBody
      BY DEF RunParts, BusyRunners
    <3> QED
      BY <2>1, <3>1 DEF Falls, Tag
  <2>2. CASE q # r
    <3>1. Tag(q)' = Tag(q) /\ runner'[q] = runner[q]
      BY <2>2 DEF Falls, Tag
    <3>2. Tag(q) # "Idle" => runner[q].runs # NoBody
      BY DEF RunParts, BusyRunners
    <3>3. Tag(q) = "ShellThenRun" => runner[q].then # NoBody /\ body[runner[q].then].of = q
      BY DEF RunParts, BusyRunners
    <3>4. Tag(q) = "ShellThenRun" => runner[q].then \in BodyIds
      <4>1. runner[q] \in RunnerRecords
        BY <1>1
      <4> QED
        BY <3>3, <4>1 DEF RunnerRecords
    <3>5. Tag(q) = "ShellThenRun" => body'[runner[q].then].of = body[runner[q].then].of
      BY <3>4 DEF Falls
    <3> QED
      BY <3>1, <3>2, <3>3, <3>5
  <2> QED
    BY <2>1, <2>2
<1>4. PromptersHaveRunner'
  BY DEF PromptersHaveRunner, FollowsFall
<1>5. OneRunner' /\ (strayed => strayed')
  BY StrayIsNoted
<1>6. CancelMeetsAll'
  <2> SUFFICES ASSUME ~strayed', NEW p \in Prompters, NEW b \in BodyIds, b <= prompter'[p].since, Runs(b)' \/ WillRun(b)'
               PROVE  /\ prompter'[p].at = "cancel" => body'[b].of = prompter'[p].with
                      /\ prompter'[p].at \notin {"interrupt", "join", "idle?", "unmap"}
    BY DEF CancelMeetsAll
  <2>1. b <= prompter[p].since /\ b <= bodies
    <3>1. prompter'[p].since = prompter[p].since /\ prompter[p].since <= bodies
      BY DEF RunParts, IdsAreBorn, FollowsFall
    <3>2. prompter[p] \in PrompterRecords /\ b \in Nat
      BY RunTypes
    <3> QED
      BY <1>1, <3>1, <3>2 DEF PrompterRecords
  <2>2. body[b].of \in RunnerIds /\ body'[b].of = body[b].of
    BY <2>1 DEF RunParts, IdsAreBorn, Falls
  <2>3. CASE body[b].of # r
    <3>1. Runs(b) \/ WillRun(b)
      BY <2>1, <2>3, OthersRunOn
    <3>2. /\ prompter[p].at = "cancel" => body[b].of = prompter[p].with
          /\ prompter[p].at \notin Stopped
      BY <1>5, <2>1, <3>1 DEF RunParts, CancelMeetsAll, Stopped
    <3> QED
      BY <2>2, <2>3, <3>2 DEF FollowsFall, Stopped
  <2>4. CASE body[b].of = r
    <3>1. /\ runner'[r].tag = "Running" /\ Tag(r) = "ShellThenRun" /\ runner'[r].runs = runner[r].then
          /\ runner'[r].then = NoBody /\ runner'[r].runs = b
      BY <2>2, <2>4 DEF Falls, Runs, WillRun, Tag
    <3>2. WillRun(b)
      BY <2>4, <3>1 DEF WillRun
    <3>3. /\ prompter[p].at = "cancel" => body[b].of = prompter[p].with
          /\ prompter[p].at \notin Stopped
      BY <1>5, <2>1, <3>2 DEF RunParts, CancelMeetsAll, Stopped
    <3> QED
      BY <2>2, <3>1, <3>3 DEF FollowsFall, Stopped
  <2> QED
    BY <2>3, <2>4
<1> QED
  BY <1>2, <1>3, <1>4, <1>5, <1>6

LEMMA StopsBusy ==
  ASSUME RunTypeOK, RunParts, NEW p \in Prompters, StopRunner(p), Tag(prompter[p].with) # "Idle"
  PROVE  \E r \in RunnerIds :
           /\ r = prompter[p].with /\ prompter'[p].with = r /\ prompter'[p].at = "interrupt"
           /\ prompter'[p].on = runner[r].runs /\ prompter'[p].then = runner[r].then
           /\ prompter'[p].since = prompter[p].since
           /\ prompter' \in [Prompters -> PrompterRecords] /\ \A q \in Prompters : q # p => prompter'[q] = prompter[q]
           /\ SetRunner(r, "Idle", NoBody, NoBody)
<1>1. prompter[p].at = "cancel"
  BY DEF StopRunner
<1>2. PICK r \in RunnerIds : r = prompter[p].with
  BY <1>1 DEF RunParts, PromptersHaveRunner
<1>3. runner[r] \in RunnerRecords /\ prompter[p] \in PrompterRecords /\ prompter \in [Prompters -> PrompterRecords]
  BY RunTypes
<1> DEFINE now == [at |-> "interrupt", with |-> r, on |-> runner[r].runs, then |-> runner[r].then,
                   since |-> prompter[p].since]
           there == [at |-> "interrupt", with |-> r, on |-> prompter[p].on, then |-> prompter[p].then,
                     since |-> prompter[p].since]
           with == [at |-> "interrupt", with |-> r, on |-> runner[r].runs, then |-> prompter[p].then,
                    since |-> prompter[p].since]
<1>4. [prompter[p] EXCEPT !.at = "interrupt"] = there
  BY <1>2, <1>3 DEF PrompterRecords
<1>5. [there EXCEPT !.on = runner[r].runs] = with
  OBVIOUS
<1>6. [with EXCEPT !.then = runner[r].then] = now
  OBVIOUS
<1>7. now \in PrompterRecords
  BY <1>3 DEF PrompterRecords, PrompterPoints, RunnerRecords
<1>8. /\ now.at = "interrupt" /\ now.with = r /\ now.on = runner[r].runs /\ now.then = runner[r].then
      /\ now.since = prompter[p].since
  OBVIOUS
<1> HIDE DEF now, there, with
<1>9. prompter' = [prompter EXCEPT ![p] = now] /\ SetRunner(r, "Idle", NoBody, NoBody)
  BY <1>2, <1>3, <1>4, <1>5, <1>6 DEF StopRunner, RunBehind
<1>10. /\ prompter' \in [Prompters -> PrompterRecords] /\ prompter'[p] = now
       /\ \A q \in Prompters : q # p => prompter'[q] = prompter[q]
  BY <1>7, <1>9, PrompterBecomes
<1> QED
  BY <1>2, <1>8, <1>9, <1>10

LEMMA StoppingKeeps ==
  ASSUME RunTypeOK, RunParts, NEW p \in Prompters, StopRunner(p)
  PROVE  RunTypeOK' /\ RunParts'
<1>1. CASE Tag(prompter[p].with) = "Idle"
  BY <1>1, LeavingKeeps DEF StopRunner
<1>2. CASE Tag(prompter[p].with) # "Idle"
  <2>1. prompter[p].at = "cancel" /\ UNCHANGED <<mapped, runners, bodies, body>> /\ NotesStray
    BY DEF StopRunner
  <2>2. PICK r \in RunnerIds :
           /\ r = prompter[p].with /\ prompter'[p].with = r /\ prompter'[p].at = "interrupt"
           /\ prompter'[p].on = runner[r].runs /\ prompter'[p].then = runner[r].then
           /\ prompter'[p].since = prompter[p].since
           /\ prompter' \in [Prompters -> PrompterRecords] /\ \A q \in Prompters : q # p => prompter'[q] = prompter[q]
           /\ SetRunner(r, "Idle", NoBody, NoBody)
    BY <1>2, StopsBusy
  <2>11. /\ runner' \in [RunnerIds -> RunnerRecords]
         /\ runner'[r].tag = "Idle" /\ runner'[r].runs = NoBody /\ runner'[r].then = NoBody
         /\ \A q \in RunnerIds : q # r => runner'[q] = runner[q]
    <3>1. NoBody \in 0 .. MaxBodies
      OBVIOUS
    <3> QED
      BY <2>2, <3>1, RunnerBecomes
  <2>12. strayed' \in BOOLEAN
    BY <2>1, RunTypes DEF NotesStray
  <2>13. RunTypeOK'
    BY <2>1, <2>2, <2>11, <2>12, RunTypes
       DEF RunTypeOK, RunnerRecords, BodyRecords, PrompterRecords, BodyPoints, PrompterPoints
  <2>14. Falls(r)
    BY <1>2, <2>1, <2>2, <2>11 DEF Falls
  <2>15. \A q \in Prompters : FollowsFall(q, r)
    <3>1. FollowsFall(p, r)
      <4>1. runner[r].runs <= bodies /\ runner[r].then <= bodies /\ runner[r].runs # NoBody
        BY <1>2, <2>2 DEF RunParts, IdsAreBorn, BusyRunners
      <4> QED
        BY <2>1, <2>2, <2>11, <4>1 DEF FollowsFall
    <3>2. \A q \in Prompters : q # p => FollowsFall(q, r)
      BY <2>2 DEF FollowsFall, RunParts, IdsAreBorn, PromptersHaveRunner
    <3> QED
      BY <3>1, <3>2
  <2>16. NobodyForgotten'
    <3> SUFFICES ASSUME NEW d \in BodyIds
                 PROVE  /\ Working(d)' => Runs(d)' \/ BeingCancelled(d)'
                        /\ body'[d].at = "pending" => WillRun(d)' \/ BeingCancelled(d)'
      BY DEF NobodyForgotten
    <3>1. BeingCancelled(d) => BeingCancelled(d)'
      BY <2>1, <2>2 DEF BeingCancelled
    <3>2. Working(d)' = Working(d) /\ body'[d] = body[d]
      BY <2>1 DEF Working
    <3>3. CASE d <= bodies /\ body[d].of # r
      BY <2>14, <3>1, <3>2, <3>3, OthersRunOn DEF RunParts, NobodyForgotten
    <3>4. CASE body[d].of = r
      <4>1. Runs(d) \/ WillRun(d) => BeingCancelled(d)'
        BY <2>2, <3>4 DEF Runs, WillRun, BeingCancelled
      <4> QED
        BY <3>1, <3>2, <4>1 DEF RunParts, NobodyForgotten
    <3>5. CASE ~(d <= bodies)
      <4>1. body[d].at = "unborn"
        BY <3>5 DEF RunParts, IdsAreBorn
      <4> QED
        BY <3>2, <4>1 DEF Working
    <3> QED
      BY <3>3, <3>4, <3>5
  <2> QED
    BY <2>1, <2>13, <2>14, <2>15, <2>16, FallKeeps DEF RunParts
<1> QED
  BY <1>1, <1>2

\* finishRun and finishShell, when the runner is still on this body.
LEMMA TellingKeeps ==
  ASSUME RunTypeOK, RunParts, NEW b \in BodyIds, Tells(b)
  PROVE  RunTypeOK' /\ RunParts'
<1>1. body[b].at = "telling" /\ UNCHANGED <<mapped, runners, bodies, prompter>> /\ NotesStray
  BY DEF Tells
<1>2. PICK r \in RunnerIds : r = body[b].of
  BY <1>1 DEF RunParts, IdsAreBorn
<1>3. runner[r] \in RunnerRecords /\ bodies \in 0 .. MaxBodies /\ body \in [BodyIds -> BodyRecords]
  BY RunTypes
<1>4. \A q \in Prompters : prompter'[q] = prompter[q]
  BY <1>1
<1>5. ASSUME Falls(r), body' \in [BodyIds -> BodyRecords], NobodyForgotten'
      PROVE  RunTypeOK' /\ RunParts'
  <2>1. strayed' \in BOOLEAN
    BY <1>1, RunTypes DEF NotesStray
  <2>2. runner' \in [RunnerIds -> RunnerRecords]
    BY <1>5 DEF Falls
  <2>3. RunTypeOK'
    BY <1>1, <1>5, <2>1, <2>2, RunTypes
       DEF RunTypeOK, RunnerRecords, BodyRecords, PrompterRecords, BodyPoints, PrompterPoints
  <2>4. \A q \in Prompters : FollowsFall(q, r)
    BY <1>4 DEF FollowsFall, RunParts, IdsAreBorn, PromptersHaveRunner
  <2> QED
    BY <1>1, <1>5, <2>3, <2>4, FallKeeps DEF RunParts
<1>6. \A d \in BodyIds : BeingCancelled(d) => BeingCancelled(d)'
  BY <1>1 DEF BeingCancelled
<1>7. ASSUME Tag(r) # "Idle", Tag(r) # "ShellThenRun", runner[r].runs = b,
             SetRunner(r, "Idle", NoBody, NoBody), BodyMoves(b, "unmapping")
      PROVE  RunTypeOK' /\ RunParts'
  <2>1. NoBody \in 0 .. MaxBodies /\ "unmapping" \in BodyPoints
    BY DEF BodyPoints
  <2>2. /\ runner' \in [RunnerIds -> RunnerRecords]
        /\ runner'[r].tag = "Idle" /\ runner'[r].runs = NoBody /\ runner'[r].then = NoBody
        /\ \A q \in RunnerIds : q # r => runner'[q] = runner[q]
    BY <1>7, <2>1, RunnerBecomes
  <2>3. /\ body' \in [BodyIds -> BodyRecords] /\ body'[b].at = "unmapping" /\ body'[b].of = body[b].of
        /\ \A d \in BodyIds : d # b => body'[d] = body[d]
    BY <1>7, <2>1, BodyBecomes
  <2>4. Falls(r)
    BY <1>1, <1>7, <2>2, <2>3 DEF Falls
  <2>5. NobodyForgotten'
    <3> SUFFICES ASSUME NEW d \in BodyIds
                 PROVE  /\ Working(d)' => Runs(d)' \/ BeingCancelled(d)'
                        /\ body'[d].at = "pending" => WillRun(d)' \/ BeingCancelled(d)'
      BY DEF NobodyForgotten
    <3>1. CASE d = b
      BY <2>3, <3>1 DEF Working
    <3>2. CASE d # b /\ body[d].of = r
      <4>1. ~Runs(d) /\ ~WillRun(d)
        BY <1>7, <3>2 DEF Runs, WillRun
      <4>2. body'[d] = body[d] /\ Working(d)' = Working(d)
        BY <2>3, <3>2 DEF Working
      <4> QED
        BY <1>6, <4>1, <4>2 DEF RunParts, NobodyForgotten
    <3>3. CASE d # b /\ body[d].of # r /\ d <= bodies
      <4>2. body'[d] = body[d] /\ Working(d)' = Working(d)
        BY <2>3, <3>3 DEF Working
      <4> QED
        BY <1>6, <2>4, <3>3, <4>2, OthersRunOn DEF RunParts, NobodyForgotten
    <3>4. CASE d # b /\ ~(d <= bodies)
      <4>1. body'[d] = body[d] /\ body[d].at = "unborn"
        BY <2>3, <3>4 DEF RunParts, IdsAreBorn
      <4> QED
        BY <4>1 DEF Working
    <3> QED
      BY <3>1, <3>2, <3>3, <3>4
  <2> QED
    BY <1>5, <2>3, <2>4, <2>5
<1>8. ASSUME Tag(r) = "ShellThenRun", runner[r].runs = b, SetRunner(r, "Running", runner[r].then, NoBody),
             body' = [body EXCEPT ![b].at = "completing", ![runner[r].then].at = "alive"]
      PROVE  RunTypeOK' /\ RunParts'
  <2>1. PICK n \in BodyIds : n = runner[r].then /\ body[n].of = r
    BY <1>3, <1>8 DEF RunParts, BusyRunners, RunnerRecords
  <2>2. NoBody \in 0 .. MaxBodies /\ n \in 0 .. MaxBodies
    OBVIOUS
  <2>3. /\ runner' \in [RunnerIds -> RunnerRecords]
        /\ runner'[r].tag = "Running" /\ runner'[r].runs = n /\ runner'[r].then = NoBody
        /\ \A q \in RunnerIds : q # r => runner'[q] = runner[q]
    BY <1>8, <2>1, <2>2, RunnerBecomes
  <2> DEFINE there == [body EXCEPT ![b].at = "completing"]
  <2>4. /\ there \in [BodyIds -> BodyRecords] /\ there[b].at = "completing" /\ there[b].of = body[b].of
        /\ \A d \in BodyIds : d # b => there[d] = body[d]
    <3> DEFINE now == [kind |-> body[b].kind, of |-> body[b].of, at |-> "completing", done |-> body[b].done]
    <3>1. [body[b] EXCEPT !.at = "completing"] = now
      BY <1>3 DEF BodyRecords
    <3>2. now \in BodyRecords /\ now.at = "completing" /\ now.of = body[b].of
      BY <1>3 DEF BodyRecords, BodyPoints
    <3> HIDE DEF now
    <3>3. there = [body EXCEPT ![b] = now]
      BY <3>1
    <3> QED
      BY <1>3, <3>2, <3>3
  <2>5. body' = [there EXCEPT ![n].at = "alive"]
    BY <1>8, <2>1
  <2> HIDE DEF there
  <2>6. /\ body' \in [BodyIds -> BodyRecords] /\ body'[n].at = "alive" /\ body'[n].of = there[n].of
        /\ \A d \in BodyIds : d # n => body'[d] = there[d]
    <3> DEFINE now == [kind |-> there[n].kind, of |-> there[n].of, at |-> "alive", done |-> there[n].done]
    <3>1. [there[n] EXCEPT !.at = "alive"] = now
      BY <2>4 DEF BodyRecords
    <3>2. now \in BodyRecords /\ now.at = "alive" /\ now.of = there[n].of
      BY <2>4 DEF BodyRecords, BodyPoints
    <3> HIDE DEF now
    <3>3. body' = [there EXCEPT ![n] = now]
      BY <2>5, <3>1
    <3> QED
      BY <2>4, <3>2, <3>3
  <2>7. /\ \A d \in BodyIds : body'[d].of = body[d].of
        /\ \A d \in BodyIds : d # n /\ d # b => body'[d] = body[d]
        /\ b # n => body'[b].at = "completing"
    BY <2>4, <2>6
  <2>8. n <= bodies /\ body[n].at # "unborn"
    BY <2>1 DEF RunParts, IdsAreBorn
  <2>9. \A d \in BodyIds : body'[d].at = "unborn" <=> body[d].at = "unborn"
    BY <1>1, <2>6, <2>7, <2>8
  <2>10. Falls(r)
    BY <1>8, <2>1, <2>3, <2>7, <2>9 DEF Falls
  <2>11. NobodyForgotten'
    <3> SUFFICES ASSUME NEW d \in BodyIds
                 PROVE  /\ Working(d)' => Runs(d)' \/ BeingCancelled(d)'
                        /\ body'[d].at = "pending" => WillRun(d)' \/ BeingCancelled(d)'
      BY DEF NobodyForgotten
    <3>1. CASE d = n
      <4>1. Runs(d)'
        BY <2>1, <2>3, <2>7, <3>1 DEF Runs, Tag
      <4> QED
        BY <2>6, <3>1, <4>1
    <3>2. CASE d # n /\ d = b
      BY <2>7, <3>2 DEF Working
    <3>3. CASE d # n /\ d # b /\ body[d].of = r
      <4>1. ~Runs(d) /\ ~WillRun(d)
        BY <1>8, <2>1, <3>3 DEF Runs, WillRun
      <4>2. body'[d] = body[d] /\ Working(d)' = Working(d)
        BY <2>7, <3>3 DEF Working
      <4> QED
        BY <1>6, <4>1, <4>2 DEF RunParts, NobodyForgotten
    <3>4. CASE d # n /\ d # b /\ body[d].of # r /\ d <= bodies
      <4>2. body'[d] = body[d] /\ Working(d)' = Working(d)
        BY <2>7, <3>4 DEF Working
      <4> QED
        BY <1>6, <2>10, <3>4, <4>2, OthersRunOn DEF RunParts, NobodyForgotten
    <3>5. CASE d # n /\ d # b /\ ~(d <= bodies)
      <4>1. body'[d] = body[d] /\ body[d].at = "unborn"
        BY <2>7, <3>5 DEF RunParts, IdsAreBorn
      <4> QED
        BY <4>1 DEF Working
    <3> QED
      BY <3>1, <3>2, <3>3, <3>4, <3>5
  <2> QED
    BY <1>5, <2>6, <2>10, <2>11
<1> QED
  BY <1>2, <1>7, <1>8, FiberKeeps DEF Tells, RunsNow, ShellsNow

-----------------------------------------------------------------------------
LEMMA RunInitially == RunInit => RunInvariant
<1> SUFFICES ASSUME RunInit PROVE RunInvariant
  OBVIOUS
<1>1. /\ mapped = NoRunner /\ runners = 0 /\ bodies = 0 /\ strayed = FALSE
      /\ runner = [r \in RunnerIds |-> IdleRunner] /\ body = [b \in BodyIds |-> Unborn]
      /\ prompter = [p \in Prompters |-> Away]
  BY DEF RunInit
<1>2. IdleRunner \in RunnerRecords /\ Unborn \in BodyRecords /\ Away \in PrompterRecords
  BY DEF IdleRunner, RunnerRecords, Unborn, BodyRecords, BodyPoints, Away, PrompterRecords, PrompterPoints
<1>3. RunTypeOK
  <2>1. runner \in [RunnerIds -> RunnerRecords] /\ body \in [BodyIds -> BodyRecords]
    BY <1>1, <1>2
  <2>2. prompter \in [Prompters -> PrompterRecords] /\ 0 \in 0 .. 2 * MaxBodies /\ 0 \in 0 .. MaxBodies
    BY <1>1, <1>2
  <2> QED
    BY <1>1, <2>1, <2>2, RunTypes
<1>4. /\ \A r \in RunnerIds : Tag(r) = "Idle" /\ runner[r].runs = 0 /\ runner[r].then = 0
      /\ \A b \in BodyIds : body[b].at = "unborn"
      /\ \A p \in Prompters : prompter[p] = Away
  BY <1>1 DEF Tag, IdleRunner, Unborn
<1>5. IdsAreBorn
  BY <1>1, <1>4 DEF IdsAreBorn, Away
<1>6. BusyRunners /\ OneRunner
  BY <1>4 DEF BusyRunners, OneRunner
<1>7. PromptersHaveRunner /\ CancelMeetsAll
  BY <1>4 DEF PromptersHaveRunner, CancelMeetsAll, Away
<1>8. NobodyForgotten
  BY <1>4 DEF NobodyForgotten, Working
<1> QED
  BY <1>3, <1>5, <1>6, <1>7, <1>8 DEF RunInvariant, RunParts

LEMMA RunStep == RunInvariant /\ [RunNext]_runVars => RunInvariant'
<1> SUFFICES ASSUME RunTypeOK, RunParts, [RunNext]_runVars PROVE RunTypeOK' /\ RunParts'
  BY DEF RunInvariant
<1>1. ASSUME NEW b \in BodyIds, BodySteps(b) PROVE RunTypeOK' /\ RunParts'
  BY <1>1, FiberKeeps, TellingKeeps DEF BodySteps
<1>2. ASSUME NEW p \in Prompters, GetRunner(p, "prompt") \/ GetRunner(p, "shell") PROVE RunTypeOK' /\ RunParts'
  BY <1>2, GetKeeps
<1>3. ASSUME NEW p \in Prompters, Cancel(p) PROVE RunTypeOK' /\ RunParts'
  BY <1>3, CancelKeeps
<1>4. ASSUME NEW p \in Prompters, PrompterSteps(p) PROVE RunTypeOK' /\ RunParts'
  <2>1. CASE EnsureRunning(p) \/ StartShell(p)
    BY <2>1, CallsKeep
  <2>2. CASE Answered(p)
    BY <2>2, GivingUpKeeps
  <2>3. CASE StopRunner(p)
    BY <2>3, StoppingKeeps
  <2>4. CASE InterruptBody(p)
    BY <2>4, InterruptingKeeps
  <2>5. CASE JoinBody(p)
    BY <2>5, JoinKeeps
  <2>6. CASE IdleIfCurrent(p) \/ UnmapRunner(p)
    BY <2>6, IdlingKeeps
  <2> QED
    BY <1>4, <2>1, <2>2, <2>3, <2>4, <2>5, <2>6 DEF PrompterSteps
<1>5. ASSUME NEW p \in Prompters, GivesUp(p) PROVE RunTypeOK' /\ RunParts'
  BY <1>5, GivingUpKeeps
<1>6. CASE UNCHANGED runVars
  <2>1. /\ mapped' = mapped /\ runners' = runners /\ runner' = runner /\ bodies' = bodies /\ body' = body
        /\ prompter' = prompter /\ strayed' = strayed
    BY <1>6 DEF runVars
  <2>2. RunTypeOK'
    BY <2>1 DEF RunTypeOK
  <2>3. IdsAreBorn' /\ BusyRunners' /\ PromptersHaveRunner' /\ OneRunner'
    BY <2>1 DEF RunParts, IdsAreBorn, BusyRunners, PromptersHaveRunner, OneRunner, Tag
  <2>4. NobodyForgotten' /\ CancelMeetsAll'
    BY <2>1 DEF RunParts, NobodyForgotten, CancelMeetsAll, Working, Runs, WillRun, BeingCancelled, Tag
  <2> QED
    BY <2>2, <2>3, <2>4 DEF RunParts
<1> QED
  BY <1>1, <1>2, <1>3, <1>4, <1>5, <1>6 DEF RunNext

(***************************************************************************)
(* Ids and types hold throughout, a busy runner has its body, no body that *)
(* works is forgotten by its runner and by all who cancel, and a cancel    *)
(* leaves nothing of what it met attached.                                 *)
(***************************************************************************)
THEOREM RunInvariantHolds == RunSpec => []RunInvariant
BY RunInitially, RunStep, PTL DEF RunSpec

-----------------------------------------------------------------------------
\* What works and is not being cancelled is the body that the runner of the map runs.
LEMMA AtMostTheMapped == RunInvariant => OneAtATime
<1> SUFFICES ASSUME RunTypeOK, RunParts, ~strayed
             PROVE  Cardinality({b \in BodyIds : Working(b) /\ ~BeingCancelled(b)}) <= 1
  BY DEF RunInvariant, OneAtATime
<1> DEFINE Left == {b \in BodyIds : Working(b) /\ ~BeingCancelled(b)}
<1>1. \A b \in Left : body[b].of = mapped /\ b = runner[mapped].runs
  <2> SUFFICES ASSUME NEW b \in BodyIds, Working(b), ~BeingCancelled(b)
               PROVE  body[b].of = mapped /\ b = runner[mapped].runs
    OBVIOUS
  <2>1. Runs(b)
    BY DEF RunParts, NobodyForgotten
  <2>2. body[b].of \in RunnerIds
    BY DEF Working, RunParts, IdsAreBorn
  <2>3. body[b].of = mapped
    BY <2>1, <2>2 DEF Runs, RunParts, OneRunner
  <2> QED
    BY <2>1, <2>3 DEF Runs
<1>2. Left = {} \/ Left = {runner[mapped].runs}
  BY <1>1
<1> HIDE DEF Left
<1>3. Cardinality(Left) <= 1
  <2>1. CASE Left = {}
    BY <2>1, FS_EmptySet
  <2>2. CASE Left = {runner[mapped].runs}
    <3>1. Cardinality({runner[mapped].runs}) = 1
      BY FS_Singleton
    <3> QED
      BY <2>2, <3>1
  <2> QED
    BY <1>2, <2>1, <2>2
<1> QED
  BY <1>3 DEF Left

(***************************************************************************)
(* One prompt loop or shell command works in a session at a time, beside   *)
(* those somebody cancels, as long as no busy runner has been dropped from *)
(* the map: OneAtATime.                                                    *)
(***************************************************************************)
THEOREM WorkIsOneAtATime == RunSpec => []OneAtATime
BY RunInvariantHolds, AtMostTheMapped, PTL

\* A cancel returns from a runner that was idle before it could stop it, or from one it has stopped.
LEMMA ReturnsFromIdle ==
  ASSUME RunTypeOK, RunParts, RunNext, NEW p \in Prompters, prompter[p].at = "cancel", prompter'[p].at = "away"
  PROVE  Tag(prompter[p].with) = "Idle"
<1>1. prompter \in [Prompters -> PrompterRecords]
  BY RunTypes
<1>2. ASSUME NEW b \in BodyIds, BodySteps(b) PROVE FALSE
  BY <1>2 DEF BodySteps, BecomesReady, Ends, Tells, Unmaps, Completes
<1>3. ASSUME NEW q \in Prompters, q # p, GetRunner(q, "prompt") \/ GetRunner(q, "shell") \/ Cancel(q)
      PROVE FALSE
  BY <1>1, <1>3 DEF GetRunner, Cancel
<1>4. ASSUME NEW q \in Prompters, q # p, PrompterSteps(q) \/ GivesUp(q)
      PROVE FALSE
  <2>1. EnsureRunning(q) => FALSE
    BY <1>1, <1>4 DEF EnsureRunning, AwaitsBody
  <2>2. StartShell(q) => FALSE
    BY <1>1, <1>4 DEF StartShell, AwaitsBody, Leaves
  <2>3. Answered(q) \/ GivesUp(q) => FALSE
    BY <1>1, <1>4 DEF Answered, GivesUp, Leaves
  <2>4. StopRunner(q) => FALSE
    BY <1>1, <1>4 DEF StopRunner, Leaves
  <2>5. InterruptBody(q) \/ JoinBody(q) => FALSE
    BY <1>1, <1>4 DEF InterruptBody, JoinBody, Moves
  <2>6. IdleIfCurrent(q) \/ UnmapRunner(q) => FALSE
    BY <1>1, <1>4 DEF IdleIfCurrent, UnmapRunner, Moves, Leaves
  <2> QED
    BY <1>4, <2>1, <2>2, <2>3, <2>4, <2>5, <2>6 DEF PrompterSteps
<1>5. StopRunner(p)
  <2>1. ~GetRunner(p, "prompt") /\ ~GetRunner(p, "shell") /\ ~Cancel(p)
    BY DEF GetRunner, Cancel
  <2>2. ~EnsureRunning(p) /\ ~StartShell(p) /\ ~Answered(p) /\ ~GivesUp(p)
    BY DEF EnsureRunning, StartShell, Answered, GivesUp
  <2>3. ~InterruptBody(p) /\ ~JoinBody(p) /\ ~IdleIfCurrent(p) /\ ~UnmapRunner(p)
    BY DEF InterruptBody, JoinBody, IdleIfCurrent, UnmapRunner
  <2> QED
    BY <1>2, <1>3, <1>4, <2>1, <2>2, <2>3 DEF RunNext, PrompterSteps
<1> QED
  <2> SUFFICES ASSUME Tag(prompter[p].with) # "Idle" PROVE FALSE
    OBVIOUS
  <2>1. prompter'[p].at = "interrupt"
    BY <1>5, StopsBusy
  <2> QED
    BY <2>1

\* In either case what was there when it began is not attached to its runner any more.
LEMMA NothingLeft ==
  ASSUME RunInvariant, RunNext, NEW p \in Prompters, prompter[p].at \in {"cancel", "idle?", "unmap"},
         prompter'[p].at = "away", ~strayed,
         NEW b \in 1 .. prompter[p].since, body[b].at = "pending" \/ Working(b)
  PROVE  BeingCancelled(b)
<1>1. RunTypeOK /\ RunParts
  BY DEF RunInvariant
<1>2. b \in BodyIds /\ b <= bodies /\ b <= prompter[p].since
  <2>1. prompter[p] \in PrompterRecords /\ bodies \in 0 .. MaxBodies
    BY <1>1, RunTypes
  <2>2. prompter[p].since <= bodies
    BY <1>1 DEF RunParts, IdsAreBorn
  <2> QED
    BY <2>1, <2>2 DEF PrompterRecords
<1>3. SUFFICES ASSUME Runs(b) \/ WillRun(b) PROVE FALSE
  BY <1>1, <1>2 DEF RunParts, NobodyForgotten
<1>4. prompter[p].at = "cancel" /\ body[b].of = prompter[p].with
  BY <1>1, <1>2, <1>3 DEF RunParts, CancelMeetsAll
<1>5. Tag(body[b].of) = "Idle"
  BY <1>1, <1>4, ReturnsFromIdle
<1> QED
  BY <1>3, <1>5 DEF Runs, WillRun

(***************************************************************************)
(* When a cancel returns, nothing that was started before it still works,  *)
(* unless another cancel has taken it over: CancelStops.                   *)
(***************************************************************************)
THEOREM CancelsStop == RunSpec => CancelStops
<1>1. RunInvariant /\ [RunNext]_runVars =>
        [\A p \in Prompters :
           prompter[p].at \in {"cancel", "idle?", "unmap"} /\ prompter'[p].at = "away" /\ ~strayed =>
             \A b \in 1 .. prompter[p].since : body[b].at = "pending" \/ Working(b) => BeingCancelled(b)]_runVars
  BY NothingLeft
<1> QED
  BY <1>1, RunInvariantHolds, PTL DEF RunSpec, CancelStops

-----------------------------------------------------------------------------
(***************************************************************************)
(* The lock between processes.                                             *)
(***************************************************************************)

USE NoOneAssumption

(***************************************************************************)
(* The invariant, as long as nothing has happened that the protocol does   *)
(* not provide for.  A process owns the lock from the time it has made the *)
(* directory until it has removed it or is suspended.                      *)
(***************************************************************************)
Owner(p) == pc[p] \in Owning /\ p \notin late

\* The directory is the owner's, and what it has put in is there and fresh enough not to be judged stale.
OwnerHas(p) ==
  /\ file["dir"].by = p
  /\ pc[p] \in {"unclaimOwn", "beat"} => file["dir"].age = "fresh" /\ ChildrenThere = {}
  /\ pc[p] \in {"sign", "held", "verify"} => file["heartbeat"] = FreshBy(p)
  /\ pc[p] = "sign" => ~Exists("meta")
  /\ pc[p] \in {"held", "verify"} => file["meta"].by = p

MadeBySomebody == \A f \in Files : file[f].by = NoOne <=> file[f].age = "none"

LateArePast == \A p \in late : pc[p] \in {"held", "verify", "idle"}
NobodyAbandons == \A p \in Contenders : pc[p] # "abandon"
CleanersHold == \A p \in Contenders : pc[p] \in Cleaning => file["breaker"].by = p
OwnersHave == \A p \in Contenders : Owner(p) => OwnerHas(p)
WipesTheUnowned == \A p \in Contenders : pc[p] = "wipe" => Exists("dir") /\ \A q \in Contenders : ~Owner(q)
ChildrenInside == ChildrenThere # {} => Exists("dir")

LockParts == LateArePast /\ NobodyAbandons /\ CleanersHold /\ OwnersHave /\ WipesTheUnowned /\ ChildrenInside
LockInvariant == LockTypeOK /\ MadeBySomebody /\ (excuses = {} => LockParts)

-----------------------------------------------------------------------------
FileRow == [age : {"none", "fresh", "old"}, by : Contenders \union {NoOne}]

LEMMA FilesHaveRows == LockTypeOK => file \in [Files -> FileRow]
  BY DEF LockTypeOK, FileRow

\* A process goes to another point, and nobody else does.
LEMMA LockMoves ==
  ASSUME LockTypeOK, NEW p \in Contenders, NEW point \in LockPoints, LockGoes(p, point)
  PROVE  pc' \in [Contenders -> LockPoints] /\ pc'[p] = point /\ \A q \in Contenders : q # p => pc'[q] = pc[q]
  BY DEF LockTypeOK, LockGoes

\* A file is made or removed; with a child the directory is touched, which does not change whose it is.
LEMMA FileChanges ==
  ASSUME LockTypeOK, MadeBySomebody, NEW f \in Files, NEW to \in FileRow, to.by = NoOne <=> to.age = "none",
         file' = ChangedFiles(f, to)
  PROVE  /\ file' \in [Files -> FileRow] /\ MadeBySomebody'
         /\ file'[f] = to
         /\ \A g \in Files \ {f, "dir"} : file'[g] = file[g]
         /\ f \notin Children /\ f # "dir" => file'["dir"] = file["dir"]
         /\ f \in Children => file'["dir"].by = file["dir"].by /\ (file["dir"].age = "fresh" => file'["dir"].age = "fresh")
<1>1. file \in [Files -> FileRow] /\ "dir" \in Files
  BY FilesHaveRows DEF Files
<1>2. CASE f \in Children
  <2> DEFINE there == [file EXCEPT ![f] = to]
             age == IF file["dir"].age = "none" THEN "none" ELSE "fresh"
             now == [age |-> age, by |-> file["dir"].by]
  <2>1. f # "dir"
    BY <1>2 DEF Children
  <2>2. /\ there \in [Files -> FileRow] /\ there[f] = to /\ there["dir"] = file["dir"]
        /\ \A g \in Files : g # f => there[g] = file[g]
    BY <1>1, <2>1
  <2>3. file' = [there EXCEPT !["dir"].age = IF there["dir"].age = "none" THEN "none" ELSE "fresh"]
    BY <1>1, <1>2, <2>1 DEF ChangedFiles
  <2>4. [file["dir"] EXCEPT !.age = age] = now
    BY <1>1 DEF FileRow
  <2>5. now \in FileRow /\ now.by = file["dir"].by /\ now.age = age
    BY <1>1 DEF FileRow
  <2>6. /\ now.by = NoOne <=> now.age = "none"
        /\ file["dir"].age = "fresh" => now.age = "fresh"
    BY <1>1, <2>5 DEF MadeBySomebody
  <2> HIDE DEF there, now, age
  <2>7. file' = [there EXCEPT !["dir"] = now]
    BY <1>1, <2>2, <2>3, <2>4 DEF age
  <2>8. /\ file' \in [Files -> FileRow] /\ file'["dir"] = now
        /\ \A g \in Files : g # "dir" => file'[g] = there[g]
    BY <1>1, <2>2, <2>5, <2>7
  <2>9. MadeBySomebody'
    <3> SUFFICES ASSUME NEW g \in Files PROVE file'[g].by = NoOne <=> file'[g].age = "none"
      BY DEF MadeBySomebody
    <3>1. CASE g = "dir"
      BY <2>6, <2>8, <3>1
    <3>2. CASE g = f
      BY <2>1, <2>2, <2>8, <3>2
    <3>3. CASE g # "dir" /\ g # f
      BY <2>2, <2>8, <3>3 DEF MadeBySomebody
    <3> QED
      BY <3>1, <3>2, <3>3
  <2> QED
    BY <1>1, <1>2, <2>1, <2>2, <2>5, <2>6, <2>8, <2>9
<1>3. CASE f \notin Children
  <2>1. file' = [file EXCEPT ![f] = to]
    BY <1>3 DEF ChangedFiles
  <2>2. /\ file' \in [Files -> FileRow] /\ file'[f] = to
        /\ \A g \in Files : g # f => file'[g] = file[g]
    BY <1>1, <2>1
  <2>3. MadeBySomebody'
    <3> SUFFICES ASSUME NEW g \in Files PROVE file'[g].by = NoOne <=> file'[g].age = "none"
      BY DEF MadeBySomebody
    <3>1. CASE g = f
      BY <2>2, <3>1
    <3>2. CASE g # f
      BY <2>2, <3>2 DEF MadeBySomebody
    <3> QED
      BY <3>1, <3>2
  <2> QED
    BY <1>1, <1>3, <2>2, <2>3
<1> QED
  BY <1>2, <1>3

LEMMA FileIsMade ==
  ASSUME LockTypeOK, MadeBySomebody, NEW p \in Contenders, NEW f \in Files, MakesFile(p, f)
  PROVE  /\ file' \in [Files -> FileRow] /\ MadeBySomebody'
         /\ file'[f] = FreshBy(p)
         /\ \A g \in Files \ {f, "dir"} : file'[g] = file[g]
         /\ f \notin Children /\ f # "dir" => file'["dir"] = file["dir"]
         /\ f \in Children => file'["dir"].by = file["dir"].by /\ (file["dir"].age = "fresh" => file'["dir"].age = "fresh")
<1>1. FreshBy(p) \in FileRow /\ (FreshBy(p).by = NoOne <=> FreshBy(p).age = "none")
  BY DEF FreshBy, FileRow
<1> QED
  BY <1>1, FileChanges DEF MakesFile

LEMMA FileIsRemoved ==
  ASSUME LockTypeOK, MadeBySomebody, NEW f \in Files, RemovesFile(f)
  PROVE  /\ file' \in [Files -> FileRow] /\ MadeBySomebody'
         /\ file'[f] = NoFile
         /\ \A g \in Files \ {f, "dir"} : file'[g] = file[g]
         /\ f \notin Children /\ f # "dir" => file'["dir"] = file["dir"]
         /\ f \in Children => file'["dir"].by = file["dir"].by /\ (file["dir"].age = "fresh" => file'["dir"].age = "fresh")
<1>1. NoFile \in FileRow /\ (NoFile.by = NoOne <=> NoFile.age = "none")
  BY DEF NoFile, FileRow
<1> QED
  BY <1>1, FileChanges DEF RemovesFile

-----------------------------------------------------------------------------
(***************************************************************************)
(* What the parts say of owners and cleaners.                              *)
(***************************************************************************)
\* There is one owner and one cleaner, and the owner's directory is there.
LEMMA OneOwner ==
  ASSUME LockTypeOK, MadeBySomebody, LockParts, NEW p \in Contenders, Owner(p)
  PROVE  /\ file["dir"].by = p /\ Exists("dir")
         /\ \A q \in Contenders : Owner(q) => q = p
         /\ \A q \in Contenders : pc[q] # "wipe"
<1>1. file["dir"].by = p /\ p # NoOne /\ "dir" \in Files
  BY DEF LockParts, OwnersHave, OwnerHas, Files
<1>2. Exists("dir")
  BY <1>1 DEF MadeBySomebody, Exists
<1> QED
  BY <1>1, <1>2 DEF LockParts, OwnersHave, OwnerHas, WipesTheUnowned

LEMMA OwnsWhenOwning ==
  ASSUME LockParts, NEW p \in Contenders, pc[p] \in Owning \ {"held", "verify"}
  PROVE  Owner(p)
  BY DEF LockParts, LateArePast, Owner, Owning

LEMMA OneCleaner ==
  ASSUME LockParts, NEW p \in Contenders, pc[p] \in Cleaning
  PROVE  \A q \in Contenders : pc[q] \in Cleaning => q = p
  BY DEF LockParts, CleanersHold

\* An owner that is not about to remove its lock is not judged stale.
LEMMA OwnedIsNotStale ==
  ASSUME LockTypeOK, LockParts, NEW p \in Contenders, Owner(p), ~LockAt(p, "erase")
  PROVE  ~Stale
<1>1. OwnerHas(p) /\ pc[p] \in {"unclaimOwn", "beat", "sign", "held", "verify"}
  BY DEF LockParts, OwnersHave, Owner, Owning, LockAt
<1>2. CASE pc[p] \in {"unclaimOwn", "beat"}
  <2>1. file["dir"].age = "fresh" /\ ~Exists("heartbeat") /\ ~Exists("meta")
    BY <1>1, <1>2 DEF OwnerHas, ChildrenThere, Children
  <2> QED
    BY <2>1 DEF Stale, IsOld
<1>3. CASE pc[p] \in {"sign", "held", "verify"}
  <2>1. file["heartbeat"].age = "fresh"
    BY <1>1, <1>3 DEF OwnerHas, FreshBy
  <2> QED
    BY <2>1 DEF Stale, IsOld, Exists
<1> QED
  BY <1>1, <1>2, <1>3

\* What is judged stale is there.
LEMMA StaleIsThere ==
  ASSUME LockParts, Stale
  PROVE  Exists("dir")
<1>1. CASE Exists("heartbeat") \/ Exists("meta")
  BY <1>1 DEF LockParts, ChildrenInside, ChildrenThere, Children
<1>2. CASE ~Exists("heartbeat") /\ ~Exists("meta")
  BY <1>2 DEF Stale, IsOld, Exists
<1> QED
  BY <1>1, <1>2

-----------------------------------------------------------------------------
(***************************************************************************)
(* Steps that leave the files alone.                                       *)
(***************************************************************************)
LEMMA WalkKeeps ==
  ASSUME LockTypeOK, LockParts, NEW p \in Contenders, NEW point \in LockPoints, LockGoes(p, point), UNCHANGED file,
         late' \subseteq Contenders, \A q \in Contenders : q # p => (q \in late' <=> q \in late),
         p \in late' => point \in {"held", "verify", "idle"},
         point # "abandon",
         point \in Cleaning => pc[p] \in Cleaning,
         point \in Owning /\ p \notin late' => Owner(p) /\ OwnerHas(p)',
         point = "wipe" => Exists("dir") /\ \A q \in Contenders : ~Owner(q)
  PROVE  LockParts'
<1>1. pc' \in [Contenders -> LockPoints] /\ pc'[p] = point /\ \A q \in Contenders : q # p => pc'[q] = pc[q]
  BY LockMoves
<1>2. \A q \in Contenders : q # p => (Owner(q)' <=> Owner(q)) /\ (OwnerHas(q)' <=> OwnerHas(q))
  BY <1>1 DEF Owner, OwnerHas, Exists, ChildrenThere
<1>3. Owner(p)' => Owner(p) /\ OwnerHas(p)'
  BY <1>1 DEF Owner
<1>4. LateArePast'
  BY <1>1 DEF LockParts, LateArePast
<1>5. NobodyAbandons' /\ CleanersHold'
  BY <1>1 DEF LockParts, NobodyAbandons, CleanersHold
<1>6. OwnersHave'
  BY <1>2, <1>3 DEF LockParts, OwnersHave
<1>7. \A q \in Contenders : Owner(q)' => Owner(q)
  BY <1>2, <1>3
<1>8. WipesTheUnowned'
  BY <1>1, <1>7 DEF LockParts, WipesTheUnowned, Exists
<1>9. ChildrenInside'
  BY DEF LockParts, ChildrenInside, ChildrenThere, Exists
<1> QED
  BY <1>4, <1>5, <1>6, <1>8, <1>9 DEF LockParts

\* Points where a process owns nothing and cleans nothing.
Outside == {"idle", "waiting", "make", "check", "claim", "dropBreaker", "dead"}

LEMMA GoingOutKeeps ==
  ASSUME LockTypeOK, LockParts, NEW p \in Contenders, NEW point \in Outside, LockGoes(p, point), UNCHANGED file,
         late' \subseteq Contenders, \A q \in Contenders : q # p => (q \in late' <=> q \in late),
         p \in late' => point = "idle"
  PROVE  LockParts'
<1>1. point \in LockPoints /\ point # "abandon" /\ point \notin Cleaning /\ point \notin Owning /\ point # "wipe"
  BY DEF Outside, LockPoints, Cleaning, Owning
<1> QED
  BY <1>1, WalkKeeps

\* Who is not inside is not late.
LEMMA NotLate ==
  ASSUME LockParts, NEW p \in Contenders, pc[p] \notin {"held", "verify", "idle"}
  PROVE  p \notin late
  BY DEF LockParts, LateArePast

LEMMA StrollKeeps ==
  ASSUME LockTypeOK, LockParts, NEW p \in Contenders,
         TryLock(p) \/ TryAgain(p) \/ LockTimesOut(p) \/ CheckStale(p) \/ DieAnywhere(p)
  PROVE  LockParts'
<1>1. late \subseteq Contenders
  BY DEF LockTypeOK
<1>2. CASE TryLock(p)
  <2>1. LockGoes(p, "make") /\ late' = late \ {p} /\ UNCHANGED file /\ "make" \in Outside
    BY <1>2 DEF TryLock, Outside
  <2> QED
    BY <1>1, <2>1, GoingOutKeeps
<1>3. CASE TryAgain(p)
  <2>1. pc[p] = "waiting" /\ LockGoes(p, "make") /\ late' = late /\ UNCHANGED file /\ "make" \in Outside
    BY <1>3 DEF TryAgain, FilesAlone, LockAt, Outside
  <2> QED
    BY <1>1, <2>1, GoingOutKeeps, NotLate
<1>4. CASE LockTimesOut(p)
  <2>1. LockGoes(p, "idle") /\ late' = late /\ UNCHANGED file /\ "idle" \in Outside
    BY <1>4 DEF LockTimesOut, FilesAlone, Outside
  <2> QED
    BY <1>1, <2>1, GoingOutKeeps
<1>5. CASE CheckStale(p)
  <2>1. PICK point \in {"claim", "waiting"} : LockGoes(p, point)
    BY <1>5 DEF CheckStale
  <2>2. pc[p] = "check" /\ late' = late /\ UNCHANGED file /\ point \in Outside
    BY <1>5 DEF CheckStale, FilesAlone, LockAt, Outside
  <2> QED
    BY <1>1, <2>1, <2>2, GoingOutKeeps, NotLate
<1>6. CASE DieAnywhere(p)
  <2>1. LockGoes(p, "dead") /\ late' = late \ {p} /\ UNCHANGED file /\ "dead" \in Outside
    BY <1>6 DEF DieAnywhere, Outside
  <2> QED
    BY <1>1, <2>1, GoingOutKeeps
<1> QED
  BY <1>2, <1>3, <1>4, <1>5, <1>6

\* The owner goes in and out of its critical section.
LEMMA SectionKeeps ==
  ASSUME LockTypeOK, LockParts, NEW p \in Contenders, ReleaseLock(p) \/ VerifyToken(p) \/ FallBehind(p), excuses' = {}
  PROVE  LockParts'
<1>1. late \subseteq Contenders /\ pc \in [Contenders -> LockPoints]
  BY DEF LockTypeOK
<1>2. CASE ReleaseLock(p)
  <2>1. pc[p] = "held" /\ LockGoes(p, "verify") /\ late' = late /\ UNCHANGED file /\ "verify" \in LockPoints
    BY <1>2 DEF ReleaseLock, LockAt, FilesAlone, LockPoints, Owning
  <2>2. p \notin late => Owner(p) /\ OwnerHas(p)
    BY <2>1 DEF LockParts, OwnersHave, Owner, Owning
  <2>3. pc'[p] = "verify"
    BY <2>1, LockMoves
  <2>4. OwnerHas(p) => OwnerHas(p)'
    BY <2>1, <2>3 DEF OwnerHas
  <2> QED
    BY <1>1, <2>1, <2>2, <2>4, WalkKeeps DEF Cleaning
<1>3. CASE VerifyToken(p)
  <2>1. pc[p] = "verify" /\ late' = late /\ UNCHANGED file
    BY <1>3 DEF VerifyToken, LockAt, FilesAlone
  <2>2. CASE OwnToken(p)
    <3>1. LockGoes(p, "erase") /\ "erase" \in LockPoints
      BY <1>3, <2>2 DEF VerifyToken, LockPoints, Owning
    <3>2. p \notin late
      <4> SUFFICES ASSUME p \in late PROVE FALSE
        OBVIOUS
      <4>1. excuses' = excuses \union {"late"}
        BY <1>3, <2>2 DEF VerifyToken, OwnToken
      <4> QED
        BY <4>1
    <3>3. Owner(p) /\ OwnerHas(p)
      BY <2>1, <3>2 DEF LockParts, OwnersHave, Owner, Owning
    <3>4. pc'[p] = "erase"
      BY <3>1, LockMoves
    <3>5. OwnerHas(p)'
      BY <2>1, <3>3, <3>4 DEF OwnerHas
    <3> QED
      BY <1>1, <2>1, <3>1, <3>2, <3>3, <3>5, WalkKeeps DEF Cleaning
  <2>3. CASE ~OwnToken(p)
    <3>1. LockGoes(p, "idle") /\ "idle" \in Outside
      BY <1>3, <2>3 DEF VerifyToken, Outside
    <3> QED
      BY <1>1, <2>1, <3>1, GoingOutKeeps
  <2> QED
    BY <2>2, <2>3
<1>4. CASE FallBehind(p)
  <2>1. pc[p] = "held" /\ late' = late \union {p} /\ UNCHANGED <<file, pc>> /\ "held" \in LockPoints
    BY <1>4 DEF FallBehind, LockAt, LockPoints, Owning
  <2>2. LockGoes(p, "held")
    BY <1>1, <2>1 DEF LockGoes
  <2> QED
    BY <1>1, <2>1, <2>2, WalkKeeps DEF Cleaning
<1> QED
  BY <1>2, <1>3, <1>4

\* The cleaner judges once more; what it goes on to wipe nobody owns.
LEMMA JudgingKeeps ==
  ASSUME LockTypeOK, LockParts, NEW p \in Contenders, JudgeAgain(p), excuses' = {}
  PROVE  LockParts'
<1>1. pc[p] = "recheck" /\ late' = late /\ UNCHANGED file /\ late \subseteq Contenders
  BY DEF JudgeAgain, LockAt, FilesAlone, LockTypeOK
<1>2. pc[p] \in Cleaning /\ p \notin late
  BY <1>1, NotLate DEF Cleaning
<1>3. CASE Stale
  <2>1. LockGoes(p, "wipe") /\ "wipe" \in LockPoints
    BY <1>3 DEF JudgeAgain, LockPoints, Cleaning
  <2>2. ~Uncovered
    <3> SUFFICES ASSUME Uncovered PROVE FALSE
      OBVIOUS
    <3>1. excuses' = excuses \union {"uncovered"}
      BY <1>3 DEF JudgeAgain
    <3> QED
      BY <3>1
  <2>3. \A q \in Contenders : ~Owner(q)
    BY <1>3, <2>2, OwnedIsNotStale DEF Uncovered
  <2>4. Exists("dir")
    BY <1>3, StaleIsThere
  <2>5. "wipe" \notin Owning
    BY DEF Owning
  <2> QED
    BY <1>1, <1>2, <2>1, <2>3, <2>4, <2>5, WalkKeeps
<1>4. CASE ~Stale
  <2>1. LockGoes(p, "unclaim") /\ "unclaim" \in LockPoints /\ "unclaim" \notin Owning
    BY <1>4 DEF JudgeAgain, LockPoints, Cleaning, Owning
  <2> QED
    BY <1>1, <1>2, <2>1, WalkKeeps
<1> QED
  BY <1>3, <1>4

-----------------------------------------------------------------------------
(***************************************************************************)
(* Steps that make and remove the directory and the breaker.               *)
(***************************************************************************)
LEMMA MakingKeeps ==
  ASSUME LockTypeOK, MadeBySomebody, LockParts, NEW p \in Contenders, MakeDir(p) \/ RemakeDir(p)
  PROVE  file' \in [Files -> FileRow] /\ MadeBySomebody' /\ LockParts'
<1>1. late' = late /\ late \subseteq Contenders /\ pc[p] \in {"make", "remake"} /\ p \notin late
  BY NotLate DEF MakeDir, RemakeDir, LockAt, LockTypeOK
<1>2. CASE Exists("dir")
  <2>1. UNCHANGED file /\ file' \in [Files -> FileRow] /\ MadeBySomebody'
    BY <1>2, FilesHaveRows DEF MakeDir, RemakeDir, MadeBySomebody
  <2>2. CASE MakeDir(p)
    <3>1. LockGoes(p, "check") /\ "check" \in Outside
      BY <1>2, <2>2 DEF MakeDir, Outside
    <3> QED
      BY <1>1, <2>1, <3>1, GoingOutKeeps
  <2>3. CASE RemakeDir(p)
    <3>1. LockGoes(p, "unclaim") /\ "unclaim" \in LockPoints /\ "unclaim" \notin Owning /\ pc[p] \in Cleaning
      BY <1>2, <2>3 DEF RemakeDir, LockAt, LockPoints, Cleaning, Owning
    <3> QED
      BY <1>1, <2>1, <3>1, WalkKeeps
  <2> QED
    BY <2>1, <2>2, <2>3
<1>3. CASE ~Exists("dir")
  <2>1. PICK point \in {"beat", "unclaimOwn"} :
          LockGoes(p, point) /\ MakesFile(p, "dir") /\ (point = "unclaimOwn" => pc[p] = "remake")
    BY <1>3 DEF MakeDir, RemakeDir, LockAt
  <2>2. "dir" \in Files /\ "dir" \notin Children /\ point \in LockPoints
    BY DEF Files, Children, LockPoints, Cleaning, Owning
  <2>3. /\ file' \in [Files -> FileRow] /\ MadeBySomebody' /\ file'["dir"] = FreshBy(p)
        /\ \A g \in Files \ {"dir"} : file'[g] = file[g]
    BY <2>1, <2>2, FileIsMade
  <2>4. pc' \in [Contenders -> LockPoints] /\ pc'[p] = point /\ \A q \in Contenders : q # p => pc'[q] = pc[q]
    BY <2>1, <2>2, LockMoves
  <2>5. (\A q \in Contenders : ~Owner(q)) /\ (\A q \in Contenders : pc[q] # "wipe")
    BY <1>3, OneOwner DEF LockParts, WipesTheUnowned
  <2>6. \A q \in Contenders : q # p => ~Owner(q)' /\ pc'[q] # "wipe"
    BY <1>1, <2>4, <2>5 DEF Owner
  <2>7. ChildrenThere = {} /\ ChildrenThere' = {}
    <3>1. ChildrenThere = {}
      BY <1>3 DEF LockParts, ChildrenInside
    <3>2. \A f \in Children : file'[f] = file[f]
      BY <2>2, <2>3 DEF Files
    <3> QED
      BY <3>1, <3>2 DEF ChildrenThere, Exists
  <2>8. OwnerHas(p)'
    BY <2>3, <2>4, <2>7 DEF OwnerHas, FreshBy
  <2>9. OwnersHave' /\ WipesTheUnowned'
    BY <2>4, <2>6, <2>8 DEF OwnersHave, WipesTheUnowned
  <2>10. LateArePast' /\ NobodyAbandons'
    BY <1>1, <2>4 DEF LockParts, LateArePast, NobodyAbandons
  <2>11. CleanersHold'
    <3>1. file'["breaker"] = file["breaker"]
      BY <2>3 DEF Files
    <3>2. point \in Cleaning => pc[p] \in Cleaning
      BY <2>1 DEF Cleaning
    <3> QED
      BY <2>4, <3>1, <3>2 DEF LockParts, CleanersHold
  <2>12. ChildrenInside'
    BY <2>7 DEF ChildrenInside
  <2> QED
    BY <2>3, <2>9, <2>10, <2>11, <2>12 DEF LockParts
<1> QED
  BY <1>2, <1>3

\* A step that changes the breaker alone, when who cleans afterwards holds it.
LEMMA BreakerKeeps ==
  ASSUME LockTypeOK, LockParts, NEW p \in Contenders, NEW point \in LockPoints, LockGoes(p, point), late' = late,
         \A g \in Files \ {"breaker"} : file'[g] = file[g],
         pc[p] \notin {"held", "verify", "idle"}, point \notin {"abandon", "wipe"},
         point \in Owning => Owner(p) /\ point = "beat" /\ pc[p] = "unclaimOwn",
         \A q \in Contenders : pc'[q] \in Cleaning => file'["breaker"].by = q
  PROVE  LockParts'
<1>1. pc' \in [Contenders -> LockPoints] /\ pc'[p] = point /\ \A q \in Contenders : q # p => pc'[q] = pc[q]
  BY LockMoves
<1>2. file'["dir"] = file["dir"] /\ file'["meta"] = file["meta"] /\ file'["heartbeat"] = file["heartbeat"]
  BY DEF Files, Children
<1>3. /\ Exists("dir")' = Exists("dir") /\ Exists("meta")' = Exists("meta") /\ ChildrenThere' = ChildrenThere
  BY <1>2 DEF Exists, ChildrenThere, Children
<1>4. \A q \in Contenders : q # p => (Owner(q)' <=> Owner(q)) /\ (OwnerHas(q)' <=> OwnerHas(q))
  BY <1>1, <1>2, <1>3 DEF Owner, OwnerHas
<1>5. Owner(p)' => Owner(p) /\ OwnerHas(p)'
  <2> SUFFICES ASSUME Owner(p)' PROVE Owner(p) /\ OwnerHas(p)'
    OBVIOUS
  <2>1. Owner(p) /\ pc'[p] = "beat" /\ pc[p] = "unclaimOwn"
    BY <1>1 DEF Owner
  <2>2. OwnerHas(p)
    BY <2>1 DEF LockParts, OwnersHave
  <2> QED
    BY <1>2, <1>3, <2>1, <2>2 DEF OwnerHas
<1>6. OwnersHave'
  BY <1>4, <1>5 DEF LockParts, OwnersHave
<1>7. LateArePast' /\ NobodyAbandons' /\ CleanersHold'
  <2>1. p \notin late /\ late \subseteq Contenders
    BY NotLate DEF LockTypeOK
  <2> QED
    BY <1>1, <2>1 DEF LockParts, LateArePast, NobodyAbandons, CleanersHold
<1>8. WipesTheUnowned'
  BY <1>1, <1>3, <1>4, <1>5 DEF LockParts, WipesTheUnowned
<1>9. ChildrenInside'
  BY <1>3 DEF LockParts, ChildrenInside
<1> QED
  BY <1>6, <1>7, <1>8, <1>9 DEF LockParts

LEMMA ClaimKeeps ==
  ASSUME LockTypeOK, MadeBySomebody, LockParts, NEW p \in Contenders, TakeBreaker(p)
  PROVE  file' \in [Files -> FileRow] /\ MadeBySomebody' /\ LockParts'
<1>1. late' = late /\ late \subseteq Contenders /\ pc[p] = "claim" /\ p \notin late /\ "breaker" \in Files
  BY NotLate DEF TakeBreaker, LockAt, LockTypeOK, Files
<1>2. CASE Exists("breaker")
  <2>1. PICK point \in {"dropBreaker", "waiting"} : LockGoes(p, point)
    BY <1>2 DEF TakeBreaker
  <2>2. UNCHANGED file /\ file' \in [Files -> FileRow] /\ MadeBySomebody' /\ point \in Outside
    BY <1>2, FilesHaveRows DEF TakeBreaker, MadeBySomebody, Outside
  <2> QED
    BY <1>1, <2>1, <2>2, GoingOutKeeps
<1>3. CASE ~Exists("breaker")
  <2>1. MakesFile(p, "breaker") /\ LockGoes(p, "recheck") /\ "recheck" \in LockPoints /\ "recheck" \notin Owning
    BY <1>3 DEF TakeBreaker, LockPoints, Cleaning, Owning
  <2>2. /\ file' \in [Files -> FileRow] /\ MadeBySomebody' /\ file'["breaker"] = FreshBy(p)
        /\ \A g \in Files \ {"breaker"} : file'[g] = file[g]
    <3>1. "breaker" \notin Children /\ "breaker" # "dir" /\ "dir" \in Files
      BY DEF Children, Files
    <3> QED
      BY <1>1, <2>1, <3>1, FileIsMade
  <2>3. pc'[p] = "recheck" /\ \A q \in Contenders : q # p => pc'[q] = pc[q]
    BY <2>1, LockMoves
  <2>4. \A q \in Contenders : pc[q] \notin Cleaning
    BY <1>1, <1>3 DEF LockParts, CleanersHold, MadeBySomebody, Exists
  <2>5. \A q \in Contenders : pc'[q] \in Cleaning => file'["breaker"].by = q
    BY <2>2, <2>3, <2>4 DEF FreshBy
  <2> QED
    BY <1>1, <2>1, <2>2, <2>5, BreakerKeeps
<1> QED
  BY <1>2, <1>3

LEMMA UnclaimKeeps ==
  ASSUME LockTypeOK, MadeBySomebody, LockParts, NEW p \in Contenders, DropBreaker(p) \/ ReturnBreaker(p), excuses' = {}
  PROVE  file' \in [Files -> FileRow] /\ MadeBySomebody' /\ LockParts'
<1>1. late' = late /\ late \subseteq Contenders /\ RemovesFile("breaker") /\ "breaker" \in Files
  BY DEF DropBreaker, ReturnBreaker, LockTypeOK, Files
<1>2. /\ file' \in [Files -> FileRow] /\ MadeBySomebody' /\ file'["breaker"] = NoFile
      /\ \A g \in Files \ {"breaker"} : file'[g] = file[g]
  <2>1. "breaker" \notin Children /\ "breaker" # "dir" /\ "dir" \in Files
    BY DEF Children, Files
  <2> QED
    BY <1>1, <2>1, FileIsRemoved
<1>3. CASE DropBreaker(p)
  <2>1. pc[p] = "dropBreaker" /\ LockGoes(p, "waiting") /\ "waiting" \in LockPoints /\ "waiting" \notin Owning \union Cleaning
    BY <1>3 DEF DropBreaker, LockAt, LockPoints, Owning, Cleaning
  <2>2. \A q \in Contenders : pc[q] \notin Cleaning
    BY <1>3 DEF DropBreaker
  <2>3. pc'[p] = "waiting" /\ \A q \in Contenders : q # p => pc'[q] = pc[q]
    BY <2>1, LockMoves
  <2>4. \A q \in Contenders : pc'[q] \notin Cleaning
    BY <2>1, <2>2, <2>3
  <2> QED
    BY <1>1, <1>2, <2>1, <2>4, BreakerKeeps
<1>4. CASE ReturnBreaker(p)
  <2>1. PICK point \in {"waiting", "beat", "idle"} : LockGoes(p, point) /\ (point = "beat" => pc[p] = "unclaimOwn")
    BY <1>4 DEF ReturnBreaker, AfterUnclaim
  <2>2. pc[p] \in {"unclaim", "unclaimOwn", "unclaimFail"} /\ pc[p] \in Cleaning
    BY <1>4 DEF ReturnBreaker, Cleaning
  <2>3. point \in LockPoints /\ point \notin Cleaning /\ (point \in Owning => point = "beat")
    BY DEF LockPoints, Owning, Cleaning
  <2>4. point \in Owning => Owner(p)
    <3>1. "unclaimOwn" \in Owning
      BY DEF Owning
    <3> QED
      BY <2>1, <2>3, <3>1, OwnsWhenOwning
  <2>5. pc'[p] = point /\ \A q \in Contenders : q # p => pc'[q] = pc[q]
    BY <2>1, <2>3, LockMoves
  <2>6. \A q \in Contenders : pc'[q] \notin Cleaning
    BY <2>2, <2>3, <2>5, OneCleaner
  <2> QED
    BY <1>1, <1>2, <2>1, <2>2, <2>3, <2>4, <2>6, BreakerKeeps
<1> QED
  BY <1>3, <1>4

-----------------------------------------------------------------------------
(***************************************************************************)
(* Removals.  Who removes is the owner, or cleans what nobody owns.        *)
(***************************************************************************)
LEMMA OnlyRemover ==
  ASSUME LockTypeOK, MadeBySomebody, LockParts, NEW p \in Contenders, pc[p] \in Removing
  PROVE  /\ pc[p] \in {"wipe", "erase"} /\ Exists("dir") /\ p \notin late
         /\ \A q \in Contenders : q # p => ~Owner(q) /\ pc[q] # "wipe"
         /\ pc[p] = "erase" => Owner(p)
<1>1. pc[p] \in {"wipe", "erase"}
  BY DEF Removing, LockParts, NobodyAbandons
<1>2. p \notin late
  BY <1>1, NotLate
<1>3. CASE pc[p] = "wipe"
  <2>1. \A q \in Contenders : q # p => pc[q] # "wipe"
    BY <1>3, OneCleaner DEF Cleaning
  <2> QED
    BY <1>1, <1>2, <1>3, <2>1 DEF LockParts, WipesTheUnowned
<1>4. CASE pc[p] = "erase"
  <2>1. Owner(p)
    BY <1>2, <1>4 DEF Owner, Owning
  <2> QED
    BY <1>1, <1>2, <2>1, OneOwner
<1> QED
  BY <1>1, <1>3, <1>4

LEMMA ScanKeeps ==
  ASSUME LockTypeOK, MadeBySomebody, LockParts, NEW p \in Contenders, ScanDir(p)
  PROVE  UNCHANGED <<file, pc, late>> /\ LockParts'
<1>1. pc[p] \in Removing /\ UNCHANGED <<file, late>>
  BY DEF ScanDir
<1>2. Exists("dir")
  BY <1>1, OnlyRemover
<1>3. file' = file /\ pc' = pc /\ late' = late
  BY <1>1, <1>2 DEF ScanDir
<1> QED
  BY <1>3 DEF LockParts, LateArePast, NobodyAbandons, CleanersHold, OwnersHave, WipesTheUnowned, ChildrenInside,
              Owner, OwnerHas, ChildrenThere, Exists

\* A child is taken out of a directory that is being removed.
LEMMA UnlinkKeeps ==
  ASSUME LockTypeOK, MadeBySomebody, LockParts, NEW p \in Contenders, NEW f \in Children, UnlinkChild(p, f)
  PROVE  file' \in [Files -> FileRow] /\ MadeBySomebody' /\ LockParts'
<1>1. pc[p] \in Removing /\ pc' = pc /\ late' = late /\ f \in Files /\ "dir" \in Files /\ f # "dir"
  BY DEF UnlinkChild, Files, Children
<1>2. /\ file' \in [Files -> FileRow] /\ MadeBySomebody'
      /\ file'["dir"].by = file["dir"].by /\ file'["breaker"] = file["breaker"]
  <2>1. CASE Exists(f)
    <3>1. RemovesFile(f)
      BY <2>1 DEF UnlinkChild
    <3>2. "breaker" \in Files \ {f, "dir"}
      BY DEF Files, Children
    <3> QED
      BY <1>1, <3>1, <3>2, FileIsRemoved
  <2>2. CASE ~Exists(f)
    BY <2>2, FilesHaveRows DEF UnlinkChild, MadeBySomebody
  <2> QED
    BY <2>1, <2>2
<1>3. /\ pc[p] \in {"wipe", "erase"} /\ Exists("dir") /\ p \notin late
      /\ \A q \in Contenders : q # p => ~Owner(q) /\ pc[q] # "wipe"
      /\ pc[p] = "erase" => Owner(p)
  BY <1>1, OnlyRemover
<1>4. Exists("dir")'
  BY <1>1, <1>2, <1>3 DEF MadeBySomebody, Exists
<1>5. \A q \in Contenders : Owner(q)' <=> Owner(q)
  BY <1>1 DEF Owner
<1>6. LateArePast' /\ NobodyAbandons' /\ CleanersHold'
  BY <1>1, <1>2 DEF LockParts, LateArePast, NobodyAbandons, CleanersHold
<1>7. OwnersHave'
  <2> SUFFICES ASSUME NEW q \in Contenders, Owner(q) PROVE OwnerHas(q)'
    BY <1>5 DEF OwnersHave
  <2>1. q = p /\ pc[p] = "erase"
    BY <1>3 DEF LockParts, WipesTheUnowned
  <2>2. file["dir"].by = q
    BY DEF LockParts, OwnersHave, OwnerHas
  <2> QED
    BY <1>1, <1>2, <2>1, <2>2 DEF OwnerHas
<1>8. WipesTheUnowned'
  BY <1>1, <1>4, <1>5 DEF LockParts, WipesTheUnowned
<1>9. ChildrenInside'
  BY <1>4 DEF ChildrenInside
<1> QED
  BY <1>2, <1>6, <1>7, <1>8, <1>9 DEF LockParts

LEMMA RemovalKeeps ==
  ASSUME LockTypeOK, MadeBySomebody, LockParts, NEW p \in Contenders, RemoveDir(p)
  PROVE  file' \in [Files -> FileRow] /\ MadeBySomebody' /\ LockParts'
<1>1. pc[p] \in Removing /\ late' = late /\ late \subseteq Contenders
  BY DEF RemoveDir, LockTypeOK
<1>2. /\ pc[p] \in {"wipe", "erase"} /\ Exists("dir") /\ p \notin late
      /\ \A q \in Contenders : q # p => ~Owner(q) /\ pc[q] # "wipe"
      /\ pc[p] = "erase" => Owner(p)
  BY <1>1, OnlyRemover
<1>3. PICK point \in {"remake", "unclaimFail", "idle"} :
        LockGoes(p, point) /\ (point \in {"remake", "unclaimFail"} => pc[p] = "wipe")
  BY <1>2 DEF RemoveDir, AfterRemoval, AfterFailure
<1>4. point \in LockPoints /\ point \notin Owning /\ point \notin {"abandon", "wipe"} /\ (point \in Cleaning => pc[p] \in Cleaning)
  BY <1>3 DEF LockPoints, Owning, Cleaning
<1>5. CASE ChildrenThere # {}
  <2>1. UNCHANGED file /\ file' \in [Files -> FileRow] /\ MadeBySomebody'
    BY <1>5, FilesHaveRows DEF RemoveDir, MadeBySomebody
  <2> QED
    BY <1>1, <1>2, <1>3, <1>4, <2>1, WalkKeeps
<1>6. CASE ChildrenThere = {}
  <2>1. RemovesFile("dir") /\ "dir" \in Files /\ "dir" \notin Children
    BY <1>6 DEF RemoveDir, Files, Children
  <2>2. /\ file' \in [Files -> FileRow] /\ MadeBySomebody'
        /\ \A g \in Files \ {"dir"} : file'[g] = file[g]
    BY <2>1, FileIsRemoved
  <2>3. pc' \in [Contenders -> LockPoints] /\ pc'[p] = point /\ \A q \in Contenders : q # p => pc'[q] = pc[q]
    BY <1>3, <1>4, LockMoves
  <2>4. \A q \in Contenders : ~Owner(q)' /\ pc'[q] # "wipe"
    BY <1>1, <1>2, <1>4, <2>3 DEF Owner
  <2>5. ChildrenThere' = {}
    <3>1. \A f \in Children : file'[f] = file[f]
      BY <2>1, <2>2 DEF Files
    <3> QED
      BY <1>6, <3>1 DEF ChildrenThere, Exists
  <2>6. file'["breaker"] = file["breaker"]
    BY <2>2 DEF Files
  <2>7. LateArePast' /\ NobodyAbandons' /\ CleanersHold'
    BY <1>1, <1>2, <1>4, <2>3, <2>6 DEF LockParts, LateArePast, NobodyAbandons, CleanersHold
  <2>8. OwnersHave' /\ WipesTheUnowned' /\ ChildrenInside'
    BY <2>4, <2>5 DEF OwnersHave, WipesTheUnowned, ChildrenInside
  <2> QED
    BY <2>2, <2>7, <2>8 DEF LockParts
<1> QED
  BY <1>5, <1>6

-----------------------------------------------------------------------------
(***************************************************************************)
(* The owner fills the directory it has made.                              *)
(***************************************************************************)
LEMMA WritingKeeps ==
  ASSUME LockTypeOK, MadeBySomebody, LockParts, NEW p \in Contenders, WriteHeartbeat(p) \/ WriteMeta(p)
  PROVE  file' \in [Files -> FileRow] /\ MadeBySomebody' /\ LockParts'
<1>1. pc[p] \in {"beat", "sign"} /\ late' = late /\ late \subseteq Contenders /\ p \notin late
  BY NotLate DEF WriteHeartbeat, WriteMeta, WriteNew, LockAt, LockTypeOK
<1>2. Owner(p) /\ OwnerHas(p)
  BY <1>1 DEF LockParts, OwnersHave, Owner, Owning
<1>3. Exists("dir") /\ (\A q \in Contenders : Owner(q) => q = p) /\ \A q \in Contenders : pc[q] # "wipe"
  BY <1>2, OneOwner
<1>4. /\ "heartbeat" \in Files /\ "meta" \in Files /\ "dir" \in Files /\ "breaker" \in Files
      /\ "heartbeat" \in Children /\ "meta" \in Children /\ "dir" \notin Children
  BY DEF Files, Children
<1>5. ASSUME NEW point \in {"sign", "held"}, LockGoes(p, point), MadeBySomebody', file' \in [Files -> FileRow],
             file'["dir"].by = file["dir"].by, file'["breaker"] = file["breaker"],
             file'["heartbeat"] = FreshBy(p), point = "sign" => ~Exists("meta")', point = "held" => file'["meta"].by = p
      PROVE  LockParts'
  <2>1. point \in LockPoints /\ point \in Owning /\ point \notin Cleaning
    BY DEF LockPoints, Owning, Cleaning
  <2>2. pc' \in [Contenders -> LockPoints] /\ pc'[p] = point /\ \A q \in Contenders : q # p => pc'[q] = pc[q]
    BY <1>5, <2>1, LockMoves
  <2>3. \A q \in Contenders : Owner(q)' => q = p
    BY <1>1, <1>3, <2>2 DEF Owner
  <2>4. OwnerHas(p)'
    BY <1>2, <1>5, <2>2 DEF OwnerHas
  <2>5. LateArePast' /\ NobodyAbandons' /\ CleanersHold'
    BY <1>1, <1>5, <2>1, <2>2 DEF LockParts, LateArePast, NobodyAbandons, CleanersHold
  <2>6. Exists("dir")'
    BY <1>3, <1>4, <1>5 DEF MadeBySomebody, Exists
  <2> QED
    BY <1>3, <2>2, <2>3, <2>4, <2>5, <2>6 DEF LockParts, OwnersHave, WipesTheUnowned, ChildrenInside
<1>6. CASE WriteHeartbeat(p)
  <2>1. pc[p] = "beat" /\ ~Exists("heartbeat") /\ ~Exists("meta")
    BY <1>2, <1>6 DEF WriteHeartbeat, LockAt, OwnerHas, ChildrenThere, Children
  <2>2. MakesFile(p, "heartbeat") /\ LockGoes(p, "sign")
    BY <1>3, <1>6, <2>1 DEF WriteHeartbeat, WriteNew
  <2>3. /\ file' \in [Files -> FileRow] /\ MadeBySomebody' /\ file'["heartbeat"] = FreshBy(p)
        /\ \A g \in Files \ {"heartbeat", "dir"} : file'[g] = file[g]
        /\ file'["dir"].by = file["dir"].by
    BY <1>4, <2>2, FileIsMade
  <2>4. ~Exists("meta")' /\ file'["breaker"] = file["breaker"]
    BY <1>4, <2>1, <2>3 DEF Exists
  <2> QED
    BY <1>5, <2>2, <2>3, <2>4
<1>7. CASE WriteMeta(p)
  <2>1. pc[p] = "sign" /\ ~Exists("meta") /\ file["heartbeat"] = FreshBy(p)
    BY <1>2, <1>7 DEF WriteMeta, LockAt, OwnerHas
  <2>2. MakesFile(p, "meta") /\ LockGoes(p, "held")
    BY <1>3, <1>7, <2>1 DEF WriteMeta, WriteNew
  <2>3. /\ file' \in [Files -> FileRow] /\ MadeBySomebody' /\ file'["meta"] = FreshBy(p)
        /\ \A g \in Files \ {"meta", "dir"} : file'[g] = file[g]
        /\ file'["dir"].by = file["dir"].by
    BY <1>4, <2>2, FileIsMade
  <2>4. file'["heartbeat"] = FreshBy(p) /\ file'["breaker"] = file["breaker"] /\ file'["meta"].by = p
    BY <1>4, <2>1, <2>3 DEF FreshBy
  <2> QED
    BY <1>5, <2>2, <2>3, <2>4
<1> QED
  BY <1>6, <1>7

(***************************************************************************)
(* Time.  Only the age of one file changes.                                *)
(***************************************************************************)
LEMMA AgeChanges ==
  ASSUME LockTypeOK, MadeBySomebody, NEW f \in Files, Exists(f), NEW age \in {"fresh", "old"},
         file' = [file EXCEPT ![f].age = age]
  PROVE  /\ file' \in [Files -> FileRow] /\ MadeBySomebody'
         /\ file'[f].age = age /\ file'[f].by = file[f].by
         /\ \A g \in Files : g # f => file'[g] = file[g]
<1>1. file \in [Files -> FileRow]
  BY FilesHaveRows
<1> DEFINE now == [age |-> age, by |-> file[f].by]
<1>2. [file[f] EXCEPT !.age = age] = now
  BY <1>1 DEF FileRow
<1>3. now \in FileRow /\ now.age = age /\ now.by = file[f].by
  BY <1>1 DEF FileRow
<1> HIDE DEF now
<1>4. file' = [file EXCEPT ![f] = now]
  BY <1>1, <1>2
<1>5. file' \in [Files -> FileRow] /\ file'[f] = now /\ \A g \in Files : g # f => file'[g] = file[g]
  BY <1>1, <1>3, <1>4
<1>6. MadeBySomebody'
  <2> SUFFICES ASSUME NEW g \in Files PROVE file'[g].by = NoOne <=> file'[g].age = "none"
    BY DEF MadeBySomebody
  <2>1. CASE g = f
    BY <1>3, <1>5, <2>1 DEF MadeBySomebody, Exists
  <2>2. CASE g # f
    BY <1>5, <2>2 DEF MadeBySomebody
  <2> QED
    BY <2>1, <2>2
<1> QED
  BY <1>3, <1>5, <1>6

\* What an owner has is minded while it has to be fresh.
LEMMA AgingKeeps ==
  ASSUME Renewing, LockTypeOK, MadeBySomebody, LockParts, NEW f \in Files, NEW age \in {"fresh", "old"}, Exists(f),
         file' = [file EXCEPT ![f].age = age], UNCHANGED <<pc, late>>,
         age = "old" => \A p \in Contenders : ~(Punctual(p) /\ file[f].by = p /\ Minded(f, p))
  PROVE  file' \in [Files -> FileRow] /\ MadeBySomebody' /\ LockParts'
<1>1. /\ file' \in [Files -> FileRow] /\ MadeBySomebody'
      /\ file'[f].age = age /\ file'[f].by = file[f].by
      /\ \A g \in Files : g # f => file'[g] = file[g]
  BY AgeChanges
<1>2. \A g \in Files : file'[g].by = file[g].by /\ (file'[g].age = "none" <=> file[g].age = "none")
  BY <1>1 DEF Exists
<1>3. /\ "heartbeat" \in Files /\ "meta" \in Files /\ "dir" \in Files /\ "breaker" \in Files
      /\ Children \subseteq Files
  BY DEF Files, Children
<1>4. (\A g \in Files : Exists(g)' <=> Exists(g)) /\ ChildrenThere' = ChildrenThere
  BY <1>2, <1>3 DEF Exists, ChildrenThere
<1>5. ASSUME NEW p \in Contenders, Owner(p) PROVE OwnerHas(p)'
  <2>1. OwnerHas(p) /\ Punctual(p) /\ pc[p] \in Owning
    BY <1>5 DEF LockParts, OwnersHave, Owner, Punctual, LiveProcess, LockAt, Owning
  <2>2. CASE age = "fresh"
    <3>1. file["dir"].age = "fresh" => file'["dir"].age = "fresh"
      BY <1>1, <1>3, <2>2
    <3>2. file["heartbeat"] = FreshBy(p) => file'["heartbeat"] = FreshBy(p)
      <4>1. CASE f = "heartbeat"
        <5>1. file'["heartbeat"].age = "fresh" /\ file'["heartbeat"].by = file["heartbeat"].by
          BY <1>1, <2>2, <4>1
        <5>2. file'["heartbeat"] \in FileRow
          BY <1>1, <1>3
        <5> QED
          BY <5>1, <5>2 DEF FreshBy, FileRow
      <4>2. CASE f # "heartbeat"
        BY <1>1, <1>3, <4>2
      <4> QED
        BY <4>1, <4>2
    <3> QED
      BY <1>2, <1>3, <1>4, <2>1, <3>1, <3>2, <1>5 DEF OwnerHas
  <2>3. CASE age = "old"
    <3>1. file[f].by = p => ~Minded(f, p)
      BY <2>1, <2>3
    <3>2. pc[p] \in {"unclaimOwn", "beat"} => f # "dir"
      BY <2>1, <3>1 DEF Minded, OwnerHas, Owning
    <3>3. pc[p] \in {"sign", "held", "verify"} => f # "heartbeat"
      <4> SUFFICES ASSUME pc[p] \in {"sign", "held", "verify"}, f = "heartbeat" PROVE FALSE
        OBVIOUS
      <4>1. file["heartbeat"].by = p
        BY <2>1 DEF OwnerHas, FreshBy
      <4>2. pc[p] \in Owning /\ (LockAt(p, "held") => Renewing)
        BY <2>1
      <4>3. Minded("heartbeat", p) <=> (pc[p] \in Owning /\ (LockAt(p, "held") => Renewing))
        BY DEF Minded
      <4> QED
        BY <3>1, <4>1, <4>2, <4>3
    <3> QED
      BY <1>1, <1>2, <1>3, <1>4, <2>1, <3>2, <3>3 DEF OwnerHas
  <2> QED
    BY <2>2, <2>3
<1>6. \A p \in Contenders : Owner(p)' <=> Owner(p)
  BY DEF Owner
<1>7. OwnersHave'
  BY <1>5, <1>6 DEF OwnersHave
<1>8. LateArePast' /\ NobodyAbandons' /\ CleanersHold'
  BY <1>2, <1>3 DEF LockParts, LateArePast, NobodyAbandons, CleanersHold
<1>9. WipesTheUnowned' /\ ChildrenInside'
  BY <1>3, <1>4, <1>6 DEF LockParts, WipesTheUnowned, ChildrenInside
<1> QED
  BY <1>1, <1>7, <1>8, <1>9 DEF LockParts

-----------------------------------------------------------------------------
LEMMA LockInitially == LockInit => LockInvariant
<1> SUFFICES ASSUME LockInit PROVE LockInvariant
  OBVIOUS
<1>1. /\ file = [f \in Files |-> NoFile] /\ pc = [p \in Contenders |-> "idle"]
      /\ left = [p \in Contenders |-> {}] /\ late = {} /\ excuses = {}
  BY DEF LockInit
<1>2. NoFile \in [age : {"none", "fresh", "old"}, by : Contenders \union {NoOne}] /\ NoFile.age = "none" /\ NoFile.by = NoOne
  BY DEF NoFile
<1>3. LockTypeOK
  <2>1. file \in [Files -> [age : {"none", "fresh", "old"}, by : Contenders \union {NoOne}]]
    BY <1>1, <1>2
  <2>2. pc \in [Contenders -> LockPoints]
    BY <1>1 DEF LockPoints
  <2> QED
    BY <1>1, <2>1, <2>2 DEF LockTypeOK
<1>4. MadeBySomebody
  BY <1>1, <1>2 DEF MadeBySomebody
<1>5. LateArePast /\ NobodyAbandons /\ CleanersHold /\ WipesTheUnowned
  BY <1>1 DEF LateArePast, NobodyAbandons, CleanersHold, WipesTheUnowned, Cleaning
<1>6. OwnersHave
  BY <1>1 DEF OwnersHave, Owner, Owning
<1>7. ChildrenInside
  BY <1>1, <1>2 DEF ChildrenInside, ChildrenThere, Exists, Children, Files
<1> QED
  BY <1>3, <1>4, <1>5, <1>6, <1>7 DEF LockInvariant, LockParts

\* Where a step of the lock takes a process, and what it adds to the excuses.
LEMMA PcStaysTyped ==
  ASSUME LockTypeOK, [LockNext]_lockVars
  PROVE  /\ pc' \in [Contenders -> LockPoints] /\ left' \in [Contenders -> SUBSET (Children \union {"dir"})]
         /\ late' \subseteq Contenders
         /\ excuses' \subseteq {"late", "breaker", "uncovered"} /\ excuses \subseteq excuses'
<1>1. /\ pc \in [Contenders -> LockPoints] /\ left \in [Contenders -> SUBSET (Children \union {"dir"})]
      /\ late \subseteq Contenders /\ excuses \subseteq {"late", "breaker", "uncovered"}
  BY DEF LockTypeOK
<1>2. ASSUME NEW p \in Contenders,
             TryAgain(p) \/ MakeDir(p) \/ CheckStale(p) \/ TakeBreaker(p) \/ RemakeDir(p) \/ WriteHeartbeat(p) \/ WriteMeta(p)
               \/ TryLock(p) \/ LockTimesOut(p) \/ RenewHeartbeat(p) \/ ReleaseLock(p)
      PROVE  /\ pc' \in [Contenders -> LockPoints] /\ left' = left /\ late' \subseteq Contenders /\ excuses' = excuses
  BY <1>1, <1>2 DEF TryAgain, MakeDir, CheckStale, TakeBreaker, RemakeDir, WriteHeartbeat, WriteMeta, WriteNew, TryLock,
       LockTimesOut, RenewHeartbeat, ReleaseLock, FilesAlone, LockGoes, LockPoints, Cleaning, Owning
<1>3. ASSUME NEW p \in Contenders, DropBreaker(p) \/ JudgeAgain(p) \/ VerifyToken(p) \/ ReturnBreaker(p)
      PROVE  /\ pc' \in [Contenders -> LockPoints] /\ left' = left /\ late' \subseteq Contenders
             /\ excuses' \subseteq {"late", "breaker", "uncovered"} /\ excuses \subseteq excuses'
  <2>1. pc' \in [Contenders -> LockPoints] /\ left' = left /\ late' = late
    BY <1>1, <1>3 DEF DropBreaker, JudgeAgain, VerifyToken, ReturnBreaker, AfterUnclaim, FilesAlone, LockGoes, LockPoints, Cleaning, Owning
  <2>2. excuses' \in {excuses, excuses \union {"breaker"}, excuses \union {"uncovered"}, excuses \union {"late"}}
    BY <1>3 DEF DropBreaker, JudgeAgain, VerifyToken, ReturnBreaker
  <2> QED
    BY <1>1, <2>1, <2>2
<1>4. ASSUME NEW p \in Contenders, ScanDir(p) \/ (\E f \in Children : UnlinkChild(p, f)) \/ RemoveDir(p)
      PROVE  /\ pc' \in [Contenders -> LockPoints] /\ left' \in [Contenders -> SUBSET (Children \union {"dir"})]
             /\ late' = late /\ excuses' = excuses
  <2>1. ChildrenThere \union {"dir"} \in SUBSET (Children \union {"dir"})
    BY DEF ChildrenThere
  <2>2. pc' \in [Contenders -> LockPoints]
    BY <1>1, <1>4 DEF ScanDir, UnlinkChild, RemoveDir, AfterRemoval, AfterFailure, LockGoes, LockPoints, Cleaning, Owning
  <2>3. left' \in [Contenders -> SUBSET (Children \union {"dir"})] /\ late' = late /\ excuses' = excuses
    BY <1>1, <1>4, <2>1 DEF ScanDir, UnlinkChild, RemoveDir
  <2> QED
    BY <2>2, <2>3
<1>5. ASSUME NEW p \in Contenders, DieAnywhere(p) \/ FallBehind(p)
      PROVE  /\ pc' \in [Contenders -> LockPoints] /\ left' \in [Contenders -> SUBSET (Children \union {"dir"})]
             /\ late' \subseteq Contenders /\ excuses' = excuses
  BY <1>1, <1>5 DEF DieAnywhere, FallBehind, LockGoes, LockPoints
<1>6. ASSUME NEW f \in Files, GrowOld(f)
      PROVE  pc' = pc /\ left' = left /\ late' = late /\ excuses' = excuses
  BY <1>6 DEF GrowOld
<1>7. CASE UNCHANGED lockVars
  BY <1>1, <1>7 DEF lockVars
<1> QED
  BY <1>1, <1>2, <1>3, <1>4, <1>5, <1>6, <1>7 DEF LockNext, LockSteps

\* Every step makes a file, removes one, changes the age of one, or leaves them all.
LEMMA FilesStayMade ==
  ASSUME LockTypeOK, MadeBySomebody, [LockNext]_lockVars
  PROVE  file' \in [Files -> FileRow] /\ MadeBySomebody'
<1>1. /\ "heartbeat" \in Files /\ "meta" \in Files /\ "dir" \in Files /\ "breaker" \in Files /\ Children \subseteq Files
  BY DEF Files, Children
<1>2. CASE UNCHANGED file
  BY <1>2, FilesHaveRows DEF MadeBySomebody
<1>3. ASSUME NEW p \in Contenders, NEW f \in Files, MakesFile(p, f) PROVE file' \in [Files -> FileRow] /\ MadeBySomebody'
  BY <1>3, FileIsMade
<1>4. ASSUME NEW f \in Files, RemovesFile(f) PROVE file' \in [Files -> FileRow] /\ MadeBySomebody'
  BY <1>4, FileIsRemoved
<1>5. ASSUME NEW f \in Files, GrowOld(f) PROVE file' \in [Files -> FileRow] /\ MadeBySomebody'
  <2>1. Exists(f) /\ file' = [file EXCEPT ![f].age = "old"]
    BY <1>5 DEF GrowOld, Exists
  <2> QED
    BY <2>1, AgeChanges
<1>6. ASSUME NEW p \in Contenders, RenewHeartbeat(p) PROVE file' \in [Files -> FileRow] /\ MadeBySomebody'
  <2>1. Exists("heartbeat") /\ file' = [file EXCEPT !["heartbeat"].age = "fresh"]
    BY <1>6 DEF RenewHeartbeat
  <2> QED
    BY <1>1, <2>1, AgeChanges
<1>7. ASSUME NEW p \in Contenders, LockSteps(p)
      PROVE  UNCHANGED file \/ (\E f \in Files : MakesFile(p, f)) \/ (\E f \in Files : RemovesFile(f))
  <2>1. CASE TryAgain(p) \/ MakeDir(p) \/ CheckStale(p) \/ TakeBreaker(p) \/ JudgeAgain(p) \/ RemakeDir(p) \/ VerifyToken(p)
    BY <1>1, <2>1 DEF TryAgain, MakeDir, CheckStale, TakeBreaker, JudgeAgain, RemakeDir, VerifyToken, FilesAlone
  <2>2. CASE DropBreaker(p) \/ ReturnBreaker(p) \/ ScanDir(p) \/ (\E f \in Children : UnlinkChild(p, f)) \/ RemoveDir(p)
    BY <1>1, <2>2 DEF DropBreaker, ReturnBreaker, ScanDir, UnlinkChild, RemoveDir
  <2>3. CASE WriteHeartbeat(p) \/ WriteMeta(p)
    BY <1>1, <2>3 DEF WriteHeartbeat, WriteMeta, WriteNew
  <2> QED
    BY <1>7, <2>1, <2>2, <2>3 DEF LockSteps
<1>8. ASSUME NEW p \in Contenders, TryLock(p) \/ LockTimesOut(p) \/ ReleaseLock(p) \/ DieAnywhere(p) \/ FallBehind(p)
      PROVE  UNCHANGED file
  BY <1>8 DEF TryLock, LockTimesOut, ReleaseLock, DieAnywhere, FallBehind, FilesAlone
<1>9. CASE UNCHANGED lockVars
  BY <1>2, <1>9 DEF lockVars
<1> QED
  BY <1>2, <1>3, <1>4, <1>5, <1>6, <1>7, <1>8, <1>9 DEF LockNext

LEMMA LockStep ==
  ASSUME Renewing, LockInvariant, [LockNext]_lockVars
  PROVE  LockInvariant'
<1>1. LockTypeOK /\ MadeBySomebody /\ (excuses = {} => LockParts)
  BY DEF LockInvariant
<1>2. /\ pc' \in [Contenders -> LockPoints] /\ left' \in [Contenders -> SUBSET (Children \union {"dir"})]
      /\ late' \subseteq Contenders
      /\ excuses' \subseteq {"late", "breaker", "uncovered"} /\ excuses \subseteq excuses'
  BY <1>1, PcStaysTyped
<1>3. file' \in [Files -> FileRow] /\ MadeBySomebody'
  BY <1>1, FilesStayMade
<1>4. LockTypeOK'
  BY <1>2, <1>3 DEF LockTypeOK, FileRow
<1>5. SUFFICES ASSUME excuses' = {}, LockParts PROVE LockParts'
  BY <1>1, <1>2, <1>3, <1>4 DEF LockInvariant
<1>6. ASSUME NEW p \in Contenders, LockSteps(p) PROVE LockParts'
  <2>1. CASE TryAgain(p) \/ CheckStale(p)
    BY <1>1, <1>5, <2>1, StrollKeeps
  <2>2. CASE MakeDir(p) \/ RemakeDir(p)
    BY <1>1, <1>5, <2>2, MakingKeeps
  <2>3. CASE TakeBreaker(p)
    BY <1>1, <1>5, <2>3, ClaimKeeps
  <2>4. CASE DropBreaker(p) \/ ReturnBreaker(p)
    BY <1>1, <1>5, <2>4, UnclaimKeeps
  <2>5. CASE JudgeAgain(p)
    BY <1>1, <1>5, <2>5, JudgingKeeps
  <2>6. CASE ScanDir(p)
    BY <1>1, <1>5, <2>6, ScanKeeps
  <2>7. CASE \E f \in Children : UnlinkChild(p, f)
    BY <1>1, <1>5, <2>7, UnlinkKeeps
  <2>8. CASE RemoveDir(p)
    BY <1>1, <1>5, <2>8, RemovalKeeps
  <2>9. CASE WriteHeartbeat(p) \/ WriteMeta(p)
    BY <1>1, <1>5, <2>9, WritingKeeps
  <2>10. CASE VerifyToken(p)
    BY <1>1, <1>5, <2>10, SectionKeeps
  <2> QED
    BY <1>6, <2>1, <2>2, <2>3, <2>4, <2>5, <2>6, <2>7, <2>8, <2>9, <2>10 DEF LockSteps
<1>7. ASSUME NEW p \in Contenders, TryLock(p) \/ LockTimesOut(p) \/ DieAnywhere(p) PROVE LockParts'
  BY <1>1, <1>5, <1>7, StrollKeeps
<1>8. ASSUME NEW p \in Contenders, ReleaseLock(p) \/ FallBehind(p) PROVE LockParts'
  BY <1>1, <1>5, <1>8, SectionKeeps
<1>9. ASSUME NEW p \in Contenders, RenewHeartbeat(p) PROVE LockParts'
  <2>1. /\ Exists("heartbeat") /\ file' = [file EXCEPT !["heartbeat"].age = "fresh"] /\ UNCHANGED <<pc, late>>
        /\ "heartbeat" \in Files
    BY <1>9 DEF RenewHeartbeat, Files, Children
  <2> QED
    BY <1>1, <1>5, <2>1, AgingKeeps
<1>10. ASSUME NEW f \in Files, GrowOld(f) PROVE LockParts'
  <2>1. /\ Exists(f) /\ file' = [file EXCEPT ![f].age = "old"] /\ UNCHANGED <<pc, late>>
        /\ \A p \in Contenders : ~(Punctual(p) /\ file[f].by = p /\ Minded(f, p))
    BY <1>10 DEF GrowOld, Exists
  <2> QED
    BY <1>1, <1>5, <2>1, AgingKeeps
<1>11. CASE UNCHANGED lockVars
  <2>1. file' = file /\ pc' = pc /\ late' = late
    BY <1>11 DEF lockVars
  <2> QED
    BY <1>5, <2>1 DEF LockParts, LateArePast, NobodyAbandons, CleanersHold, OwnersHave, WipesTheUnowned, ChildrenInside,
       Owner, OwnerHas, ChildrenThere, Exists
<1> QED
  BY <1>6, <1>7, <1>8, <1>9, <1>10, <1>11 DEF LockNext

(***************************************************************************)
(* The files keep their makers, and as long as nothing has happened that   *)
(* the protocol does not provide for there is one owner, who has what it   *)
(* has made, and cleaners wipe what nobody owns.                           *)
(***************************************************************************)
THEOREM LockSound ==
  ASSUME Renewing
  PROVE  LockSpec => []LockInvariant
BY LockInitially, LockStep, PTL DEF LockSpec

LEMMA InsideOwns ==
  ASSUME LockInvariant, excuses = {}, NEW p \in Contenders, InsideLock(p)
  PROVE  file["meta"].by = p /\ file["heartbeat"].by = p
<1>1. Owner(p) /\ pc[p] \in {"held", "verify"}
  BY DEF InsideLock, Owner, Owning
<1>2. OwnerHas(p)
  BY <1>1 DEF LockInvariant, LockParts, OwnersHave
<1> QED
  BY <1>1, <1>2 DEF OwnerHas, FreshBy

(***************************************************************************)
(* A holder finds its own token and its own heartbeat when it comes to     *)
(* release, for any number of processes, deaths and suspensions, where the *)
(* heartbeat moves the mtime as in flock.ts: HeldIsMine.                   *)
(***************************************************************************)
THEOREM HoldersFindTheirOwn ==
  ASSUME Renewing
  PROVE  LockSpec => []HeldIsMine
<1>1. LockInvariant => HeldIsMine
  BY InsideOwns DEF HeldIsMine
<1> QED
  BY <1>1, LockSound, PTL

(***************************************************************************)
(* And so there is one holder: Exclusive, which effect-flock.ts breaks and *)
(* flock.ts keeps.                                                         *)
(***************************************************************************)
THEOREM HoldersExclude ==
  ASSUME Renewing
  PROVE  LockSpec => []Exclusive
<1>1. LockInvariant => Exclusive
  BY InsideOwns DEF Exclusive
<1> QED
  BY <1>1, LockSound, PTL
=============================================================================
