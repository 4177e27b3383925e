------------------------- MODULE ContextEpochProofs -------------------------
(***************************************************************************)
(* What the system context of a session guarantees to its model, for any   *)
(* number of drains, places, agents and events.                            *)
(***************************************************************************)
EXTENDS ContextEpoch, TLAPS

Row == epoch # NoEpoch
HasRead(d) == drain[d].stored \notin {Unread, NoEpoch}
HasSeen(d) == drain[d].seen \notin {Unread, Unavailable}

\* Where a drain is tells what it has read.
ReadsInOrder(d) ==
  /\ HasRead(d) => drain[d].at \in {"prepare", "ready", "load", "check", "calling"}
  /\ drain[d].at \in {"ready", "load", "check"} => HasRead(d)

\* What a drain observes is for its place and its agent.
SeesItsOwn(d) == HasSeen(d) => drain[d].seen.place = drain[d].place /\ drain[d].seen.agent = drain[d].agent

\* A drain that a move has not overtaken is where the session is, and a row that it
\* has read is not from before the move.
InPlace(d) == InTurn(d) /\ d \notin behind => drain[d].place = place
KnowsNoRow(d) == ~Row /\ HasRead(d) => d \in behind

\* All updates are events that have happened, and one of them is the last.
UpdatesHappened ==
  /\ \A u \in updates : u.seq <= events
  /\ updates # {} => \E last \in updates : \A u \in updates : u.seq <= last.seq

\* The row while no drain is behind: what it says was told is what is told, and no
\* update is later than a request.
RowSound ==
  /\ epoch.snapshot.place = place
  /\ epoch.baseline.place = place
  /\ epoch.snapshot.agent = epoch.agent
  /\ epoch.since <= events /\ epoch.wanted <= events
  /\ epoch.wanted # NoRequest => UpdatesAfter(epoch.wanted) = {}
  /\ Told(epoch) = epoch.snapshot

\* What a drain has read of that row: a revision of it, and the row itself if the
\* revision is the current one.
ReadSound(d) ==
  /\ InTurn(d) => drain[d].place = place
  /\ HasRead(d) =>
       /\ drain[d].stored.revision <= epoch.revision
       /\ drain[d].stored.revision = epoch.revision => drain[d].stored = epoch
  /\ At(d, "check") /\ drain[d].stored.revision = epoch.revision => drain[d].told = epoch.snapshot

Sound == Row /\ ~overlapped => RowSound /\ \A d \in Drains : ReadSound(d)

EpochInvariant ==
  /\ EpochTypeOK
  /\ \A d \in Drains : ReadsInOrder(d) /\ SeesItsOwn(d) /\ InPlace(d) /\ KnowsNoRow(d)
  /\ UpdatesHappened
  /\ Sound

Turn == [at : Points, place : Places, agent : Agents, seen : Value \union {Unread, Unavailable},
         stored : EpochRow \union {NoEpoch, Unread}, told : Value \union {Unread}]

USE EpochAssumption, NoRowIsNoRow

-----------------------------------------------------------------------------
\* The invariant holds at first.
LEMMA EpochInitially == EpochInit => EpochInvariant
<1> SUFFICES ASSUME EpochInit PROVE EpochInvariant
  OBVIOUS
<1>1. Drain("resting", place, DefaultAgent) \in Turn
  BY DEF EpochInit, Drain, Turn, Points
<1>2. EpochTypeOK
  <2>1. drain \in [Drains -> Turn]
    BY <1>1 DEF EpochInit
  <2>2. events \in 0 .. MaxEvents /\ world \in 0 .. MaxWorld
    BY DEF EpochInit
  <2> QED
    BY <2>1, <2>2 DEF EpochInit, EpochTypeOK, Turn
<1>3. \A d \in Drains : ReadsInOrder(d) /\ SeesItsOwn(d) /\ InPlace(d) /\ KnowsNoRow(d)
  BY DEF EpochInit, Drain, ReadsInOrder, SeesItsOwn, InPlace, KnowsNoRow, HasRead, HasSeen, InTurn
<1>4. UpdatesHappened /\ Sound
  BY DEF EpochInit, UpdatesHappened, Sound, Row
<1> QED
  BY <1>2, <1>3, <1>4 DEF EpochInvariant

\* A step of one drain that leaves the session, the row and the history as they are.
LEMMA DrainAlone ==
  ASSUME EpochInvariant, OnlyDrains, NEW d \in Drains, NEW turn \in Turn, Becomes(d, turn),
         turn.stored \notin {Unread, NoEpoch} => turn.at \in {"prepare", "ready", "load", "check", "calling"},
         turn.at \in {"ready", "load", "check"} => turn.stored \notin {Unread, NoEpoch},
         turn.seen \notin {Unread, Unavailable} =>
           turn.seen.place = turn.place /\ turn.seen.agent = turn.agent,
         turn.at \notin {"resting", "turn"} => InTurn(d) /\ turn.place = drain[d].place,
         turn.stored = drain[d].stored \/ turn.stored \in {Unread, NoEpoch} \/ turn.stored = epoch,
         Sound /\ Row /\ ~overlapped /\ turn.at = "check" /\ turn.stored.revision = epoch.revision =>
           turn.told = epoch.snapshot
  PROVE  EpochInvariant'
<1>1. drain \in [Drains -> Turn] /\ drain'[d] = turn
      /\ \A c \in Drains : c # d => drain'[c] = drain[c]
  BY DEF EpochInvariant, EpochTypeOK, Turn, Becomes
<1>2. EpochTypeOK'
  BY DEF EpochInvariant, EpochTypeOK, OnlyDrains, Becomes, Turn
<1>3. \A c \in Drains : (ReadsInOrder(c) /\ SeesItsOwn(c) /\ InPlace(c) /\ KnowsNoRow(c))'
  <2> TAKE c \in Drains
  <2>1. CASE c # d
    BY <2>1, <1>1 DEF EpochInvariant, OnlyDrains, ReadsInOrder, SeesItsOwn, InPlace, KnowsNoRow,
       HasRead, HasSeen, InTurn, Row
  <2>2. CASE c = d
    <3>1. ReadsInOrder(d)' /\ SeesItsOwn(d)'
      BY <1>1 DEF ReadsInOrder, SeesItsOwn, HasRead, HasSeen
    <3>2. InPlace(d)'
      BY <1>1 DEF EpochInvariant, OnlyDrains, InPlace, InTurn
    <3>3. KnowsNoRow(d)'
      BY <1>1 DEF EpochInvariant, OnlyDrains, KnowsNoRow, HasRead, Row
    <3> QED
      BY <2>2, <3>1, <3>2, <3>3
  <2> QED
    BY <2>1, <2>2
<1>4. UpdatesHappened'
  BY DEF EpochInvariant, OnlyDrains, UpdatesHappened
<1>5. Sound'
  <2> SUFFICES ASSUME Row, ~overlapped PROVE RowSound' /\ \A c \in Drains : ReadSound(c)'
    BY DEF Sound, Row, OnlyDrains
  <2>1. RowSound /\ \A c \in Drains : ReadSound(c)
    BY DEF EpochInvariant, Sound
  <2>2. RowSound'
    BY <2>1 DEF RowSound, OnlyDrains, Told, UpdatesAfter
  <2>3. ASSUME NEW c \in Drains, c # d PROVE ReadSound(c)'
    BY <2>1, <2>3, <1>1 DEF OnlyDrains, ReadSound, HasRead, InTurn, At
  <2>4. epoch \in EpochRow
    BY DEF EpochInvariant, EpochTypeOK, Row
  <2>5. epoch.revision \in Nat
    BY <2>4 DEF EpochRow
  <2>6. (InTurn(d) => drain[d].place = place)'
    BY <2>1, <1>1 DEF OnlyDrains, ReadSound, InTurn
  <2>7. (HasRead(d) => /\ drain[d].stored.revision <= epoch.revision
                       /\ drain[d].stored.revision = epoch.revision => drain[d].stored = epoch)'
    BY <2>1, <2>5, <1>1 DEF OnlyDrains, ReadSound, HasRead
  <2>8. (At(d, "check") /\ drain[d].stored.revision = epoch.revision => drain[d].told = epoch.snapshot)'
    BY <1>1 DEF EpochInvariant, OnlyDrains, At
  <2>9. ReadSound(d)'
    BY <2>6, <2>7, <2>8 DEF ReadSound
  <2> QED
    BY <2>2, <2>3, <2>9
<1> QED
  BY <1>2, <1>3, <1>4, <1>5 DEF EpochInvariant

LEMMA TurnTypes ==
  ASSUME EpochTypeOK, NEW d \in Drains
  PROVE  /\ drain[d] \in Turn
         /\ Chosen \in Agents
         /\ \A point \in Points, p \in Places, a \in Agents : Drain(point, p, a) \in Turn
  BY DEF EpochTypeOK, Turn, Drain, Chosen

\* The drain takes its turn again, prepares again, or rests.
LEMMA Restarts ==
  ASSUME EpochInvariant, OnlyDrains, NEW d \in Drains,
         \/ Rebuild(d)
         \/ Becomes(d, Resting(d))
         \/ InTurn(d) /\ \E point \in {"initialize", "seed", "prepare"} : Again(d, point)
  PROVE  EpochInvariant'
<1>1. PICK point \in Points :
        /\ Becomes(d, Drain(point, drain[d].place, drain[d].agent))
        /\ point \in {"resting", "turn"} \/ (InTurn(d) /\ point \in {"initialize", "seed", "prepare"})
  BY DEF Rebuild, Again, Resting, Points
<1>2. PICK turn \in Turn :
        turn = [at |-> point, place |-> drain[d].place, agent |-> drain[d].agent,
                seen |-> Unread, stored |-> Unread, told |-> Unread]
  <2>1. drain[d] \in Turn
    BY TurnTypes DEF EpochInvariant
  <2> QED
    BY <2>1, TurnTypes DEF EpochInvariant, Drain, Turn
<1>3. Becomes(d, turn)
  BY <1>1, <1>2 DEF Drain
<1> QED
  BY <1>1, <1>2, <1>3, DrainAlone

LEMMA StartKeeps ==
  ASSUME EpochInvariant, NEW d \in Drains, Start(d)
  PROVE  EpochInvariant'
<1>1. place \in Places
  BY DEF EpochInvariant, EpochTypeOK
<1>2. PICK turn \in Turn :
        turn = [at |-> "turn", place |-> place, agent |-> Chosen, seen |-> Unread, stored |-> Unread, told |-> Unread]
  BY <1>1, TurnTypes DEF EpochInvariant, Drain, Points
<1>3. Becomes(d, turn) /\ OnlyDrains
  BY <1>2 DEF Start, Drain
<1> QED
  BY <1>2, <1>3, DrainAlone

LEMMA LookForEpochKeeps ==
  ASSUME EpochInvariant, NEW d \in Drains, LookForEpoch(d)
  PROVE  EpochInvariant'
  BY Restarts DEF LookForEpoch, At, InTurn

LEMMA ObserveKeeps ==
  ASSUME EpochInvariant, NEW d \in Drains, Observe(d)
  PROVE  EpochInvariant'
<1>1. drain[d] \in Turn /\ world \in 0 .. MaxWorld
  BY TurnTypes DEF EpochInvariant, EpochTypeOK
<1>2. Observed(d) \in Value
  BY <1>1 DEF Observed, Value, Turn
<1>3. PICK v \in {Observed(d), Unavailable} : Becomes(d, [drain[d] EXCEPT !.seen = v])
  BY DEF Observe
<1>4. PICK turn \in Turn : turn = [drain[d] EXCEPT !.seen = v]
  BY <1>1, <1>2, <1>3 DEF Turn
<1>5. /\ turn.at = drain[d].at /\ turn.place = drain[d].place /\ turn.agent = drain[d].agent
      /\ turn.stored = drain[d].stored /\ turn.seen = v
  BY <1>1, <1>4 DEF Turn
<1>6. v # Unavailable => v.place = drain[d].place /\ v.agent = drain[d].agent
  BY <1>3 DEF Observed
<1>7. drain[d].at \in {"seed", "prepare"} /\ OnlyDrains /\ Becomes(d, turn)
  BY <1>3, <1>4 DEF Observe
<1>8. turn.stored \notin {Unread, NoEpoch} => turn.at \in {"prepare", "ready", "load", "check", "calling"}
  BY <1>5 DEF EpochInvariant, ReadsInOrder, HasRead
<1> QED
  BY <1>5, <1>6, <1>7, <1>8, DrainAlone DEF InTurn

LEMMA FindEpochKeeps ==
  ASSUME EpochInvariant, NEW d \in Drains, FindEpoch(d)
  PROVE  EpochInvariant'
<1>1. drain[d] \in Turn /\ epoch \in EpochRow \union {NoEpoch}
  BY TurnTypes DEF EpochInvariant, EpochTypeOK
<1>2. PICK turn \in Turn : turn = [drain[d] EXCEPT !.stored = epoch]
  BY <1>1 DEF Turn
<1>3. /\ turn.at = "prepare" /\ turn.place = drain[d].place /\ turn.agent = drain[d].agent
      /\ turn.stored = epoch /\ turn.seen = drain[d].seen
  BY <1>1, <1>2 DEF Turn, FindEpoch, At
<1>4. Becomes(d, turn) /\ OnlyDrains
  BY <1>2 DEF FindEpoch
<1>5. InTurn(d)
  BY DEF FindEpoch, At, InTurn
<1>6. turn.seen \notin {Unread, Unavailable} => turn.seen.place = turn.place /\ turn.seen.agent = turn.agent
  BY <1>3 DEF EpochInvariant, SeesItsOwn, HasSeen
<1> QED
  BY <1>3, <1>4, <1>5, <1>6, DrainAlone

\* The drain goes on with the row it has read.
LEMMA GoesOn ==
  ASSUME EpochInvariant, OnlyDrains, NEW d \in Drains, InTurn(d), HasRead(d),
         NEW point \in {"ready", "load", "calling"}, Becomes(d, [drain[d] EXCEPT !.at = point])
  PROVE  EpochInvariant'
<1>1. drain[d] \in Turn
  BY TurnTypes DEF EpochInvariant
<1>2. PICK turn \in Turn : turn = [drain[d] EXCEPT !.at = point]
  BY <1>1 DEF Turn, Points
<1>3. /\ turn.at = point /\ turn.place = drain[d].place /\ turn.agent = drain[d].agent
      /\ turn.stored = drain[d].stored /\ turn.seen = drain[d].seen
  BY <1>1, <1>2 DEF Turn
<1>4. Becomes(d, turn)
  BY <1>2
<1>5. turn.seen \notin {Unread, Unavailable} => turn.seen.place = turn.place /\ turn.seen.agent = turn.agent
  BY <1>3 DEF EpochInvariant, SeesItsOwn, HasSeen
<1> QED
  BY <1>3, <1>4, <1>5, DrainAlone DEF HasRead

LEMMA FenceKeeps ==
  ASSUME EpochInvariant, NEW d \in Drains, Fence(d)
  PROVE  EpochInvariant'
<1>1. OnlyDrains /\ InTurn(d) /\ HasRead(d)
  BY DEF Fence, HasRow, HasRead, At, InTurn
<1>2. CASE Rebuild(d) \/ Again(d, "prepare") \/ Becomes(d, Resting(d))
  BY <1>1, <1>2, Restarts
<1>3. CASE Ready(d, drain[d].stored)
  <2>1. drain[d] \in Turn
    BY TurnTypes DEF EpochInvariant
  <2>2. [drain[d] EXCEPT !.at = "ready", !.stored = drain[d].stored] = [drain[d] EXCEPT !.at = "ready"]
    BY <2>1 DEF Turn
  <2> QED
    BY <1>1, <1>3, <2>2, GoesOn DEF Ready
<1> QED
  BY <1>2, <1>3 DEF Fence

LEMMA RereadKeeps ==
  ASSUME EpochInvariant, NEW d \in Drains, Reread(d)
  PROVE  EpochInvariant'
<1>1. OnlyDrains /\ InTurn(d) /\ HasRead(d)
  BY DEF Reread, At, InTurn, EpochInvariant, ReadsInOrder
<1> QED
  BY <1>1, Restarts, GoesOn DEF Reread

LEMMA CallKeeps ==
  ASSUME EpochInvariant, NEW d \in Drains, Call(d)
  PROVE  EpochInvariant'
<1>1. OnlyDrains /\ InTurn(d) /\ HasRead(d)
  BY DEF Call, At, InTurn, EpochInvariant, ReadsInOrder
<1> QED
  BY <1>1, Restarts, GoesOn DEF Call

LEMMA EndTurnKeeps ==
  ASSUME EpochInvariant, NEW d \in Drains, EndTurn(d)
  PROVE  EpochInvariant'
  BY Restarts DEF EndTurn

\* A drain whose row is current loads what the row says was told.
LEMMA LoadHistoryKeeps ==
  ASSUME EpochInvariant, NEW d \in Drains, LoadHistory(d)
  PROVE  EpochInvariant'
<1>1. drain[d] \in Turn /\ drain[d].stored \in EpochRow /\ HasRead(d) /\ InTurn(d) /\ At(d, "load")
  BY TurnTypes DEF EpochInvariant, ReadsInOrder, LoadHistory, At, HasRead, InTurn, Turn
<1>2. Told(drain[d].stored) \in Value
  <2>1. updates \subseteq [seq : 1 .. MaxEvents, value : Value]
    BY DEF EpochInvariant, EpochTypeOK
  <2>2. drain[d].stored.baseline \in Value /\ drain[d].stored.since \in Nat
    BY <1>1 DEF EpochRow
  <2> DEFINE after == UpdatesAfter(drain[d].stored.since)
  <2>3. CASE after = {}
    BY <2>2, <2>3 DEF Told
  <2>4. CASE after # {}
    <3>1. \E u \in after : \A w \in after : w.seq <= u.seq
      BY <2>1, <2>2, <2>4 DEF EpochInvariant, UpdatesHappened, UpdatesAfter
    <3>2. after \subseteq [seq : 1 .. MaxEvents, value : Value]
      BY <2>1 DEF UpdatesAfter
    <3> QED
      BY <2>4, <3>1, <3>2 DEF Told
  <2> QED
    BY <2>3, <2>4
<1>3. PICK turn \in Turn : turn = [drain[d] EXCEPT !.at = "check", !.told = Told(drain[d].stored)]
  BY <1>1, <1>2 DEF Turn, Points
<1>4. /\ turn.at = "check" /\ turn.place = drain[d].place /\ turn.agent = drain[d].agent
      /\ turn.stored = drain[d].stored /\ turn.seen = drain[d].seen /\ turn.told = Told(drain[d].stored)
  BY <1>1, <1>3 DEF Turn
<1>5. Becomes(d, turn) /\ OnlyDrains
  BY <1>3 DEF LoadHistory
<1>6. turn.seen \notin {Unread, Unavailable} => turn.seen.place = turn.place /\ turn.seen.agent = turn.agent
  BY <1>4 DEF EpochInvariant, SeesItsOwn, HasSeen
<1>7. Sound /\ Row /\ ~overlapped /\ turn.stored.revision = epoch.revision => turn.told = epoch.snapshot
  BY <1>1, <1>4 DEF Sound, RowSound, ReadSound
<1> QED
  BY <1>1, <1>4, <1>5, <1>6, <1>7, DrainAlone DEF HasRead

-----------------------------------------------------------------------------
\* An event that requests a replacement: the row keeps what it says was told, and
\* its revision grows unless the request is known already.
LEMMA RequestKeeps ==
  ASSUME EpochInvariant, NextEvent, epoch' = Requested, selected' \in Agents \union {NoAgent},
         UNCHANGED <<place, updates, world, drain, behind, overlapped>>
  PROVE  EpochInvariant'
<1>1. events \in Nat /\ events < MaxEvents /\ events' = events + 1
  BY DEF EpochInvariant, EpochTypeOK, NextEvent
<1>2. ASSUME Row
      PROVE  /\ epoch \in EpochRow /\ epoch' \in EpochRow
             /\ epoch'.snapshot = epoch.snapshot /\ epoch'.baseline = epoch.baseline
             /\ epoch'.agent = epoch.agent /\ epoch'.since = epoch.since
             /\ \/ epoch' = epoch
                \/ epoch'.wanted = events + 1 /\ epoch'.revision = epoch.revision + 1
  <2>1. epoch \in EpochRow
    BY <1>2 DEF EpochInvariant, EpochTypeOK, Row
  <2>2. CASE epoch' = epoch
    BY <2>1, <2>2
  <2>3. CASE epoch' = [epoch EXCEPT !.wanted = events + 1, !.revision = @ + 1]
    <3>1. events + 1 \in 0 .. MaxEvents
      BY <1>1
    <3>2. /\ epoch'.agent = epoch.agent /\ epoch'.baseline = epoch.baseline /\ epoch'.since = epoch.since
          /\ epoch'.snapshot = epoch.snapshot /\ epoch'.wanted = events + 1
          /\ epoch'.revision = epoch.revision + 1
      BY <2>1, <2>3 DEF EpochRow
    <3>3. epoch' \in EpochRow
      <4>1. epoch.revision + 1 \in Nat
        BY <2>1 DEF EpochRow
      <4>2. [epoch EXCEPT !.wanted = events + 1] \in EpochRow
        BY <2>1, <3>1 DEF EpochRow
      <4>3. PICK row \in EpochRow : row = [epoch EXCEPT !.wanted = events + 1]
        BY <4>2
      <4>4. epoch' = [row EXCEPT !.revision = epoch.revision + 1]
        BY <2>1, <2>3, <4>3 DEF EpochRow
      <4> QED
        BY <4>1, <4>4 DEF EpochRow
    <3> QED
      BY <2>1, <3>2, <3>3
  <2> QED
    BY <1>2, <2>2, <2>3 DEF Row, Requested
<1>3. ~Row => ~Row'
  BY DEF Row, Requested
<1>4. EpochTypeOK'
  BY <1>1, <1>2, <1>3 DEF EpochInvariant, EpochTypeOK, Row
<1>5. \A d \in Drains : (ReadsInOrder(d) /\ SeesItsOwn(d) /\ InPlace(d) /\ KnowsNoRow(d))'
  BY <1>2, <1>3 DEF EpochInvariant, ReadsInOrder, SeesItsOwn, InPlace, KnowsNoRow, HasRead, HasSeen, InTurn, Row
<1>6. updates' = updates /\ (\A u \in updates : u.seq <= events /\ u.seq \in Nat) /\ UpdatesHappened'
  BY <1>1 DEF EpochInvariant, EpochTypeOK, UpdatesHappened
<1>7. Sound'
  <2> SUFFICES ASSUME Row', ~overlapped' PROVE RowSound' /\ \A d \in Drains : ReadSound(d)'
    BY DEF Sound
  <2>1. Row /\ RowSound /\ \A d \in Drains : ReadSound(d)
    BY <1>3 DEF EpochInvariant, Sound
  <2>2. RowSound'
    <3>1. (epoch.snapshot.place = place /\ epoch.baseline.place = place /\ epoch.snapshot.agent = epoch.agent)'
      BY <1>2, <2>1 DEF RowSound
    <3>2. (epoch.since <= events /\ epoch.wanted <= events)'
      BY <1>1, <1>2, <2>1 DEF RowSound, EpochRow
    <3>3. (epoch.wanted # NoRequest => UpdatesAfter(epoch.wanted) = {})'
      BY <1>1, <1>2, <1>6, <2>1 DEF RowSound, UpdatesAfter
    <3>4. (Told(epoch) = epoch.snapshot)'
      BY <1>2, <1>6, <2>1 DEF RowSound, Told, UpdatesAfter
    <3> QED
      BY <3>1, <3>2, <3>3, <3>4 DEF RowSound
  <2>3. ASSUME NEW d \in Drains PROVE ReadSound(d)'
    <3>1. HasRead(d) => drain[d].stored.revision \in Nat
      BY TurnTypes DEF EpochInvariant, Turn, HasRead, EpochRow
    <3>2. At(d, "check") => HasRead(d)
      BY DEF EpochInvariant, ReadsInOrder, At
    <3>3. epoch.revision \in Nat
      BY <1>2, <2>1 DEF EpochRow
    <3> QED
      BY <1>2, <2>1, <3>1, <3>2, <3>3 DEF ReadSound, HasRead, InTurn, At
  <2> QED
    BY <2>2, <2>3
<1> QED
  BY <1>4, <1>5, <1>6, <1>7 DEF EpochInvariant

\* A move forgets the row, and every drain in its turn is behind.
LEMMA MoveKeeps ==
  ASSUME EpochInvariant, NEW p \in Places, Move(p)
  PROVE  EpochInvariant'
<1>1. EpochTypeOK'
  BY DEF EpochInvariant, EpochTypeOK, Move, NextEvent
<1>2. \A d \in Drains : (ReadsInOrder(d) /\ SeesItsOwn(d) /\ InPlace(d) /\ KnowsNoRow(d))'
  BY DEF EpochInvariant, Move, ReadsInOrder, SeesItsOwn, InPlace, KnowsNoRow, HasRead, HasSeen, InTurn
<1>3. UpdatesHappened' /\ Sound'
  BY DEF EpochInvariant, EpochTypeOK, Move, NextEvent, UpdatesHappened, Sound, Row
<1> QED
  BY <1>1, <1>2, <1>3 DEF EpochInvariant

LEMMA ChangeWorldKeeps ==
  ASSUME EpochInvariant, ChangeWorld
  PROVE  EpochInvariant'
<1>1. EpochTypeOK'
  BY DEF EpochInvariant, EpochTypeOK, ChangeWorld
<1>2. \A d \in Drains : (ReadsInOrder(d) /\ SeesItsOwn(d) /\ InPlace(d) /\ KnowsNoRow(d))'
  BY DEF EpochInvariant, ChangeWorld, ReadsInOrder, SeesItsOwn, InPlace, KnowsNoRow, HasRead, HasSeen, InTurn, Row
<1>3. UpdatesHappened' /\ Sound'
  BY DEF EpochInvariant, ChangeWorld, UpdatesHappened, Sound, Row, RowSound, ReadSound, HasRead, InTurn, At,
     Told, UpdatesAfter
<1> QED
  BY <1>1, <1>2, <1>3 DEF EpochInvariant

\* A drain begins its turn where the session is, and has read nothing yet.
LEMMA BeginTurnKeeps ==
  ASSUME EpochInvariant, NEW d \in Drains, BeginTurn(d)
  PROVE  EpochInvariant'
<1>1. drain[d] \in Turn /\ place \in Places /\ drain \in [Drains -> Turn]
  BY TurnTypes DEF EpochInvariant, EpochTypeOK, Turn
<1>2. PICK turn \in Turn :
        /\ Becomes(d, turn) /\ turn.seen = Unread /\ turn.stored = Unread
        /\ turn.at = "resting" \/ (turn.at = "initialize" /\ turn.place = place)
  <2>1. PICK point \in {"resting", "initialize"}, a \in Agents :
          Becomes(d, Drain(point, drain[d].place, a)) /\ (point = "resting" \/ drain[d].place = place)
    BY <1>1, TurnTypes DEF EpochInvariant, BeginTurn, Resting, Turn
  <2>2. Drain(point, drain[d].place, a) \in Turn
    BY <1>1, TurnTypes DEF EpochInvariant, Turn, Points
  <2> QED
    BY <2>1, <2>2 DEF Drain
<1>3. drain' \in [Drains -> Turn] /\ drain'[d] = turn /\ \A c \in Drains : c # d => drain'[c] = drain[c]
  BY <1>1, <1>2 DEF Becomes
<1>4. UNCHANGED <<events, place, selected, epoch, updates, world, overlapped>> /\ behind' = behind \ {d}
  BY DEF BeginTurn
<1>5. EpochTypeOK'
  BY <1>3, <1>4 DEF EpochInvariant, EpochTypeOK, Turn
<1>6. \A c \in Drains : (ReadsInOrder(c) /\ SeesItsOwn(c) /\ InPlace(c) /\ KnowsNoRow(c))'
  <2> TAKE c \in Drains
  <2>1. CASE c # d
    BY <2>1, <1>3, <1>4 DEF EpochInvariant, ReadsInOrder, SeesItsOwn, InPlace, KnowsNoRow,
       HasRead, HasSeen, InTurn, Row
  <2>2. CASE c = d
    BY <2>2, <1>2, <1>3, <1>4 DEF ReadsInOrder, SeesItsOwn, InPlace, KnowsNoRow, HasRead, HasSeen, InTurn
  <2> QED
    BY <2>1, <2>2
<1>7. UpdatesHappened'
  BY <1>4 DEF EpochInvariant, UpdatesHappened
<1>8. Sound'
  <2> SUFFICES ASSUME Row, ~overlapped PROVE RowSound' /\ \A c \in Drains : ReadSound(c)'
    BY <1>4 DEF Sound, Row
  <2>1. RowSound /\ \A c \in Drains : ReadSound(c)
    BY DEF EpochInvariant, Sound
  <2>2. RowSound'
    BY <2>1, <1>4 DEF RowSound, Told, UpdatesAfter
  <2>3. \A c \in Drains : ReadSound(c)'
    BY <2>1, <1>2, <1>3, <1>4 DEF ReadSound, HasRead, InTurn, At
  <2> QED
    BY <2>2, <2>3
<1> QED
  BY <1>5, <1>6, <1>7, <1>8 DEF EpochInvariant

-----------------------------------------------------------------------------
\* The row that a drain writes, and is ready with: what it knows of it is what it is.
\* Whoever else has read a row has read an earlier revision of it.
LEMMA WriteKeeps ==
  ASSUME EpochInvariant, NEW d \in Drains, HasSeen(d), InTurn(d), NEW row \in EpochRow,
         epoch' \in EpochRow, ~overlapped' => epoch' = row, Ready(d, row), UNCHANGED <<place, selected, world, behind>>,
         EpochTypeOK', UpdatesHappened', overlapped => overlapped',
         ~overlapped' => RowSound' /\ drain[d].place = place,
         ~overlapped' => \A c \in Drains \ {d} :
           /\ InTurn(c) => drain[c].place = place
           /\ HasRead(c) => drain[c].stored.revision < row.revision
  PROVE  EpochInvariant'
<1>1. drain \in [Drains -> Turn] /\ drain[d] \in Turn
  BY TurnTypes DEF EpochInvariant, EpochTypeOK, Turn
<1>2. /\ drain'[d].at = "ready" /\ drain'[d].stored = row
      /\ drain'[d].place = drain[d].place /\ drain'[d].agent = drain[d].agent /\ drain'[d].seen = drain[d].seen
      /\ \A c \in Drains : c # d => drain'[c] = drain[c]
  BY <1>1 DEF Ready, Becomes, Turn
<1>3. row \notin {NoEpoch, Unread} /\ row.revision \in Nat
  BY DEF EpochRow
<1>4. \A c \in Drains : (ReadsInOrder(c) /\ SeesItsOwn(c) /\ InPlace(c) /\ KnowsNoRow(c))'
  <2> TAKE c \in Drains
  <2>1. CASE c # d
    BY <2>1, <1>2, <1>3 DEF EpochInvariant, ReadsInOrder, SeesItsOwn, InPlace, KnowsNoRow,
       HasRead, HasSeen, InTurn, Row
  <2>2. CASE c = d
    BY <2>2, <1>2, <1>3 DEF EpochInvariant, ReadsInOrder, SeesItsOwn, InPlace, KnowsNoRow,
       HasRead, HasSeen, InTurn, Row
  <2> QED
    BY <2>1, <2>2
<1>5. Sound'
  <2> SUFFICES ASSUME ~overlapped' PROVE RowSound' /\ \A c \in Drains : ReadSound(c)'
    BY DEF Sound
  <2>1. ReadSound(d)'
    BY <1>2, <1>3 DEF ReadSound, HasRead, InTurn, At
  <2>2. ASSUME NEW c \in Drains, c # d PROVE ReadSound(c)'
    <3>1. HasRead(c) => drain[c].stored.revision \in Nat
      BY TurnTypes DEF EpochInvariant, Turn, HasRead, EpochRow
    <3>2. At(c, "check") => HasRead(c)
      BY DEF EpochInvariant, ReadsInOrder, At
    <3> QED
      BY <2>2, <1>2, <1>3, <3>1, <3>2 DEF ReadSound, HasRead, InTurn, At
  <2> QED
    BY <2>1, <2>2
<1> QED
  BY <1>4, <1>5 DEF EpochInvariant

LEMMA InsertKeeps ==
  ASSUME EpochInvariant, NEW d \in Drains, Insert(d)
  PROVE  EpochInvariant'
<1>1. InTurn(d) /\ drain[d] \in Turn
  BY TurnTypes DEF EpochInvariant, Insert, NoRow, At, InTurn
<1>2. CASE ~(drain[d].seen # Unavailable /\ drain[d].place = place /\ Selects(drain[d].agent) /\ epoch = NoEpoch)
  <2>1. OnlyDrains
    BY <1>2 DEF Insert, OnlyDrains
  <2>2. \/ Rebuild(d)
        \/ Becomes(d, Resting(d))
        \/ \E point \in {"initialize", "seed", "prepare"} : Again(d, point)
    BY <1>2 DEF Insert
  <2> QED
    BY <1>1, <2>1, <2>2, Restarts
<1>3. CASE drain[d].seen # Unavailable /\ drain[d].place = place /\ Selects(drain[d].agent) /\ epoch = NoEpoch
  <2>1. /\ HasSeen(d) /\ epoch' = NewRow(d) /\ Ready(d, NewRow(d))
        /\ overlapped' = (overlapped \/ \E b \in behind \ {d} : InTurn(b))
        /\ UNCHANGED <<events, place, selected, updates, world, behind>>
    BY <1>3 DEF Insert, HasSeen
  <2>2. events \in 0 .. MaxEvents /\ drain[d].seen \in Value /\ drain[d].agent \in Agents
    BY <1>1, <2>1 DEF EpochInvariant, EpochTypeOK, HasSeen, Turn
  <2>3. NewRow(d) \in EpochRow
    BY <2>2 DEF NewRow, EpochRow, NoRequest
  <2>4. PICK row \in EpochRow :
          /\ row = NewRow(d) /\ row.agent = drain[d].agent /\ row.baseline = drain[d].seen
          /\ row.since = events /\ row.snapshot = drain[d].seen /\ row.wanted = NoRequest /\ row.revision = 0
    BY <2>3 DEF NewRow
  <2>5. EpochTypeOK'
    <3>1. [drain[d] EXCEPT !.at = "ready", !.stored = row] \in Turn
      BY <1>1 DEF Turn, Points
    <3> QED
      BY <2>1, <2>4, <3>1 DEF EpochInvariant, EpochTypeOK, Ready, Becomes, Turn
  <2>6. UpdatesHappened'
    BY <2>1 DEF EpochInvariant, UpdatesHappened
  <2>7. RowSound'
    <3>1. drain[d].seen.place = place /\ drain[d].seen.agent = drain[d].agent
      BY <1>3, <2>1 DEF EpochInvariant, SeesItsOwn
    <3>2. \A u \in updates : u.seq \in Nat /\ u.seq <= events
      BY DEF EpochInvariant, EpochTypeOK, UpdatesHappened
    <3>3. (UpdatesAfter(epoch.since) = {})'
      BY <2>1, <2>2, <2>4, <3>2 DEF UpdatesAfter
    <3> QED
      BY <2>1, <2>2, <2>4, <3>1, <3>3 DEF RowSound, Told, NoRequest
  <2>8. ASSUME ~overlapped', NEW c \in Drains \ {d}
        PROVE  (InTurn(c) => drain[c].place = place) /\ ~HasRead(c)
    <3>1. InTurn(c) => c \notin behind
      BY <2>1, <2>8
    <3>2. InTurn(c) => drain[c].place = place
      BY <3>1 DEF EpochInvariant, InPlace
    <3>3. HasRead(c) => InTurn(c) /\ c \in behind
      BY <1>3 DEF EpochInvariant, ReadsInOrder, KnowsNoRow, Row, InTurn
    <3> QED
      BY <3>1, <3>2, <3>3
  <2> QED
    BY <1>1, <1>3, <2>1, <2>4, <2>5, <2>6, <2>7, <2>8, WriteKeeps
<1> QED
  BY <1>2, <1>3

LEMMA ReplaceKeeps ==
  ASSUME EpochInvariant, NEW d \in Drains, Replace(d)
  PROVE  EpochInvariant'
<1>1. InTurn(d) /\ HasRead(d) /\ HasSeen(d) /\ drain[d] \in Turn
  BY TurnTypes DEF EpochInvariant, Replace, HasRow, Blind, HasRead, HasSeen, At, InTurn
<1>2. CASE ~(Selects(drain[d].agent) /\ Unchanged(d))
  <2>1. OnlyDrains /\ (Rebuild(d) \/ Again(d, "prepare"))
    BY <1>2 DEF Replace, OnlyDrains
  <2> QED
    BY <1>1, <2>1, Restarts
<1>3. CASE Selects(drain[d].agent) /\ Unchanged(d)
  <2>1. /\ Row /\ epoch.revision = drain[d].stored.revision
        /\ epoch' = ReplacedRow(d) /\ Ready(d, ReplacedRow(d))
        /\ UNCHANGED <<events, place, selected, updates, world, behind, overlapped>>
    BY <1>3 DEF Replace, Unchanged, Row
  <2>2. /\ events \in 0 .. MaxEvents /\ drain[d].seen \in Value /\ drain[d].agent \in Agents
        /\ drain[d].stored \in EpochRow /\ epoch \in EpochRow
    BY <1>1, <2>1 DEF EpochInvariant, EpochTypeOK, HasSeen, HasRead, Row, Turn
  <2>3. BaselineSeq(d) \in 0 .. MaxEvents /\ drain[d].stored.revision + 1 \in Nat
    BY <2>2 DEF BaselineSeq, EpochRow
  <2>4. ReplacedRow(d) \in EpochRow
    BY <2>2, <2>3 DEF ReplacedRow, EpochRow, NoRequest
  <2>5. PICK row \in EpochRow :
          /\ row = ReplacedRow(d) /\ row.agent = drain[d].agent /\ row.baseline = drain[d].seen
          /\ row.since = BaselineSeq(d) /\ row.snapshot = drain[d].seen /\ row.wanted = NoRequest
          /\ row.revision = drain[d].stored.revision + 1
    BY <2>4 DEF ReplacedRow
  <2>6. EpochTypeOK'
    <3>1. [drain[d] EXCEPT !.at = "ready", !.stored = row] \in Turn
      BY <1>1 DEF Turn, Points
    <3> QED
      BY <2>1, <2>5, <3>1 DEF EpochInvariant, EpochTypeOK, Ready, Becomes, Turn
  <2>7. UpdatesHappened'
    BY <2>1 DEF EpochInvariant, UpdatesHappened
  <2>8. ASSUME ~overlapped
        PROVE  RowSound /\ drain[d].place = place /\ drain[d].stored = epoch /\ \A c \in Drains : ReadSound(c)
    BY <1>1, <2>1, <2>8 DEF EpochInvariant, Sound, ReadSound
  <2>9. ASSUME ~overlapped PROVE RowSound'
    <3>1. drain[d].seen.place = place /\ drain[d].seen.agent = drain[d].agent
      BY <1>1, <2>8, <2>9 DEF EpochInvariant, SeesItsOwn
    <3>2. \A u \in updates : u.seq \in Nat /\ u.seq <= events
      BY DEF EpochInvariant, EpochTypeOK, UpdatesHappened
    <3>3. BaselineSeq(d) <= events /\ UpdatesAfter(BaselineSeq(d)) = {}
      BY <2>2, <2>8, <2>9, <3>2 DEF BaselineSeq, RowSound, UpdatesAfter
    <3>4. (UpdatesAfter(epoch.since) = {})'
      BY <2>1, <2>5, <3>3 DEF UpdatesAfter
    <3> QED
      BY <2>1, <2>2, <2>5, <3>1, <3>3, <3>4 DEF RowSound, Told, NoRequest
  <2>10. ASSUME ~overlapped, NEW c \in Drains \ {d}
         PROVE  (InTurn(c) => drain[c].place = place) /\ (HasRead(c) => drain[c].stored.revision < row.revision)
    <3>1. HasRead(c) => drain[c].stored.revision \in Nat
      BY TurnTypes DEF EpochInvariant, Turn, HasRead, EpochRow
    <3>2. epoch.revision \in Nat
      BY <2>2 DEF EpochRow
    <3> QED
      BY <2>1, <2>5, <2>8, <2>10, <3>1, <3>2 DEF ReadSound
  <2> QED
    BY <1>1, <2>1, <2>5, <2>6, <2>7, <2>8, <2>9, <2>10, WriteKeeps
<1> QED
  BY <1>2, <1>3

\* The row that advance writes.
LEMMA AdvancedIsRow ==
  ASSUME NEW r \in EpochRow, NEW v \in Value
  PROVE  /\ Advanced(r, v) \in EpochRow
         /\ Advanced(r, v).snapshot = v /\ Advanced(r, v).baseline = r.baseline
         /\ Advanced(r, v).agent = r.agent /\ Advanced(r, v).since = r.since
         /\ Advanced(r, v).wanted = r.wanted /\ Advanced(r, v).revision = r.revision + 1
<1>1. [r EXCEPT !.snapshot = v] \in EpochRow /\ r.revision + 1 \in Nat
  BY DEF EpochRow
<1>2. PICK s \in EpochRow : s = [r EXCEPT !.snapshot = v]
  BY <1>1
<1>3. Advanced(r, v) = [s EXCEPT !.revision = r.revision + 1]
  BY <1>2 DEF EpochRow, Advanced
<1>4. [s EXCEPT !.revision = r.revision + 1] \in EpochRow
  BY <1>1 DEF EpochRow
<1>5. PICK a \in EpochRow : a = [s EXCEPT !.revision = r.revision + 1]
  BY <1>4
<1>6. /\ a.snapshot = v /\ a.baseline = r.baseline /\ a.agent = r.agent
      /\ a.since = r.since /\ a.wanted = r.wanted /\ a.revision = r.revision + 1
  BY <1>2, <1>5 DEF EpochRow
<1> QED
  BY <1>3, <1>5, <1>6

LEMMA UpdateKeeps ==
  ASSUME EpochInvariant, NEW d \in Drains, Update(d)
  PROVE  EpochInvariant'
<1>1. InTurn(d) /\ HasRead(d) /\ HasSeen(d) /\ drain[d] \in Turn /\ drain[d].stored.agent = drain[d].agent
  BY TurnTypes DEF EpochInvariant, Update, HasRow, Blind, MustReplace, ReplacingAgent, HasRead, HasSeen, At, InTurn
<1>2. CASE ~(Unchanged(d) /\ epoch.wanted = NoRequest)
  <2>1. OnlyDrains /\ Again(d, "prepare")
    BY <1>2 DEF Update, OnlyDrains
  <2> QED
    BY <1>1, <2>1, Restarts
<1>3. CASE Unchanged(d) /\ epoch.wanted = NoRequest
  <2>1. /\ Row /\ epoch.revision = drain[d].stored.revision
        /\ NextEvent
        /\ updates' = updates \union {[seq |-> events + 1, value |-> drain[d].seen]}
        /\ epoch' = Advanced(epoch, drain[d].seen)
        /\ Ready(d, Advanced(drain[d].stored, drain[d].seen))
        /\ UNCHANGED <<place, selected, world, behind, overlapped>>
    BY <1>3 DEF Update, Unchanged, Row
  <2>2. /\ events \in Nat /\ events < MaxEvents /\ events' = events + 1
        /\ drain[d].seen \in Value /\ drain[d].stored \in EpochRow /\ epoch \in EpochRow
        /\ updates \subseteq [seq : 1 .. MaxEvents, value : Value]
    BY <1>1, <2>1 DEF EpochInvariant, EpochTypeOK, HasSeen, HasRead, Row, Turn, NextEvent
  <2>3. [seq |-> events + 1, value |-> drain[d].seen] \in [seq : 1 .. MaxEvents, value : Value]
    BY <2>2
  <2>4. PICK row \in EpochRow :
          /\ row = Advanced(drain[d].stored, drain[d].seen)
          /\ row.revision = drain[d].stored.revision + 1
    BY <2>2, AdvancedIsRow
  <2>5. /\ epoch' \in EpochRow
        /\ epoch'.snapshot = drain[d].seen /\ epoch'.baseline = epoch.baseline /\ epoch'.agent = epoch.agent
        /\ epoch'.since = epoch.since /\ epoch'.wanted = epoch.wanted
    BY <2>1, <2>2, AdvancedIsRow
  <2>6. PICK told \in [seq : 1 .. MaxEvents, value : Value] :
          told.seq = events + 1 /\ told.value = drain[d].seen /\ updates' = updates \union {told}
    BY <2>1, <2>3
  <2>7. EpochTypeOK'
    <3>1. [drain[d] EXCEPT !.at = "ready", !.stored = row] \in Turn
      BY <1>1 DEF Turn, Points
    <3>2. drain' \in [Drains -> Turn]
      BY <2>1, <2>4, <3>1 DEF EpochInvariant, EpochTypeOK, Ready, Becomes, Turn
    <3> QED
      BY <2>1, <2>2, <2>5, <2>6, <3>2 DEF EpochInvariant, EpochTypeOK, Turn
  <2>8. \A u \in updates : u.seq \in Nat /\ u.seq <= events
    BY <2>2 DEF EpochInvariant, UpdatesHappened
  <2>9. UpdatesHappened'
    BY <2>2, <2>6, <2>8 DEF UpdatesHappened
  <2>10. ASSUME ~overlapped
         PROVE  RowSound /\ drain[d].place = place /\ drain[d].stored = epoch /\ \A c \in Drains : ReadSound(c)
    BY <1>1, <2>1, <2>10 DEF EpochInvariant, Sound, ReadSound
  <2>11. ASSUME ~overlapped PROVE RowSound'
    <3>1. drain[d].seen.place = place /\ drain[d].seen.agent = epoch.agent
      BY <1>1, <2>10, <2>11 DEF EpochInvariant, SeesItsOwn
    <3>2. epoch.since \in Nat /\ epoch.since <= events
      BY <2>2, <2>10, <2>11 DEF RowSound, EpochRow
    <3>3. /\ told \in UpdatesAfter(epoch.since)'
          /\ \A u \in UpdatesAfter(epoch.since)' : u.seq <= told.seq /\ (u # told => u.seq < told.seq)
      BY <2>2, <2>5, <2>6, <2>8, <3>2 DEF UpdatesAfter
    <3>4. Told(epoch)' = told.value
      <4>1. (CHOOSE u \in UpdatesAfter(epoch.since)' : \A w \in UpdatesAfter(epoch.since)' : w.seq <= u.seq) = told
        <5>1. UpdatesAfter(epoch.since)' \subseteq [seq : 1 .. MaxEvents, value : Value]
          BY <2>2, <2>6 DEF UpdatesAfter
        <5> QED
          BY <3>3, <5>1
      <4> QED
        BY <3>3, <4>1 DEF Told
    <3>5. (epoch.since <= events /\ epoch.wanted = NoRequest /\ epoch.wanted <= events)'
      BY <1>3, <2>2, <2>5, <3>2 DEF NoRequest
    <3>6. (epoch.snapshot.place = place /\ epoch.baseline.place = place /\ epoch.snapshot.agent = epoch.agent)'
      BY <2>1, <2>5, <2>10, <2>11, <3>1 DEF RowSound
    <3>7. (Told(epoch) = epoch.snapshot)'
      BY <2>5, <2>6, <3>4
    <3> QED
      BY <3>5, <3>6, <3>7 DEF RowSound
  <2>12. ASSUME ~overlapped, NEW c \in Drains \ {d}
         PROVE  (InTurn(c) => drain[c].place = place) /\ (HasRead(c) => drain[c].stored.revision < row.revision)
    <3>1. HasRead(c) => drain[c].stored.revision \in Nat
      BY TurnTypes DEF EpochInvariant, Turn, HasRead, EpochRow
    <3>2. epoch.revision \in Nat
      BY <2>2 DEF EpochRow
    <3> QED
      BY <2>1, <2>4, <2>10, <2>12, <3>1, <3>2 DEF ReadSound
  <2> QED
    BY <1>1, <2>1, <2>4, <2>5, <2>7, <2>9, <2>10, <2>11, <2>12, WriteKeeps
<1> QED
  BY <1>2, <1>3

-----------------------------------------------------------------------------
LEMMA EpochStep == EpochInvariant /\ [EpochNext]_epochVars => EpochInvariant'
<1> SUFFICES ASSUME EpochInvariant, [EpochNext]_epochVars PROVE EpochInvariant'
  OBVIOUS
<1>1. CASE \E a \in Agents : SwitchAgent(a)
  <2>1. selected' \in Agents \union {NoAgent}
    BY <1>1 DEF SwitchAgent
  <2> QED
    BY <1>1, <2>1, RequestKeeps DEF SwitchAgent
<1>2. CASE Compact
  <2>1. selected' \in Agents \union {NoAgent}
    BY <1>2 DEF Compact, EpochInvariant, EpochTypeOK
  <2> QED
    BY <1>2, <2>1, RequestKeeps DEF Compact
<1>3. CASE \E p \in Places : Move(p)
  BY <1>3, MoveKeeps
<1>4. CASE ChangeWorld
  BY <1>4, ChangeWorldKeeps
<1>5. ASSUME NEW d \in Drains, Start(d) \/ BeginTurn(d) \/ LookForEpoch(d) \/ Observe(d) \/ FindEpoch(d)
      PROVE  EpochInvariant'
  BY <1>5, StartKeeps, BeginTurnKeeps, LookForEpochKeeps, ObserveKeeps, FindEpochKeeps
<1>6. ASSUME NEW d \in Drains, Insert(d) \/ Fence(d) \/ Replace(d) \/ Update(d)
      PROVE  EpochInvariant'
  BY <1>6, InsertKeeps, FenceKeeps, ReplaceKeeps, UpdateKeeps
<1>7. ASSUME NEW d \in Drains, Reread(d) \/ LoadHistory(d) \/ Call(d) \/ EndTurn(d)
      PROVE  EpochInvariant'
  BY <1>7, RereadKeeps, LoadHistoryKeeps, CallKeeps, EndTurnKeeps
<1>8. CASE UNCHANGED epochVars
  BY <1>8 DEF epochVars, EpochInvariant, EpochTypeOK, ReadsInOrder, SeesItsOwn, InPlace, KnowsNoRow, HasRead, HasSeen,
     InTurn, At, Row, UpdatesHappened, Sound, RowSound, ReadSound, Told, UpdatesAfter
<1> QED
  BY <1>1, <1>2, <1>3, <1>4, <1>5, <1>6, <1>7, <1>8 DEF EpochNext

(***************************************************************************)
(* What is stored of the context of a session, and what its drains have    *)
(* read of it, in every reachable state.                                   *)
(***************************************************************************)
THEOREM EpochSound == EpochSpec => []EpochInvariant
  BY EpochInitially, EpochStep, PTL DEF EpochSpec

\* When the provider is called, the drain's row is the current one.
LEMMA CallIsCurrent ==
  ASSUME EpochInvariant, [EpochNext]_epochVars, NEW d \in Drains, Calls(d), ~overlapped
  PROVE  /\ Row /\ epoch.agent = drain[d].agent /\ Selects(drain[d].agent)
         /\ drain[d].told = epoch.snapshot /\ RowSound
<1>1. Call(d)
  <2>1. drain[d].at = "check" /\ drain'[d].at = "calling" /\ drain \in [Drains -> Turn]
    BY DEF Calls, At, EpochInvariant, EpochTypeOK, Turn
  <2>2. ASSUME NEW c \in Drains, NEW turn, Becomes(c, turn), c # d PROVE FALSE
    BY <2>1, <2>2 DEF Becomes
  <2>3. CASE UNCHANGED drain
    BY <2>1, <2>3
  <2>4. ASSUME NEW c \in Drains, Start(c) \/ BeginTurn(c) \/ LookForEpoch(c) \/ Observe(c) \/ FindEpoch(c)
                \/ Insert(c) \/ Fence(c) \/ Replace(c) \/ Update(c) \/ Reread(c) \/ LoadHistory(c)
                \/ Call(c) \/ EndTurn(c)
        PROVE  c = d
    BY <2>2, <2>4 DEF Start, BeginTurn, LookForEpoch, Observe, FindEpoch, Insert, Fence, Replace, Update,
       Reread, LoadHistory, Call, EndTurn, Again, Rebuild, Ready
  <2>5. ~Start(d) /\ ~BeginTurn(d) /\ ~LookForEpoch(d) /\ ~Observe(d) /\ ~FindEpoch(d) /\ ~Insert(d)
        /\ ~Fence(d) /\ ~Replace(d) /\ ~Update(d) /\ ~Reread(d) /\ ~LoadHistory(d) /\ ~EndTurn(d)
    BY <2>1 DEF Start, BeginTurn, LookForEpoch, Observe, FindEpoch, Insert, NoRow, Fence, Replace, Update, HasRow,
       Reread, LoadHistory, EndTurn, At
  <2> QED
    BY <2>3, <2>4, <2>5 DEF EpochNext, epochVars, SwitchAgent, Compact, Move, ChangeWorld
<1>2. Current(d)
  <2>1. drain[d].at = "check" /\ drain'[d].at = "calling" /\ drain \in [Drains -> Turn]
    BY DEF Calls, At, EpochInvariant, EpochTypeOK, Turn
  <2> QED
    BY <1>1, <2>1 DEF Call, Rebuild, Again, Drain, Becomes
<1> QED
  BY <1>2 DEF Current, Row, Calls, EpochInvariant, Sound, ReadSound

(***************************************************************************)
(* The provider is shown the context of the agent that the session has     *)
(* when its request leaves, whatever is selected, compacted or moved while *)
(* the turn is prepared, unless drains of two places have overlapped.      *)
(***************************************************************************)
THEOREM OwnAgentShown == EpochSpec => OwnAgentOnly
<1>1. EpochInvariant /\ [EpochNext]_epochVars =>
        [\A d \in Drains : Calls(d) /\ ~overlapped =>
           drain[d].told.agent = drain[d].agent /\ Selects(drain[d].agent)]_epochVars
  BY CallIsCurrent DEF RowSound
<1> QED
  BY <1>1, EpochSound, PTL DEF EpochSpec, OwnAgentOnly

(***************************************************************************)
(* What the provider is told is what the stored snapshot says it was told, *)
(* and is about the place where the session is.                            *)
(***************************************************************************)
THEOREM SnapshotTold == EpochSpec => ToldTheSnapshot
<1>1. EpochInvariant /\ [EpochNext]_epochVars =>
        [\A d \in Drains : Calls(d) /\ ~overlapped =>
           drain[d].told = epoch.snapshot /\ epoch.snapshot.place = place]_epochVars
  BY CallIsCurrent DEF RowSound
<1> QED
  BY <1>1, EpochSound, PTL DEF EpochSpec, ToldTheSnapshot

\* A step that keeps or replaces a row does not lose a request.
LEMMA RequestKept ==
  ASSUME EpochInvariant, [EpochNext]_epochVars, Row, Row', ~overlapped
  PROVE  epoch'.wanted # NoRequest \/ epoch'.since >= epoch.wanted
<1>1. epoch \in EpochRow /\ epoch' \in EpochRow /\ events \in Nat
  BY EpochStep DEF EpochInvariant, EpochTypeOK, Row
<1>2. CASE epoch' = epoch
  BY <1>1, <1>2 DEF EpochRow, NoRequest
<1>3. CASE epoch' = Requested
  <2>1. CASE epoch' = epoch
    BY <1>2, <2>1
  <2>2. CASE epoch' = [epoch EXCEPT !.wanted = events + 1, !.revision = @ + 1]
    <3>1. epoch'.wanted = events + 1
      BY <1>1, <2>2 DEF EpochRow
    <3> QED
      BY <1>1, <3>1 DEF NoRequest
  <2> QED
    BY <1>3, <2>1, <2>2 DEF Requested, Row
<1>4. ASSUME NEW d \in Drains, Replace(d), epoch' # epoch
      PROVE  epoch'.since >= epoch.wanted
  <2>1. HasRead(d) /\ drain[d].stored.revision = epoch.revision /\ epoch' = ReplacedRow(d)
    BY <1>4 DEF Replace, HasRow, HasRead, Unchanged
  <2>2. drain[d].stored = epoch
    BY <2>1 DEF EpochInvariant, Sound, ReadSound
  <2>3. epoch'.since = BaselineSeq(d)
    BY <2>1 DEF ReplacedRow
  <2> QED
    BY <1>1, <2>2, <2>3 DEF BaselineSeq, EpochRow, NoRequest
<1>5. ASSUME NEW d \in Drains, Update(d), epoch' # epoch
      PROVE  epoch'.since >= epoch.wanted
  <2>1. epoch.wanted = NoRequest
    BY <1>5 DEF Update
  <2> QED
    BY <1>1, <2>1 DEF EpochRow, NoRequest
<1>6. ASSUME NEW d \in Drains, Insert(d) PROVE epoch' = epoch
  BY <1>6 DEF Insert, Row
<1>7. CASE \/ \E a \in Agents : SwitchAgent(a)
           \/ Compact
           \/ \E p \in Places : Move(p)
           \/ ChangeWorld
  BY <1>2, <1>3, <1>7 DEF SwitchAgent, Compact, Move, ChangeWorld, Row
<1>8. ASSUME NEW d \in Drains,
             \/ Start(d) \/ BeginTurn(d) \/ LookForEpoch(d) \/ Observe(d) \/ FindEpoch(d)
             \/ Fence(d) \/ Reread(d) \/ LoadHistory(d) \/ Call(d) \/ EndTurn(d)
      PROVE  epoch' = epoch
  BY <1>8 DEF Start, BeginTurn, LookForEpoch, Observe, FindEpoch, Fence, Reread, LoadHistory, Call, EndTurn, OnlyDrains
<1> QED
  BY <1>2, <1>4, <1>5, <1>6, <1>7, <1>8 DEF EpochNext, epochVars

(***************************************************************************)
(* A request for a replacement is answered only by a baseline that covers  *)
(* the event that made it, or by forgetting the epoch.                     *)
(***************************************************************************)
THEOREM RequestAnswered == EpochSpec => RequestHonoured
<1>1. EpochInvariant /\ [EpochNext]_epochVars =>
        [epoch # NoEpoch /\ epoch' # NoEpoch /\ ~overlapped =>
           epoch'.wanted # NoRequest \/ epoch'.since >= epoch.wanted]_epochVars
  BY RequestKept DEF Row
<1> QED
  BY <1>1, EpochSound, PTL DEF EpochSpec, RequestHonoured
=============================================================================
