------------------------------ MODULE EventLog ------------------------------
(***************************************************************************)
(* The durable event log of the core: packages/core/src/event.ts.          *)
(*                                                                         *)
(* Synchronized events are numbered per aggregate and committed with their *)
(* projections in one immediate SQLite transaction.  Fibers of this        *)
(* process then wake the tails of the aggregate and announce the event to  *)
(* live subscribers; other processes commit to the same file, and their    *)
(* commits wake nobody here.  A tail re-queries SQLite after each wake.    *)
(*                                                                         *)
(* Commit guards, projectors and the commit hook run inside the            *)
(* transaction: when one of them dies nothing is written, which is the     *)
(* step that changes nothing.  The encoded data of an event is a body.     *)
(***************************************************************************)
EXTENDS Integers, Sequences, SequencesExt

CONSTANTS
  Aggregates,   \* aggregate ids
  EventIds,     \* ids of events
  Bodies,       \* type and data of an event
  Owners,       \* workspaces that may own an aggregate
  NoOwner,      \* owner_id is null
  Fibers,       \* fibers of this process that publish or replay
  Tails,        \* aggregateEvents streams of this process
  MaxSeq,       \* BOUND: the highest sequence number committed
  MaxAnnounced  \* BOUND: live announcements recorded

ASSUME OwnerAssumption == NoOwner \notin Owners
ASSUME SeqAssumption == MaxSeq \in Nat /\ MaxAnnounced \in Nat

VARIABLES
  head,       \* head[a]: the row of event_sequence, or Absent
  log,        \* the rows of table event
  fiber,      \* fiber[f]: what fiber f has committed and not yet told
  tail,       \* tail[s]: stream s, its cursor and its dirty signal
  delivered,  \* delivered[s]: what stream s has read so far
  announced,  \* the event ids put on the live PubSub, in order
  elsewhere   \* the rows that other processes have committed

logVars == <<head, log>>
eventVars == <<head, log, fiber, tail, delivered, announced, elsewhere>>

Absent == [seq |-> -1, owner |-> NoOwner]
Row == [aggregate : Aggregates, seq : Nat, id : EventIds, body : Bodies]
Quiet == [at |-> "idle"]
Closed == [at |-> "closed"]

RowsOf(a) == {r \in log : r.aggregate = a}
RowsAfter(a, cursor) == {r \in RowsOf(a) : r.seq > cursor}

Init ==
  /\ head = [a \in Aggregates |-> Absent]
  /\ log = {}
  /\ fiber = [f \in Fibers |-> Quiet]
  /\ tail = [s \in Tails |-> Closed]
  /\ delivered = [s \in Tails |-> <<>>]
  /\ announced = <<>>
  /\ elsewhere = {}

-----------------------------------------------------------------------------
(***************************************************************************)
(* The transaction of commitSyncEvent: the number of the next event, the   *)
(* id that must be new in the whole table, and the two rows it writes.     *)
(***************************************************************************)
NextSeq(a) == head[a].seq + 1

FreshId(id) == \A r \in log : r.id # id

ReplaceOwner(owner, new) == new   \* mutant: owner_id is set unconditionally
TakeOwner(owner, new) == IF owner = NoOwner THEN new ELSE owner

Append1(row, owner) ==
  /\ row.seq <= MaxSeq
  /\ log' = log \union {row}
  /\ head' = [head EXCEPT ![row.aggregate] = [seq |-> row.seq, owner |-> TakeOwner(@.owner, owner)]]

Committed(f, row, announce) == fiber' = [fiber EXCEPT ![f] = [at |-> "committed", row |-> row, announce |-> announce]]

EventAt(a, seq, id, body) == [aggregate |-> a, seq |-> seq, id |-> id, body |-> body]

Publish(f, a, id, body) ==
  LET row == EventAt(a, NextSeq(a), id, body) IN
  /\ fiber[f] = Quiet
  /\ FreshId(id)
  /\ Append1(row, NoOwner)
  /\ Committed(f, row, TRUE)
  /\ UNCHANGED <<tail, delivered, announced, elsewhere>>

\* publish by another process that has the same database open
PublishElsewhere(a, id, body) ==
  LET row == EventAt(a, NextSeq(a), id, body) IN
  /\ FreshId(id)
  /\ Append1(row, NoOwner)
  /\ elsewhere' = elsewhere \union {row}
  /\ UNCHANGED <<fiber, tail, delivered, announced>>

(***************************************************************************)
(* replay: an event numbered by another node.  One that is already stored  *)
(* as it is may still give an unowned aggregate its owner; any other event *)
(* at or below the head, beyond the next number, or in the name of another *)
(* owner changes nothing.                                                  *)
(***************************************************************************)
AnyGap(row) == row.seq > head[row.aggregate].seq   \* mutant: no sequence mismatch
IsNext(row) == row.seq = NextSeq(row.aggregate)

Admits(a, owner) == head[a].owner \in {NoOwner, owner}

Replay(f, row, owner, announce) ==
  /\ fiber[f] = Quiet
  /\ \/ /\ row \in log
        /\ owner # NoOwner /\ head[row.aggregate].owner = NoOwner
        /\ head' = [head EXCEPT ![row.aggregate].owner = owner]
        /\ UNCHANGED <<log, fiber>>
     \/ /\ Admits(row.aggregate, owner)
        /\ IsNext(row)
        /\ FreshId(row.id)
        /\ Append1(row, owner)
        /\ Committed(f, row, announce)
  /\ UNCHANGED <<tail, delivered, announced, elsewhere>>

Claim(a, owner) ==
  /\ head[a] # Absent
  /\ head' = [head EXCEPT ![a].owner = owner]
  /\ UNCHANGED <<log, fiber, tail, delivered, announced, elsewhere>>

\* remove: sequence row and events in one transaction.
WithoutRows(a) == log \ RowsOf(a)

RemoveAggregate(a) ==
  /\ head[a] # Absent
  /\ head' = [head EXCEPT ![a] = Absent]
  /\ log' = WithoutRows(a)
  /\ elsewhere' = elsewhere \ RowsOf(a)
  /\ UNCHANGED <<fiber, tail, delivered, announced>>

-----------------------------------------------------------------------------
(***************************************************************************)
(* After the commit, in the same uninterruptible region: a unit on the     *)
(* PubSub of every tail registered for the aggregate, sliding at one.      *)
(***************************************************************************)
Registered(s, a) == tail[s].at # "closed" /\ tail[s].aggregate = a

AnnouncedWake(f, s) == fiber[f].announce /\ Registered(s, fiber[f].row.aggregate)   \* mutant: a silent replay wakes nobody
Wakes(f, s) == Registered(s, fiber[f].row.aggregate)

Wake(f) ==
  /\ fiber[f].at = "committed"
  /\ tail' = [s \in Tails |->
       IF Wakes(f, s) THEN [tail[s] EXCEPT !.dirty = TRUE] ELSE tail[s]]
  /\ fiber' = [fiber EXCEPT ![f] = IF @.announce THEN [@ EXCEPT !.at = "woken"] ELSE Quiet]
  /\ UNCHANGED <<head, log, delivered, announced, elsewhere>>

\* Sync handlers, listeners and the live PubSubs; an interrupt may come first.
Announce(f) ==
  /\ fiber[f].at = "woken"
  /\ Len(announced) < MaxAnnounced
  /\ announced' = Append(announced, fiber[f].row.id)
  /\ fiber' = [fiber EXCEPT ![f] = Quiet]
  /\ UNCHANGED <<head, log, tail, delivered, elsewhere>>

InterruptPublisher(f) ==
  /\ fiber[f].at = "woken"
  /\ fiber' = [fiber EXCEPT ![f] = Quiet]
  /\ UNCHANGED <<head, log, tail, delivered, announced, elsewhere>>

-----------------------------------------------------------------------------
(***************************************************************************)
(* aggregateEvents: register the dirty signal, read the history after the  *)
(* cursor, then read again after every wake.                               *)
(***************************************************************************)
OpenTail(s, a, after) ==
  /\ tail[s] = Closed
  /\ tail' = [tail EXCEPT ![s] =
       [at |-> "registered", aggregate |-> a, after |-> after, cursor |-> after, dirty |-> FALSE]]
  /\ delivered' = [delivered EXCEPT ![s] = <<>>]
  /\ UNCHANGED <<head, log, fiber, announced, elsewhere>>

SameCursor(rows, cursor) == cursor   \* mutant: the cursor stays behind
LastSeq(rows, cursor) ==
  IF rows = {} THEN cursor ELSE CHOOSE n \in {r.seq : r \in rows} : \A r \in rows : r.seq <= n

\* ORDER BY seq
InOrder(rows) ==
  CHOOSE s \in SetToSeqs(rows) : \A i, j \in DOMAIN s : i < j => s[i].seq < s[j].seq

ReadTail(s) ==
  LET rows == RowsAfter(tail[s].aggregate, tail[s].cursor) IN
  /\ tail[s].at \in {"registered", "reading"}
  /\ delivered' = [delivered EXCEPT ![s] = @ \o InOrder(rows)]
  /\ tail' = [tail EXCEPT ![s] = [@ EXCEPT !.at = "live", !.cursor = LastSeq(rows, tail[s].cursor)]]
  /\ UNCHANGED <<head, log, fiber, announced, elsewhere>>

TakeWake(s) ==
  /\ tail[s].at = "live"
  /\ tail[s].dirty
  /\ tail' = [tail EXCEPT ![s] = [@ EXCEPT !.at = "reading", !.dirty = FALSE]]
  /\ UNCHANGED <<head, log, fiber, delivered, announced, elsewhere>>

CloseTail(s) ==
  /\ tail[s] # Closed
  /\ tail' = [tail EXCEPT ![s] = Closed]
  /\ UNCHANGED <<head, log, fiber, delivered, announced, elsewhere>>

\* The process dies: SQLite keeps what was committed, and nothing else stays.
Crash ==
  /\ fiber' = [f \in Fibers |-> Quiet]
  /\ tail' = [s \in Tails |-> Closed]
  /\ UNCHANGED <<head, log, delivered, announced, elsewhere>>

-----------------------------------------------------------------------------
SharedNext ==
  \/ \E f \in Fibers :
       \/ \E a \in Aggregates, id \in EventIds, b \in Bodies : Publish(f, a, id, b)
       \/ \E a \in Aggregates, n \in 0 .. MaxSeq, id \in EventIds, b \in Bodies, o \in Owners \union {NoOwner} :
            \E announce \in BOOLEAN : Replay(f, EventAt(a, n, id, b), o, announce)
       \/ Wake(f)
       \/ Announce(f)
       \/ InterruptPublisher(f)
  \/ \E s \in Tails :
       \/ \E a \in Aggregates, n \in -1 .. MaxSeq : OpenTail(s, a, n)
       \/ ReadTail(s)
       \/ TakeWake(s)
       \/ CloseTail(s)
  \/ \E a \in Aggregates, id \in EventIds, b \in Bodies : PublishElsewhere(a, id, b)
  \/ \E a \in Aggregates, o \in Owners : Claim(a, o)
  \/ Crash

Next ==
  \/ SharedNext
  \/ \E a \in Aggregates : RemoveAggregate(a)

Spec == Init /\ [][Next]_eventVars

(***************************************************************************)
(* A commit runs on to its wake because both are in one uninterruptible    *)
(* region, and a tail that is still open is pulled by its consumer; nobody *)
(* is obliged to publish, replay or open anything.                         *)
(***************************************************************************)
TailFairness ==
  /\ \A f \in Fibers : WF_eventVars(Wake(f))
  /\ \A s \in Tails : WF_eventVars(ReadTail(s)) /\ WF_eventVars(TakeWake(s))

\* The database shared with other processes, while no aggregate is removed.
SharedSpec == Init /\ [][SharedNext]_eventVars /\ TailFairness

-----------------------------------------------------------------------------
OpenTailRecord ==
  [at : {"registered", "live", "reading"}, aggregate : Aggregates,
   after : -1 .. MaxSeq, cursor : -1 .. MaxSeq, dirty : BOOLEAN]

BusyFiber == [at : {"committed", "woken"}, row : Row, announce : BOOLEAN]

LogTyped ==
  /\ head \in [Aggregates -> [seq : -1 .. MaxSeq, owner : Owners \union {NoOwner}]]
  /\ log \subseteq Row

WorkersTyped ==
  /\ fiber \in [Fibers -> BusyFiber \union {Quiet}]
  /\ tail \in [Tails -> OpenTailRecord \union {Closed}]

TypeOK ==
  /\ LogTyped
  /\ WorkersTyped
  /\ delivered \in [Tails -> Seq(Row)]
  /\ announced \in Seq(EventIds)
  /\ elsewhere \subseteq Row

(***************************************************************************)
(* The events of an aggregate are numbered 0, 1, ... up to its sequence    *)
(* row, one event each, however publishers, replays, claims and removals   *)
(* of several processes meet: a cursor is a position in one history.       *)
(***************************************************************************)
LogContiguous ==
  \A a \in Aggregates :
    /\ {r.seq : r \in RowsOf(a)} = 0 .. head[a].seq
    /\ \A r, q \in RowsOf(a) : r.seq = q.seq => r = q

(***************************************************************************)
(* An event id stands for one event of one aggregate, even when the nodes  *)
(* that send replays assign the same id twice.                             *)
(***************************************************************************)
IdsUnique == \A r, q \in log : r.id = q.id => r = q

(***************************************************************************)
(* What a tail has delivered is the history after the cursor it was opened *)
(* with: every event once, in order, none skipped, up to its cursor        *)
(* (specs/v2/session.md:169, replay durable events and tail without race). *)
(***************************************************************************)
TailGapFree ==
  \A s \in Tails : tail[s] # Closed =>
    /\ \A i \in DOMAIN delivered[s] :
         /\ delivered[s][i].seq = tail[s].after + i
         /\ delivered[s][i] \in RowsOf(tail[s].aggregate)
    /\ tail[s].cursor = tail[s].after + Len(delivered[s])

(***************************************************************************)
(* A tail that sleeps has seen every event this process has committed to   *)
(* its aggregate, except the one whose fiber is just about to wake it: the *)
(* window between reading the history and the first wake loses nothing.    *)
(* Only the commits of other processes may wait for the next wake.         *)
(***************************************************************************)
Asleep(s) == tail[s].at = "live" /\ ~tail[s].dirty
WakeComing(a) == \E f \in Fibers : fiber[f].at = "committed" /\ fiber[f].row.aggregate = a
Missed(s) == RowsAfter(tail[s].aggregate, tail[s].cursor) \ elsewhere

NoLostWake == \A s \in Tails : Asleep(s) => Missed(s) = {} \/ WakeComing(tail[s].aggregate)

(***************************************************************************)
(* Every event committed by this process reaches every tail of its         *)
(* aggregate that stays open, with all that came before it.                *)
(***************************************************************************)
Follows(s, a) == tail[s] # Closed /\ tail[s].aggregate = a
CommittedHere(a, n) == \E r \in RowsOf(a) \ elsewhere : r.seq = n

TailCatchesUp ==
  \A s \in Tails, a \in Aggregates, n \in 0 .. MaxSeq :
    (Follows(s, a) /\ CommittedHere(a, n)) ~> (~Follows(s, a) \/ tail[s].cursor >= n)

(***************************************************************************)
(* The log implements a set of histories that only grow at their end:      *)
(* each change of its tables is a step of DurableLog, whoever makes it.    *)
(***************************************************************************)
Durable == INSTANCE DurableLog WITH
  history <- [a \in Aggregates |->
    [i \in 1 .. head[a].seq + 1 |-> LET r == CHOOSE q \in RowsOf(a) : q.seq = i - 1 IN <<r.id, r.body>>]],
  owner <- [a \in Aggregates |-> head[a].owner]

KeepsHistory == Durable!Init /\ [][logVars' # logVars => Durable!Next]_eventVars
=============================================================================
