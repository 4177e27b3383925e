----------------------------- MODULE CoreProofs -----------------------------
(***************************************************************************)
(* Theorems about the event log and its tails, for every set of            *)
(* aggregates, fibers and tails and for logs of any length, and about the  *)
(* jobs of subagents, for any number of calls of the task tool.            *)
(***************************************************************************)
EXTENDS EventLog, BackgroundJob, Sums


(***************************************************************************)
(* The numbering, the ids and the type of the two tables.                  *)
(***************************************************************************)
LogInvariant == LogTyped /\ LogContiguous /\ IdsUnique

LEMMA AppendKeepsLog ==
  ASSUME LogInvariant,
         NEW a \in Aggregates, NEW id \in EventIds, NEW b \in Bodies,
         NEW o \in Owners \union {NoOwner},
         FreshId(id),
         Append1(EventAt(a, NextSeq(a), id, b), o)
  PROVE  LogInvariant'
<1>1. PICK row : row = EventAt(a, NextSeq(a), id, b)
  OBVIOUS
<1>2. /\ head \in [Aggregates -> [seq : -1 .. MaxSeq, owner : Owners \union {NoOwner}]]
      /\ log \subseteq Row
  BY DEF LogInvariant, LogTyped
<1>3. /\ row.aggregate = a /\ row.seq = head[a].seq + 1 /\ row.id = id
      /\ row.seq \in Nat /\ row.seq <= MaxSeq /\ row \in Row
      /\ head[a].seq \in -1 .. MaxSeq
  BY <1>1, <1>2, SeqAssumption DEF EventAt, NextSeq, Row, Append1
<1>4. /\ log' = log \union {row}
      /\ head' = [head EXCEPT ![a] = [seq |-> row.seq, owner |-> TakeOwner(head[a].owner, o)]]
  BY <1>1, <1>2, <1>3 DEF Append1
<1>5. LogTyped'
  <2>1. TakeOwner(head[a].owner, o) \in Owners \union {NoOwner}
    BY <1>2 DEF TakeOwner
  <2>2. row.seq \in -1 .. MaxSeq
    BY <1>3, SeqAssumption
  <2>3. [seq |-> row.seq, owner |-> TakeOwner(head[a].owner, o)]
          \in [seq : -1 .. MaxSeq, owner : Owners \union {NoOwner}]
    BY <2>1, <2>2
  <2> QED
    BY <1>2, <1>3, <1>4, <2>3 DEF LogTyped
<1>6. IdsUnique'
  BY <1>3, <1>4 DEF LogInvariant, IdsUnique, FreshId
<1>7. ASSUME NEW c \in Aggregates
      PROVE  /\ {r.seq : r \in RowsOf(c)'} = 0 .. head'[c].seq
             /\ \A r, q \in RowsOf(c)' : r.seq = q.seq => r = q
  <2>1. {r.seq : r \in RowsOf(c)} = 0 .. head[c].seq /\ \A r, q \in RowsOf(c) : r.seq = q.seq => r = q
    BY DEF LogInvariant, LogContiguous
  <2>2. CASE c # a
    <3>1. RowsOf(c)' = RowsOf(c) /\ head'[c] = head[c]
      BY <1>2, <1>3, <1>4, <2>2 DEF RowsOf
    <3> QED
      BY <2>1, <3>1
  <2>3. CASE c = a
    <3>1. RowsOf(a)' = RowsOf(a) \union {row} /\ head'[a].seq = head[a].seq + 1
      BY <1>2, <1>3, <1>4 DEF RowsOf
    <3>2. {r.seq : r \in RowsOf(a)'} = (0 .. head[a].seq) \union {head[a].seq + 1}
      BY <1>3, <2>1, <2>3, <3>1
    <3>3. (0 .. head[a].seq) \union {head[a].seq + 1} = 0 .. head[a].seq + 1
      BY <1>3, SeqAssumption
    <3>4. \A r \in RowsOf(a) : r.seq # row.seq
      BY <1>3, <2>1, <2>3, SeqAssumption
    <3> QED
      BY <2>1, <2>3, <3>1, <3>2, <3>3, <3>4
  <2> QED
    BY <2>2, <2>3
<1> QED
  BY <1>5, <1>6, <1>7 DEF LogInvariant, LogContiguous

LEMMA OwnerKeepsLog ==
  ASSUME LogInvariant, NEW a \in Aggregates, NEW o \in Owners,
         head' = [head EXCEPT ![a].owner = o], UNCHANGED log
  PROVE  LogInvariant'
<1>1. head \in [Aggregates -> [seq : -1 .. MaxSeq, owner : Owners \union {NoOwner}]]
  BY DEF LogInvariant, LogTyped
<1>2. /\ head' \in [Aggregates -> [seq : -1 .. MaxSeq, owner : Owners \union {NoOwner}]]
      /\ \A c \in Aggregates : head'[c].seq = head[c].seq
  BY <1>1
<1>3. LogContiguous'
  BY <1>2 DEF LogInvariant, LogContiguous, RowsOf
<1> QED
  BY <1>2, <1>3 DEF LogInvariant, LogTyped, IdsUnique

LEMMA RemoveKeepsLog ==
  ASSUME LogInvariant, NEW a \in Aggregates, RemoveAggregate(a)
  PROVE  LogInvariant'
<1>1. /\ head \in [Aggregates -> [seq : -1 .. MaxSeq, owner : Owners \union {NoOwner}]]
      /\ log \subseteq Row
  BY DEF LogInvariant, LogTyped
<1>2. log' = log \ RowsOf(a) /\ head' = [head EXCEPT ![a] = Absent]
  BY DEF RemoveAggregate, WithoutRows
<1>3. Absent \in [seq : -1 .. MaxSeq, owner : Owners \union {NoOwner}]
  BY SeqAssumption DEF Absent
<1>4. LogTyped'
  BY <1>1, <1>2, <1>3 DEF LogTyped
<1>5. ASSUME NEW c \in Aggregates
      PROVE  /\ {r.seq : r \in RowsOf(c)'} = 0 .. head'[c].seq
             /\ \A r, q \in RowsOf(c)' : r.seq = q.seq => r = q
  <2>1. {r.seq : r \in RowsOf(c)} = 0 .. head[c].seq /\ \A r, q \in RowsOf(c) : r.seq = q.seq => r = q
    BY DEF LogInvariant, LogContiguous
  <2>2. CASE c # a
    <3>1. RowsOf(c)' = RowsOf(c) /\ head'[c] = head[c]
      BY <1>1, <1>2, <2>2 DEF RowsOf
    <3> QED
      BY <2>1, <3>1
  <2>3. CASE c = a
    <3>1. RowsOf(c)' = {} /\ head'[c].seq = -1
      BY <1>1, <1>2, <2>3 DEF RowsOf, Absent
    <3> QED
      BY <3>1
  <2> QED
    BY <2>2, <2>3
<1> QED
  BY <1>2, <1>4, <1>5 DEF LogInvariant, LogContiguous, IdsUnique

LEMMA LogStep ==
  ASSUME LogInvariant, [Next]_eventVars
  PROVE  LogInvariant'
<1>1. ASSUME UNCHANGED logVars PROVE LogInvariant'
  BY <1>1 DEF logVars, LogInvariant, LogTyped, LogContiguous, IdsUnique, RowsOf
<1>2. ASSUME NEW f \in Fibers, NEW a \in Aggregates, NEW id \in EventIds, NEW b \in Bodies, Publish(f, a, id, b)
      PROVE  LogInvariant'
  BY <1>2, AppendKeepsLog DEF Publish, Append1
<1>3. ASSUME NEW a \in Aggregates, NEW id \in EventIds, NEW b \in Bodies, PublishElsewhere(a, id, b)
      PROVE  LogInvariant'
  BY <1>3, AppendKeepsLog DEF PublishElsewhere, Append1
<1>4. ASSUME NEW f \in Fibers, NEW a \in Aggregates, NEW n \in 0 .. MaxSeq, NEW id \in EventIds, NEW b \in Bodies,
             NEW o \in Owners \union {NoOwner}, NEW t \in BOOLEAN, Replay(f, EventAt(a, n, id, b), o, t)
      PROVE  LogInvariant'
  <2> DEFINE row == EventAt(a, n, id, b)
  <2>1. row.aggregate = a /\ row.seq = n /\ row.id = id
    BY DEF EventAt
  <2>2. CASE o # NoOwner /\ head' = [head EXCEPT ![a].owner = o] /\ UNCHANGED log
    BY <2>2, OwnerKeepsLog
  <2>3. CASE n = NextSeq(a) /\ FreshId(id) /\ Append1(EventAt(a, NextSeq(a), id, b), o)
    BY <2>3, AppendKeepsLog DEF Append1
  <2>4. \/ o # NoOwner /\ head' = [head EXCEPT ![a].owner = o] /\ UNCHANGED log
        \/ n = NextSeq(a) /\ FreshId(id) /\ Append1(row, o)
    BY <1>4, <2>1 DEF Replay, IsNext
  <2> QED
    BY <2>2, <2>3, <2>4
<1>5. ASSUME NEW a \in Aggregates, NEW o \in Owners, Claim(a, o) PROVE LogInvariant'
  BY <1>5, OwnerKeepsLog DEF Claim
<1>6. ASSUME SharedNext PROVE LogInvariant'
  BY <1>1, <1>2, <1>3, <1>4, <1>5, <1>6
  DEF SharedNext, logVars, Wake, Announce, InterruptPublisher, OpenTail, ReadTail, TakeWake, CloseTail, Crash
<1> QED
  BY <1>1, <1>6, RemoveKeepsLog DEF Next, eventVars, logVars

LEMMA LogInit == Init => LogInvariant
<1> SUFFICES ASSUME Init PROVE LogInvariant
  OBVIOUS
<1>1. LogTyped
  BY SeqAssumption DEF Init, LogTyped, Absent
<1>2. \A a \in Aggregates : RowsOf(a) = {} /\ head[a].seq = -1
  BY DEF Init, RowsOf, Absent
<1> QED
  BY <1>1, <1>2 DEF Init, LogInvariant, LogContiguous, IdsUnique

THEOREM LogInvariantHolds == Spec => []LogInvariant
<1>1. LogInvariant /\ [Next]_eventVars => LogInvariant'
  BY LogStep
<1> QED
  BY <1>1, LogInit, PTL DEF Spec

(***************************************************************************)
(* Whatever publishers, replays, claims, removals and crashes meet, the    *)
(* events of an aggregate are numbered from 0 to its sequence row without  *)
(* gap or double: what commitSyncEvent's transaction is for.               *)
(***************************************************************************)
THEOREM NumberingHolds == Spec => []LogContiguous
<1>1. LogInvariant => LogContiguous
  BY DEF LogInvariant
<1> QED
  BY <1>1, LogInvariantHolds, PTL

(***************************************************************************)
(* No event id is ever stored twice, at whatever position it is replayed.  *)
(***************************************************************************)
THEOREM IdsHold == Spec => []IdsUnique
<1>1. LogInvariant => IdsUnique
  BY DEF LogInvariant
<1> QED
  BY <1>1, LogInvariantHolds, PTL

-----------------------------------------------------------------------------
(***************************************************************************)
(* The tails.  WakeInvariant adds to the numbering what a sleeping tail    *)
(* has seen; the numbering is needed because the cursor of a tail is the   *)
(* highest number it read, which covers the rest only without gaps.        *)
(***************************************************************************)
WakeInvariant == LogInvariant /\ WorkersTyped /\ NoLostWake

LEMMA LastSeqCovers ==
  ASSUME LogInvariant, NEW a \in Aggregates, NEW cursor \in -1 .. MaxSeq
  PROVE  LET n == LastSeq(RowsAfter(a, cursor), cursor) IN
         n \in -1 .. MaxSeq /\ RowsAfter(a, n) = {}
<1> DEFINE rows == RowsAfter(a, cursor)
<1>1. /\ head[a].seq \in -1 .. MaxSeq
      /\ {r.seq : r \in RowsOf(a)} = 0 .. head[a].seq
      /\ \A r \in RowsOf(a) : r.seq \in Nat
  BY DEF LogInvariant, LogTyped, LogContiguous, RowsOf, Row
<1>2. CASE rows = {}
  BY <1>2 DEF LastSeq
<1>3. CASE rows # {}
  <2>1. PICK r \in RowsOf(a) : r.seq > cursor
    BY <1>3 DEF RowsAfter
  <2>2. r.seq \in 0 .. head[a].seq
    BY <1>1
  <2>3. head[a].seq \in 0 .. head[a].seq /\ head[a].seq > cursor
    BY <1>1, <2>1, <2>2, SeqAssumption
  <2>4. PICK q \in RowsOf(a) : q.seq = head[a].seq
    BY <1>1, <2>3
  <2>5. q \in rows /\ \A p \in rows : p.seq <= q.seq
    BY <1>1, <2>3, <2>4, SeqAssumption DEF RowsAfter
  <2>6. PICK n : n = LastSeq(rows, cursor)
    OBVIOUS
  <2>7. n \in {p.seq : p \in rows} /\ \A p \in rows : p.seq <= n
    BY <1>3, <2>5, <2>6 DEF LastSeq
  <2>8. n = head[a].seq
    <3>1. PICK p \in rows : n = p.seq
      BY <2>7
    <3>2. p \in RowsOf(a) /\ p.seq \in Nat /\ p.seq <= q.seq /\ q.seq <= n
      BY <1>1, <2>5, <2>7, <3>1 DEF RowsAfter
    <3> QED
      BY <1>1, <2>4, <3>1, <3>2, SeqAssumption
  <2>9. RowsAfter(a, n) = {}
    BY <1>1, <2>8, SeqAssumption DEF RowsAfter
  <2> QED
    BY <1>1, <2>6, <2>8, <2>9
<1> QED
  BY <1>2, <1>3

LEMMA WakeStep ==
  ASSUME WakeInvariant, [SharedNext]_eventVars
  PROVE  WakeInvariant'
<1>1. LogInvariant'
  BY LogStep DEF WakeInvariant, Next
<1>2. WorkersTyped /\ NoLostWake /\ LogInvariant
  BY DEF WakeInvariant
<1>3. ASSUME NEW s \in Tails, tail[s] # Closed
      PROVE  tail[s] \in OpenTailRecord
  BY <1>2, <1>3 DEF WorkersTyped
<1>4. ASSUME UNCHANGED <<log, fiber, tail, elsewhere>> PROVE WorkersTyped' /\ NoLostWake'
  BY <1>2, <1>4 DEF WorkersTyped, NoLostWake, Asleep, WakeComing, Missed, RowsAfter, RowsOf
\* A commit adds one row, and its fiber is about to wake the aggregate.
<1>5. ASSUME NEW f \in Fibers, NEW row \in Row, NEW t \in BOOLEAN, fiber[f] = Quiet,
             log' = log \union {row}, Committed(f, row, t), UNCHANGED <<tail, elsewhere>>
      PROVE  WorkersTyped' /\ NoLostWake'
  <2>1. PICK k : k = [at |-> "committed", row |-> row, announce |-> t]
    OBVIOUS
  <2>2. fiber' = [fiber EXCEPT ![f] = k] /\ k \in BusyFiber /\ k.at = "committed" /\ k.row = row
    BY <1>5, <2>1 DEF Committed, BusyFiber
  <2>3. WorkersTyped'
    BY <1>2, <1>5, <2>2 DEF WorkersTyped
  <2>4. ASSUME NEW s \in Tails, Asleep(s)'
        PROVE  Missed(s)' = {} \/ WakeComing(tail[s].aggregate)'
    <3>1. Asleep(s) /\ tail'[s] = tail[s]
      BY <1>5, <2>4 DEF Asleep
    <3>2. fiber'[f].at = "committed" /\ fiber'[f].row = row
      BY <1>2, <2>2 DEF WorkersTyped
    <3>3. CASE row.aggregate = tail[s].aggregate
      BY <1>5, <3>2, <3>3 DEF WakeComing
    <3>4. CASE row.aggregate # tail[s].aggregate
      <4>1. Missed(s)' = Missed(s)
        BY <1>5, <3>4 DEF Missed, RowsAfter, RowsOf
      <4>2. WakeComing(tail[s].aggregate) => WakeComing(tail[s].aggregate)'
        <5>1. \A g \in Fibers : fiber[g].at = "committed" => g # f /\ fiber'[g] = fiber[g]
          BY <1>2, <1>5, <2>2 DEF WorkersTyped, Quiet
        <5> QED
          BY <1>5, <5>1 DEF WakeComing
      <4> QED
        BY <1>2, <3>1, <4>1, <4>2 DEF NoLostWake
    <3> QED
      BY <3>3, <3>4
  <2> QED
    BY <2>3, <2>4 DEF NoLostWake
<1>6. ASSUME NEW f \in Fibers, Wake(f) PROVE WorkersTyped' /\ NoLostWake'
  <2>1. /\ fiber[f].at = "committed" /\ fiber[f] \in BusyFiber
        /\ log' = log /\ elsewhere' = elsewhere
        /\ tail' = [s \in Tails |->
             IF Wakes(f, s) THEN [tail[s] EXCEPT !.dirty = TRUE] ELSE tail[s]]
        /\ \A g \in Fibers \ {f} : fiber'[g] = fiber[g]
    BY <1>2, <1>6 DEF Wake, WorkersTyped, Quiet
  <2>2. WorkersTyped'
    <3>1. \A s \in Tails : tail'[s] \in OpenTailRecord \union {Closed}
      BY <1>2, <2>1 DEF WorkersTyped, Wakes, Registered, OpenTailRecord, Closed
    <3>2. fiber' \in [Fibers -> BusyFiber \union {Quiet}]
      <4>1. PICK k : k = IF fiber[f].announce THEN [fiber[f] EXCEPT !.at = "woken"] ELSE Quiet
        OBVIOUS
      <4>2. k \in BusyFiber \union {Quiet}
        BY <2>1, <4>1 DEF BusyFiber
      <4>3. fiber' = [fiber EXCEPT ![f] = k]
        BY <1>2, <1>6, <4>1 DEF Wake, WorkersTyped
      <4> QED
        BY <1>2, <4>2, <4>3 DEF WorkersTyped
    <3> QED
      BY <2>1, <3>1, <3>2 DEF WorkersTyped
  <2>3. ASSUME NEW s \in Tails, Asleep(s)'
        PROVE  Missed(s)' = {} \/ WakeComing(tail[s].aggregate)'
    <3>1. CASE Wakes(f, s)
      <4>1. tail[s] \in OpenTailRecord
        BY <1>2, <3>1 DEF WorkersTyped, Wakes, Registered, Closed
      <4>2. tail'[s].dirty
        BY <2>1, <3>1, <4>1 DEF OpenTailRecord
      <4> QED
        BY <2>3, <4>2 DEF Asleep
    <3>2. CASE ~Wakes(f, s)
      <4>1. tail'[s] = tail[s] /\ Asleep(s) /\ tail[s].aggregate # fiber[f].row.aggregate
        BY <2>1, <2>3, <3>2 DEF Asleep, Wakes, Registered
      <4>2. Missed(s)' = Missed(s)
        BY <2>1, <4>1 DEF Missed, RowsAfter, RowsOf
      <4>3. WakeComing(tail[s].aggregate) => WakeComing(tail[s].aggregate)'
        BY <2>1, <4>1 DEF WakeComing
      <4> QED
        BY <1>2, <4>1, <4>2, <4>3 DEF NoLostWake
    <3> QED
      BY <3>1, <3>2
  <2> QED
    BY <2>2, <2>3 DEF NoLostWake
\* A fiber that has woken the tails already leaves the commits of the others alone.
<1>7. ASSUME NEW f \in Fibers, fiber[f].at = "woken", fiber' = [fiber EXCEPT ![f] = Quiet],
             UNCHANGED <<log, tail, elsewhere>>
      PROVE  WorkersTyped' /\ NoLostWake'
  <2>1. \A g \in Fibers : fiber[g].at = "committed" => fiber'[g] = fiber[g]
    BY <1>2, <1>7 DEF WorkersTyped
  <2>2. \A a : WakeComing(a) => WakeComing(a)'
    BY <2>1 DEF WakeComing
  <2>3. WorkersTyped'
    BY <1>2, <1>7 DEF WorkersTyped
  <2> QED
    BY <1>2, <1>7, <2>2, <2>3 DEF NoLostWake, Asleep, Missed, RowsAfter, RowsOf
\* A step of one tail that does not put it to sleep, or only with nothing unread.
<1>8. ASSUME NEW s \in Tails, NEW k \in OpenTailRecord \union {Closed}, tail' = [tail EXCEPT ![s] = k],
             k.at = "live" /\ ~k.dirty => RowsAfter(k.aggregate, k.cursor) = {},
             UNCHANGED <<log, fiber, elsewhere>>
      PROVE  WorkersTyped' /\ NoLostWake'
  <2>1. WorkersTyped'
    BY <1>2, <1>8 DEF WorkersTyped
  <2>2. ASSUME NEW v \in Tails, Asleep(v)'
        PROVE  Missed(v)' = {} \/ WakeComing(tail[v].aggregate)'
    <3>1. CASE v = s
      <4>1. tail'[v] = k
        BY <1>2, <1>8, <3>1 DEF WorkersTyped
      <4> QED
        BY <1>8, <2>2, <4>1 DEF Asleep, Missed, RowsAfter, RowsOf
    <3>2. CASE v # s
      <4>1. tail'[v] = tail[v]
        BY <1>2, <1>8, <3>2 DEF WorkersTyped
      <4> QED
        BY <1>2, <1>8, <2>2, <4>1 DEF NoLostWake, Asleep, Missed, RowsAfter, RowsOf, WakeComing
    <3> QED
      BY <3>1, <3>2
  <2> QED
    BY <2>1, <2>2 DEF NoLostWake
<1>9. ASSUME Crash PROVE WorkersTyped' /\ NoLostWake'
  BY <1>9 DEF Crash, WorkersTyped, NoLostWake, Asleep, Closed
<1>10. ASSUME NEW f \in Fibers, NEW a \in Aggregates, NEW id \in EventIds, NEW b \in Bodies, Publish(f, a, id, b)
       PROVE  WorkersTyped' /\ NoLostWake'
  <2>1. PICK row : row = EventAt(a, NextSeq(a), id, b)
    OBVIOUS
  <2>2. row \in Row
    BY <1>2, <2>1 DEF LogInvariant, LogTyped, EventAt, NextSeq, Row
  <2> QED
    BY <1>5, <1>10, <2>1, <2>2 DEF Publish, Append1
<1>11. ASSUME NEW f \in Fibers, NEW a \in Aggregates, NEW n \in 0 .. MaxSeq, NEW id \in EventIds, NEW b \in Bodies,
              NEW o \in Owners \union {NoOwner}, NEW t \in BOOLEAN, Replay(f, EventAt(a, n, id, b), o, t)
       PROVE  WorkersTyped' /\ NoLostWake'
  <2>1. PICK row : row = EventAt(a, n, id, b)
    OBVIOUS
  <2>2. row \in Row
    BY <2>1, SeqAssumption DEF EventAt, Row
  <2> QED
    BY <1>4, <1>5, <1>11, <2>1, <2>2 DEF Replay, Append1
<1>12. ASSUME NEW s \in Tails, NEW a \in Aggregates, NEW n \in -1 .. MaxSeq, OpenTail(s, a, n)
       PROVE  WorkersTyped' /\ NoLostWake'
  BY <1>8, <1>12 DEF OpenTail, OpenTailRecord
<1>13. ASSUME NEW s \in Tails, ReadTail(s) PROVE WorkersTyped' /\ NoLostWake'
  <2>1. tail[s] \in OpenTailRecord
    BY <1>3, <1>13 DEF ReadTail, Closed
  <2>2. PICK n : n = LastSeq(RowsAfter(tail[s].aggregate, tail[s].cursor), tail[s].cursor)
    OBVIOUS
  <2>3. tail[s].aggregate \in Aggregates /\ tail[s].cursor \in -1 .. MaxSeq
    BY <2>1 DEF OpenTailRecord
  <2>4. n \in -1 .. MaxSeq /\ RowsAfter(tail[s].aggregate, n) = {}
    BY <1>2, <2>2, <2>3, LastSeqCovers
  <2>5. PICK k : k = [tail[s] EXCEPT !.at = "live", !.cursor = n]
    OBVIOUS
  <2>6. k \in OpenTailRecord /\ RowsAfter(k.aggregate, k.cursor) = {}
    BY <2>1, <2>4, <2>5 DEF OpenTailRecord
  <2>7. tail' = [tail EXCEPT ![s] = k] /\ UNCHANGED <<log, fiber, elsewhere>>
    BY <1>13, <2>2, <2>5 DEF ReadTail
  <2> QED
    BY <1>8, <2>6, <2>7
<1>14. ASSUME NEW s \in Tails, TakeWake(s) PROVE WorkersTyped' /\ NoLostWake'
  <2>1. tail[s] \in OpenTailRecord
    BY <1>3, <1>14 DEF TakeWake, Closed
  <2>2. PICK k : k = [tail[s] EXCEPT !.at = "reading", !.dirty = FALSE]
    OBVIOUS
  <2>3. k \in OpenTailRecord /\ k.at = "reading"
    BY <2>1, <2>2 DEF OpenTailRecord
  <2>4. tail' = [tail EXCEPT ![s] = k] /\ UNCHANGED <<log, fiber, elsewhere>>
    BY <1>2, <1>14, <2>2 DEF TakeWake, WorkersTyped
  <2> QED
    BY <1>8, <2>3, <2>4
<1>15. ASSUME NEW s \in Tails, CloseTail(s) PROVE WorkersTyped' /\ NoLostWake'
  BY <1>8, <1>15 DEF CloseTail, Closed
\* A commit of another process adds its row to those that need no wake.
<1>16. ASSUME NEW a \in Aggregates, NEW id \in EventIds, NEW b \in Bodies, PublishElsewhere(a, id, b)
       PROVE  WorkersTyped' /\ NoLostWake'
  <2>1. PICK row : row = EventAt(a, NextSeq(a), id, b)
    OBVIOUS
  <2>2. log' = log \union {row} /\ elsewhere' = elsewhere \union {row} /\ UNCHANGED <<fiber, tail>>
    BY <1>16, <2>1 DEF PublishElsewhere, Append1
  <2>3. \A s \in Tails : Missed(s)' \subseteq Missed(s)
    BY <2>2 DEF Missed, RowsAfter, RowsOf
  <2> QED
    BY <1>2, <2>2, <2>3 DEF WorkersTyped, NoLostWake, Asleep, WakeComing
<1>17. ASSUME SharedNext PROVE WorkersTyped' /\ NoLostWake'
  <2>1. ASSUME NEW f \in Fibers, Announce(f) \/ InterruptPublisher(f) PROVE WorkersTyped' /\ NoLostWake'
    BY <1>7, <2>1 DEF Announce, InterruptPublisher
  <2>2. ASSUME NEW a \in Aggregates, NEW o \in Owners, Claim(a, o) PROVE WorkersTyped' /\ NoLostWake'
    BY <1>4, <2>2 DEF Claim
  <2> QED
    BY <1>6, <1>9, <1>10, <1>11, <1>12, <1>13, <1>14, <1>15, <1>16, <1>17, <2>1, <2>2 DEF SharedNext
<1> QED
  BY <1>1, <1>4, <1>17 DEF WakeInvariant, eventVars

(***************************************************************************)
(* No tail ever sleeps on an unread event of its own process: registering  *)
(* the dirty signal before the history is read closes the window between   *)
(* them, for any number of publishers, tails, aggregates and other         *)
(* processes that commit to the same database.                             *)
(***************************************************************************)
THEOREM NoWakeIsLost == SharedSpec => []NoLostWake
<1>1. Init => WakeInvariant
  BY LogInit DEF Init, WakeInvariant, WorkersTyped, NoLostWake, Asleep, Closed, Quiet
<1>2. WakeInvariant /\ [SharedNext]_eventVars => WakeInvariant'
  BY WakeStep
<1>3. WakeInvariant => NoLostWake
  BY DEF WakeInvariant
<1> QED
  BY <1>1, <1>2, <1>3, PTL DEF SharedSpec

-----------------------------------------------------------------------------
(***************************************************************************)
(* What a tail has read.                                                   *)
(***************************************************************************)

(***************************************************************************)
(* Numbers in ascending order that fill a range are the range.             *)
(***************************************************************************)
LEMMA AscendingFillsRange ==
  ASSUME NEW c \in Int, NEW k \in Nat, NEW g, \A i \in 1 .. k : g[i] \in c + 1 .. c + k,
         \A i, j \in 1 .. k : i < j => g[i] < g[j]
  PROVE  \A i \in 1 .. k : g[i] = c + i
<1>1. \A i \in 1 .. k : g[i] >= c + i
  <2> DEFINE Low == {i \in 1 .. k : ~(g[i] >= c + i)}
  <2> SUFFICES ASSUME Low # {} PROVE FALSE
    OBVIOUS
  <2>1. Low \in SUBSET Nat
    OBVIOUS
  <2> HIDE DEF Low
  <2>2. PICK i \in Low : \A j \in Low : i <= j
    BY <2>1, LeastNumber
  <2>3. i \in 1 .. k /\ ~(g[i] >= c + i) /\ g[i] \in c + 1 .. c + k
    BY <2>2 DEF Low
  <2>4. i - 1 \in 1 .. k
    BY <2>3
  <2>5. i - 1 \notin Low
    BY <2>2, <2>3
  <2>6. g[i - 1] >= c + (i - 1) /\ g[i - 1] \in c + 1 .. c + k
    BY <2>4, <2>5 DEF Low
  <2>7. g[i - 1] < g[i]
    BY <2>3, <2>4
  <2> QED
    BY <2>3, <2>6, <2>7
<1>2. \A i \in 1 .. k : g[i] <= c + i
  <2> DEFINE High == {n \in 0 .. k - 1 : ~(g[k - n] <= c + (k - n))}
  <2>1. High = {}
    <3> SUFFICES ASSUME High # {} PROVE FALSE
      OBVIOUS
    <3>1. High \in SUBSET Nat
      OBVIOUS
    <3> HIDE DEF High
    <3>2. PICK n \in High : \A m \in High : n <= m
      BY <3>1, LeastNumber
    <3>3. n \in 0 .. k - 1 /\ ~(g[k - n] <= c + (k - n)) /\ g[k - n] \in c + 1 .. c + k
      BY <3>2 DEF High
    <3>4. n - 1 \in 0 .. k - 1
      BY <3>3
    <3>5. n - 1 \notin High
      BY <3>2, <3>3
    <3> DEFINE here == k - n
               next == k - (n - 1)
    <3>6. g[next] <= c + next /\ g[next] \in c + 1 .. c + k
      BY <3>4, <3>5 DEF High
    <3>7. here \in 1 .. k /\ next \in 1 .. k /\ next = here + 1
      BY <3>3, <3>4
    <3>8. g[here] < g[next]
      BY <3>7
    <3> QED
      BY <3>3, <3>6, <3>7, <3>8
  <2>2. ASSUME NEW i \in 1 .. k PROVE g[i] <= c + i
    <3>1. k - i \in 0 .. k - 1 /\ k - (k - i) = i
      OBVIOUS
    <3> QED
      BY <2>1, <3>1
  <2> QED
    BY <2>2
<1> QED
  BY <1>1, <1>2

(***************************************************************************)
(* What a tail reads: the rows after its cursor, one for each number, in   *)
(* order, up to the cursor it has then.                                    *)
(***************************************************************************)
LEMMA ReadsInOrder ==
  ASSUME LogInvariant, NEW a \in Aggregates, NEW cursor \in -1 .. MaxSeq
  PROVE  /\ InOrder(RowsAfter(a, cursor)) \in Seq(RowsOf(a))
         /\ LastSeq(RowsAfter(a, cursor), cursor) = cursor + Len(InOrder(RowsAfter(a, cursor)))
         /\ \A i \in DOMAIN InOrder(RowsAfter(a, cursor)) : InOrder(RowsAfter(a, cursor))[i].seq = cursor + i
<1> DEFINE rows == RowsAfter(a, cursor)
           top == head[a].seq
           numbers == cursor + 1 .. top
           k == Cardinality(rows)
<1>1. /\ top \in -1 .. MaxSeq /\ cursor \in Int /\ top \in Int
      /\ {r.seq : r \in RowsOf(a)} = 0 .. top
      /\ \A r \in RowsOf(a) : r.seq \in Nat
      /\ \A r, q \in RowsOf(a) : r.seq = q.seq => r = q
  BY SeqAssumption DEF LogInvariant, LogTyped, LogContiguous, RowsOf, Row
<1>2. \A r \in rows : r \in RowsOf(a) /\ r.seq \in numbers
  BY <1>1 DEF RowsAfter
<1>3. \A n \in numbers : \E r \in rows : r.seq = n
  <2> SUFFICES ASSUME NEW n \in numbers PROVE \E r \in rows : r.seq = n
    OBVIOUS
  <2>1. n \in 0 .. top /\ n > cursor
    BY <1>1, SeqAssumption
  <2>2. PICK r \in RowsOf(a) : r.seq = n
    BY <1>1, <2>1
  <2> QED
    BY <2>1, <2>2 DEF RowsAfter
<1> HIDE DEF rows
<1> DEFINE row == [n \in numbers |-> CHOOSE r \in rows : r.seq = n]
<1>4. \A n \in numbers : row[n] \in rows /\ row[n].seq = n
  BY <1>3
<1>5. IsFiniteSet(rows) /\ k = IF cursor + 1 > top THEN 0 ELSE top - cursor
  <2>1. row \in [numbers -> rows]
    BY <1>4
  <2>2. \A m, n \in numbers : row[m] = row[n] => m = n
    BY <1>4
  <2>3. \A r \in rows : \E n \in numbers : row[n] = r
    BY <1>1, <1>2, <1>4
  <2>4. row \in Bijection(numbers, rows)
    BY <2>1, <2>2, <2>3 DEF Bijection, Injection, Surjection, IsInjective
  <2>5. IsFiniteSet(numbers) /\ Cardinality(numbers) = IF cursor + 1 > top THEN 0 ELSE top - (cursor + 1) + 1
    <3>1. cursor + 1 \in Int /\ top \in Int
      BY <1>1
    <3> QED
      BY <3>1, FS_Interval
  <2>6. IsFiniteSet(rows) /\ Cardinality(rows) = Cardinality(numbers)
    BY <2>4, <2>5, FS_Bijection DEF ExistsBijection
  <2> QED
    BY <1>1, <2>5, <2>6
<1>6. k \in Nat /\ numbers = cursor + 1 .. cursor + k
  BY <1>1, <1>5
<1> HIDE DEF k, row
<1> DEFINE Sorted(s) == s \in SetToSeqs(rows) /\ \A i, j \in DOMAIN s : i < j => s[i].seq < s[j].seq
<1>7. \E s : Sorted(s)
  <2> DEFINE s == [i \in 1 .. k |-> row[cursor + i]]
  <2>1. \A i \in 1 .. k : cursor + i \in numbers
    BY <1>1, <1>6
  <2>2. \A i \in 1 .. k : s[i] \in rows /\ s[i].seq = cursor + i
    BY <1>4, <2>1
  <2>3. s \in [1 .. k -> rows] /\ DOMAIN s = 1 .. k
    BY <2>2
  <2> HIDE DEF s
  <2>4. \A i, j \in 1 .. k : (i # j => s[i] # s[j]) /\ (i < j => s[i].seq < s[j].seq)
    BY <1>1, <2>2
  <2>5. s \in SetToSeqs(rows)
    BY <2>3, <2>4 DEF SetToSeqs, k
  <2> QED
    BY <2>3, <2>4, <2>5
<1> DEFINE read == InOrder(rows)
<1>8. Sorted(read)
  BY <1>7 DEF InOrder
<1> HIDE DEF read
<1>9. read \in [1 .. k -> rows] /\ DOMAIN read = 1 .. k
  BY <1>8 DEF SetToSeqs, k
<1>10. \A i \in 1 .. k : read[i].seq = cursor + i
  <2> DEFINE g == [i \in 1 .. k |-> read[i].seq]
  <2>1. \A i \in 1 .. k : g[i] = read[i].seq /\ g[i] \in cursor + 1 .. cursor + k
    BY <1>2, <1>6, <1>9
  <2>2. \A i, j \in 1 .. k : i < j => g[i] < g[j]
    BY <1>8, <1>9
  <2> HIDE DEF g
  <2>3. \A i \in 1 .. k : g[i] = cursor + i
    <3>1. cursor \in Int /\ k \in Nat
      BY <1>1, <1>6
    <3>2. \A i \in 1 .. k : g[i] \in cursor + 1 .. cursor + k
      BY <2>1
    <3> QED
      BY <2>2, <3>1, <3>2, AscendingFillsRange
  <2> QED
    BY <2>1, <2>3
<1>11. read \in Seq(RowsOf(a)) /\ Len(read) = k
  BY <1>2, <1>6, <1>9
<1>12. LastSeq(rows, cursor) = cursor + k
  <2>1. CASE rows = {}
    <3>1. k = 0
      BY <2>1, FS_EmptySet DEF k
    <3> QED
      BY <1>1, <2>1, <3>1 DEF LastSeq
  <2>2. CASE rows # {}
    <3>1. PICK n : n = LastSeq(rows, cursor)
      OBVIOUS
    <3>2. top \in numbers
      BY <1>1, <1>2, <2>2
    <3>3. PICK q \in rows : q.seq = top
      BY <1>3, <3>2
    <3>4. \A r \in rows : r.seq <= top
      BY <1>1, <1>2
    <3>5. n \in {r.seq : r \in rows} /\ \A r \in rows : r.seq <= n
      BY <2>2, <3>1, <3>3, <3>4 DEF LastSeq
    <3>6. n = top
      <4>1. PICK r \in rows : n = r.seq
        BY <3>5
      <4>2. n \in Int /\ n <= top /\ top <= n
        BY <1>1, <1>2, <3>3, <3>4, <3>5, <4>1
      <4> QED
        BY <1>1, <4>2
    <3>7. top = cursor + k
      BY <1>1, <1>5, <3>2 DEF k
    <3> QED
      BY <3>1, <3>6, <3>7
  <2> QED
    BY <2>1, <2>2
<1> QED
  BY <1>9, <1>10, <1>11, <1>12 DEF read, rows
-----------------------------------------------------------------------------
(***************************************************************************)
(* The tails: what they have delivered stays a part of the history, and    *)
(* each read goes on where the cursor is.                                  *)
(***************************************************************************)
TailInvariant == WakeInvariant /\ delivered \in [Tails -> Seq(Row)] /\ TailGapFree

\* What one tail has delivered.
GapFree(s) ==
  /\ \A i \in DOMAIN delivered[s] :
       /\ delivered[s][i].seq = tail[s].after + i
       /\ delivered[s][i] \in RowsOf(tail[s].aggregate)
  /\ tail[s].cursor = tail[s].after + Len(delivered[s])

LEMMA GapFreeTails == TailGapFree <=> \A s \in Tails : tail[s] # Closed => GapFree(s)
  BY DEF TailGapFree, GapFree

LEMMA GapFreeTailsLater == TailGapFree' <=> \A s \in Tails : tail'[s] # Closed => GapFree(s)'
  BY DEF TailGapFree, GapFree

LEMMA GapFreeStays ==
  ASSUME TailGapFree, log \subseteq log', delivered' = delivered,
         \A s \in Tails : tail'[s] # Closed =>
           /\ tail[s] # Closed
           /\ tail'[s].aggregate = tail[s].aggregate /\ tail'[s].after = tail[s].after /\ tail'[s].cursor = tail[s].cursor
  PROVE  TailGapFree'
<1> SUFFICES ASSUME NEW s \in Tails, tail'[s] # Closed PROVE GapFree(s)'
  BY GapFreeTailsLater
<1>1. GapFree(s)
  BY GapFreeTails
<1>2. \A a : RowsOf(a) \subseteq RowsOf(a)'
  BY DEF RowsOf
<1> QED
  BY <1>1, <1>2 DEF GapFree

LEMMA OpensGapFree ==
  ASSUME TailInvariant, NEW s \in Tails, NEW a \in Aggregates, NEW n \in -1 .. MaxSeq, OpenTail(s, a, n)
  PROVE  delivered' \in [Tails -> Seq(Row)] /\ TailGapFree'
<1>1. tail \in [Tails -> OpenTailRecord \union {Closed}] /\ delivered \in [Tails -> Seq(Row)]
  BY DEF TailInvariant, WakeInvariant, WorkersTyped
<1>2. PICK k : k = [at |-> "registered", aggregate |-> a, after |-> n, cursor |-> n, dirty |-> FALSE]
  OBVIOUS
<1>3. tail' = [tail EXCEPT ![s] = k] /\ delivered' = [delivered EXCEPT ![s] = <<>>] /\ log' = log
  BY <1>2 DEF OpenTail
<1>4. delivered' \in [Tails -> Seq(Row)]
  BY <1>1, <1>3
<1>5. ASSUME NEW v \in Tails, tail'[v] # Closed PROVE GapFree(v)'
  <2>1. CASE v = s
    <3>1. tail'[v] = k /\ delivered'[v] = <<>> /\ n \in Int
      BY <1>1, <1>3, <2>1, SeqAssumption
    <3>2. k.cursor = n /\ k.after = n
      BY <1>2
    <3> QED
      BY <3>1, <3>2 DEF GapFree
  <2>2. CASE v # s
    <3>1. tail'[v] = tail[v] /\ delivered'[v] = delivered[v]
      BY <1>1, <1>3, <2>2
    <3>2. GapFree(v)
      BY <1>5, <3>1, GapFreeTails DEF TailInvariant
    <3> QED
      BY <1>3, <3>1, <3>2 DEF GapFree, RowsOf
  <2> QED
    BY <2>1, <2>2
<1> QED
  BY <1>4, <1>5, GapFreeTailsLater

LEMMA ReadsGapFree ==
  ASSUME TailInvariant, NEW s \in Tails, ReadTail(s)
  PROVE  delivered' \in [Tails -> Seq(Row)] /\ TailGapFree'
<1>1. /\ tail \in [Tails -> OpenTailRecord \union {Closed}] /\ delivered \in [Tails -> Seq(Row)]
      /\ tail[s] # Closed /\ LogInvariant
  BY DEF TailInvariant, WakeInvariant, WorkersTyped, ReadTail, Closed
<1>2. tail[s] \in OpenTailRecord
  BY <1>1
<1>3. PICK a \in Aggregates, cursor \in -1 .. MaxSeq, after \in -1 .. MaxSeq :
        a = tail[s].aggregate /\ cursor = tail[s].cursor /\ after = tail[s].after
  BY <1>2 DEF OpenTailRecord
<1>4. PICK read, next : read = InOrder(RowsAfter(a, cursor)) /\ next = LastSeq(RowsAfter(a, cursor), cursor)
  OBVIOUS
<1>5. read \in Seq(RowsOf(a)) /\ next = cursor + Len(read) /\ \A i \in DOMAIN read : read[i].seq = cursor + i
  BY <1>1, <1>4, ReadsInOrder
<1>6. PICK k : k = [tail[s] EXCEPT !.at = "live", !.cursor = next]
  OBVIOUS
<1>7. k.aggregate = a /\ k.after = after /\ k.cursor = next
  BY <1>2, <1>3, <1>6 DEF OpenTailRecord
<1>8. PICK before \in Seq(Row) : before = delivered[s]
  BY <1>1
<1>9. tail' = [tail EXCEPT ![s] = k] /\ delivered' = [delivered EXCEPT ![s] = before \o read] /\ log' = log
  BY <1>3, <1>4, <1>6, <1>8 DEF ReadTail
<1>10. read \in Seq(Row)
  BY <1>1, <1>5 DEF LogInvariant, LogTyped, RowsOf
<1>11. delivered' \in [Tails -> Seq(Row)]
  <2>1. before \o read \in Seq(Row)
    BY <1>8, <1>10
  <2> QED
    BY <1>1, <1>9, <2>1
<1>12. /\ \A i \in DOMAIN before : before[i].seq = after + i /\ before[i] \in RowsOf(a)
       /\ cursor = after + Len(before)
  BY <1>1, <1>3, <1>8, GapFreeTails DEF TailInvariant, GapFree
<1>13. GapFree(s)'
  <2> DEFINE all == before \o read
  <2>1. tail'[s] = k /\ delivered'[s] = all /\ RowsOf(a)' = RowsOf(a)
    BY <1>1, <1>9 DEF RowsOf
  <2>2. Len(all) = Len(before) + Len(read) /\ Len(before) \in Nat /\ Len(read) \in Nat /\ after \in Int
        /\ DOMAIN all = 1 .. Len(before) + Len(read)
    BY <1>8, <1>10, SeqAssumption
  <2>3. ASSUME NEW i \in DOMAIN all PROVE all[i].seq = after + i /\ all[i] \in RowsOf(a)
    <3>1. CASE i <= Len(before)
      <4>1. all[i] = before[i] /\ i \in DOMAIN before
        BY <1>8, <1>10, <2>2, <2>3, <3>1
      <4> QED
        BY <1>12, <4>1
    <3>2. CASE ~(i <= Len(before))
      <4>1. all[i] = read[i - Len(before)] /\ i - Len(before) \in DOMAIN read /\ i \in Int
        BY <1>8, <1>10, <2>2, <2>3, <3>2
      <4>2. read[i - Len(before)].seq = cursor + (i - Len(before)) /\ read[i - Len(before)] \in RowsOf(a)
        BY <1>5, <4>1
      <4>3. cursor + (i - Len(before)) = after + i
        BY <1>12, <2>2, <4>1
      <4> QED
        BY <4>1, <4>2, <4>3
    <3> QED
      BY <3>1, <3>2
  <2>4. k.cursor = k.after + Len(all)
    BY <1>5, <1>7, <1>12, <2>2
  <2> HIDE DEF all
  <2>5. RowsOf(tail[s].aggregate)' = RowsOf(a)
    BY <1>7, <1>9, <2>1 DEF RowsOf
  <2> QED
    BY <1>7, <2>1, <2>3, <2>4, <2>5 DEF GapFree
<1>14. ASSUME NEW v \in Tails, tail'[v] # Closed PROVE GapFree(v)'
  <2>1. CASE v = s
    BY <1>13, <2>1
  <2>2. CASE v # s
    <3>1. tail'[v] = tail[v] /\ delivered'[v] = delivered[v]
      BY <1>1, <1>9, <2>2
    <3>2. GapFree(v)
      BY <1>14, <3>1, GapFreeTails DEF TailInvariant
    <3> QED
      BY <1>9, <3>1, <3>2 DEF GapFree, RowsOf
  <2> QED
    BY <2>1, <2>2
<1> QED
  BY <1>11, <1>14, GapFreeTailsLater

LEMMA TailStep ==
  ASSUME TailInvariant, [SharedNext]_eventVars
  PROVE  TailInvariant'
<1>1. WakeInvariant'
  BY WakeStep DEF TailInvariant
<1>2. /\ WorkersTyped /\ TailGapFree /\ delivered \in [Tails -> Seq(Row)]
      /\ tail \in [Tails -> OpenTailRecord \union {Closed}]
  BY DEF TailInvariant, WakeInvariant, WorkersTyped
<1>3. ASSUME log \subseteq log', delivered' = delivered, tail' = tail PROVE TailGapFree' /\ delivered' \in [Tails -> Seq(Row)]
  BY <1>2, <1>3, GapFreeStays
<1>4. ASSUME NEW f \in Fibers, Wake(f) PROVE TailGapFree' /\ delivered' \in [Tails -> Seq(Row)]
  <2>1. \A s \in Tails : tail'[s] = IF Wakes(f, s) THEN [tail[s] EXCEPT !.dirty = TRUE] ELSE tail[s]
    BY <1>4 DEF Wake
  <2>2. ASSUME NEW s \in Tails, tail'[s] # Closed
        PROVE  /\ tail[s] # Closed
               /\ tail'[s].aggregate = tail[s].aggregate /\ tail'[s].after = tail[s].after /\ tail'[s].cursor = tail[s].cursor
    <3>1. CASE Wakes(f, s)
      <4>1. tail[s] # Closed
        BY <3>1 DEF Wakes, Registered, Closed
      <4>2. tail[s] \in OpenTailRecord
        BY <1>2, <4>1
      <4> QED
        BY <2>1, <3>1, <4>1, <4>2 DEF OpenTailRecord
    <3>2. CASE ~Wakes(f, s)
      BY <2>1, <2>2, <3>2
    <3> QED
      BY <3>1, <3>2
  <2> QED
    BY <1>2, <1>4, <2>2, GapFreeStays DEF Wake
<1>5. ASSUME NEW s \in Tails, TakeWake(s) PROVE TailGapFree' /\ delivered' \in [Tails -> Seq(Row)]
  <2>1. tail[s] # Closed /\ tail[s] \in OpenTailRecord
    BY <1>2, <1>5 DEF TakeWake, Closed
  <2>2. PICK k : k = [tail[s] EXCEPT !.at = "reading", !.dirty = FALSE]
    OBVIOUS
  <2>3. k.aggregate = tail[s].aggregate /\ k.after = tail[s].after /\ k.cursor = tail[s].cursor
    BY <2>1, <2>2 DEF OpenTailRecord
  <2>4. \A v \in Tails : tail'[v] = IF v = s THEN k ELSE tail[v]
    BY <1>2, <1>5, <2>2 DEF TakeWake
  <2>5. \A v \in Tails : tail'[v] # Closed =>
           /\ tail[v] # Closed
           /\ tail'[v].aggregate = tail[v].aggregate /\ tail'[v].after = tail[v].after /\ tail'[v].cursor = tail[v].cursor
    BY <2>1, <2>3, <2>4
  <2> QED
    BY <1>2, <1>5, <2>5, GapFreeStays DEF TakeWake
<1>6. ASSUME NEW s \in Tails, CloseTail(s) PROVE TailGapFree' /\ delivered' \in [Tails -> Seq(Row)]
  <2>1. \A v \in Tails : tail'[v] # Closed => tail'[v] = tail[v]
    BY <1>2, <1>6 DEF CloseTail
  <2> QED
    BY <1>2, <1>6, <2>1, GapFreeStays DEF CloseTail
<1>7. ASSUME Crash PROVE TailGapFree' /\ delivered' \in [Tails -> Seq(Row)]
  <2>1. \A v \in Tails : tail'[v] = Closed
    BY <1>7 DEF Crash
  <2> QED
    BY <1>2, <1>7, <2>1, GapFreeStays DEF Crash
<1>8. ASSUME SharedNext PROVE TailGapFree' /\ delivered' \in [Tails -> Seq(Row)]
  <2>1. ASSUME NEW f \in Fibers, Announce(f) \/ InterruptPublisher(f) PROVE TailGapFree' /\ delivered' \in [Tails -> Seq(Row)]
    BY <1>3, <2>1 DEF Announce, InterruptPublisher
  <2>2. ASSUME NEW a \in Aggregates, NEW o \in Owners, Claim(a, o) PROVE TailGapFree' /\ delivered' \in [Tails -> Seq(Row)]
    BY <1>3, <2>2 DEF Claim
  <2>3. ASSUME NEW f \in Fibers, NEW a \in Aggregates, NEW id \in EventIds, NEW b \in Bodies, Publish(f, a, id, b)
        PROVE  TailGapFree' /\ delivered' \in [Tails -> Seq(Row)]
    BY <1>3, <2>3 DEF Publish, Append1
  <2>4. ASSUME NEW a \in Aggregates, NEW id \in EventIds, NEW b \in Bodies, PublishElsewhere(a, id, b)
        PROVE  TailGapFree' /\ delivered' \in [Tails -> Seq(Row)]
    BY <1>3, <2>4 DEF PublishElsewhere, Append1
  <2>5. ASSUME NEW f \in Fibers, NEW row, NEW o, NEW t, Replay(f, row, o, t)
        PROVE  TailGapFree' /\ delivered' \in [Tails -> Seq(Row)]
    BY <1>3, <2>5 DEF Replay, Append1
  <2> QED
    BY <1>4, <1>5, <1>6, <1>7, <1>8, <2>1, <2>2, <2>3, <2>4, <2>5, OpensGapFree, ReadsGapFree DEF SharedNext
<1> QED
  BY <1>1, <1>3, <1>8 DEF TailInvariant, eventVars

(***************************************************************************)
(* What a tail has delivered is the history of its aggregate after the     *)
(* cursor it was opened with, every event once, in order and without a     *)
(* gap, for any number of publishers, processes, tails and events.         *)
(***************************************************************************)
THEOREM TailsAreGapFree == SharedSpec => []TailGapFree
<1>1. Init => TailInvariant
  BY LogInit DEF Init, TailInvariant, TailGapFree, WakeInvariant, WorkersTyped, NoLostWake, Asleep, Closed, Quiet
<1>2. TailInvariant /\ [SharedNext]_eventVars => TailInvariant'
  BY TailStep
<1>3. TailInvariant => TailGapFree
  BY DEF TailInvariant
<1> QED
  BY <1>1, <1>2, <1>3, PTL DEF SharedSpec

-----------------------------------------------------------------------------
(***************************************************************************)
(* The histories of the log.                                               *)
(***************************************************************************)

(***************************************************************************)
(* A history is the rows of its aggregate, in the order of their numbers:  *)
(* Entry is the event at a place of it.                                    *)
(***************************************************************************)
Entry(a, i) == LET r == CHOOSE q \in RowsOf(a) : q.seq = i - 1 IN <<r.id, r.body>>
History(a) == [i \in 1 .. head[a].seq + 1 |-> Entry(a, i)]
Histories == [a \in Aggregates |-> History(a)]
OwnerOf == [a \in Aggregates |-> head[a].owner]

LEMMA Mapping ==
  /\ Histories = [a \in Aggregates |->
       [i \in 1 .. head[a].seq + 1 |-> LET r == CHOOSE q \in RowsOf(a) : q.seq = i - 1 IN <<r.id, r.body>>]]
  /\ \A a \in Aggregates : Histories[a] = History(a) /\ OwnerOf[a] = head[a].owner
BY DEF Histories, History, Entry, OwnerOf

LEMMA EntryIsThere ==
  ASSUME LogInvariant, NEW a \in Aggregates, NEW i \in 1 .. head[a].seq + 1
  PROVE  \E r \in RowsOf(a) : r.seq = i - 1 /\ Entry(a, i) = <<r.id, r.body>>
<1>1. {r.seq : r \in RowsOf(a)} = 0 .. head[a].seq /\ head[a].seq \in Int
  BY SeqAssumption DEF LogInvariant, LogContiguous, LogTyped
<1>2. i - 1 \in 0 .. head[a].seq
  BY <1>1
<1>3. \E q \in RowsOf(a) : q.seq = i - 1
  BY <1>1, <1>2
<1> QED
  BY <1>3 DEF Entry

LEMMA EntryStays ==
  ASSUME LogInvariant, LogInvariant', NEW a \in Aggregates, NEW i \in 1 .. head[a].seq + 1,
         RowsOf(a) \subseteq RowsOf(a)', head'[a].seq >= head[a].seq
  PROVE  Entry(a, i)' = Entry(a, i)
<1>1. PICK r \in RowsOf(a) : r.seq = i - 1 /\ Entry(a, i) = <<r.id, r.body>>
  BY EntryIsThere
<1>2. \A q \in RowsOf(a)' : q.seq = r.seq => q = r
  BY <1>1 DEF LogInvariant, LogContiguous
<1>3. (CHOOSE q \in RowsOf(a)' : q.seq = i - 1) = r
  BY <1>1, <1>2
<1> QED
  BY <1>1, <1>3 DEF Entry

LEMMA LengthOf ==
  ASSUME NEW n \in Nat, NEW f, f = [i \in 1 .. n |-> f[i]]
  PROVE  Len(f) = n /\ (f = <<>> <=> n = 0)
<1>1. f \in Seq({f[i] : i \in 1 .. n}) /\ DOMAIN f = 1 .. n
  OBVIOUS
<1>2. Len(f) = n
  BY <1>1
<1>3. n = 0 => f = <<>>
  BY <1>1
<1>4. f = <<>> => n = 0
  BY <1>1, <1>2
<1> QED
  BY <1>2, <1>3, <1>4

LEMMA HistoryLength ==
  ASSUME LogInvariant, NEW a \in Aggregates
  PROVE  /\ DOMAIN History(a) = 1 .. head[a].seq + 1
         /\ Len(History(a)) = head[a].seq + 1
         /\ History(a) = <<>> <=> head[a].seq = -1
<1>1. head[a].seq + 1 \in Nat /\ head[a].seq \in Int
  BY SeqAssumption DEF LogInvariant, LogTyped
<1>2. History(a) = [i \in 1 .. head[a].seq + 1 |-> History(a)[i]]
  BY DEF History
<1>3. DOMAIN History(a) = 1 .. head[a].seq + 1
  BY <1>2
<1> QED
  BY <1>1, <1>2, <1>3, LengthOf

LEMMA HistoryLengthNext ==
  ASSUME LogInvariant', NEW a \in Aggregates
  PROVE  /\ Len(History(a)') = head'[a].seq + 1
         /\ History(a)' = <<>> <=> head'[a].seq = -1
<1>1. head'[a].seq + 1 \in Nat /\ head'[a].seq \in Int
  BY SeqAssumption DEF LogInvariant, LogTyped
<1>2. History(a)' = [i \in 1 .. head'[a].seq + 1 |-> History(a)'[i]]
  BY DEF History
<1> QED
  BY <1>1, <1>2, LengthOf

LEMMA HistoryStays ==
  ASSUME LogInvariant, LogInvariant', NEW a \in Aggregates,
         RowsOf(a)' = RowsOf(a), head'[a].seq = head[a].seq
  PROVE  History(a)' = History(a)
<1>1. \A i \in 1 .. head[a].seq + 1 : Entry(a, i)' = Entry(a, i)
  BY EntryStays, SeqAssumption DEF LogInvariant, LogTyped
<1> QED
  BY <1>1 DEF History

(***************************************************************************)
(* Only a history that has begun has an owner: a claim finds rows.         *)
(***************************************************************************)
OwnedHasBegun == \A a \in Aggregates : head[a].seq = -1 => head[a].owner = NoOwner

(***************************************************************************)
(* What a step does to the two tables: nothing, a new row, an owner for a  *)
(* history that has begun, or the end of one aggregate.                    *)
(***************************************************************************)
Forgets == \E a \in Aggregates : RemoveAggregate(a)
Appends ==
  \E a \in Aggregates, id \in EventIds, b \in Bodies, o \in Owners \union {NoOwner} :
    Append1(EventAt(a, NextSeq(a), id, b), o)
Owns ==
  \E a \in Aggregates, o \in Owners :
    head[a].seq # -1 /\ head' = [head EXCEPT ![a].owner = o] /\ UNCHANGED log
LogMoves == UNCHANGED logVars \/ Appends \/ Owns \/ Forgets

LEMMA LogSteps ==
  ASSUME LogInvariant, OwnedHasBegun, [Next]_eventVars
  PROVE  LogMoves
<1>1. ASSUME NEW f \in Fibers, NEW a \in Aggregates, NEW id \in EventIds, NEW b \in Bodies, Publish(f, a, id, b)
      PROVE  LogMoves
  BY <1>1 DEF Publish, LogMoves, Appends
<1>2. ASSUME NEW a \in Aggregates, NEW id \in EventIds, NEW b \in Bodies, PublishElsewhere(a, id, b)
      PROVE  LogMoves
  BY <1>2 DEF PublishElsewhere, LogMoves, Appends
<1>3. ASSUME NEW f \in Fibers, NEW a \in Aggregates, NEW n \in 0 .. MaxSeq, NEW id \in EventIds, NEW b \in Bodies,
             NEW o \in Owners \union {NoOwner}, NEW t \in BOOLEAN, Replay(f, EventAt(a, n, id, b), o, t)
      PROVE  LogMoves
  <2> DEFINE row == EventAt(a, n, id, b)
  <2>1. row.aggregate = a /\ row.seq = n /\ row.id = id
    BY DEF EventAt
  <2>2. CASE row \in log /\ o # NoOwner /\ head' = [head EXCEPT ![a].owner = o] /\ UNCHANGED log
    <3>1. row \in RowsOf(a)
      BY <2>1, <2>2 DEF RowsOf
    <3>2. n \in 0 .. head[a].seq
      BY <2>1, <3>1 DEF LogInvariant, LogContiguous
    <3>3. head[a].seq # -1
      BY <3>2
    <3> QED
      BY <2>2, <3>3 DEF LogMoves, Owns
  <2>3. CASE n = NextSeq(a) /\ Append1(row, o)
    BY <2>3 DEF LogMoves, Appends
  <2>4. \/ row \in log /\ o # NoOwner /\ head' = [head EXCEPT ![a].owner = o] /\ UNCHANGED log
        \/ n = NextSeq(a) /\ Append1(row, o)
    BY <1>3, <2>1 DEF Replay, IsNext
  <2> QED
    BY <2>2, <2>3, <2>4
<1>4. ASSUME NEW a \in Aggregates, NEW o \in Owners, Claim(a, o) PROVE LogMoves
  <2>1. head[a] # Absent /\ head' = [head EXCEPT ![a].owner = o] /\ UNCHANGED log
    BY <1>4 DEF Claim
  <2>2. head[a] \in [seq : -1 .. MaxSeq, owner : Owners \union {NoOwner}]
    BY DEF LogInvariant, LogTyped
  <2>3. head[a].seq # -1
    BY <2>1, <2>2 DEF OwnedHasBegun, Absent
  <2> QED
    BY <2>1, <2>3 DEF LogMoves, Owns
<1>5. ASSUME NEW a \in Aggregates, RemoveAggregate(a) PROVE LogMoves
  BY <1>5 DEF LogMoves, Forgets
<1>6. ASSUME UNCHANGED logVars PROVE LogMoves
  BY <1>6 DEF LogMoves
<1>7. CASE SharedNext
  <2>1. CASE \E f \in Fibers : Wake(f) \/ Announce(f) \/ InterruptPublisher(f)
    BY <2>1, <1>6 DEF Wake, Announce, InterruptPublisher, logVars
  <2>2. CASE \E s \in Tails : \/ \E a \in Aggregates, n \in -1 .. MaxSeq : OpenTail(s, a, n)
                             \/ ReadTail(s) \/ TakeWake(s) \/ CloseTail(s)
    BY <2>2, <1>6 DEF OpenTail, ReadTail, TakeWake, CloseTail, logVars
  <2>3. CASE Crash
    BY <2>3, <1>6 DEF Crash, logVars
  <2> QED
    BY <1>1, <1>2, <1>3, <1>4, <1>7, <2>1, <2>2, <2>3 DEF SharedNext
<1>8. CASE UNCHANGED eventVars
  BY <1>6, <1>8 DEF eventVars, logVars
<1> QED
  BY <1>5, <1>7, <1>8 DEF Next

(***************************************************************************)
(* A commit extends one history.                                           *)
(***************************************************************************)
LEMMA AppendExtends ==
  ASSUME LogInvariant, LogInvariant',
         NEW a \in Aggregates, NEW id \in EventIds, NEW b \in Bodies,
         NEW o \in Owners \union {NoOwner},
         Append1(EventAt(a, NextSeq(a), id, b), o)
  PROVE  Durable!Extend(a)
<1>1. /\ head \in [Aggregates -> [seq : -1 .. MaxSeq, owner : Owners \union {NoOwner}]]
      /\ log \subseteq Row
  BY DEF LogInvariant, LogTyped
<1> DEFINE row == EventAt(a, NextSeq(a), id, b)
<1>2. row.aggregate = a /\ row.seq = head[a].seq + 1
  BY DEF EventAt, NextSeq
<1>3. /\ log' = log \union {row}
      /\ head' = [head EXCEPT ![a] = [seq |-> row.seq, owner |-> TakeOwner(head[a].owner, o)]]
  BY <1>1, <1>2 DEF Append1
<1> HIDE DEF row
<1>4. ASSUME NEW c \in Aggregates \ {a} PROVE History(c)' = History(c) /\ head'[c].owner = head[c].owner
  <2>1. RowsOf(c)' = RowsOf(c) /\ head'[c] = head[c]
    BY <1>1, <1>2, <1>3 DEF RowsOf
  <2> QED
    BY <2>1, HistoryStays
<1>5. RowsOf(a) \subseteq RowsOf(a)' /\ head'[a].seq = head[a].seq + 1 /\ head[a].seq \in Int
  BY <1>1, <1>2, <1>3, SeqAssumption DEF RowsOf
<1>6. Len(History(a)') = Len(History(a)) + 1
  <2>1. Len(History(a)) = head[a].seq + 1 /\ Len(History(a)') = head'[a].seq + 1
    BY HistoryLength, HistoryLengthNext
  <2> QED
    BY <2>1, <1>5
<1>7. \A i \in DOMAIN History(a) : History(a)'[i] = History(a)[i]
  <2>1. \A i \in 1 .. head[a].seq + 1 : Entry(a, i)' = Entry(a, i)
    BY <1>5, EntryStays
  <2> QED
    BY <2>1, <1>5 DEF History
<1>8. head[a].owner # NoOwner => head'[a].owner = head[a].owner
  BY <1>1, <1>3 DEF TakeOwner
<1>9. /\ \A c \in Aggregates : Histories'[c] = History(c)' /\ Histories[c] = History(c)
      /\ \A c \in Aggregates : OwnerOf'[c] = head'[c].owner /\ OwnerOf[c] = head[c].owner
  BY DEF Histories, OwnerOf
<1> QED
  <2>1. /\ \A c \in Aggregates \ {a} : Histories'[c] = Histories[c] /\ OwnerOf'[c] = OwnerOf[c]
        /\ Len(Histories'[a]) = Len(Histories[a]) + 1
        /\ \A i \in DOMAIN Histories[a] : Histories'[a][i] = Histories[a][i]
        /\ OwnerOf[a] # NoOwner => OwnerOf'[a] = OwnerOf[a]
    BY <1>4, <1>6, <1>7, <1>8, <1>9
  <2> QED
    BY <2>1 DEF Durable!Extend, Histories, History, Entry, OwnerOf

LEMMA ClaimOwns ==
  ASSUME LogInvariant, LogInvariant', NEW a \in Aggregates, NEW o \in Owners,
         head[a].seq # -1, head' = [head EXCEPT ![a].owner = o], UNCHANGED log
  PROVE  Durable!Own(a, o)
<1>1. head \in [Aggregates -> [seq : -1 .. MaxSeq, owner : Owners \union {NoOwner}]]
  BY DEF LogInvariant, LogTyped
<1>2. \A c \in Aggregates : RowsOf(c)' = RowsOf(c) /\ head'[c].seq = head[c].seq
  BY <1>1 DEF RowsOf
<1>3. \A c \in Aggregates : History(c)' = History(c)
  BY <1>2, HistoryStays
<1>4. Histories' = Histories
  BY <1>3 DEF Histories
<1>5. Histories[a] # <<>>
  BY HistoryLength DEF Histories
<1>6. OwnerOf' = [OwnerOf EXCEPT ![a] = o]
  BY <1>1 DEF OwnerOf
<1> QED
  BY <1>4, <1>5, <1>6 DEF Durable!Own, Histories, History, Entry, OwnerOf

LEMMA RemoveForgets ==
  ASSUME LogInvariant, LogInvariant', NEW a \in Aggregates, RemoveAggregate(a)
  PROVE  Durable!Forget(a)
<1>1. head \in [Aggregates -> [seq : -1 .. MaxSeq, owner : Owners \union {NoOwner}]]
  BY DEF LogInvariant, LogTyped
<1>2. log' = log \ RowsOf(a) /\ head' = [head EXCEPT ![a] = Absent]
  BY DEF RemoveAggregate, WithoutRows
<1>3. ASSUME NEW c \in Aggregates, c # a PROVE History(c)' = History(c)
  <2>1. RowsOf(c)' = RowsOf(c) /\ head'[c] = head[c]
    BY <1>1, <1>2, <1>3 DEF RowsOf
  <2> QED
    BY <2>1, HistoryStays
<1>4. History(a)' = <<>>
  <2>1. head'[a].seq = -1
    BY <1>1, <1>2 DEF Absent
  <2> QED
    BY <2>1, HistoryLengthNext
<1>5. Histories' = [Histories EXCEPT ![a] = <<>>]
  BY <1>3, <1>4 DEF Histories
<1>6. OwnerOf' = [OwnerOf EXCEPT ![a] = NoOwner]
  BY <1>1, <1>2 DEF OwnerOf, Absent
<1> QED
  BY <1>5, <1>6 DEF Durable!Forget, Histories, History, Entry, OwnerOf

LEMMA OwnedStep ==
  ASSUME LogInvariant, LogInvariant', OwnedHasBegun, [Next]_eventVars
  PROVE  OwnedHasBegun'
<1>1. head \in [Aggregates -> [seq : -1 .. MaxSeq, owner : Owners \union {NoOwner}]]
  BY DEF LogInvariant, LogTyped
<1>2. CASE UNCHANGED logVars
  BY <1>2 DEF logVars, OwnedHasBegun
<1>3. ASSUME NEW a \in Aggregates, NEW id \in EventIds, NEW b \in Bodies,
             NEW o \in Owners \union {NoOwner}, Append1(EventAt(a, NextSeq(a), id, b), o)
      PROVE  OwnedHasBegun'
  <2>1. \A c \in Aggregates : head'[c] = head[c] \/ head'[c].seq # -1
    BY <1>1, <1>3, SeqAssumption DEF Append1, EventAt, NextSeq
  <2> QED
    BY <2>1 DEF OwnedHasBegun
<1>4. ASSUME NEW a \in Aggregates, NEW o \in Owners, head[a].seq # -1, head' = [head EXCEPT ![a].owner = o]
      PROVE  OwnedHasBegun'
  BY <1>1, <1>4 DEF OwnedHasBegun
<1>5. ASSUME NEW a \in Aggregates, head' = [head EXCEPT ![a] = Absent]
      PROVE  OwnedHasBegun'
  BY <1>1, <1>5 DEF OwnedHasBegun, Absent
<1> QED
  BY <1>2, <1>3, <1>4, <1>5, LogSteps DEF LogMoves, Appends, Owns, Forgets, RemoveAggregate

(***************************************************************************)
(* Every change of the tables is a step of a durable history, and without  *)
(* one the histories stay.                                                 *)
(***************************************************************************)
LEMMA ChangesKeepHistory ==
  ASSUME LogInvariant, LogInvariant', OwnedHasBegun, [Next]_eventVars, ~UNCHANGED logVars
  PROVE  Durable!Next
<1>1. ASSUME NEW a \in Aggregates, NEW id \in EventIds, NEW b \in Bodies,
             NEW o \in Owners \union {NoOwner}, Append1(EventAt(a, NextSeq(a), id, b), o)
      PROVE  Durable!Next
  BY <1>1, AppendExtends DEF Durable!Next
<1>2. ASSUME NEW a \in Aggregates, NEW o \in Owners, head[a].seq # -1,
             head' = [head EXCEPT ![a].owner = o], UNCHANGED log
      PROVE  Durable!Next
  BY <1>2, ClaimOwns DEF Durable!Next
<1>3. ASSUME NEW a \in Aggregates, RemoveAggregate(a) PROVE Durable!Next
  BY <1>3, RemoveForgets DEF Durable!Next
<1> QED
  BY <1>1, <1>2, <1>3, LogSteps DEF LogMoves, Appends, Owns, Forgets

LEMMA TablesKeepHistory ==
  ASSUME LogInvariant, LogInvariant', UNCHANGED logVars
  PROVE  UNCHANGED Durable!durableVars
<1>1. \A c \in Aggregates : RowsOf(c)' = RowsOf(c) /\ head'[c] = head[c]
  BY DEF logVars, RowsOf
<1>2. \A c \in Aggregates : History(c)' = History(c)
  BY <1>1, HistoryStays
<1>3. Histories' = Histories /\ OwnerOf' = OwnerOf
  BY <1>1, <1>2 DEF Histories, OwnerOf
<1> QED
  BY <1>3 DEF Durable!durableVars, Histories, History, Entry, OwnerOf

LEMMA HistoriesBegin == Init => Durable!Init
<1> SUFFICES ASSUME Init PROVE Durable!Init
  OBVIOUS
<1>1. \A a \in Aggregates : head[a].seq = -1 /\ head[a].owner = NoOwner
  BY DEF Init, Absent
<1>2. \A a \in Aggregates : History(a) = <<>>
  BY <1>1, LogInit, HistoryLength
<1>3. Histories = [a \in Aggregates |-> <<>>] /\ OwnerOf = [a \in Aggregates |-> NoOwner]
  BY <1>1, <1>2 DEF Histories, OwnerOf
<1> QED
  BY <1>3 DEF Durable!Init, Histories, History, Entry, OwnerOf

(***************************************************************************)
(* The event log keeps its histories: publications, replays and claims of  *)
(* several processes only ever extend a history at its end, or give it an  *)
(* owner, and a removal forgets it whole.                                  *)
(***************************************************************************)
THEOREM LogKeepsHistory == Spec => KeepsHistory
<1>1. Init => LogInvariant /\ OwnedHasBegun
  BY LogInit DEF Init, OwnedHasBegun, Absent
<1>2. Init => Durable!Init
  BY HistoriesBegin
<1>3. LogInvariant /\ OwnedHasBegun /\ [Next]_eventVars => (LogInvariant /\ OwnedHasBegun)'
  BY LogStep, OwnedStep
<1>4. LogInvariant /\ LogInvariant' /\ OwnedHasBegun /\ [Next]_eventVars =>
        [logVars' # logVars => Durable!Next]_eventVars
  BY ChangesKeepHistory
<1> QED
  BY <1>1, <1>2, <1>3, <1>4, PTL DEF Spec, KeepsHistory

(***************************************************************************)
(* So the event log implements DurableLog.                                 *)
(***************************************************************************)
THEOREM LogImplementsDurableLog == Spec => Durable!Spec
<1>1. Init => LogInvariant /\ Durable!Init
  BY LogInit, HistoriesBegin
<1>2. LogInvariant /\ [Next]_eventVars => LogInvariant'
  BY LogStep
<1>3. LogInvariant /\ LogInvariant' /\ [logVars' # logVars => Durable!Next]_eventVars
      => [Durable!Next]_(Durable!durableVars)
  BY TablesKeepHistory DEF eventVars, logVars
<1> QED
  BY <1>1, <1>2, <1>3, LogKeepsHistory, PTL DEF Spec, KeepsHistory, Durable!Spec

-----------------------------------------------------------------------------
(***************************************************************************)
(* The jobs of subagents.                                                  *)
(***************************************************************************)

-----------------------------------------------------------------------------
(***************************************************************************)
(* The invariant.                                                          *)
(***************************************************************************)
TaskPoints == {"away", "starting", "forking", "notify", "race", "racing", "done", "background", "answered", "aborted"}
TaskRecords ==
  [at : TaskPoints, gen : Gens \union {NoGen}, started : Gens \union {NoGen}, seq : Members, background : BOOLEAN]

NothingBefore == job.gen = NoGen => job.status = "none"

\* Calls that have extended the job or started it, or have found it started.
Entered == {c \in Tasks : task[c].at \notin {"away", "starting"}}

\* A generation and a place in it are given out to a call each.
FewGenerations == job.gen <= Cardinality(Entered) /\ job.next <= Cardinality(Entered)

OutsideYet ==
  \A c \in Tasks : task[c].at \in {"away", "starting"} => task[c].seq = 0 /\ task[c].started = NoGen /\ notice[c].at = "none"

StartedOnce ==
  /\ \A c \in Tasks : task[c].started <= job.gen
  /\ \A c, d \in Tasks : task[c].started = task[d].started /\ task[c].started # NoGen => c = d

\* The place that a call is about to fork its run into is its own, and empty.
PlaceReserved ==
  /\ \A c \in Tasks : task[c].at = "forking" =>
       /\ task[c].gen \in Gens /\ task[c].gen <= job.gen
       /\ task[c].gen = job.gen => task[c].seq < job.next
       /\ member[task[c].gen][task[c].seq] = Unforked
       /\ task[c].seq = 0 => task[c].started = task[c].gen
  /\ \A c, d \in Tasks :
       task[c].at = "forking" /\ task[d].at = "forking" /\ task[c].gen = task[d].gen /\ task[c].seq = task[d].seq => c = d

NoneBeyond ==
  \A g \in Gens, k \in Members : g > job.gen \/ (g = job.gen /\ k >= job.next) => member[g][k] = Unforked

EndsHaveExit ==
  \A g \in Gens, k \in Members : member[g][k].at \in {"ended", "settled"} => member[g][k].exit # "none"

Unsettled == {k \in 0 .. job.next - 1 : member[job.gen][k].at # "settled"}

\* What is known of a job while it runs.
RunningWell ==
  JobRuns =>
    /\ job.gen # NoGen /\ job.next > 0 /\ job.output <= job.next
    /\ job.pending > 0 /\ job.pending = Cardinality(Unsettled)
    /\ \A k \in Members : member[job.gen][k].at = "settled" => member[job.gen][k].exit = "success" /\ k + 1 <= job.output

\* A generation that is not the running one has ended.
EndedOnes == \A g \in Gens : over[g] = "open" <=> g > job.gen \/ (g = job.gen /\ JobRuns)

\* A promotion leaves its mark on the entry, and on what the waiters are told of the end.
PromotionMarks ==
  \A g \in Gens : promo[g] # "no" =>
    /\ g <= job.gen
    /\ g = job.gen => job.background
    /\ over[g] # "open" => info[g].background

\* Without mixing, a call has to do with the generation that it has started.
OwnGeneration ==
  ~mixed =>
    \A c \in Tasks :
      /\ task[c].at \in {"notify", "race", "racing", "background", "answered", "aborted"} => task[c].started # NoGen
      /\ task[c].started # NoGen => task[c].gen = task[c].started
      /\ notice[c].at # "none" => notice[c].gen = task[c].started /\ task[c].started # NoGen

\* Only a call in the foreground is answered, and then nothing will be brought to its session.
ForegroundAnswers ==
  /\ \A c \in Tasks : task[c].at \in {"race", "racing", "answered"} => ~task[c].background
  /\ \A c \in Tasks : task[c].at = "notify" => task[c].background
  /\ ~mixed =>
       \A c \in Tasks :
         /\ notice[c].at # "none" /\ ~task[c].background => promo[task[c].started] # "no"
         /\ task[c].at = "answered" => promo[task[c].gen] = "no" /\ over[task[c].gen] # "open"


CountParts ==
  /\ NothingBefore /\ FewGenerations /\ OutsideYet /\ StartedOnce /\ PlaceReserved
  /\ NoneBeyond /\ EndsHaveExit /\ RunningWell /\ CompletedWithLast
CountInvariant == JobTypeOK /\ CountParts
DeliveryParts == EndedOnes /\ PromotionMarks /\ OwnGeneration /\ ForegroundAnswers
JobInvariant == CountInvariant /\ DeliveryParts

-----------------------------------------------------------------------------
(***************************************************************************)
(* Counting calls and runs.                                                *)
(***************************************************************************)
\* There is a call at least, and there are finitely many.
LEMMA TasksAreCounted == Cardinality(Tasks) \in Nat /\ Cardinality(Tasks) > 0
<1>1. Cardinality(Tasks) \in Nat
  BY TasksAssumption, FS_CardinalityType
<1>2. Cardinality(Tasks) # 0
  BY TasksAssumption, FS_EmptySet
<1> QED
  BY <1>1, <1>2

\* The calls that have entered are counted, and are at most all of them.
LEMMA EnteredAreCounted == Cardinality(Entered) \in Nat /\ Cardinality(Entered) <= Cardinality(Tasks)
<1>1. Entered \subseteq Tasks
  BY DEF Entered
<1>2. IsFiniteSet(Entered) /\ Cardinality(Entered) <= Cardinality(Tasks)
  BY <1>1, TasksAssumption, FS_Subset
<1> QED
  BY <1>2, FS_CardinalityType

\* A call that enters is one more, so there were not yet as many as there are calls.
LEMMA EntersOnce ==
  ASSUME NEW c \in Tasks, c \notin Entered, Entered' = Entered \union {c}
  PROVE  /\ Cardinality(Entered') = Cardinality(Entered) + 1
         /\ Cardinality(Entered) + 1 <= Cardinality(Tasks)
<1>1. Entered \subseteq Tasks /\ Entered \union {c} \subseteq Tasks
  BY DEF Entered
<1>2. IsFiniteSet(Entered) /\ Cardinality(Entered \union {c}) <= Cardinality(Tasks)
  BY <1>1, TasksAssumption, FS_Subset
<1>3. Cardinality(Entered \union {c}) = Cardinality(Entered) + 1
  BY <1>2, FS_AddElement
<1> QED
  BY <1>2, <1>3

\* The bounds of the counters, which the types name, follow from the calls' having entered.
LEMMA CountersInRange ==
  ASSUME JobTypeOK, FewGenerations
  PROVE  /\ Cardinality(Tasks) \in Nat /\ Cardinality(Tasks) > 0
         /\ job.gen \in 0 .. Cardinality(Tasks) /\ job.next \in 0 .. Cardinality(Tasks)
         /\ job.pending \in 0 .. Cardinality(Tasks) /\ job.output \in 0 .. Cardinality(Tasks)
  BY TasksAreCounted DEF JobTypeOK, Gens, NoGen


\* A step that moves one call on, perhaps to another generation.
TaskMoved(c, point, gen) == task' = [task EXCEPT ![c].at = point, ![c].gen = gen]

LEMMA MovedTask ==
  ASSUME JobTypeOK, NEW c \in Tasks, NEW point \in TaskPoints, NEW gen \in Gens \union {NoGen}, TaskMoved(c, point, gen)
  PROVE  /\ task' \in [Tasks -> TaskRecords]
         /\ \A d \in Tasks : /\ task'[d].started = task[d].started /\ task'[d].seq = task[d].seq
                             /\ task'[d].background = task[d].background
                             /\ d # c => task'[d] = task[d]
         /\ task'[c].at = point /\ task'[c].gen = gen
<1>1. task \in [Tasks -> TaskRecords]
  BY DEF JobTypeOK, TaskRecords, TaskPoints
<1>2. \A d \in Tasks : d # c => task'[d] = task[d]
  BY <1>1 DEF TaskMoved
<1>3. task'[c] = [at |-> point, gen |-> gen, started |-> task[c].started, seq |-> task[c].seq, background |-> task[c].background]
  BY <1>1 DEF TaskMoved, TaskRecords
<1>4. task'[c] \in TaskRecords
  BY <1>1, <1>3 DEF TaskRecords
<1>5. task' \in [Tasks -> TaskRecords]
  BY <1>1, <1>2, <1>4 DEF TaskMoved
<1> QED
  BY <1>2, <1>3, <1>5

-----------------------------------------------------------------------------
(***************************************************************************)
(* What keeps the counts: a step that leaves the job's counts, and the     *)
(* runs, as they are; and one that moves a run on before it settles.       *)
(***************************************************************************)
SameCounts ==
  /\ job'.gen = job.gen /\ job'.next = job.next /\ job'.status = job.status
  /\ job'.pending = job.pending /\ job'.output = job.output

\* Calls keep their places; none comes to fork, or goes back outside.
TasksKeepPlaces ==
  \A d \in Tasks :
    /\ task'[d].started = task[d].started /\ task'[d].seq = task[d].seq
    /\ task'[d].at = "forking" => task'[d] = task[d]
    /\ task'[d].at \in {"away", "starting"} <=> task[d].at \in {"away", "starting"}
    /\ task'[d].at \in {"away", "starting"} => notice'[d].at = notice[d].at

LEMMA CountsStay ==
  ASSUME JobTypeOK, CountParts, SameCounts, TasksKeepPlaces, UNCHANGED member
  PROVE  CountParts'
<1>1. Entered' = Entered
  BY DEF TasksKeepPlaces, Entered
<1>2. FewGenerations' /\ NothingBefore'
  BY <1>1 DEF CountParts, FewGenerations, NothingBefore, SameCounts
<1>3. OutsideYet'
  BY DEF CountParts, OutsideYet, TasksKeepPlaces
<1>4. StartedOnce'
  BY DEF CountParts, StartedOnce, TasksKeepPlaces, SameCounts
<1>5. PlaceReserved'
  <2>1. \A d \in Tasks : task'[d].at = "forking" => task'[d] = task[d] /\ task[d].at = "forking"
    BY DEF TasksKeepPlaces
  <2> QED
    BY <2>1 DEF CountParts, PlaceReserved, SameCounts
<1>6. NoneBeyond' /\ EndsHaveExit'
  BY DEF CountParts, NoneBeyond, EndsHaveExit, SameCounts
<1>7. Unsettled' = Unsettled
  BY DEF Unsettled, SameCounts
<1>8. RunningWell'
  BY <1>7 DEF CountParts, RunningWell, SameCounts, JobRuns
<1>9. CompletedWithLast'
  BY DEF CountParts, CompletedWithLast, SameCounts
<1> QED
  BY <1>2, <1>3, <1>4, <1>5, <1>6, <1>8, <1>9 DEF CountParts

\* Runs that have been forked move on, without settling.
RunsMoveOn ==
  \A g \in Gens, k \in Members :
    /\ member[g][k] = Unforked => member'[g][k] = Unforked
    /\ (member[g][k].at = "settled" \/ member'[g][k].at = "settled") => member'[g][k] = member[g][k]
    /\ member'[g][k].at \in {"ended", "settled"} => member'[g][k].exit # "none"

LEMMA MovingKeepsCounts ==
  ASSUME JobTypeOK, CountParts, RunsMoveOn, UNCHANGED <<job, task, notice>>
  PROVE  CountParts'
<1>1. FewGenerations' /\ NothingBefore' /\ OutsideYet' /\ StartedOnce'
  BY DEF CountParts, NothingBefore, FewGenerations, OutsideYet, StartedOnce, Entered
<1>2. PlaceReserved'
  <2>1. \A d \in Tasks : task[d].at = "forking" => task[d].seq \in Members
    BY DEF JobTypeOK
  <2> QED
    BY <2>1 DEF CountParts, PlaceReserved, RunsMoveOn
<1>3. NoneBeyond' /\ EndsHaveExit'
  BY DEF CountParts, NoneBeyond, EndsHaveExit, RunsMoveOn
<1>4. job.gen # NoGen => job.gen \in Gens
  BY DEF JobTypeOK
<1>5. \A k \in 0 .. job.next - 1 : k \in Members
  BY CountersInRange DEF CountParts, Members
<1>6. job.gen # NoGen => Unsettled' = Unsettled
  BY <1>4, <1>5 DEF Unsettled, RunsMoveOn
<1>7. RunningWell'
  BY <1>4, <1>6 DEF CountParts, RunningWell, JobRuns, RunsMoveOn
<1>8. CompletedWithLast'
  <2>1. job.status = "completed" => job.gen # NoGen
    BY DEF CountParts, NothingBefore
  <2> QED
    BY <1>4, <1>5, <2>1 DEF CountParts, CompletedWithLast, RunsMoveOn
<1> QED
  BY <1>1, <1>2, <1>3, <1>7, <1>8 DEF CountParts

-----------------------------------------------------------------------------
(***************************************************************************)
(* Each action keeps the counts.                                           *)
(***************************************************************************)
JobRecords ==
  [gen : Gens \union {NoGen}, status : {"none", "running", "completed", "error", "cancelled"},
   pending : 0 .. Cardinality(Tasks), next : 0 .. Cardinality(Tasks),
   output : 0 .. Cardinality(Tasks), background : BOOLEAN]

MemberRecords ==
  [at : {"none", "blocked", "running", "ended", "settled", "stopped"}, exit : {"none", "success", "failure", "interrupt"}]

\* A call that enters leaves room for itself among the generations and the places.
LEMMA RoomForOne ==
  ASSUME JobTypeOK, CountParts, NEW c \in Tasks, task[c].at \in {"away", "starting"}, Entered' = Entered \union {c}
  PROVE  /\ Cardinality(Entered') = Cardinality(Entered) + 1
         /\ Cardinality(Entered) \in Nat
         /\ job.gen + 1 \in Gens /\ job.next \in Members
         /\ job.gen + 1 <= Cardinality(Entered') /\ job.next + 1 <= Cardinality(Entered')
         /\ job.next + 1 \in 0 .. Cardinality(Tasks)
<1>1. c \notin Entered
  BY DEF Entered
<1>2. Cardinality(Entered') = Cardinality(Entered) + 1 /\ Cardinality(Entered) + 1 <= Cardinality(Tasks)
  BY <1>1, EntersOnce
<1>3. Cardinality(Entered) \in Nat
  BY EnteredAreCounted
<1>4. job.gen <= Cardinality(Entered) /\ job.next <= Cardinality(Entered)
  BY DEF CountParts, FewGenerations
<1>5. job.gen \in 0 .. Cardinality(Tasks) /\ job.next \in 0 .. Cardinality(Tasks) /\ Cardinality(Tasks) \in Nat
  BY CountersInRange DEF CountParts
<1> HIDE DEF CountParts
<1> QED
  BY <1>2, <1>3, <1>4, <1>5 DEF Gens, Members

\* The places that a generation has given out are finitely many.
LEMMA PlacesAreCounted ==
  ASSUME NEW n \in Nat, NEW S \in SUBSET (0 .. n - 1)
  PROVE  IsFiniteSet(S) /\ Cardinality(S) \in Nat /\ Cardinality(S) <= n
<1>1. 0 \in Int /\ n - 1 \in Int
  OBVIOUS
<1>2. IsFiniteSet(0 .. n - 1) /\ Cardinality(0 .. n - 1) = IF 0 > n - 1 THEN 0 ELSE (n - 1) - 0 + 1
  BY <1>1, FS_Interval
<1>3. Cardinality(0 .. n - 1) = n
  BY <1>2
<1>4. IsFiniteSet(S) /\ Cardinality(S) <= Cardinality(0 .. n - 1)
  BY <1>2, FS_Subset
<1> QED
  BY <1>3, <1>4, FS_CardinalityType

\* A step that moves one run on, and perhaps notes how it ended.
LEMMA MovedMember ==
  ASSUME JobTypeOK, NEW g \in Gens, NEW k \in Members, NEW now \in MemberRecords,
         member' = [member EXCEPT ![g][k] = now]
  PROVE  /\ member' \in [Gens -> [Members -> MemberRecords]]
         /\ member'[g][k] = now
         /\ \A h \in Gens, j \in Members : ~(h = g /\ j = k) => member'[h][j] = member[h][j]
<1>1. member \in [Gens -> [Members -> MemberRecords]]
  BY DEF JobTypeOK, MemberRecords
<1>2. member'[g] = [member[g] EXCEPT ![k] = now] /\ \A h \in Gens : h # g => member'[h] = member[h]
  BY <1>1
<1>3. member'[g] \in [Members -> MemberRecords]
  BY <1>1, <1>2
<1>4. member' \in [Gens -> [Members -> MemberRecords]]
  BY <1>1, <1>2, <1>3
<1>5. member'[g][k] = now /\ \A j \in Members : j # k => member'[g][j] = member[g][j]
  BY <1>1, <1>2
<1> QED
  BY <1>2, <1>4, <1>5

LEMMA MemberGoesOn ==
  ASSUME JobTypeOK, NEW g \in Gens, NEW k \in Members, NEW point, MemberGoes(g, k, point)
  PROVE  member' = [member EXCEPT ![g][k] = [at |-> point, exit |-> member[g][k].exit]]
<1>1. member \in [Gens -> [Members -> MemberRecords]]
  BY DEF JobTypeOK, MemberRecords
<1>2. member[g][k] \in MemberRecords
  BY <1>1
<1>3. [member[g][k] EXCEPT !.at = point] = [at |-> point, exit |-> member[g][k].exit]
  BY <1>2 DEF MemberRecords
<1> QED
  BY <1>3 DEF MemberGoes

\* extend counts the new run, whose place has been empty.
LEMMA ExtendKeepsCounts ==
  ASSUME JobTypeOK, CountParts, NEW c \in Tasks, ExtendJob(c)
  PROVE  JobTypeOK' /\ CountParts'
<1>1. PICK background \in BOOLEAN :
       IF JobRuns
         THEN /\ job' = Extended
              /\ task' = [task EXCEPT ![c].at = "forking", ![c].gen = job.gen, ![c].seq = job.next,
                                   ![c].background = background]
         ELSE /\ task' = [task EXCEPT ![c].at = "starting", ![c].background = background]
              /\ UNCHANGED job
  BY DEF ExtendJob
<1>2. task[c].at = "away" /\ UNCHANGED <<member, over, info, promo, notice, mixed>>
  BY DEF ExtendJob, TaskAt
<1>3. task \in [Tasks -> TaskRecords] /\ job \in JobRecords
  BY DEF JobTypeOK, TaskRecords, TaskPoints, JobRecords
<1>4. CASE JobRuns
  <2>1. /\ job' = [job EXCEPT !.pending = @ + 1, !.next = @ + 1]
        /\ task' = [task EXCEPT ![c].at = "forking", ![c].gen = job.gen, ![c].seq = job.next, ![c].background = background]
    BY <1>1, <1>4 DEF Extended
  <2>2. \A d \in Tasks : d # c => task'[d] = task[d]
    BY <1>3, <2>1
  <2>3. task'[c] = [at |-> "forking", gen |-> job.gen, started |-> task[c].started, seq |-> job.next, background |-> background]
    BY <1>3, <2>1 DEF TaskRecords
  <2>4. /\ job'.gen = job.gen /\ job'.status = job.status /\ job'.output = job.output /\ job'.background = job.background
        /\ job'.next = job.next + 1 /\ job'.pending = job.pending + 1
    BY <1>3, <2>1 DEF JobRecords
  <2>5. Entered' = Entered \union {c}
    BY <1>3, <2>2, <2>3 DEF Entered
  <2>6. /\ Cardinality(Entered') = Cardinality(Entered) + 1
        /\ Cardinality(Entered) \in Nat
        /\ job.gen + 1 \in Gens /\ job.next \in Members
        /\ job.gen + 1 <= Cardinality(Entered') /\ job.next + 1 <= Cardinality(Entered')
        /\ job.next + 1 \in 0 .. Cardinality(Tasks)
    BY <1>2, <2>5, RoomForOne
  <2>7. /\ job.gen \in Gens /\ job.next > 0 /\ job.output <= job.next /\ job.pending > 0 /\ job.pending = Cardinality(Unsettled)
        /\ \A k \in Members : member[job.gen][k].at = "settled" => member[job.gen][k].exit = "success" /\ k + 1 <= job.output
    BY <1>3, <1>4 DEF CountParts, RunningWell, JobRecords
  <2>8. /\ job.gen \in 0 .. Cardinality(Tasks) /\ job.next \in 0 .. Cardinality(Tasks)
        /\ job.pending \in 0 .. Cardinality(Tasks) /\ job.output \in 0 .. Cardinality(Tasks) /\ Cardinality(Tasks) \in Nat
    BY CountersInRange DEF CountParts
  <2>9. member[job.gen][job.next] = Unforked
    BY <2>6, <2>7, <2>8 DEF CountParts, NoneBeyond
  <2>10. Unsettled' = Unsettled \union {job.next} /\ job.next \notin Unsettled
    BY <1>2, <2>4, <2>8, <2>9 DEF Unsettled, Unforked
  <2>11. IsFiniteSet(Unsettled) /\ Cardinality(Unsettled) <= job.next
    <3>1. job.next \in Nat /\ Unsettled \in SUBSET (0 .. job.next - 1)
      BY <2>8 DEF Unsettled
    <3> QED
      BY <3>1, PlacesAreCounted
  <2>12. Cardinality(Unsettled') = job.pending + 1
    BY <2>7, <2>10, <2>11, FS_AddElement
  <2>13. job.pending + 1 <= Cardinality(Tasks)
    BY <2>6, <2>7, <2>8, <2>11
  <2>14. job' \in JobRecords
    <3>1. job' = [gen |-> job.gen, status |-> job.status, pending |-> job.pending + 1, next |-> job.next + 1,
                  output |-> job.output, background |-> job.background]
      BY <1>3, <2>1 DEF JobRecords
    <3>2. job.pending + 1 \in 0 .. Cardinality(Tasks)
      BY <2>8, <2>13
    <3> QED
      BY <1>3, <2>6, <3>1, <3>2 DEF JobRecords
  <2>15. task' \in [Tasks -> TaskRecords]
    <3>1. task'[c] \in TaskRecords
      BY <1>3, <2>3, <2>6, <2>7 DEF TaskRecords, TaskPoints
    <3> QED
      BY <1>3, <2>1, <2>2, <3>1
  <2>16. JobTypeOK'
    BY <1>2, <2>14, <2>15 DEF JobTypeOK, TaskRecords, TaskPoints, JobRecords
  <2>17. FewGenerations' /\ NothingBefore'
    BY <2>4, <2>6, <2>8 DEF CountParts, FewGenerations, NothingBefore, NoGen
  <2>18. OutsideYet'
    BY <1>2, <2>2, <2>3 DEF CountParts, OutsideYet
  <2>19. StartedOnce'
    <3>1. \A d \in Tasks : task'[d].started = task[d].started
      BY <2>2, <2>3
    <3> QED
      BY <2>4, <3>1 DEF CountParts, StartedOnce
  <2>20. PlaceReserved'
    <3>1. \A d \in Tasks : task'[d].at = "forking" => d = c \/ (d # c /\ task'[d] = task[d] /\ task[d].at = "forking")
      BY <2>2
    <3>2. \A d \in Tasks : task[d].at = "forking" /\ task[d].gen = job.gen => task[d].seq < job.next
      BY DEF CountParts, PlaceReserved
    <3>3. \A d \in Tasks : task'[d].at = "forking" =>
       /\ task'[d].gen \in Gens /\ task'[d].gen <= job.gen
       /\ task'[d].gen = job.gen => task'[d].seq < job.next + 1
       /\ member[task'[d].gen][task'[d].seq] = Unforked
       /\ task'[d].seq = 0 => task'[d].started = task'[d].gen
      <4> SUFFICES ASSUME NEW d \in Tasks, task'[d].at = "forking"
                   PROVE /\ task'[d].gen \in Gens /\ task'[d].gen <= job.gen
                         /\ task'[d].gen = job.gen => task'[d].seq < job.next + 1
                         /\ member[task'[d].gen][task'[d].seq] = Unforked
                         /\ task'[d].seq = 0 => task'[d].started = task'[d].gen
        OBVIOUS
      <4>1. CASE d = c
        BY <4>1, <2>3, <2>7, <2>8, <2>9
      <4>2. CASE d # c
        <5>1. task'[d] = task[d] /\ task[d].at = "forking" /\ task[d].seq \in Nat
          BY <4>2, <3>1, <1>3 DEF TaskRecords, Members
        <5> QED
          BY <5>1, <2>8 DEF CountParts, PlaceReserved
      <4> QED
        BY <4>1, <4>2
    <3>4. \A d \in Tasks : task[d].seq \in Nat
      BY <1>3 DEF TaskRecords, Members
    <3>5. \A d, e \in Tasks :
       task'[d].at = "forking" /\ task'[e].at = "forking" /\ task'[d].gen = task'[e].gen /\ task'[d].seq = task'[e].seq => d = e
      <4> SUFFICES ASSUME NEW d \in Tasks, NEW e \in Tasks, task'[d].at = "forking", task'[e].at = "forking",
                          task'[d].gen = task'[e].gen, task'[d].seq = task'[e].seq, d # e
                   PROVE FALSE
        OBVIOUS
      <4>1. CASE d = c
        <5>1. task[e].at = "forking" /\ task[e].gen = job.gen /\ task[e].seq = job.next
          BY <4>1, <3>1, <2>3
        <5> QED
          BY <5>1, <3>2, <2>8
      <4>2. CASE e = c
        <5>1. task[d].at = "forking" /\ task[d].gen = job.gen /\ task[d].seq = job.next
          BY <4>2, <3>1, <2>3
        <5> QED
          BY <5>1, <3>2, <2>8
      <4>3. CASE d # c /\ e # c
        BY <4>3, <3>1 DEF CountParts, PlaceReserved
      <4> QED
        BY <4>1, <4>2, <4>3
    <3> QED
      BY <1>2, <2>4, <3>3, <3>5 DEF PlaceReserved
  <2>21. NoneBeyond' /\ EndsHaveExit'
    BY <1>2, <2>4, <2>8 DEF CountParts, NoneBeyond, EndsHaveExit, Members
  <2>22. RunningWell'
    BY <1>2, <2>4, <2>7, <2>8, <2>12 DEF RunningWell, NoGen, Gens
  <2>23. CompletedWithLast'
    BY <1>4, <2>4 DEF CompletedWithLast, JobRuns
  <2> QED
    BY <2>16, <2>17, <2>18, <2>19, <2>20, <2>21, <2>22, <2>23 DEF CountParts
<1>5. CASE ~JobRuns
  <2>1. task' = [task EXCEPT ![c].at = "starting", ![c].background = background] /\ UNCHANGED job
    BY <1>1, <1>5
  <2>2. \A d \in Tasks : d # c => task'[d] = task[d]
    BY <1>3, <2>1
  <2>3. task'[c] = [at |-> "starting", gen |-> task[c].gen, started |-> task[c].started, seq |-> task[c].seq, background |-> background]
    BY <1>3, <2>1 DEF TaskRecords
  <2>4. task' \in [Tasks -> TaskRecords]
    <3>1. task'[c] \in TaskRecords
      BY <1>3, <2>3 DEF TaskRecords, TaskPoints
    <3> QED
      BY <1>3, <2>1, <2>2, <3>1
  <2>5. JobTypeOK'
    BY <1>2, <2>1, <2>4 DEF JobTypeOK, TaskRecords, TaskPoints
  <2>6. SameCounts
    BY <2>1 DEF SameCounts
  <2>7. TasksKeepPlaces
    <3>1. notice' = notice
      BY <1>2
    <3>2. /\ task'[c].started = task[c].started /\ task'[c].seq = task[c].seq /\ task'[c].at = "starting"
          /\ task[c].at = "away"
      BY <1>2, <2>3
    <3> QED
      BY <2>2, <3>1, <3>2 DEF TasksKeepPlaces
  <2> QED
    BY <1>2, <2>5, <2>6, <2>7, CountsStay
<1> QED
  BY <1>4, <1>5

\* start opens a generation with one run, or finds the job started: then the call has entered without a place.
LEMMA StartKeepsCounts ==
  ASSUME JobTypeOK, CountParts, NEW c \in Tasks, StartJob(c)
  PROVE  JobTypeOK' /\ CountParts'
<1>1. task[c].at = "starting" /\ UNCHANGED <<member, over, info, promo, notice>>
  BY DEF StartJob, TaskAt
<1>2. task \in [Tasks -> TaskRecords] /\ job \in JobRecords
  BY DEF JobTypeOK, TaskRecords, TaskPoints, JobRecords
<1>3. task[c].seq = 0 /\ task[c].started = NoGen
  BY <1>1 DEF CountParts, OutsideYet
<1>4. /\ job.gen \in 0 .. Cardinality(Tasks) /\ job.next \in 0 .. Cardinality(Tasks)
      /\ job.pending \in 0 .. Cardinality(Tasks) /\ job.output \in 0 .. Cardinality(Tasks)
      /\ Cardinality(Tasks) \in Nat /\ Cardinality(Tasks) > 0
  BY CountersInRange DEF CountParts
<1>5. CASE JobRuns
  <2> DEFINE after == IF task[c].background THEN "notify" ELSE "race"
  <2>1. task' = [task EXCEPT ![c].at = after, ![c].gen = job.gen] /\ mixed' = TRUE /\ UNCHANGED job
    BY <1>5 DEF StartJob
  <2>2. after \in {"notify", "race"} /\ after \in TaskPoints
    BY DEF TaskPoints
  <2>3. TaskMoved(c, after, job.gen) /\ job.gen \in Gens \union {NoGen}
    BY <1>2, <2>1 DEF TaskMoved, JobRecords
  <2> HIDE DEF after
  <2>4. /\ task' \in [Tasks -> TaskRecords]
        /\ \A d \in Tasks : /\ task'[d].started = task[d].started /\ task'[d].seq = task[d].seq
                            /\ task'[d].background = task[d].background
                            /\ d # c => task'[d] = task[d]
        /\ task'[c].at = after /\ task'[c].gen = job.gen
    BY <2>2, <2>3, MovedTask
  <2>5. Entered' = Entered \union {c}
    BY <2>2, <2>4 DEF Entered
  <2>6. /\ Cardinality(Entered') = Cardinality(Entered) + 1
        /\ Cardinality(Entered) \in Nat
        /\ job.gen + 1 <= Cardinality(Entered') /\ job.next + 1 <= Cardinality(Entered')
    BY <1>1, <2>5, RoomForOne
  <2>7. JobTypeOK'
    BY <1>1, <2>1, <2>4 DEF JobTypeOK, TaskRecords, TaskPoints
  <2>8. FewGenerations' /\ NothingBefore'
    BY <1>4, <2>1, <2>6 DEF CountParts, FewGenerations, NothingBefore
  <2>9. OutsideYet' /\ StartedOnce'
    BY <1>1, <2>1, <2>2, <2>4 DEF CountParts, OutsideYet, StartedOnce
  <2>10. PlaceReserved'
    <3>1. \A d \in Tasks : task'[d].at = "forking" => task'[d] = task[d] /\ task[d].at = "forking"
      BY <2>2, <2>4
    <3>2. job' = job /\ member' = member
      BY <1>1, <2>1
    <3> QED
      BY <3>1, <3>2 DEF CountParts, PlaceReserved
  <2>11. NoneBeyond' /\ EndsHaveExit' /\ RunningWell' /\ CompletedWithLast'
    BY <1>1, <2>1 DEF CountParts, NoneBeyond, EndsHaveExit, RunningWell, CompletedWithLast, Unsettled, JobRuns
  <2> QED
    BY <2>7, <2>8, <2>9, <2>10, <2>11 DEF CountParts
<1>6. CASE ~JobRuns
  <2>1. /\ job' = [gen |-> job.gen + 1, status |-> "running", pending |-> 1, next |-> 1, output |-> 0,
                   background |-> task[c].background]
        /\ task' = [task EXCEPT ![c].at = "forking", ![c].gen = job.gen + 1, ![c].started = job.gen + 1]
        /\ UNCHANGED mixed
    BY <1>6 DEF StartJob
  <2>2. \A d \in Tasks : d # c => task'[d] = task[d]
    BY <1>2, <2>1
  <2>30. task[c] \in TaskRecords
    BY <1>2
  <2>31. task'[c] = [task[c] EXCEPT !.at = "forking", !.gen = job.gen + 1, !.started = job.gen + 1]
    BY <1>2, <2>1
  <2>3. task'[c] = [at |-> "forking", gen |-> job.gen + 1, started |-> job.gen + 1, seq |-> 0, background |-> task[c].background]
    BY <1>3, <2>30, <2>31 DEF TaskRecords
  <2>4. Entered' = Entered \union {c}
    BY <1>2, <2>2, <2>3 DEF Entered
  <2>5. /\ Cardinality(Entered') = Cardinality(Entered) + 1
        /\ Cardinality(Entered) \in Nat
        /\ job.gen + 1 \in Gens
        /\ job.gen + 1 <= Cardinality(Entered') /\ job.next + 1 <= Cardinality(Entered')
    BY <1>1, <2>4, RoomForOne
  <2>6. task[c].background \in BOOLEAN
    BY <1>2 DEF TaskRecords
  <2>7. task' \in [Tasks -> TaskRecords]
    <3>1. 0 \in Members
      BY <1>4 DEF Members
    <3>2. task'[c] \in TaskRecords
      BY <2>3, <2>5, <2>6, <3>1 DEF TaskRecords, TaskPoints
    <3> QED
      BY <1>2, <2>1, <2>2, <3>2
  <2>8. job' \in JobRecords
    <3>1. 0 \in 0 .. Cardinality(Tasks) /\ 1 \in 0 .. Cardinality(Tasks)
      BY <1>4
    <3> QED
      BY <2>1, <2>5, <2>6, <3>1 DEF JobRecords
  <2>9. JobTypeOK'
    BY <1>1, <2>1, <2>7, <2>8 DEF JobTypeOK, TaskRecords, TaskPoints, JobRecords
  <2>10. job'.gen = job.gen + 1 /\ job'.next = 1 /\ job'.status = "running" /\ job'.pending = 1 /\ job'.output = 0
    BY <2>1
  <2>11. FewGenerations' /\ NothingBefore'
    BY <1>4, <2>5, <2>10 DEF CountParts, FewGenerations, NothingBefore, NoGen
  <2>12. OutsideYet'
    BY <1>1, <2>2, <2>3 DEF CountParts, OutsideYet
  <2>13. StartedOnce'
    <3>1. \A d \in Tasks : d # c => task'[d].started = task[d].started /\ task[d].started <= job.gen
      BY <2>2 DEF CountParts, StartedOnce
    <3>2. \A d \in Tasks : task[d].started \in Nat
      BY <1>2 DEF TaskRecords, Gens, NoGen
    <3>3. task'[c].started = job.gen + 1
      BY <2>3
    <3>4. \A d, e \in Tasks : task'[d].started = task'[e].started /\ task'[d].started # NoGen => d = e
      BY <1>4, <2>2, <3>1, <3>2, <3>3 DEF CountParts, StartedOnce
    <3>5. \A d \in Tasks : task'[d].started <= job.gen + 1
      BY <1>4, <3>1, <3>2, <3>3
    <3> QED
      BY <2>10, <3>4, <3>5 DEF StartedOnce
  <2>14. member[job.gen + 1][0] = Unforked /\ \A k \in Members : member[job.gen + 1][k] = Unforked
    BY <1>4, <2>5 DEF CountParts, NoneBeyond, Members
  <2>15. PlaceReserved'
    <3>1. \A d \in Tasks : d # c /\ task'[d].at = "forking" =>
            task'[d] = task[d] /\ task[d].at = "forking" /\ task[d].gen \in Gens /\ task[d].gen <= job.gen
      BY <2>2 DEF CountParts, PlaceReserved
    <3>2. \A d \in Tasks : d # c /\ task'[d].at = "forking" => task'[d].gen # job.gen + 1
      BY <1>4, <3>1 DEF Gens
    <3>3. \A d \in Tasks : task'[d].at = "forking" =>
       /\ task'[d].gen \in Gens /\ task'[d].gen <= job.gen + 1
       /\ task'[d].gen = job.gen + 1 => task'[d].seq < 1
       /\ member[task'[d].gen][task'[d].seq] = Unforked
       /\ task'[d].seq = 0 => task'[d].started = task'[d].gen
      <4> SUFFICES ASSUME NEW d \in Tasks, task'[d].at = "forking"
                   PROVE /\ task'[d].gen \in Gens /\ task'[d].gen <= job.gen + 1
                         /\ task'[d].gen = job.gen + 1 => task'[d].seq < 1
                         /\ member[task'[d].gen][task'[d].seq] = Unforked
                         /\ task'[d].seq = 0 => task'[d].started = task'[d].gen
        OBVIOUS
      <4>1. CASE d = c
        BY <4>1, <1>4, <2>3, <2>5, <2>14
      <4>2. CASE d # c
        <5>1. task'[d] = task[d] /\ task[d].at = "forking" /\ task[d].gen \in Nat /\ task[d].gen <= job.gen
          BY <4>2, <3>1 DEF Gens
        <5>2. task'[d].gen <= job.gen + 1 /\ task'[d].gen # job.gen + 1
          BY <4>2, <1>4, <3>2, <5>1
        <5> QED
          BY <5>1, <5>2 DEF CountParts, PlaceReserved
      <4> QED
        BY <4>1, <4>2
    <3>4. \A d, e \in Tasks :
       task'[d].at = "forking" /\ task'[e].at = "forking" /\ task'[d].gen = task'[e].gen /\ task'[d].seq = task'[e].seq => d = e
      <4> SUFFICES ASSUME NEW d \in Tasks, NEW e \in Tasks, task'[d].at = "forking", task'[e].at = "forking",
                          task'[d].gen = task'[e].gen, task'[d].seq = task'[e].seq, d # e
                   PROVE FALSE
        OBVIOUS
      <4>1. d # c /\ e # c
        BY <2>3, <3>2
      <4> QED
        BY <3>1, <4>1 DEF CountParts, PlaceReserved
    <3> QED
      BY <1>1, <2>10, <3>3, <3>4 DEF PlaceReserved
  <2>16. NoneBeyond' /\ EndsHaveExit'
    BY <1>1, <1>4, <2>10, <2>14 DEF CountParts, NoneBeyond, EndsHaveExit, Gens
  <2>17. Unsettled' = {0}
    BY <1>1, <2>10, <2>14 DEF Unsettled, Unforked
  <2>18. Cardinality(Unsettled') = 1
    BY <2>17, FS_Singleton
  <2>19. RunningWell'
    BY <1>1, <1>4, <2>10, <2>14, <2>18 DEF RunningWell, NoGen, Unforked
  <2>20. CompletedWithLast'
    BY <2>10 DEF CompletedWithLast
  <2> QED
    BY <2>9, <2>11, <2>12, <2>13, <2>15, <2>16, <2>19, <2>20 DEF CountParts
<1> QED
  BY <1>5, <1>6

\* The forked run takes the place that was reserved for it.
LEMMA ForkKeepsCounts ==
  ASSUME JobTypeOK, CountParts, NEW c \in Tasks, ForkMember(c)
  PROVE  JobTypeOK' /\ CountParts'
<1> DEFINE first == task[c].seq = 0
<1> DEFINE point == IF ~first THEN "done" ELSE IF task[c].background THEN "notify" ELSE "race"
<1> DEFINE begins == IF first THEN "running" ELSE "blocked"
<1> DEFINE gen == task[c].gen
<1> DEFINE seq == task[c].seq
<1>1. /\ task[c].at = "forking" /\ UNCHANGED <<job, over, info, promo, notice, mixed>>
      /\ MemberGoes(gen, seq, begins)
      /\ task' = [task EXCEPT ![c].at = point]
  BY DEF ForkMember, TaskAt, TaskGoes
<1>2. task \in [Tasks -> TaskRecords] /\ job \in JobRecords /\ member \in [Gens -> [Members -> MemberRecords]]
  BY DEF JobTypeOK, TaskRecords, TaskPoints, JobRecords, MemberRecords
<1>3. /\ gen \in Gens /\ gen <= job.gen /\ (gen = job.gen => seq < job.next)
      /\ member[gen][seq] = Unforked
  BY <1>1 DEF CountParts, PlaceReserved
<1>4. seq \in Members
  BY <1>2 DEF TaskRecords
<1>5. begins \in {"running", "blocked"} /\ point \in {"done", "notify", "race"}
  OBVIOUS
<1>6. SUFFICES JobTypeOK' /\ CountParts'
  OBVIOUS
<1> HIDE DEF begins, point, first
<1>7. TaskMoved(c, point, gen)
  <2>1. [task[c] EXCEPT !.at = point] = [[task[c] EXCEPT !.at = point] EXCEPT !.gen = task[c].gen]
    BY <1>2 DEF TaskRecords
  <2> QED
    BY <1>1, <1>2, <2>1 DEF TaskMoved
<1>8. gen \in Gens \union {NoGen} /\ point \in TaskPoints
  BY <1>3, <1>5 DEF TaskPoints
<1> HIDE DEF gen, seq
<1>9. /\ task' \in [Tasks -> TaskRecords]
      /\ \A d \in Tasks : /\ task'[d].started = task[d].started /\ task'[d].seq = task[d].seq
                          /\ task'[d].background = task[d].background
                          /\ d # c => task'[d] = task[d]
      /\ task'[c].at = point /\ task'[c].gen = gen
  BY <1>7, <1>8, MovedTask
<1>10. [at |-> begins, exit |-> "none"] \in MemberRecords
  BY <1>5 DEF MemberRecords
<1>11. member' = [member EXCEPT ![gen][seq] = [at |-> begins, exit |-> "none"]]
  <2>1. member[gen][seq].exit = "none"
    BY <1>3 DEF Unforked
  <2> QED
    BY <1>1, <1>3, <1>4, <2>1, MemberGoesOn
<1>12. /\ member' \in [Gens -> [Members -> MemberRecords]]
       /\ member'[gen][seq] = [at |-> begins, exit |-> "none"]
       /\ \A g \in Gens, k \in Members : ~(g = gen /\ k = seq) => member'[g][k] = member[g][k]
  <2> DEFINE now == [at |-> begins, exit |-> "none"]
  <2>1. now \in MemberRecords /\ member' = [member EXCEPT ![gen][seq] = now]
    BY <1>10, <1>11
  <2> HIDE DEF now
  <2>2. /\ member' \in [Gens -> [Members -> MemberRecords]]
        /\ member'[gen][seq] = now
        /\ \A g \in Gens, k \in Members : ~(g = gen /\ k = seq) => member'[g][k] = member[g][k]
    BY <1>3, <1>4, <2>1, MovedMember
  <2> QED
    BY <2>2 DEF now
<1>13. JobTypeOK'
  BY <1>1, <1>9, <1>12 DEF JobTypeOK, TaskRecords, TaskPoints, MemberRecords
<1>14. /\ job.gen \in 0 .. Cardinality(Tasks) /\ job.next \in 0 .. Cardinality(Tasks) /\ Cardinality(Tasks) \in Nat
  BY CountersInRange DEF CountParts
<1>15. Entered' = Entered
  BY <1>1, <1>5, <1>9 DEF Entered
<1>16. FewGenerations' /\ NothingBefore'
  BY <1>1, <1>15 DEF CountParts, FewGenerations, NothingBefore
<1>17. OutsideYet' /\ StartedOnce'
  BY <1>1, <1>5, <1>9 DEF CountParts, OutsideYet, StartedOnce
<1>18. PlaceReserved'
  <2>1. \A d \in Tasks : task'[d].at = "forking" =>
          d # c /\ task'[d] = task[d] /\ task[d].at = "forking" /\ ~(task[d].gen = gen /\ task[d].seq = seq) /\ task[d].seq \in Members
    <3>1. \A d \in Tasks : task'[d].at = "forking" => d # c /\ task'[d] = task[d] /\ task[d].at = "forking" /\ task[d].seq \in Members
      BY <1>2, <1>5, <1>9 DEF TaskRecords
    <3> QED
      BY <1>1, <3>1 DEF CountParts, PlaceReserved, gen, seq
  <2> QED
    BY <1>1, <1>12, <2>1 DEF CountParts, PlaceReserved
<1>19. NoneBeyond'
  <2>1. gen \in Nat /\ seq \in Nat
    BY <1>3, <1>4, <1>14 DEF Gens, Members
  <2>2. \A g \in Gens, k \in Members : g > job.gen \/ (g = job.gen /\ k >= job.next) => ~(g = gen /\ k = seq)
    BY <1>3, <1>14, <2>1
  <2> QED
    BY <1>1, <1>12, <2>2 DEF CountParts, NoneBeyond
<1>20. EndsHaveExit'
  BY <1>5, <1>12 DEF CountParts, EndsHaveExit
<1>21. job.gen # NoGen => job.gen \in Gens
  BY <1>2 DEF JobRecords
<1>22. \A k \in 0 .. job.next - 1 : k \in Members
  BY <1>14 DEF Members
<1>23. \A g \in Gens, k \in Members : (member'[g][k].at = "settled" \/ member[g][k].at = "settled") => member'[g][k] = member[g][k]
  BY <1>3, <1>5, <1>12 DEF Unforked
<1>24. job.gen # NoGen => Unsettled' = Unsettled
  BY <1>1, <1>21, <1>22, <1>23 DEF Unsettled
<1>25. RunningWell'
  BY <1>1, <1>21, <1>23, <1>24 DEF CountParts, RunningWell, JobRuns
<1>26. CompletedWithLast'
  <2>1. job.status = "completed" => job.gen \in Gens
    BY <1>21 DEF CountParts, NothingBefore
  <2> QED
    BY <1>1, <1>22, <1>23, <2>1 DEF CountParts, CompletedWithLast
<1> QED
  BY <1>13, <1>16, <1>17, <1>18, <1>19, <1>20, <1>25, <1>26 DEF CountParts

\* A run that begins, ends or is stopped has not settled.
LEMMA RunStepsKeepCounts ==
  ASSUME JobTypeOK, CountParts, NEW g \in Gens, NEW k \in Members,
         MemberBegins(g, k) \/ MemberEnds(g, k) \/ StopMember(g, k)
  PROVE  JobTypeOK' /\ CountParts'
<1>1. UNCHANGED <<job, over, info, promo, task, notice, mixed>>
  BY DEF MemberBegins, MemberEnds, StopMember
<1>2. member \in [Gens -> [Members -> MemberRecords]]
  BY DEF JobTypeOK, MemberRecords
<1>3. PICK now \in MemberRecords :
        /\ member' = [member EXCEPT ![g][k] = now]
        /\ member[g][k].at \in {"blocked", "running"} /\ now.at # "settled"
        /\ now.at = "ended" => now.exit # "none"
  <2>1. CASE MemberBegins(g, k)
    <3>1. member[g][k].at = "blocked" /\ MemberGoes(g, k, "running")
      BY <2>1 DEF MemberBegins
    <3> DEFINE now == [at |-> "running", exit |-> member[g][k].exit]
    <3>2. now \in MemberRecords /\ now.at = "running"
      BY <1>2 DEF MemberRecords
    <3>3. member' = [member EXCEPT ![g][k] = now]
      BY <3>1, MemberGoesOn
    <3> QED
      BY <3>1, <3>2, <3>3
  <2>2. CASE MemberEnds(g, k)
    <3>1. PICK exit \in {"success", "failure", "interrupt"} : member' = [member EXCEPT ![g][k] = [at |-> "ended", exit |-> exit]]
      BY <2>2 DEF MemberEnds
    <3>2. [at |-> "ended", exit |-> exit] \in MemberRecords
      BY DEF MemberRecords
    <3>3. member[g][k].at = "running"
      BY <2>2 DEF MemberEnds
    <3> QED
      BY <3>1, <3>2, <3>3
  <2>3. CASE StopMember(g, k)
    <3>1. member[g][k].at \in {"blocked", "running"} /\ MemberGoes(g, k, "stopped")
      BY <2>3 DEF StopMember
    <3> DEFINE now == [at |-> "stopped", exit |-> member[g][k].exit]
    <3>2. now \in MemberRecords /\ now.at = "stopped"
      BY <1>2 DEF MemberRecords
    <3>3. member' = [member EXCEPT ![g][k] = now]
      BY <3>1, MemberGoesOn
    <3> QED
      BY <3>1, <3>2, <3>3
  <2> QED
    BY <2>1, <2>2, <2>3
<1>31. member' = [member EXCEPT ![g][k] = now]
  BY <1>3
<1>4. /\ member' \in [Gens -> [Members -> MemberRecords]]
      /\ member'[g][k] = now
      /\ \A h \in Gens, j \in Members : ~(h = g /\ j = k) => member'[h][j] = member[h][j]
  BY <1>31, MovedMember
<1>5. JobTypeOK'
  BY <1>1, <1>4 DEF JobTypeOK, MemberRecords
<1>6. RunsMoveOn
  <2> SUFFICES ASSUME NEW h \in Gens, NEW j \in Members
               PROVE  /\ member[h][j] = Unforked => member'[h][j] = Unforked
                      /\ (member[h][j].at = "settled" \/ member'[h][j].at = "settled") => member'[h][j] = member[h][j]
                      /\ member'[h][j].at \in {"ended", "settled"} => member'[h][j].exit # "none"
    BY DEF RunsMoveOn
  <2>1. CASE h = g /\ j = k
    BY <1>3, <1>4, <2>1 DEF Unforked
  <2>2. CASE ~(h = g /\ j = k)
    BY <1>4, <2>2 DEF CountParts, EndsHaveExit
  <2> QED
    BY <2>1, <2>2
<1> QED
  BY <1>1, <1>5, <1>6, MovingKeepsCounts

\* The end of the job, as somebody cancels it.
LEMMA CancelledEnd ==
  ASSUME JobTypeOK, CountParts, JobRuns, EndJob("cancelled", job.output)
  PROVE  /\ job' \in JobRecords
         /\ job'.gen = job.gen /\ job'.next = job.next /\ job'.status = "cancelled"
         /\ info' \in [Gens -> [status : {"none", "completed", "error", "cancelled"}, background : BOOLEAN]]
         /\ over' \in [Gens -> {"open", "settled", "told"}]
<1>1. job \in JobRecords /\ info \in [Gens -> [status : {"none", "completed", "error", "cancelled"}, background : BOOLEAN]]
      /\ over \in [Gens -> {"open", "settled", "told"}]
  BY DEF JobTypeOK, JobRecords
<1>2. job' = [gen |-> job.gen, status |-> "cancelled", pending |-> 0, next |-> job.next, output |-> job.output,
              background |-> job.background]
  BY <1>1 DEF EndJob, JobRecords
<1>3. 0 \in 0 .. Cardinality(Tasks)
  BY TasksAreCounted
<1>4. job' \in JobRecords
  BY <1>1, <1>2, <1>3 DEF JobRecords
<1>5. [status |-> "cancelled", background |-> job.background]
        \in [status : {"none", "completed", "error", "cancelled"}, background : BOOLEAN]
  BY <1>1 DEF JobRecords
<1>6. info' \in [Gens -> [status : {"none", "completed", "error", "cancelled"}, background : BOOLEAN]]
  BY <1>1, <1>5 DEF EndJob
<1>7. over' \in [Gens -> {"open", "settled", "told"}]
  BY <1>1 DEF EndJob
<1> QED
  BY <1>2, <1>4, <1>6, <1>7

\* A job that is cancelled has no more to count.
LEMMA CancelKeepsCounts ==
  ASSUME JobTypeOK, CountParts, CancelJob
  PROVE  JobTypeOK' /\ CountParts'
<1>1. JobRuns /\ EndJob("cancelled", job.output) /\ UNCHANGED <<member, promo, task, notice, mixed>>
  BY DEF CancelJob
<1>2. /\ job' \in JobRecords
      /\ job'.gen = job.gen /\ job'.next = job.next /\ job'.status = "cancelled"
      /\ info' \in [Gens -> [status : {"none", "completed", "error", "cancelled"}, background : BOOLEAN]]
      /\ over' \in [Gens -> {"open", "settled", "told"}]
  BY <1>1, CancelledEnd
<1>3. JobTypeOK'
  BY <1>1, <1>2 DEF JobTypeOK, JobRecords
<1>4. job.gen # NoGen
  BY <1>1 DEF CountParts, RunningWell
<1>5. /\ FewGenerations' /\ NothingBefore' /\ OutsideYet' /\ StartedOnce' /\ PlaceReserved' /\ NoneBeyond' /\ EndsHaveExit'
  BY <1>1, <1>2, <1>4 DEF CountParts, FewGenerations, NothingBefore, OutsideYet, StartedOnce, PlaceReserved, NoneBeyond,
       EndsHaveExit, Entered
<1>6. RunningWell' /\ CompletedWithLast'
  BY <1>2 DEF RunningWell, CompletedWithLast, JobRuns
<1> QED
  BY <1>3, <1>5, <1>6 DEF CountParts

\* So does a call that is aborted while it waits.
LEMMA AbortKeepsCounts ==
  ASSUME JobTypeOK, CountParts, NEW c \in Tasks, AbortTask(c)
  PROVE  JobTypeOK' /\ CountParts'
<1>1. task[c].at = "racing" /\ task' = [task EXCEPT ![c].at = "aborted"] /\ UNCHANGED <<member, promo, notice, mixed>>
  BY DEF AbortTask, TaskAt, TaskGoes
<1>2. task \in [Tasks -> TaskRecords]
  BY DEF JobTypeOK, TaskRecords, TaskPoints
<1>3. TaskMoved(c, "aborted", task[c].gen)
  <2>1. [task[c] EXCEPT !.at = "aborted"] = [[task[c] EXCEPT !.at = "aborted"] EXCEPT !.gen = task[c].gen]
    BY <1>2 DEF TaskRecords
  <2> QED
    BY <1>1, <1>2, <2>1 DEF TaskMoved
<1>4. task[c].gen \in Gens \union {NoGen} /\ "aborted" \in TaskPoints
  BY <1>2 DEF TaskRecords, TaskPoints
<1>5. /\ task' \in [Tasks -> TaskRecords]
      /\ \A d \in Tasks : /\ task'[d].started = task[d].started /\ task'[d].seq = task[d].seq
                          /\ task'[d].background = task[d].background
                          /\ d # c => task'[d] = task[d]
      /\ task'[c].at = "aborted" /\ task'[c].gen = task[c].gen
  BY <1>3, <1>4, MovedTask
<1>6. TasksKeepPlaces
  BY <1>1, <1>5 DEF TasksKeepPlaces
<1>7. CASE JobRuns
  <2>1. EndJob("cancelled", job.output)
    BY <1>7 DEF AbortTask
  <2>2. /\ job' \in JobRecords
        /\ job'.gen = job.gen /\ job'.next = job.next /\ job'.status = "cancelled"
        /\ info' \in [Gens -> [status : {"none", "completed", "error", "cancelled"}, background : BOOLEAN]]
        /\ over' \in [Gens -> {"open", "settled", "told"}]
    BY <1>7, <2>1, CancelledEnd
  <2>3. JobTypeOK'
    BY <1>1, <1>5, <2>2 DEF JobTypeOK, JobRecords, TaskRecords, TaskPoints
  <2>4. job.gen # NoGen
    BY <1>7 DEF CountParts, RunningWell
  <2>5. Entered' = Entered
    BY <1>6 DEF TasksKeepPlaces, Entered
  <2>6. FewGenerations' /\ NothingBefore' /\ NoneBeyond' /\ EndsHaveExit'
    BY <1>1, <2>2, <2>4, <2>5 DEF CountParts, FewGenerations, NothingBefore, NoneBeyond, EndsHaveExit
  <2>7. OutsideYet' /\ StartedOnce'
    BY <1>1, <1>6, <2>2 DEF CountParts, OutsideYet, StartedOnce, TasksKeepPlaces
  <2>8. PlaceReserved'
    <3>1. \A d \in Tasks : task'[d].at = "forking" => task'[d] = task[d] /\ task[d].at = "forking"
      BY <1>5
    <3> QED
      BY <1>1, <2>2, <3>1 DEF CountParts, PlaceReserved
  <2>9. RunningWell' /\ CompletedWithLast'
    BY <2>2 DEF RunningWell, CompletedWithLast, JobRuns
  <2> QED
    BY <2>3, <2>6, <2>7, <2>8, <2>9 DEF CountParts
<1>8. CASE ~JobRuns
  <2>1. UNCHANGED <<job, info, over>>
    BY <1>8 DEF AbortTask
  <2>2. JobTypeOK'
    BY <1>1, <1>5, <2>1 DEF JobTypeOK, TaskRecords, TaskPoints
  <2> QED
    BY <1>1, <1>6, <2>1, <2>2, CountsStay DEF SameCounts
<1> QED
  BY <1>7, <1>8

\* A run that settles late, when its generation is no longer the running one, changes nothing for the job;
\* one of the running generation is counted down, or ends the job.
LEMMA SettleKeepsCounts ==
  ASSUME JobTypeOK, CountParts, NEW g \in Gens, NEW k \in Members, SettleMember(g, k)
  PROVE  JobTypeOK' /\ CountParts'
<1> DEFINE exit == member[g][k].exit
<1> DEFINE output == IF exit = "success" /\ Newer(k) THEN k + 1 ELSE job.output
<1>1. /\ member[g][k].at = "ended" /\ MemberGoes(g, k, "settled") /\ UNCHANGED <<promo, task, notice, mixed>>
      /\ IF SameToken(g) /\ JobRuns
           THEN IF exit = "success" /\ job.pending > 1
                  THEN job' = [job EXCEPT !.pending = @ - 1, !.output = output] /\ UNCHANGED <<info, over>>
                  ELSE EndJob(StatusOf(exit), output)
           ELSE UNCHANGED <<job, info, over>>
  BY DEF SettleMember
<1>2. /\ job \in JobRecords /\ member \in [Gens -> [Members -> MemberRecords]]
      /\ info \in [Gens -> [status : {"none", "completed", "error", "cancelled"}, background : BOOLEAN]]
      /\ over \in [Gens -> {"open", "settled", "told"}]
  BY DEF JobTypeOK, MemberRecords, JobRecords
<1>3. exit \in {"success", "failure", "interrupt"}
  BY <1>1, <1>2 DEF CountParts, EndsHaveExit, MemberRecords
<1> DEFINE now == [at |-> "settled", exit |-> exit]
<1>4. now \in MemberRecords
  BY <1>3 DEF MemberRecords
<1>5. member' = [member EXCEPT ![g][k] = now]
  BY <1>1, MemberGoesOn
<1>6. now.at = "settled" /\ now.exit = exit
  OBVIOUS
<1> HIDE DEF exit, now, output
<1>7. /\ member' \in [Gens -> [Members -> MemberRecords]]
      /\ member'[g][k] = now
      /\ \A h \in Gens, j \in Members : ~(h = g /\ j = k) => member'[h][j] = member[h][j]
  BY <1>4, <1>5, MovedMember
<1>8. /\ job.gen \in 0 .. Cardinality(Tasks) /\ job.next \in 0 .. Cardinality(Tasks)
      /\ job.pending \in 0 .. Cardinality(Tasks) /\ job.output \in 0 .. Cardinality(Tasks)
      /\ Cardinality(Tasks) \in Nat /\ Cardinality(Tasks) > 0
  BY CountersInRange DEF CountParts
<1>9. k \in Nat /\ g \in Nat
  BY <1>8 DEF Members, Gens
<1>10. g <= job.gen /\ (g = job.gen => k < job.next)
  BY <1>1, <1>8, <1>9 DEF CountParts, NoneBeyond, Unforked
<1>11. EndsHaveExit'
  BY <1>3, <1>6, <1>7 DEF CountParts, EndsHaveExit
<1>12. ASSUME job'.gen = job.gen, job'.next = job.next
       PROVE  FewGenerations' /\ OutsideYet' /\ StartedOnce' /\ PlaceReserved' /\ NoneBeyond'
  <2>1. FewGenerations' /\ OutsideYet' /\ StartedOnce'
    BY <1>1, <1>12 DEF CountParts, FewGenerations, OutsideYet, StartedOnce, Entered
  <2>2. \A d \in Tasks : task[d].at = "forking" => task[d].gen \in Gens /\ task[d].seq \in Members /\ ~(task[d].gen = g /\ task[d].seq = k)
    BY <1>1 DEF CountParts, PlaceReserved, JobTypeOK, Unforked
  <2>3. PlaceReserved'
    BY <1>1, <1>7, <1>12, <2>2 DEF CountParts, PlaceReserved
  <2>4. NoneBeyond'
    <3>1. \A h \in Gens, j \in Members : h > job.gen \/ (h = job.gen /\ j >= job.next) => ~(h = g /\ j = k)
      BY <1>8, <1>9, <1>10
    <3> QED
      BY <1>7, <1>12, <3>1 DEF CountParts, NoneBeyond
  <2> QED
    BY <2>1, <2>3, <2>4
<1>13. \A j \in 0 .. job.next - 1 : j \in Members
  BY <1>8 DEF Members
<1>14. job.gen # NoGen => job.gen \in Gens
  BY <1>2 DEF JobRecords
<1>15. CASE ~(SameToken(g) /\ JobRuns)
  <2>1. UNCHANGED <<job, info, over>>
    BY <1>1, <1>15
  <2>2. JobTypeOK'
    BY <1>1, <1>7, <2>1 DEF JobTypeOK, MemberRecords
  <2>3. NothingBefore'
    BY <2>1 DEF CountParts, NothingBefore
  <2>4. RunningWell'
    <3>1. CASE JobRuns
      <4>1. g # job.gen /\ job.gen \in Gens
        BY <1>14, <1>15, <3>1 DEF SameToken, CountParts, RunningWell
      <4>2. \A j \in Members : member'[job.gen][j] = member[job.gen][j]
        BY <1>7, <4>1
      <4>3. Unsettled' = Unsettled
        BY <1>13, <2>1, <4>2 DEF Unsettled
      <4> QED
        BY <2>1, <4>2, <4>3 DEF CountParts, RunningWell, JobRuns
    <3>2. CASE ~JobRuns
      BY <2>1, <3>2 DEF RunningWell, JobRuns
    <3> QED
      BY <3>1, <3>2
  <2>5. CompletedWithLast'
    <3>1. CASE job.status = "completed"
      <4>1. job.gen \in Gens
        BY <1>14, <3>1 DEF CountParts, NothingBefore
      <4>2. g = job.gen => member[g][k].at = "settled"
        <5>1. g = job.gen => k \in 0 .. job.next - 1
          BY <1>8, <1>9, <1>10
        <5> QED
          BY <3>1, <5>1 DEF CountParts, CompletedWithLast
      <4>3. \A j \in Members : member'[job.gen][j] = member[job.gen][j]
        BY <1>1, <1>7, <4>1, <4>2
      <4> QED
        BY <1>13, <2>1, <4>3 DEF CountParts, CompletedWithLast
    <3>2. CASE job.status # "completed"
      BY <2>1, <3>2 DEF CompletedWithLast
    <3> QED
      BY <3>1, <3>2
  <2> QED
    BY <1>11, <1>12, <2>1, <2>2, <2>3, <2>4, <2>5 DEF CountParts
<1>16. CASE SameToken(g) /\ JobRuns
  <2>1. g = job.gen /\ JobRuns
    BY <1>16 DEF SameToken
  <2>2. /\ job.gen # NoGen /\ job.next > 0 /\ job.output <= job.next
        /\ job.pending > 0 /\ job.pending = Cardinality(Unsettled)
        /\ \A j \in Members : member[g][j].at = "settled" => member[g][j].exit = "success" /\ j + 1 <= job.output
    BY <2>1 DEF CountParts, RunningWell
  <2>3. k \in Unsettled /\ IsFiniteSet(Unsettled)
    <3>1. k \in Unsettled
      BY <1>1, <1>8, <1>9, <1>10, <2>1 DEF Unsettled
    <3>2. job.next \in Nat /\ Unsettled \in SUBSET (0 .. job.next - 1)
      BY <1>8 DEF Unsettled
    <3> QED
      BY <3>1, <3>2, PlacesAreCounted
  <2>4. Cardinality(Unsettled \ {k}) = job.pending - 1
    BY <1>8, <2>2, <2>3, FS_RemoveElement
  <2>5. ASSUME job'.gen = job.gen, job'.next = job.next
        PROVE  Unsettled' = Unsettled \ {k}
    BY <1>6, <1>7, <1>13, <2>1, <2>5 DEF Unsettled
  <2>6. /\ output \in Nat /\ output <= job.next /\ output >= job.output
        /\ exit = "success" => k + 1 <= output
    BY <1>8, <1>9, <1>10, <2>1, <2>2 DEF output, Newer
  <2>7. output \in 0 .. Cardinality(Tasks)
    BY <1>8, <2>6
  <2>8. CASE exit = "success" /\ job.pending > 1
    <3>1. job' = [job EXCEPT !.pending = @ - 1, !.output = output] /\ UNCHANGED <<info, over>>
      BY <1>1, <1>16, <2>8
    <3>2. job' = [gen |-> job.gen, status |-> job.status, pending |-> job.pending - 1, next |-> job.next,
                  output |-> output, background |-> job.background]
      BY <1>2, <3>1 DEF JobRecords
    <3>3. job.pending - 1 \in 0 .. Cardinality(Tasks) /\ job.pending - 1 > 0
      BY <1>8, <2>8
    <3>4. job' \in JobRecords
      BY <1>2, <2>7, <3>2, <3>3 DEF JobRecords
    <3>5. JobTypeOK'
      BY <1>1, <1>7, <3>1, <3>4 DEF JobTypeOK, JobRecords, MemberRecords
    <3>6. /\ job'.gen = job.gen /\ job'.next = job.next /\ job'.status = job.status /\ job'.pending = job.pending - 1
          /\ job'.output = output
      BY <3>2
    <3>7. \A j \in Members : member'[g][j].at = "settled" => member'[g][j].exit = "success" /\ j + 1 <= output
      <4> SUFFICES ASSUME NEW j \in Members, member'[g][j].at = "settled"
                   PROVE  member'[g][j].exit = "success" /\ j + 1 <= output
        OBVIOUS
      <4>1. j \in Nat
        BY <1>8 DEF Members
      <4>2. CASE j = k
        BY <1>6, <1>7, <2>6, <2>8, <4>2
      <4>3. CASE j # k
        BY <1>7, <1>8, <2>2, <2>6, <4>1, <4>3
      <4> QED
        BY <4>2, <4>3
    <3>8. RunningWell'
      BY <2>1, <2>2, <2>4, <2>5, <2>6, <3>3, <3>6, <3>7 DEF RunningWell
    <3>9. NothingBefore' /\ CompletedWithLast'
      BY <2>1, <2>2, <3>6 DEF NothingBefore, CompletedWithLast, JobRuns
    <3> QED
      BY <1>11, <1>12, <3>5, <3>6, <3>8, <3>9 DEF CountParts
  <2>9. CASE ~(exit = "success" /\ job.pending > 1)
    <3>1. EndJob(StatusOf(exit), output)
      BY <1>1, <1>16, <2>9
    <3>2. /\ StatusOf(exit) \in {"completed", "error", "cancelled"}
          /\ StatusOf(exit) = "completed" => exit = "success"
      BY <1>3 DEF StatusOf
    <3> DEFINE status == StatusOf(exit)
    <3>3. job' = [gen |-> job.gen, status |-> status, pending |-> 0, next |-> job.next, output |-> output,
                  background |-> job.background]
      BY <1>2, <3>1 DEF EndJob, JobRecords
    <3>4. 0 \in 0 .. Cardinality(Tasks)
      BY <1>8
    <3> HIDE DEF status
    <3>5. status \in {"completed", "error", "cancelled"} /\ (status = "completed" => exit = "success")
      BY <3>2 DEF status
    <3>6. job' \in JobRecords
      BY <1>2, <2>7, <3>3, <3>4, <3>5 DEF JobRecords
    <3>7. info' \in [Gens -> [status : {"none", "completed", "error", "cancelled"}, background : BOOLEAN]]
      <4>1. info' = [info EXCEPT ![job.gen] = [status |-> status, background |-> job.background]]
        BY <3>1 DEF EndJob, status
      <4>2. [status |-> status, background |-> job.background] \in [status : {"none", "completed", "error", "cancelled"}, background : BOOLEAN]
        BY <1>2, <3>5 DEF JobRecords
      <4> QED
        BY <1>2, <4>1, <4>2
    <3>8. over' \in [Gens -> {"open", "settled", "told"}]
      BY <1>2, <3>1 DEF EndJob
    <3>9. JobTypeOK'
      BY <1>1, <1>7, <3>6, <3>7, <3>8 DEF JobTypeOK, JobRecords, MemberRecords
    <3>10. job'.gen = job.gen /\ job'.next = job.next /\ job'.status = status /\ job'.output = output
      BY <3>3
    <3>11. NothingBefore' /\ RunningWell'
      BY <2>2, <3>5, <3>10 DEF NothingBefore, RunningWell, JobRuns
    <3>12. CompletedWithLast'
      <4> SUFFICES ASSUME status = "completed"
                   PROVE  /\ output = job.next
                          /\ \A j \in 0 .. job.next - 1 : member'[g][j] = [at |-> "settled", exit |-> "success"]
        BY <2>1, <3>10 DEF CompletedWithLast
      <4>1. exit = "success" /\ job.pending = 1
        BY <1>8, <2>2, <2>9, <3>5
      <4>2. Unsettled \ {k} = {}
        <5>1. IsFiniteSet(Unsettled \ {k})
          BY <2>3, FS_RemoveElement
        <5> QED
          BY <2>4, <4>1, <5>1, FS_EmptySet
      <4>3. \A j \in 0 .. job.next - 1 : j # k => member[g][j].at = "settled" /\ j \in Members
        BY <1>13, <2>1, <4>2 DEF Unsettled
      <4>4. \A j \in 0 .. job.next - 1 : member'[g][j].at = "settled" /\ member'[g][j].exit = "success" /\ member'[g][j] \in MemberRecords
        BY <1>6, <1>7, <1>13, <2>2, <4>1, <4>3
      <4>5. \A j \in 0 .. job.next - 1 : member'[g][j] = [at |-> "settled", exit |-> "success"]
        BY <4>4 DEF MemberRecords
      <4>6. job.next - 1 \in 0 .. job.next - 1
        BY <1>8, <2>2
      <4>7. output >= job.next
        <5>1. CASE job.next - 1 = k
          BY <1>8, <1>9, <2>6, <4>1, <5>1
        <5>2. CASE job.next - 1 # k
          <6>1. (job.next - 1) + 1 <= job.output
            BY <2>2, <4>3, <4>6, <5>2
          <6> QED
            BY <1>8, <2>6, <6>1
        <5> QED
          BY <5>1, <5>2
      <4> QED
        BY <1>8, <2>6, <4>5, <4>7
    <3> QED
      BY <1>11, <1>12, <3>9, <3>10, <3>11, <3>12 DEF CountParts
  <2> QED
    BY <2>8, <2>9
<1> QED
  BY <1>15, <1>16

\* Steps that look at the job, and tell of it, leave the counts as they are.
NoticeRecords == [at : {"none", "waiting", "injected", "dropped"}, gen : Gens \union {NoGen}]

\* What a notification is set to when somebody asks for it.
LEMMA NotifyIsTyped ==
  ASSUME JobTypeOK, NEW c \in Tasks, NotifyFor(c)
  PROVE  /\ notice' \in [Tasks -> NoticeRecords] /\ mixed' \in BOOLEAN
         /\ notice'[c].at \in {"waiting", "injected", "dropped"} /\ notice'[c].gen = job.gen
         /\ \A d \in Tasks : d # c => notice'[d] = notice[d]
         /\ mixed' = (mixed \/ job.gen # task[c].gen)
<1>1. notice \in [Tasks -> NoticeRecords] /\ mixed \in BOOLEAN /\ job \in JobRecords
  BY DEF JobTypeOK, NoticeRecords, JobRecords
<1> DEFINE now == [at |-> IF JobRuns THEN "waiting" ELSE Injects(job.status), gen |-> job.gen]
<1>2. now.at \in {"waiting", "injected", "dropped"} /\ now.gen = job.gen /\ now \in NoticeRecords
  BY <1>1 DEF Injects, NoticeRecords, JobRecords
<1>3. notice' = [notice EXCEPT ![c] = now]
  BY DEF NotifyFor
<1>4. mixed' = (mixed \/ job.gen # task[c].gen)
  BY DEF NotifyFor, LooksUp
<1> HIDE DEF now
<1>5. notice' \in [Tasks -> NoticeRecords] /\ notice'[c] = now /\ \A d \in Tasks : d # c => notice'[d] = notice[d]
  BY <1>1, <1>2, <1>3
<1> QED
  BY <1>1, <1>2, <1>4, <1>5

LEMMA RaceKeepsCounts ==
  ASSUME JobTypeOK, CountParts, NEW c \in Tasks, RaceFor(c)
  PROVE  JobTypeOK' /\ CountParts'
<1> DEFINE point == IF JobRuns /\ ~job.background THEN "racing" ELSE IF job.background THEN "background" ELSE "answered"
<1>1. task[c].at = "race" /\ task' = [task EXCEPT ![c].gen = job.gen, ![c].at = point]
      /\ UNCHANGED <<job, member, over, info, promo, notice>> /\ mixed' = (mixed \/ job.gen # task[c].gen)
  BY DEF RaceFor, TaskAt, LooksUp, JobAlone
<1>2. point \in TaskPoints /\ point \in {"racing", "background", "answered"}
  BY DEF TaskPoints
<1> HIDE DEF point
<1>3. task \in [Tasks -> TaskRecords] /\ job.gen \in Gens \union {NoGen}
  BY DEF JobTypeOK, TaskRecords, TaskPoints
<1>4. TaskMoved(c, point, job.gen)
  <2>1. [[task[c] EXCEPT !.gen = job.gen] EXCEPT !.at = point] = [[task[c] EXCEPT !.at = point] EXCEPT !.gen = job.gen]
    BY <1>3 DEF TaskRecords
  <2> QED
    BY <1>1, <1>3, <2>1 DEF TaskMoved
<1>5. /\ task' \in [Tasks -> TaskRecords]
      /\ \A d \in Tasks : /\ task'[d].started = task[d].started /\ task'[d].seq = task[d].seq
                          /\ task'[d].background = task[d].background
                          /\ d # c => task'[d] = task[d]
      /\ task'[c].at = point /\ task'[c].gen = job.gen
  BY <1>2, <1>3, <1>4, MovedTask
<1>6. mixed' \in BOOLEAN
  BY <1>1 DEF JobTypeOK
<1>7. JobTypeOK'
  BY <1>1, <1>5, <1>6 DEF JobTypeOK, TaskRecords, TaskPoints
<1>8. TasksKeepPlaces
  BY <1>1, <1>2, <1>5 DEF TasksKeepPlaces
<1> QED
  BY <1>1, <1>7, <1>8, CountsStay DEF SameCounts

\* A call that moves on where it is.
LEMMA TaskOnlyMoves ==
  ASSUME JobTypeOK, NEW c \in Tasks, NEW point \in TaskPoints, TaskGoes(c, point)
  PROVE  /\ task' \in [Tasks -> TaskRecords]
         /\ \A d \in Tasks : /\ task'[d].started = task[d].started /\ task'[d].seq = task[d].seq
                             /\ task'[d].background = task[d].background
                             /\ d # c => task'[d] = task[d]
         /\ task'[c].at = point /\ task'[c].gen = task[c].gen
<1>1. task \in [Tasks -> TaskRecords]
  BY DEF JobTypeOK, TaskRecords, TaskPoints
<1>2. TaskMoved(c, point, task[c].gen)
  <2>1. [task[c] EXCEPT !.at = point] = [[task[c] EXCEPT !.at = point] EXCEPT !.gen = task[c].gen]
    BY <1>1 DEF TaskRecords
  <2> QED
    BY <1>1, <2>1 DEF TaskMoved, TaskGoes
<1>3. task[c].gen \in Gens \union {NoGen}
  BY <1>1 DEF TaskRecords
<1> QED
  BY <1>2, <1>3, MovedTask

LEMMA TellingKeepsCounts ==
  ASSUME JobTypeOK, CountParts, NEW c \in Tasks, GetsResult(c) \/ NotifyLater(c) \/ BringResult(c)
  PROVE  JobTypeOK' /\ CountParts'
<1>1. CASE GetsResult(c)
  <2>1. PICK point \in {"background", "answered"} : TaskGoes(c, point)
    BY <1>1 DEF GetsResult
  <2>2. task[c].at = "racing" /\ UNCHANGED <<job, member, over, info, promo, notice, mixed>>
    BY <1>1 DEF GetsResult, TaskAt, JobAlone
  <2>3. point \in TaskPoints
    BY DEF TaskPoints
  <2>4. /\ task' \in [Tasks -> TaskRecords]
        /\ \A d \in Tasks : /\ task'[d].started = task[d].started /\ task'[d].seq = task[d].seq
                            /\ task'[d].background = task[d].background
                            /\ d # c => task'[d] = task[d]
        /\ task'[c].at = point /\ task'[c].gen = task[c].gen
    BY <2>1, <2>3, TaskOnlyMoves
  <2>5. JobTypeOK'
    BY <2>2, <2>4 DEF JobTypeOK, TaskRecords, TaskPoints
  <2>6. TasksKeepPlaces
    BY <2>2, <2>4 DEF TasksKeepPlaces
  <2> QED
    BY <2>2, <2>5, <2>6, CountsStay DEF SameCounts
<1>2. CASE NotifyLater(c)
  <2>1. task[c].at = "notify" /\ NotifyFor(c) /\ TaskGoes(c, "background") /\ UNCHANGED <<job, member, over, info, promo>>
    BY <1>2 DEF NotifyLater, TaskAt, JobAlone
  <2>2. "background" \in TaskPoints
    BY DEF TaskPoints
  <2>3. /\ task' \in [Tasks -> TaskRecords]
        /\ \A d \in Tasks : /\ task'[d].started = task[d].started /\ task'[d].seq = task[d].seq
                            /\ task'[d].background = task[d].background
                            /\ d # c => task'[d] = task[d]
        /\ task'[c].at = "background" /\ task'[c].gen = task[c].gen
    BY <2>1, <2>2, TaskOnlyMoves
  <2>4. /\ notice' \in [Tasks -> NoticeRecords] /\ mixed' \in BOOLEAN
        /\ \A d \in Tasks : d # c => notice'[d] = notice[d]
    BY <2>1, NotifyIsTyped
  <2>5. JobTypeOK'
    BY <2>1, <2>3, <2>4 DEF JobTypeOK, TaskRecords, TaskPoints, NoticeRecords
  <2>6. TasksKeepPlaces
    BY <2>1, <2>3, <2>4 DEF TasksKeepPlaces
  <2> QED
    BY <2>1, <2>5, <2>6, CountsStay DEF SameCounts
<1>3. CASE BringResult(c)
  <2>1. /\ notice[c].at = "waiting" /\ UNCHANGED <<job, member, over, info, promo, task, mixed>>
        /\ notice' = [notice EXCEPT ![c].at = Injects(info[notice[c].gen].status)]
    BY <1>3 DEF BringResult, JobAlone
  <2>2. Injects(info[notice[c].gen].status) \in {"injected", "dropped"}
    BY DEF Injects
  <2>3. notice \in [Tasks -> NoticeRecords]
    BY DEF JobTypeOK, NoticeRecords
  <2>4. notice' \in [Tasks -> NoticeRecords] /\ \A d \in Tasks : d # c => notice'[d] = notice[d]
    BY <2>1, <2>2, <2>3 DEF NoticeRecords
  <2>5. JobTypeOK'
    BY <2>1, <2>4 DEF JobTypeOK, NoticeRecords
  <2>6. \A d \in Tasks : task[d].at \in {"away", "starting"} => d # c
    BY <2>1 DEF CountParts, OutsideYet
  <2>7. TasksKeepPlaces
    BY <2>1, <2>4, <2>6 DEF TasksKeepPlaces
  <2> QED
    BY <2>1, <2>5, <2>7, CountsStay DEF SameCounts
<1> QED
  BY <1>1, <1>2, <1>3

LEMMA PromotionKeepsCounts ==
  ASSUME JobTypeOK, CountParts, Promote \/ \E g \in Gens : TellPromoted(g) \/ OnPromote(g) \/ TellEnd(g)
  PROVE  JobTypeOK' /\ CountParts'
<1>0. job \in JobRecords /\ promo \in [Gens -> {"no", "marked", "told", "done"}] /\ over \in [Gens -> {"open", "settled", "told"}]
  BY DEF JobTypeOK, JobRecords
<1>1. CASE Promote
  <2>1. JobRuns /\ job' = [job EXCEPT !.background = TRUE] /\ promo' = [promo EXCEPT ![job.gen] = "marked"]
        /\ UNCHANGED <<member, over, info, task, notice, mixed>>
    BY <1>1 DEF Promote, Marked
  <2>2. job' \in JobRecords /\ SameCounts
    BY <1>0, <2>1 DEF JobRecords, SameCounts
  <2>3. promo' \in [Gens -> {"no", "marked", "told", "done"}]
    BY <1>0, <2>1
  <2>4. JobTypeOK'
    BY <2>1, <2>2, <2>3 DEF JobTypeOK, JobRecords
  <2>5. TasksKeepPlaces
    BY <2>1 DEF TasksKeepPlaces
  <2> QED
    BY <2>1, <2>2, <2>4, <2>5, CountsStay
<1>2. ASSUME NEW g \in Gens, TellPromoted(g)
      PROVE  JobTypeOK' /\ CountParts'
  <2>1. promo' = [promo EXCEPT ![g] = "told"] /\ UNCHANGED <<job, member, over, info, task, notice, mixed>>
    BY <1>2 DEF TellPromoted
  <2>2. JobTypeOK'
    BY <1>0, <2>1 DEF JobTypeOK
  <2> QED
    BY <2>1, <2>2, CountsStay DEF SameCounts, TasksKeepPlaces
<1>3. ASSUME NEW g \in Gens, OnPromote(g)
      PROVE  JobTypeOK' /\ CountParts'
  <2>1. PICK c \in Tasks : task[c].started = g /\ NotifyFor(c)
    BY <1>3 DEF OnPromote
  <2>2. promo' = [promo EXCEPT ![g] = "done"] /\ UNCHANGED <<job, member, over, info, task>>
    BY <1>3 DEF OnPromote
  <2>3. notice' \in [Tasks -> NoticeRecords] /\ mixed' \in BOOLEAN /\ \A d \in Tasks : d # c => notice'[d] = notice[d]
    BY <2>1, NotifyIsTyped
  <2>4. JobTypeOK'
    BY <1>0, <2>2, <2>3 DEF JobTypeOK, NoticeRecords
  <2>5. g # NoGen
    BY TasksAreCounted DEF Gens, NoGen
  <2>6. \A d \in Tasks : task[d].at \in {"away", "starting"} => d # c
    BY <2>1, <2>5 DEF CountParts, OutsideYet
  <2>7. TasksKeepPlaces
    BY <2>2, <2>3, <2>6 DEF TasksKeepPlaces
  <2> QED
    BY <2>2, <2>4, <2>7, CountsStay DEF SameCounts
<1>4. ASSUME NEW g \in Gens, TellEnd(g)
      PROVE  JobTypeOK' /\ CountParts'
  <2>1. over' = [over EXCEPT ![g] = "told"] /\ UNCHANGED <<job, member, info, promo, task, notice, mixed>>
    BY <1>4 DEF TellEnd
  <2>2. JobTypeOK'
    BY <1>0, <2>1 DEF JobTypeOK
  <2> QED
    BY <2>1, <2>2, CountsStay DEF SameCounts, TasksKeepPlaces
<1> QED
  BY <1>1, <1>2, <1>3, <1>4

-----------------------------------------------------------------------------
(***************************************************************************)
(* The counts always hold.                                                 *)
(***************************************************************************)
LEMMA CountsAtFirst == JobInit => CountInvariant
<1> SUFFICES ASSUME JobInit PROVE CountInvariant
  OBVIOUS
<1>1. Cardinality(Tasks) \in Nat /\ Cardinality(Tasks) > 0
  BY TasksAreCounted
<1>2. 0 \in Members /\ 0 \in 0 .. Cardinality(Tasks)
  BY <1>1 DEF Members
<1>3. JobTypeOK
  BY <1>2 DEF JobInit, JobTypeOK, NoGen, NoInfo, Unforked
<1>4. FewGenerations
  BY EnteredAreCounted DEF JobInit, FewGenerations, NoGen
<1>5. StartedOnce /\ PlaceReserved /\ OutsideYet /\ NothingBefore
  BY DEF JobInit, StartedOnce, PlaceReserved, OutsideYet, NothingBefore, NoGen
<1>6. NoneBeyond /\ EndsHaveExit
  BY DEF JobInit, NoneBeyond, EndsHaveExit, Unforked
<1>7. RunningWell /\ CompletedWithLast
  BY DEF JobInit, RunningWell, CompletedWithLast, JobRuns
<1> QED
  BY <1>3, <1>4, <1>5, <1>6, <1>7 DEF CountInvariant, CountParts

LEMMA CountsStep == CountInvariant /\ [JobNext]_jobVars => CountInvariant'
<1> SUFFICES ASSUME JobTypeOK, CountParts, [JobNext]_jobVars
             PROVE  JobTypeOK' /\ CountParts'
  BY DEF CountInvariant
<1>1. CASE UNCHANGED jobVars
  <2>1. JobTypeOK'
    BY <1>1 DEF JobTypeOK, jobVars
  <2>2. SameCounts /\ TasksKeepPlaces /\ UNCHANGED member
    BY <1>1 DEF SameCounts, TasksKeepPlaces, jobVars
  <2> QED
    BY <2>1, <2>2, CountsStay
<1>2. ASSUME NEW c \in Tasks,
             ExtendJob(c) \/ StartJob(c) \/ ForkMember(c) \/ RaceFor(c) \/ GetsResult(c)
             \/ NotifyLater(c) \/ BringResult(c) \/ AbortTask(c)
      PROVE  JobTypeOK' /\ CountParts'
  BY <1>2, ExtendKeepsCounts, StartKeepsCounts, ForkKeepsCounts, RaceKeepsCounts, TellingKeepsCounts, AbortKeepsCounts
<1>3. CASE Promote \/ \E g \in Gens : TellPromoted(g) \/ OnPromote(g) \/ TellEnd(g)
  BY <1>3, PromotionKeepsCounts
<1>4. CASE CancelJob
  BY <1>4, CancelKeepsCounts
<1>5. ASSUME NEW g \in Gens, NEW k \in Members,
             MemberBegins(g, k) \/ MemberEnds(g, k) \/ SettleMember(g, k) \/ StopMember(g, k)
      PROVE  JobTypeOK' /\ CountParts'
  BY <1>5, RunStepsKeepCounts, SettleKeepsCounts
<1> QED
  BY <1>1, <1>2, <1>3, <1>4, <1>5 DEF JobNext

LEMMA CountsHold == JobSpec => []CountInvariant
<1>1. JobInit => CountInvariant
  BY CountsAtFirst
<1>2. CountInvariant /\ [JobNext]_jobVars => CountInvariant'
  BY CountsStep
<1> QED
  BY <1>1, <1>2, PTL DEF JobSpec

(***************************************************************************)
(* A running job counts the runs that have not settled: PendingCounts.     *)
(***************************************************************************)
THEOREM PendingIsCounted == JobSpec => []PendingCounts
<1>1. CountInvariant => PendingCounts
  BY DEF CountInvariant, CountParts, RunningWell, PendingCounts, Unsettled
<1> QED
  BY <1>1, CountsHold, PTL

(***************************************************************************)
(* A job completes when all its runs have succeeded, with the output of    *)
(* the last one: CompletedWithLast.                                        *)
(***************************************************************************)
THEOREM LastRunIsTheResult == JobSpec => []CompletedWithLast
<1>1. CountInvariant => CompletedWithLast
  BY DEF CountInvariant, CountParts
<1> QED
  BY <1>1, CountsHold, PTL

-----------------------------------------------------------------------------
(***************************************************************************)
(* Deliveries.  Each action keeps what is known of who is told.            *)
(***************************************************************************)
USE DEF NoGen

\* A step that moves no call, and tells nobody: only the runs may change.
LEMMA DeliveryStays ==
  ASSUME DeliveryParts, UNCHANGED <<over, info, promo, task, notice, mixed>>,
         job'.gen = job.gen, job'.status = job.status, job'.background = job.background
  PROVE  DeliveryParts'
<1>1. EndedOnes' /\ PromotionMarks'
  BY DEF DeliveryParts, EndedOnes, PromotionMarks, JobRuns
<1>2. OwnGeneration' /\ ForegroundAnswers'
  BY DEF DeliveryParts, OwnGeneration, ForegroundAnswers
<1> QED
  BY <1>1, <1>2 DEF DeliveryParts

\* The end of the running generation is the first that it has, and tells the truth about its promotion.
LEMMA EndKeepsMarks ==
  ASSUME JobTypeOK, EndedOnes, PromotionMarks, JobRuns, job.gen \in Gens,
         NEW status \in {"completed", "error", "cancelled"}, NEW output, EndJob(status, output), UNCHANGED promo
  PROVE  EndedOnes' /\ PromotionMarks' /\ \A g \in Gens : over[g] # "open" => over'[g] # "open"
<1>1. /\ job'.gen = job.gen /\ job'.status = status /\ job'.background = job.background
  BY DEF EndJob, JobTypeOK
<1>2. /\ over'[job.gen] = "settled" /\ \A g \in Gens : g # job.gen => over'[g] = over[g]
      /\ info'[job.gen].background = job.background /\ \A g \in Gens : g # job.gen => info'[g] = info[g]
  BY DEF EndJob, JobTypeOK
<1>3. EndedOnes'
  <2>1. ~JobRuns'
    BY <1>1 DEF JobRuns
  <2>2. \A g \in Gens : g = job.gen => ~(g > job.gen)
    BY TasksAreCounted DEF Gens
  <2> QED
    BY <1>1, <1>2, <2>1, <2>2 DEF EndedOnes
<1>4. PromotionMarks'
  BY <1>1, <1>2 DEF PromotionMarks
<1> QED
  BY <1>2, <1>3, <1>4

LEMMA ExtendKeepsDelivery ==
  ASSUME JobTypeOK, CountParts, DeliveryParts, NEW c \in Tasks, ExtendJob(c)
  PROVE  DeliveryParts'
<1>1. PICK background \in BOOLEAN :
       IF JobRuns
         THEN /\ job' = Extended
              /\ task' = [task EXCEPT ![c].at = "forking", ![c].gen = job.gen, ![c].seq = job.next,
                                   ![c].background = background]
         ELSE /\ task' = [task EXCEPT ![c].at = "starting", ![c].background = background]
              /\ UNCHANGED job
  BY DEF ExtendJob
<1>2. task[c].at = "away" /\ UNCHANGED <<member, over, info, promo, notice, mixed>>
  BY DEF ExtendJob, TaskAt
<1>3. task \in [Tasks -> TaskRecords] /\ job \in JobRecords
  BY DEF JobTypeOK, TaskRecords, TaskPoints, JobRecords
<1>4. task[c].started = 0 /\ notice[c].at = "none"
  BY <1>2 DEF CountParts, OutsideYet
<1>5. \A d \in Tasks : d # c => task'[d] = task[d]
  BY <1>1, <1>3
<1>6. task'[c].at \in {"forking", "starting"} /\ task'[c].started = 0
  <2>1. CASE JobRuns
    BY <1>1, <1>3, <1>4, <2>1 DEF TaskRecords
  <2>2. CASE ~JobRuns
    BY <1>1, <1>3, <1>4, <2>2 DEF TaskRecords
  <2> QED
    BY <2>1, <2>2
<1>7. job'.gen = job.gen /\ job'.status = job.status /\ job'.background = job.background
  BY <1>1, <1>3 DEF Extended, JobRecords
<1>8. EndedOnes' /\ PromotionMarks'
  BY <1>2, <1>7 DEF DeliveryParts, EndedOnes, PromotionMarks, JobRuns
<1>9. OwnGeneration'
  BY <1>2, <1>4, <1>5, <1>6 DEF DeliveryParts, OwnGeneration
<1>10. ForegroundAnswers'
  BY <1>2, <1>4, <1>5, <1>6 DEF DeliveryParts, ForegroundAnswers
<1> QED
  BY <1>8, <1>9, <1>10 DEF DeliveryParts

LEMMA StartKeepsDelivery ==
  ASSUME JobTypeOK, CountParts, DeliveryParts, NEW c \in Tasks, StartJob(c)
  PROVE  DeliveryParts'
<1>1. task[c].at = "starting" /\ UNCHANGED <<member, over, info, promo, notice>>
  BY DEF StartJob, TaskAt
<1>2. task \in [Tasks -> TaskRecords] /\ job \in JobRecords
  BY DEF JobTypeOK, TaskRecords, TaskPoints, JobRecords
<1>3. task[c].started = 0 /\ notice[c].at = "none"
  BY <1>1 DEF CountParts, OutsideYet
<1>4. CASE JobRuns
  <2> DEFINE after == IF task[c].background THEN "notify" ELSE "race"
  <2>1. task' = [task EXCEPT ![c].at = after, ![c].gen = job.gen] /\ mixed' = TRUE /\ UNCHANGED job
    BY <1>4 DEF StartJob
  <2>2. after \in TaskPoints /\ (after = "race" => ~task[c].background) /\ (after = "notify" => task[c].background)
        /\ after \in {"notify", "race"}
    BY DEF TaskPoints
  <2>3. TaskMoved(c, after, job.gen) /\ job.gen \in Gens \union {NoGen}
    BY <1>2, <2>1 DEF TaskMoved, JobRecords
  <2> HIDE DEF after
  <2>4. /\ \A d \in Tasks : /\ task'[d].background = task[d].background
                            /\ d # c => task'[d] = task[d]
        /\ task'[c].at = after
    BY <2>2, <2>3, MovedTask
  <2>5. EndedOnes' /\ PromotionMarks'
    BY <1>1, <2>1 DEF DeliveryParts, EndedOnes, PromotionMarks, JobRuns
  <2>6. OwnGeneration' /\ ForegroundAnswers'
    BY <2>1, <2>2, <2>4 DEF DeliveryParts, OwnGeneration, ForegroundAnswers
  <2> QED
    BY <2>5, <2>6 DEF DeliveryParts
<1>5. CASE ~JobRuns
  <2>1. /\ job' = [gen |-> job.gen + 1, status |-> "running", pending |-> 1, next |-> 1, output |-> 0,
                   background |-> task[c].background]
        /\ task' = [task EXCEPT ![c].at = "forking", ![c].gen = job.gen + 1, ![c].started = job.gen + 1]
        /\ UNCHANGED mixed
    BY <1>5 DEF StartJob
  <2>2. \A d \in Tasks : d # c => task'[d] = task[d]
    BY <1>2, <2>1
  <2>3. task[c] \in TaskRecords /\ task'[c] = [task[c] EXCEPT !.at = "forking", !.gen = job.gen + 1, !.started = job.gen + 1]
    BY <1>2, <2>1
  <2>4. task'[c].at = "forking" /\ task'[c].gen = task'[c].started /\ task'[c].background = task[c].background
    BY <2>3 DEF TaskRecords
  <2>5. job'.gen = job.gen + 1 /\ JobRuns'
    BY <2>1 DEF JobRuns
  <2>6. job.gen \in Nat /\ \A g \in Gens : g \in Nat
    BY CountersInRange DEF CountParts, Gens
  <2>7. EndedOnes'
    <3>1. \A g \in Gens : (g > job.gen) <=> (g > job.gen + 1 \/ g = job.gen + 1)
      BY <2>6
    <3> QED
      BY <1>1, <1>5, <2>5, <3>1 DEF DeliveryParts, EndedOnes
  <2>8. PromotionMarks'
    <3>1. \A g \in Gens : g <= job.gen => g <= job.gen + 1 /\ g # job.gen + 1
      BY <2>6
    <3> QED
      BY <1>1, <2>5, <3>1 DEF DeliveryParts, PromotionMarks
  <2>9. OwnGeneration'
    BY <1>1, <1>3, <2>1, <2>2, <2>4 DEF DeliveryParts, OwnGeneration
  <2>10. ForegroundAnswers'
    <3>1. notice' = notice /\ promo' = promo /\ over' = over /\ mixed' = mixed
      BY <1>1, <2>1
    <3>2. \A d \in Tasks : d # c => task'[d] = task[d]
      BY <2>2
    <3> QED
      BY <1>3, <2>4, <3>1, <3>2 DEF DeliveryParts, ForegroundAnswers
  <2> QED
    BY <2>7, <2>8, <2>9, <2>10 DEF DeliveryParts
<1> QED
  BY <1>4, <1>5

LEMMA ForkKeepsDelivery ==
  ASSUME JobTypeOK, CountParts, DeliveryParts, NEW c \in Tasks, ForkMember(c)
  PROVE  DeliveryParts'
<1> DEFINE point == IF ~(task[c].seq = 0) THEN "done" ELSE IF task[c].background THEN "notify" ELSE "race"
<1>1. task[c].at = "forking" /\ UNCHANGED <<job, over, info, promo, notice, mixed>> /\ TaskGoes(c, point)
  BY DEF ForkMember, TaskAt
<1>2. /\ point \in TaskPoints /\ point \in {"done", "notify", "race"}
      /\ point \in {"notify", "race"} => task[c].seq = 0
      /\ point = "notify" => task[c].background
      /\ point = "race" => ~task[c].background
  BY DEF TaskPoints
<1> HIDE DEF point
<1>3. /\ \A d \in Tasks : /\ task'[d].started = task[d].started
                          /\ task'[d].background = task[d].background
                          /\ d # c => task'[d] = task[d]
      /\ task'[c].at = point /\ task'[c].gen = task[c].gen
  BY <1>1, <1>2, TaskOnlyMoves
<1>4. task[c].seq = 0 => task[c].started # 0
  <2>1. task[c].seq = 0 => task[c].started = task[c].gen /\ task[c].gen \in Gens
    BY <1>1 DEF CountParts, PlaceReserved
  <2> QED
    BY <2>1, TasksAreCounted DEF Gens
<1>5. EndedOnes' /\ PromotionMarks'
  BY <1>1 DEF DeliveryParts, EndedOnes, PromotionMarks, JobRuns
<1>6. OwnGeneration'
  BY <1>1, <1>2, <1>3, <1>4 DEF DeliveryParts, OwnGeneration
<1>7. ForegroundAnswers'
  BY <1>1, <1>2, <1>3 DEF DeliveryParts, ForegroundAnswers
<1> QED
  BY <1>5, <1>6, <1>7 DEF DeliveryParts

\* Who looks the job up in the foreground is answered when it has ended and nobody has promoted it.
LEMMA RaceKeepsDelivery ==
  ASSUME JobTypeOK, CountParts, DeliveryParts, NEW c \in Tasks, RaceFor(c)
  PROVE  DeliveryParts'
<1> DEFINE point == IF JobRuns /\ ~job.background THEN "racing" ELSE IF job.background THEN "background" ELSE "answered"
<1>1. task[c].at = "race" /\ task' = [task EXCEPT ![c].gen = job.gen, ![c].at = point]
      /\ UNCHANGED <<job, member, over, info, promo, notice>> /\ mixed' = (mixed \/ job.gen # task[c].gen)
  BY DEF RaceFor, TaskAt, LooksUp, JobAlone
<1>2. /\ point \in TaskPoints /\ point \in {"racing", "background", "answered"}
      /\ point = "answered" => ~job.background /\ ~JobRuns
  BY DEF TaskPoints
<1> HIDE DEF point
<1>3. task \in [Tasks -> TaskRecords] /\ job.gen \in Gens \union {NoGen}
  BY DEF JobTypeOK, TaskRecords, TaskPoints
<1>4. TaskMoved(c, point, job.gen)
  <2>1. [[task[c] EXCEPT !.gen = job.gen] EXCEPT !.at = point] = [[task[c] EXCEPT !.at = point] EXCEPT !.gen = job.gen]
    BY <1>3 DEF TaskRecords
  <2> QED
    BY <1>1, <1>3, <2>1 DEF TaskMoved
<1>5. /\ \A d \in Tasks : /\ task'[d].started = task[d].started
                          /\ task'[d].background = task[d].background
                          /\ d # c => task'[d] = task[d]
      /\ task'[c].at = point /\ task'[c].gen = job.gen
  BY <1>2, <1>3, <1>4, MovedTask
<1>6. EndedOnes' /\ PromotionMarks'
  BY <1>1 DEF DeliveryParts, EndedOnes, PromotionMarks, JobRuns
<1>7. CASE mixed'
  BY <1>1, <1>2, <1>5, <1>6, <1>7 DEF DeliveryParts, OwnGeneration, ForegroundAnswers
<1>8. CASE ~mixed'
  <2>1. ~mixed /\ job.gen = task[c].gen
    BY <1>1, <1>8
  <2>2. task[c].started # 0 /\ task[c].gen = task[c].started
    BY <1>1, <2>1 DEF DeliveryParts, OwnGeneration
  <2>3. OwnGeneration'
    BY <1>1, <1>5, <2>1, <2>2 DEF DeliveryParts, OwnGeneration
  <2>4. job.gen \in Gens
    BY <1>3, <2>1, <2>2
  <2>5. point = "answered" => promo[job.gen] = "no" /\ over[job.gen] # "open"
    <3>1. point = "answered" => over[job.gen] # "open"
      <4>1. ~(job.gen > job.gen)
        BY <2>4, TasksAreCounted DEF Gens
      <4> QED
        BY <1>2, <2>4, <4>1 DEF DeliveryParts, EndedOnes
    <3>2. point = "answered" => promo[job.gen] = "no"
      BY <1>2, <2>4 DEF DeliveryParts, PromotionMarks
    <3> QED
      BY <3>1, <3>2
  <2>6. ForegroundAnswers'
    <3>1. notice' = notice /\ promo' = promo /\ over' = over
      BY <1>1
    <3>2. ~task[c].background /\ (notice[c].at # "none" /\ ~task[c].background => promo[task[c].started] # "no")
      BY <1>1, <2>1 DEF DeliveryParts, ForegroundAnswers
    <3>3. ~task'[c].background /\ task'[c].at # "notify" /\ task'[c].started = task[c].started
      BY <1>2, <1>5, <3>2
    <3> QED
      BY <1>5, <2>1, <2>5, <3>1, <3>2, <3>3 DEF DeliveryParts, ForegroundAnswers
  <2> QED
    BY <1>6, <2>3, <2>6 DEF DeliveryParts
<1> QED
  BY <1>7, <1>8

LEMMA TellingKeepsDelivery ==
  ASSUME JobTypeOK, CountParts, DeliveryParts, NEW c \in Tasks, GetsResult(c) \/ NotifyLater(c) \/ BringResult(c)
  PROVE  DeliveryParts'
<1>0. \A g \in Gens : g \in Nat /\ g # 0
  BY TasksAreCounted DEF Gens
<1>1. CASE GetsResult(c)
  <2>1. task[c].at = "racing" /\ UNCHANGED <<job, member, over, info, promo, notice, mixed>>
    BY <1>1 DEF GetsResult, TaskAt, JobAlone
  <2>2. PICK point \in {"background", "answered"} :
          TaskGoes(c, point) /\ (point = "answered" => over[task[c].gen] = "told" /\ ~info[task[c].gen].background)
    BY <1>1 DEF GetsResult, EndTold
  <2>3. point \in TaskPoints
    BY DEF TaskPoints
  <2>4. /\ \A d \in Tasks : /\ task'[d].started = task[d].started
                            /\ task'[d].background = task[d].background
                            /\ d # c => task'[d] = task[d]
        /\ task'[c].at = point /\ task'[c].gen = task[c].gen
    BY <2>2, <2>3, TaskOnlyMoves
  <2>5. EndedOnes' /\ PromotionMarks'
    BY <2>1 DEF DeliveryParts, EndedOnes, PromotionMarks, JobRuns
  <2>6. OwnGeneration'
    BY <2>1, <2>4 DEF DeliveryParts, OwnGeneration
  <2>7. ~mixed /\ point = "answered" => promo[task[c].gen] = "no" /\ over[task[c].gen] # "open"
    <3>1. ~mixed => task[c].gen # 0
      BY <2>1 DEF DeliveryParts, OwnGeneration
    <3>2. task[c].gen \in Gens \union {NoGen}
      BY DEF JobTypeOK
    <3> QED
      BY <2>2, <3>1, <3>2 DEF DeliveryParts, PromotionMarks
  <2>8. ForegroundAnswers'
    BY <2>1, <2>2, <2>4, <2>7 DEF DeliveryParts, ForegroundAnswers
  <2> QED
    BY <2>5, <2>6, <2>8 DEF DeliveryParts
<1>2. CASE NotifyLater(c)
  <2>1. task[c].at = "notify" /\ NotifyFor(c) /\ TaskGoes(c, "background") /\ UNCHANGED <<job, member, over, info, promo>>
    BY <1>2 DEF NotifyLater, TaskAt, JobAlone
  <2>2. "background" \in TaskPoints
    BY DEF TaskPoints
  <2>3. /\ \A d \in Tasks : /\ task'[d].started = task[d].started
                            /\ task'[d].background = task[d].background
                            /\ d # c => task'[d] = task[d]
        /\ task'[c].at = "background" /\ task'[c].gen = task[c].gen
    BY <2>1, <2>2, TaskOnlyMoves
  <2>4. /\ \A d \in Tasks : d # c => notice'[d] = notice[d]
        /\ notice'[c].gen = job.gen /\ mixed' = (mixed \/ job.gen # task[c].gen)
    BY <2>1, NotifyIsTyped
  <2>5. EndedOnes' /\ PromotionMarks'
    BY <2>1 DEF DeliveryParts, EndedOnes, PromotionMarks, JobRuns
  <2>6. OwnGeneration'
    BY <2>1, <2>3, <2>4 DEF DeliveryParts, OwnGeneration
  <2>7. task[c].background
    BY <2>1 DEF DeliveryParts, ForegroundAnswers
  <2>8. ForegroundAnswers'
    <3>1. promo' = promo /\ over' = over /\ (mixed => mixed')
      BY <2>1, <2>4
    <3>2. task'[c].background /\ task'[c].at = "background"
      BY <2>3, <2>7
    <3> QED
      BY <2>3, <2>4, <3>1, <3>2 DEF DeliveryParts, ForegroundAnswers
  <2> QED
    BY <2>5, <2>6, <2>8 DEF DeliveryParts
<1>3. CASE BringResult(c)
  <2>1. /\ notice[c].at = "waiting" /\ UNCHANGED <<job, member, over, info, promo, task, mixed>>
        /\ notice' = [notice EXCEPT ![c].at = Injects(info[notice[c].gen].status)]
    BY <1>3 DEF BringResult, JobAlone
  <2>2. notice \in [Tasks -> NoticeRecords]
    BY DEF JobTypeOK, NoticeRecords
  <2>3. notice'[c].gen = notice[c].gen /\ \A d \in Tasks : d # c => notice'[d] = notice[d]
    BY <2>1, <2>2 DEF NoticeRecords
  <2>4. EndedOnes' /\ PromotionMarks'
    BY <2>1 DEF DeliveryParts, EndedOnes, PromotionMarks, JobRuns
  <2>5. OwnGeneration'
    BY <2>1, <2>3 DEF DeliveryParts, OwnGeneration
  <2>6. ForegroundAnswers'
    BY <2>1, <2>3 DEF DeliveryParts, ForegroundAnswers
  <2> QED
    BY <2>4, <2>5, <2>6 DEF DeliveryParts
<1> QED
  BY <1>1, <1>2, <1>3

\* A promotion meets a generation that runs, whose starter is not answered then, nor ever after.
LEMMA PromotionKeepsDelivery ==
  ASSUME JobTypeOK, CountParts, DeliveryParts, Promote \/ \E g \in Gens : TellPromoted(g) \/ OnPromote(g) \/ TellEnd(g)
  PROVE  DeliveryParts'
<1>0. /\ job \in JobRecords /\ promo \in [Gens -> {"no", "marked", "told", "done"}]
      /\ over \in [Gens -> {"open", "settled", "told"}]
      /\ \A g \in Gens : g \in Nat /\ g # 0
  BY TasksAreCounted DEF JobTypeOK, JobRecords, Gens
<1>00. \A d \in Tasks : task[d].gen \in Gens \union {NoGen} /\ task[d].started \in Gens \union {NoGen}
  BY DEF JobTypeOK
<1>1. CASE Promote
  <2>1. JobRuns /\ job' = [job EXCEPT !.background = TRUE] /\ promo' = [promo EXCEPT ![job.gen] = "marked"]
        /\ UNCHANGED <<member, over, info, task, notice, mixed>>
    BY <1>1 DEF Promote, Marked
  <2>2. job'.gen = job.gen /\ job'.status = job.status /\ job'.background = TRUE
    BY <1>0, <2>1 DEF JobRecords
  <2>3. job.gen \in Gens
    BY <1>0, <2>1 DEF CountParts, RunningWell, JobRecords
  <2>4. promo'[job.gen] = "marked" /\ \A g \in Gens : g # job.gen => promo'[g] = promo[g]
    BY <1>0, <2>1, <2>3
  <2>5. over[job.gen] = "open"
    BY <2>1, <2>3 DEF DeliveryParts, EndedOnes
  <2>6. EndedOnes'
    BY <2>1, <2>2 DEF DeliveryParts, EndedOnes, JobRuns
  <2>7. PromotionMarks'
    BY <1>0, <2>1, <2>2, <2>3, <2>4, <2>5 DEF DeliveryParts, PromotionMarks
  <2>8. OwnGeneration'
    BY <2>1 DEF DeliveryParts, OwnGeneration
  <2>9. ForegroundAnswers'
    <3> SUFFICES ASSUME ~mixed, NEW d \in Tasks
                 PROVE  /\ notice[d].at # "none" /\ ~task[d].background => promo'[task[d].started] # "no"
                        /\ task[d].at = "answered" => promo'[task[d].gen] = "no" /\ over[task[d].gen] # "open"
      BY <2>1 DEF DeliveryParts, ForegroundAnswers
    <3>1. notice[d].at # "none" => task[d].started \in Gens
      BY <1>00 DEF DeliveryParts, OwnGeneration
    <3>2. task[d].at = "answered" => task[d].gen \in Gens
      BY <1>00 DEF DeliveryParts, OwnGeneration
    <3> QED
      BY <2>4, <2>5, <3>1, <3>2 DEF DeliveryParts, ForegroundAnswers
  <2> QED
    BY <2>6, <2>7, <2>8, <2>9 DEF DeliveryParts
<1>2. ASSUME NEW g \in Gens, TellPromoted(g)
      PROVE  DeliveryParts'
  <2>1. promo[g] = "marked" /\ promo' = [promo EXCEPT ![g] = "told"] /\ UNCHANGED <<job, member, over, info, task, notice, mixed>>
    BY <1>2 DEF TellPromoted
  <2>2. \A h \in Gens : promo'[h] = "no" <=> promo[h] = "no"
    BY <1>0, <2>1
  <2>3. EndedOnes' /\ PromotionMarks'
    BY <2>1, <2>2 DEF DeliveryParts, EndedOnes, PromotionMarks, JobRuns
  <2>4. OwnGeneration'
    BY <2>1 DEF DeliveryParts, OwnGeneration
  <2>5. ForegroundAnswers'
    <3> SUFFICES ASSUME ~mixed, NEW d \in Tasks
                 PROVE  /\ notice[d].at # "none" /\ ~task[d].background => promo'[task[d].started] # "no"
                        /\ task[d].at = "answered" => promo'[task[d].gen] = "no" /\ over[task[d].gen] # "open"
      BY <2>1 DEF DeliveryParts, ForegroundAnswers
    <3>1. (notice[d].at # "none" => task[d].started \in Gens) /\ (task[d].at = "answered" => task[d].gen \in Gens)
      BY <1>00 DEF DeliveryParts, OwnGeneration
    <3> QED
      BY <2>2, <3>1 DEF DeliveryParts, ForegroundAnswers
  <2> QED
    BY <2>3, <2>4, <2>5 DEF DeliveryParts
<1>3. ASSUME NEW g \in Gens, OnPromote(g)
      PROVE  DeliveryParts'
  <2>1. PICK c \in Tasks : task[c].started = g /\ NotifyFor(c)
    BY <1>3 DEF OnPromote
  <2>2. promo[g] = "told" /\ promo' = [promo EXCEPT ![g] = "done"] /\ UNCHANGED <<job, member, over, info, task>>
    BY <1>3 DEF OnPromote
  <2>3. /\ \A d \in Tasks : d # c => notice'[d] = notice[d]
        /\ notice'[c].gen = job.gen /\ mixed' = (mixed \/ job.gen # task[c].gen)
    BY <2>1, NotifyIsTyped
  <2>4. \A h \in Gens : promo'[h] = "no" <=> promo[h] = "no"
    BY <1>0, <2>2
  <2>5. EndedOnes' /\ PromotionMarks'
    BY <2>2, <2>4 DEF DeliveryParts, EndedOnes, PromotionMarks, JobRuns
  <2>6. OwnGeneration'
    <3> SUFFICES ASSUME ~mixed'
                 PROVE  \A d \in Tasks :
                   /\ task[d].at \in {"notify", "race", "racing", "background", "answered", "aborted"} => task[d].started # NoGen
                   /\ task[d].started # NoGen => task[d].gen = task[d].started
                   /\ notice'[d].at # "none" => notice'[d].gen = task[d].started /\ task[d].started # NoGen
      BY <2>2 DEF OwnGeneration
    <3>1. ~mixed /\ job.gen = task[c].gen
      BY <2>3
    <3>2. task[c].gen = g /\ g # 0
      BY <1>0, <2>1, <3>1 DEF DeliveryParts, OwnGeneration
    <3> QED
      BY <2>1, <2>3, <3>1, <3>2 DEF DeliveryParts, OwnGeneration
  <2>7. ForegroundAnswers'
    <3> SUFFICES ASSUME ~mixed', NEW d \in Tasks
                 PROVE  /\ notice'[d].at # "none" /\ ~task[d].background => promo'[task[d].started] # "no"
                        /\ task[d].at = "answered" => promo'[task[d].gen] = "no" /\ over[task[d].gen] # "open"
      BY <2>2 DEF DeliveryParts, ForegroundAnswers
    <3>0. ~mixed
      BY <2>3
    <3>1. (notice[d].at # "none" => task[d].started \in Gens) /\ (task[d].at = "answered" => task[d].gen \in Gens)
      BY <1>00, <3>0 DEF DeliveryParts, OwnGeneration
    <3>2. promo'[g] # "no"
      BY <2>2, <2>4
    <3>3. task[d].at = "answered" => promo'[task[d].gen] = "no" /\ over[task[d].gen] # "open"
      BY <2>4, <3>0, <3>1 DEF DeliveryParts, ForegroundAnswers
    <3>4. notice'[d].at # "none" /\ ~task[d].background => promo'[task[d].started] # "no"
      <4>1. CASE d = c
        BY <2>1, <3>2, <4>1
      <4>2. CASE d # c
        BY <2>3, <2>4, <3>0, <3>1, <4>2 DEF DeliveryParts, ForegroundAnswers
      <4> QED
        BY <4>1, <4>2
    <3> QED
      BY <3>3, <3>4
  <2> QED
    BY <2>5, <2>6, <2>7 DEF DeliveryParts
<1>4. ASSUME NEW g \in Gens, TellEnd(g)
      PROVE  DeliveryParts'
  <2>1. over[g] = "settled" /\ over' = [over EXCEPT ![g] = "told"] /\ UNCHANGED <<job, member, info, promo, task, notice, mixed>>
    BY <1>4 DEF TellEnd
  <2>2. \A h \in Gens : over'[h] = "open" <=> over[h] = "open"
    BY <1>0, <2>1
  <2>3. EndedOnes' /\ PromotionMarks'
    BY <2>1, <2>2 DEF DeliveryParts, EndedOnes, PromotionMarks, JobRuns
  <2>4. OwnGeneration'
    BY <2>1 DEF DeliveryParts, OwnGeneration
  <2>5. ForegroundAnswers'
    <3> SUFFICES ASSUME ~mixed, NEW d \in Tasks, task[d].at = "answered"
                 PROVE  over'[task[d].gen] # "open"
      BY <2>1 DEF DeliveryParts, ForegroundAnswers
    <3>1. task[d].gen \in Gens
      BY <1>00 DEF DeliveryParts, OwnGeneration
    <3> QED
      BY <2>2, <3>1 DEF DeliveryParts, ForegroundAnswers
  <2> QED
    BY <2>3, <2>4, <2>5 DEF DeliveryParts
<1> QED
  BY <1>1, <1>2, <1>3, <1>4

\* The end of a job tells of it as it was: settled by its last run, or cancelled.
LEMMA EndKeepsDelivery ==
  ASSUME JobTypeOK, CountParts, DeliveryParts, JobRuns, UNCHANGED <<promo, task, notice, mixed>>,
         NEW status \in {"completed", "error", "cancelled"}, NEW output, EndJob(status, output)
  PROVE  DeliveryParts'
<1>1. job.gen \in Gens
  BY DEF CountParts, RunningWell, JobTypeOK
<1>2. EndedOnes' /\ PromotionMarks' /\ \A g \in Gens : over[g] # "open" => over'[g] # "open"
  BY <1>1, EndKeepsMarks DEF DeliveryParts
<1>3. OwnGeneration'
  BY DEF DeliveryParts, OwnGeneration
<1>4. ForegroundAnswers'
  <2> SUFFICES ASSUME ~mixed, NEW d \in Tasks, task[d].at = "answered"
               PROVE  over'[task[d].gen] # "open"
    BY DEF DeliveryParts, ForegroundAnswers
  <2>1. task[d].gen \in Gens
    BY DEF DeliveryParts, OwnGeneration, JobTypeOK
  <2> QED
    BY <1>2, <2>1 DEF DeliveryParts, ForegroundAnswers
<1> QED
  BY <1>2, <1>3, <1>4 DEF DeliveryParts

LEMMA SettleKeepsDelivery ==
  ASSUME JobTypeOK, CountParts, DeliveryParts, NEW g \in Gens, NEW k \in Members, SettleMember(g, k)
  PROVE  DeliveryParts'
<1> DEFINE exit == member[g][k].exit
<1> DEFINE output == IF exit = "success" /\ Newer(k) THEN k + 1 ELSE job.output
<1>1. member[g][k].at = "ended" /\ UNCHANGED <<promo, task, notice, mixed>>
      /\ IF SameToken(g) /\ JobRuns
           THEN IF exit = "success" /\ job.pending > 1
                  THEN job' = [job EXCEPT !.pending = @ - 1, !.output = output] /\ UNCHANGED <<info, over>>
                  ELSE EndJob(StatusOf(exit), output)
           ELSE UNCHANGED <<job, info, over>>
  BY DEF SettleMember
<1>2. exit \in {"success", "failure", "interrupt"}
  BY <1>1 DEF CountParts, EndsHaveExit, JobTypeOK
<1> HIDE DEF exit, output
<1>3. StatusOf(exit) \in {"completed", "error", "cancelled"}
  BY <1>2 DEF StatusOf
<1>4. job \in JobRecords
  BY DEF JobTypeOK, JobRecords
<1>5. CASE ~(SameToken(g) /\ JobRuns)
  BY <1>1, <1>5, DeliveryStays
<1>6. CASE SameToken(g) /\ JobRuns /\ exit = "success" /\ job.pending > 1
  <2>1. job' = [job EXCEPT !.pending = @ - 1, !.output = output] /\ UNCHANGED <<info, over>>
    BY <1>1, <1>6
  <2>2. job'.gen = job.gen /\ job'.status = job.status /\ job'.background = job.background
    BY <1>4, <2>1 DEF JobRecords
  <2> QED
    BY <1>1, <2>1, <2>2, DeliveryStays
<1>7. CASE SameToken(g) /\ JobRuns /\ ~(exit = "success" /\ job.pending > 1)
  <2>1. EndJob(StatusOf(exit), output) /\ JobRuns
    BY <1>1, <1>7
  <2> QED
    BY <1>1, <1>3, <2>1, EndKeepsDelivery
<1> QED
  BY <1>5, <1>6, <1>7

LEMMA AbortKeepsDelivery ==
  ASSUME JobTypeOK, CountParts, DeliveryParts, NEW c \in Tasks, AbortTask(c)
  PROVE  DeliveryParts'
<1>1. task[c].at = "racing" /\ TaskGoes(c, "aborted") /\ UNCHANGED <<member, promo, notice, mixed>>
  BY DEF AbortTask, TaskAt
<1>2. "aborted" \in TaskPoints
  BY DEF TaskPoints
<1>3. /\ \A d \in Tasks : /\ task'[d].started = task[d].started
                          /\ task'[d].background = task[d].background
                          /\ d # c => task'[d] = task[d]
      /\ task'[c].at = "aborted" /\ task'[c].gen = task[c].gen
  BY <1>1, <1>2, TaskOnlyMoves
<1>4. OwnGeneration'
  BY <1>1, <1>3 DEF DeliveryParts, OwnGeneration
<1>5. EndedOnes' /\ PromotionMarks' /\ \A g \in Gens : over[g] # "open" => over'[g] # "open"
  <2>1. CASE JobRuns
    <3>1. job.gen \in Gens
      BY <2>1 DEF CountParts, RunningWell, JobTypeOK
    <3>2. EndJob("cancelled", job.output)
      BY <2>1 DEF AbortTask
    <3> QED
      BY <1>1, <2>1, <3>1, <3>2, EndKeepsMarks DEF DeliveryParts
  <2>2. CASE ~JobRuns
    <3>1. UNCHANGED <<job, info, over>>
      BY <2>2 DEF AbortTask
    <3> QED
      BY <1>1, <3>1 DEF DeliveryParts, EndedOnes, PromotionMarks, JobRuns
  <2> QED
    BY <2>1, <2>2
<1>6. ForegroundAnswers'
  <2>1. \A d \in Tasks : ~mixed /\ task'[d].at = "answered" => task'[d] = task[d] /\ task[d].gen \in Gens
    BY <1>3 DEF DeliveryParts, OwnGeneration, JobTypeOK
  <2> QED
    BY <1>1, <1>3, <1>5, <2>1 DEF DeliveryParts, ForegroundAnswers
<1> QED
  BY <1>4, <1>5, <1>6 DEF DeliveryParts

-----------------------------------------------------------------------------
(***************************************************************************)
(* The invariant holds, and with it at most one delivery of a generation.  *)
(***************************************************************************)
LEMMA JobInvariantHolds == JobSpec => []JobInvariant
<1>1. JobInit => JobInvariant
  <2> SUFFICES ASSUME JobInit PROVE DeliveryParts
    BY CountsAtFirst DEF JobInvariant
  <2>1. EndedOnes
    BY TasksAreCounted DEF JobInit, EndedOnes, JobRuns, Gens
  <2>2. PromotionMarks /\ OwnGeneration /\ ForegroundAnswers
    BY DEF JobInit, PromotionMarks, OwnGeneration, ForegroundAnswers
  <2> QED
    BY <2>1, <2>2 DEF DeliveryParts
<1>2. JobInvariant /\ [JobNext]_jobVars => JobInvariant'
  <2> SUFFICES ASSUME JobTypeOK, CountParts, DeliveryParts, [JobNext]_jobVars
               PROVE  DeliveryParts'
    BY CountsStep DEF JobInvariant, CountInvariant
  <2>1. CASE UNCHANGED jobVars
    BY <2>1, DeliveryStays DEF jobVars
  <2>2. ASSUME NEW c \in Tasks,
               ExtendJob(c) \/ StartJob(c) \/ ForkMember(c) \/ RaceFor(c) \/ GetsResult(c)
               \/ NotifyLater(c) \/ BringResult(c) \/ AbortTask(c)
        PROVE  DeliveryParts'
    BY <2>2, ExtendKeepsDelivery, StartKeepsDelivery, ForkKeepsDelivery, RaceKeepsDelivery, TellingKeepsDelivery,
       AbortKeepsDelivery
  <2>3. CASE Promote \/ \E g \in Gens : TellPromoted(g) \/ OnPromote(g) \/ TellEnd(g)
    BY <2>3, PromotionKeepsDelivery
  <2>4. CASE CancelJob
    BY <2>4, EndKeepsDelivery DEF CancelJob
  <2>5. ASSUME NEW g \in Gens, NEW k \in Members,
               MemberBegins(g, k) \/ MemberEnds(g, k) \/ SettleMember(g, k) \/ StopMember(g, k)
        PROVE  DeliveryParts'
    <3>1. CASE SettleMember(g, k)
      BY <3>1, SettleKeepsDelivery
    <3>2. CASE MemberBegins(g, k) \/ MemberEnds(g, k) \/ StopMember(g, k)
      <4>1. UNCHANGED <<job, over, info, promo, task, notice, mixed>>
        BY <3>2 DEF MemberBegins, MemberEnds, StopMember
      <4> QED
        BY <4>1, DeliveryStays
    <3> QED
      BY <2>5, <3>1, <3>2
  <2> QED
    BY <2>1, <2>2, <2>3, <2>4, <2>5 DEF JobNext
<1> QED
  BY <1>1, <1>2, PTL DEF JobSpec

(***************************************************************************)
(* The result of a generation reaches the parent once: DeliveredOnce.      *)
(***************************************************************************)
THEOREM ResultsArriveOnce == JobSpec => []DeliveredOnce
<1>1. JobInvariant => DeliveredOnce
  <2> SUFFICES ASSUME JobTypeOK, CountParts, DeliveryParts, ~mixed, NEW g \in Gens
               PROVE  Cardinality(Deliveries(g)) <= 1
    BY DEF DeliveredOnce, JobInvariant, CountInvariant
  <2>1. g # 0
    BY TasksAreCounted DEF Gens
  <2> DEFINE answered == {c \in Tasks : task[c].at = "answered" /\ task[c].gen = g}
             injected == {c \in Tasks : notice[c] = [at |-> "injected", gen |-> g]}
  <2>2. Deliveries(g) = answered \union {[brought |-> c] : c \in injected}
    BY DEF Deliveries, TaskAt
  <2>3. \A c \in answered : task[c].started = g /\ ~task[c].background /\ promo[g] = "no"
    BY <2>1 DEF DeliveryParts, OwnGeneration, ForegroundAnswers
  <2>4. \A c \in injected : task[c].started = g /\ (~task[c].background => promo[g] # "no")
    BY <2>1 DEF DeliveryParts, OwnGeneration, ForegroundAnswers
  <2>5. \A c, d \in Tasks : task[c].started = g /\ task[d].started = g => c = d
    BY <2>1 DEF CountParts, StartedOnce
  <2> HIDE DEF answered, injected
  <2>6. answered \subseteq Tasks /\ injected \subseteq Tasks
    BY DEF answered, injected
  <2>7. \A x, y \in Deliveries(g) : x = y
    <3>1. \A c \in answered, d \in injected : FALSE
      BY <2>3, <2>4, <2>5, <2>6
    <3>2. \A c, d \in answered : c = d
      BY <2>3, <2>5, <2>6
    <3>3. \A c, d \in injected : c = d
      BY <2>4, <2>5, <2>6
    <3> QED
      BY <2>2, <3>1, <3>2, <3>3
  <2>8. CASE Deliveries(g) = {}
    BY <2>8, FS_EmptySet
  <2>9. CASE Deliveries(g) # {}
    <3>1. PICK x : Deliveries(g) = {x}
      BY <2>7, <2>9
    <3>2. Cardinality({x}) = 1
      BY FS_Singleton
    <3> QED
      BY <3>1, <3>2
  <2> QED
    BY <2>8, <2>9
<1> QED
  BY <1>1, JobInvariantHolds, PTL
=============================================================================
