------------------------- MODULE SessionInputProofs -------------------------
(***************************************************************************)
(* What the inbox guarantees, for any number of sessions, inputs, clients  *)
(* and concurrent drains; and what the run loop guarantees on top of it.   *)
(***************************************************************************)
EXTENDS SessionExecution, TLAPS

\* Event numbers in the rows are those of events that have happened.
NumbersKnown ==
  \A id \in Ids : Admitted(id) =>
    /\ input[id].admitted <= seq[input[id].session] /\ input[id].admitted > 0
    /\ input[id].promoted <= seq[input[id].session]

\* A promotion in progress still has every pending input that it must not overtake.
Ahead(i, j) ==
  input[i].session = input[j].session /\ input[i].delivery = input[j].delivery
    /\ input[i].admitted < input[j].admitted

Knows(k) ==
  /\ \A j \in k.rows : Admitted(j) /\ input[j].session = k.session
  /\ k.at = "opening" => \A j \in k.rows : \A i \in Ids : Pending(i) => ~Ahead(i, j)
  /\ k.at = "steering" =>
       /\ \A j \in k.rows : input[j].delivery = "steer" /\ input[j].admitted <= k.cutoff
       /\ \A i \in PendingOf(k.session, "steer") : input[i].admitted <= k.cutoff => i \in k.rows

Remembers(k) ==
  k.at # "idle" => k.cutoff <= seq[k.session] /\ (k.session \notin deleted => Knows(k))

PromotersRemember == \A r \in Runners : Remembers(promoter[r])

\* Nothing in the store is of a session that is deleted.
LiveRows ==
  \A id \in Ids :
    /\ Admitted(id) => input[id].session \notin deleted
    /\ Visible(id) => message[id].session \notin deleted

InboxInvariant ==
  /\ TypeOK
  /\ NumbersKnown
  /\ LiveRows
  /\ HistoryMatchesInbox
  /\ PromotedInOrder
  /\ PromotersRemember
  /\ ReceiptsHold

(***************************************************************************)
(* What every step does to the store: rows stay but for their promotion    *)
(* and the end of their session, and a row that is added takes a free id   *)
(* and the next number.                                                    *)
(***************************************************************************)
StoreGrows ==
  /\ deleted \subseteq deleted'
  /\ \A id \in Ids : LifecycleForward(id)
  /\ \A s \in Sessions : seq'[s] >= seq[s]
  /\ \A id \in Ids : ~Admitted(id) /\ Admitted(id)' =>
       ~Visible(id) /\ input'[id].admitted > seq[input'[id].session]

-----------------------------------------------------------------------------
\* What a promotion remembers stays true while others add rows and promote.
LEMMA RemembersStable ==
  ASSUME TypeOK, TypeOK', NumbersKnown, StoreGrows, NEW k \in PromoterRecord \union {Quiet}, Remembers(k)
  PROVE  Remembers(k)'
<1> USE NoRowAssumption
<1>1. CASE k.at = "idle"
  BY <1>1 DEF Remembers
<1>2. CASE k.at # "idle"
  <2>1. k \in PromoterRecord
    BY <1>2 DEF Quiet
  <2>2. k.session \in Sessions /\ k.cutoff \in Nat /\ k.rows \subseteq Ids
    BY <2>1 DEF PromoterRecord
  <2>3. seq[k.session] \in Nat /\ seq'[k.session] \in Nat /\ seq[k.session] <= seq'[k.session]
    BY <2>2 DEF TypeOK, StoreGrows
  <2>4. k.cutoff <= seq[k.session] /\ k.cutoff <= seq'[k.session]
    BY <1>2, <2>2, <2>3 DEF Remembers
  <2>5. ASSUME k.session \notin deleted' PROVE Knows(k)'
    <3>1. k.session \notin deleted
      BY <2>5 DEF StoreGrows
    <3>2. Knows(k)
      BY <1>2, <3>1 DEF Remembers
    \* A row that is left says the same; it is pending only if it was.
    <3>3. \A i \in Ids : Admitted(i) /\ (Admitted(i)' \/ input[i].session = k.session) =>
            /\ Admitted(i)' /\ input[i] \in InputRecord /\ input'[i] \in InputRecord
            /\ input'[i].session = input[i].session /\ input'[i].delivery = input[i].delivery
            /\ input'[i].admitted = input[i].admitted
            /\ Pending(i)' => Pending(i)
      <4> SUFFICES ASSUME NEW i \in Ids, Admitted(i), Admitted(i)' \/ input[i].session = k.session
                   PROVE  /\ Admitted(i)' /\ input[i] \in InputRecord /\ input'[i] \in InputRecord
                          /\ input'[i].session = input[i].session /\ input'[i].delivery = input[i].delivery
                          /\ input'[i].admitted = input[i].admitted
                          /\ Pending(i)' => Pending(i)
        OBVIOUS
      <4>1. Admitted(i)' /\ input'[i] = [input[i] EXCEPT !.promoted = input'[i].promoted]
            /\ (Pending(i) \/ input'[i] = input[i])
        BY <2>5 DEF StoreGrows, LifecycleForward, GoesWith
      <4>2. input[i] \in InputRecord /\ input'[i] \in InputRecord
        BY <4>1 DEF TypeOK, Admitted
      <4> QED
        BY <4>1, <4>2 DEF InputRecord, Pending
    \* A row that is new comes after everything the promotion has read.
    <3>4. \A i \in Ids : ~Admitted(i) /\ Admitted(i)' /\ input'[i].session = k.session =>
            input'[i].admitted \in Nat /\ input'[i].admitted > seq[k.session]
      <4> SUFFICES ASSUME NEW i \in Ids, ~Admitted(i), Admitted(i)', input'[i].session = k.session
                   PROVE  input'[i].admitted \in Nat /\ input'[i].admitted > seq[k.session]
        OBVIOUS
      <4>1. input'[i] \in InputRecord
        BY DEF TypeOK, Admitted
      <4> QED
        BY <4>1 DEF StoreGrows, InputRecord
    <3>5. \A j \in k.rows : /\ Admitted(j) /\ input[j].session = k.session
                            /\ input[j].admitted \in Nat /\ input[j].admitted <= seq[k.session]
      <4> SUFFICES ASSUME NEW j \in k.rows
                   PROVE  /\ Admitted(j) /\ input[j].session = k.session
                          /\ input[j].admitted \in Nat /\ input[j].admitted <= seq[k.session]
        OBVIOUS
      <4>1. Admitted(j) /\ input[j].session = k.session /\ j \in Ids
        BY <2>2, <3>2 DEF Knows
      <4> QED
        BY <3>3, <4>1 DEF NumbersKnown, InputRecord
    <3>6. \A j \in k.rows : Admitted(j)' /\ input'[j].session = k.session
      BY <2>2, <3>3, <3>5
    <3>7. ASSUME k.at = "opening", NEW j \in k.rows, NEW i \in Ids, Pending(i)'
          PROVE  ~Ahead(i, j)'
      <4>1. Admitted(i)'
        BY <3>7 DEF Pending
      <4>2. CASE Admitted(i)
        BY <2>2, <3>2, <3>3, <3>5, <3>7, <4>1, <4>2 DEF Knows, Ahead
      <4>3. CASE ~Admitted(i)
        BY <2>2, <2>3, <3>3, <3>4, <3>5, <4>1, <4>3 DEF Ahead
      <4> QED
        BY <4>2, <4>3
    <3>8. ASSUME k.at = "steering"
          PROVE  \A j \in k.rows : input'[j].delivery = "steer" /\ input'[j].admitted <= k.cutoff
      BY <2>2, <3>2, <3>3, <3>5, <3>8 DEF Knows
    <3>9. ASSUME k.at = "steering", NEW i \in PendingOf(k.session, "steer")', input'[i].admitted <= k.cutoff
          PROVE  i \in k.rows
      <4>1. i \in Ids /\ Pending(i)' /\ Admitted(i)' /\ input'[i].session = k.session /\ input'[i].delivery = "steer"
        BY <3>9 DEF PendingOf, Pending
      <4>2. Admitted(i)
        BY <2>2, <2>3, <2>4, <3>4, <3>9, <4>1
      <4>3. i \in PendingOf(k.session, "steer") /\ input[i].admitted <= k.cutoff
        BY <3>3, <3>9, <4>1, <4>2 DEF PendingOf
      <4> QED
        BY <3>2, <3>9, <4>3 DEF Knows
    <3> QED
      BY <3>6, <3>7, <3>8, <3>9 DEF Knows
  <2> QED
    BY <2>4, <2>5 DEF Remembers
<1> QED
  BY <1>1, <1>2

\* What was answered to a client stays true.
Holds(k) ==
  LET q == k.request IN
  /\ k.at = "receipt" /\ q.session \notin deleted =>
       Admitted(q.id) /\ Says(input[q.id], q) /\ input[q.id].admitted = k.admitted
  /\ k.at = "conflict" /\ k.holder \notin deleted =>
       IF Admitted(q.id) THEN input[q.id].session = k.holder /\ ~Says(input[q.id], q)
                         ELSE Visible(q.id) /\ message[q.id].session = k.holder

LEMMA HoldsStable ==
  ASSUME TypeOK, TypeOK', StoreGrows, NEW k \in ClientRecord \union {Quiet}, Holds(k)
  PROVE  Holds(k)'
<1> USE NoRowAssumption
<1>1. CASE k.at \notin {"receipt", "conflict"}
  BY <1>1 DEF Holds
<1>2. CASE k.at \in {"receipt", "conflict"}
  <2>1. k.request.id \in Ids
    BY <1>2 DEF ClientRecord, Request, Quiet
  <2> DEFINE id == k.request.id
             owner == IF k.at = "receipt" THEN k.request.session ELSE k.holder
  <2> HIDE DEF id
  <2>2. id \in Ids
    BY <2>1 DEF id
  <2>3. CASE owner \in deleted'
    BY <1>2, <2>3 DEF Holds
  <2>4. CASE Admitted(id) /\ owner \notin deleted'
    <3>1. owner \notin deleted
      BY <2>4 DEF StoreGrows
    <3>2. input[id].session = owner
      BY <1>2, <2>4, <3>1 DEF Holds, Says, id
    <3>3. Admitted(id)' /\ input'[id] = [input[id] EXCEPT !.promoted = input'[id].promoted]
      BY <2>2, <2>4, <3>2 DEF StoreGrows, LifecycleForward, GoesWith
    <3>4. input[id] \in InputRecord
      BY <2>2, <2>4 DEF TypeOK, Admitted
    <3>5. input'[id].session = input[id].session /\ input'[id].prompt = input[id].prompt
          /\ input'[id].delivery = input[id].delivery /\ input'[id].admitted = input[id].admitted
      BY <3>3, <3>4 DEF InputRecord
    <3> QED
      BY <1>2, <2>4, <3>1, <3>3, <3>5 DEF Holds, Says, id
  <2>5. CASE ~Admitted(id) /\ owner \notin deleted'
    <3>1. owner \notin deleted
      BY <2>5 DEF StoreGrows
    <3>2. k.at = "conflict" /\ Visible(id) /\ message[id].session = owner
      BY <1>2, <2>5, <3>1 DEF Holds, id
    <3>3. ~Admitted(id)'
      BY <2>2, <2>5, <3>2 DEF StoreGrows
    <3>4. Visible(id)' /\ message'[id] = message[id]
      BY <2>2, <2>5, <3>2 DEF StoreGrows, LifecycleForward, GoesWith, Visible
    <3> QED
      BY <3>2, <3>3, <3>4 DEF Holds, id
  <2> QED
    BY <2>3, <2>4, <2>5
<1> QED
  BY <1>1, <1>2

-----------------------------------------------------------------------------
(***************************************************************************)
(* The store: what holds of rows, messages and numbers by themselves.      *)
(***************************************************************************)
StoreTyped ==
  /\ seq \in [Sessions -> Nat]
  /\ input \in [Ids -> InputRecord \union {NoRow}]
  /\ message \in [Ids -> MessageRecord \union {NoRow}]
  /\ deleted \subseteq Sessions

StoreInvariant == StoreTyped /\ NumbersKnown /\ LiveRows /\ HistoryMatchesInbox /\ PromotedInOrder

LEMMA StoreOfInbox == InboxInvariant => StoreInvariant
BY DEF InboxInvariant, StoreInvariant, StoreTyped, TypeOK

LEMMA StoreSame ==
  ASSUME StoreInvariant, UNCHANGED <<seq, input, message, deleted>>
  PROVE  StoreInvariant' /\ StoreGrows
<1>1. StoreInvariant'
  BY DEF StoreInvariant, StoreTyped, NumbersKnown, LiveRows, HistoryMatchesInbox, PromotedInOrder, Admitted, Pending, Visible, IsMessageOf, Promotes
<1>2. \A id \in Ids : LifecycleForward(id)
  <2> SUFFICES ASSUME NEW id \in Ids PROVE LifecycleForward(id)
    OBVIOUS
  <2>1. Admitted(id) => input[id] \in InputRecord
    BY DEF StoreInvariant, StoreTyped, Admitted
  <2>2. Admitted(id) => input[id] = [input[id] EXCEPT !.promoted = input[id].promoted]
    BY <2>1 DEF InputRecord
  <2> QED
    BY <2>2 DEF LifecycleForward, Admitted, Visible
<1>3. \A s \in Sessions : seq'[s] >= seq[s]
  BY DEF StoreInvariant, StoreTyped
<1> QED
  BY <1>1, <1>2, <1>3 DEF StoreGrows, Admitted

\* An admission, or the shadow of a prompt that is visible at once.
LEMMA StoreAdmits ==
  ASSUME StoreInvariant, NEW id \in Ids, NEW row \in InputRecord, ~Admitted(id), ~Visible(id),
         row.session \notin deleted, deleted' = deleted,
         row.admitted = seq[row.session] + 1,
         seq' = [seq EXCEPT ![row.session] = @ + 1],
         input' = [input EXCEPT ![id] = row],
         \/ row.promoted = None /\ message' = message
         \/ /\ row.promoted = row.admitted
            /\ message' = [message EXCEPT ![id] = MessageRow("user", row.session, row.admitted, row.prompt)]
  PROVE  StoreInvariant' /\ StoreGrows
<1> USE NoRowAssumption
<1>1. /\ StoreTyped /\ row.session \in Sessions /\ row.admitted \in Nat /\ row.promoted \in Nat
      /\ row.prompt \in Prompts /\ seq[row.session] \in Nat
  BY DEF StoreInvariant, StoreTyped, InputRecord
<1>2. seq' \in [Sessions -> Nat] /\ seq'[row.session] = seq[row.session] + 1
      /\ \A s \in Sessions : seq[s] \in Nat /\ seq'[s] \in Nat /\ seq'[s] >= seq[s]
  BY <1>1 DEF StoreTyped
<1>3. input' \in [Ids -> InputRecord \union {NoRow}] /\ input'[id] = row
      /\ \A i \in Ids : i # id => input'[i] = input[i]
  BY <1>1 DEF StoreTyped
<1>4. message' \in [Ids -> MessageRecord \union {NoRow}]
      /\ \A i \in Ids : i # id => message'[i] = message[i]
  BY <1>1 DEF StoreTyped, MessageRow, MessageRecord
<1>5. StoreTyped'
  BY <1>1, <1>2, <1>3, <1>4 DEF StoreTyped
<1>6. Admitted(id)' /\ (\A i \in Ids : i # id => (Admitted(i)' <=> Admitted(i)) /\ (Pending(i)' <=> Pending(i)) /\ (Visible(i)' <=> Visible(i)))
  BY <1>3, <1>4 DEF Admitted, Pending, Visible
<1>7. \A i \in Ids : Admitted(i) => input[i] \in InputRecord
  BY <1>1 DEF StoreTyped, Admitted
<1>8. NumbersKnown'
  <2> SUFFICES ASSUME NEW i \in Ids, Admitted(i)'
               PROVE  /\ input'[i].admitted <= seq'[input'[i].session] /\ input'[i].admitted > 0
                      /\ input'[i].promoted <= seq'[input'[i].session]
    BY DEF NumbersKnown
  <2>1. CASE i = id
    BY <1>1, <1>2, <1>3, <2>1 DEF None
  <2>2. CASE i # id
    BY <1>2, <1>3, <1>6, <1>7, <2>2 DEF StoreInvariant, NumbersKnown, InputRecord
  <2> QED
    BY <2>1, <2>2
<1>9. HistoryMatchesInbox'
  <2> SUFFICES ASSUME NEW i \in Ids
               PROVE  (IF Admitted(i) /\ ~Pending(i) THEN Visible(i) /\ IsMessageOf(message[i], input[i])
                       ELSE Visible(i) => message[i].kind \in IF Admitted(i) THEN {"context"} ELSE OtherKinds)'
    BY DEF HistoryMatchesInbox
  <2>1. CASE i # id
    BY <1>3, <1>4, <1>6, <2>1 DEF StoreInvariant, HistoryMatchesInbox
  <2>2. CASE i = id /\ row.promoted = None /\ message' = message
    BY <1>3, <1>6, <2>2 DEF Pending, Visible
  <2>3. CASE i = id /\ row.promoted = row.admitted
             /\ message' = [message EXCEPT ![id] = MessageRow("user", row.session, row.admitted, row.prompt)]
    <3>1. message'[id] = [kind |-> "user", session |-> row.session, seq |-> row.admitted, prompt |-> row.prompt]
      BY <1>1, <2>3 DEF StoreTyped, MessageRow
    <3>2. message'[id] # NoRow
      BY <1>1, <3>1 DEF MessageRecord
    <3>3. ~Pending(id)'
      BY <1>1, <1>3, <2>3 DEF Pending, None
    <3> QED
      BY <1>3, <1>6, <2>3, <3>1, <3>2, <3>3 DEF Visible, IsMessageOf
  <2> QED
    BY <2>1, <2>2, <2>3
<1>10. PromotedInOrder'
  <2> SUFFICES ASSUME NEW i \in Ids, NEW j \in Ids, Admitted(i)', Promotes(j)',
                      input'[i].session = input'[j].session, input'[i].delivery = input'[j].delivery,
                      input'[i].admitted < input'[j].admitted
               PROVE  ~Pending(i)' /\ input'[i].promoted < input'[j].promoted
    BY DEF PromotedInOrder
  <2>1. j # id
    BY <1>1, <1>3 DEF Promotes, None
  <2>2. Admitted(j) /\ input'[j] = input[j] /\ Promotes(j)
    BY <1>3, <1>6, <2>1 DEF Promotes
  <2>3. i # id
    BY <1>1, <1>2, <1>3, <1>7, <2>2 DEF StoreInvariant, NumbersKnown, InputRecord
  <2> QED
    BY <1>3, <1>6, <2>2, <2>3 DEF StoreInvariant, PromotedInOrder
<1>11. StoreGrows
  <2>1. \A i \in Ids : LifecycleForward(i)
    <3> SUFFICES ASSUME NEW i \in Ids PROVE LifecycleForward(i)
      OBVIOUS
    <3>1. CASE i = id
      BY <3>1 DEF LifecycleForward
    <3>2. CASE i # id
      <4>1. Admitted(i) => input[i] = [input[i] EXCEPT !.promoted = input[i].promoted]
        BY <1>7 DEF InputRecord
      <4> QED
        BY <1>3, <1>4, <1>6, <3>2, <4>1 DEF LifecycleForward
    <3> QED
      BY <3>1, <3>2
  <2>2. \A i \in Ids : ~Admitted(i) /\ Admitted(i)' => i = id
    BY <1>6
  <2> QED
    BY <1>1, <1>2, <1>3, <2>1, <2>2 DEF StoreGrows
<1>12. LiveRows'
  <2> SUFFICES ASSUME NEW i \in Ids
               PROVE  /\ Admitted(i)' => input'[i].session \notin deleted'
                      /\ Visible(i)' => message'[i].session \notin deleted'
    BY DEF LiveRows
  <2>1. CASE i # id
    BY <1>3, <1>4, <1>6, <2>1 DEF StoreInvariant, LiveRows
  <2>2. CASE i = id
    <3>1. Visible(id)' => message'[id].session = row.session
      BY <1>1 DEF StoreTyped, MessageRow, Visible
    <3> QED
      BY <1>3, <2>2, <3>1
  <2> QED
    BY <2>1, <2>2
<1> QED
  BY <1>5, <1>8, <1>9, <1>10, <1>11, <1>12 DEF StoreInvariant

\* A message that is no prompt's takes an id that has none, and is not an admitted
\* input's unless the message escapes the guard.
LEMMA StoreOther ==
  ASSUME StoreInvariant, NEW s \in Sessions, NEW id \in Ids, NEW kind \in OtherKinds, OtherMessage(s, id, kind)
  PROVE  StoreInvariant' /\ StoreGrows
<1> USE NoRowAssumption
<1>1. /\ StoreTyped /\ (Admitted(id) => kind = "context") /\ ~Visible(id) /\ input' = input
      /\ s \notin deleted /\ deleted' = deleted
  BY DEF OtherMessage, Reserved, StoreInvariant
<1>2. seq' \in [Sessions -> Nat] /\ \A t \in Sessions : seq[t] \in Nat /\ seq'[t] \in Nat /\ seq'[t] >= seq[t]
  BY <1>1 DEF OtherMessage, NextEvent, StoreTyped
<1>3. message' = [message EXCEPT ![id] = [kind |-> kind, session |-> s, seq |-> seq[s] + 1, prompt |-> NoRow]]
  BY DEF OtherMessage, MessageRow
<1>4. /\ message' \in [Ids -> MessageRecord \union {NoRow}] /\ message'[id].kind = kind /\ message'[id].session = s
      /\ \A i \in Ids : i # id => message'[i] = message[i]
  BY <1>1, <1>2, <1>3 DEF StoreTyped, MessageRecord
<1>5. \A i \in Ids : (Admitted(i)' <=> Admitted(i)) /\ (Pending(i)' <=> Pending(i))
  BY <1>1 DEF Admitted, Pending
<1>6. \A i \in Ids : Admitted(i) => input[i] \in InputRecord
  BY <1>1 DEF StoreTyped, Admitted
<1>7. NumbersKnown'
  BY <1>1, <1>2, <1>5, <1>6 DEF StoreInvariant, NumbersKnown, InputRecord
<1>8. HistoryMatchesInbox'
  <2> SUFFICES ASSUME NEW i \in Ids
               PROVE  (IF Admitted(i) /\ ~Pending(i) THEN Visible(i) /\ IsMessageOf(message[i], input[i])
                       ELSE Visible(i) => message[i].kind \in IF Admitted(i) THEN {"context"} ELSE OtherKinds)'
    BY DEF HistoryMatchesInbox
  <2>1. CASE i # id
    BY <1>1, <1>4, <1>5, <2>1 DEF StoreInvariant, HistoryMatchesInbox, Visible, IsMessageOf
  <2>2. CASE i = id
    <3>1. ~(Admitted(id) /\ ~Pending(id))
      BY <1>1 DEF StoreInvariant, HistoryMatchesInbox
    <3> QED
      BY <1>1, <1>4, <1>5, <2>2, <3>1
  <2> QED
    BY <2>1, <2>2
<1>9. PromotedInOrder'
  BY <1>1, <1>5 DEF StoreInvariant, PromotedInOrder, Promotes
<1>10. StoreGrows
  <2>1. \A i \in Ids : Admitted(i) => input[i] = [input[i] EXCEPT !.promoted = input[i].promoted]
    BY <1>6 DEF InputRecord
  <2> QED
    BY <1>1, <1>2, <1>4, <1>5, <2>1 DEF StoreGrows, LifecycleForward, Visible
<1>11. LiveRows'
  BY <1>1, <1>4, <1>5 DEF StoreInvariant, LiveRows, Visible
<1> QED
  BY <1>1, <1>2, <1>4, <1>7, <1>8, <1>9, <1>10, <1>11 DEF StoreInvariant, StoreTyped

\* A session is deleted, and its rows and messages go.
LEMMA StoreDrops ==
  ASSUME StoreInvariant, NEW s \in Sessions, Delete(s)
  PROVE  StoreInvariant' /\ StoreGrows
<1> USE NoRowAssumption
<1>1. /\ StoreTyped /\ s \notin deleted /\ deleted' = deleted \union {s} /\ seq' = seq
      /\ input' = DropRows(input, s) /\ message' = DropRows(message, s)
  BY DEF Delete, StoreInvariant
<1>2. \A i \in Ids :
        /\ input'[i] = IF Admitted(i) /\ input[i].session = s THEN NoRow ELSE input[i]
        /\ message'[i] = IF Visible(i) /\ message[i].session = s THEN NoRow ELSE message[i]
  BY <1>1 DEF DropRows, Admitted, Visible
<1>3. StoreTyped'
  BY <1>1 DEF StoreTyped, DropRows
<1>4. \A i \in Ids :
        /\ Admitted(i)' <=> Admitted(i) /\ input[i].session # s
        /\ Admitted(i)' => input'[i] = input[i] /\ (Pending(i)' <=> Pending(i))
        /\ Visible(i)' <=> Visible(i) /\ message[i].session # s
        /\ Visible(i)' => message'[i] = message[i]
  BY <1>2 DEF Admitted, Visible, Pending
<1>5. \A i \in Ids : Admitted(i) => input[i] \in InputRecord
  BY <1>1 DEF StoreTyped, Admitted
<1>6. NumbersKnown' /\ LiveRows'
  BY <1>1, <1>4 DEF StoreInvariant, NumbersKnown, LiveRows
<1>7. HistoryMatchesInbox'
  <2> SUFFICES ASSUME NEW i \in Ids
               PROVE  (IF Admitted(i) /\ ~Pending(i) THEN Visible(i) /\ IsMessageOf(message[i], input[i])
                       ELSE Visible(i) => message[i].kind \in IF Admitted(i) THEN {"context"} ELSE OtherKinds)'
    BY DEF HistoryMatchesInbox
  <2>1. CASE Admitted(i) /\ ~Pending(i)
    \* the message of a promoted input is of the input's session
    BY <1>4, <2>1 DEF StoreInvariant, HistoryMatchesInbox, IsMessageOf
  <2>2. CASE ~(Admitted(i) /\ ~Pending(i))
    <3>1. ~(Admitted(i) /\ ~Pending(i))'
      BY <1>4, <2>2
    <3>2. Visible(i)' => message'[i].kind \in IF Admitted(i) THEN {"context"} ELSE OtherKinds
      BY <1>4, <2>2 DEF StoreInvariant, HistoryMatchesInbox
    <3> QED
      BY <1>4, <3>1, <3>2 DEF OtherKinds
  <2> QED
    BY <2>1, <2>2
<1>8. PromotedInOrder'
  BY <1>4 DEF StoreInvariant, PromotedInOrder, Promotes
<1>9. StoreGrows
  <2>1. \A i \in Ids : Admitted(i) => input[i] = [input[i] EXCEPT !.promoted = input[i].promoted]
    BY <1>5 DEF InputRecord
  <2>2. \A i \in Ids : LifecycleForward(i)
    <3>1. GoesWith(s)
      BY <1>1 DEF GoesWith
    <3> QED
      BY <1>4, <2>1, <3>1 DEF LifecycleForward
  <2> QED
    BY <1>1, <1>4, <2>2 DEF StoreGrows, StoreTyped
<1> QED
  BY <1>3, <1>6, <1>7, <1>8, <1>9 DEF StoreInvariant

\* The promotion of a pending input that overtakes nothing.
LEMMA StorePromotes ==
  ASSUME StoreInvariant, NEW id \in Ids, NEW s \in Sessions, Pending(id), ~Visible(id), input[id].session = s,
         \A i \in Ids : Pending(i) => ~Ahead(i, id),
         NextEvent(s), deleted' = deleted,
         input' = [input EXCEPT ![id] = [@ EXCEPT !.promoted = seq[s] + 1]],
         message' = [message EXCEPT ![id] = MessageRow("user", s, seq[s] + 1, input[id].prompt)]
  PROVE  StoreInvariant' /\ StoreGrows
<1> USE NoRowAssumption
<1>1. StoreTyped /\ Admitted(id) /\ input[id].promoted = None
  BY DEF StoreInvariant, Pending
<1>2. \A i \in Ids : Admitted(i) => input[i] \in InputRecord
  BY <1>1 DEF StoreTyped, Admitted
<1>3. /\ seq' \in [Sessions -> Nat] /\ seq'[s] = seq[s] + 1
      /\ \A t \in Sessions : seq[t] \in Nat /\ seq'[t] \in Nat /\ seq'[t] >= seq[t]
  BY <1>1 DEF NextEvent, StoreTyped
<1>4. /\ input'[id] = [input[id] EXCEPT !.promoted = seq[s] + 1]
      /\ \A i \in Ids : i # id => input'[i] = input[i]
  BY <1>1 DEF StoreTyped
<1>5. /\ input'[id] \in InputRecord /\ input'[id].promoted = seq[s] + 1
      /\ input'[id].session = s /\ input'[id].prompt = input[id].prompt
      /\ input'[id].delivery = input[id].delivery /\ input'[id].admitted = input[id].admitted
  BY <1>1, <1>2, <1>3, <1>4 DEF InputRecord
<1>6. input' \in [Ids -> InputRecord \union {NoRow}]
  BY <1>1, <1>4, <1>5 DEF StoreTyped
<1>7. /\ message'[id] = [kind |-> "user", session |-> s, seq |-> seq[s] + 1, prompt |-> input[id].prompt]
      /\ \A i \in Ids : i # id => message'[i] = message[i]
  BY <1>1 DEF StoreTyped, MessageRow
<1>8. message'[id] \in MessageRecord
  BY <1>1, <1>2, <1>3, <1>7 DEF MessageRecord, InputRecord
<1>9. message' \in [Ids -> MessageRecord \union {NoRow}]
  BY <1>1, <1>7, <1>8 DEF StoreTyped
<1>10. /\ Admitted(id)' /\ ~Pending(id)' /\ Visible(id)'
       /\ \A i \in Ids : i # id => (Admitted(i)' <=> Admitted(i)) /\ (Pending(i)' <=> Pending(i)) /\ (Visible(i)' <=> Visible(i))
  BY <1>3, <1>4, <1>5, <1>7, <1>8 DEF Admitted, Pending, Visible, None
<1>11. NumbersKnown'
  <2> SUFFICES ASSUME NEW i \in Ids, Admitted(i)'
               PROVE  /\ input'[i].admitted <= seq'[input'[i].session] /\ input'[i].admitted > 0
                      /\ input'[i].promoted <= seq'[input'[i].session]
    BY DEF NumbersKnown
  <2>1. CASE i = id
    BY <1>1, <1>2, <1>3, <1>5, <2>1 DEF StoreInvariant, NumbersKnown, InputRecord
  <2>2. CASE i # id
    BY <1>2, <1>3, <1>4, <1>10, <2>2 DEF StoreInvariant, NumbersKnown, InputRecord
  <2> QED
    BY <2>1, <2>2
<1>12. HistoryMatchesInbox'
  <2> SUFFICES ASSUME NEW i \in Ids
               PROVE  (IF Admitted(i) /\ ~Pending(i) THEN Visible(i) /\ IsMessageOf(message[i], input[i])
                       ELSE Visible(i) => message[i].kind \in IF Admitted(i) THEN {"context"} ELSE OtherKinds)'
    BY DEF HistoryMatchesInbox
  <2>1. CASE i # id
    BY <1>4, <1>7, <1>10, <2>1 DEF StoreInvariant, HistoryMatchesInbox
  <2>2. CASE i = id
    BY <1>5, <1>7, <1>10, <2>2 DEF IsMessageOf
  <2> QED
    BY <2>1, <2>2
<1>13. PromotedInOrder'
  <2> SUFFICES ASSUME NEW i \in Ids, NEW j \in Ids, Admitted(i)', Promotes(j)',
                      input'[i].session = input'[j].session, input'[i].delivery = input'[j].delivery,
                      input'[i].admitted < input'[j].admitted
               PROVE  ~Pending(i)' /\ input'[i].promoted < input'[j].promoted
    BY DEF PromotedInOrder
  <2>1. CASE j = id
    <3>1. i # id /\ Admitted(i) /\ input'[i] = input[i] /\ Ahead(i, id)
      BY <1>1, <1>2, <1>4, <1>5, <1>10, <2>1 DEF Ahead, InputRecord
    <3>2. ~Pending(i) /\ ~Pending(i)'
      BY <1>10, <3>1
    <3>3. input[i].promoted \in Nat /\ input[i].promoted <= seq[s]
      BY <1>2, <3>1, <1>5, <2>1 DEF StoreInvariant, NumbersKnown, InputRecord
    <3> QED
      BY <1>3, <1>5, <2>1, <3>1, <3>2, <3>3
  <2>2. CASE j # id /\ i = id
    <3>1. Promotes(j) /\ input'[j] = input[j]
      BY <1>4, <1>10, <2>2 DEF Promotes
    <3>2. ~Pending(id)
      BY <1>1, <1>5, <2>2, <3>1 DEF StoreInvariant, PromotedInOrder
    <3> QED
      BY <3>2
  <2>3. CASE j # id /\ i # id
    BY <1>4, <1>10, <2>3 DEF StoreInvariant, PromotedInOrder, Promotes
  <2> QED
    BY <2>1, <2>2, <2>3
<1>14. StoreGrows
  <2>1. \A i \in Ids : LifecycleForward(i)
    <3> SUFFICES ASSUME NEW i \in Ids PROVE LifecycleForward(i)
      OBVIOUS
    <3>1. CASE i = id
      BY <1>4, <1>5, <1>10, <3>1 DEF LifecycleForward
    <3>2. CASE i # id
      <4>1. Admitted(i) => input[i] = [input[i] EXCEPT !.promoted = input[i].promoted]
        BY <1>2 DEF InputRecord
      <4> QED
        BY <1>4, <1>7, <1>10, <3>2, <4>1 DEF LifecycleForward
    <3> QED
      BY <3>1, <3>2
  <2>2. \A i \in Ids : ~Admitted(i) => ~Admitted(i)'
    BY <1>1, <1>10
  <2> QED
    BY <1>3, <2>1, <2>2 DEF StoreGrows
<1>15. LiveRows'
  <2> SUFFICES ASSUME NEW i \in Ids
               PROVE  /\ Admitted(i)' => input'[i].session \notin deleted'
                      /\ Visible(i)' => message'[i].session \notin deleted'
    BY DEF LiveRows
  <2>1. CASE i # id
    BY <1>4, <1>7, <1>10, <2>1 DEF StoreInvariant, LiveRows
  <2>2. CASE i = id
    BY <1>1, <1>5, <1>7, <2>2 DEF StoreInvariant, LiveRows
  <2> QED
    BY <2>1, <2>2
<1> QED
  BY <1>1, <1>3, <1>6, <1>9, <1>11, <1>12, <1>13, <1>14, <1>15 DEF StoreInvariant, StoreTyped

-----------------------------------------------------------------------------
(***************************************************************************)
(* A step keeps the invariant when the store stays sound and every client  *)
(* or promoter it moves is right about the new store.                      *)
(***************************************************************************)
ClientRight(c) == client[c] \in ClientRecord \union {Quiet} /\ Holds(client[c])
PromoterRight(r) == promoter[r] \in PromoterRecord \union {Quiet} /\ Remembers(promoter[r])

LEMMA EverybodyRight ==
  InboxInvariant => (\A c \in Clients : ClientRight(c)) /\ (\A r \in Runners : PromoterRight(r))
BY DEF InboxInvariant, TypeOK, ClientRight, PromoterRight, ReceiptsHold, Holds, PromotersRemember

LEMMA StepKeeps ==
  ASSUME InboxInvariant, StoreInvariant', StoreGrows,
         DOMAIN client' = Clients, client' = [c \in Clients |-> client'[c]],
         DOMAIN promoter' = Runners, promoter' = [r \in Runners |-> promoter'[r]],
         \A c \in Clients : client'[c] = client[c] \/ ClientRight(c)',
         \A r \in Runners : promoter'[r] = promoter[r] \/ PromoterRight(r)'
  PROVE  InboxInvariant'
<1>1. /\ \A c \in Clients : client'[c] \in ClientRecord \union {Quiet}
      /\ \A r \in Runners : promoter'[r] \in PromoterRecord \union {Quiet}
  BY EverybodyRight DEF ClientRight, PromoterRight
<1>2. TypeOK /\ TypeOK' /\ NumbersKnown
  BY <1>1 DEF InboxInvariant, StoreInvariant, StoreTyped, TypeOK
<1>3. ASSUME NEW c \in Clients PROVE Holds(client[c])'
  <2>1. CASE client'[c] = client[c]
    <3> DEFINE k == client[c]
    <3>1. PICK k0 \in ClientRecord \union {Quiet} : k0 = client[c]
      BY EverybodyRight DEF ClientRight
    <3>2. Holds(k0)
      BY <3>1, EverybodyRight DEF ClientRight
    <3>3. Holds(k0)'
      BY <1>2, <3>2, HoldsStable
    <3> QED
      BY <2>1, <3>1, <3>3 DEF Holds
  <2>2. CASE ClientRight(c)'
    BY <2>2 DEF ClientRight
  <2> QED
    BY <2>1, <2>2
<1>4. ASSUME NEW r \in Runners PROVE Remembers(promoter[r])'
  <2>1. CASE promoter'[r] = promoter[r]
    <3>1. PICK k0 \in PromoterRecord \union {Quiet} : k0 = promoter[r]
      BY EverybodyRight DEF PromoterRight
    <3>2. Remembers(k0)
      BY <3>1, EverybodyRight DEF PromoterRight
    <3>3. Remembers(k0)'
      BY <1>2, <3>2, RemembersStable
    <3> QED
      BY <2>1, <3>1, <3>3 DEF Remembers, Knows
  <2>2. CASE PromoterRight(r)'
    BY <2>2 DEF PromoterRight
  <2> QED
    BY <2>1, <2>2
<1> QED
  BY <1>2, <1>3, <1>4 DEF InboxInvariant, StoreInvariant, ReceiptsHold, Holds, PromotersRemember

\* What a client is told about a stored row that answers it is right.
LEMMA AnswerRight ==
  ASSUME StoreInvariant, NEW q \in Request, Admitted(q.id), NEW retry \in BOOLEAN
  PROVE  Answered(q, input[q.id], retry) \in ClientRecord /\ Holds(Answered(q, input[q.id], retry))
<1>1. q.id \in Ids /\ input[q.id] \in InputRecord
  BY DEF Request, StoreInvariant, StoreTyped, Admitted
<1>2. input[q.id].admitted \in Nat
  BY <1>1 DEF InputRecord
<1>3. CASE Equivalent(input[q.id], q)
  <2>1. Answered(q, input[q.id], retry) = [at |-> "receipt", request |-> q, admitted |-> input[q.id].admitted, retry |-> retry]
    BY <1>3 DEF Answered
  <2> QED
    BY <1>2, <1>3, <2>1 DEF ClientRecord, Holds, Says, Equivalent
<1>4. CASE ~Equivalent(input[q.id], q)
  <2>1. Answered(q, input[q.id], retry) = [at |-> "conflict", request |-> q, holder |-> input[q.id].session]
    BY <1>4 DEF Answered, Conflict
  <2> QED
    BY <1>1, <1>4, <2>1 DEF ClientRecord, Holds, Says, Equivalent, InputRecord
<1> QED
  BY <1>3, <1>4

\* A step of one client, and a step of one promoter.
LEMMA ClientMoves ==
  ASSUME InboxInvariant, StoreInvariant', StoreGrows, NEW c \in Clients, NEW k \in ClientRecord \union {Quiet},
         client' = [client EXCEPT ![c] = k], promoter' = promoter, Holds(k)'
  PROVE  InboxInvariant'
<1>1. client = [d \in Clients |-> client[d]] /\ promoter = [r \in Runners |-> promoter[r]]
  BY DEF InboxInvariant, TypeOK
<1>2. /\ DOMAIN client' = Clients /\ client' = [d \in Clients |-> client'[d]]
      /\ DOMAIN promoter' = Runners /\ promoter' = [r \in Runners |-> promoter'[r]]
      /\ client'[c] = k /\ \A d \in Clients : d # c => client'[d] = client[d]
  BY <1>1
<1>3. ClientRight(c)'
  BY <1>2 DEF ClientRight, Holds
<1> QED
  BY <1>2, <1>3, StepKeeps

LEMMA PromoterMoves ==
  ASSUME InboxInvariant, StoreInvariant', StoreGrows, NEW r \in Runners, NEW k \in PromoterRecord \union {Quiet},
         promoter' = [promoter EXCEPT ![r] = k], client' = client, Remembers(k)'
  PROVE  InboxInvariant'
<1>1. client = [d \in Clients |-> client[d]] /\ promoter = [q \in Runners |-> promoter[q]]
  BY DEF InboxInvariant, TypeOK
<1>2. /\ DOMAIN client' = Clients /\ client' = [d \in Clients |-> client'[d]]
      /\ DOMAIN promoter' = Runners /\ promoter' = [q \in Runners |-> promoter'[q]]
      /\ promoter'[r] = k /\ \A q \in Runners : q # r => promoter'[q] = promoter[q]
  BY <1>1
<1>3. PromoterRight(r)'
  BY <1>2 DEF PromoterRight, Remembers, Knows
<1> QED
  BY <1>2, <1>3, StepKeeps

-----------------------------------------------------------------------------
(***************************************************************************)
(* Each operation of the inbox.                                            *)
(***************************************************************************)
LEMMA PromptKeeps ==
  ASSUME InboxInvariant, NEW c \in Clients, NEW q \in Request, Prompt(c, q)
  PROVE  InboxInvariant' /\ StoreGrows
<1>1. UNCHANGED <<seq, input, message, deleted, promoter>>
  BY DEF Prompt
<1>2. StoreInvariant' /\ StoreGrows
  BY <1>1, StoreOfInbox, StoreSame
<1>3. PICK k \in ClientRecord : client' = [client EXCEPT ![c] = k] /\ Holds(k)
  <2>1. CASE Admitted(q.id)
    <3>1. client' = [client EXCEPT ![c] = Answered(q, input[q.id], TRUE)]
      BY <2>1 DEF Prompt
    <3> QED
      BY <2>1, <3>1, StoreOfInbox, AnswerRight
  <2>2. CASE ~Admitted(q.id)
    <3>1. client' = [client EXCEPT ![c] = [at |-> "publish", request |-> q]]
      BY <2>2 DEF Prompt
    <3>2. [at |-> "publish", request |-> q] \in ClientRecord /\ Holds([at |-> "publish", request |-> q])
      BY DEF ClientRecord, Holds
    <3> QED
      BY <3>1, <3>2
  <2> QED
    BY <2>1, <2>2
<1>4. Holds(k)'
  BY <1>1, <1>3 DEF Holds, Admitted, Visible, Says
<1> QED
  BY <1>1, <1>2, <1>3, <1>4, ClientMoves

\* A row made from a request.
LEMMA RowOfRequest ==
  ASSUME NEW q \in Request, NEW n \in Nat, NEW p \in Nat
  PROVE  /\ InputRow(q, n, p) \in InputRecord
         /\ \E row \in InputRecord : row = InputRow(q, n, p)
<1>1. q.session \in Sessions /\ q.prompt \in Prompts /\ q.delivery \in Deliveries
  BY DEF Request
<1>2. InputRow(q, n, p) \in InputRecord
  BY <1>1 DEF InputRow, InputRecord
<1> QED
  BY <1>2

LEMMA PublishAdmittedKeeps ==
  ASSUME InboxInvariant, NEW c \in Clients, PublishAdmitted(c)
  PROVE  InboxInvariant' /\ StoreGrows
<1> USE NoRowAssumption
<1>1. PICK q \in Request : q = client[c].request
  BY DEF InboxInvariant, TypeOK, PublishAdmitted, ClientRecord, Quiet
<1>2. /\ q.session \in Sessions /\ q.id \in Ids /\ seq[q.session] \in Nat
      /\ promoter' = promoter /\ message' = message /\ deleted' = deleted
  BY <1>1 DEF Request, InboxInvariant, TypeOK, PublishAdmitted
\* Its own row is stored.
<1>3. CASE /\ ~Visible(q.id) /\ Insertable(q.id) /\ Room(q.session) /\ q.session \notin deleted
           /\ NextEvent(q.session)
           /\ input' = [input EXCEPT ![q.id] = InputRow(q, seq[q.session] + 1, None)]
           /\ client' = [client EXCEPT ![c] = Answered(q, InputRow(q, seq[q.session] + 1, None), FALSE)]
  <2>1. PICK row \in InputRecord : row = InputRow(q, seq[q.session] + 1, None)
    <3>1. seq[q.session] + 1 \in Nat /\ None \in Nat
      BY <1>2 DEF None
    <3> QED
      BY <3>1, RowOfRequest
  <2>2. row.session = q.session /\ row.admitted = seq[row.session] + 1 /\ row.promoted = None /\ Equivalent(row, q)
    BY <2>1 DEF InputRow, Equivalent
  <2>3. seq' = [seq EXCEPT ![row.session] = @ + 1] /\ input' = [input EXCEPT ![q.id] = row]
    BY <1>3, <2>1, <2>2 DEF NextEvent
  <2>4. StoreInvariant' /\ StoreGrows
    BY <1>2, <1>3, <2>2, <2>3, StoreOfInbox, StoreAdmits DEF Insertable
  <2>5. input'[q.id] = row /\ row # NoRow
    BY <1>2, <2>3 DEF InboxInvariant, TypeOK
  <2>6. PICK k \in ClientRecord : k = [at |-> "receipt", request |-> q, admitted |-> row.admitted, retry |-> FALSE]
    BY DEF ClientRecord, InputRecord
  <2>7. client' = [client EXCEPT ![c] = k]
    BY <1>3, <2>1, <2>2, <2>6 DEF Answered
  <2>8. Holds(k)'
    BY <2>2, <2>5, <2>6 DEF Holds, Admitted, Says, Equivalent
  <2> QED
    BY <1>2, <2>4, <2>7, <2>8, ClientMoves
\* Somebody else's row, or a message, answers.
<1>4. CASE UNCHANGED <<seq, input>> /\ \E k \in ClientRecord : client' = [client EXCEPT ![c] = k] /\ Holds(k)
  <2>1. PICK k \in ClientRecord : client' = [client EXCEPT ![c] = k] /\ Holds(k)
    BY <1>4
  <2>2. Holds(k)'
    BY <1>2, <1>4, <2>1 DEF Holds, Admitted, Visible, Says
  <2>3. StoreInvariant' /\ StoreGrows
    BY <1>2, <1>4, StoreOfInbox, StoreSame
  <2> QED
    BY <1>2, <2>1, <2>2, <2>3, ClientMoves
<1>5. CASE Admitted(q.id) /\ client' = [client EXCEPT ![c] = Answered(q, input[q.id], TRUE)] /\ UNCHANGED <<seq, input>>
  BY <1>4, <1>5, StoreOfInbox, AnswerRight
<1>6. CASE /\ Visible(q.id) /\ ~Admitted(q.id)
           /\ client' = [client EXCEPT ![c] = Conflict(q, message[q.id].session)] /\ UNCHANGED <<seq, input>>
  <2>1. PICK holder \in Sessions : holder = message[q.id].session
    BY <1>2, <1>6 DEF InboxInvariant, TypeOK, Visible, MessageRecord
  <2>2. Conflict(q, holder) \in ClientRecord /\ Holds(Conflict(q, holder))
    BY <1>6, <2>1 DEF Conflict, ClientRecord, Holds
  <2> QED
    BY <1>4, <1>6, <2>1, <2>2
\* Its session is gone.
<1>7. CASE client' = [client EXCEPT ![c] = Quiet] /\ UNCHANGED <<seq, input>>
  <2>1. Holds(Quiet)'
    BY DEF Holds, Quiet
  <2>2. StoreInvariant' /\ StoreGrows
    BY <1>2, <1>7, StoreOfInbox, StoreSame
  <2> QED
    BY <1>2, <1>7, <2>1, <2>2, ClientMoves
<1> QED
  BY <1>1, <1>3, <1>5, <1>6, <1>7 DEF PublishAdmitted

LEMMA ReturnKeeps ==
  ASSUME InboxInvariant, NEW c \in Clients, Return(c)
  PROVE  InboxInvariant' /\ StoreGrows
<1>1. StoreInvariant' /\ StoreGrows
  BY StoreOfInbox, StoreSame DEF Return
<1>2. Holds(Quiet)'
  BY DEF Holds, Quiet
<1> QED
  BY <1>1, <1>2, ClientMoves DEF Return

LEMMA LegacyPromptedKeeps ==
  ASSUME InboxInvariant, NEW q \in Request, LegacyPrompted(q)
  PROVE  InboxInvariant' /\ StoreGrows
<1>1. q.session \in Sessions /\ q.id \in Ids /\ seq[q.session] \in Nat
  BY DEF Request, InboxInvariant, TypeOK
<1>2. PICK row \in InputRecord : row = LegacyRow(q, seq[q.session] + 1)
  <2>1. seq[q.session] + 1 \in Nat
    BY <1>1
  <2> QED
    BY <2>1, RowOfRequest DEF LegacyRow
<1>3. row.session = q.session /\ row.prompt = q.prompt /\ row.admitted = seq[row.session] + 1 /\ row.promoted = row.admitted
  BY <1>2 DEF LegacyRow, InputRow
<1>4. /\ seq' = [seq EXCEPT ![row.session] = @ + 1] /\ input' = [input EXCEPT ![q.id] = row]
      /\ message' = [message EXCEPT ![q.id] = MessageRow("user", row.session, row.admitted, row.prompt)]
      /\ ~Admitted(q.id) /\ ~Visible(q.id) /\ row.session \notin deleted /\ deleted' = deleted
  BY <1>2, <1>3 DEF LegacyPrompted, NextEvent, Insertable
<1>5. StoreInvariant' /\ StoreGrows
  BY <1>1, <1>3, <1>4, StoreOfInbox, StoreAdmits
<1>6. UNCHANGED <<client, promoter>> /\ client = [d \in Clients |-> client[d]] /\ promoter = [r \in Runners |-> promoter[r]]
  BY DEF LegacyPrompted, InboxInvariant, TypeOK
<1> QED
  BY <1>5, <1>6, StepKeeps

LEMMA OtherMessageKeeps ==
  ASSUME InboxInvariant, NEW s \in Sessions, NEW id \in Ids, NEW kind \in OtherKinds, OtherMessage(s, id, kind)
  PROVE  InboxInvariant' /\ StoreGrows
<1>1. StoreInvariant' /\ StoreGrows
  BY StoreOfInbox, StoreOther
<1>2. UNCHANGED <<client, promoter>> /\ client = [d \in Clients |-> client[d]] /\ promoter = [r \in Runners |-> promoter[r]]
  BY DEF OtherMessage, InboxInvariant, TypeOK
<1> QED
  BY <1>1, <1>2, StepKeeps

LEMMA DeleteKeeps ==
  ASSUME InboxInvariant, NEW s \in Sessions, Delete(s)
  PROVE  InboxInvariant' /\ StoreGrows
<1>1. StoreInvariant' /\ StoreGrows
  BY StoreOfInbox, StoreDrops
<1>2. UNCHANGED <<client, promoter>> /\ client = [d \in Clients |-> client[d]] /\ promoter = [r \in Runners |-> promoter[r]]
  BY DEF Delete, InboxInvariant, TypeOK
<1> QED
  BY <1>1, <1>2, StepKeeps

\* A promoter that only reads: what it remembers then is the store of this moment.
LEMMA ReaderMoves ==
  ASSUME InboxInvariant, UNCHANGED <<seq, input, message, deleted, client>>, NEW r \in Runners,
         NEW k \in PromoterRecord \union {Quiet}, promoter' = [promoter EXCEPT ![r] = k], Remembers(k)
  PROVE  InboxInvariant' /\ StoreGrows
<1>1. StoreInvariant' /\ StoreGrows
  BY StoreOfInbox, StoreSame
<1>2. Remembers(k)'
  BY DEF Remembers, Knows, Admitted, Pending, Ahead, PendingOf
<1> QED
  BY <1>1, <1>2, PromoterMoves

LEMMA ReadCutoffKeeps ==
  ASSUME InboxInvariant, NEW r \in Runners, NEW s \in Sessions, NEW d \in Deliveries, ReadCutoff(r, s, d)
  PROVE  InboxInvariant' /\ StoreGrows
<1>1. seq[s] \in Nat
  BY DEF InboxInvariant, TypeOK
<1>2. PICK k \in PromoterRecord : k = [at |-> d, session |-> s, cutoff |-> seq[s], rows |-> {}]
  BY <1>1 DEF PromoterRecord, Deliveries
<1>3. Remembers(k)
  BY <1>1, <1>2 DEF Remembers, Knows, Deliveries
<1> QED
  BY <1>2, <1>3, ReaderMoves DEF ReadCutoff

LEMMA ReadQueuedKeeps ==
  ASSUME InboxInvariant, NEW r \in Runners, ReadQueued(r)
  PROVE  InboxInvariant' /\ StoreGrows
<1>1. promoter[r] \in PromoterRecord /\ Remembers(promoter[r])
  BY DEF ReadQueued, InboxInvariant, TypeOK, Quiet, PromotersRemember
<1>2. PICK s \in Sessions : s = promoter[r].session
  BY <1>1 DEF PromoterRecord
<1> DEFINE rows == Oldest(PendingOf(s, "queue"))
<1>3. PICK k \in PromoterRecord : k = [promoter[r] EXCEPT !.at = "opening", !.rows = rows]
  BY <1>1 DEF PromoterRecord, Oldest, PendingOf
<1>4. k.at = "opening" /\ k.rows = rows /\ k.session = s /\ k.cutoff = promoter[r].cutoff
  BY <1>1, <1>2, <1>3 DEF PromoterRecord
<1>5. \A j \in rows : Admitted(j) /\ input[j].session = s /\ input[j].delivery = "queue"
  BY DEF Oldest, PendingOf, Pending
<1>6. \A j \in rows : \A i \in Ids : Pending(i) => ~Ahead(i, j)
  <2> SUFFICES ASSUME NEW j \in rows, NEW i \in Ids, Pending(i), Ahead(i, j) PROVE FALSE
    OBVIOUS
  <2>1. i \in PendingOf(s, "queue") /\ j \in Ids
    BY <1>5 DEF PendingOf, Ahead, Oldest
  <2>2. input[j].admitted <= input[i].admitted /\ input[i].admitted < input[j].admitted
    BY <2>1 DEF Oldest, Ahead
  <2>3. input[i].admitted \in Nat /\ input[j].admitted \in Nat
    BY <1>5, <2>1 DEF InboxInvariant, TypeOK, Admitted, Pending, InputRecord
  <2> QED
    BY <2>2, <2>3
<1>7. Remembers(k)
  BY <1>1, <1>2, <1>4, <1>5, <1>6 DEF Remembers, Knows, ReadQueued
<1>8. promoter' = [promoter EXCEPT ![r] = k]
  BY <1>2, <1>3 DEF ReadQueued
<1> QED
  BY <1>4, <1>7, <1>8, ReaderMoves DEF ReadQueued

LEMMA ReadSteersKeeps ==
  ASSUME InboxInvariant, NEW r \in Runners, ReadSteers(r)
  PROVE  InboxInvariant' /\ StoreGrows
<1>1. promoter[r] \in PromoterRecord /\ Remembers(promoter[r])
  BY DEF ReadSteers, InboxInvariant, TypeOK, Quiet, PromotersRemember
<1>2. PICK s \in Sessions : s = promoter[r].session
  BY <1>1 DEF PromoterRecord
<1> DEFINE rows == {id \in PendingOf(s, "steer") : UpTo(id, promoter[r].cutoff)}
<1>3. PICK k \in PromoterRecord : k = [promoter[r] EXCEPT !.at = "steering", !.rows = rows]
  BY <1>1 DEF PromoterRecord, PendingOf
<1>4. k.at = "steering" /\ k.rows = rows /\ k.session = s /\ k.cutoff = promoter[r].cutoff
  BY <1>1, <1>2, <1>3 DEF PromoterRecord
<1>5. promoter[r].at # "idle"
  BY DEF ReadSteers
<1>6. Remembers(k)
  BY <1>1, <1>2, <1>4, <1>5 DEF Remembers, Knows, PendingOf, Pending, UpTo
<1>7. promoter' = [promoter EXCEPT ![r] = k]
  BY <1>2, <1>3 DEF ReadSteers
<1> QED
  BY <1>4, <1>6, <1>7, ReaderMoves DEF ReadSteers

\* What a promotion publishes is its own pending input, and none is before it; when it
\* is not, somebody was first, the message poisons it, or its session is gone.
LEMMA HeadOfRows ==
  ASSUME InboxInvariant, NEW r \in Runners, Publishing(r), NEW id \in NextRows(r)
  PROVE  /\ promoter[r] \in PromoterRecord /\ Remembers(promoter[r]) /\ id \in promoter[r].rows /\ id \in Ids
         /\ promoter[r].session \notin deleted =>
              /\ Admitted(id) /\ input[id].session = promoter[r].session
              /\ \A i \in Ids : Pending(i) => ~Ahead(i, id)
<1>1. promoter[r] \in PromoterRecord /\ Remembers(promoter[r]) /\ promoter[r].at \in {"opening", "steering"}
  BY DEF Publishing, InboxInvariant, TypeOK, Quiet, PromotersRemember
<1>2. promoter[r].rows \subseteq Ids /\ id \in promoter[r].rows /\ id \in Ids
  BY <1>1 DEF PromoterRecord, NextRows, Oldest
<1>3. ASSUME promoter[r].session \notin deleted
      PROVE  /\ Admitted(id) /\ input[id].session = promoter[r].session
             /\ \A i \in Ids : Pending(i) => ~Ahead(i, id)
  <2>1. PICK s \in Sessions : s = promoter[r].session
    BY <1>1 DEF PromoterRecord
  <2>2. Knows(promoter[r]) /\ id \in Oldest(promoter[r].rows)
    BY <1>1, <1>3 DEF Remembers, NextRows
  <2>3. /\ Admitted(id) /\ input[id].session = s
        /\ \A i \in promoter[r].rows : input[id].admitted <= input[i].admitted
    BY <1>2, <2>1, <2>2 DEF Oldest, Knows
  <2>4. \A i \in Ids : Admitted(i) => input[i] \in InputRecord /\ input[i].admitted \in Nat
    BY DEF InboxInvariant, TypeOK, Admitted, InputRecord
  <2>5. CASE promoter[r].at = "opening"
    BY <1>2, <2>1, <2>2, <2>3, <2>5 DEF Knows
  <2>6. CASE promoter[r].at = "steering"
    <3> SUFFICES ASSUME NEW i \in Ids, Pending(i), Ahead(i, id) PROVE FALSE
      BY <2>1, <2>3
    <3>1. input[id].delivery = "steer" /\ input[id].admitted <= promoter[r].cutoff /\ promoter[r].cutoff \in Nat
      BY <1>1, <1>2, <2>2, <2>6 DEF Knows, PromoterRecord
    <3>2. Admitted(i) /\ input[i].session = s /\ input[i].delivery = "steer" /\ input[i].admitted < input[id].admitted
      BY <2>3, <3>1 DEF Ahead, Pending
    <3>3. i \in PendingOf(s, "steer") /\ input[i].admitted <= promoter[r].cutoff
      BY <1>2, <2>3, <2>4, <3>1, <3>2 DEF PendingOf
    <3>4. i \in promoter[r].rows
      BY <2>1, <2>2, <2>6, <3>3 DEF Knows
    <3> QED
      BY <1>2, <2>3, <2>4, <3>2, <3>4
  <2> QED
    BY <1>1, <2>5, <2>6
<1> QED
  BY <1>1, <1>2, <1>3

LEMMA PublishPromotedKeeps ==
  ASSUME InboxInvariant, NEW r \in Runners, PublishPromoted(r)
  PROVE  InboxInvariant' /\ StoreGrows
<1> USE NoRowAssumption
<1>1. PICK id \in NextRows(r) : Publish(r, id)
  BY DEF PublishPromoted
<1>2. /\ promoter[r] \in PromoterRecord /\ Remembers(promoter[r]) /\ promoter[r].at # "idle"
      /\ id \in promoter[r].rows /\ id \in Ids
  BY HeadOfRows DEF PublishPromoted, Publishing
<1>3. PICK s \in Sessions : s = promoter[r].session
  BY <1>2 DEF PromoterRecord
<1>4. PICK k \in PromoterRecord : k = [promoter[r] EXCEPT !.rows = promoter[r].rows \ {id}]
  BY <1>2 DEF PromoterRecord
<1>5. k.at = promoter[r].at /\ k.session = s /\ k.cutoff = promoter[r].cutoff /\ k.rows = promoter[r].rows \ {id}
  BY <1>2, <1>3, <1>4 DEF PromoterRecord
<1>6. UNCHANGED <<deleted, client>>
  BY <1>1 DEF Publish
\* What is left, once the row at the head is not pending any more.
<1>7. CASE /\ Pending(id) /\ input[id].session = s /\ ~Visible(id) /\ NextEvent(s)
           /\ input' = [input EXCEPT ![id] = [@ EXCEPT !.promoted = seq[s] + 1]]
           /\ message' = [message EXCEPT ![id] = MessageRow("user", s, seq[s] + 1, input[id].prompt)]
           /\ promoter' = [promoter EXCEPT ![r] = k]
  <2>1. s \notin deleted
    BY <1>2, <1>7 DEF InboxInvariant, LiveRows, Pending
  <2>2. \A i \in Ids : Pending(i) => ~Ahead(i, id)
    BY <1>3, <2>1, HeadOfRows DEF PublishPromoted
  <2>3. StoreInvariant' /\ StoreGrows
    BY <1>2, <1>6, <1>7, <2>2, StoreOfInbox, StorePromotes
  <2>4. PICK k0 \in PromoterRecord : k0 = promoter[r] /\ Remembers(k0)
    BY <1>2
  <2>5. TypeOK' /\ TypeOK /\ NumbersKnown
    <3>1. promoter' \in [Runners -> PromoterRecord \union {Quiet}] /\ client' = client
      BY <1>6, <1>7 DEF InboxInvariant, TypeOK
    <3> QED
      BY <2>3, <3>1 DEF InboxInvariant, StoreInvariant, StoreTyped, TypeOK
  <2>6. Remembers(k0)'
    BY <2>3, <2>4, <2>5, RemembersStable
  <2>7. ~Pending(id)'
    <3>1. input[id] \in InputRecord /\ seq[s] \in Nat
      BY <1>2, <1>7 DEF InboxInvariant, TypeOK, Pending, Admitted
    <3>2. input'[id].promoted = seq[s] + 1
      BY <1>2, <1>7, <3>1 DEF InboxInvariant, TypeOK, InputRecord
    <3> QED
      BY <3>1, <3>2 DEF Pending, None
  <2>8. Remembers(k)'
    BY <1>2, <1>3, <1>5, <2>4, <2>6, <2>7 DEF Remembers, Knows, PendingOf
  <2> QED
    BY <1>6, <1>7, <2>3, <2>8, PromoterMoves
<1>8. CASE ~Pending(id) /\ promoter' = [promoter EXCEPT ![r] = k] /\ UNCHANGED <<seq, input, message>>
  <2>1. Remembers(k)
    BY <1>2, <1>3, <1>5, <1>8 DEF Remembers, Knows, PendingOf
  <2> QED
    BY <1>6, <1>8, <2>1, ReaderMoves
\* It dies.
<1>9. CASE promoter' = [promoter EXCEPT ![r] = [@ EXCEPT !.at = "died"]] /\ UNCHANGED <<seq, input, message>>
  <2>1. PICK last \in PromoterRecord : last = [promoter[r] EXCEPT !.at = "died"]
    BY <1>2 DEF PromoterRecord
  <2>2. /\ last.at = "died" /\ last.session = promoter[r].session /\ last.cutoff = promoter[r].cutoff
        /\ last.rows = promoter[r].rows
    BY <1>2, <2>1 DEF PromoterRecord
  <2>3. Remembers(last)
    BY <1>2, <2>2 DEF Remembers, Knows
  <2>4. promoter' = [promoter EXCEPT ![r] = last]
    BY <1>9, <2>1
  <2> QED
    BY <1>6, <1>9, <2>3, <2>4, ReaderMoves
<1> QED
  BY <1>1, <1>3, <1>4, <1>7, <1>8, <1>9 DEF Publish

LEMMA StopPromotingKeeps ==
  ASSUME InboxInvariant, NEW r \in Runners, StopPromoting(r)
  PROVE  InboxInvariant' /\ StoreGrows
<1>1. Remembers(Quiet)
  BY DEF Remembers, Quiet
<1> QED
  BY <1>1, ReaderMoves DEF StopPromoting

-----------------------------------------------------------------------------
LEMMA InboxStep ==
  ASSUME InboxInvariant, [Next]_inputVars
  PROVE  InboxInvariant' /\ StoreGrows
<1>1. CASE Next
  <2>1. ASSUME NEW c \in Clients, NEW q \in Request, Prompt(c, q) PROVE InboxInvariant' /\ StoreGrows
    BY <2>1, PromptKeeps
  <2>2. ASSUME NEW c \in Clients, PublishAdmitted(c) PROVE InboxInvariant' /\ StoreGrows
    BY <2>2, PublishAdmittedKeeps
  <2>3. ASSUME NEW c \in Clients, Return(c) PROVE InboxInvariant' /\ StoreGrows
    BY <2>3, ReturnKeeps
  <2>4. ASSUME NEW q \in Request, LegacyPrompted(q) PROVE InboxInvariant' /\ StoreGrows
    BY <2>4, LegacyPromptedKeeps
  <2>5. ASSUME NEW s \in Sessions, NEW id \in Ids, NEW kind \in OtherKinds, OtherMessage(s, id, kind)
        PROVE  InboxInvariant' /\ StoreGrows
    BY <2>5, OtherMessageKeeps
  <2>6. ASSUME NEW r \in Runners, NEW s \in Sessions, NEW d \in Deliveries, ReadCutoff(r, s, d)
        PROVE  InboxInvariant' /\ StoreGrows
    BY <2>6, ReadCutoffKeeps
  <2>7. ASSUME NEW r \in Runners, ReadQueued(r) PROVE InboxInvariant' /\ StoreGrows
    BY <2>7, ReadQueuedKeeps
  <2>8. ASSUME NEW r \in Runners, ReadSteers(r) PROVE InboxInvariant' /\ StoreGrows
    BY <2>8, ReadSteersKeeps
  <2>9. ASSUME NEW r \in Runners, PublishPromoted(r) PROVE InboxInvariant' /\ StoreGrows
    BY <2>9, PublishPromotedKeeps
  <2>10. ASSUME NEW r \in Runners, StopPromoting(r) PROVE InboxInvariant' /\ StoreGrows
    BY <2>10, StopPromotingKeeps
  <2>11. ASSUME NEW s \in Sessions, Delete(s) PROVE InboxInvariant' /\ StoreGrows
    BY <2>11, DeleteKeeps
  <2> QED
    BY <1>1, <2>1, <2>2, <2>3, <2>4, <2>5, <2>6, <2>7, <2>8, <2>9, <2>10, <2>11 DEF Next
<1>2. CASE UNCHANGED inputVars
  <2>1. UNCHANGED <<seq, input, message, deleted>> /\ UNCHANGED <<client, promoter>>
    BY <1>2 DEF inputVars
  <2>2. StoreInvariant' /\ StoreGrows
    BY <2>1, StoreOfInbox, StoreSame
  <2>3. client = [d \in Clients |-> client[d]] /\ promoter = [r \in Runners |-> promoter[r]]
    BY DEF InboxInvariant, TypeOK
  <2> QED
    BY <2>1, <2>2, <2>3, StepKeeps
<1> QED
  BY <1>1, <1>2

LEMMA InboxBegins == Init => InboxInvariant
<1> SUFFICES ASSUME Init PROVE InboxInvariant
  OBVIOUS
<1>1. TypeOK
  BY DEF Init, TypeOK
<1>2. NumbersKnown /\ LiveRows /\ HistoryMatchesInbox /\ PromotedInOrder
  BY DEF Init, NumbersKnown, LiveRows, HistoryMatchesInbox, PromotedInOrder, Admitted, Visible
<1>3. PromotersRemember /\ ReceiptsHold
  BY DEF Init, PromotersRemember, Remembers, ReceiptsHold, Quiet
<1> QED
  BY <1>1, <1>2, <1>3 DEF InboxInvariant

THEOREM InboxHolds == Spec => []InboxInvariant
<1>1. Init => InboxInvariant
  BY InboxBegins
<1>2. InboxInvariant /\ [Next]_inputVars => InboxInvariant'
  BY InboxStep
<1> QED
  BY <1>1, <1>2, PTL DEF Spec

(***************************************************************************)
(* The inbox and the history of a session agree: a promoted input has its  *)
(* message, and what the history has under the id of a pending one escaped *)
(* guardReservedID.                                                        *)
(***************************************************************************)
THEOREM HistoryAgrees == Spec => []HistoryMatchesInbox
<1>1. InboxInvariant => HistoryMatchesInbox
  BY DEF InboxInvariant
<1> QED
  BY <1>1, InboxHolds, PTL

(***************************************************************************)
(* However drains overlap, inputs are promoted in admission order.         *)
(***************************************************************************)
THEOREM PromotionKeepsOrder == Spec => []PromotedInOrder
<1>1. InboxInvariant => PromotedInOrder
  BY DEF InboxInvariant
<1> QED
  BY <1>1, InboxHolds, PTL

(***************************************************************************)
(* Concurrent retries are answered alike.                                  *)
(***************************************************************************)
THEOREM ReceiptsAreTrue == Spec => []ReceiptsHold
<1>1. InboxInvariant => ReceiptsHold
  BY DEF InboxInvariant
<1> QED
  BY <1>1, InboxHolds, PTL

-----------------------------------------------------------------------------
\* Only a publication ends in a death, of one of the causes there are.
LEMMA OnlyPublishingDies ==
  ASSUME InboxInvariant, Next, NEW r \in Runners, promoter[r].at # "died", promoter'[r].at = "died"
  PROVE  PublishPromoted(r)
<1>1. promoter \in [Runners -> PromoterRecord \union {Quiet}] /\ promoter' # promoter
  BY DEF InboxInvariant, TypeOK
<1>2. PICK p \in Runners :
        \/ \E s \in Sessions, d \in Deliveries : ReadCutoff(p, s, d)
        \/ ReadQueued(p) \/ ReadSteers(p) \/ PublishPromoted(p) \/ StopPromoting(p)
  BY <1>1 DEF Next, Prompt, PublishAdmitted, Return, LegacyPrompted, Delete, OtherMessage
<1>3. p = r
  <2>1. \A q \in Runners \ {p} : promoter'[q] = promoter[q]
    BY <1>1, <1>2 DEF ReadCutoff, ReadQueued, ReadSteers, PublishPromoted, Publish, StopPromoting
  <2> QED
    BY <2>1
<1>4. ASSUME NEW s \in Sessions, NEW d \in Deliveries, ReadCutoff(r, s, d) PROVE FALSE
  BY <1>1, <1>4 DEF ReadCutoff, Deliveries
<1>5. CASE ReadQueued(r) \/ ReadSteers(r)
  <2>1. promoter[r] \in PromoterRecord
    BY <1>1, <1>5 DEF ReadQueued, ReadSteers, Quiet
  <2>2. promoter'[r].at \in {"opening", "steering"}
    <3>1. PICK point \in {"opening", "steering"}, rows \in SUBSET Ids :
            promoter' = [promoter EXCEPT ![r] = [promoter[r] EXCEPT !.at = point, !.rows = rows]]
      <4>1. /\ Oldest(PendingOf(promoter[r].session, "queue")) \subseteq Ids
            /\ {id \in PendingOf(promoter[r].session, "steer") : UpTo(id, promoter[r].cutoff)} \subseteq Ids
        BY DEF Oldest, PendingOf
      <4>2. CASE ReadQueued(r)
        BY <4>1, <4>2 DEF ReadQueued
      <4>3. CASE ReadSteers(r)
        BY <4>1, <4>3 DEF ReadSteers
      <4> QED
        BY <1>5, <4>2, <4>3
    <3>2. [promoter[r] EXCEPT !.at = point, !.rows = rows].at = point
      BY <2>1 DEF PromoterRecord
    <3> QED
      BY <1>1, <3>1, <3>2
  <2> QED
    BY <2>2
<1>6. CASE StopPromoting(r)
  BY <1>1, <1>6 DEF StopPromoting, Quiet
<1> QED
  BY <1>2, <1>3, <1>4, <1>5, <1>6

LEMMA DeathHasCause ==
  ASSUME InboxInvariant, NEW r \in Runners, PublishPromoted(r), promoter'[r].at = "died"
  PROVE  promoter[r].session \in deleted \/ \E id \in promoter[r].rows : Poisoned(id)
<1>1. PICK id \in NextRows(r) : Publish(r, id)
  BY DEF PublishPromoted
<1>2. /\ promoter[r] \in PromoterRecord /\ promoter[r].at # "died" /\ id \in promoter[r].rows /\ id \in Ids
      /\ promoter[r].session \notin deleted => Admitted(id) /\ input[id].session = promoter[r].session
  BY HeadOfRows DEF PublishPromoted, Publishing
<1>3. promoter' # [promoter EXCEPT ![r] = [@ EXCEPT !.rows = promoter[r].rows \ {id}]]
  <2>1. [promoter[r] EXCEPT !.rows = promoter[r].rows \ {id}].at = promoter[r].at
    BY <1>2 DEF PromoterRecord
  <2> QED
    BY <1>2, <2>1 DEF InboxInvariant, TypeOK
<1>4. (Pending(id) /\ Visible(id)) \/ ~Admitted(id) \/ input[id].session # promoter[r].session
  BY <1>1, <1>3 DEF Publish
<1>5. CASE promoter[r].session \notin deleted
  <2>1. Pending(id) /\ Visible(id)
    BY <1>2, <1>4, <1>5
  <2>2. message[id].kind = "context"
    BY <1>2, <2>1 DEF InboxInvariant, HistoryMatchesInbox, Pending
  <2> QED
    BY <1>2, <2>1, <2>2 DEF Poisoned
<1> QED
  BY <1>5

(***************************************************************************)
(* A promotion dies only under a session that is deleted or of a message   *)
(* that escapes guardReservedID: no other writer of message ids poisons    *)
(* it, whatever races with admissions and drains.                          *)
(***************************************************************************)
THEOREM OnlyEscapedPoison == Spec => DiesOnlyPoisoned
<1> DEFINE Caused ==
      \A r \in Runners :
        promoter[r].at # "died" /\ promoter'[r].at = "died" =>
          promoter[r].session \in deleted \/ \E id \in promoter[r].rows : Poisoned(id)
<1>1. InboxInvariant /\ [Next]_inputVars => [Caused]_inputVars
  <2> SUFFICES ASSUME InboxInvariant, Next PROVE Caused
    OBVIOUS
  <2> SUFFICES ASSUME NEW r \in Runners, promoter[r].at # "died", promoter'[r].at = "died"
               PROVE  promoter[r].session \in deleted \/ \E id \in promoter[r].rows : Poisoned(id)
    OBVIOUS
  <2> QED
    BY OnlyPublishingDies, DeathHasCause
<1> QED
  BY <1>1, InboxHolds, PTL DEF Spec, DiesOnlyPoisoned

(***************************************************************************)
(* Rows and messages stay as they are, but for the one promotion and the   *)
(* end of their session, whoever else admits, drains or writes.            *)
(***************************************************************************)
THEOREM AdmissionsStay == Spec => AdmissionStands
<1>1. InboxInvariant /\ [Next]_inputVars => [\A id \in Ids : LifecycleForward(id)]_inputVars
  BY InboxStep DEF StoreGrows
<1> QED
  BY <1>1, InboxHolds, PTL DEF Spec, AdmissionStands

-----------------------------------------------------------------------------
(***************************************************************************)
(* The run loop on top of the inbox and the coordinator.  An input is due  *)
(* when a wake or a run that the coordinator took has promised it a drain. *)
(***************************************************************************)
Due(id) == Pending(id) /\ id \notin excused /\ ~WakeAhead(id)

\* The drain asks the inbox no more for inputs like this one.
Passed(id) == drain.at = "done" \/ (input[id].delivery = "steer" /\ drain.at \in {"no steer", "no more"})

\* The drain that goes on will take it, or the one that is asked to follow.
Owed(id) ==
  /\ Chain!Active
  /\ Covers(entry.current, id) \/ Covers(entry.pending, id)
  /\ entry.stopping \/ Passed(id) => Covers(entry.pending, id)

DueAreOwed == \A id \in Ids : Due(id) => Owed(id)

\* Wakes and boundaries carry the numbers of events that the bound allows.
NumbersFit ==
  /\ \A id \in Ids : Admitted(id) => input[id].admitted \in Chain!Seqs
  /\ asked \subseteq Chain!Seqs

DrainHasEntry == ~Chain!Active => drain = NoDrain

\* The steps of the run loop delete no session.
StoreStays == StoreGrows /\ UNCHANGED deleted

ExecutionInvariant ==
  /\ InboxInvariant
  /\ deleted = {}
  /\ Chain!TypeOK
  /\ drain \in DrainRecord
  /\ excused \subseteq Ids
  /\ NumbersFit
  /\ DrainHasEntry
  /\ DueAreOwed

-----------------------------------------------------------------------------
(***************************************************************************)
(* The inbox under the events and stops that SessionInput leaves to others.*)
(***************************************************************************)
LEMMA OtherEventsKeep ==
  ASSUME InboxInvariant, NEW s \in Sessions, NextEvent(s), UNCHANGED <<input, message, deleted, client, promoter>>
  PROVE  InboxInvariant' /\ StoreStays
<1>1. StoreInvariant
  BY StoreOfInbox
<1>2. StoreTyped
  BY <1>1 DEF StoreInvariant
<1>3. seq' \in [Sessions -> Nat] /\ \A t \in Sessions : seq[t] \in Nat /\ seq'[t] \in Nat /\ seq'[t] >= seq[t]
  BY <1>2 DEF NextEvent, StoreTyped
<1>4. \A id \in Ids : Admitted(id) => input[id] \in InputRecord
  BY <1>2 DEF StoreTyped, Admitted
<1>5. NumbersKnown'
  BY <1>1, <1>3, <1>4 DEF StoreInvariant, NumbersKnown, InputRecord, Admitted
<1>6. HistoryMatchesInbox' /\ PromotedInOrder' /\ LiveRows'
  BY <1>1 DEF StoreInvariant, HistoryMatchesInbox, PromotedInOrder, LiveRows, Promotes, Admitted, Pending, Visible, IsMessageOf
<1>7. StoreInvariant'
  BY <1>2, <1>3, <1>5, <1>6 DEF StoreInvariant, StoreTyped
<1>8. StoreGrows
  <2>1. \A i \in Ids : Admitted(i) => input[i] = [input[i] EXCEPT !.promoted = input[i].promoted]
    BY <1>4 DEF InputRecord
  <2> QED
    BY <1>3, <2>1 DEF StoreGrows, LifecycleForward, Admitted, Visible
<1>9. client = [d \in Clients |-> client[d]] /\ promoter = [r \in Runners |-> promoter[r]]
  BY DEF InboxInvariant, TypeOK
<1> QED
  BY <1>7, <1>8, <1>9, StepKeeps DEF StoreStays

LEMMA StopsKeep ==
  ASSUME InboxInvariant, UNCHANGED <<seq, input, message, deleted>>,
         promoter' = [r \in Runners |-> Quiet],
         client' = client \/ client' = [c \in Clients |-> Quiet]
  PROVE  InboxInvariant' /\ StoreStays
<1>1. StoreInvariant' /\ StoreGrows
  BY StoreOfInbox, StoreSame
<1>2. client = [d \in Clients |-> client[d]]
  BY DEF InboxInvariant, TypeOK
<1>3. \A r \in Runners : PromoterRight(r)'
  BY DEF PromoterRight, Remembers, Quiet
<1>4. \A c \in Clients : client'[c] = Quiet => ClientRight(c)'
  BY DEF ClientRight, Holds, Quiet
<1>5. CASE client' = client
  BY <1>1, <1>2, <1>3, <1>5, StepKeeps DEF StoreStays
<1>6. CASE client' = [c \in Clients |-> Quiet]
  BY <1>1, <1>3, <1>4, <1>6, StepKeeps DEF StoreStays
<1> QED
  BY <1>5, <1>6

\* The inbox under its own steps.
LEMMA InboxStepStays ==
  ASSUME InboxInvariant, [Next]_inputVars, UNCHANGED deleted
  PROVE  InboxInvariant' /\ StoreStays
BY InboxStep DEF StoreStays

\* The rows that are there stay as they are but for their promotion.
LEMMA RowsStay ==
  ASSUME InboxInvariant, StoreStays, NEW id \in Ids, Admitted(id)
  PROVE  /\ input[id].admitted \in Nat /\ input'[id].admitted = input[id].admitted
         /\ input'[id].delivery = input[id].delivery
         /\ Admitted(id)' /\ (Pending(id)' => Pending(id))
<1>1. input[id] \in InputRecord
  BY DEF InboxInvariant, TypeOK, Admitted
<1>2. LifecycleForward(id) /\ ~GoesWith(input[id].session)
  BY DEF StoreStays, StoreGrows, GoesWith
<1>3. input'[id] = [input[id] EXCEPT !.promoted = input'[id].promoted] /\ Admitted(id)'
  BY <1>2 DEF LifecycleForward
<1>4. Pending(id)' => Pending(id)
  BY <1>2 DEF LifecycleForward, Pending, Admitted
<1> QED
  BY <1>1, <1>3, <1>4 DEF InputRecord

LEMMA NumbersStayFit ==
  ASSUME InboxInvariant, StoreStays, NumbersFit, \A id \in Ids : Admitted(id)' => Admitted(id),
         asked' \subseteq asked
  PROVE  NumbersFit'
BY RowsStay DEF NumbersFit, Chain!Seqs
-----------------------------------------------------------------------------
(***************************************************************************)
(* The coordinator as the run loop sees it: the demands of its entry.      *)
(***************************************************************************)
Reaches(demand, n) == demand.tag = "run" \/ (demand.tag = "wake" /\ n <= demand.seq)

\* The entry stays, and its follow-up does not shrink.
FollowsOn ==
  Chain!Active =>
    /\ Chain!Active'
    /\ entry'.current = entry.current /\ entry'.stopping = entry.stopping
    /\ \A n \in Nat : Reaches(entry.pending, n) => Reaches(entry'.pending, n)

LEMMA DemandsJoin ==
  ASSUME NEW former \in Chain!Demand \union {Chain!NoDemand}, NEW latter \in Chain!Demand
  PROVE  /\ Chain!Coalesce(former, latter) \in Chain!Demand
         /\ \A n \in Nat : Reaches(former, n) \/ Reaches(latter, n) => Reaches(Chain!Coalesce(former, latter), n)
<1>1. MaxSeq \in Nat
  BY SeqAssumption
<1>2. former.seq \in Chain!Seqs \union {Chain!None} /\ latter.seq \in Chain!Seqs \union {Chain!None}
  BY DEF Chain!Demand, Chain!NoDemand, Chain!Run, Chain!WakeAt
<1>3. PICK m \in Chain!Seqs \union {Chain!None} : m = Chain!MaxOf(former.seq, latter.seq) /\ former.seq <= m /\ latter.seq <= m
  BY <1>1, <1>2 DEF Chain!MaxOf, Chain!Seqs, Chain!None
<1>4. Chain!Coalesce(former, latter) =
        IF former.tag = "run" \/ latter.tag = "run" THEN Chain!Run ELSE Chain!WakeAt(m)
  BY <1>3 DEF Chain!Coalesce
<1>5. CASE former.tag = "run" \/ latter.tag = "run"
  BY <1>4, <1>5 DEF Reaches, Chain!Demand, Chain!Run
<1>6. CASE ~(former.tag = "run" \/ latter.tag = "run")
  <2>1. Chain!Coalesce(former, latter) = [tag |-> "wake", seq |-> m]
    BY <1>4, <1>6 DEF Chain!WakeAt
  <2>2. m \in Nat /\ former.seq \in Nat /\ latter.seq \in Nat
    BY <1>1, <1>2, <1>3 DEF Chain!Seqs, Chain!None
  <2>3. \A n \in Nat : Reaches(former, n) \/ Reaches(latter, n) => Reaches(Chain!Coalesce(former, latter), n)
    BY <1>3, <1>6, <2>1, <2>2 DEF Reaches
  <2> QED
    BY <2>1, <2>3 DEF Chain!Demand, Chain!WakeAt
<1> QED
  BY <1>5, <1>6

\* A new entry starts with its demand, and nothing follows it yet.
LEMMA EntryStarts ==
  ASSUME NEW d \in Chain!Demand, NEW explicit \in BOOLEAN
  PROVE  /\ Chain!NewEntry(d, explicit) \in Chain!EntryRecord
         /\ Chain!NewEntry(d, explicit) # NoEntry
         /\ Chain!NewEntry(d, explicit).current = d /\ ~Chain!NewEntry(d, explicit).stopping
<1>1. Chain!NewEntry(d, explicit) \in Chain!EntryRecord
  BY DEF Chain!NewEntry, Chain!EntryRecord, Chain!NoDemand, Chain!None
<1> QED
  BY <1>1, EntryAssumption DEF Chain!NewEntry

\* A wake the coordinator takes is current or follows.
LEMMA ChainWakes ==
  ASSUME Chain!TypeOK, NEW n \in Chain!Seqs, Chain!Wake(n)
  PROVE  /\ Chain!TypeOK' /\ FollowsOn
         /\ ~TakesWake(n) => entry' = entry
         /\ TakesWake(n) =>
              /\ Chain!Active'
              /\ IF Chain!Active THEN Reaches(entry'.pending, n)
                 ELSE entry'.current = Chain!WakeAt(n) /\ ~entry'.stopping
<1>1. Chain!WakeAt(n) \in Chain!Demand /\ barrier' = barrier /\ caller' = caller
  BY DEF Chain!Demand, Chain!Wake
<1>2. CASE ~TakesWake(n)
  <2>1. entry' = entry
    BY <1>2 DEF TakesWake, Chain!Wake
  <2> QED
    BY <1>1, <1>2, <2>1 DEF FollowsOn, Chain!TypeOK, Chain!Active
<1>3. CASE TakesWake(n) /\ ~Chain!Active
  <2>1. entry' = Chain!NewEntry(Chain!WakeAt(n), FALSE)
    BY <1>3 DEF TakesWake, Chain!Wake
  <2> QED
    BY <1>1, <1>3, <2>1, EntryStarts DEF FollowsOn, Chain!TypeOK, Chain!Active
<1>4. CASE TakesWake(n) /\ Chain!Active
  <2>1. entry \in Chain!EntryRecord
    BY <1>4 DEF Chain!TypeOK, Chain!Active
  <2>2. PICK d \in Chain!Demand : d = Chain!Coalesce(entry.pending, Chain!WakeAt(n))
      /\ \A m \in Nat : Reaches(entry.pending, m) \/ Reaches(Chain!WakeAt(n), m) => Reaches(d, m)
    BY <1>1, <2>1, DemandsJoin DEF Chain!EntryRecord
  <2>3. entry' = [entry EXCEPT !.pending = d]
    BY <1>4, <2>2 DEF TakesWake, Chain!Wake
  <2>4. entry' \in Chain!EntryRecord /\ entry'.pending = d /\ entry'.current = entry.current /\ entry'.stopping = entry.stopping
    BY <2>1, <2>3 DEF Chain!EntryRecord
  <2>5. n \in Nat /\ Reaches(Chain!WakeAt(n), n)
    BY SeqAssumption DEF Chain!Seqs, Chain!WakeAt, Reaches
  <2>6. entry' # NoEntry
    BY <2>4, EntryAssumption
  <2> QED
    BY <1>1, <1>4, <2>2, <2>4, <2>5, <2>6 DEF FollowsOn, Chain!TypeOK, Chain!Active
<1> QED
  BY <1>2, <1>3, <1>4

LEMMA ChainRuns ==
  ASSUME Chain!TypeOK, NEW c \in Callers, Chain!CallRun(c)
  PROVE  Chain!TypeOK' /\ FollowsOn /\ Chain!Active'
<1>1. Chain!Run \in Chain!Demand /\ barrier' = barrier
  BY DEF Chain!Demand, Chain!CallRun
<1>2. CASE ~Chain!Active
  <2>1. entry' = Chain!NewEntry(Chain!Run, FALSE) /\ caller' = [caller EXCEPT ![c] = Chain!Waiting("done")]
    BY <1>2 DEF Chain!CallRun
  <2>2. caller' \in [Callers -> Chain!CallerRecord]
    BY <2>1 DEF Chain!TypeOK, Chain!CallerRecord, Chain!Waiting
  <2> QED
    BY <1>1, <1>2, <2>1, <2>2, EntryStarts DEF FollowsOn, Chain!TypeOK, Chain!Active
<1>3. CASE Chain!Active
  <2>1. entry \in Chain!EntryRecord
    BY <1>3 DEF Chain!TypeOK, Chain!Active
  <2>2. PICK on \in {"settled", "explicit", "done"} : on = Chain!JoinOn(entry)
    BY DEF Chain!JoinOn
  <2>3. PICK d \in Chain!Demand : d = Chain!Coalesce(entry.pending, Chain!Run)
      /\ \A m \in Nat : Reaches(entry.pending, m) => Reaches(d, m)
    BY <1>1, <2>1, DemandsJoin DEF Chain!EntryRecord
  <2>4. entry' = IF on = "explicit" THEN [entry EXCEPT !.pending = d, !.explicit = TRUE] ELSE entry
    BY <1>3, <2>2, <2>3 DEF Chain!CallRun
  <2>5. entry' \in Chain!EntryRecord /\ entry'.current = entry.current /\ entry'.stopping = entry.stopping
      /\ \A m \in Nat : Reaches(entry.pending, m) => Reaches(entry'.pending, m)
    BY <2>1, <2>3, <2>4 DEF Chain!EntryRecord
  <2>6. caller' = [caller EXCEPT ![c] =
          [Chain!Waiting(on) EXCEPT !.forced = entry.current.tag = "run" /\ entry.owner = "draining"]]
    BY <1>3, <2>2 DEF Chain!CallRun
  <2>7. caller' \in [Callers -> Chain!CallerRecord]
    BY <2>6 DEF Chain!TypeOK, Chain!CallerRecord, Chain!Waiting
  <2>8. entry' # NoEntry
    BY <2>5, EntryAssumption
  <2> QED
    BY <1>1, <1>3, <2>5, <2>7, <2>8 DEF FollowsOn, Chain!TypeOK, Chain!Active
<1> QED
  BY <1>2, <1>3

LEMMA ChainLeaves ==
  ASSUME Chain!TypeOK, NEW c \in Callers, Chain!GiveUp(c) \/ Chain!Rest(c)
  PROVE  Chain!TypeOK' /\ FollowsOn /\ entry' = entry
<1>1. entry' = entry /\ barrier' = barrier /\ caller' = [caller EXCEPT ![c] = Chain!Resting]
  BY DEF Chain!GiveUp, Chain!Rest
<1> QED
  BY <1>1 DEF FollowsOn, Chain!TypeOK, Chain!CallerRecord, Chain!Resting, Chain!Active
LEMMA ChainBegins ==
  ASSUME Chain!TypeOK, Chain!Begin
  PROVE  Chain!TypeOK' /\ FollowsOn /\ Chain!Active'
<1>1. entry \in Chain!EntryRecord /\ Chain!Active
  BY DEF Chain!Begin, Chain!TypeOK, Chain!Active
<1>2. entry' = [entry EXCEPT !.owner = "draining"] /\ barrier' = barrier
  BY DEF Chain!Begin
<1>3. /\ entry' \in Chain!EntryRecord
      /\ entry'.current = entry.current /\ entry'.pending = entry.pending /\ entry'.stopping = entry.stopping
  BY <1>1, <1>2 DEF Chain!EntryRecord
<1>4. caller' = [c \in Callers |->
        IF caller[c].at \in {"done", "explicit"} /\ entry.current.tag = "run"
          THEN [caller[c] EXCEPT !.forced = TRUE] ELSE caller[c]]
  BY DEF Chain!Begin
<1>5. caller' \in [Callers -> Chain!CallerRecord]
  BY <1>4 DEF Chain!TypeOK, Chain!CallerRecord
<1>6. entry' # NoEntry
  BY <1>3, EntryAssumption
<1> QED
  BY <1>1, <1>2, <1>3, <1>5, <1>6 DEF FollowsOn, Chain!TypeOK, Chain!Active

\* What a number newer than the interrupt has been promised, the interrupt leaves.
Spared(n, k) ==
  /\ k > n
  /\ entry.pending # Chain!Run
  /\ entry.current.tag = "run" => Reaches(entry.pending, k)
  /\ Reaches(entry.current, k) \/ Reaches(entry.pending, k)

LEMMA ChainInterrupts ==
  ASSUME Chain!TypeOK, NEW n \in Chain!Seqs, Chain!Interrupt(n)
  PROVE  /\ Chain!TypeOK' /\ (Chain!Active' <=> Chain!Active)
         /\ \A k \in Nat : Chain!Active /\ Spared(n, k) =>
              entry' = entry \/ Reaches(entry'.pending, k)
<1>1. barrier' \in Chain!Seqs \union {Chain!None} /\ n \in Nat /\ n # Chain!None
  BY SeqAssumption DEF Chain!Interrupt, Chain!TypeOK, Chain!Seqs, Chain!None
<1>2. CASE ~Chain!Active \/ Chain!KeepsCurrent(entry, n)
  <2>1. entry' = entry /\ caller' = caller
    BY <1>2 DEF Chain!Interrupt
  <2> QED
    BY <1>1, <2>1 DEF Chain!TypeOK, Chain!Active
<1>3. CASE Chain!Active /\ ~Chain!KeepsCurrent(entry, n)
  <2>1. entry \in Chain!EntryRecord
    BY <1>3 DEF Chain!TypeOK, Chain!Active
  <2>2. entry.interruptSeq \in Chain!Seqs \union {Chain!None} /\ entry.stopping \in BOOLEAN
      /\ entry.pending \in Chain!Demand \union {Chain!NoDemand} /\ entry.current \in Chain!Demand
    BY <2>1 DEF Chain!EntryRecord
  <2>3. PICK m \in Chain!Seqs \union {Chain!None} : m = IF entry.stopping THEN Chain!MaxOf(entry.interruptSeq, n) ELSE n
    BY <2>2 DEF Chain!MaxOf
  <2>4. PICK d \in Chain!Demand \union {Chain!NoDemand} : d = Chain!Unsuppressed(entry, n)
    BY <2>2 DEF Chain!Unsuppressed
  <2>5. entry' = [entry EXCEPT !.stopping = TRUE, !.interruptSeq = m, !.pending = d]
    BY <1>3, <2>3, <2>4 DEF Chain!Interrupt
  <2>6. entry' \in Chain!EntryRecord /\ entry'.pending = d
    BY <2>1, <2>5 DEF Chain!EntryRecord
  <2>7. caller' = [c \in Callers |->
          IF caller[c].at \in {"done", "explicit"} THEN [caller[c] EXCEPT !.hit = TRUE] ELSE caller[c]]
    BY <1>3 DEF Chain!Interrupt
  <2>8. caller' \in [Callers -> Chain!CallerRecord]
    BY <2>7 DEF Chain!TypeOK, Chain!CallerRecord
  <2>9. ASSUME NEW k \in Nat, Spared(n, k) PROVE Reaches(d, k)
    <3>1. entry.current.seq \in Nat /\ entry.pending.seq \in Nat
      BY <2>2, SeqAssumption DEF Chain!Demand, Chain!NoDemand, Chain!Run, Chain!WakeAt, Chain!Seqs, Chain!None
    <3>2. Reaches(entry.pending, k)
      BY <1>1, <1>3, <2>9, <3>1 DEF Spared, Reaches, Chain!KeepsCurrent, Chain!None
    <3>3. entry.pending.tag = "wake"
      BY <2>2, <2>9, <3>2 DEF Spared, Reaches, Chain!Demand, Chain!NoDemand, Chain!Run, Chain!WakeAt
    <3>4. entry.pending.seq > n /\ entry.pending.seq # Chain!None
      BY <1>1, <2>9, <3>1, <3>2, <3>3 DEF Spared, Reaches, Chain!None
    <3> QED
      BY <1>1, <2>4, <3>2, <3>3, <3>4 DEF Chain!Unsuppressed
  <2>10. entry' # NoEntry
    BY <2>6, EntryAssumption
  <2> QED
    BY <1>1, <1>3, <2>6, <2>8, <2>9, <2>10 DEF Chain!TypeOK, Chain!Active
<1> QED
  BY <1>2, <1>3

\* When a drain ends, the follow-up is the next demand, or the session is idle.
LEMMA ChainSettles ==
  ASSUME Chain!TypeOK, NEW exit \in Chain!Exits, Chain!Settle(exit)
  PROVE  /\ Chain!TypeOK' /\ Chain!Active
         /\ exit = "interrupted" => entry.stopping
         /\ IF entry.pending = Chain!NoDemand THEN ~Chain!Active'
            ELSE Chain!Active' /\ entry'.current = entry.pending /\ ~entry'.stopping
<1> DEFINE answered == IF Chain!SettlesExplicit(entry) THEN {"explicit"} ELSE {}
           explicit == entry.explicit /\ ~Chain!SettlesExplicit(entry)
           goesOn == exit = "success" /\ ~entry.stopping /\ entry.pending # Chain!NoDemand
           on == IF goesOn THEN answered ELSE answered \union {"done", "settled"}
<1>1. entry \in Chain!EntryRecord /\ Chain!Active /\ (exit = "interrupted" => entry.stopping)
  BY DEF Chain!Settle, Chain!CanExit, Chain!TypeOK, Chain!Active
<1>2. Chain!Tell(on, exit) /\ barrier' = barrier
  BY DEF Chain!Settle
<1>3. explicit \in BOOLEAN /\ on \in SUBSET {"done", "explicit", "settled"}
  BY <1>1 DEF Chain!EntryRecord
<1>4. caller' \in [Callers -> Chain!CallerRecord]
  <2> HIDE DEF on
  <2>1. \A c \in Callers : caller[c] \in Chain!CallerRecord
    BY DEF Chain!TypeOK
  <2>2. exit \in {"success", "failure", "interrupted"}
    BY DEF Chain!Exits
  <2>3. ASSUME NEW c \in Callers
        PROVE  /\ [caller[c] EXCEPT !.at = "again"] \in Chain!CallerRecord
               /\ [caller[c] EXCEPT !.at = exit] \in Chain!CallerRecord
    BY <2>1, <2>2 DEF Chain!CallerRecord, Chain!Exits
  <2>4. caller' = [c \in Callers |->
          CASE caller[c].at = "settled" /\ "settled" \in on -> [caller[c] EXCEPT !.at = "again"]
            [] caller[c].at \in on \ {"settled"} -> [caller[c] EXCEPT !.at = exit]
            [] OTHER -> caller[c]]
    BY <1>2 DEF Chain!Tell, Chain!Answer
  <2>5. ASSUME NEW c \in Callers PROVE caller'[c] \in Chain!CallerRecord
    BY <2>1, <2>3, <2>4
  <2> QED
    BY <2>4, <2>5
<1>5. CASE goesOn
  <2>1. entry' = [entry EXCEPT !.current = entry.pending, !.pending = Chain!NoDemand,
                               !.explicit = explicit, !.owner = "starting"]
    BY <1>5 DEF Chain!Settle
  <2>2. entry.pending \in Chain!Demand
    BY <1>1, <1>5 DEF Chain!EntryRecord
  <2>3. entry' \in Chain!EntryRecord /\ entry'.current = entry.pending /\ entry'.stopping = entry.stopping
    BY <1>1, <1>3, <2>1, <2>2 DEF Chain!EntryRecord
  <2>4. entry' # NoEntry
    BY <2>3, EntryAssumption
  <2> QED
    BY <1>1, <1>2, <1>4, <1>5, <2>3, <2>4 DEF Chain!TypeOK, Chain!Active
<1>6. CASE ~goesOn
  <2>1. entry' = Chain!Successor(entry, explicit)
    BY <1>6 DEF Chain!Settle
  <2>2. CASE entry.pending = Chain!NoDemand
    <3>1. entry' = NoEntry
      BY <2>1, <2>2 DEF Chain!Successor
    <3> QED
      BY <1>1, <1>2, <1>4, <2>2, <3>1 DEF Chain!TypeOK, Chain!Active
  <2>3. CASE entry.pending # Chain!NoDemand
    <3>1. entry.pending \in Chain!Demand
      BY <1>1, <2>3 DEF Chain!EntryRecord
    <3>2. entry' = Chain!NewEntry(entry.pending, explicit)
      BY <2>1, <2>3 DEF Chain!Successor
    <3> QED
      BY <1>1, <1>2, <1>3, <1>4, <2>3, <3>1, <3>2, EntryStarts DEF Chain!TypeOK, Chain!Active
  <2> QED
    BY <2>2, <2>3
<1> QED
  BY <1>5, <1>6
-----------------------------------------------------------------------------
(***************************************************************************)
(* What is due was due before, unless it is new, and what is owed stays so.*)
(***************************************************************************)
LEMMA DueBefore ==
  ASSUME InboxInvariant, StoreStays, NEW id \in Ids, Admitted(id), Due(id)',
         WakeAhead(id) => WakeAhead(id)', Pending(id)' /\ id \in excused => id \in excused'
  PROVE  Due(id)
<1>1. Pending(id)
  BY RowsStay DEF Due
<1> QED
  BY <1>1 DEF Due

LEMMA OwedLater ==
  ASSUME InboxInvariant, StoreStays, NEW id \in Ids, Admitted(id), Owed(id), FollowsOn,
         Passed(id)' => Passed(id)
  PROVE  Owed(id)'
<1>1. PICK k \in Nat : k = input[id].admitted /\ k = input'[id].admitted
  BY RowsStay
<1>2. Reaches(entry.current, k) \/ Reaches(entry.pending, k)
  BY <1>1 DEF Owed, Covers, Reaches
<1>3. entry.stopping \/ Passed(id) => Reaches(entry.pending, k)
  BY <1>1 DEF Owed, Covers, Reaches
<1>4. /\ Chain!Active' /\ entry'.current = entry.current /\ entry'.stopping = entry.stopping
      /\ Reaches(entry.pending, k) => Reaches(entry'.pending, k)
  BY DEF FollowsOn, Owed
<1> QED
  BY <1>1, <1>2, <1>3, <1>4 DEF Owed, Covers, Reaches

LEMMA PassedSame ==
  ASSUME InboxInvariant, StoreStays, NEW id \in Ids, Admitted(id), drain' = drain
  PROVE  Passed(id)' => Passed(id)
BY RowsStay DEF Passed

\* A step that moves no drain and lets the follow-up only grow.
LEMMA FollowingKeeps ==
  ASSUME ExecutionInvariant, InboxInvariant', StoreStays, Chain!TypeOK', FollowsOn, drain' = drain,
         asked' \subseteq asked, excused' \subseteq Ids,
         \A id \in Ids : Admitted(id)' => Admitted(id),
         \A id \in Ids : Due(id)' /\ ~Due(id) => Owed(id)'
  PROVE  ExecutionInvariant'
<1>1. InboxInvariant /\ NumbersFit /\ DueAreOwed /\ DrainHasEntry /\ drain \in DrainRecord
  BY DEF ExecutionInvariant
<1>2. NumbersFit'
  BY <1>1, NumbersStayFit
<1>3. DueAreOwed'
  <2> SUFFICES ASSUME NEW id \in Ids, Due(id)', Due(id) PROVE Owed(id)'
    BY DEF DueAreOwed
  <2>1. Admitted(id) /\ Owed(id)
    BY <1>1 DEF DueAreOwed, Due, Pending
  <2> QED
    BY <1>1, <2>1, OwedLater, PassedSame
<1>4. DrainHasEntry'
  BY <1>1 DEF DrainHasEntry, FollowsOn
<1> QED
  BY <1>1, <1>2, <1>3, <1>4 DEF ExecutionInvariant, StoreStays

LEMMA ChainStill == UNCHANGED chainVars => FollowsOn /\ (Chain!TypeOK => Chain!TypeOK')
BY DEF chainVars, FollowsOn, Chain!TypeOK, Chain!Active

\* The inbox does one of its own steps.
LEMMA InboxSteps ==
  /\ \A c \in Clients :
       (\E q \in Request : Prompt(c, q)) \/ PublishAdmitted(c) \/ Return(c) => [Next]_inputVars /\ UNCHANGED deleted
  /\ UNCHANGED inputVars => [Next]_inputVars /\ UNCHANGED deleted
  /\ \A r \in Runners :
       \/ \E s \in Sessions, d \in Deliveries : ReadCutoff(r, s, d)
       \/ ReadQueued(r) \/ ReadSteers(r) \/ PublishPromoted(r) \/ StopPromoting(r)
       => [Next]_inputVars /\ UNCHANGED deleted
BY DEF Next, Prompt, PublishAdmitted, Return, ReadCutoff, ReadQueued, ReadSteers, PublishPromoted, Publish,
       StopPromoting, inputVars

-----------------------------------------------------------------------------
(***************************************************************************)
(* The calls of clients.                                                   *)
(***************************************************************************)
LEMMA AskPromptKeeps ==
  ASSUME ExecutionInvariant, NEW c \in Clients, NEW q \in Request, AskPrompt(c, q)
  PROVE  ExecutionInvariant'
<1>1. InboxInvariant /\ Chain!TypeOK /\ excused \subseteq Ids
  BY DEF ExecutionInvariant
<1>2. InboxInvariant' /\ StoreStays
  BY <1>1, InboxSteps, InboxStepStays DEF AskPrompt
<1>3. FollowsOn /\ Chain!TypeOK' /\ drain' = drain /\ asked' = asked /\ excused' = excused
  BY <1>1, ChainStill DEF AskPrompt
<1>4. input' = input /\ client[c] = Quiet /\ \A d \in Clients : d # c => client'[d] = client[d]
  BY <1>1 DEF AskPrompt, Prompt, InboxInvariant, TypeOK
<1>5. \A id \in Ids : WakeAhead(id) => WakeAhead(id)'
  BY <1>4 DEF WakeAhead, Quiet
<1>6. \A id \in Ids : (Admitted(id)' => Admitted(id)) /\ (Due(id)' => Due(id))
  BY <1>3, <1>4, <1>5 DEF Due, Pending, Admitted
<1> QED
  BY <1>1, <1>2, <1>3, <1>6, FollowingKeeps

LEMMA AdmitPromptKeeps ==
  ASSUME ExecutionInvariant, NEW c \in Clients, AdmitPrompt(c)
  PROVE  ExecutionInvariant'
<1>1. /\ InboxInvariant /\ Chain!TypeOK /\ NumbersFit /\ DueAreOwed /\ DrainHasEntry
      /\ drain \in DrainRecord /\ excused \subseteq Ids
  BY DEF ExecutionInvariant
<1>2. InboxInvariant' /\ StoreStays
  BY <1>1, InboxSteps, InboxStepStays DEF AdmitPrompt
<1>3. /\ FollowsOn /\ Chain!TypeOK' /\ entry' = entry
      /\ drain' = drain /\ asked' = asked /\ excused' = excused
  BY <1>1, ChainStill DEF AdmitPrompt, chainVars
<1>4. PICK q \in Request : q = client[c].request /\ client[c].at = "publish"
  BY <1>1 DEF AdmitPrompt, PublishAdmitted, InboxInvariant, TypeOK, ClientRecord, Quiet
<1>5. \A d \in Clients : d # c => client'[d] = client[d]
  BY <1>1 DEF AdmitPrompt, PublishAdmitted, InboxInvariant, TypeOK
<1>6. \A id \in Ids : WakeAhead(id) => WakeAhead(id)'
  BY <1>4, <1>5 DEF WakeAhead
<1>7. \A id \in Ids : Admitted(id) /\ Due(id)' => Due(id)
  BY <1>1, <1>2, <1>3, <1>6, DueBefore
\* The input that is admitted has its wake ahead of it.
<1>8. ASSUME NEW id \in Ids, Admitted(id)', ~Admitted(id)
      PROVE  WakeAhead(id)' /\ input'[id].admitted \in Chain!Seqs
  <2> DEFINE row == InputRow(q, seq[q.session] + 1, None)
  <2>1. q.session \in Sessions /\ q.id \in Ids /\ seq[q.session] \in Nat
    BY <1>1 DEF Request, InboxInvariant, TypeOK
  <2>2. /\ Room(q.session) /\ input' = [input EXCEPT ![q.id] = row]
        /\ client' = [client EXCEPT ![c] = Answered(q, row, FALSE)]
    BY <1>4, <1>8 DEF AdmitPrompt, PublishAdmitted, Admitted
  <2>3. id = q.id
    BY <1>1, <1>8, <2>2 DEF InboxInvariant, TypeOK, Admitted
  <2>4. input'[id] = row /\ row.admitted = seq[q.session] + 1
    BY <1>1, <2>1, <2>2, <2>3 DEF InboxInvariant, TypeOK, InputRow
  <2>5. Answered(q, row, FALSE) = [at |-> "receipt", request |-> q, admitted |-> row.admitted, retry |-> FALSE]
    BY DEF Answered, Equivalent, InputRow
  <2>6. client'[c] = [at |-> "receipt", request |-> q, admitted |-> row.admitted, retry |-> FALSE]
    BY <1>1, <2>2, <2>5 DEF InboxInvariant, TypeOK
  <2>7. client'[c].at = "receipt" /\ client'[c].request = q
    <3> HIDE DEF row
    <3> QED
      BY <2>6
  <2>8. WakeAhead(id)'
    BY <2>3, <2>7 DEF WakeAhead
  <2> QED
    BY <2>1, <2>2, <2>4, <2>8, SeqAssumption DEF Room, Chain!Seqs
<1>9. NumbersFit'
  <2>1. \A id \in Ids : Admitted(id) => input'[id].admitted = input[id].admitted
    BY <1>1, <1>2, RowsStay
  <2> QED
    BY <1>1, <1>3, <1>8, <2>1 DEF NumbersFit, Chain!Seqs
<1>10. DueAreOwed'
  <2> SUFFICES ASSUME NEW id \in Ids, Due(id)' PROVE Owed(id)'
    BY DEF DueAreOwed
  <2>1. Admitted(id)
    BY <1>8 DEF Due, Pending
  <2>2. Owed(id)
    BY <1>1, <1>7, <2>1 DEF DueAreOwed
  <2> QED
    BY <1>1, <1>2, <1>3, <2>1, <2>2, OwedLater, PassedSame
<1>11. DrainHasEntry'
  BY <1>1, <1>3 DEF DrainHasEntry, Chain!Active
<1> QED
  BY <1>1, <1>2, <1>3, <1>9, <1>10, <1>11 DEF ExecutionInvariant, StoreStays
LEMMA EnqueueWakeKeeps ==
  ASSUME ExecutionInvariant, NEW c \in Clients, EnqueueWake(c)
  PROVE  ExecutionInvariant'
<1>1. /\ InboxInvariant /\ Chain!TypeOK /\ NumbersFit /\ DueAreOwed /\ DrainHasEntry
      /\ drain \in DrainRecord /\ excused \subseteq Ids /\ deleted = {}
  BY DEF ExecutionInvariant
<1>2. InboxInvariant' /\ StoreStays
  BY <1>1, InboxSteps, InboxStepStays DEF EnqueueWake
<1>3. PICK q \in Request : q = client[c].request /\ client[c].at = "receipt"
  BY <1>1 DEF EnqueueWake, InboxInvariant, TypeOK, ClientRecord, Quiet
<1>4. q.id \in Ids
  BY DEF Request
<1>5. PICK n \in Chain!Seqs : n = client[c].admitted /\ n = input[q.id].admitted
  BY <1>1, <1>3, <1>4 DEF InboxInvariant, ReceiptsHold, NumbersFit
<1>6. input' = input /\ drain' = drain /\ asked' = asked /\ \A d \in Clients : d # c => client'[d] = client[d]
  BY <1>1 DEF EnqueueWake, Return, InboxInvariant, TypeOK
<1>7. Chain!Wake(n)
  BY <1>5 DEF EnqueueWake
<1>8. excused' = IF TakesWake(n) THEN excused \ {q.id} ELSE excused \union ({q.id} \intersect AllPending)
  BY <1>3, <1>5 DEF EnqueueWake
<1>9. excused' \subseteq Ids
  BY <1>1, <1>4, <1>8
<1>10. Chain!TypeOK' /\ FollowsOn
  BY <1>1, <1>7, ChainWakes
<1>11. \A id \in Ids : id # q.id => (WakeAhead(id) => WakeAhead(id)')
  BY <1>3, <1>6 DEF WakeAhead
<1>12. \A id \in Ids : id # q.id => (Due(id)' => Due(id))
  BY <1>6, <1>8, <1>11 DEF Due, Pending, Admitted
<1>13. ASSUME Due(q.id)' PROVE Owed(q.id)'
  <2>1. Pending(q.id) /\ q.id \notin excused'
    BY <1>6, <1>13 DEF Due, Pending, Admitted
  <2>2. TakesWake(n)
    BY <1>4, <1>8, <2>1 DEF AllPending
  <2>3. input'[q.id].admitted = n /\ n \in Nat
    BY <1>5, <1>6, SeqAssumption DEF Chain!Seqs
  <2>4. CASE Chain!Active
    <3>1. Chain!Active' /\ Reaches(entry'.pending, n)
      BY <1>1, <1>7, <2>2, <2>4, ChainWakes
    <3> QED
      BY <2>3, <3>1 DEF Owed, Covers, Reaches
  <2>5. CASE ~Chain!Active
    <3>1. Chain!Active' /\ entry'.current = Chain!WakeAt(n) /\ ~entry'.stopping
      BY <1>1, <1>7, <2>2, <2>5, ChainWakes
    <3>2. drain'.at = "none"
      BY <1>1, <1>6, <2>5 DEF DrainHasEntry, NoDrain
    <3>3. ~Passed(q.id)'
      BY <3>2 DEF Passed
    <3> QED
      BY <2>3, <3>1, <3>3 DEF Owed, Covers, Chain!WakeAt
  <2> QED
    BY <2>4, <2>5
<1>14. \A id \in Ids : (Admitted(id)' => Admitted(id)) /\ (Due(id)' /\ ~Due(id) => Owed(id)')
  BY <1>6, <1>12, <1>13 DEF Admitted
<1> QED
  BY <1>1, <1>2, <1>6, <1>9, <1>10, <1>14, FollowingKeeps

LEMMA AnswerOnlyKeeps ==
  ASSUME ExecutionInvariant, NEW c \in Clients, AnswerOnly(c)
  PROVE  ExecutionInvariant'
<1>1. InboxInvariant /\ Chain!TypeOK /\ excused \subseteq Ids
  BY DEF ExecutionInvariant
<1>2. InboxInvariant' /\ StoreStays
  BY <1>1, InboxSteps, InboxStepStays DEF AnswerOnly
<1>3. FollowsOn /\ Chain!TypeOK' /\ drain' = drain /\ asked' = asked
  BY <1>1, ChainStill DEF AnswerOnly
<1>4. input' = input /\ \A d \in Clients : d # c => client'[d] = client[d]
  BY <1>1 DEF AnswerOnly, Return, InboxInvariant, TypeOK
<1>5. excused \subseteq excused' /\ excused' \subseteq Ids
  BY <1>1 DEF AnswerOnly, AllPending
<1>6. ASSUME NEW id \in Ids, Due(id)' PROVE Due(id)
  <2>1. Pending(id) /\ id \notin excused' /\ ~WakeAhead(id)'
    BY <1>4, <1>6 DEF Due, Pending, Admitted
  <2>2. CASE client[c].at = "receipt" /\ client[c].request.id = id
    BY <2>1, <2>2 DEF AnswerOnly, AllPending
  <2>3. CASE ~(client[c].at = "receipt" /\ client[c].request.id = id)
    BY <1>4, <1>5, <2>1, <2>3 DEF Due, WakeAhead
  <2> QED
    BY <2>2, <2>3
<1>7. \A id \in Ids : Admitted(id)' => Admitted(id)
  BY <1>4 DEF Admitted
<1> QED
  BY <1>1, <1>2, <1>3, <1>5, <1>6, <1>7, FollowingKeeps

-----------------------------------------------------------------------------
(***************************************************************************)
(* Runs and interrupts.                                                    *)
(***************************************************************************)
LEMMA ResumeKeeps ==
  ASSUME ExecutionInvariant, NEW c \in Callers, Resume(c) \/ LeaveResume(c)
  PROVE  ExecutionInvariant'
<1>1. InboxInvariant /\ Chain!TypeOK /\ excused \subseteq Ids
  BY DEF ExecutionInvariant
<1>2. UNCHANGED inputVars /\ drain' = drain /\ asked' = asked /\ excused' = excused
  BY DEF Resume, LeaveResume, inputVars
<1>3. InboxInvariant' /\ StoreStays
  BY <1>1, <1>2, InboxSteps, InboxStepStays
<1>4. Chain!TypeOK' /\ FollowsOn
  BY <1>1, ChainRuns, ChainLeaves DEF Resume, LeaveResume
<1>5. \A id \in Ids : (Admitted(id)' => Admitted(id)) /\ (Due(id)' => Due(id))
  BY <1>2 DEF inputVars, Due, Pending, Admitted, WakeAhead
<1> QED
  BY <1>1, <1>2, <1>3, <1>4, <1>5, FollowingKeeps

LEMMA RequestInterruptKeeps ==
  ASSUME ExecutionInvariant, NEW s \in Sessions, RequestInterrupt(s)
  PROVE  ExecutionInvariant'
<1>1. /\ InboxInvariant /\ Chain!TypeOK /\ NumbersFit /\ DueAreOwed /\ DrainHasEntry
      /\ drain \in DrainRecord /\ excused \subseteq Ids
  BY DEF ExecutionInvariant
<1>2. /\ NextEvent(s) /\ UNCHANGED <<input, message, deleted, client, promoter>>
      /\ drain' = drain /\ excused' = excused /\ asked' = asked \union {seq'[s]}
  BY DEF RequestInterrupt
<1>3. InboxInvariant' /\ StoreStays
  BY <1>1, <1>2, OtherEventsKeep
<1>4. FollowsOn /\ Chain!TypeOK' /\ entry' = entry
  BY <1>1, ChainStill DEF RequestInterrupt, chainVars
<1>5. seq'[s] \in Chain!Seqs
  BY <1>1, SeqAssumption DEF RequestInterrupt, Room, NextEvent, InboxInvariant, TypeOK, Chain!Seqs
<1>6. NumbersFit'
  BY <1>1, <1>2, <1>5 DEF NumbersFit, Admitted, Chain!Seqs
<1>7. DueAreOwed'
  <2> SUFFICES ASSUME NEW id \in Ids, Due(id)' PROVE Owed(id)'
    BY DEF DueAreOwed
  <2>1. Admitted(id) /\ Owed(id)
    BY <1>1, <1>2 DEF DueAreOwed, Due, Pending, Admitted, WakeAhead
  <2> QED
    BY <1>1, <1>2, <1>3, <1>4, <2>1, OwedLater, PassedSame
<1>8. DrainHasEntry'
  BY <1>1, <1>2, <1>4 DEF DrainHasEntry, Chain!Active
<1> QED
  BY <1>1, <1>2, <1>3, <1>4, <1>6, <1>7, <1>8 DEF ExecutionInvariant, StoreStays

\* What an interrupt does not excuse it leaves in the follow-up.
LEMMA InterruptKeepsOwed ==
  ASSUME ExecutionInvariant, NEW n \in asked, Interrupt(n)
  PROVE  ExecutionInvariant'
<1>1. /\ InboxInvariant /\ Chain!TypeOK /\ NumbersFit /\ DueAreOwed /\ DrainHasEntry
      /\ drain \in DrainRecord /\ excused \subseteq Ids
  BY DEF ExecutionInvariant
<1>2. UNCHANGED inputVars /\ drain' = drain /\ asked' = asked \ {n} /\ excused' \subseteq Ids /\ excused \subseteq excused'
  BY <1>1 DEF Interrupt, inputVars, StoppedWith, AllPending
<1>3. InboxInvariant' /\ StoreStays
  BY <1>1, <1>2, InboxSteps, InboxStepStays
<1>4. n \in Chain!Seqs
  BY <1>1 DEF NumbersFit
<1>5. \A id \in Ids : Admitted(id)' => Admitted(id)
  BY <1>2 DEF inputVars, Admitted
<1>6. \A id \in Ids : Due(id)' => Due(id)
  BY <1>2 DEF inputVars, Due, Pending, Admitted, WakeAhead
<1>7. CASE UNCHANGED <<chainVars, excused>>
  BY <1>1, <1>2, <1>3, <1>5, <1>6, <1>7, ChainStill, FollowingKeeps
<1>8. CASE Chain!Interrupt(n) /\ excused' = excused \union StoppedWith(n)
  <2>1. Chain!TypeOK' /\ (Chain!Active' <=> Chain!Active)
    BY <1>1, <1>4, <1>8, ChainInterrupts
  <2>2. DueAreOwed'
    <3> SUFFICES ASSUME NEW id \in Ids, Due(id)' PROVE Owed(id)'
      BY DEF DueAreOwed
    <3>1. Due(id) /\ Owed(id) /\ Admitted(id) /\ id \notin StoppedWith(n) /\ id \in AllPending
      BY <1>1, <1>6, <1>8 DEF DueAreOwed, Due, Pending, AllPending
    <3>2. PICK k \in Nat : k = input[id].admitted /\ k = input'[id].admitted
      BY <1>1, <1>3, <3>1, RowsStay
    <3>3. Chain!Active /\ Spared(n, k)
      <4>1. n \in Nat
        BY <1>4, SeqAssumption DEF Chain!Seqs
      <4>2. ~(k <= n) /\ ~(entry.pending = Chain!Run) /\ ~(Forced /\ ~Covers(entry.pending, id))
        BY <3>1, <3>2 DEF StoppedWith, Owed
      <4> QED
        BY <3>1, <3>2, <4>1, <4>2 DEF Spared, Owed, Covers, Reaches, Forced
    <3>4. entry' = entry \/ Reaches(entry'.pending, k)
      BY <1>1, <1>4, <1>8, <3>3, ChainInterrupts
    <3>5. CASE entry' = entry
      <4>1. FollowsOn
        BY <3>5 DEF FollowsOn, Chain!Active
      <4> QED
        BY <1>1, <1>2, <1>3, <3>1, <4>1, OwedLater, PassedSame
    <3>6. CASE Reaches(entry'.pending, k)
      BY <2>1, <3>2, <3>3, <3>6 DEF Owed, Covers, Reaches
    <3> QED
      BY <3>4, <3>5, <3>6
  <2>3. NumbersFit'
    BY <1>1, <1>2, <1>3, <1>5, NumbersStayFit
  <2>4. DrainHasEntry'
    BY <1>1, <1>2, <2>1 DEF DrainHasEntry
  <2> QED
    BY <1>1, <1>2, <1>3, <2>1, <2>2, <2>3, <2>4 DEF ExecutionInvariant, StoreStays
<1> QED
  BY <1>7, <1>8 DEF Interrupt
-----------------------------------------------------------------------------
(***************************************************************************)
(* The drain.                                                              *)
(***************************************************************************)
LEMMA StartDrainKeeps ==
  ASSUME ExecutionInvariant, StartDrain
  PROVE  ExecutionInvariant'
<1>1. /\ InboxInvariant /\ Chain!TypeOK /\ NumbersFit /\ DueAreOwed /\ excused \subseteq Ids
  BY DEF ExecutionInvariant
<1>2. UNCHANGED inputVars /\ asked' = asked /\ excused' = excused /\ drain' = [at |-> "start", promotion |-> "none", step |-> 0]
  BY DEF StartDrain, inputVars, NoDrain
<1>3. InboxInvariant' /\ StoreStays
  BY <1>1, <1>2, InboxSteps, InboxStepStays
<1>4. Chain!TypeOK' /\ FollowsOn /\ Chain!Active'
  BY <1>1, ChainBegins DEF StartDrain
<1>5. drain' \in DrainRecord
  BY <1>2, StepsAssumption DEF DrainRecord
<1>6. NumbersFit'
  BY <1>1, <1>2 DEF NumbersFit, inputVars, Admitted, Chain!Seqs
<1>7. DueAreOwed'
  <2> SUFFICES ASSUME NEW id \in Ids, Due(id)' PROVE Owed(id)'
    BY DEF DueAreOwed
  <2>1. Admitted(id) /\ Owed(id)
    BY <1>1, <1>2 DEF inputVars, DueAreOwed, Due, Pending, Admitted, WakeAhead
  <2>2. drain'.at = "start"
    BY <1>2
  <2>3. ~Passed(id)'
    BY <2>2 DEF Passed
  <2> QED
    BY <1>1, <1>3, <1>4, <2>1, <2>3, OwedLater
<1>8. DrainHasEntry'
  BY <1>4 DEF DrainHasEntry
<1> QED
  BY <1>1, <1>2, <1>3, <1>4, <1>5, <1>6, <1>7, <1>8 DEF ExecutionInvariant, StoreStays

\* A drain that goes on passes over an input only when it has asked for it in vain.
LEMMA DrainGoesOn ==
  ASSUME ExecutionInvariant, InboxInvariant', StoreStays, UNCHANGED <<chainVars, client, asked>>,
         drain' \in DrainRecord, drain # NoDrain, excused' \subseteq Ids,
         \A id \in Ids : Admitted(id)' => Admitted(id),
         \A id \in Ids : Pending(id)' /\ id \in excused => id \in excused',
         \A id \in Ids : Pending(id)' /\ Passed(id)' => Passed(id)
  PROVE  ExecutionInvariant'
<1>1. InboxInvariant /\ Chain!TypeOK /\ NumbersFit /\ DueAreOwed /\ DrainHasEntry
  BY DEF ExecutionInvariant
<1>2. FollowsOn /\ Chain!TypeOK' /\ Chain!Active'
  BY <1>1, ChainStill DEF DrainHasEntry, FollowsOn
<1>3. NumbersFit'
  BY <1>1, NumbersStayFit
<1>4. DueAreOwed'
  <2> SUFFICES ASSUME NEW id \in Ids, Due(id)' PROVE Owed(id)'
    BY DEF DueAreOwed
  <2>1. Admitted(id) /\ Pending(id)'
    BY DEF Due, Pending
  <2>2. WakeAhead(id) => WakeAhead(id)'
    BY DEF WakeAhead
  <2>3. Owed(id)
    BY <1>1, <2>1, <2>2, DueBefore DEF DueAreOwed
  <2> QED
    BY <1>1, <1>2, <2>1, <2>3, OwedLater
<1>5. DrainHasEntry'
  BY <1>2 DEF DrainHasEntry
<1> QED
  BY <1>2, <1>3, <1>4, <1>5 DEF ExecutionInvariant, StoreStays

LEMMA DrainPoints ==
  ASSUME drain \in DrainRecord
  PROVE  /\ drain.at # "none" => drain # NoDrain
         /\ drain.step \in 0 .. MaxSteps
         /\ \A at \in {"start", "no steer", "turn", "promoting", "provider", "settled", "no more", "done", "limit"} :
              Go(at) => drain' \in DrainRecord /\ drain'.at = at
         /\ \A p \in {"none"} \union Deliveries, n \in 0 .. MaxSteps :
              Turn(p, n) => drain' \in DrainRecord /\ drain'.at = "turn"
<1>1. ASSUME NEW at \in {"start", "no steer", "turn", "promoting", "provider", "settled", "no more", "done", "limit"}, Go(at)
      PROVE  drain' \in DrainRecord /\ drain'.at = at
  BY <1>1 DEF DrainRecord, Go
<1>2. ASSUME NEW p \in {"none"} \union Deliveries, NEW n \in 0 .. MaxSteps, Turn(p, n)
      PROVE  drain' \in DrainRecord /\ drain'.at = "turn"
  BY <1>2 DEF DrainRecord, Turn
<1>3. drain.at # "none" => drain # NoDrain
  BY DEF NoDrain
<1>4. drain.step \in 0 .. MaxSteps
  BY DEF DrainRecord
<1> QED
  BY <1>1, <1>2, <1>3, <1>4

LEMMA RunLoopKeeps ==
  ASSUME ExecutionInvariant, RunLoop
  PROVE  ExecutionInvariant'
<1>1. InboxInvariant /\ drain \in DrainRecord /\ excused \subseteq Ids
  BY DEF ExecutionInvariant
<1>2. UNCHANGED inputVars /\ UNCHANGED <<chainVars, client, asked>> /\ excused' = excused /\ Loop
  BY DEF RunLoop, inputVars
<1>3. InboxInvariant' /\ StoreStays
  BY <1>1, <1>2, InboxSteps, InboxStepStays
<1>4. \A id \in Ids : (Admitted(id)' => Admitted(id)) /\ (Pending(id)' => Pending(id)) /\ input'[id] = input[id]
  BY <1>2 DEF inputVars, Admitted, Pending
<1>5. 1 \in 0 .. MaxSteps /\ (drain.step # MaxSteps => drain.step + 1 \in 0 .. MaxSteps)
  <2>1. PICK n \in 0 .. MaxSteps : n = drain.step
    BY <1>1 DEF DrainRecord
  <2> QED
    BY <2>1, StepsAssumption
<1>6. drain.at # "none"
  BY <1>2 DEF Loop
<1>7. ContinueTurn => drain' \in DrainRecord /\ drain'.at \in {"limit", "turn"}
  BY <1>1, <1>5, DrainPoints DEF ContinueTurn, Deliveries
<1>8. ASSUME NEW d \in Deliveries, ~HasPending(d), NEW id \in Ids, Pending(id)' PROVE input[id].delivery # d
  BY <1>4, <1>8 DEF HasPending, OfDelivery, AllPending
<1>9. CASE drain.at = "start"
  <2>1. \/ drain' \in DrainRecord /\ drain'.at = "turn"
        \/ drain' \in DrainRecord /\ drain'.at = "no steer" /\ ~HasPending("steer")
    BY <1>1, <1>2, <1>5, <1>9, DrainPoints DEF Loop, Deliveries
  <2>2. \A id \in Ids : Pending(id)' /\ Passed(id)' => Passed(id)
    BY <1>4, <1>8, <2>1 DEF Passed, Deliveries
  <2> QED
    BY <1>1, <1>2, <1>3, <1>4, <1>6, <2>1, <2>2, DrainPoints, DrainGoesOn
<1>10. CASE drain.at = "no steer"
  <2>1. \/ drain' \in DrainRecord /\ drain'.at = "turn"
        \/ drain' \in DrainRecord /\ drain'.at = "done" /\ ~HasPending("queue")
    BY <1>1, <1>2, <1>5, <1>10, DrainPoints DEF Loop, Deliveries
  <2>2. \A id \in Ids : input[id].delivery = "steer" => Passed(id)
    BY <1>10 DEF Passed
  <2>3. \A id \in Ids : Pending(id)' /\ Passed(id)' => input[id].delivery \in {"steer", "queue"}
    BY <1>1, <1>4 DEF InboxInvariant, TypeOK, InputRecord, Pending, Admitted, Deliveries
  <2>4. \A id \in Ids : Pending(id)' /\ Passed(id)' => Passed(id)
    BY <1>4, <1>8, <2>1, <2>2, <2>3 DEF Passed, Deliveries
  <2> QED
    BY <1>1, <1>2, <1>3, <1>4, <1>6, <2>1, <2>4, DrainPoints, DrainGoesOn
<1>11. CASE drain.at = "turn" \/ drain.at = "provider"
  <2>1. drain' \in DrainRecord /\ drain'.at \in {"provider", "limit", "turn", "settled"}
    BY <1>1, <1>2, <1>7, <1>11, DrainPoints DEF Loop
  <2>2. \A id \in Ids : ~Passed(id)'
    BY <2>1 DEF Passed
  <2> QED
    BY <1>1, <1>2, <1>3, <1>4, <1>6, <2>1, <2>2, DrainPoints, DrainGoesOn
<1>12. CASE drain.at = "settled"
  <2>1. \/ drain' \in DrainRecord /\ drain'.at \in {"limit", "turn"}
        \/ drain' \in DrainRecord /\ drain'.at = "no more" /\ ~HasPending("steer")
    BY <1>1, <1>2, <1>7, <1>12, DrainPoints DEF Loop
  <2>2. \A id \in Ids : Pending(id)' /\ Passed(id)' => Passed(id)
    BY <1>4, <1>8, <2>1 DEF Passed, Deliveries
  <2> QED
    BY <1>1, <1>2, <1>3, <1>4, <1>6, <2>1, <2>2, DrainPoints, DrainGoesOn
<1>13. CASE drain.at = "no more"
  <2>1. \/ drain' \in DrainRecord /\ drain'.at = "turn"
        \/ drain' \in DrainRecord /\ drain'.at = "done" /\ ~HasPending("queue")
    BY <1>1, <1>2, <1>5, <1>13, DrainPoints DEF Loop, Deliveries
  <2>2. \A id \in Ids : input[id].delivery = "steer" => Passed(id)
    BY <1>13 DEF Passed
  <2>3. \A id \in Ids : Pending(id)' /\ Passed(id)' => input[id].delivery \in {"steer", "queue"}
    BY <1>1, <1>4 DEF InboxInvariant, TypeOK, InputRecord, Pending, Admitted, Deliveries
  <2>4. \A id \in Ids : Pending(id)' /\ Passed(id)' => Passed(id)
    BY <1>4, <1>8, <2>1, <2>2, <2>3 DEF Passed, Deliveries
  <2> QED
    BY <1>1, <1>2, <1>3, <1>4, <1>6, <2>1, <2>4, DrainPoints, DrainGoesOn
<1> QED
  BY <1>2, <1>9, <1>10, <1>11, <1>12, <1>13 DEF Loop

LEMMA PromoteKeeps ==
  ASSUME ExecutionInvariant, Promote
  PROVE  ExecutionInvariant'
<1>1. InboxInvariant /\ drain \in DrainRecord /\ excused \subseteq Ids
  BY DEF ExecutionInvariant
<1>2. /\ UNCHANGED chainVars /\ asked' = asked
      /\ excused' = excused \intersect {id \in Ids : input'[id] # NoRow /\ input'[id].promoted = None}
  BY DEF Promote
<1>3. PICK r \in Runners, s \in Sessions :
       \/ drain.at = "turn" /\ drain.promotion # "none" /\ ReadCutoff(r, s, drain.promotion) /\ Go("promoting")
       \/ drain.at = "promoting" /\ (ReadQueued(r) \/ ReadSteers(r)) /\ UNCHANGED drain
       \/ drain.at = "promoting" /\ PublishPromoted(r) /\ UNCHANGED drain
       \/ drain.at = "promoting" /\ Promoted(r) /\ StopPromoting(r) /\ Go("provider")
  BY DEF Promote
<1>4. drain.promotion # "none" => drain.promotion \in Deliveries
  BY <1>1 DEF DrainRecord
<1>5. InboxInvariant' /\ StoreStays
  BY <1>1, <1>3, <1>4, InboxSteps, InboxStepStays
<1>6. drain' \in DrainRecord /\ drain'.at \in {"promoting", "provider"} /\ drain # NoDrain
  BY <1>1, <1>3, DrainPoints
<1>7. \A id \in Ids : ~Passed(id)'
  BY <1>6 DEF Passed
<1>8. client' = client
  BY <1>3 DEF ReadCutoff, ReadQueued, ReadSteers, PublishPromoted, Publish, StopPromoting
<1>9. \A id \in Ids : Admitted(id)' => Admitted(id)
  <2>1. \/ input' = input
        \/ \E id \in Ids : \E row : Pending(id) /\ input' = [input EXCEPT ![id] = row]
    <3>1. \A id \in NextRows(r) : promoter[r] # Quiet /\ Publishing(r) => id \in Ids
      BY <1>1 DEF NextRows, Oldest, InboxInvariant, TypeOK, PromoterRecord
    <3>2. Publishing(r) => promoter[r] # Quiet
      BY DEF Publishing, Quiet
    <3> QED
      BY <1>3, <3>1, <3>2 DEF ReadCutoff, ReadQueued, ReadSteers, PublishPromoted, Publish, StopPromoting
  <2> QED
    BY <1>1, <2>1 DEF Admitted, Pending, InboxInvariant, TypeOK
<1>10. excused' \subseteq Ids /\ \A id \in Ids : Pending(id)' /\ id \in excused => id \in excused'
  BY <1>2 DEF Pending, Admitted
<1> QED
  BY <1>2, <1>5, <1>6, <1>7, <1>8, <1>9, <1>10, DrainGoesOn

-----------------------------------------------------------------------------
(***************************************************************************)
(* A drain that ends leaves to the follow-up what it has not taken.        *)
(***************************************************************************)
LEMMA EndingKeeps ==
  ASSUME ExecutionInvariant, NEW exit \in Chain!Exits, Chain!Settle(exit), StopDrain,
         UNCHANGED <<seq, input, message, deleted, client, asked>>, excused' \subseteq Ids,
         \A id \in Ids : Due(id)' => Covers(entry.pending, id)
  PROVE  ExecutionInvariant'
<1>1. InboxInvariant /\ Chain!TypeOK /\ NumbersFit
  BY DEF ExecutionInvariant
<1>2. InboxInvariant' /\ StoreStays
  BY <1>1, StopsKeep DEF StopDrain
<1>3. /\ Chain!TypeOK'
      /\ IF entry.pending = Chain!NoDemand THEN ~Chain!Active'
         ELSE Chain!Active' /\ entry'.current = entry.pending /\ ~entry'.stopping
  BY <1>1, ChainSettles
<1>4. drain' = NoDrain /\ drain' \in DrainRecord /\ drain'.at = "none"
  BY StepsAssumption DEF StopDrain, NoDrain, DrainRecord
<1>5. NumbersFit'
  BY <1>1 DEF NumbersFit, Admitted, Chain!Seqs
<1>6. DrainHasEntry'
  BY <1>4 DEF DrainHasEntry
<1>7. ASSUME NEW id \in Ids, Due(id)' PROVE Owed(id)'
  <2>1. Covers(entry.pending, id)
    BY <1>7
  <2>2. entry.pending # Chain!NoDemand
    BY <2>1 DEF Covers, Chain!NoDemand
  <2>3. ~Passed(id)'
    BY <1>4 DEF Passed
  <2> QED
    BY <1>3, <2>1, <2>2, <2>3 DEF Owed, Covers
<1> QED
  BY <1>2, <1>3, <1>4, <1>5, <1>6, <1>7 DEF ExecutionInvariant, StoreStays, DueAreOwed

LEMMA DrainEndsKeeps ==
  ASSUME ExecutionInvariant, DrainDone \/ DrainFails \/ DrainInterrupted
  PROVE  ExecutionInvariant'
<1>1. Chain!TypeOK /\ DueAreOwed /\ excused \subseteq Ids
  BY DEF ExecutionInvariant
<1>2. UNCHANGED <<seq, input, message, deleted, client, asked>> /\ StopDrain
  BY DEF DrainDone, DrainFails, DrainInterrupted
<1>3. excused \subseteq excused' /\ excused' \subseteq Ids
  BY <1>1 DEF DrainDone, DrainFails, DrainInterrupted, AllPending
<1>4. ASSUME NEW id \in Ids, Due(id)' PROVE Owed(id) /\ Pending(id) /\ id \notin excused'
  BY <1>1, <1>2, <1>3, <1>4 DEF DueAreOwed, Due, Pending, Admitted, WakeAhead
<1>5. {"success", "failure", "interrupted"} \subseteq Chain!Exits
  BY DEF Chain!Exits
<1>6. CASE DrainDone
  <2>1. \A id \in Ids : Due(id)' => Covers(entry.pending, id)
    BY <1>4, <1>6 DEF DrainDone, Owed, Passed
  <2> QED
    BY <1>2, <1>3, <1>5, <1>6, <2>1, EndingKeeps DEF DrainDone
<1>7. CASE DrainFails
  <2>1. \A id \in Ids : Due(id)' => Covers(entry.pending, id)
    BY <1>4, <1>7 DEF DrainFails, AllPending
  <2> QED
    BY <1>2, <1>3, <1>5, <1>7, <2>1, EndingKeeps DEF DrainFails
<1>8. CASE DrainInterrupted
  <2>1. Chain!Settle("interrupted")
    BY <1>8 DEF DrainInterrupted
  <2>2. entry.stopping
    BY <1>1, <1>5, <2>1, ChainSettles
  <2>3. \A id \in Ids : Due(id)' => Covers(entry.pending, id)
    BY <1>4, <2>2 DEF Owed
  <2> QED
    BY <1>2, <1>3, <1>5, <2>1, <2>3, EndingKeeps
<1> QED
  BY <1>6, <1>7, <1>8

\* After a crash everything that was pending is excused.
LEMMA CrashKeeps ==
  ASSUME ExecutionInvariant, Crash
  PROVE  ExecutionInvariant'
<1>1. InboxInvariant /\ Chain!TypeOK /\ NumbersFit
  BY DEF ExecutionInvariant
<1>2. InboxInvariant' /\ StoreStays
  BY <1>1, StopsKeep DEF Crash, StopDrain
<1>3. entry' = NoEntry /\ barrier' = Chain!None /\ caller' = [c \in Callers |-> Chain!Resting]
  BY DEF Crash
<1>4. Chain!TypeOK' /\ ~Chain!Active'
  BY <1>3 DEF Chain!TypeOK, Chain!Active, Chain!CallerRecord, Chain!Resting
<1>5. drain' = NoDrain /\ drain' \in DrainRecord
  BY StepsAssumption DEF Crash, StopDrain, NoDrain, DrainRecord
<1>6. excused' \subseteq Ids /\ \A id \in Ids : ~Due(id)'
  BY DEF Crash, AllPending, Due, Pending, Admitted
<1>7. NumbersFit'
  BY <1>1 DEF Crash, NumbersFit, Admitted, Chain!Seqs
<1>8. DrainHasEntry' /\ DueAreOwed'
  BY <1>5, <1>6 DEF DrainHasEntry, DueAreOwed
<1> QED
  BY <1>2, <1>4, <1>5, <1>6, <1>7, <1>8 DEF ExecutionInvariant, StoreStays
-----------------------------------------------------------------------------
LEMMA ExecutionBegins == InitExecution => ExecutionInvariant
<1> SUFFICES ASSUME InitExecution PROVE ExecutionInvariant
  OBVIOUS
<1>1. InboxInvariant /\ deleted = {}
  <2>1. Init
    BY DEF InitExecution
  <2> QED
    BY <2>1, InboxBegins DEF Init
<1>2. entry = NoEntry /\ barrier = Chain!None /\ caller = [c \in Callers |-> Chain!Resting]
  BY DEF InitExecution, Chain!Init
<1>3. Chain!TypeOK
  BY <1>2 DEF Chain!TypeOK, Chain!CallerRecord, Chain!Resting
<1>4. drain = NoDrain /\ drain \in DrainRecord /\ asked = {} /\ excused = {}
  BY StepsAssumption DEF InitExecution, NoDrain, DrainRecord
<1>5. \A id \in Ids : ~Admitted(id)
  BY DEF InitExecution, Init, Admitted
<1> QED
  BY <1>1, <1>3, <1>4, <1>5 DEF ExecutionInvariant, NumbersFit, DrainHasEntry, DueAreOwed, Due, Pending

LEMMA ExecutionStep == ExecutionInvariant /\ [NextExecution]_executionVars => ExecutionInvariant'
<1> SUFFICES ASSUME ExecutionInvariant, [NextExecution]_executionVars PROVE ExecutionInvariant'
  OBVIOUS
<1>1. CASE UNCHANGED executionVars
  <2>1. UNCHANGED inputVars /\ UNCHANGED chainVars /\ drain' = drain /\ asked' = asked /\ excused' = excused
    BY <1>1 DEF executionVars, inputVars
  <2>2. InboxInvariant /\ Chain!TypeOK /\ excused \subseteq Ids
    BY DEF ExecutionInvariant
  <2>3. InboxInvariant' /\ StoreStays
    BY <2>1, <2>2, InboxSteps, InboxStepStays
  <2>4. \A id \in Ids : (Admitted(id)' => Admitted(id)) /\ (Due(id)' => Due(id))
    BY <2>1 DEF inputVars, Due, Pending, Admitted, WakeAhead
  <2> QED
    BY <2>1, <2>2, <2>3, <2>4, ChainStill, FollowingKeeps
<1>2. ASSUME NEW c \in Clients, (\E q \in Request : AskPrompt(c, q)) \/ AdmitPrompt(c) \/ EnqueueWake(c) \/ AnswerOnly(c)
      PROVE  ExecutionInvariant'
  BY <1>2, AskPromptKeeps, AdmitPromptKeeps, EnqueueWakeKeeps, AnswerOnlyKeeps
<1>3. ASSUME NEW c \in Callers, Resume(c) \/ LeaveResume(c) PROVE ExecutionInvariant'
  BY <1>3, ResumeKeeps
<1>4. ASSUME NEW s \in Sessions, RequestInterrupt(s) PROVE ExecutionInvariant'
  BY <1>4, RequestInterruptKeeps
<1>5. ASSUME NEW n \in asked, Interrupt(n) PROVE ExecutionInvariant'
  BY <1>5, InterruptKeepsOwed
<1>6. CASE StartDrain \/ RunLoop \/ Promote
  BY <1>6, StartDrainKeeps, RunLoopKeeps, PromoteKeeps
<1>7. CASE DrainDone \/ DrainFails \/ DrainInterrupted
  BY <1>7, DrainEndsKeeps
<1>8. CASE Crash
  BY <1>8, CrashKeeps
<1> QED
  BY <1>1, <1>2, <1>3, <1>4, <1>5, <1>6, <1>7, <1>8 DEF NextExecution, Steps

(***************************************************************************)
(* What the inbox guarantees, it guarantees under the run loop as well,    *)
(* with its interrupts, failures and crashes; and every input that is due  *)
(* is owed by the drain that goes on or by the one asked to follow it      *)
(* (session.ts prompt, run-coordinator.ts, session/runner/llm.ts run).     *)
(***************************************************************************)
THEOREM ExecutionSound == SpecExecution => []ExecutionInvariant
<1>1. InitExecution => ExecutionInvariant
  BY ExecutionBegins
<1>2. ExecutionInvariant /\ [NextExecution]_executionVars => ExecutionInvariant'
  BY ExecutionStep
<1> QED
  BY <1>1, <1>2, PTL DEF SpecExecution

(***************************************************************************)
(* When the session is idle its inbox is drained, but for what nobody      *)
(* promised to run: for any number of inputs, clients and callers, however *)
(* long the chain and wherever interrupts, failures and crashes fall.      *)
(***************************************************************************)
THEOREM IdleIsDrained == SpecExecution => []InboxDrained
<1>1. ExecutionInvariant => InboxDrained
  BY DEF ExecutionInvariant, DueAreOwed, Due, Owed, InboxDrained, AllPending
<1> QED
  BY <1>1, ExecutionSound, PTL
=============================================================================
