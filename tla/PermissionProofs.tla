-------------------------- MODULE PermissionProofs --------------------------
(***************************************************************************)
(* What the answers to requests for permission guarantee, for any number   *)
(* of requests, replies, sessions and resources.                           *)
(***************************************************************************)
EXTENDS Permission, TLAPS

Unasked(q) == request[q].at \in {"new", "saved", "create"}
Unanswered(q) == request[q].verdict = "none" /\ \A e \in replied : e.request # q

\* A reply has q in hand, before and after it has published the answer.
Unpublished(p, q) ==
  \/ replier[p].on = q /\ ReplierAt(p, "announce")
  \/ replier[p].item = q /\ ReplierAt(p, "announceItem")
Published(p, q) ==
  \/ replier[p].on = q /\ replier[p].at \in {"save", "settle"}
  \/ replier[p].item = q /\ ReplierAt(p, "settleItem")
Handled(q) == \E p \in Repliers : InHand(p, q)

\* A request that is not registered yet is known to nobody.
UnaskedIsUnknown ==
  \A q \in Asks : Unasked(q) =>
    q \notin pending /\ Unanswered(q) /\ \A p \in Repliers : ~InHand(p, q) /\ q \notin replier[p].visited

\* A request that was made names a resource.
NamesResource == \A q \in Asks : request[q].at # "new" => request[q].resource \in Resources

\* Where a reply is tells what it holds.
ReplierSound(p) ==
  /\ replier[p].at \in {"announce", "save", "settle"} => replier[p].on \in Asks
  /\ replier[p].saves => replier[p].answer = "always"
  /\ replier[p].at \in {"save", "remember"} => replier[p].saves
  /\ replier[p].at \in {"announce", "save", "settle", "remember"} => replier[p].visited = {}
  /\ replier[p].item # Nil <=> replier[p].at \in {"announceItem", "settleItem"}

\* The life of a request's answer: nobody has it, one reply has it, it is given.
AnswerSound(q) ==
  /\ \A p, r \in Repliers : InHand(p, q) /\ InHand(r, q) => p = r
  /\ \A p \in Repliers : Unpublished(p, q) => Unanswered(q)
  /\ \A p \in Repliers : Published(p, q) =>
       request[q].verdict = "none" /\ \A e \in replied : e.request = q => e.answer = replier[p].answer
  /\ q \in pending /\ ~Handled(q) => Unanswered(q)
  /\ \A e, f \in {d \in replied : d.request = q} : e.answer = f.answer /\ request[q].verdict \in {"none", Verdict(e.answer)}

PermissionInvariant ==
  /\ PermissionTypeOK
  /\ UnaskedIsUnknown
  /\ NamesResource
  /\ \A p \in Repliers : ReplierSound(p)
  /\ \A q \in Asks \ tangled : AnswerSound(q)
  /\ NotLeftAsking

RequestRow ==
  [at : {"new", "saved", "create", "asking", "waiting", "over"}, session : SessionIds \union {Nil},
   resource : Resources \union {Nil}, save : BOOLEAN, verdict : {"none", "allowed", "rejected"}]
ReplierRow ==
  [at : {"away", "announce", "save", "settle", "remember", "walk", "announceItem", "settleItem"},
   on : Asks \union {Nil}, answer : Answers, saves : BOOLEAN, item : Asks \union {Nil},
   visited : SUBSET Asks, rules : SUBSET Resources]

USE NilAssumption

LEMMA RowTypes ==
  ASSUME PermissionTypeOK
  PROVE  /\ request \in [Asks -> RequestRow] /\ replier \in [Repliers -> ReplierRow]
         /\ NoReply \in ReplierRow /\ NotAsked \in RequestRow
  BY DEF PermissionTypeOK, RequestRow, ReplierRow, NoReply, ReplyTo, NotAsked, Answers

LEMMA PermissionInitially == PermissionInit => PermissionInvariant
<1> SUFFICES ASSUME PermissionInit PROVE PermissionInvariant
  OBVIOUS
<1>1. PermissionTypeOK
  <2>1. NoReply \in ReplierRow /\ NotAsked \in RequestRow
    BY DEF ReplierRow, RequestRow, NoReply, ReplyTo, NotAsked, Answers
  <2>2. request \in [Asks -> RequestRow] /\ replier \in [Repliers -> ReplierRow]
    BY <2>1 DEF PermissionInit
  <2> QED
    BY <2>2 DEF PermissionInit, PermissionTypeOK, RequestRow, ReplierRow
<1>2. UnaskedIsUnknown
  BY DEF PermissionInit, UnaskedIsUnknown, Unasked, Unanswered, InHand, NoReply, ReplyTo, NotAsked
<1>3. NamesResource
  BY DEF PermissionInit, NamesResource, NotAsked
<1>4. \A p \in Repliers : ReplierSound(p)
  BY DEF PermissionInit, ReplierSound, NoReply, ReplyTo
<1>5. \A q \in Asks \ tangled : AnswerSound(q)
  BY DEF PermissionInit, AnswerSound, Unanswered, Unpublished, Published, InHand, Handled, ReplierAt, NoReply, ReplyTo, NotAsked
<1>6. NotLeftAsking
  BY DEF PermissionInit, NotLeftAsking
<1> QED
  BY <1>1, <1>2, <1>3, <1>4, <1>5, <1>6 DEF PermissionInvariant

-----------------------------------------------------------------------------
\* A step of a tool, or of the configuration: no reply moves, no verdict changes, and
\* who comes to be pending was not registered before.
LEMMA AskingKeeps ==
  ASSUME PermissionInvariant, UNCHANGED <<saved, replied, replier, tangled>>, PermissionTypeOK', NamesResource',
         denied \subseteq denied', gone \subseteq gone', slipped \subseteq slipped',
         \A r \in Asks :
           /\ request'[r].verdict = request[r].verdict
           /\ Unasked(r)' => Unasked(r) /\ r \notin pending'
           /\ r \in pending' =>
                \/ r \in pending /\ request'[r].resource = request[r].resource /\ request'[r].session = request[r].session
                \/ /\ Unasked(r)
                   /\ request'[r].resource \in saved /\ ~(\E p \in Repliers : WalksFor(p, request'[r].resource))
                        => r \in slipped'
  PROVE  PermissionInvariant'
<1>1. UnaskedIsUnknown'
  BY DEF PermissionInvariant, UnaskedIsUnknown, Unanswered, InHand
<1>2. \A p \in Repliers : ReplierSound(p)'
  BY DEF PermissionInvariant, ReplierSound
<1>3. ASSUME NEW q \in Asks \ tangled PROVE AnswerSound(q)'
  <2>1. AnswerSound(q)
    BY DEF PermissionInvariant
  <2>2. \A p \in Repliers : (InHand(p, q)' <=> InHand(p, q)) /\ (Unpublished(p, q)' <=> Unpublished(p, q))
                           /\ (Published(p, q)' <=> Published(p, q))
    BY DEF InHand, Unpublished, Published, ReplierAt
  <2>3. Unanswered(q)' <=> Unanswered(q)
    BY DEF Unanswered
  <2>4. (q \in pending /\ ~Handled(q) => Unanswered(q))'
    BY <2>1, <2>2, <2>3 DEF PermissionInvariant, UnaskedIsUnknown, AnswerSound, Handled
  <2> QED
    BY <2>1, <2>2, <2>3, <2>4 DEF AnswerSound
<1>4. NotLeftAsking'
  <2> SUFFICES ASSUME NEW q \in (pending \ slipped)', Permitted(q)', request'[q].verdict = "none"
               PROVE  \E p \in Repliers : WillRelease(p, q)'
    BY DEF NotLeftAsking
  <2>1. q \in Asks /\ request'[q].session \notin gone' /\ request'[q].resource \in saved \ denied'
    BY DEF PermissionTypeOK, Permitted
  <2>2. CASE q \in pending /\ request'[q].resource = request[q].resource /\ request'[q].session = request[q].session
    <3>1. \E p \in Repliers : WillRelease(p, q)
      BY <2>1, <2>2 DEF PermissionInvariant, NotLeftAsking, Permitted
    <3> QED
      BY <2>2, <3>1 DEF WillRelease, WalksFor
  <2>3. CASE Unasked(q) /\ \E p \in Repliers : WalksFor(p, request'[q].resource)
    <3>1. PICK p \in Repliers : WalksFor(p, request'[q].resource)
      BY <2>3
    <3>2. q \notin replier[p].visited
      BY <2>1, <2>3 DEF PermissionInvariant, UnaskedIsUnknown
    <3> QED
      BY <3>1, <3>2 DEF WillRelease, WalksFor
  <2> QED
    BY <2>1, <2>2, <2>3
<1> QED
  BY <1>1, <1>2, <1>3, <1>4 DEF PermissionInvariant

LEMMA AssertAllowedKeeps ==
  ASSUME PermissionInvariant, NEW q \in Asks, NEW session \in SessionIds, NEW resource \in Resources,
         NEW save \in BOOLEAN, AssertAllowed(q, session, resource, save)
  PROVE  PermissionInvariant'
<1>1. request \in [Asks -> RequestRow]
  BY RowTypes DEF PermissionInvariant
<1>2. PICK row \in RequestRow :
        request' = [request EXCEPT ![q] = row] /\ row.verdict = "none" /\ row.resource = resource
  <2>1. \A point \in {"over", "saved"} :
          [at |-> point, session |-> session, resource |-> resource, save |-> save, verdict |-> "none"] \in RequestRow
    BY DEF RequestRow
  <2> QED
    BY <2>1 DEF AssertAllowed
<1>3. PermissionTypeOK'
  BY <1>1, <1>2 DEF AssertAllowed, PermissionInvariant, PermissionTypeOK, RequestRow
<1>8. NamesResource'
  BY <1>1, <1>2 DEF PermissionInvariant, NamesResource
<1>4. Unasked(q) /\ q \notin pending /\ request[q].verdict = "none"
  BY DEF AssertAllowed, RequestAt, Unasked, PermissionInvariant, UnaskedIsUnknown, Unanswered
<1>5. \A r \in Asks : r # q => request'[r] = request[r]
  BY <1>1, <1>2
<1>6. request'[q].verdict = "none"
  BY <1>1, <1>2
<1>7. \A r \in Asks : Unasked(r) => r \notin pending
  BY DEF PermissionInvariant, UnaskedIsUnknown
<1> QED
  BY <1>3, <1>4, <1>5, <1>6, <1>7, <1>8, AskingKeeps DEF AssertAllowed, Unasked

\* The other steps of a tool only move it.
LEMMA MovesOn ==
  ASSUME PermissionInvariant, NEW q \in Asks, NEW point, RequestGoes(q, point)
  PROVE  \A r \in Asks :
           /\ request'[r].verdict = request[r].verdict /\ request'[r].resource = request[r].resource /\ request'[r].session = request[r].session
           /\ request'[r].at = IF r = q THEN point ELSE request[r].at
<1>1. request \in [Asks -> RequestRow]
  BY RowTypes DEF PermissionInvariant
<1> QED
  BY <1>1 DEF RequestGoes, RequestRow

LEMMA PointsTyped ==
  ASSUME PermissionInvariant, NEW q \in Asks,
         NEW point \in {"new", "saved", "create", "asking", "waiting", "over"}, RequestGoes(q, point)
  PROVE  request' \in [Asks -> RequestRow]
  BY RowTypes DEF PermissionInvariant, RequestGoes, RequestRow

LEMMA ToolKeeps ==
  ASSUME PermissionInvariant, NEW q \in Asks, ReadSaved(q) \/ Create(q) \/ Asked(q) \/ Proceed(q)
  PROVE  PermissionInvariant'
<1>1. PICK point \in {"create", "asking", "waiting", "over"} : RequestGoes(q, point)
  BY DEF ReadSaved, Create, Asked, Proceed
<1>2. request' \in [Asks -> RequestRow]
  BY <1>1, PointsTyped
<1>3. PermissionTypeOK'
  BY <1>2 DEF ReadSaved, Create, Asked, Proceed, PermissionInvariant, PermissionTypeOK, RequestRow
<1>4. \A r \in Asks :
        /\ request'[r].verdict = request[r].verdict /\ request'[r].resource = request[r].resource /\ request'[r].session = request[r].session
        /\ request'[r].at = IF r = q THEN point ELSE request[r].at
  BY <1>1, MovesOn
<1>5. \A r \in Asks : Unasked(r) => r \notin pending
  BY DEF PermissionInvariant, UnaskedIsUnknown
<1>9. NamesResource'
  BY <1>4 DEF PermissionInvariant, NamesResource, ReadSaved, Create, Asked, Proceed, RequestAt
<1>6. CASE ReadSaved(q)
  <2>1. Unasked(q) /\ UNCHANGED <<denied, gone, saved, pending, replied, replier, slipped, tangled>>
    BY <1>6 DEF ReadSaved, RequestAt, Unasked
  <2> QED
    BY <1>3, <1>4, <1>5, <1>9, <2>1, AskingKeeps DEF Unasked
<1>7. CASE Create(q)
  <2>1. Unasked(q) /\ point = "asking" /\ pending' = pending \union {q}
    <3>1. request'[q].at = "asking"
      BY <1>7, MovesOn DEF Create
    <3> QED
      BY <1>4, <1>7, <3>1 DEF Create, RequestAt, Unasked
  <2>2. slipped \subseteq slipped' /\ UNCHANGED <<denied, gone, saved, replied, replier, tangled>>
    BY <1>7 DEF Create
  <2>3. request[q].resource \in saved /\ ~(\E p \in Repliers : WalksFor(p, request[q].resource)) => q \in slipped'
    BY <1>7 DEF Create
  <2> QED
    BY <1>3, <1>4, <1>5, <1>9, <2>1, <2>2, <2>3, AskingKeeps DEF Unasked
<1>8. CASE Asked(q) \/ Proceed(q)
  <2>1. ~Unasked(q) /\ pending' \subseteq pending /\ UNCHANGED <<denied, gone, saved, replied, replier, slipped, tangled>>
    BY <1>8 DEF Asked, Proceed, RequestAt, Unasked
  <2>2. ~Unasked(q)'
    <3>1. point \in {"waiting", "over"}
      <4>1. request'[q].at \in {"waiting", "over"}
        BY <1>8, MovesOn DEF Asked, Proceed
      <4> QED
        BY <1>4, <4>1
    <3> QED
      BY <1>4, <3>1 DEF Unasked
  <2> QED
    BY <1>3, <1>4, <1>5, <1>9, <2>1, <2>2, AskingKeeps DEF Unasked
<1> QED
  BY <1>6, <1>7, <1>8

LEMMA DenyKeeps ==
  ASSUME PermissionInvariant, NEW r \in Resources, Deny(r)
  PROVE  PermissionInvariant'
<1>1. PermissionTypeOK' /\ denied \subseteq denied'
  BY DEF Deny, PermissionInvariant, PermissionTypeOK
<1>2. \A q \in Asks : Unasked(q) => q \notin pending
  BY DEF PermissionInvariant, UnaskedIsUnknown
<1>3. NamesResource'
  BY DEF PermissionInvariant, NamesResource, Deny
<1> QED
  BY <1>1, <1>2, <1>3, AskingKeeps DEF Deny, Unasked

LEMMA LoseSessionKeeps ==
  ASSUME PermissionInvariant, NEW session \in SessionIds, LoseSession(session)
  PROVE  PermissionInvariant'
<1>1. PermissionTypeOK' /\ gone \subseteq gone'
  BY DEF LoseSession, PermissionInvariant, PermissionTypeOK
<1>2. \A q \in Asks : Unasked(q) => q \notin pending
  BY DEF PermissionInvariant, UnaskedIsUnknown
<1>3. NamesResource'
  BY DEF PermissionInvariant, NamesResource, LoseSession
<1> QED
  BY <1>1, <1>2, <1>3, AskingKeeps DEF LoseSession, Unasked

\* The saved rules change elsewhere: what they come to permit is about to be released, or slips.
LEMMA RulesChange ==
  ASSUME PermissionInvariant, UNCHANGED <<denied, gone, request, pending, replied, replier, tangled>>,
         saved' \subseteq Resources, slipped \subseteq slipped', slipped' \subseteq Asks,
         \A q \in pending \ slipped' : Permitted(q)' => Permitted(q) \/ \E p \in Repliers : WillRelease(p, q)
  PROVE  PermissionInvariant'
<1>1. PermissionTypeOK'
  BY DEF PermissionInvariant, PermissionTypeOK
<1>2. UnaskedIsUnknown' /\ NamesResource'
  BY DEF PermissionInvariant, UnaskedIsUnknown, NamesResource, Unasked, Unanswered, InHand
<1>3. \A p \in Repliers : ReplierSound(p)'
  BY DEF PermissionInvariant, ReplierSound
<1>4. \A q \in Asks \ tangled' : AnswerSound(q)'
  BY DEF PermissionInvariant, AnswerSound, Handled, InHand, Unpublished, Published, Unanswered, ReplierAt
<1>5. NotLeftAsking'
  <2> SUFFICES ASSUME NEW q \in pending \ slipped', Permitted(q)', request[q].verdict = "none"
               PROVE  \E p \in Repliers : WillRelease(p, q)'
    BY DEF NotLeftAsking
  <2>1. \E p \in Repliers : WillRelease(p, q)
    BY DEF PermissionInvariant, NotLeftAsking
  <2> QED
    BY <2>1 DEF WillRelease, WalksFor
<1> QED
  BY <1>1, <1>2, <1>3, <1>4, <1>5 DEF PermissionInvariant

LEMMA SaveElsewhereKeeps ==
  ASSUME PermissionInvariant, NEW r \in Resources, SaveElsewhere(r)
  PROVE  PermissionInvariant'
<1>1. /\ UNCHANGED <<denied, gone, request, pending, replied, replier, tangled>>
      /\ saved' = saved \union {r} /\ slipped \subseteq slipped'
      /\ \A q \in pending \ slipped' : request[q].resource = r => \E p \in Repliers : WillRelease(p, q)
  BY DEF SaveElsewhere
<1>2. saved' \subseteq Resources /\ slipped' \subseteq Asks
  BY DEF SaveElsewhere, PermissionInvariant, PermissionTypeOK
<1> QED
  BY <1>1, <1>2, RulesChange DEF Permitted

LEMMA ForgetKeeps ==
  ASSUME PermissionInvariant, NEW r \in Resources, Forget(r)
  PROVE  PermissionInvariant'
<1>1. saved' \subseteq saved /\ UNCHANGED <<denied, gone, request, pending, replied, replier, slipped, tangled>>
  BY DEF Forget
<1>2. saved' \subseteq Resources /\ slipped' \subseteq Asks
  BY <1>1 DEF PermissionInvariant, PermissionTypeOK
<1> QED
  BY <1>1, <1>2, RulesChange DEF Permitted

-----------------------------------------------------------------------------
\* A request that a reply p does not have in hand, neither before its step nor after
\* it, and whose answer it leaves alone.
LEMMA NotInHand ==
  ASSUME NEW p \in Repliers, NEW q \in Asks, AnswerSound(q), ~InHand(p, q), ~InHand(p, q)',
         \A r \in Repliers \ {p} : replier'[r] = replier[r],
         request'[q].verdict = request[q].verdict, pending' \subseteq pending, replied \subseteq replied',
         \A e \in replied' : e.request = q => e \in replied
  PROVE  AnswerSound(q)'
<1>1. \A r \in Repliers : (InHand(r, q)' <=> InHand(r, q)) /\ (Unpublished(r, q)' <=> Unpublished(r, q))
                         /\ (Published(r, q)' <=> Published(r, q)) /\ (InHand(r, q) => replier'[r] = replier[r])
  BY DEF InHand, Unpublished, Published, ReplierAt
<1>2. Unanswered(q)' <=> Unanswered(q)
  BY DEF Unanswered
<1>3. \A r \in Repliers : Published(r, q) => InHand(r, q)
  BY DEF Published, InHand, ReplierAt
<1> QED
  BY <1>1, <1>2, <1>3 DEF AnswerSound, Handled

\* A step of a reply p, which has at most one request in hand: it only publishes and
\* decides, of requests that are registered.
OnlyReplies(p, turn) ==
  /\ replier' = [replier EXCEPT ![p] = turn]
  /\ UNCHANGED <<denied, gone>>
  /\ saved \subseteq saved' /\ pending' \subseteq pending /\ slipped \subseteq slipped'
RequestsStay ==
  \A q \in Asks :
    /\ request'[q].at = request[q].at /\ request'[q].resource = request[q].resource /\ request'[q].session = request[q].session
    /\ request'[q].verdict # request[q].verdict => ~Unasked(q) /\ request'[q].verdict # "none"
PublishesKnown == \A e \in replied' : e \in replied \/ ~Unasked(e.request)
HoldsKnown(p) ==
  \A q \in Asks : InHand(p, q)' \/ q \in replier'[p].visited => ~Unasked(q)
KeepsReleasing(p) ==
  \A q \in (pending \ slipped)' :
    /\ Permitted(q) /\ request'[q].verdict = "none" /\ WillRelease(p, q) => WillRelease(p, q)'
    /\ request[q].resource \in saved' \ saved => WillRelease(p, q)'
AnswersStay == \A q \in Asks \ tangled' : AnswerSound(q)'

LEMMA ReplyingKeeps ==
  ASSUME PermissionInvariant, PermissionTypeOK', NEW p \in Repliers, NEW turn \in ReplierRow, OnlyReplies(p, turn),
         ReplierSound(p)', RequestsStay, PublishesKnown, HoldsKnown(p), KeepsReleasing(p), AnswersStay
  PROVE  PermissionInvariant'
<1>1. replier \in [Repliers -> ReplierRow]
  BY RowTypes DEF PermissionInvariant
<1>2. replier'[p] = turn /\ \A r \in Repliers \ {p} : replier'[r] = replier[r]
  BY <1>1 DEF OnlyReplies
<1>3. UnaskedIsUnknown'
  <2> SUFFICES ASSUME NEW q \in Asks, Unasked(q)'
               PROVE  /\ q \notin pending' /\ Unanswered(q)'
                      /\ \A r \in Repliers : ~InHand(r, q)' /\ q \notin replier'[r].visited
    BY DEF UnaskedIsUnknown
  <2>1. Unasked(q)
    BY DEF RequestsStay, Unasked
  <2>2. /\ q \notin pending /\ Unanswered(q)
        /\ \A r \in Repliers : ~InHand(r, q) /\ q \notin replier[r].visited
    BY <2>1 DEF PermissionInvariant, UnaskedIsUnknown
  <2>3. Unanswered(q)'
    BY <2>1, <2>2 DEF Unanswered, RequestsStay, PublishesKnown
  <2>4. \A r \in Repliers \ {p} : ~InHand(r, q)' /\ q \notin replier'[r].visited
    BY <1>2, <2>2 DEF InHand
  <2>5. ~InHand(p, q)' /\ q \notin replier'[p].visited
    BY <2>1 DEF HoldsKnown
  <2> QED
    BY <2>2, <2>3, <2>4, <2>5 DEF OnlyReplies
<1>4. (\A r \in Repliers : ReplierSound(r)') /\ NamesResource'
  <2>1. \A r \in Repliers : ReplierSound(r)'
    BY <1>2 DEF PermissionInvariant, ReplierSound, OnlyReplies
  <2>2. NamesResource'
    BY DEF PermissionInvariant, NamesResource, RequestsStay
  <2> QED
    BY <2>1, <2>2
<1>5. NotLeftAsking'
  <2> SUFFICES ASSUME NEW q \in (pending \ slipped)', Permitted(q)', request'[q].verdict = "none"
               PROVE  \E r \in Repliers : WillRelease(r, q)'
    BY DEF NotLeftAsking
  <2>1. q \in Asks /\ q \in pending \ slipped
    BY DEF PermissionTypeOK, OnlyReplies
  <2>2. /\ request[q].verdict = "none" /\ request'[q].resource = request[q].resource
        /\ request[q].session \notin gone /\ request[q].resource \in saved' \ denied
    BY <2>1 DEF RequestsStay, OnlyReplies, Permitted
  <2>3. CASE request[q].resource \notin saved
    BY <2>2, <2>3 DEF KeepsReleasing
  <2>4. CASE request[q].resource \in saved
    <3>1. PICK r \in Repliers : WillRelease(r, q)
      BY <2>1, <2>2, <2>4 DEF PermissionInvariant, NotLeftAsking, Permitted
    <3>2. CASE r = p
      BY <2>2, <2>4, <3>1, <3>2 DEF KeepsReleasing, Permitted
    <3>3. CASE r # p
      BY <1>2, <2>2, <3>1, <3>3 DEF WillRelease, WalksFor
    <3> QED
      BY <3>2, <3>3
  <2> QED
    BY <2>3, <2>4
<1> QED
  BY <1>3, <1>4, <1>5 DEF PermissionInvariant, AnswersStay

\* The fields of a reply that only goes on.
LEMMA ReplierTurn ==
  ASSUME PermissionTypeOK, NEW p \in Repliers,
         NEW point \in {"away", "announce", "save", "settle", "remember", "walk", "announceItem", "settleItem"}
  PROVE  \E turn \in ReplierRow :
           /\ turn = [replier[p] EXCEPT !.at = point]
           /\ turn.at = point /\ turn.on = replier[p].on /\ turn.answer = replier[p].answer /\ turn.saves = replier[p].saves
           /\ turn.item = replier[p].item /\ turn.visited = replier[p].visited /\ turn.rules = replier[p].rules
<1>1. replier[p] \in ReplierRow
  BY RowTypes
<1>2. [replier[p] EXCEPT !.at = point] \in ReplierRow
  BY <1>1 DEF ReplierRow
<1> QED
  BY <1>1, <1>2 DEF ReplierRow

LEMMA ReplyEndsTurn ==
  /\ NoReply \in ReplierRow
  /\ NoReply.at = "away" /\ NoReply.on = Nil /\ NoReply.item = Nil
  /\ NoReply.visited = {} /\ NoReply.rules = {} /\ ~NoReply.saves
  BY DEF NoReply, ReplyTo, ReplierRow, Answers

LEMMA ReplyKeeps ==
  ASSUME PermissionInvariant, NEW p \in Repliers, NEW q \in Asks, NEW answer \in Answers, Reply(p, q, answer)
  PROVE  PermissionInvariant'
<1>1. PICK turn \in ReplierRow :
        /\ turn = ReplyTo(q, answer, answer = "always" /\ request[q].save, "announce")
        /\ turn.at = "announce" /\ turn.on = q /\ turn.answer = answer /\ (turn.saves => answer = "always")
        /\ turn.item = Nil /\ turn.visited = {} /\ turn.rules = {}
  <2>1. PICK saves \in BOOLEAN : saves = (answer = "always" /\ request[q].save)
    OBVIOUS
  <2>2. ReplyTo(q, answer, saves, "announce") \in ReplierRow /\ (saves => answer = "always")
    BY <2>1 DEF ReplierRow, ReplyTo
  <2> QED
    BY <2>1, <2>2 DEF ReplyTo
<1>2. /\ replier' = [replier EXCEPT ![p] = turn] /\ replier \in [Repliers -> ReplierRow]
      /\ UNCHANGED <<denied, gone, saved, request, pending, replied, slipped>> /\ tangled \subseteq tangled'
      /\ Handled(q) => q \in tangled'
  BY <1>1, RowTypes DEF Reply, Takes, Handled, PermissionInvariant
<1>3. replier'[p] = turn /\ \A r \in Repliers \ {p} : replier'[r] = replier[r]
  BY <1>2
<1>4. q \in pending /\ replier[p].at = "away" /\ replier[p].item = Nil
  BY DEF Reply, ReplierAt, PermissionInvariant, ReplierSound
<1>5. PermissionTypeOK'
  <2>1. replier' \in [Repliers -> ReplierRow]
    BY <1>2
  <2>2. tangled' \subseteq Asks
    BY DEF Reply, Takes, PermissionInvariant, PermissionTypeOK
  <2> QED
    BY <1>2, <2>1, <2>2 DEF PermissionInvariant, PermissionTypeOK, ReplierRow
<1>6. ReplierSound(p)'
  BY <1>1, <1>3 DEF ReplierSound
<1>7. \A c \in Asks : ~InHand(p, c) /\ (InHand(p, c)' <=> c = q)
  BY <1>1, <1>3, <1>4 DEF InHand
<1>8. AnswersStay
  <2> SUFFICES ASSUME NEW c \in Asks \ tangled' PROVE AnswerSound(c)'
    BY DEF AnswersStay
  <2>1. AnswerSound(c)
    BY <1>2 DEF PermissionInvariant
  <2>2. CASE c # q
    BY <1>2, <1>3, <1>7, <2>1, <2>2, NotInHand
  <2>3. CASE c = q
    <3>1. ~Handled(q) /\ Unanswered(q) /\ Unanswered(q)'
      BY <1>2, <1>4, <2>1, <2>3 DEF AnswerSound, Unanswered
    <3>2. \A r \in Repliers : InHand(r, q)' <=> r = p
      BY <1>3, <1>7, <3>1 DEF Handled, InHand
    <3>3. \A r \in Repliers : ~Published(r, q)'
      BY <1>1, <1>3, <3>2 DEF Published, InHand, ReplierAt
    <3> QED
      BY <2>3, <3>1, <3>2, <3>3 DEF AnswerSound, Unanswered
  <2> QED
    BY <2>2, <2>3
<1>9. KeepsReleasing(p)
  BY <1>2, <1>4 DEF KeepsReleasing, WillRelease, WalksFor
<1>10. RequestsStay /\ PublishesKnown /\ OnlyReplies(p, turn)
  BY <1>2 DEF RequestsStay, PublishesKnown, OnlyReplies
<1>11. HoldsKnown(p)
  BY <1>1, <1>3, <1>4, <1>7 DEF HoldsKnown, PermissionInvariant, UnaskedIsUnknown
<1> QED
  BY <1>5, <1>6, <1>8, <1>9, <1>10, <1>11, ReplyingKeeps

\* What a reply has in hand is told by where it is, before and after its step.
LEMMA HandOf ==
  ASSUME NEW p \in Repliers, NEW q \in Asks, ReplierSound(p), ReplierSound(p)'
  PROVE  /\ replier[p].at \in {"announce", "save", "settle"} => (InHand(p, q) <=> q = replier[p].on)
         /\ replier[p].at \in {"announceItem", "settleItem"} => (InHand(p, q) <=> q = replier[p].item)
         /\ replier[p].at \in {"away", "remember", "walk"} => ~InHand(p, q)
         /\ replier'[p].at \in {"announce", "save", "settle"} => (InHand(p, q)' <=> q = replier'[p].on)
         /\ replier'[p].at \in {"announceItem", "settleItem"} => (InHand(p, q)' <=> q = replier'[p].item)
         /\ replier'[p].at \in {"away", "remember", "walk"} => ~InHand(p, q)'
  BY DEF ReplierSound, InHand

\* A request that a reply has in hand is registered.
LEMMA HeldIsAsked ==
  ASSUME PermissionInvariant, NEW p \in Repliers, NEW q \in Asks, InHand(p, q) \/ q \in replier[p].visited \/ q \in pending
  PROVE  ~Unasked(q)
  BY DEF PermissionInvariant, UnaskedIsUnknown

\* The reply ends without an effect.
LEMMA EndingKeeps ==
  ASSUME PermissionInvariant, NEW p \in Repliers, ReplyEnds(p),
         UNCHANGED <<denied, gone, saved, request, pending, replied>>, slipped \subseteq slipped', slipped' \subseteq Asks,
         tangled \subseteq tangled', tangled' \subseteq Asks,
         \A q \in Asks : Published(p, q) => q \in tangled',
         \A q \in (pending \ slipped)' : ~(WillRelease(p, q) /\ Permitted(q))
  PROVE  PermissionInvariant'
<1>1. replier \in [Repliers -> ReplierRow] /\ NoReply \in ReplierRow /\ ReplierSound(p)
  BY RowTypes DEF PermissionInvariant
<1>2. replier'[p] = NoReply /\ \A r \in Repliers \ {p} : replier'[r] = replier[r]
  BY <1>1 DEF ReplyEnds
<1>3. PermissionTypeOK'
  <2>1. replier' \in [Repliers -> ReplierRow]
    BY <1>1 DEF ReplyEnds
  <2> QED
    BY <2>1 DEF PermissionInvariant, PermissionTypeOK, ReplierRow
<1>4. ReplierSound(p)'
  BY <1>2, ReplyEndsTurn DEF ReplierSound
<1>5. AnswersStay
  <2> SUFFICES ASSUME NEW c \in Asks \ tangled' PROVE AnswerSound(c)'
    BY DEF AnswersStay
  <2>1. AnswerSound(c) /\ ~InHand(p, c)' /\ ~Published(p, c)
    BY <1>1, <1>2, <1>4, ReplyEndsTurn, HandOf DEF PermissionInvariant
  <2>2. CASE ~InHand(p, c)
    BY <1>2, <2>1, <2>2, NotInHand
  <2>3. CASE InHand(p, c)
    <3>1. Unpublished(p, c)
      BY <1>1, <2>1, <2>3 DEF InHand, Unpublished, Published, ReplierSound, ReplierAt
    <3>2. Unanswered(c) /\ Unanswered(c)' /\ \A r \in Repliers : ~InHand(r, c)'
      BY <1>2, <2>1, <2>3, <3>1 DEF AnswerSound, Unanswered, InHand
    <3>3. \A r \in Repliers : ~Published(r, c)' /\ ~Unpublished(r, c)'
      BY <3>2 DEF Published, Unpublished, InHand, ReplierAt
    <3> QED
      BY <3>2, <3>3 DEF AnswerSound, Unanswered
  <2> QED
    BY <2>2, <2>3
<1>6. KeepsReleasing(p) /\ RequestsStay /\ PublishesKnown
  BY DEF KeepsReleasing, RequestsStay, PublishesKnown
<1>7. HoldsKnown(p)
  BY <1>1, <1>2, <1>4, ReplyEndsTurn, HandOf DEF HoldsKnown
<1>8. OnlyReplies(p, NoReply)
  BY DEF OnlyReplies, ReplyEnds
<1> QED
  BY <1>1, <1>3, <1>4, <1>5, <1>6, <1>7, <1>8, ReplyingKeeps

LEMMA EndWalkKeeps ==
  ASSUME PermissionInvariant, NEW p \in Repliers, EndWalk(p)
  PROVE  PermissionInvariant'
<1>1. replier[p].at = "walk" /\ replier[p].item = Nil /\ pending \subseteq replier[p].visited
  BY DEF EndWalk, ReplierAt, PermissionInvariant, ReplierSound
<1>2. \A q \in Asks : ~Published(p, q)
  BY <1>1 DEF Published, ReplierAt
<1>3. pending \subseteq Asks /\ slipped \subseteq Asks /\ tangled \subseteq Asks
  BY DEF PermissionInvariant, PermissionTypeOK
<1>4. \A q \in pending : ~WillRelease(p, q)
  BY <1>1, <1>3 DEF WillRelease
<1> QED
  BY <1>2, <1>3, <1>4, EndingKeeps DEF EndWalk

-----------------------------------------------------------------------------
\* The answer is published.
LEMMA PublishKeeps ==
  ASSUME PermissionInvariant, NEW p \in Repliers, NEW q \in Asks, Unpublished(p, q), InHand(p, q),
         NEW turn \in ReplierRow, replier' = [replier EXCEPT ![p] = turn], ReplierSound(p)', Published(p, q)',
         replied' = replied \union {[request |-> q, answer |-> turn.answer]},
         UNCHANGED <<denied, gone, saved, request, pending, slipped, tangled>>,
         turn.answer = replier[p].answer /\ turn.saves = replier[p].saves, turn.visited = replier[p].visited, turn.rules = replier[p].rules,
         \A c \in Asks : (InHand(p, c) <=> c = q) /\ (InHand(p, c)' <=> c = q),
         \A c \in pending : WillRelease(p, c) => WillRelease(p, c)'
  PROVE  PermissionInvariant'
<1>1. replier \in [Repliers -> ReplierRow]
  BY RowTypes DEF PermissionInvariant
<1>2. replier'[p] = turn /\ \A r \in Repliers \ {p} : replier'[r] = replier[r]
  BY <1>1
<1>3. PermissionTypeOK'
  <2>1. replier' \in [Repliers -> ReplierRow]
    BY <1>1
  <2>2. [request |-> q, answer |-> turn.answer] \in [request : Asks, answer : Answers]
    BY DEF ReplierRow
  <2> QED
    BY <2>1, <2>2 DEF PermissionInvariant, PermissionTypeOK, ReplierRow
<1>4. PICK e \in [request : Asks, answer : Answers] :
        e.request = q /\ e.answer = turn.answer /\ replied' = replied \union {e}
  BY DEF ReplierRow
<1>5. AnswersStay
  <2> SUFFICES ASSUME NEW c \in Asks \ tangled' PROVE AnswerSound(c)'
    BY DEF AnswersStay
  <2>1. AnswerSound(c)
    BY DEF PermissionInvariant
  <2>2. CASE c # q
    <3>1. \A f \in replied' : f.request = c => f \in replied
      BY <1>4, <2>2
    <3> QED
      BY <1>2, <1>4, <2>1, <2>2, <3>1, NotInHand
  <2>3. CASE c = q
    <3>1. Unanswered(q) /\ \A r \in Repliers : InHand(r, q) => r = p
      BY <2>1, <2>3 DEF AnswerSound
    <3>2. \A r \in Repliers : InHand(r, q)' <=> r = p
      BY <1>2, <3>1 DEF InHand
    <3>3. \A r \in Repliers : (Published(r, q)' => r = p) /\ ~Unpublished(r, q)'
      <4>1. \A r \in Repliers : Published(r, q)' \/ Unpublished(r, q)' => InHand(r, q)'
        BY DEF Published, Unpublished, InHand, ReplierAt
      <4>2. ~Unpublished(p, q)'
        BY DEF Published, Unpublished, ReplierSound, ReplierAt
      <4> QED
        BY <3>2, <4>1, <4>2
    <3>4. request'[q].verdict = "none" /\ \A f \in replied' : f.request = q => f = e
      BY <1>4, <3>1 DEF Unanswered
    <3> QED
      BY <1>2, <1>4, <2>3, <3>2, <3>3, <3>4 DEF AnswerSound, Handled
  <2> QED
    BY <2>2, <2>3
<1>6. KeepsReleasing(p) /\ RequestsStay
  BY DEF KeepsReleasing, RequestsStay
<1>7. ~Unasked(q)
  BY HeldIsAsked
<1>8. PublishesKnown
  BY <1>4, <1>7 DEF PublishesKnown
<1>9. HoldsKnown(p)
  BY <1>2, <1>7, HeldIsAsked DEF HoldsKnown
<1>10. OnlyReplies(p, turn)
  BY DEF OnlyReplies
<1> QED
  BY <1>3, <1>5, <1>6, <1>8, <1>9, <1>10, ReplyingKeeps

LEMMA AnnounceReplyKeeps ==
  ASSUME PermissionInvariant, NEW p \in Repliers, AnnounceReply(p)
  PROVE  PermissionInvariant'
<1>1. /\ replier[p].at = "announce" /\ replier[p].on \in Asks /\ replier[p].item = Nil /\ replier[p].visited = {}
      /\ ReplierSound(p)
  BY DEF AnnounceReply, ReplierAt, PermissionInvariant, ReplierSound
<1>2. CASE ReplyEnds(p) /\ UNCHANGED replied
  <2>1. \A q \in Asks : ~Published(p, q) /\ ~WillRelease(p, q)
    BY <1>1 DEF Published, ReplierAt, WillRelease, WalksFor
  <2>2. pending \subseteq Asks /\ slipped \subseteq Asks /\ tangled \subseteq Asks
    BY DEF PermissionInvariant, PermissionTypeOK
  <2> QED
    BY <1>2, <2>1, <2>2, EndingKeeps DEF AnnounceReply
<1>3. CASE ~(ReplyEnds(p) /\ UNCHANGED replied)
  <2> DEFINE point == IF replier[p].saves THEN "save" ELSE "settle"
  <2>1. PICK turn \in ReplierRow :
          /\ turn = [replier[p] EXCEPT !.at = point]
          /\ turn.at = point /\ turn.on = replier[p].on /\ turn.answer = replier[p].answer /\ turn.saves = replier[p].saves
          /\ turn.item = replier[p].item /\ turn.visited = replier[p].visited /\ turn.rules = replier[p].rules
    BY ReplierTurn DEF PermissionInvariant
  <2>2. /\ replier' = [replier EXCEPT ![p] = turn]
        /\ replied' = replied \union {[request |-> replier[p].on, answer |-> turn.answer]}
        /\ UNCHANGED <<denied, gone, saved, request, pending, slipped, tangled>>
    <3>1. ReplierGoes(p, point)
      BY <1>3 DEF AnnounceReply
    <3> QED
      BY <1>3, <2>1, <3>1 DEF AnnounceReply, ReplierGoes
  <2>3. replier'[p] = turn
    BY <2>2, RowTypes DEF PermissionInvariant
  <2>4. ReplierSound(p)'
    BY <1>1, <2>1, <2>2, <2>3 DEF ReplierSound
  <2>5. \A c \in Asks : (InHand(p, c) <=> c = replier[p].on) /\ (InHand(p, c)' <=> c = replier[p].on)
    BY <1>1, <2>1, <2>3, <2>4, HandOf
  <2>6. \A c : ~WillRelease(p, c)
    BY <1>1 DEF WillRelease, WalksFor
  <2>7. PICK q \in Asks : q = replier[p].on
    BY <1>1
  <2>8. Unpublished(p, q) /\ InHand(p, q) /\ Published(p, q)'
    BY <1>1, <2>1, <2>3, <2>5, <2>7 DEF Unpublished, Published, ReplierAt
  <2> HIDE DEF point
  <2> QED
    BY <2>1, <2>2, <2>4, <2>5, <2>6, <2>7, <2>8, PublishKeeps
<1> QED
  BY <1>2, <1>3

LEMMA AnnounceItemKeeps ==
  ASSUME PermissionInvariant, NEW p \in Repliers, AnnounceItem(p)
  PROVE  PermissionInvariant'
<1>1. /\ replier[p].at = "announceItem" /\ replier[p].item \in Asks
      /\ ReplierSound(p)
  <2>1. replier[p] \in ReplierRow
    BY RowTypes DEF PermissionInvariant
  <2> QED
    BY <2>1 DEF AnnounceItem, ReplierAt, PermissionInvariant, ReplierSound, ReplierRow
<1>2. CASE ReplyEnds(p) /\ UNCHANGED replied
  <2>1. \A q \in Asks : ~Published(p, q)
    BY <1>1 DEF Published, ReplierAt
  <2>2. pending \subseteq Asks /\ slipped \subseteq Asks /\ tangled \subseteq Asks
    BY DEF PermissionInvariant, PermissionTypeOK
  <2>3. (slipped' = slipped \union pending \/ UNCHANGED slipped) /\ UNCHANGED <<denied, gone, saved, request, pending, tangled>>
    BY DEF AnnounceItem
  <2>4. slipped' = slipped \union pending
    <3>1. CASE ReplierGoes(p, "settleItem")
      <4>1. replier \in [Repliers -> ReplierRow]
        BY RowTypes DEF PermissionInvariant
      <4>2. replier'[p].at = "settleItem"
        BY <3>1, <4>1 DEF ReplierGoes, ReplierRow
      <4>3. replier'[p].at = "away"
        BY <1>2, <4>1, ReplyEndsTurn DEF ReplyEnds
      <4> QED
        BY <4>2, <4>3
    <3> QED
      BY <3>1 DEF AnnounceItem
  <2> QED
    BY <1>2, <2>1, <2>2, <2>3, <2>4, EndingKeeps
<1>3. CASE ~(ReplyEnds(p) /\ UNCHANGED replied)
  <2>1. PICK turn \in ReplierRow :
          /\ turn = [replier[p] EXCEPT !.at = "settleItem"]
          /\ turn.at = "settleItem" /\ turn.on = replier[p].on /\ turn.answer = replier[p].answer /\ turn.saves = replier[p].saves
          /\ turn.item = replier[p].item /\ turn.visited = replier[p].visited /\ turn.rules = replier[p].rules
    BY ReplierTurn DEF PermissionInvariant
  <2>2. /\ replier' = [replier EXCEPT ![p] = turn]
        /\ replied' = replied \union {[request |-> replier[p].item, answer |-> turn.answer]}
        /\ UNCHANGED <<denied, gone, saved, request, pending, slipped, tangled>>
    BY <1>3, <2>1 DEF AnnounceItem, ReplierGoes
  <2>3. replier'[p] = turn
    BY <2>2, RowTypes DEF PermissionInvariant
  <2>4. ReplierSound(p)'
    BY <1>1, <2>1, <2>2, <2>3 DEF ReplierSound
  <2>5. \A c \in Asks : (InHand(p, c) <=> c = replier[p].item) /\ (InHand(p, c)' <=> c = replier[p].item)
    BY <1>1, <2>1, <2>3, <2>4, HandOf
  <2>6. \A c : WillRelease(p, c) => WillRelease(p, c)'
    BY <1>1, <2>1, <2>2, <2>3 DEF WillRelease, WalksFor
  <2>7. PICK q \in Asks : q = replier[p].item
    BY <1>1
  <2>8. Unpublished(p, q) /\ InHand(p, q) /\ Published(p, q)'
    BY <1>1, <2>1, <2>3, <2>5, <2>7 DEF Unpublished, Published, ReplierAt
  <2> QED
    BY <2>1, <2>2, <2>4, <2>5, <2>6, <2>7, <2>8, PublishKeeps
<1> QED
  BY <1>2, <1>3

LEMMA SaveRuleKeeps ==
  ASSUME PermissionInvariant, NEW p \in Repliers, SaveRule(p)
  PROVE  PermissionInvariant'
<1>1. /\ replier[p].at = "save" /\ replier[p].on \in Asks /\ replier[p].item = Nil /\ replier[p].visited = {}
      /\ replier[p].answer = "always" /\ ReplierSound(p)
  BY DEF SaveRule, ReplierAt, PermissionInvariant, ReplierSound
<1>2. CASE ReplyEnds(p) /\ tangled' = tangled \union {replier[p].on} /\ UNCHANGED saved
  <2>1. \A q \in Asks : (Published(p, q) => q \in tangled') /\ ~WillRelease(p, q)
    BY <1>1, <1>2 DEF Published, ReplierAt, WillRelease, WalksFor
  <2>2. pending \subseteq Asks /\ slipped \subseteq Asks /\ tangled' \subseteq Asks
    BY <1>1, <1>2 DEF PermissionInvariant, PermissionTypeOK
  <2> QED
    BY <1>2, <2>1, <2>2, EndingKeeps DEF SaveRule
<1>3. CASE saved' = saved \union {request[replier[p].on].resource} /\ ReplierGoes(p, "settle") /\ UNCHANGED tangled
  <2>1. PICK turn \in ReplierRow :
          /\ turn = [replier[p] EXCEPT !.at = "settle"]
          /\ turn.at = "settle" /\ turn.on = replier[p].on /\ turn.answer = replier[p].answer /\ turn.saves = replier[p].saves
          /\ turn.item = replier[p].item /\ turn.visited = replier[p].visited /\ turn.rules = replier[p].rules
    BY ReplierTurn DEF PermissionInvariant
  <2>2. replier' = [replier EXCEPT ![p] = turn] /\ UNCHANGED <<denied, gone, request, pending, replied, slipped, tangled>>
    BY <1>3, <2>1 DEF SaveRule, ReplierGoes
  <2>3. /\ replier \in [Repliers -> ReplierRow] /\ replier'[p] = turn
        /\ \A r \in Repliers \ {p} : replier'[r] = replier[r]
    BY <2>2, RowTypes DEF PermissionInvariant
  <2>4. ReplierSound(p)'
    BY <1>1, <1>3, <2>1, <2>3 DEF ReplierSound
  <2>5. PermissionTypeOK'
    <3>1. replier' \in [Repliers -> ReplierRow]
      BY <2>2, <2>3
    <3>2. saved' \subseteq Resources
      <4>1. InHand(p, replier[p].on)
        BY <1>1 DEF InHand
      <4>2. request[replier[p].on].resource \in Resources
        BY <1>1, <4>1, HeldIsAsked DEF PermissionInvariant, NamesResource, Unasked
      <4> QED
        BY <1>3, <4>2 DEF PermissionInvariant, PermissionTypeOK
    <3> QED
      BY <2>2, <3>1, <3>2 DEF PermissionInvariant, PermissionTypeOK, ReplierRow
  <2>6. \A c \in Asks : (InHand(p, c) <=> c = replier[p].on) /\ (InHand(p, c)' <=> c = replier[p].on)
    BY <1>1, <2>1, <2>3, <2>4, HandOf
  <2>7. AnswersStay
    <3> SUFFICES ASSUME NEW c \in Asks \ tangled' PROVE AnswerSound(c)'
      BY DEF AnswersStay
    <3>1. AnswerSound(c)
      BY <2>2 DEF PermissionInvariant
    <3>2. CASE c # replier[p].on
      BY <2>2, <2>3, <2>6, <3>1, <3>2, NotInHand
    <3>3. CASE c = replier[p].on
      <4>1. \A r \in Repliers : (InHand(r, c)' <=> InHand(r, c)) /\ (Published(r, c)' <=> Published(r, c))
                               /\ (Unpublished(r, c)' <=> Unpublished(r, c)) /\ replier'[r].answer = replier[r].answer
        BY <1>1, <2>1, <2>3, <2>6 DEF InHand, Published, Unpublished, ReplierAt
      <4> QED
        BY <2>2, <3>1, <4>1 DEF AnswerSound, Handled, Unanswered
    <3> QED
      BY <3>2, <3>3
  <2>8. KeepsReleasing(p)
    <3>1. replier[p].saves
      BY <1>1 DEF ReplierSound
    <3>2. \A q : WillRelease(p, q)'
      BY <1>1, <2>1, <2>3, <3>1 DEF WillRelease, WalksFor
    <3> QED
      BY <3>2 DEF KeepsReleasing
  <2>9. RequestsStay /\ PublishesKnown /\ OnlyReplies(p, turn)
    BY <1>3, <2>2 DEF RequestsStay, PublishesKnown, OnlyReplies
  <2>10. HoldsKnown(p)
    BY <1>1, <2>1, <2>3, <2>6, HeldIsAsked DEF HoldsKnown
  <2> QED
    BY <2>4, <2>5, <2>7, <2>8, <2>9, <2>10, ReplyingKeeps
<1> QED
  BY <1>2, <1>3 DEF SaveRule

-----------------------------------------------------------------------------
\* The answer takes effect: the request that is in hand gets its verdict and leaves the map.
LEMMA SettleKeeps ==
  ASSUME PermissionInvariant, NEW p \in Repliers, NEW q \in Asks, Published(p, q),
         NEW turn \in ReplierRow, replier' = [replier EXCEPT ![p] = turn], ReplierSound(p)',
         Decide(q, replier[p].answer), pending' = NoLongerPending(q),
         UNCHANGED <<denied, gone, saved, replied, slipped, tangled>>,
         turn.visited \subseteq replier[p].visited,
         \A c \in Asks : (InHand(p, c) <=> c = q) /\ ~InHand(p, c)',
         \A c \in pending \ {q} : WillRelease(p, c) => WillRelease(p, c)'
  PROVE  PermissionInvariant'
<1>1. replier \in [Repliers -> ReplierRow] /\ request \in [Asks -> RequestRow]
  BY RowTypes DEF PermissionInvariant
<1>2. replier'[p] = turn /\ \A r \in Repliers \ {p} : replier'[r] = replier[r]
  BY <1>1
<1>3. /\ request' \in [Asks -> RequestRow]
      /\ \A c \in Asks : request'[c].at = request[c].at /\ request'[c].resource = request[c].resource /\ request'[c].session = request[c].session
      /\ \A c \in Asks \ {q} : request'[c] = request[c]
      /\ request[q].verdict = "none" => request'[q].verdict = Verdict(replier[p].answer)
      /\ request'[q].verdict # "none"
  BY <1>1 DEF Decide, Verdict, RequestRow
<1>4. PermissionTypeOK'
  <2>1. replier' \in [Repliers -> ReplierRow]
    BY <1>1
  <2> QED
    BY <1>3, <2>1 DEF PermissionInvariant, PermissionTypeOK, ReplierRow, RequestRow, NoLongerPending
<1>5. AnswersStay
  <2> SUFFICES ASSUME NEW c \in Asks \ tangled' PROVE AnswerSound(c)'
    BY DEF AnswersStay
  <2>1. AnswerSound(c)
    BY DEF PermissionInvariant
  <2>2. CASE c # q
    BY <1>2, <1>3, <2>1, <2>2, NotInHand DEF NoLongerPending
  <2>3. CASE c = q
    <3>1. request[q].verdict = "none" /\ (\A e \in replied : e.request = q => e.answer = replier[p].answer)
          /\ \A r \in Repliers : InHand(r, q) => r = p
      BY <2>1, <2>3 DEF AnswerSound
    <3>2. \A r \in Repliers : ~InHand(r, q)'
      BY <1>2, <3>1 DEF InHand
    <3>3. \A r \in Repliers : ~Published(r, q)' /\ ~Unpublished(r, q)'
      BY <3>2 DEF Published, Unpublished, InHand, ReplierAt
    <3>4. q \notin pending' /\ request'[q].verdict = Verdict(replier[p].answer)
      BY <1>3, <3>1 DEF NoLongerPending
    <3> QED
      BY <2>3, <3>1, <3>2, <3>3, <3>4 DEF AnswerSound
  <2> QED
    BY <2>2, <2>3
<1>6. KeepsReleasing(p)
  BY DEF KeepsReleasing, NoLongerPending
<1>7. RequestsStay
  <2>1. ~Unasked(q)
    BY HeldIsAsked
  <2> QED
    BY <1>3, <2>1 DEF RequestsStay
<1>8. PublishesKnown /\ OnlyReplies(p, turn)
  BY DEF PublishesKnown, OnlyReplies, NoLongerPending
<1>9. HoldsKnown(p)
  BY <1>2, HeldIsAsked DEF HoldsKnown
<1> QED
  BY <1>4, <1>5, <1>6, <1>7, <1>8, <1>9, ReplyingKeeps

LEMMA SettleReplyKeeps ==
  ASSUME PermissionInvariant, NEW p \in Repliers, SettleReply(p)
  PROVE  PermissionInvariant'
<1>1. /\ replier[p].at = "settle" /\ replier[p].on \in Asks /\ replier[p].item = Nil /\ replier[p].visited = {}
      /\ ReplierSound(p) /\ replier[p].answer \in Answers
  <2>1. replier[p] \in ReplierRow
    BY RowTypes DEF PermissionInvariant
  <2> QED
    BY <2>1 DEF SettleReply, ReplierAt, PermissionInvariant, ReplierSound, ReplierRow
<1>2. PICK turn \in ReplierRow :
        /\ replier' = [replier EXCEPT ![p] = turn]
        /\ turn.item = Nil /\ turn.visited = {}
        /\ turn.at = IF replier[p].answer = "reject" THEN "walk" ELSE IF replier[p].saves THEN "remember" ELSE "away"
        /\ turn.saves => replier[p].saves /\ turn.answer = replier[p].answer
        /\ turn.at = "remember" => turn.saves
  <2>1. CASE replier[p].answer # "reject" /\ ~replier[p].saves
    BY <1>1, <2>1, ReplyEndsTurn DEF SettleReply, ReplyEnds, AfterSettle
  <2>2. CASE replier[p].answer = "reject" \/ replier[p].saves
    <3> DEFINE point == IF replier[p].answer = "reject" THEN "walk" ELSE "remember"
    <3>1. ReplierGoes(p, point)
      <4>1. replier[p].saves => replier[p].answer # "reject"
        BY <1>1 DEF ReplierSound
      <4>2. CASE replier[p].answer = "reject"
        BY <4>1, <4>2 DEF SettleReply, AfterSettle
      <4>3. CASE replier[p].answer # "reject"
        BY <2>2, <4>3 DEF SettleReply, AfterSettle
      <4> QED
        BY <4>2, <4>3
    <3>2. PICK turn \in ReplierRow :
            /\ turn = [replier[p] EXCEPT !.at = point]
            /\ turn.at = point /\ turn.on = replier[p].on /\ turn.answer = replier[p].answer /\ turn.saves = replier[p].saves
            /\ turn.item = replier[p].item /\ turn.visited = replier[p].visited /\ turn.rules = replier[p].rules
      BY ReplierTurn DEF PermissionInvariant
    <3>3. replier' = [replier EXCEPT ![p] = turn]
      BY <3>1, <3>2 DEF ReplierGoes
    <3>4. point = "remember" => replier[p].saves
      BY <2>2
    <3>5. turn.at = IF replier[p].answer = "reject" THEN "walk" ELSE IF replier[p].saves THEN "remember" ELSE "away"
      BY <2>2, <3>2
    <3> HIDE DEF point
    <3> QED
      BY <1>1, <3>2, <3>3, <3>4, <3>5
  <2> QED
    BY <2>1, <2>2
<1>3. replier'[p] = turn
  BY <1>2, RowTypes DEF PermissionInvariant
<1>4. turn.at \in {"away", "remember", "walk"} /\ (replier[p].saves => turn.at = "remember")
  BY <1>1, <1>2 DEF ReplierSound
<1>5. ReplierSound(p)'
  BY <1>1, <1>2, <1>3, <1>4 DEF ReplierSound
<1>6. PICK q \in Asks : q = replier[p].on
  BY <1>1
<1>7. Published(p, q)
  BY <1>1, <1>6 DEF Published
<1>8. \A c \in Asks : (InHand(p, c) <=> c = q) /\ ~InHand(p, c)'
  BY <1>1, <1>3, <1>4, <1>5, <1>6, HandOf
<1>9. \A c : WillRelease(p, c) => WillRelease(p, c)'
  <2> SUFFICES ASSUME replier[p].saves PROVE \A c : WillRelease(p, c)'
    BY DEF WillRelease, WalksFor
  <2> QED
    BY <1>2, <1>3, <1>4 DEF WillRelease, WalksFor
<1> QED
  BY <1>1, <1>2, <1>5, <1>6, <1>7, <1>8, <1>9, SettleKeeps DEF SettleReply

LEMMA SettleItemKeeps ==
  ASSUME PermissionInvariant, NEW p \in Repliers, SettleItem(p)
  PROVE  PermissionInvariant'
<1>1. /\ replier[p] \in ReplierRow /\ replier[p].at = "settleItem" /\ replier[p].item \in Asks
      /\ ReplierSound(p)
  <2>1. replier[p] \in ReplierRow
    BY RowTypes DEF PermissionInvariant
  <2> QED
    BY <2>1 DEF SettleItem, ReplierAt, PermissionInvariant, ReplierSound, ReplierRow
<1>2. PICK q \in Asks : q = replier[p].item
  BY <1>1
<1>3. PICK turn \in ReplierRow :
        /\ replier' = [replier EXCEPT ![p] = turn]
        /\ turn.at = "walk" /\ turn.item = Nil /\ turn.visited = replier[p].visited \ {q}
        /\ turn.answer = replier[p].answer /\ turn.saves = replier[p].saves /\ turn.rules = replier[p].rules
  <2>1. [replier[p] EXCEPT !.at = "walk", !.item = Nil, !.visited = @ \ {q}] \in ReplierRow
    BY <1>1 DEF ReplierRow
  <2>2. PICK turn \in ReplierRow :
          /\ turn = [replier[p] EXCEPT !.at = "walk", !.item = Nil, !.visited = @ \ {q}]
          /\ turn.at = "walk" /\ turn.item = Nil /\ turn.visited = replier[p].visited \ {q}
          /\ turn.answer = replier[p].answer /\ turn.saves = replier[p].saves /\ turn.rules = replier[p].rules
    BY <1>1, <2>1 DEF ReplierRow
  <2>3. replier' = [replier EXCEPT ![p] = turn]
    BY <1>2, <2>2 DEF SettleItem
  <2> QED
    BY <2>2, <2>3
<1>4. replier' = [replier EXCEPT ![p] = turn]
  BY <1>3
<1>5. replier'[p] = turn
  BY <1>4, RowTypes DEF PermissionInvariant
<1>6. ReplierSound(p)'
  BY <1>1, <1>3, <1>5 DEF ReplierSound, SettleItem
<1>7. Published(p, q)
  BY <1>1, <1>2 DEF Published, ReplierAt
<1>8. \A c \in Asks : (InHand(p, c) <=> c = q) /\ ~InHand(p, c)'
  BY <1>1, <1>2, <1>3, <1>5, <1>6, HandOf
<1>9. \A c \in pending \ {q} : WillRelease(p, c) => WillRelease(p, c)'
  <2>1. \A c \in Asks : request'[c].resource = request[c].resource /\ request'[c].session = request[c].session
    <3>1. request \in [Asks -> RequestRow]
      BY RowTypes DEF PermissionInvariant
    <3> QED
      BY <1>2, <3>1 DEF SettleItem, Decide, RequestRow
  <2>2. pending \subseteq Asks
    BY DEF PermissionInvariant, PermissionTypeOK
  <2>3. \A r : WalksFor(p, r) => WalksFor(p, r)'
    BY <1>1, <1>3, <1>5 DEF WalksFor
  <2>4. \A c : c # q /\ (c \notin replier[p].visited \/ replier[p].item = c) => c \notin replier'[p].visited
    BY <1>2, <1>3, <1>5
  <2> QED
    BY <2>1, <2>2, <2>3, <2>4 DEF WillRelease, WalksFor
<1> QED
  BY <1>2, <1>3, <1>4, <1>6, <1>7, <1>8, <1>9, SettleKeeps DEF SettleItem, NoLongerPending

\* Steps of a walk that take no answer further.
LEMMA WalkKeeps ==
  ASSUME PermissionInvariant, NEW p \in Repliers, NEW turn \in ReplierRow,
         replier' = [replier EXCEPT ![p] = turn], ReplierSound(p)',
         UNCHANGED <<denied, gone, saved, request, pending, replied, slipped>>,
         tangled \subseteq tangled', tangled' \subseteq Asks,
         \A c \in Asks : c \in turn.visited => c \in replier[p].visited \/ c \in pending,
         \A c \in Asks : ~InHand(p, c) /\ (InHand(p, c)' => c \in pending /\ Unpublished(p, c)'
                                                         /\ (Handled(c) => c \in tangled')),
         KeepsReleasing(p)
  PROVE  PermissionInvariant'
<1>1. replier \in [Repliers -> ReplierRow]
  BY RowTypes DEF PermissionInvariant
<1>2. replier'[p] = turn /\ \A r \in Repliers \ {p} : replier'[r] = replier[r]
  BY <1>1
<1>3. PermissionTypeOK'
  <2>1. replier' \in [Repliers -> ReplierRow]
    BY <1>1
  <2> QED
    BY <2>1 DEF PermissionInvariant, PermissionTypeOK, ReplierRow
<1>4. AnswersStay
  <2> SUFFICES ASSUME NEW c \in Asks \ tangled' PROVE AnswerSound(c)'
    BY DEF AnswersStay
  <2>1. AnswerSound(c) /\ ~InHand(p, c)
    BY DEF PermissionInvariant
  <2>2. CASE ~InHand(p, c)'
    BY <1>2, <2>1, <2>2, NotInHand
  <2>3. CASE InHand(p, c)'
    <3>1. ~Handled(c) /\ Unanswered(c) /\ Unanswered(c)' /\ Unpublished(p, c)'
      BY <2>1, <2>3 DEF AnswerSound, Unanswered
    <3>2. \A r \in Repliers : InHand(r, c)' <=> r = p
      BY <1>2, <2>3, <3>1 DEF Handled, InHand
    <3>3. \A r \in Repliers : ~Published(r, c)'
      <4>1. ~Published(p, c)'
        BY <3>1 DEF Published, Unpublished, ReplierSound, ReplierAt
      <4>2. \A r \in Repliers : Published(r, c)' => InHand(r, c)'
        BY DEF Published, InHand, ReplierAt
      <4> QED
        BY <3>2, <4>1, <4>2
    <3> QED
      BY <2>3, <3>1, <3>2, <3>3 DEF AnswerSound, Unanswered
  <2> QED
    BY <2>2, <2>3
<1>5. RequestsStay /\ PublishesKnown /\ OnlyReplies(p, turn)
  BY DEF RequestsStay, PublishesKnown, OnlyReplies
<1>6. HoldsKnown(p)
  BY <1>2, HeldIsAsked DEF HoldsKnown
<1> QED
  BY <1>3, <1>4, <1>5, <1>6, ReplyingKeeps

LEMMA RememberKeeps ==
  ASSUME PermissionInvariant, NEW p \in Repliers, Remember(p)
  PROVE  PermissionInvariant'
<1>1. /\ replier[p] \in ReplierRow /\ replier[p].at = "remember" /\ replier[p].saves /\ replier[p].answer = "always"
      /\ replier[p].item = Nil /\ ReplierSound(p) /\ saved \subseteq Resources
  <2>1. replier[p] \in ReplierRow
    BY RowTypes DEF PermissionInvariant
  <2> QED
    BY <2>1 DEF Remember, ReplierAt, PermissionInvariant, ReplierSound, PermissionTypeOK
<1>2. PICK turn \in ReplierRow :
        /\ turn = [at |-> "walk", on |-> Nil, answer |-> replier[p].answer, saves |-> replier[p].saves, item |-> Nil,
                   visited |-> LiveMap, rules |-> saved]
        /\ turn.at = "walk" /\ turn.item = Nil /\ turn.visited = {}
        /\ turn.answer = "always" /\ turn.saves /\ turn.rules = saved
  <2>1. [at |-> "walk", on |-> Nil, answer |-> replier[p].answer, saves |-> replier[p].saves, item |-> Nil,
         visited |-> LiveMap, rules |-> saved] \in ReplierRow
    BY <1>1 DEF ReplierRow, LiveMap
  <2> QED
    BY <1>1, <2>1 DEF LiveMap
<1>3. replier' = [replier EXCEPT ![p] = turn] /\ UNCHANGED <<denied, gone, saved, request, pending, replied, slipped, tangled>>
  BY <1>2 DEF Remember
<1>4. replier'[p] = turn
  BY <1>3, RowTypes DEF PermissionInvariant
<1>5. ReplierSound(p)'
  BY <1>1, <1>2, <1>3, <1>4 DEF ReplierSound
<1>6. \A c \in Asks : ~InHand(p, c) /\ ~InHand(p, c)'
  BY <1>1, <1>2, <1>4, <1>5, HandOf
<1>7. KeepsReleasing(p)
  BY <1>2, <1>3, <1>4 DEF KeepsReleasing, Permitted, WillRelease, WalksFor
<1>8. tangled \subseteq Asks
  BY DEF PermissionInvariant, PermissionTypeOK
<1> QED
  BY <1>2, <1>3, <1>5, <1>6, <1>7, <1>8, WalkKeeps

\* A request that the remembered rules permit is not passed over.
LEMMA VisitKeeps ==
  ASSUME PermissionInvariant, NEW p \in Repliers, NEW q \in Asks, Visit(p, q)
  PROVE  PermissionInvariant'
<1>1. /\ replier[p] \in ReplierRow /\ replier[p].at = "walk" /\ replier[p].item = Nil
      /\ ReplierSound(p) /\ q \in pending \ replier[p].visited
  <2>1. replier[p] \in ReplierRow
    BY RowTypes DEF PermissionInvariant
  <2> QED
    BY <2>1 DEF Visit, ReplierAt, PermissionInvariant, ReplierSound
<1>2. /\ UNCHANGED <<denied, gone, saved, request, pending, replied, slipped>>
      /\ tangled \subseteq tangled' /\ tangled' \subseteq Asks
  BY DEF Visit, Takes, PermissionInvariant, PermissionTypeOK
<1>3. CASE Concerns(p, q)
  <2>1. PICK turn \in ReplierRow :
          /\ replier' = [replier EXCEPT ![p] = turn]
          /\ turn.at = "announceItem" /\ turn.item = q /\ turn.visited = replier[p].visited \union {q}
          /\ turn.answer = replier[p].answer /\ turn.saves = replier[p].saves /\ turn.rules = replier[p].rules
    <3>1. [replier[p] EXCEPT !.at = "announceItem", !.item = q, !.visited = @ \union {q}] \in ReplierRow
      BY <1>1 DEF ReplierRow
    <3>2. PICK turn \in ReplierRow :
            /\ turn = [replier[p] EXCEPT !.at = "announceItem", !.item = q, !.visited = @ \union {q}]
            /\ turn.at = "announceItem" /\ turn.item = q /\ turn.visited = replier[p].visited \union {q}
            /\ turn.answer = replier[p].answer /\ turn.saves = replier[p].saves /\ turn.rules = replier[p].rules
      BY <1>1, <3>1 DEF ReplierRow
    <3>3. replier' = [replier EXCEPT ![p] = turn]
      BY <1>3, <3>2 DEF Visit
    <3> QED
      BY <3>2, <3>3
  <2>2. Handled(q) => q \in tangled'
    BY <1>3 DEF Visit, Takes, Handled
  <2>3. replier'[p] = turn
    BY <2>1, RowTypes DEF PermissionInvariant
  <2>4. ReplierSound(p)'
    BY <1>1, <1>2, <2>1, <2>3 DEF ReplierSound
  <2>5. \A c \in Asks : ~InHand(p, c) /\ (InHand(p, c)' <=> c = q)
    BY <1>1, <2>1, <2>3, <2>4, HandOf
  <2>6. Unpublished(p, q)'
    BY <2>1, <2>3 DEF Unpublished, ReplierAt
  <2>7. KeepsReleasing(p)
    <3>1. \A r : WalksFor(p, r) => WalksFor(p, r)'
      BY <1>1, <2>1, <2>3 DEF WalksFor
    <3>2. \A c : c \notin replier[p].visited \/ replier[p].item = c => c \notin replier'[p].visited \/ replier'[p].item = c
      <4>1. \A c \in Asks : replier[p].item # c
        BY <1>1
      <4>2. \A c : replier[p].item = c => c = Nil
        BY <1>1
      <4>3. Nil \notin replier'[p].visited
        BY <2>1, <2>3 DEF ReplierRow
      <4> QED
        BY <2>1, <2>3, <4>1, <4>2, <4>3
    <3>3. \A c : WillRelease(p, c) => WillRelease(p, c)'
      BY <1>2, <3>1, <3>2 DEF WillRelease, WalksFor
    <3> QED
      BY <1>2, <3>3 DEF KeepsReleasing
  <2>8. \A c \in Asks : ~InHand(p, c) /\ (InHand(p, c)' => c \in pending /\ Unpublished(p, c)'
                                                         /\ (Handled(c) => c \in tangled'))
    BY <1>1, <2>2, <2>5, <2>6
  <2>9. \A c \in Asks : c \in turn.visited => c \in replier[p].visited \/ c \in pending
    BY <1>1, <2>1
  <2> QED
    BY <1>2, <2>1, <2>4, <2>7, <2>8, <2>9, WalkKeeps
<1>4. CASE ~Concerns(p, q)
  <2>1. PICK turn \in ReplierRow :
          /\ replier' = [replier EXCEPT ![p] = turn]
          /\ turn.at = "walk" /\ turn.item = Nil /\ turn.visited = replier[p].visited \union {q}
          /\ turn.answer = replier[p].answer /\ turn.saves = replier[p].saves /\ turn.rules = replier[p].rules
    <3>1. [replier[p] EXCEPT !.visited = @ \union {q}] \in ReplierRow
      BY <1>1 DEF ReplierRow
    <3>2. PICK turn \in ReplierRow :
            /\ turn = [replier[p] EXCEPT !.visited = @ \union {q}]
            /\ turn.at = "walk" /\ turn.item = Nil /\ turn.visited = replier[p].visited \union {q}
            /\ turn.answer = replier[p].answer /\ turn.saves = replier[p].saves /\ turn.rules = replier[p].rules
      BY <1>1, <3>1 DEF ReplierRow
    <3>3. replier' = [replier EXCEPT ![p] = turn]
      BY <1>4, <3>2 DEF Visit
    <3> QED
      BY <3>2, <3>3
  <2>3. replier'[p] = turn
    BY <2>1, RowTypes DEF PermissionInvariant
  <2>4. ReplierSound(p)'
    BY <1>1, <1>2, <2>1, <2>3 DEF ReplierSound
  <2>5. \A c \in Asks : ~InHand(p, c) /\ ~InHand(p, c)'
    BY <1>1, <2>1, <2>3, <2>4, HandOf
  <2>6. KeepsReleasing(p)
    <3>1. Permitted(q) => ~WillRelease(p, q)
      BY <1>1, <1>4 DEF Concerns, Permitted, WillRelease, WalksFor, ReplierSound
    <3> QED
      BY <1>1, <1>2, <2>1, <2>3, <3>1 DEF KeepsReleasing, WillRelease, WalksFor
  <2> QED
    BY <1>1, <1>2, <2>1, <2>4, <2>5, <2>6, WalkKeeps
<1> QED
  BY <1>3, <1>4

-----------------------------------------------------------------------------
LEMMA PermissionStep == PermissionInvariant /\ [PermissionNext]_permissionVars => PermissionInvariant'
<1> SUFFICES ASSUME PermissionInvariant, [PermissionNext]_permissionVars PROVE PermissionInvariant'
  OBVIOUS
<1>1. ASSUME NEW q \in Asks, NEW session \in SessionIds, NEW resource \in Resources, NEW save \in BOOLEAN,
             AssertAllowed(q, session, resource, save)
      PROVE  PermissionInvariant'
  BY <1>1, AssertAllowedKeeps
<1>2. ASSUME NEW q \in Asks, ReadSaved(q) \/ Create(q) \/ Asked(q) \/ Proceed(q)
      PROVE  PermissionInvariant'
  BY <1>2, ToolKeeps
<1>3. ASSUME NEW p \in Repliers, NEW q \in Asks, (\E answer \in Answers : Reply(p, q, answer)) \/ Visit(p, q)
      PROVE  PermissionInvariant'
  BY <1>3, ReplyKeeps, VisitKeeps
<1>4. ASSUME NEW p \in Repliers, AnnounceReply(p) \/ SaveRule(p) \/ SettleReply(p) \/ Remember(p)
      PROVE  PermissionInvariant'
  BY <1>4, AnnounceReplyKeeps, SaveRuleKeeps, SettleReplyKeeps, RememberKeeps
<1>5. ASSUME NEW p \in Repliers, AnnounceItem(p) \/ SettleItem(p) \/ EndWalk(p)
      PROVE  PermissionInvariant'
  BY <1>5, AnnounceItemKeeps, SettleItemKeeps, EndWalkKeeps
<1>6. ASSUME NEW r \in Resources, Deny(r) \/ SaveElsewhere(r) \/ Forget(r) PROVE PermissionInvariant'
  BY <1>6, DenyKeeps, SaveElsewhereKeeps, ForgetKeeps
<1>8. ASSUME NEW session \in SessionIds, LoseSession(session) PROVE PermissionInvariant'
  BY <1>8, LoseSessionKeeps
<1>7. CASE UNCHANGED permissionVars
  <2>1. NamesResource'
    BY <1>7 DEF permissionVars, PermissionInvariant, NamesResource
  <2>2. PermissionTypeOK'
    BY <1>7 DEF permissionVars, PermissionInvariant, PermissionTypeOK
  <2>3. \A q \in Asks : Unasked(q) => q \notin pending
    BY DEF PermissionInvariant, UnaskedIsUnknown
  <2> QED
    BY <1>7, <2>1, <2>2, <2>3, AskingKeeps DEF permissionVars, Unasked
<1> QED
  BY <1>1, <1>2, <1>3, <1>4, <1>5, <1>6, <1>7, <1>8 DEF PermissionNext

(***************************************************************************)
(* What the map of pending requests, the saved rules and the replies under *)
(* way have to do with each other, in every reachable state.               *)
(***************************************************************************)
THEOREM PermissionSound == PermissionSpec => []PermissionInvariant
  BY PermissionInitially, PermissionStep, PTL DEF PermissionSpec

(***************************************************************************)
(* A pending request that the saved rules allow, of a session that is      *)
(* there, is about to be released, however the walks, the replies and the  *)
(* assertions interleave and whoever changes the rules of the project, but *)
(* for what no walk of this Location is bound to find: what was registered *)
(* after the walk from rules read before it, left by a walk that died, or  *)
(* pending when the rule was saved elsewhere.                              *)
(***************************************************************************)
THEOREM AllowedIsReleased == PermissionSpec => []NotLeftAsking
<1>1. PermissionInvariant => NotLeftAsking
  BY DEF PermissionInvariant
<1> QED
  BY <1>1, PermissionSound, PTL

(***************************************************************************)
(* The replies that are published of a request agree with each other and   *)
(* with its verdict, but for requests that two replies had in hand at once *)
(* and those whose published reply died before it took effect.             *)
(***************************************************************************)
THEOREM RepliesAgree == PermissionSpec => []AnswersAgree
<1>1. PermissionInvariant => AnswersAgree
  BY DEF PermissionInvariant, AnswerSound, AnswersAgree
<1> QED
  BY <1>1, PermissionSound, PTL
=============================================================================
