----------------------------- MODULE Permission -----------------------------
(***************************************************************************)
(* Requests for permission and their answers: core/src/permission.ts and   *)
(* permission/saved.ts.                                                    *)
(*                                                                         *)
(* A tool asserts that it may act on a resource; what the rules do not     *)
(* decide is asked, and waits for a reply.  A reply may release or reject  *)
(* other pending requests: it walks over the map of pending ones while     *)
(* that changes.  A read, a publication and a write of the saved rules are *)
(* steps.  A publication or a write may fail, and the call dies of it.     *)
(*                                                                         *)
(* The map is that of one Location in one process.  The table of saved     *)
(* rules belongs to the project: other Locations and processes write it,   *)
(* and walk over maps of their own only.                                   *)
(***************************************************************************)
EXTENDS Naturals, FiniteSets

CONSTANTS
  Asks,        \* assertions, each made once
  Repliers,    \* calls of reply that may be under way together
  SessionIds,
  Resources,
  Nil,         \* no request, session or resource
  MaxLost      \* BOUND: resources that come to be denied and sessions that are deleted

ASSUME NilAssumption == Nil \notin Asks

VARIABLES
  denied,    \* resources that the configuration denies; it asks for the others
  gone,      \* sessions that are deleted
  saved,     \* resources that the saved rules of the project allow
  request,   \* request[q]: where its tool is, its session and resource, what it may save, its verdict
  pending,   \* the requests in the map
  replied,   \* the replies that were published: request and answer
  replier,   \* replier[p]: the reply under way
  slipped,   \* requests that no walk is bound to find: registered when the walk for their resource
             \* was over or had died, or pending when their rule was saved elsewhere
  tangled    \* requests two repliers had in hand at once, or whose published reply died

permissionVars == <<denied, gone, saved, request, pending, replied, replier, slipped, tangled>>

Answers == {"once", "always", "reject"}
NotAsked == [at |-> "new", session |-> Nil, resource |-> Nil, save |-> FALSE, verdict |-> "none"]
\* saves: it is an "always", and the request says what to save
ReplyTo(q, answer, saves, point) ==
  [at |-> point, on |-> q, answer |-> answer, saves |-> saves, item |-> Nil, visited |-> {}, rules |-> {}]
NoReply == ReplyTo(Nil, "once", FALSE, "away")

PermissionInit ==
  /\ denied = {} /\ gone = {}
  /\ saved = {}
  /\ request = [q \in Asks |-> NotAsked]
  /\ pending = {}
  /\ replied = {}
  /\ replier = [p \in Repliers |-> NoReply]
  /\ slipped = {}
  /\ tangled = {}

RequestAt(q, point) == request[q].at = point
RequestGoes(q, point) == request' = [request EXCEPT ![q].at = point]
ReplierAt(p, point) == replier[p].at = point
ReplierGoes(p, point) == replier' = [replier EXCEPT ![p].at = point]
ReplyEnds(p) == replier' = [replier EXCEPT ![p] = NoReply]

\* A reply that has saved a rule for r, and whose walk is not over.
WalksFor(p, r) ==
  /\ replier[p].saves
  /\ \/ replier[p].at \in {"settle", "remember"}
     \/ replier[p].at \in {"walk", "announceItem", "settleItem"} /\ r \in replier[p].rules

-----------------------------------------------------------------------------
(***************************************************************************)
(* assert: the configuration decides first, then the saved rules; what is  *)
(* left is registered, announced and awaited.                              *)
(***************************************************************************)
AssertAllowed(q, session, resource, save) ==
  /\ RequestAt(q, "new")
  /\ request' = [request EXCEPT ![q] =
       [at |-> IF session \in gone \/ resource \in denied THEN "over" ELSE "saved",
        session |-> session, resource |-> resource, save |-> save, verdict |-> "none"]]
  /\ UNCHANGED <<denied, gone, saved, pending, replied, replier, slipped, tangled>>

ReadSaved(q) ==
  /\ RequestAt(q, "saved")
  /\ RequestGoes(q, IF request[q].resource \in saved THEN "over" ELSE "create")
  /\ UNCHANGED <<denied, gone, saved, pending, replied, replier, slipped, tangled>>

\* create: the request is in the map before it is announced.
Create(q) ==
  /\ RequestAt(q, "create")
  /\ RequestGoes(q, "asking")
  /\ pending' = pending \union {q}
  /\ slipped' = IF request[q].resource \in saved /\ ~(\E p \in Repliers : WalksFor(p, request[q].resource))
                  THEN slipped \union {q} ELSE slipped
  /\ UNCHANGED <<denied, gone, saved, replied, replier, tangled>>

\* The tool waits; a call of ask does not; or the announcement fails.
Asked(q) ==
  /\ RequestAt(q, "asking")
  /\ \/ RequestGoes(q, "waiting") /\ UNCHANGED pending
     \/ RequestGoes(q, "over") /\ UNCHANGED pending
     \/ RequestGoes(q, "over") /\ pending' = pending \ {q}
  /\ UNCHANGED <<denied, gone, saved, replied, replier, slipped, tangled>>

\* The verdict arrives, or the tool is interrupted.
Proceed(q) ==
  /\ RequestAt(q, "waiting")
  /\ RequestGoes(q, "over")
  /\ pending' = pending \ {q}
  /\ UNCHANGED <<denied, gone, saved, replied, replier, slipped, tangled>>

-----------------------------------------------------------------------------
(***************************************************************************)
(* reply: the request must be pending; the answer is published before it   *)
(* takes effect.                                                           *)
(***************************************************************************)
InHand(p, q) == (replier[p].on = q /\ replier[p].at \in {"announce", "save", "settle"}) \/ replier[p].item = q
Takes(q) == tangled' = IF \E p \in Repliers : InHand(p, q) THEN tangled \union {q} ELSE tangled

Reply(p, q, answer) ==
  /\ ReplierAt(p, "away")
  /\ q \in pending
  /\ replier' = [replier EXCEPT ![p] = ReplyTo(q, answer, answer = "always" /\ request[q].save, "announce")]
  /\ Takes(q)
  /\ UNCHANGED <<denied, gone, saved, request, pending, replied, slipped>>

AnnounceReply(p) ==
  /\ ReplierAt(p, "announce")
  /\ \/ /\ replied' = replied \union {[request |-> replier[p].on, answer |-> replier[p].answer]}
        /\ ReplierGoes(p, IF replier[p].saves THEN "save" ELSE "settle")
     \/ ReplyEnds(p) /\ UNCHANGED replied
  /\ UNCHANGED <<denied, gone, saved, request, pending, slipped, tangled>>

\* What was answered "always" is saved before it is released.
SaveRule(p) ==
  /\ ReplierAt(p, "save")
  /\ \/ saved' = saved \union {request[replier[p].on].resource} /\ ReplierGoes(p, "settle")
        /\ UNCHANGED tangled
     \/ ReplyEnds(p) /\ tangled' = tangled \union {replier[p].on} /\ UNCHANGED saved
  /\ UNCHANGED <<denied, gone, request, pending, replied, slipped>>

Verdict(answer) == IF answer = "reject" THEN "rejected" ELSE "allowed"
\* The first verdict stands.
Decide(q, answer) == request' = [request EXCEPT ![q].verdict = IF @ = "none" THEN Verdict(answer) ELSE @]
StillPending(q) == pending   \* mutant: a reply leaves its request in the map
NoLongerPending(q) == pending \ {q}

AfterSettle(p) ==
  CASE replier[p].answer = "reject" -> ReplierGoes(p, "walk")
    [] replier[p].saves -> ReplierGoes(p, "remember")
    [] OTHER -> ReplyEnds(p)

SettleReply(p) ==
  /\ ReplierAt(p, "settle")
  /\ Decide(replier[p].on, replier[p].answer)
  /\ pending' = NoLongerPending(replier[p].on)
  /\ AfterSettle(p)
  /\ UNCHANGED <<denied, gone, saved, replied, slipped, tangled>>

CopyOfMap == Asks \ pending   \* mutant: the walk is over a copy of the map, and skips what comes later
LiveMap == {}

Remember(p) ==
  /\ ReplierAt(p, "remember")
  /\ replier' = [replier EXCEPT ![p] =
       [at |-> "walk", on |-> Nil, answer |-> @.answer, saves |-> @.saves, item |-> Nil,
        visited |-> LiveMap, rules |-> saved]]
  /\ UNCHANGED <<denied, gone, saved, request, pending, replied, slipped, tangled>>

(***************************************************************************)
(* The walk visits what is pending, and what comes meanwhile.  A rejection *)
(* takes the session's other requests along; a saved rule releases those   *)
(* that the remembered rules allow and the configuration does not deny,    *)
(* and skips what a deleted session has left in the map.                   *)
(***************************************************************************)
Concerns(p, q) ==
  IF replier[p].answer = "reject"
    THEN request[q].session = request[replier[p].on].session
    ELSE request[q].session \notin gone /\ request[q].resource \in replier[p].rules \ denied

Visit(p, q) ==
  /\ ReplierAt(p, "walk")
  /\ q \in pending \ replier[p].visited
  /\ IF Concerns(p, q)
       THEN /\ replier' = [replier EXCEPT ![p].at = "announceItem", ![p].item = q, ![p].visited = @ \union {q}]
            /\ Takes(q)
       ELSE replier' = [replier EXCEPT ![p].visited = @ \union {q}] /\ UNCHANGED tangled
  /\ UNCHANGED <<denied, gone, saved, request, pending, replied, slipped>>

AnnounceItem(p) ==
  /\ ReplierAt(p, "announceItem")
  /\ \/ /\ replied' = replied \union {[request |-> replier[p].item, answer |-> replier[p].answer]}
        /\ ReplierGoes(p, "settleItem")
        /\ UNCHANGED slipped
     \/ /\ ReplyEnds(p)
        /\ slipped' = slipped \union pending
        /\ UNCHANGED replied
  /\ UNCHANGED <<denied, gone, saved, request, pending, tangled>>

SettleItem(p) ==
  /\ ReplierAt(p, "settleItem")
  /\ Decide(replier[p].item, replier[p].answer)
  /\ pending' = pending \ {replier[p].item}
  /\ replier' = [replier EXCEPT ![p].at = "walk", ![p].item = Nil, ![p].visited = @ \ {replier[p].item}]
  /\ UNCHANGED <<denied, gone, saved, replied, slipped, tangled>>

EndWalk(p) ==
  /\ ReplierAt(p, "walk")
  /\ pending \subseteq replier[p].visited
  /\ ReplyEnds(p)
  /\ UNCHANGED <<denied, gone, saved, request, pending, replied, slipped, tangled>>

-----------------------------------------------------------------------------
(***************************************************************************)
(* What happens around: the configuration is tightened, a session is       *)
(* deleted, the user takes a rule back, and the project's other services   *)
(* save what was answered to them.                                         *)
(***************************************************************************)
WillRelease(p, q) == WalksFor(p, request[q].resource) /\ (q \notin replier[p].visited \/ replier[p].item = q)

Lost == Cardinality(denied) + Cardinality(gone)

Deny(r) ==
  /\ Lost < MaxLost
  /\ denied' = denied \union {r}
  /\ UNCHANGED <<gone, saved, request, pending, replied, replier, slipped, tangled>>

LoseSession(session) ==
  /\ Lost < MaxLost
  /\ gone' = gone \union {session}
  /\ UNCHANGED <<denied, saved, request, pending, replied, replier, slipped, tangled>>

SaveElsewhere(r) ==
  /\ r \notin saved
  /\ saved' = saved \union {r}
  /\ slipped' = slipped \union {q \in pending : request[q].resource = r /\ ~\E p \in Repliers : WillRelease(p, q)}
  /\ UNCHANGED <<denied, gone, request, pending, replied, replier, tangled>>

Forget(r) ==
  /\ r \in saved
  /\ saved' = saved \ {r}
  /\ UNCHANGED <<denied, gone, request, pending, replied, replier, slipped, tangled>>

PermissionNext ==
  \/ \E q \in Asks :
       \/ \E session \in SessionIds, resource \in Resources, save \in BOOLEAN : AssertAllowed(q, session, resource, save)
       \/ ReadSaved(q) \/ Create(q) \/ Asked(q) \/ Proceed(q)
  \/ \E p \in Repliers :
       \/ \E q \in Asks : (\E answer \in Answers : Reply(p, q, answer)) \/ Visit(p, q)
       \/ AnnounceReply(p) \/ SaveRule(p) \/ SettleReply(p) \/ Remember(p)
       \/ AnnounceItem(p) \/ SettleItem(p) \/ EndWalk(p)
  \/ \E r \in Resources : Deny(r) \/ SaveElsewhere(r) \/ Forget(r)
  \/ \E session \in SessionIds : LoseSession(session)

PermissionSpec == PermissionInit /\ [][PermissionNext]_permissionVars

-----------------------------------------------------------------------------
PermissionTypeOK ==
  /\ denied \subseteq Resources /\ gone \subseteq SessionIds /\ saved \subseteq Resources
  /\ request \in [Asks -> [at : {"new", "saved", "create", "asking", "waiting", "over"}, session : SessionIds \union {Nil},
                               resource : Resources \union {Nil}, save : BOOLEAN, verdict : {"none", "allowed", "rejected"}]]
  /\ pending \subseteq Asks /\ slipped \subseteq Asks /\ tangled \subseteq Asks
  /\ replied \subseteq [request : Asks, answer : Answers]
  /\ replier \in [Repliers -> [at : {"away", "announce", "save", "settle", "remember", "walk", "announceItem",
                                     "settleItem"},
                               on : Asks \union {Nil}, answer : Answers, saves : BOOLEAN, item : Asks \union {Nil},
                               visited : SUBSET Asks, rules : SUBSET Resources]]

(***************************************************************************)
(* Nobody is left waiting for what an "always" of this Location allows:    *)
(* while the saved rules allow a pending request, and its session and the  *)
(* configuration let it be, a walk is about to release it, however replies *)
(* and assertions interleave and rules are taken back and saved again.     *)
(* What no walk is bound to find is left out: what was registered from     *)
(* rules read before its walk was over, what a walk that died of a failed  *)
(* publication left behind, and what was pending when another Location or  *)
(* process saved the rule, whose walk is over its own map.                 *)
(***************************************************************************)
Permitted(q) == request[q].session \notin gone /\ request[q].resource \in saved \ denied

NotLeftAsking ==
  \A q \in pending \ slipped :
    Permitted(q) /\ request[q].verdict = "none" => \E p \in Repliers : WillRelease(p, q)

(***************************************************************************)
(* The replies that are published of a request do not contradict each      *)
(* other or its verdict - unless two calls of reply had it in hand at      *)
(* once, or the rule of a published "always" could not be saved.           *)
(***************************************************************************)
AnswersAgree ==
  \A q \in Asks \ tangled : \A e, f \in {d \in replied : d.request = q} :
    /\ e.answer = f.answer
    /\ request[q].verdict \in {"none", Verdict(e.answer)}

=============================================================================
