---------------------------- MODULE CreditProofs ----------------------------
(***************************************************************************)
(* What the credits for ads, the gate that lets ads in and the token       *)
(* gateway guarantee, for any number of calls, users, impressions,         *)
(* sessions and requests.                                                  *)
(***************************************************************************)
EXTENDS Rewards, AdGate, Gateway, Sums


(***************************************************************************)
(* Credits: how often an impression is paid for.                           *)
(***************************************************************************)

ClaimPoints == {"idle", "cap", "mark", "write", "pay"}
ClaimRow == [at : ClaimPoints, kind : RewardKinds, for : Impressions \union {NoImpression}, user : Users]

\* What a call has of an impression: it has read the row as open, or it has written its mark.
Marked(i, k) == Recorded(i) /\ k \in impression[i].done
Writes(c, i, k) == claim[c].for = i /\ ClaimAt(c, k, "write")
HasMarked(c, i, k) ==
  claim[c].for = i /\ (ClaimAt(c, k, "pay") \/ (k = "click" /\ ClaimAt(c, k, "cap")))
Busy(i, k) == {c \in Claims : Writes(c, i, k) \/ HasMarked(c, i, k)}

RewardTypes ==
  /\ impression \in [Impressions -> ImpressionRow \union {NoImpression}]
  /\ claim \in [Claims -> ClaimRow]
  /\ paid \in [Impressions -> [RewardKinds -> Nat]]
  /\ raced \in [Impressions -> SUBSET RewardKinds]
  /\ orphaned \in [Impressions -> SUBSET RewardKinds]

\* A call is about an impression, which is recorded once the call has read its row.
ClaimSound(c) ==
  /\ claim[c].at # "idle" => claim[c].for \in Impressions
  /\ claim[c].at = "write" => Recorded(claim[c].for)

\* Who is paid for an impression, or about to be, has marked it.
MarkBeforePay(i, k) == paid[i][k] > 0 \/ (\E c \in Claims : HasMarked(c, i, k)) => Marked(i, k)

\* Without a race one call has the impression, until it is paid for.
OnePayment(i, k) ==
  k \notin raced[i] =>
    /\ \A c, d \in Busy(i, k) : c = d
    /\ paid[i][k] <= 1
    /\ paid[i][k] > 0 => Busy(i, k) = {}
    /\ Marked(i, k) => \A c \in Claims : ~Writes(c, i, k)

\* With one, those that have it and those it was paid to are no more than the calls.
FewPayments(i, k) == paid[i][k] + Cardinality(Busy(i, k)) <= Cardinality(Claims)

PaymentSound(i, k) == MarkBeforePay(i, k) /\ OnePayment(i, k) /\ FewPayments(i, k)

RewardInvariant ==
  /\ RewardTypes
  /\ \A c \in Claims : ClaimSound(c)
  /\ \A i \in Impressions, k \in RewardKinds : PaymentSound(i, k)
  /\ MarkedIsPaid

USE ClaimsAssumption, NoImpressionAssumption

LEMMA BusyIsFinite ==
  ASSUME NEW i, NEW k
  PROVE  /\ IsFiniteSet(Busy(i, k)) /\ Cardinality(Busy(i, k)) \in Nat /\ Cardinality(Busy(i, k)) <= Cardinality(Claims)
         /\ Cardinality(Claims) \in Nat
<1>1. Busy(i, k) \in SUBSET Claims
  BY DEF Busy
<1> QED
  BY <1>1, FS_Subset, FS_CardinalityType

LEMMA NoClaimIsRow == UsersAssumption => NoClaim \in ClaimRow
  BY DEF UsersAssumption, NoClaim, ClaimRow, ClaimPoints, RewardKinds

\* The order of the statements of a call.
LEMMA Orders ==
  ASSUME NEW c \in Claims, claim[c].kind \in RewardKinds
  PROVE  /\ claim[c].kind = "view" => NextPoint(c, "cap") = "mark" /\ NextPoint(c, "write") = "pay"
         /\ claim[c].kind = "click" => NextPoint(c, "cap") = "pay" /\ NextPoint(c, "write") = "cap"
         /\ PointsOf("view")[1] = "cap" /\ PointsOf("click")[1] = "mark"
<1>1. CASE claim[c].kind = "view"
  <2> DEFINE order == <<"cap", "mark", "write", "pay">>
  <2>1. PointsOf(claim[c].kind) = order
    BY <1>1 DEF PointsOf
  <2>2. DOMAIN order = 1 .. 4 /\ order[1] = "cap" /\ order[2] = "mark" /\ order[3] = "write" /\ order[4] = "pay"
    OBVIOUS
  <2>3. \A n \in DOMAIN order : (order[n] = "cap" <=> n = 1) /\ (order[n] = "write" <=> n = 3)
    BY <2>2
  <2>4. (CHOOSE n \in DOMAIN order : order[n] = "cap") = 1
    BY <2>2, <2>3
  <2>5. (CHOOSE n \in DOMAIN order : order[n] = "write") = 3
    BY <2>2, <2>3
  <2> QED
    BY <1>1, <2>1, <2>2, <2>4, <2>5 DEF NextPoint, PointsOf
<1>2. CASE claim[c].kind = "click"
  <2> DEFINE order == <<"mark", "write", "cap", "pay">>
  <2>1. PointsOf(claim[c].kind) = order
    BY <1>2 DEF PointsOf
  <2>2. DOMAIN order = 1 .. 4 /\ order[1] = "mark" /\ order[2] = "write" /\ order[3] = "cap" /\ order[4] = "pay"
    OBVIOUS
  <2>3. \A n \in DOMAIN order : (order[n] = "cap" <=> n = 3) /\ (order[n] = "write" <=> n = 2)
    BY <2>2
  <2>4. (CHOOSE n \in DOMAIN order : order[n] = "cap") = 3
    BY <2>2, <2>3
  <2>5. (CHOOSE n \in DOMAIN order : order[n] = "write") = 2
    BY <2>2, <2>3
  <2> QED
    BY <1>2, <2>1, <2>2, <2>4, <2>5 DEF NextPoint, PointsOf
<1> QED
  BY <1>1, <1>2 DEF RewardKinds

LEMMA RewardInitially == RewardInit => RewardInvariant
<1> SUFFICES ASSUME RewardInit PROVE RewardInvariant
  OBVIOUS
<1>1. RewardTypes
  <2>1. NoClaim \in ClaimRow
    BY NoClaimIsRow, UsersAssumption
  <2> QED
    BY <2>1 DEF RewardInit, RewardTypes, RewardKinds
<1>2. \A c \in Claims : claim[c].at = "idle"
  BY DEF RewardInit, NoClaim
<1>3. \A c \in Claims : ClaimSound(c)
  BY <1>2 DEF ClaimSound
<1>4. ASSUME NEW i \in Impressions, NEW k \in RewardKinds PROVE PaymentSound(i, k)
  <2>1. Busy(i, k) = {} /\ \A c \in Claims : ~Writes(c, i, k) /\ ~HasMarked(c, i, k)
    BY <1>2 DEF Busy, Writes, HasMarked, ClaimAt
  <2>2. paid[i][k] = 0
    BY DEF RewardInit
  <2> QED
    BY <2>1, <2>2, BusyIsFinite, FS_EmptySet DEF PaymentSound, MarkBeforePay, OnePayment, FewPayments
<1>5. MarkedIsPaid
  BY DEF RewardInit, MarkedIsPaid, Recorded
<1> QED
  BY <1>1, <1>3, <1>4, <1>5 DEF RewardInvariant

-----------------------------------------------------------------------------
\* A call that takes no open row and pays nothing: it may only let go of what it had.
NothingNew(i, k) ==
  /\ Marked(i, k)' <=> Marked(i, k)
  /\ \A c \in Claims : (Writes(c, i, k)' => Writes(c, i, k)) /\ (HasMarked(c, i, k)' => HasMarked(c, i, k))
StillPays(i) ==
  \A c \in Claims : c \in Paying(i, "view") => c \in Paying(i, "view")' \/ "view" \in orphaned'[i]

LEMMA PaymentStays ==
  ASSUME RewardInvariant, NEW i \in Impressions, NEW k \in RewardKinds, NothingNew(i, k),
         paid'[i][k] = paid[i][k], raced[i] \subseteq raced'[i]
  PROVE  PaymentSound(i, k)'
<1>1. PaymentSound(i, k)
  BY DEF RewardInvariant
<1>2. Busy(i, k)' \subseteq Busy(i, k)
  BY DEF NothingNew, Busy
<1>3. MarkBeforePay(i, k)'
  BY <1>1 DEF PaymentSound, MarkBeforePay, NothingNew
<1>4. OnePayment(i, k)'
  BY <1>1, <1>2 DEF PaymentSound, OnePayment, NothingNew
<1>5. FewPayments(i, k)'
  <2>1. Cardinality(Busy(i, k)') <= Cardinality(Busy(i, k)) /\ Cardinality(Busy(i, k)') \in Nat
    <3>1. PICK now : now = Busy(i, k)'
      OBVIOUS
    <3>2. now \in SUBSET Busy(i, k) /\ IsFiniteSet(Busy(i, k))
      BY <1>2, <3>1, BusyIsFinite
    <3> QED
      BY <3>1, <3>2, FS_Subset, FS_CardinalityType
  <2>2. paid[i][k] \in Nat
    BY DEF RewardInvariant, RewardTypes
  <2> QED
    BY <1>1, <2>1, <2>2, BusyIsFinite DEF PaymentSound, FewPayments
<1> QED
  BY <1>3, <1>4, <1>5 DEF PaymentSound

LEMMA NothingNewKeeps ==
  ASSUME RewardInvariant, RewardTypes', \A c \in Claims : ClaimSound(c)', UNCHANGED <<paid, raced>>,
         \A i \in Impressions, k \in RewardKinds : NothingNew(i, k),
         \A i \in Impressions : StillPays(i) /\ orphaned[i] \subseteq orphaned'[i]
  PROVE  RewardInvariant'
<1>1. ASSUME NEW i \in Impressions, NEW k \in RewardKinds PROVE PaymentSound(i, k)'
  BY PaymentStays
<1>2. MarkedIsPaid'
  <2> SUFFICES ASSUME NEW i \in Impressions, Marked(i, "view")'
               PROVE  paid'[i]["view"] > 0 \/ Paying(i, "view")' # {} \/ "view" \in orphaned'[i]
    BY DEF MarkedIsPaid, Marked
  <2>1. Marked(i, "view")
    BY DEF NothingNew, RewardKinds
  <2>2. paid[i]["view"] > 0 \/ Paying(i, "view") # {} \/ "view" \in orphaned[i]
    BY <2>1 DEF RewardInvariant, MarkedIsPaid, Marked
  <2>3. Paying(i, "view") # {} => Paying(i, "view")' # {} \/ "view" \in orphaned'[i]
    BY DEF StillPays, Paying
  <2> QED
    BY <2>2, <2>3
<1> QED
  BY <1>1, <1>2 DEF RewardInvariant

\* A call that moves on by itself.
LEMMA CallMovesKeeps ==
  ASSUME RewardInvariant, NEW c \in Claims, NEW row \in ClaimRow, claim' = [claim EXCEPT ![c] = row],
         UNCHANGED <<impression, paid, raced>>, orphaned' \in [Impressions -> SUBSET RewardKinds],
         \A i \in Impressions : orphaned[i] \subseteq orphaned'[i],
         row.at # "idle" => row.for \in Impressions,
         row.at # "write",
         row.at = "pay" \/ (row.at = "cap" /\ row.kind = "click") => HasMarked(c, row.for, row.kind),
         \A i \in Impressions : c \in Paying(i, "view") => "view" \in orphaned'[i]
  PROVE  RewardInvariant'
<1>1. claim \in [Claims -> ClaimRow]
  BY DEF RewardInvariant, RewardTypes
<1>2. claim'[c] = row /\ \A d \in Claims \ {c} : claim'[d] = claim[d]
  BY <1>1
<1>3. RewardTypes'
  <2>1. claim' \in [Claims -> ClaimRow]
    BY <1>1
  <2> QED
    BY <2>1 DEF RewardInvariant, RewardTypes
<1>4. ASSUME NEW d \in Claims PROVE ClaimSound(d)'
  BY <1>2 DEF RewardInvariant, ClaimSound, Recorded
<1>5. ASSUME NEW i \in Impressions, NEW k \in RewardKinds PROVE NothingNew(i, k)
  <2>1. Marked(i, k)' <=> Marked(i, k)
    BY DEF Marked, Recorded
  <2>2. ASSUME NEW d \in Claims PROVE (Writes(d, i, k)' => Writes(d, i, k)) /\ (HasMarked(d, i, k)' => HasMarked(d, i, k))
    <3>1. CASE d = c
      BY <1>2, <3>1 DEF Writes, HasMarked, ClaimAt
    <3>2. CASE d # c
      BY <1>2, <3>2 DEF Writes, HasMarked, ClaimAt
    <3> QED
      BY <3>1, <3>2
  <2> QED
    BY <2>1, <2>2 DEF NothingNew
<1>6. ASSUME NEW i \in Impressions PROVE StillPays(i) /\ orphaned[i] \subseteq orphaned'[i]
  <2>1. \A d \in Claims \ {c} : d \in Paying(i, "view") => d \in Paying(i, "view")'
    BY <1>2 DEF Paying, ClaimAt
  <2> QED
    BY <2>1 DEF StillPays
<1> QED
  BY <1>3, <1>4, <1>5, <1>6, NothingNewKeeps

LEMMA ReturnKeeps ==
  ASSUME RewardInvariant, NEW c \in Claims, Returns(c), UNCHANGED <<impression, paid, raced>>,
         orphaned' \in [Impressions -> SUBSET RewardKinds],
         \A i \in Impressions : orphaned[i] \subseteq orphaned'[i],
         \A i \in Impressions : c \in Paying(i, "view") => "view" \in orphaned'[i]
  PROVE  RewardInvariant'
<1>1. PICK row \in ClaimRow : claim' = [claim EXCEPT ![c] = row] /\ row.at = "idle"
  <2>1. NoClaim \in ClaimRow /\ NoClaim.at = "idle"
    BY NoClaimIsRow, UsersAssumption DEF NoClaim
  <2> QED
    BY <2>1 DEF Returns
<1> QED
  BY <1>1, CallMovesKeeps

LEMMA BeginKeeps ==
  ASSUME RewardInvariant, NEW c \in Claims, NEW u \in Users, NEW i \in Impressions,
         BeginView(c, u, i) \/ BeginClick(c, u, i)
  PROVE  RewardInvariant'
<1>1. PointsOf("view")[1] = "cap" /\ PointsOf("click")[1] = "mark"
  BY DEF PointsOf
<1>2. PICK row \in ClaimRow : /\ claim' = [claim EXCEPT ![c] = row]
                              /\ row.for = i /\ \/ row.at = "cap" /\ row.kind = "view"
                                                \/ row.at = "mark"
  <2>1. CASE BeginView(c, u, i)
    <3>1. [at |-> "cap", kind |-> "view", for |-> i, user |-> u] \in ClaimRow
      BY DEF ClaimRow, ClaimPoints, RewardKinds
    <3> QED
      BY <1>1, <2>1, <3>1 DEF BeginView
  <2>2. CASE BeginClick(c, u, i)
    <3>1. [at |-> "mark", kind |-> "click", for |-> i, user |-> u] \in ClaimRow
      BY DEF ClaimRow, ClaimPoints, RewardKinds
    <3> QED
      BY <1>1, <2>2, <3>1 DEF BeginClick
  <2> QED
    BY <2>1, <2>2
<1>3. UNCHANGED <<impression, paid, raced, orphaned>> /\ claim[c].at = "idle"
  BY DEF BeginView, BeginClick, claimHistory
<1>4. orphaned \in [Impressions -> SUBSET RewardKinds]
  BY DEF RewardInvariant, RewardTypes
<1>5. \A j \in Impressions : c \notin Paying(j, "view")
  BY <1>3 DEF Paying, ClaimAt
<1> QED
  BY <1>2, <1>3, <1>4, <1>5, CallMovesKeeps

LEMMA CheckCapKeeps ==
  ASSUME RewardInvariant, NEW c \in Claims, CheckCap(c)
  PROVE  RewardInvariant'
<1>1. UNCHANGED <<impression, paid, raced, orphaned>> /\ claim[c].at = "cap"
  BY DEF CheckCap, claimHistory
<1>2. claim[c] \in ClaimRow /\ orphaned \in [Impressions -> SUBSET RewardKinds] /\ claim[c].for \in Impressions
  BY <1>1 DEF RewardInvariant, RewardTypes, ClaimSound
<1>3. \A j \in Impressions : c \notin Paying(j, "view")
  BY <1>1 DEF Paying, ClaimAt
<1>4. CASE Returns(c)
  BY <1>1, <1>2, <1>3, <1>4, ReturnKeeps
<1>5. CASE ClaimGoes(c, NextPoint(c, "cap"))
  <2>1. PICK row \in ClaimRow : /\ claim' = [claim EXCEPT ![c] = row] /\ row.for = claim[c].for /\ row.kind = claim[c].kind
                                /\ row.at = NextPoint(c, "cap")
    <3>1. NextPoint(c, "cap") \in ClaimPoints
      BY <1>2, Orders DEF ClaimRow, RewardKinds, ClaimPoints
    <3>2. [claim[c] EXCEPT !.at = NextPoint(c, "cap")] \in ClaimRow
      BY <1>2, <3>1 DEF ClaimRow
    <3>3. PICK row \in ClaimRow : row = [claim[c] EXCEPT !.at = NextPoint(c, "cap")]
      BY <3>2
    <3>4. claim' = [claim EXCEPT ![c] = row]
      BY <1>5, <3>3 DEF ClaimGoes
    <3>5. row.for = claim[c].for /\ row.kind = claim[c].kind /\ row.at = NextPoint(c, "cap")
      BY <1>2, <3>3 DEF ClaimRow
    <3> QED
      BY <3>4, <3>5
  <2>2. (row.kind = "view" /\ row.at = "mark") \/ (row.kind = "click" /\ row.at = "pay")
    BY <1>2, <2>1, Orders DEF ClaimRow, RewardKinds
  <2>3. row.at = "pay" => HasMarked(c, row.for, row.kind)
    BY <1>1, <2>1, <2>2 DEF HasMarked, ClaimAt
  <2> QED
    BY <1>1, <1>2, <1>3, <2>1, <2>2, <2>3, CallMovesKeeps
<1> QED
  BY <1>4, <1>5 DEF CheckCap

LEMMA ClaimDiesKeeps ==
  ASSUME RewardInvariant, NEW c \in Claims, ClaimDies(c)
  PROVE  RewardInvariant'
<1>1. claim[c] \in ClaimRow /\ orphaned \in [Impressions -> SUBSET RewardKinds] /\ claim[c].for \in Impressions
  BY DEF ClaimDies, RewardInvariant, RewardTypes, ClaimSound
<1>2. UNCHANGED <<impression, paid, raced>> /\ Returns(c)
  BY DEF ClaimDies
<1>3. orphaned' \in [Impressions -> SUBSET RewardKinds] /\ \A i \in Impressions : orphaned[i] \subseteq orphaned'[i]
  BY <1>1 DEF ClaimDies, ClaimRow
<1>4. \A i \in Impressions : c \in Paying(i, "view") => "view" \in orphaned'[i]
  BY <1>1 DEF ClaimDies, Paying, ClaimAt
<1> QED
  BY <1>2, <1>3, <1>4, ReturnKeeps

\* An impression is recorded, or grows old enough; a day ends.
LEMMA WorldKeeps ==
  ASSUME RewardInvariant, UNCHANGED <<claim, paid, raced, orphaned>>,
         \/ \E i \in Impressions : RecordImpression(i) \/ Ripen(i)
         \/ UNCHANGED impression
  PROVE  RewardInvariant'
<1>1. /\ impression' \in [Impressions -> ImpressionRow \union {NoImpression}]
      /\ \A i \in Impressions : Recorded(i) => Recorded(i)'
      /\ \A i \in Impressions, k \in RewardKinds :
           impression'[i] # NoImpression /\ k \in impression'[i].done <=> Marked(i, k)
  <2>1. impression \in [Impressions -> ImpressionRow \union {NoImpression}]
    BY DEF RewardInvariant, RewardTypes
  <2>2. ASSUME NEW i \in Impressions, RecordImpression(i)
        PROVE  /\ impression' \in [Impressions -> ImpressionRow \union {NoImpression}]
               /\ \A j \in Impressions : Recorded(j) => Recorded(j)'
               /\ \A j \in Impressions, k \in RewardKinds : Marked(j, k)' <=> Marked(j, k)
    <3>1. PICK row \in ImpressionRow : row.done = {} /\ impression' = [impression EXCEPT ![i] = row]
      <4>1. [ripe |-> FALSE, done |-> {}] \in ImpressionRow
        BY DEF ImpressionRow
      <4> QED
        BY <2>2, <4>1 DEF RecordImpression
    <3>2. row # NoImpression /\ ~Recorded(i)
      BY <2>2 DEF RecordImpression
    <3> QED
      BY <2>1, <3>1, <3>2 DEF Recorded, Marked
  <2>3. ASSUME NEW i \in Impressions, Ripen(i)
        PROVE  /\ impression' \in [Impressions -> ImpressionRow \union {NoImpression}]
               /\ \A j \in Impressions : Recorded(j) => Recorded(j)'
               /\ \A j \in Impressions, k \in RewardKinds : Marked(j, k)' <=> Marked(j, k)
    <3>1. impression[i] \in ImpressionRow
      BY <2>1, <2>3 DEF Ripen, Recorded
    <3>2. PICK row \in ImpressionRow : row.done = impression[i].done /\ impression' = [impression EXCEPT ![i] = row]
      <4>1. [impression[i] EXCEPT !.ripe = TRUE] \in ImpressionRow
        BY <3>1 DEF ImpressionRow
      <4> QED
        BY <2>3, <3>1, <4>1 DEF Ripen, ImpressionRow
    <3>3. row # NoImpression /\ Recorded(i)
      BY <2>3 DEF Ripen
    <3> QED
      BY <2>1, <3>2, <3>3 DEF Recorded, Marked
  <2>4. CASE UNCHANGED impression
    BY <2>1, <2>4 DEF Recorded, Marked
  <2> QED
    BY <2>2, <2>3, <2>4 DEF Marked, Recorded
<1>2. RewardTypes'
  BY <1>1 DEF RewardInvariant, RewardTypes
<1>3. ASSUME NEW c \in Claims PROVE ClaimSound(c)'
  <2>1. ClaimSound(c) /\ claim'[c] = claim[c]
    BY DEF RewardInvariant
  <2>2. \A i \in Impressions : impression[i] # NoImpression => impression'[i] # NoImpression
    BY <1>1 DEF Recorded
  <2> QED
    BY <2>1, <2>2 DEF ClaimSound, Recorded
<1>4. ASSUME NEW i \in Impressions, NEW k \in RewardKinds PROVE NothingNew(i, k)
  <2>1. Marked(i, k)' <=> Marked(i, k)
    BY <1>1 DEF Marked, Recorded
  <2>2. \A c \in Claims : (Writes(c, i, k)' => Writes(c, i, k)) /\ (HasMarked(c, i, k)' => HasMarked(c, i, k))
    BY DEF Writes, HasMarked, ClaimAt
  <2> QED
    BY <2>1, <2>2 DEF NothingNew
<1>5. ASSUME NEW i \in Impressions PROVE StillPays(i) /\ orphaned[i] \subseteq orphaned'[i]
  BY DEF StillPays, Paying, ClaimAt
<1> QED
  BY <1>2, <1>3, <1>4, <1>5, NothingNewKeeps

-----------------------------------------------------------------------------
\* What a step of call c that keeps its kind and impression changes.
LEMMA CallGoes ==
  ASSUME RewardInvariant, NEW c \in Claims, NEW point \in ClaimPoints, ClaimGoes(c, point)
  PROVE  /\ claim' \in [Claims -> ClaimRow]
         /\ \A d \in Claims \ {c} : claim'[d] = claim[d]
         /\ claim'[c].at = point /\ claim'[c].for = claim[c].for /\ claim'[c].kind = claim[c].kind
<1>1. claim \in [Claims -> ClaimRow] /\ claim[c] \in ClaimRow
  BY DEF RewardInvariant, RewardTypes
<1>2. PICK row \in ClaimRow : row = [claim[c] EXCEPT !.at = point]
  <2>1. [claim[c] EXCEPT !.at = point] \in ClaimRow
    BY <1>1 DEF ClaimRow
  <2> QED
    BY <2>1
<1>3. row.at = point /\ row.for = claim[c].for /\ row.kind = claim[c].kind
  BY <1>1, <1>2 DEF ClaimRow
<1>4. claim' = [claim EXCEPT ![c] = row]
  BY <1>2 DEF ClaimGoes
<1> QED
  BY <1>1, <1>3, <1>4

LEMMA ReadMarkKeeps ==
  ASSUME RewardInvariant, NEW c \in Claims, ReadMark(c)
  PROVE  RewardInvariant'
<1>1. UNCHANGED <<impression, paid, orphaned>> /\ claim[c].at = "mark"
  BY DEF ReadMark
<1>2. claim[c] \in ClaimRow /\ orphaned \in [Impressions -> SUBSET RewardKinds] /\ raced \in [Impressions -> SUBSET RewardKinds]
  BY DEF RewardInvariant, RewardTypes
<1>3. PICK here \in Impressions, kind \in RewardKinds : here = claim[c].for /\ kind = claim[c].kind
  BY <1>1, <1>2 DEF RewardInvariant, ClaimSound, ClaimRow
<1>4. CASE ~Unmarked(here, kind)
  <2>1. \A j \in Impressions : c \notin Paying(j, "view")
    BY <1>1 DEF Paying, ClaimAt
  <2>2. Returns(c) /\ UNCHANGED raced
    BY <1>3, <1>4 DEF ReadMark
  <2> QED
    BY <1>1, <1>2, <2>1, <2>2, ReturnKeeps
<1>5. CASE Unmarked(here, kind)
  <2>1. ClaimGoes(c, "write") /\ "write" \in ClaimPoints
    BY <1>3, <1>5 DEF ReadMark, ClaimPoints
  <2>2. /\ claim' \in [Claims -> ClaimRow]
        /\ \A d \in Claims \ {c} : claim'[d] = claim[d]
        /\ claim'[c].at = "write" /\ claim'[c].for = here /\ claim'[c].kind = kind
    BY <1>3, <2>1, CallGoes
  <2>3. Recorded(here) /\ ~Marked(here, kind)
    BY <1>5 DEF Unmarked, Marked
  <2>4. /\ raced' \in [Impressions -> SUBSET RewardKinds]
        /\ \A i \in Impressions : raced[i] \subseteq raced'[i]
        /\ kind \notin raced'[here] => \A d \in Claims : ~Writes(d, here, kind)
    <3> DEFINE others == {d \in Claims : ClaimAt(d, kind, "write") /\ claim[d].for = here}
    <3>1. raced' = IF others = {} THEN raced ELSE [raced EXCEPT ![here] = @ \union {kind}]
      BY <1>3, <1>5 DEF ReadMark
    <3>2. others = {} => \A d \in Claims : ~Writes(d, here, kind)
      BY DEF Writes
    <3> HIDE DEF others
    <3> QED
      BY <1>2, <3>1, <3>2
  <2>5. RewardTypes'
    BY <1>1, <2>2, <2>4 DEF RewardInvariant, RewardTypes
  <2>6. ASSUME NEW d \in Claims PROVE ClaimSound(d)'
    <3>1. ClaimSound(d) /\ impression' = impression
      BY <1>1 DEF RewardInvariant
    <3>2. CASE d = c
      BY <2>2, <2>3, <3>1, <3>2 DEF ClaimSound, Recorded
    <3>3. CASE d # c
      BY <2>2, <3>1, <3>3 DEF ClaimSound, Recorded
    <3> QED
      BY <3>2, <3>3
  <2>7. PaymentSound(here, kind)'
    <3>1. PaymentSound(here, kind)
      BY DEF RewardInvariant
    <3>2. paid[here][kind] = 0 /\ \A d \in Claims : ~HasMarked(d, here, kind)
      <4>1. paid[here][kind] \in Nat
        BY DEF RewardInvariant, RewardTypes
      <4> QED
        BY <2>3, <3>1, <4>1 DEF PaymentSound, MarkBeforePay
    <3>3. \A d \in Claims : ~HasMarked(d, here, kind)'
      <4>1. ~HasMarked(c, here, kind)'
        BY <2>2 DEF HasMarked, ClaimAt
      <4>2. ASSUME NEW d \in Claims \ {c} PROVE ~HasMarked(d, here, kind)'
        BY <2>2, <3>2 DEF HasMarked, ClaimAt
      <4> QED
        BY <4>1, <4>2
    <3>4. ~Marked(here, kind)' /\ paid'[here][kind] = 0
      BY <1>1, <2>3, <3>2 DEF Marked, Recorded
    <3>5. kind \notin raced'[here] => \A d \in Busy(here, kind)' : d = c
      <4>1. ASSUME NEW d \in Claims \ {c}, kind \notin raced'[here] PROVE ~Writes(d, here, kind)'
        BY <2>2, <2>4, <4>1 DEF Writes, ClaimAt
      <4> QED
        BY <3>3, <4>1 DEF Busy
    <3>6. Cardinality(Busy(here, kind)') <= Cardinality(Claims) /\ Cardinality(Busy(here, kind)') \in Nat
      <4>1. PICK now : now = Busy(here, kind)'
        OBVIOUS
      <4>2. now \in SUBSET Claims
        BY <4>1 DEF Busy
      <4> QED
        BY <4>1, <4>2, FS_Subset, FS_CardinalityType
    <3>7. MarkBeforePay(here, kind)' /\ OnePayment(here, kind)'
      BY <3>3, <3>4, <3>5 DEF MarkBeforePay, OnePayment
    <3>8. FewPayments(here, kind)'
      BY <3>4, <3>6 DEF FewPayments
    <3> QED
      BY <3>7, <3>8 DEF PaymentSound
  <2>8. ASSUME NEW i \in Impressions, NEW k \in RewardKinds, i # here \/ k # kind PROVE PaymentSound(i, k)'
    <3>1. Marked(i, k)' <=> Marked(i, k)
      BY <1>1 DEF Marked, Recorded
    <3>2. ASSUME NEW d \in Claims PROVE (Writes(d, i, k)' => Writes(d, i, k)) /\ (HasMarked(d, i, k)' => HasMarked(d, i, k))
      <4>1. CASE d = c
        BY <2>2, <2>8, <4>1 DEF Writes, HasMarked, ClaimAt
      <4>2. CASE d # c
        BY <2>2, <4>2 DEF Writes, HasMarked, ClaimAt
      <4> QED
        BY <4>1, <4>2
    <3>3. NothingNew(i, k)
      BY <3>1, <3>2 DEF NothingNew
    <3> QED
      BY <1>1, <2>4, <3>3, PaymentStays
  <2>9. MarkedIsPaid'
    <3>1. ASSUME NEW i \in Impressions PROVE Paying(i, "view") \subseteq Paying(i, "view")'
      BY <1>1, <2>2 DEF Paying, ClaimAt
    <3> QED
      BY <1>1, <3>1 DEF RewardInvariant, MarkedIsPaid, Recorded
  <2> QED
    BY <2>5, <2>6, <2>7, <2>8, <2>9 DEF RewardInvariant
<1> QED
  BY <1>4, <1>5

LEMMA WriteMarkKeeps ==
  ASSUME RewardInvariant, NEW c \in Claims, WriteMark(c)
  PROVE  RewardInvariant'
<1>1. UNCHANGED <<paid, raced, orphaned>> /\ claim[c].at = "write"
  BY DEF WriteMark, claimHistory
<1>2. /\ claim[c] \in ClaimRow /\ impression \in [Impressions -> ImpressionRow \union {NoImpression}]
      /\ claim[c].for \in Impressions /\ Recorded(claim[c].for)
  BY <1>1 DEF RewardInvariant, RewardTypes, ClaimSound
<1>3. PICK here \in Impressions, kind \in RewardKinds : here = claim[c].for /\ kind = claim[c].kind
  BY <1>2 DEF ClaimRow
<1>4. PICK row \in ImpressionRow : row.done = impression[here].done \union {kind} /\ impression' = [impression EXCEPT ![here] = row]
  <2>1. impression[here] \in ImpressionRow
    BY <1>2, <1>3 DEF Recorded
  <2>2. [impression[here] EXCEPT !.done = @ \union {kind}] \in ImpressionRow
    BY <2>1 DEF ImpressionRow
  <2>3. PICK row \in ImpressionRow : row = [impression[here] EXCEPT !.done = @ \union {kind}]
    BY <2>2
  <2>4. impression' = [impression EXCEPT ![here] = row]
    BY <1>3, <2>3 DEF WriteMark
  <2>5. row.done = impression[here].done \union {kind}
    BY <2>1, <2>3 DEF ImpressionRow
  <2> QED
    BY <2>4, <2>5
<1>5. /\ impression' \in [Impressions -> ImpressionRow \union {NoImpression}]
      /\ \A i \in Impressions : Recorded(i) => impression'[i] # NoImpression
      /\ Marked(here, kind)' /\ ~(impression'[here] = NoImpression)
      /\ \A i \in Impressions, k \in RewardKinds : i # here \/ k # kind => (Marked(i, k)' <=> Marked(i, k))
  <2>1. row # NoImpression /\ impression[here] # NoImpression
    BY <1>2, <1>3 DEF Recorded
  <2> QED
    BY <1>2, <1>4, <2>1 DEF Recorded, Marked
<1>6. PICK point \in ClaimPoints : /\ ClaimGoes(c, point)
                                   /\ point = "pay" \/ (kind = "click" /\ point = "cap")
  <2>1. ClaimGoes(c, NextPoint(c, "write"))
    BY DEF WriteMark
  <2>2. NextPoint(c, "write") \in ClaimPoints
        /\ (NextPoint(c, "write") = "pay" \/ (kind = "click" /\ NextPoint(c, "write") = "cap"))
    BY <1>3, Orders DEF RewardKinds, ClaimPoints
  <2> QED
    BY <2>1, <2>2
<1>7. point = "pay" \/ kind = "click"
  BY <1>6
<1>8. /\ claim' \in [Claims -> ClaimRow]
      /\ \A d \in Claims \ {c} : claim'[d] = claim[d]
      /\ claim'[c].at = point /\ claim'[c].for = here /\ claim'[c].kind = kind
  BY <1>3, <1>6, CallGoes
<1>9. RewardTypes'
  BY <1>1, <1>5, <1>8 DEF RewardInvariant, RewardTypes
<1>10. ASSUME NEW d \in Claims PROVE ClaimSound(d)'
  <2>1. ClaimSound(d) /\ point # "write"
    BY <1>6 DEF RewardInvariant
  <2>2. CASE d = c
    BY <1>8, <2>1, <2>2 DEF ClaimSound
  <2>3. CASE d # c
    <3>1. claim'[d] = claim[d]
      BY <1>8, <2>3
    <3> QED
      BY <1>5, <2>1, <3>1 DEF ClaimSound, Recorded
  <2> QED
    BY <2>2, <2>3
<1>11. Writes(c, here, kind) /\ HasMarked(c, here, kind)' /\ ~Writes(c, here, kind)'
  BY <1>1, <1>3, <1>6, <1>8 DEF Writes, HasMarked, ClaimAt
<1>12. \A i, k : \A d \in Claims \ {c} : (Writes(d, i, k)' <=> Writes(d, i, k)) /\ (HasMarked(d, i, k)' <=> HasMarked(d, i, k))
  BY <1>8 DEF Writes, HasMarked, ClaimAt
<1>13. PaymentSound(here, kind)'
  <2>1. PaymentSound(here, kind) /\ paid' = paid /\ raced' = raced
    BY <1>1 DEF RewardInvariant
  <2>2. Busy(here, kind)' = Busy(here, kind) /\ c \in Busy(here, kind)
    BY <1>11, <1>12 DEF Busy
  <2>3. MarkBeforePay(here, kind)' /\ FewPayments(here, kind)'
    BY <1>5, <2>1, <2>2 DEF PaymentSound, MarkBeforePay, FewPayments
  <2>4. OnePayment(here, kind)'
    <3>1. kind \notin raced[here] => \A d \in Claims : ~Writes(d, here, kind)'
      <4>1. ASSUME NEW d \in Claims \ {c}, kind \notin raced[here] PROVE ~Writes(d, here, kind)'
        <5>1. d \notin Busy(here, kind)
          BY <2>1, <2>2, <4>1 DEF PaymentSound, OnePayment
        <5> QED
          BY <1>12, <5>1 DEF Busy
      <4> QED
        BY <1>11, <4>1
    <3> QED
      BY <2>1, <2>2, <3>1 DEF PaymentSound, OnePayment
  <2> QED
    BY <2>3, <2>4 DEF PaymentSound
<1>14. ASSUME NEW i \in Impressions, NEW k \in RewardKinds, i # here \/ k # kind PROVE PaymentSound(i, k)'
  <2>1. Marked(i, k)' <=> Marked(i, k)
    BY <1>5, <1>14 DEF Marked, Recorded
  <2>2. ~Writes(c, i, k)' /\ ~HasMarked(c, i, k)'
    BY <1>8, <1>14 DEF Writes, HasMarked, ClaimAt
  <2>3. NothingNew(i, k)
    BY <1>12, <2>1, <2>2 DEF NothingNew
  <2> QED
    BY <1>1, <2>3, PaymentStays
<1>15. MarkedIsPaid'
  <2> SUFFICES ASSUME NEW i \in Impressions, Marked(i, "view")'
               PROVE  paid'[i]["view"] > 0 \/ Paying(i, "view")' # {} \/ "view" \in orphaned'[i]
    BY DEF MarkedIsPaid, Marked
  <2>1. CASE i = here /\ kind = "view"
    BY <1>6, <1>8, <2>1 DEF Paying, ClaimAt
  <2>2. CASE ~(i = here /\ kind = "view")
    <3>1. Marked(i, "view")
      BY <1>5, <2>2 DEF RewardKinds, Marked, Recorded
    <3>2. Paying(i, "view") \subseteq Paying(i, "view")'
      BY <1>1, <1>8 DEF Paying, ClaimAt
    <3> QED
      BY <1>1, <3>1, <3>2 DEF RewardInvariant, MarkedIsPaid, Marked
  <2> QED
    BY <2>1, <2>2
<1> QED
  BY <1>9, <1>10, <1>13, <1>14, <1>15 DEF RewardInvariant

LEMMA PayKeeps ==
  ASSUME RewardInvariant, NEW c \in Claims, Pay(c)
  PROVE  RewardInvariant'
<1>1. UNCHANGED <<impression, raced, orphaned>> /\ claim[c].at = "pay" /\ Returns(c)
  BY DEF Pay, claimHistory
<1>2. claim \in [Claims -> ClaimRow] /\ claim[c] \in ClaimRow /\ claim[c].for \in Impressions
      /\ paid \in [Impressions -> [RewardKinds -> Nat]]
  BY <1>1 DEF RewardInvariant, RewardTypes, ClaimSound
<1>3. PICK here \in Impressions, kind \in RewardKinds : here = claim[c].for /\ kind = claim[c].kind
  BY <1>2 DEF ClaimRow
<1>4. /\ paid' \in [Impressions -> [RewardKinds -> Nat]]
      /\ paid'[here][kind] = paid[here][kind] + 1
      /\ \A i \in Impressions, k \in RewardKinds : i # here \/ k # kind => paid'[i][k] = paid[i][k]
  BY <1>2, <1>3 DEF Pay
<1>5. /\ claim' \in [Claims -> ClaimRow] /\ claim'[c].at = "idle"
      /\ \A d \in Claims \ {c} : claim'[d] = claim[d]
  <2>1. NoClaim \in ClaimRow /\ NoClaim.at = "idle"
    BY NoClaimIsRow, UsersAssumption DEF NoClaim
  <2> QED
    BY <1>1, <1>2, <2>1 DEF Returns
<1>6. RewardTypes'
  BY <1>1, <1>4, <1>5 DEF RewardInvariant, RewardTypes
<1>7. ASSUME NEW d \in Claims PROVE ClaimSound(d)'
  <2>1. ClaimSound(d) /\ impression' = impression
    BY <1>1 DEF RewardInvariant
  <2>2. CASE d = c
    BY <1>5, <2>2 DEF ClaimSound
  <2>3. CASE d # c
    BY <1>5, <2>1, <2>3 DEF ClaimSound, Recorded
  <2> QED
    BY <2>2, <2>3
<1>8. HasMarked(c, here, kind) /\ \A i, k : ~HasMarked(c, i, k)' /\ ~Writes(c, i, k)'
  BY <1>1, <1>3, <1>5 DEF HasMarked, Writes, ClaimAt
<1>9. \A i, k : \A d \in Claims \ {c} : (Writes(d, i, k)' <=> Writes(d, i, k)) /\ (HasMarked(d, i, k)' <=> HasMarked(d, i, k))
  BY <1>5 DEF Writes, HasMarked, ClaimAt
<1>10. \A i, k : Marked(i, k)' <=> Marked(i, k)
  BY <1>1 DEF Marked, Recorded
<1>11. PaymentSound(here, kind)'
  <2>1. PaymentSound(here, kind) /\ raced' = raced
    BY <1>1 DEF RewardInvariant
  <2>2. Busy(here, kind)' = Busy(here, kind) \ {c} /\ c \in Busy(here, kind)
    BY <1>8, <1>9 DEF Busy
  <2>3. MarkBeforePay(here, kind)'
    BY <1>8, <1>10, <2>1 DEF PaymentSound, MarkBeforePay
  <2>4. OnePayment(here, kind)'
    <3>1. ASSUME kind \notin raced[here] PROVE Busy(here, kind)' = {} /\ paid'[here][kind] = 1
      <4>1. paid[here][kind] \in Nat
        BY <1>2
      <4> QED
        BY <1>4, <2>1, <2>2, <3>1, <4>1 DEF PaymentSound, OnePayment
    <3> QED
      BY <2>1, <3>1 DEF OnePayment, Busy
  <2>5. FewPayments(here, kind)'
    <3>1. Cardinality(Busy(here, kind) \ {c}) = Cardinality(Busy(here, kind)) - 1
      BY <2>2, BusyIsFinite, FS_RemoveElement
    <3>2. paid[here][kind] \in Nat /\ Cardinality(Busy(here, kind)) \in Nat /\ Cardinality(Claims) \in Nat
      BY <1>2, BusyIsFinite
    <3> QED
      BY <1>4, <2>1, <2>2, <3>1, <3>2 DEF PaymentSound, FewPayments
  <2> QED
    BY <2>3, <2>4, <2>5 DEF PaymentSound
<1>12. ASSUME NEW i \in Impressions, NEW k \in RewardKinds, i # here \/ k # kind PROVE PaymentSound(i, k)'
  <2>1. NothingNew(i, k)
    BY <1>8, <1>9, <1>10 DEF NothingNew
  <2> QED
    BY <1>1, <1>4, <1>12, <2>1, PaymentStays
<1>13. MarkedIsPaid'
  <2> SUFFICES ASSUME NEW i \in Impressions, Marked(i, "view")
               PROVE  paid'[i]["view"] > 0 \/ Paying(i, "view")' # {} \/ "view" \in orphaned'[i]
    BY <1>1 DEF MarkedIsPaid, Marked, Recorded
  <2>1. paid[i]["view"] > 0 \/ Paying(i, "view") # {} \/ "view" \in orphaned[i]
    BY DEF RewardInvariant, MarkedIsPaid, Marked
  <2>2. paid[i]["view"] \in Nat /\ "view" \in RewardKinds
    BY <1>2 DEF RewardKinds
  <2>3. CASE i = here /\ kind = "view"
    BY <1>4, <2>2, <2>3
  <2>4. CASE ~(i = here /\ kind = "view")
    <3>1. Paying(i, "view") \subseteq Paying(i, "view")'
      BY <1>3, <1>5, <2>4 DEF Paying, ClaimAt
    <3> QED
      BY <1>1, <1>4, <2>1, <2>2, <2>4, <3>1
  <2> QED
    BY <2>3, <2>4
<1> QED
  BY <1>6, <1>7, <1>11, <1>12, <1>13 DEF RewardInvariant

-----------------------------------------------------------------------------
LEMMA RewardStep == RewardInvariant /\ [RewardNext]_rewardVars => RewardInvariant'
<1> SUFFICES ASSUME RewardInvariant, [RewardNext]_rewardVars PROVE RewardInvariant'
  OBVIOUS
<1>1. ASSUME NEW i \in Impressions, RecordImpression(i) \/ Ripen(i) PROVE RewardInvariant'
  BY <1>1, WorldKeeps DEF RecordImpression, Ripen, claimHistory
<1>2. CASE NextDay
  BY <1>2, WorldKeeps DEF NextDay, claimHistory
<1>3. ASSUME NEW c \in Claims, NEW u \in Users, NEW i \in Impressions, BeginView(c, u, i) \/ BeginClick(c, u, i)
      PROVE  RewardInvariant'
  BY <1>3, BeginKeeps
<1>4. ASSUME NEW c \in Claims, CheckCap(c) \/ ReadMark(c) \/ WriteMark(c) \/ Pay(c) \/ ClaimDies(c)
      PROVE  RewardInvariant'
  BY <1>4, CheckCapKeeps, ReadMarkKeeps, WriteMarkKeeps, PayKeeps, ClaimDiesKeeps
<1>5. CASE UNCHANGED rewardVars
  BY <1>5, WorldKeeps DEF rewardVars
<1> QED
  BY <1>1, <1>2, <1>3, <1>4, <1>5 DEF RewardNext

(***************************************************************************)
(* What the calls, the marks and the payments of an impression have to do  *)
(* with each other, in every reachable state.                              *)
(***************************************************************************)
THEOREM RewardsSound == RewardSpec => []RewardInvariant
  BY RewardInitially, RewardStep, PTL DEF RewardSpec

(***************************************************************************)
(* A view that was marked is paid for, or about to be, however many calls  *)
(* complete impressions at once, unless the call that marked it died.      *)
(***************************************************************************)
THEOREM MarksArePaid == RewardSpec => []MarkedIsPaid
<1>1. RewardInvariant => MarkedIsPaid
  BY DEF RewardInvariant
<1> QED
  BY <1>1, RewardsSound, PTL

(***************************************************************************)
(* An impression, and its click, are paid for once; and where calls raced  *)
(* for it, no more often than there are calls.                             *)
(***************************************************************************)
THEOREM PaymentsBounded == RewardSpec => []PaidOnce
<1>1. RewardInvariant => PaidOnce
  <2> SUFFICES ASSUME RewardInvariant, NEW i \in Impressions, NEW k \in RewardKinds
               PROVE  /\ k \notin raced[i] => paid[i][k] + Cardinality(Paying(i, k)) <= 1
                      /\ paid[i][k] + Cardinality(Paying(i, k)) <= Cardinality(Claims)
    BY DEF PaidOnce
  <2>1. PaymentSound(i, k) /\ paid[i][k] \in Nat
    BY DEF RewardInvariant, RewardTypes
  <2>2. Paying(i, k) \subseteq Busy(i, k)
    BY DEF Paying, Busy, HasMarked
  <2>3. /\ IsFiniteSet(Paying(i, k)) /\ Cardinality(Paying(i, k)) <= Cardinality(Busy(i, k))
        /\ Cardinality(Paying(i, k)) \in Nat /\ Cardinality(Busy(i, k)) \in Nat /\ Cardinality(Claims) \in Nat
    BY <2>2, BusyIsFinite, FS_Subset, FS_CardinalityType
  <2>4. paid[i][k] + Cardinality(Paying(i, k)) <= Cardinality(Claims)
    BY <2>1, <2>3 DEF PaymentSound, FewPayments
  <2>5. ASSUME k \notin raced[i] PROVE paid[i][k] + Cardinality(Paying(i, k)) <= 1
    <3>1. CASE Busy(i, k) = {}
      <4>1. Paying(i, k) = {} /\ paid[i][k] <= 1
        BY <2>1, <2>2, <2>5, <3>1 DEF PaymentSound, OnePayment
      <4>2. Cardinality(Paying(i, k)) = 0
        BY <4>1, FS_EmptySet
      <4> QED
        BY <2>1, <4>1, <4>2
    <3>2. CASE Busy(i, k) # {}
      <4>1. PICK c \in Busy(i, k) : TRUE
        BY <3>2
      <4>2. Busy(i, k) = {c} /\ paid[i][k] = 0
        BY <2>1, <2>5, <3>2, <4>1 DEF PaymentSound, OnePayment
      <4>3. Cardinality(Busy(i, k)) = 1
        BY <4>2, FS_Singleton
      <4> QED
        BY <2>3, <4>2, <4>3
    <3> QED
      BY <3>1, <3>2
  <2> QED
    BY <2>4, <2>5
<1> QED
  BY <1>1, RewardsSound, PTL

-----------------------------------------------------------------------------
(***************************************************************************)
(* The daily cap.  A call has passed the cap when it is between the check  *)
(* and the payment; what is left of the day has room for those that have.  *)
(***************************************************************************)
Passed(c) == claim[c].at = "pay" \/ (claim[c].kind = "view" /\ claim[c].at \in {"mark", "write"})
PassedFor(u) == {c \in Claims : Passed(c) /\ claim[c].user = u}
RewardOf == [c \in Claims |-> Reward(claim[c].kind)]
LeftToday(u) == DailyCap - EarnedToday(u)

RewardBooksTyped ==
  /\ wallet \in [Users -> Seq(WalletRow)] /\ ledger \in [Users -> Seq([TransactionType -> Int])]
  /\ yesterday \in [Users -> Int]
  /\ \A u \in Users : Len(ledger[u]) = Len(wallet[u])

DailyInvariant ==
  /\ RewardBooksTyped
  /\ \A u \in Users : Room(Claims, LargestReward, PassedFor(u), RewardOf, LeftToday(u))

LEMMA RewardTypesHold == LargestReward \in Nat /\ DailyCap \in Nat /\ \A k : Reward(k) \in Nat /\ Reward(k) <= LargestReward /\ Reward(k) <= DailyCap
  BY RewardAssumption DEF LargestReward, Reward

LEMMA EarnedIsInt ==
  ASSUME RewardBooksTyped, NEW u \in Users
  PROVE  Earned(u) \in Int /\ EarnedToday(u) \in Int /\ LeftToday(u) \in Int
<1>1. Earned(u) \in Int
  <2>1. CASE HasWallet(u)
    <3>1. Found(u) \in DOMAIN ledger[u] /\ ledger[u] \in Seq([TransactionType -> Int])
      BY <2>1 DEF HasWallet, Found, RewardBooksTyped
    <3>2. ledger[u][Found(u)] \in [TransactionType -> Int]
      BY <3>1
    <3>3. ledger[u][Found(u)]["ad_view"] \in Int /\ ledger[u][Found(u)]["affiliate_click"] \in Int
      BY <3>2 DEF TransactionType
    <3> QED
      BY <3>3 DEF Earned
  <2>2. CASE ~HasWallet(u)
    BY <2>2 DEF Earned
  <2> QED
    BY <2>1, <2>2
<1> QED
  BY <1>1, RewardAssumption DEF RewardBooksTyped, EarnedToday, LeftToday

LEMMA EarnedSame ==
  ASSUME UNCHANGED rewardBooks, RewardBooksTyped
  PROVE  /\ \A u \in Users : Earned(u)' = Earned(u)
         /\ UNCHANGED yesterday => RewardBooksTyped' /\ \A u \in Users : LeftToday(u)' = LeftToday(u)
  BY DEF rewardBooks, Earned, EarnedToday, LeftToday, HasWallet, Found, RewardBooksTyped

\* Another call of the same user passes the cap, or one is done; nobody else moves.
Waits(c) == \A d \in Claims \ {c} : claim'[d] = claim[d]

LEMMA OneCallMoves ==
  ASSUME RewardInvariant, RewardInvariant', DailyInvariant, NEW c \in Claims, Waits(c), RewardBooksTyped',
         NEW o \in Users, o = claim[c].user,
         \A u \in Users \ {o} : LeftToday(u)' = LeftToday(u),
         \/ /\ Passed(c)' <=> Passed(c)
            /\ Passed(c) => claim'[c].kind = claim[c].kind /\ claim'[c].user = o
            /\ LeftToday(o)' = LeftToday(o)
         \/ /\ ~Passed(c)'
            /\ \/ LeftToday(o)' = LeftToday(o)
               \/ Passed(c) /\ LeftToday(o)' = LeftToday(o) - Reward(claim[c].kind)
         \/ /\ Passed(c)' /\ ~Passed(c)
            /\ claim'[c].kind = claim[c].kind /\ claim'[c].user = o
            /\ LeftToday(o)' = LeftToday(o)
            /\ Reward(claim[c].kind) <= LeftToday(o)
  PROVE  DailyInvariant'
<1> DEFINE a == RewardOf
           a2 == RewardOf'
<1>1. /\ a \in [Claims -> Nat] /\ a2 \in [Claims -> Nat] /\ \A d \in Claims \ {c} : a2[d] = a[d]
      /\ a[c] = Reward(claim[c].kind) /\ a2[c] = Reward(claim'[c].kind)
  BY RewardTypesHold DEF RewardOf, Waits
<1>2. ASSUME NEW u \in Users PROVE Room(Claims, LargestReward, PassedFor(u)', a2, LeftToday(u)')
  <2> DEFINE Q == PassedFor(u)
             Q2 == PassedFor(u)'
             b == LeftToday(u)
             b2 == LeftToday(u)'
  <2> SUFFICES Room(Claims, LargestReward, Q2, a2, b2)
    OBVIOUS
  <2>1. b \in Int /\ b2 \in Int /\ Room(Claims, LargestReward, Q, a, b) /\ Q \in SUBSET Claims /\ Q2 \in SUBSET Claims
    <3>1. b2 \in Int
      <4>1. LeftToday(u) \in Int /\ \A k : Reward(k) \in Nat
        BY EarnedIsInt, RewardTypesHold DEF DailyInvariant
      <4> QED
        BY <4>1
    <3> QED
      BY <3>1, EarnedIsInt DEF DailyInvariant, PassedFor
  <2>2. \A d \in Claims \ {c} : d \in Q2 <=> d \in Q
    BY DEF PassedFor, Passed, Waits
  <2>3. CASE Q2 = Q /\ b2 = b /\ (c \in Q => a2[c] = a[c])
    <3>1. b2 >= b /\ \A d \in Q : a2[d] = a[d]
      BY <1>1, <2>1, <2>3
    <3> HIDE DEF a, a2, b, b2, Q, Q2
    <3> QED
      BY <1>1, <2>1, <2>3, <3>1, RewardTypesHold, RoomStays, ClaimsAssumption
  <2>4. CASE c \in Q /\ c \notin Q2 /\ (b2 = b \/ b2 = b - a[c])
    <3>1. Q2 = Q \ {c} /\ a[c] \in Nat /\ a[c] <= LargestReward /\ LargestReward \in Nat
      BY <1>1, <2>1, <2>2, <2>4, RewardTypesHold
    <3>2. b2 >= b - a[c]
      BY <2>1, <2>4, <3>1
    <3> HIDE DEF a, a2, b, b2, Q, Q2
    <3> QED
      BY <1>1, <2>1, <2>4, <3>1, <3>2, RoomToLeave, ClaimsAssumption
  <2>5. CASE c \in Q2 /\ b2 >= a2[c]
    <3> HIDE DEF a, a2, b, b2, Q, Q2
    <3> QED
      BY <1>1, <2>1, <2>5, RewardTypesHold, RoomToEnter, ClaimsAssumption
  <2>6. CASE u # o
    <3>1. b2 = b
      BY <2>6
    <3>2. c \notin Q
      BY <2>6 DEF PassedFor
    <3>3. CASE c \notin Q2
      BY <2>1, <2>2, <2>3, <3>1, <3>2, <3>3
    <3>4. CASE c \in Q2
      BY <2>6, <3>4 DEF PassedFor
    <3> QED
      BY <3>3, <3>4
  <2>7. CASE u = o
    <3>1. CASE c \in Q <=> c \in Q2
      <4>1. Q2 = Q
        BY <2>1, <2>2, <3>1
      <4>2. CASE c \in Q
        <5>1. Passed(c) /\ Passed(c)'
          BY <3>1, <4>2 DEF PassedFor
        <5>2. b2 = b /\ a2[c] = a[c]
          BY <1>1, <2>7, <5>1
        <5> QED
          BY <2>3, <4>1, <5>2
      <4>3. CASE c \notin Q
        <5>1. ~Passed(c)
          BY <2>7, <4>3 DEF PassedFor
        <5>2. b2 = b
          BY <2>7, <5>1
        <5> QED
          BY <2>3, <4>1, <4>3, <5>2
      <4> QED
        BY <4>2, <4>3
    <3>2. CASE c \in Q /\ c \notin Q2
      <4>1. Passed(c)
        BY <3>2 DEF PassedFor
      <4>2. b2 = b \/ b2 = b - a[c]
        BY <1>1, <2>7, <4>1
      <4> QED
        BY <2>4, <3>2, <4>2
    <3>3. CASE c \notin Q /\ c \in Q2
      <4>1. ~Passed(c) /\ Passed(c)'
        BY <2>7, <3>3 DEF PassedFor
      <4>2. b2 >= a2[c]
        BY <1>1, <2>1, <2>7, <4>1, RewardTypesHold
      <4> QED
        BY <2>5, <3>3, <4>2
    <3> QED
      BY <3>1, <3>2, <3>3
  <2> QED
    BY <2>6, <2>7
<1>3. LargestReward' = LargestReward
  BY DEF LargestReward
<1> QED
  BY <1>2, <1>3 DEF DailyInvariant, Room

LEMMA RoomForNone ==
  ASSUME NEW Q \in SUBSET Claims
  PROVE  Room(Claims, LargestReward, Q, RewardOf, DailyCap)
<1>1. RewardOf \in [Claims -> Nat] /\ (\A c \in Claims : DailyCap >= RewardOf[c]) /\ DailyCap \in Nat /\ DailyCap \in Int
  BY RewardTypesHold DEF RewardOf
<1>2. CASE Q = {}
  BY <1>1, <1>2, NoOneHolds, ClaimsAssumption, RewardTypesHold
<1>3. ASSUME NEW c \in Q PROVE Room(Claims, LargestReward, Q, RewardOf, DailyCap)
  BY <1>1, <1>3, RoomToEnter, ClaimsAssumption, RewardTypesHold
<1> QED
  BY <1>2, <1>3

LEMMA NoClaimPasses == ~(NoClaim.at = "pay" \/ (NoClaim.kind = "view" /\ NoClaim.at \in {"mark", "write"}))
  BY DEF NoClaim

\* The wallet is credited: what its owner has left today is less by the reward.
LEMMA CreditTakesReward ==
  ASSUME RewardBooksTyped, NEW o \in Users, NEW k \in RewardKinds, CreditWallet(o, TypeOf(k), Reward(k)), UNCHANGED yesterday
  PROVE  /\ RewardBooksTyped' /\ LeftToday(o)' = LeftToday(o) - Reward(k)
         /\ \A u \in Users \ {o} : LeftToday(u)' = LeftToday(u)
<1> DEFINE t == TypeOf(k)
           r == Reward(k)
<1>0. t \in {"ad_view", "affiliate_click"} /\ t \in TransactionType /\ r \in Nat /\ r \in Int
      /\ "ad_view" \in TransactionType /\ "affiliate_click" \in TransactionType
  BY RewardTypesHold DEF TypeOf, TransactionType
<1>1. wallet[o] \in Seq(WalletRow) /\ ledger[o] \in Seq([TransactionType -> Int]) /\ Len(ledger[o]) = Len(wallet[o])
  BY DEF RewardBooksTyped
<1>2. CASE ~HasWallet(o)
  <2> DEFINE row == NewWallet(r)
             sums == [NoTransactions EXCEPT ![t] = r]
  <2>1. wallet' = [wallet EXCEPT ![o] = Append(wallet[o], row)] /\ ledger' = [ledger EXCEPT ![o] = Append(ledger[o], sums)]
    BY <1>2 DEF CreditWallet, InsertWallet
  <2>2. row \in WalletRow /\ sums \in [TransactionType -> Int] /\ sums["ad_view"] + sums["affiliate_click"] = r
    BY <1>0 DEF NewWallet, WalletRow, NoTransactions
  <2> HIDE DEF row, sums
  <2>3. wallet'[o] = <<row>> /\ ledger'[o] = <<sums>>
    <3>1. wallet[o] = <<>> /\ ledger[o] = <<>>
      BY <1>1, <1>2 DEF HasWallet
    <3> QED
      BY <2>1, <3>1 DEF RewardBooksTyped
  <2>4. RewardBooksTyped'
    <3>1. \A u \in Users \ {o} : wallet'[u] = wallet[u] /\ ledger'[u] = ledger[u]
      BY <2>1 DEF RewardBooksTyped
    <3>2. <<row>> \in Seq(WalletRow) /\ <<sums>> \in Seq([TransactionType -> Int]) /\ Len(<<row>>) = Len(<<sums>>)
      BY <2>2
    <3>3. wallet' \in [Users -> Seq(WalletRow)] /\ ledger' \in [Users -> Seq([TransactionType -> Int])]
      BY <1>1, <2>1, <2>2 DEF RewardBooksTyped
    <3> QED
      BY <2>3, <3>1, <3>2, <3>3 DEF RewardBooksTyped
  <2>5. Earned(o) = 0 /\ Earned(o)' = r
    BY <1>2, <2>2, <2>3 DEF Earned, HasWallet, Found
  <2>6. \A u \in Users \ {o} : Earned(u)' = Earned(u)
    BY <2>1 DEF Earned, HasWallet, Found, RewardBooksTyped
  <2>7. yesterday[o] \in Int /\ DailyCap \in Int
    BY RewardAssumption DEF RewardBooksTyped
  <2> QED
    BY <1>0, <2>4, <2>5, <2>6, <2>7 DEF LeftToday, EarnedToday
<1>3. CASE HasWallet(o)
  <2> DEFINE row == [balance |-> wallet[o][1].balance + r, earned |-> wallet[o][1].earned + r, spent |-> wallet[o][1].spent + 0]
             sums == [ledger[o][1] EXCEPT ![t] = @ + r]
             rows == [wallet[o] EXCEPT ![1] = row]
             books == [ledger[o] EXCEPT ![1] = sums]
  <2>1. 1 \in DOMAIN wallet[o] /\ 1 \in DOMAIN ledger[o]
    BY <1>1, <1>3 DEF HasWallet
  <2>2. wallet[o][1] \in WalletRow /\ ledger[o][1] \in [TransactionType -> Int]
    BY <1>1, <2>1
  <2>3. row \in WalletRow /\ sums \in [TransactionType -> Int]
    BY <1>0, <2>2 DEF WalletRow
  <2>4. sums["ad_view"] + sums["affiliate_click"] = ledger[o][1]["ad_view"] + ledger[o][1]["affiliate_click"] + r
        /\ ledger[o][1]["ad_view"] \in Int /\ ledger[o][1]["affiliate_click"] \in Int
    BY <1>0, <2>2
  <2>5. wallet' = [wallet EXCEPT ![o] = rows] /\ ledger' = [ledger EXCEPT ![o] = books]
    BY <1>3, <2>2 DEF CreditWallet, AddToWallet, InsertTransaction, Found
  <2> HIDE DEF row, sums
  <2>6. rows \in Seq(WalletRow) /\ books \in Seq([TransactionType -> Int]) /\ Len(rows) = Len(wallet[o]) /\ Len(books) = Len(ledger[o])
        /\ rows # <<>> /\ books[1] = sums
    BY <1>1, <2>1, <2>3
  <2> HIDE DEF rows, books
  <2>7. RewardBooksTyped'
    BY <1>1, <2>5, <2>6 DEF RewardBooksTyped
  <2>8. Earned(o)' = Earned(o) + r /\ Earned(o) \in Int
    <3>1. wallet'[o] = rows /\ ledger'[o] = books
      BY <2>5 DEF RewardBooksTyped
    <3>2. Earned(o)' = sums["ad_view"] + sums["affiliate_click"]
      BY <2>6, <3>1 DEF Earned, HasWallet, Found
    <3>3. Earned(o) = ledger[o][1]["ad_view"] + ledger[o][1]["affiliate_click"]
      BY <1>3 DEF Earned, Found
    <3> QED
      BY <1>0, <2>4, <3>2, <3>3
  <2>9. \A u \in Users \ {o} : Earned(u)' = Earned(u)
    BY <2>5 DEF Earned, HasWallet, Found, RewardBooksTyped
  <2>10. yesterday[o] \in Int /\ DailyCap \in Int
    BY RewardAssumption DEF RewardBooksTyped
  <2> QED
    BY <1>0, <2>7, <2>8, <2>9, <2>10 DEF LeftToday, EarnedToday
<1> QED
  BY <1>2, <1>3

LEMMA DailyStep ==
  ASSUME RewardInvariant, RewardInvariant', DailyInvariant, [RewardNext]_rewardVars
  PROVE  DailyInvariant'
<1>0. claim \in [Claims -> ClaimRow] /\ RewardBooksTyped
  BY DEF RewardInvariant, RewardTypes, DailyInvariant
<1>1. ASSUME UNCHANGED <<rewardBooks, claim, yesterday>> PROVE DailyInvariant'
  BY <1>0, <1>1, EarnedSame DEF DailyInvariant, PassedFor, Passed, RewardOf, LargestReward, Room
<1>2. ASSUME NEW i \in Impressions, RecordImpression(i) \/ Ripen(i) PROVE DailyInvariant'
  BY <1>1, <1>2 DEF RecordImpression, Ripen
<1>3. CASE NextDay
  <2>1. UNCHANGED <<rewardBooks, claim>> /\ yesterday' = [u \in Users |-> Earned(u)]
    BY <1>3 DEF NextDay
  <2>2. RewardBooksTyped' /\ \A u \in Users : LeftToday(u)' = DailyCap
    <3>1. \A u \in Users : Earned(u)' = Earned(u) /\ Earned(u) \in Int
      BY <1>0, <2>1, EarnedSame, EarnedIsInt
    <3>2. RewardBooksTyped'
      BY <1>0, <2>1, <3>1 DEF RewardBooksTyped, rewardBooks
    <3> QED
      BY <2>1, <3>1, <3>2, RewardAssumption DEF LeftToday, EarnedToday
  <2>3. \A u \in Users : PassedFor(u)' \in SUBSET Claims
    BY DEF PassedFor
  <2>4. RewardOf' = RewardOf /\ LargestReward' = LargestReward
    BY <2>1 DEF RewardOf, LargestReward
  <2> QED
    BY <2>2, <2>3, <2>4, RoomForNone DEF DailyInvariant, Room
<1>4. ASSUME NEW c \in Claims, NEW u \in Users, NEW i \in Impressions, BeginView(c, u, i) \/ BeginClick(c, u, i)
      PROVE  DailyInvariant'
  <2>1. claim[c].at = "idle" /\ UNCHANGED <<rewardBooks, yesterday>> /\ claim[c].user \in Users /\ Waits(c)
    BY <1>0, <1>4 DEF BeginView, BeginClick, Waits, ClaimRow
  <2>2. ~Passed(c) /\ ~Passed(c)'
    <3>1. PointsOf("view")[1] = "cap" /\ PointsOf("click")[1] = "mark"
      BY DEF PointsOf
    <3> QED
      BY <1>0, <1>4, <2>1, <3>1 DEF BeginView, BeginClick, Passed
  <2> QED
    BY <1>0, <2>1, <2>2, EarnedSame, OneCallMoves
<1>5. ASSUME NEW c \in Claims, Returns(c), UNCHANGED <<rewardBooks, yesterday>> PROVE DailyInvariant'
  <2>1. Waits(c) /\ ~Passed(c)' /\ claim[c].user \in Users
    BY <1>0, <1>5, NoClaimPasses DEF Returns, Waits, Passed, ClaimRow
  <2> QED
    BY <1>0, <1>5, <2>1, EarnedSame, OneCallMoves
<1>6. ASSUME NEW c \in Claims, NEW point, ClaimGoes(c, point), UNCHANGED <<rewardBooks, yesterday>>,
             \/ Passed(c) <=> (point = "pay" \/ (claim[c].kind = "view" /\ point \in {"mark", "write"}))
             \/ ~Passed(c) /\ Reward(claim[c].kind) <= LeftToday(claim[c].user)
      PROVE  DailyInvariant'
  <2>1. /\ Waits(c) /\ claim[c].user \in Users /\ claim'[c].kind = claim[c].kind /\ claim'[c].user = claim[c].user
        /\ claim'[c].at = point
    BY <1>0, <1>6 DEF ClaimGoes, Waits, ClaimRow
  <2>2. Passed(c)' <=> (point = "pay" \/ (claim[c].kind = "view" /\ point \in {"mark", "write"}))
    BY <2>1 DEF Passed
  <2> QED
    BY <1>0, <1>6, <2>1, <2>2, EarnedSame, OneCallMoves
<1>7. ASSUME NEW c \in Claims, CheckCap(c) PROVE DailyInvariant'
  <2>1. UNCHANGED <<rewardBooks, yesterday>> /\ ~Passed(c) /\ claim[c].user \in Users
    BY <1>0, <1>7 DEF CheckCap, Passed, ClaimRow
  <2>2. CASE ExceedsDailyCap(claim[c].user, Reward(claim[c].kind))
    BY <1>5, <1>7, <2>1, <2>2 DEF CheckCap
  <2>3. CASE ~ExceedsDailyCap(claim[c].user, Reward(claim[c].kind))
    <3>1. Reward(claim[c].kind) <= LeftToday(claim[c].user)
      <4>1. EarnedToday(claim[c].user) \in Int /\ Reward(claim[c].kind) \in Nat /\ DailyCap \in Nat
        BY <1>0, <2>1, EarnedIsInt, RewardTypesHold
      <4> QED
        BY <2>3, <4>1 DEF ExceedsDailyCap, LeftToday
    <3>2. ClaimGoes(c, NextPoint(c, "cap"))
      BY <1>7, <2>3 DEF CheckCap
    <3> QED
      BY <1>6, <2>1, <3>1, <3>2
  <2> QED
    BY <2>2, <2>3
<1>8. ASSUME NEW c \in Claims, ReadMark(c) PROVE DailyInvariant'
  <2>1. UNCHANGED <<rewardBooks, yesterday>> /\ claim[c].at = "mark"
    BY <1>8 DEF ReadMark
  <2>2. CASE Returns(c)
    BY <1>5, <2>1, <2>2
  <2>3. CASE ClaimGoes(c, "write")
    BY <1>6, <2>1, <2>3 DEF Passed
  <2> QED
    BY <1>8, <2>2, <2>3 DEF ReadMark
<1>9. ASSUME NEW c \in Claims, WriteMark(c) PROVE DailyInvariant'
  <2>1. UNCHANGED <<rewardBooks, yesterday>> /\ claim[c].at = "write" /\ ClaimGoes(c, NextPoint(c, "write")) /\ claim[c].kind \in RewardKinds
    BY <1>0, <1>9 DEF WriteMark, ClaimRow
  <2>2. NextPoint(c, "write") = IF claim[c].kind = "view" THEN "pay" ELSE "cap"
    BY <2>1, Orders DEF RewardKinds
  <2> QED
    BY <1>6, <2>1, <2>2 DEF Passed
<1>10. ASSUME NEW c \in Claims, Pay(c) PROVE DailyInvariant'
  <2>1. /\ claim[c].user \in Users /\ claim[c].kind \in RewardKinds /\ UNCHANGED yesterday /\ Passed(c)
        /\ CreditWallet(claim[c].user, TypeOf(claim[c].kind), Reward(claim[c].kind)) /\ Returns(c)
    BY <1>0, <1>10 DEF Pay, ClaimRow, Passed
  <2>2. Waits(c) /\ ~Passed(c)'
    BY <1>0, <2>1, NoClaimPasses DEF Returns, Waits, Passed
  <2>3. PICK o \in Users : o = claim[c].user
    BY <2>1
  <2>4. RewardBooksTyped' /\ LeftToday(o)' = LeftToday(o) - Reward(claim[c].kind) /\ \A u \in Users \ {o} : LeftToday(u)' = LeftToday(u)
    BY <1>0, <2>1, <2>3, CreditTakesReward
  <2> QED
    BY <2>1, <2>2, <2>3, <2>4, OneCallMoves
<1>11. ASSUME NEW c \in Claims, ClaimDies(c) PROVE DailyInvariant'
  BY <1>5, <1>11 DEF ClaimDies
<1> QED
  BY <1>1, <1>2, <1>3, <1>4, <1>7, <1>8, <1>9, <1>10, <1>11 DEF RewardNext, rewardVars, rewardBooks

(***************************************************************************)
(* What a user earns in a day exceeds the cap by at most one reward for    *)
(* each call beside the last, however many calls complete and click        *)
(* impressions at once and wherever midnight falls between their steps.    *)
(***************************************************************************)
THEOREM DailyCapAlwaysHolds == RewardSpec => []DailyCapHolds
<1>1. RewardInit => DailyInvariant
  <2> SUFFICES ASSUME RewardInit PROVE DailyInvariant
    OBVIOUS
  <2>1. RewardBooksTyped
    BY DEF RewardInit, RewardBooksTyped
  <2>2. \A u \in Users : PassedFor(u) \in SUBSET Claims /\ LeftToday(u) = DailyCap
    BY RewardAssumption DEF PassedFor, RewardInit, LeftToday, EarnedToday, Earned, HasWallet
  <2> QED
    BY <2>1, <2>2, RoomForNone DEF DailyInvariant
<1>2. RewardInvariant /\ RewardInvariant' /\ DailyInvariant /\ [RewardNext]_rewardVars => DailyInvariant'
  BY DailyStep
<1>3. DailyInvariant => DailyCapHolds
  <2> SUFFICES ASSUME DailyInvariant, NEW u \in Users
               PROVE  EarnedToday(u) <= DailyCap + (Cardinality(Claims) - 1) * LargestReward
    BY DEF DailyCapHolds
  <2> DEFINE most == (Cardinality(Claims) - 1) * LargestReward
  <2>1. RewardOf \in [Claims -> Nat] /\ PassedFor(u) \in SUBSET Claims /\ LeftToday(u) \in Int
        /\ EarnedToday(u) \in Int /\ Room(Claims, LargestReward, PassedFor(u), RewardOf, LeftToday(u))
    BY RewardTypesHold, EarnedIsInt DEF RewardOf, PassedFor, DailyInvariant
  <2>2. LeftToday(u) >= -most
    BY <2>1, RoomBounds, ClaimsAssumption, RewardTypesHold
  <2>3. most \in Int
    BY FS_CardinalityType, ClaimsAssumption, RewardTypesHold, MultiplesStep
  <2> HIDE DEF most
  <2>4. EarnedToday(u) <= DailyCap + most
    BY <2>1, <2>2, <2>3, RewardTypesHold DEF LeftToday
  <2> QED
    BY <2>4 DEF most
<1> QED
  BY <1>1, <1>2, <1>3, RewardsSound, PTL DEF RewardSpec

-----------------------------------------------------------------------------
(***************************************************************************)
(* The gate of the ads.                                                    *)
(***************************************************************************)

SlotPoints == {"idle", "fetch", "publish", "track", "pace"}
SlotRow == [at : SlotPoints, session : Sessions, advertiser : Advertisers \union {NoAd}, beside : BOOLEAN]

\* Calls of a session that may still publish, and those that have and are not counted yet;
\* calls that have selected an advertiser and are not counted yet.
Admitted(s) == {t \in Slots : slot[t].session = s /\ slot[t].at \in {"fetch", "publish"}}
Uncounted(s) == {t \in Slots : slot[t].session = s /\ slot[t].at \in {"track", "pace"}}
Bidding(a) == {t \in Slots : slot[t].advertiser = a /\ slot[t].at \in {"publish", "track"}}

\* What the gate has let in was below the cap, beside what is not counted yet.
SessionCapped(s) ==
  /\ since[s] <= count[s] + Cardinality(Uncounted(s))
  /\ since[s] + Cardinality(Admitted(s)) <= MaxPerHour + Cardinality(Slots) - 1

AdvertiserCapped(a) == shownOf[a] + Cardinality(Bidding(a)) <= FrequencyCap + Cardinality(Slots) - 1

\* The pacing is behind an ad only while its call is at work, and a call that is alone was let
\* in by the pacing of the last ad.
Alone(t, s) == \A r \in Slots : Occupied(r, s) => r = t
SessionSpaced(s) ==
  /\ lastShown[s] <= clock
  /\ Uncounted(s) = {} => lastShown[s] <= lastAd[s]
  /\ \A t \in Admitted(s) : ~slot[t].beside => Alone(t, s) /\ clock - lastShown[s] >= Interval

AdTypes ==
  /\ clock \in Nat /\ due \in Nat /\ period \in 1 .. Hour
  /\ lastAd \in [Sessions -> Int] /\ lastShown \in [Sessions -> Int]
  /\ count \in [Sessions -> Nat] /\ hourly \in [Sessions -> Nat] /\ since \in [Sessions -> Nat]
  /\ shownOf \in [Advertisers -> Nat]
  /\ slot \in [Slots -> SlotRow]
  /\ cut \subseteq Sessions

AdInvariant ==
  /\ AdTypes
  /\ \A s \in Sessions \ cut : SessionCapped(s) /\ SessionSpaced(s)
  /\ \A a \in Advertisers : AdvertiserCapped(a)

USE AdGateAssumption

LEMMA NoCallIsSlotRow == NoCall \in SlotRow
  BY DEF NoCall, SlotRow, SlotPoints

\* Sets of calls are counted by numbers up to that of all.
LEMMA SlotsCount ==
  ASSUME NEW S \in SUBSET Slots
  PROVE  /\ IsFiniteSet(S) /\ Cardinality(S) \in Nat /\ Cardinality(S) <= Cardinality(Slots)
         /\ Cardinality(Slots) \in Nat
  BY FS_Subset, FS_CardinalityType

LEMMA DisjointSlotsCount ==
  ASSUME NEW S \in SUBSET Slots, NEW T \in SUBSET Slots, S \intersect T = {}
  PROVE  Cardinality(S) + Cardinality(T) <= Cardinality(Slots)
<1>1. Cardinality(S \union T) = Cardinality(S) + Cardinality(T) - Cardinality(S \intersect T)
  BY SlotsCount, FS_Union
<1>2. Cardinality(S \intersect T) = 0 /\ S \union T \in SUBSET Slots
  BY FS_EmptySet
<1> QED
  BY <1>1, <1>2, SlotsCount

\* One call enters a set, or leaves it.
LEMMA SlotEnters ==
  ASSUME NEW S \in SUBSET Slots, NEW t \in Slots
  PROVE  Cardinality(S \union {t}) <= Cardinality(S) + 1 /\ (t \notin S => Cardinality(S \union {t}) = Cardinality(S) + 1)
  BY SlotsCount, FS_AddElement

LEMMA SlotLeaves ==
  ASSUME NEW S \in SUBSET Slots, NEW t \in Slots
  PROVE  Cardinality(S \ {t}) <= Cardinality(S) /\ (t \in S => Cardinality(S \ {t}) = Cardinality(S) - 1)
  BY SlotsCount, FS_RemoveElement

LEMMA AdInitially == AdInit => AdInvariant
<1> SUFFICES ASSUME AdInit PROVE AdInvariant
  OBVIOUS
<1>1. AdTypes
  <2>1. slot \in [Slots -> SlotRow]
    BY NoCallIsSlotRow DEF AdInit
  <2>2. clock \in Nat /\ period \in 1 .. Hour /\ clock - Interval \in Int
    BY DEF AdInit
  <2> QED
    BY <2>1, <2>2 DEF AdInit, AdTypes
<1>2. \A s : Admitted(s) = {} /\ Uncounted(s) = {} /\ Bidding(s) = {}
  BY DEF AdInit, NoCall, Admitted, Uncounted, Bidding
<1>3. Cardinality({}) = 0 /\ Cardinality(Slots) \in Nat
  BY FS_EmptySet, FS_CardinalityType
<1>4. ASSUME NEW s \in Sessions PROVE SessionCapped(s) /\ SessionSpaced(s)
  <2>1. Cardinality(Admitted(s)) = 0 /\ Cardinality(Uncounted(s)) = 0 /\ Admitted(s) = {}
    BY <1>2, <1>3
  <2>2. since[s] = 0 /\ count[s] = 0 /\ lastShown[s] = lastAd[s] /\ lastAd[s] = clock - Interval /\ clock \in Nat
    BY DEF AdInit
  <2> QED
    BY <1>3, <2>1, <2>2 DEF SessionCapped, SessionSpaced
<1>5. ASSUME NEW a \in Advertisers PROVE AdvertiserCapped(a)
  <2>1. Cardinality(Bidding(a)) = 0 /\ shownOf[a] = 0
    BY <1>2, <1>3 DEF AdInit
  <2> QED
    BY <1>3, <2>1 DEF AdvertiserCapped
<1> QED
  BY <1>1, <1>4, <1>5 DEF AdInvariant

(***************************************************************************)
(* A step of the call in slot t: the other slots stay, and the call is in  *)
(* the sets where its new row puts it.                                     *)
(***************************************************************************)
Joins(S, t, yes) == IF yes THEN S \union {t} ELSE S \ {t}

LEMMA SlotMoves ==
  ASSUME AdTypes, NEW t \in Slots, NEW x \in SlotRow, slot' = [slot EXCEPT ![t] = x]
  PROVE  /\ slot' \in [Slots -> SlotRow] /\ slot'[t] = x /\ \A r \in Slots \ {t} : slot'[r] = slot[r]
         /\ \A s : Admitted(s)' = Joins(Admitted(s), t, x.session = s /\ x.at \in {"fetch", "publish"})
         /\ \A s : Uncounted(s)' = Joins(Uncounted(s), t, x.session = s /\ x.at \in {"track", "pace"})
         /\ \A a : Bidding(a)' = Joins(Bidding(a), t, x.advertiser = a /\ x.at \in {"publish", "track"})
<1>1. slot' \in [Slots -> SlotRow] /\ slot'[t] = x /\ \A r \in Slots \ {t} : slot'[r] = slot[r]
  BY DEF AdTypes
<1>2. ASSUME NEW s PROVE Admitted(s)' = Joins(Admitted(s), t, x.session = s /\ x.at \in {"fetch", "publish"})
  BY <1>1 DEF Admitted, Joins
<1>3. ASSUME NEW s PROVE Uncounted(s)' = Joins(Uncounted(s), t, x.session = s /\ x.at \in {"track", "pace"})
  BY <1>1 DEF Uncounted, Joins
<1>4. ASSUME NEW a PROVE Bidding(a)' = Joins(Bidding(a), t, x.advertiser = a /\ x.at \in {"publish", "track"})
  BY <1>1 DEF Bidding, Joins
<1> QED
  BY <1>1, <1>2, <1>3, <1>4

LEMMA SlotRows ==
  ASSUME AdTypes, NEW t \in Slots
  PROVE  /\ slot[t] \in SlotRow /\ slot[t].session \in Sessions
         /\ \A p \in SlotPoints : [slot[t] EXCEPT !.at = p] \in SlotRow
         /\ \A p \in SlotPoints, a \in Advertisers : [slot[t] EXCEPT !.at = p, !.advertiser = a] \in SlotRow
  BY DEF AdTypes, SlotRow

LEMMA JoinsCount ==
  ASSUME NEW S \in SUBSET Slots, NEW t \in Slots, NEW yes \in BOOLEAN
  PROVE  /\ Joins(S, t, yes) \in SUBSET Slots
         /\ yes => Cardinality(Joins(S, t, yes)) <= Cardinality(S) + 1
         /\ yes /\ t \notin S => Cardinality(Joins(S, t, yes)) = Cardinality(S) + 1
         /\ yes /\ t \in S => Cardinality(Joins(S, t, yes)) = Cardinality(S)
         /\ ~yes => Cardinality(Joins(S, t, yes)) <= Cardinality(S)
         /\ ~yes /\ t \in S => Cardinality(Joins(S, t, yes)) = Cardinality(S) - 1
         /\ ~yes /\ t \notin S => Cardinality(Joins(S, t, yes)) = Cardinality(S)
<1>1. CASE yes
  <2>1. Joins(S, t, yes) = S \union {t} /\ (t \in S => S \union {t} = S)
    BY <1>1 DEF Joins
  <2> QED
    BY <1>1, <2>1, SlotEnters
<1>2. CASE ~yes
  <2>1. Joins(S, t, yes) = S \ {t} /\ (t \notin S => S \ {t} = S)
    BY <1>2 DEF Joins
  <2> QED
    BY <1>2, <2>1, SlotLeaves
<1> QED
  BY <1>1, <1>2

(***************************************************************************)
(* A session is let in: what is not counted and what is admitted are       *)
(* different calls, so all of them are at most the slots.                  *)
(***************************************************************************)
LEMMA OpenSlotKeeps ==
  ASSUME AdInvariant, NEW t \in Slots, NEW s \in Sessions, OpenSlot(t, s)
  PROVE  AdInvariant'
<1> DEFINE opened == [slot[t] EXCEPT !.at = "fetch", !.session = s, !.beside = \E q \in Slots : Occupied(q, s)]
<1>1. AdTypes
  BY DEF AdInvariant
<1>2. /\ slot' \in [Slots -> SlotRow]
      /\ slot'[t] = opened
      /\ \A r \in Slots \ {t} : slot'[r] = IF Occupied(r, s) THEN [slot[r] EXCEPT !.beside = TRUE] ELSE slot[r]
  BY <1>1 DEF OpenSlot, AdTypes, SlotRow, SlotPoints
<1>3. /\ SlotAt(t, "idle") /\ Rested(s) /\ BelowCap(s)
      /\ UNCHANGED <<clock, due, period, lastAd, count, shownOf, hourly, since, lastShown, cut>>
  BY DEF OpenSlot, pacing, adsShown
<1>4. AdTypes'
  BY <1>1, <1>2, <1>3 DEF AdTypes
<1>5. \A r \in Slots \ {t} : slot'[r].at = slot[r].at /\ slot'[r].session = slot[r].session /\ slot'[r].advertiser = slot[r].advertiser
  BY <1>1, <1>2 DEF AdTypes, SlotRow
<1>6. slot'[t].at = "fetch" /\ slot'[t].session = s /\ slot[t].at = "idle"
  BY <1>1, <1>2, <1>3 DEF AdTypes, SlotRow, SlotAt
<1>12. ASSUME NEW r \in Slots \ {t}, ~slot'[r].beside PROVE ~slot[r].beside /\ ~Occupied(r, s)
  <2>1. slot'[r] = IF Occupied(r, s) THEN [slot[r] EXCEPT !.beside = TRUE] ELSE slot[r]
    BY <1>2
  <2>2. Occupied(r, s) => slot'[r].beside = TRUE
    BY <1>1, <2>1 DEF AdTypes, SlotRow
  <2> QED
    BY <1>12, <2>1, <2>2
<1>13. ASSUME ~slot'[t].beside PROVE \A q \in Slots : ~Occupied(q, s)
  <2>1. slot'[t].beside = \E q \in Slots : Occupied(q, s)
    BY <1>1, <1>2 DEF AdTypes, SlotRow
  <2> QED
    BY <1>13, <2>1
<1>7. \A z : Uncounted(z)' = Uncounted(z) /\ Bidding(z)' = Bidding(z)
  BY <1>5, <1>6 DEF Uncounted, Bidding
<1>8. \A z : z # s => Admitted(z)' = Admitted(z)
  BY <1>5, <1>6 DEF Admitted
<1>9. \A a \in Advertisers : AdvertiserCapped(a)'
  BY <1>3, <1>7 DEF AdInvariant, AdvertiserCapped
<1>10. ASSUME NEW z \in Sessions \ cut PROVE SessionCapped(z)'
  <2>1. CASE z # s
    BY <1>3, <1>7, <1>8, <2>1 DEF AdInvariant, SessionCapped
  <2>2. CASE z = s
    <3>1. Admitted(s)' \in SUBSET Slots /\ Uncounted(s) \in SUBSET Slots /\ Admitted(s)' \intersect Uncounted(s) = {}
      BY <1>5, <1>6 DEF Admitted, Uncounted
    <3>2. Cardinality(Admitted(s)') + Cardinality(Uncounted(s)) <= Cardinality(Slots)
      BY <3>1, DisjointSlotsCount
    <3>3. since[s] <= count[s] + Cardinality(Uncounted(s)) /\ count[s] < MaxPerHour
      BY <1>3, <2>2 DEF AdInvariant, SessionCapped, BelowCap
    <3>4. /\ Cardinality(Admitted(s)') \in Nat /\ Cardinality(Uncounted(s)) \in Nat /\ Cardinality(Slots) \in Nat
          /\ since[s] \in Nat /\ count[s] \in Nat
      BY <1>1, <3>1, SlotsCount DEF AdTypes
    <3> QED
      BY <1>3, <1>7, <2>2, <3>2, <3>3, <3>4 DEF SessionCapped
  <2> QED
    BY <2>1, <2>2
<1>11. ASSUME NEW z \in Sessions \ cut PROVE SessionSpaced(z)'
  <2>0. SessionSpaced(z) /\ Uncounted(z)' = Uncounted(z)
    BY <1>7 DEF AdInvariant
  <2>1. CASE z # s
    <3>1. ASSUME NEW r \in Admitted(z)', ~slot'[r].beside PROVE Alone(r, z)' /\ clock - lastShown[z] >= Interval
      <4>1. r \in Admitted(z) /\ r # t /\ ~slot[r].beside
        BY <1>6, <1>8, <1>12, <2>1, <3>1 DEF Admitted
      <4>2. Alone(r, z)
        BY <2>0, <4>1 DEF SessionSpaced
      <4>3. Alone(r, z)'
        BY <1>5, <1>6, <2>1, <4>2 DEF Alone, Occupied, SlotAt
      <4> QED
        BY <2>0, <4>1, <4>3 DEF SessionSpaced
    <3> QED
      BY <1>3, <2>0, <3>1 DEF SessionSpaced
  <2>2. CASE z = s
    <3>1. ASSUME NEW r \in Admitted(s)', ~slot'[r].beside PROVE Alone(r, s)' /\ clock - lastShown[s] >= Interval
      <4>1. r = t
        BY <1>5, <1>12, <3>1 DEF Admitted, Occupied, SlotAt
      <4>2. \A q \in Slots : ~Occupied(q, s)
        BY <1>13, <3>1, <4>1
      <4>3. Alone(t, s)'
        BY <1>5, <4>2 DEF Alone, Occupied, SlotAt
      <4>4. Uncounted(s) = {}
        BY <4>2 DEF Uncounted, Occupied, SlotAt
      <4>5. lastShown[s] <= lastAd[s] /\ clock - lastAd[s] >= Interval
        BY <1>3, <2>0, <2>2, <4>4 DEF SessionSpaced, Rested
      <4> QED
        BY <1>1, <4>1, <4>3, <4>5 DEF AdTypes
    <3> QED
      BY <1>3, <2>0, <2>2, <3>1 DEF SessionSpaced
  <2> QED
    BY <2>1, <2>2
<1> QED
  BY <1>3, <1>4, <1>9, <1>10, <1>11 DEF AdInvariant

(***************************************************************************)
(* A call that goes on, or returns, leaves alone whoever was alone.        *)
(***************************************************************************)
GoesOn(t, x) == x.at # "idle" => x.session = slot[t].session /\ x.beside = slot[t].beside

LEMMA StaysAlone ==
  ASSUME AdTypes, NEW t \in Slots, NEW x \in SlotRow, slot' = [slot EXCEPT ![t] = x],
         ~SlotAt(t, "idle"), GoesOn(t, x)
  PROVE  \A r \in Slots, s \in Sessions : Alone(r, s) => Alone(r, s)'
<1>1. slot'[t] = x /\ \A r \in Slots \ {t} : slot'[r] = slot[r]
  BY SlotMoves
<1> QED
  BY <1>1 DEF Alone, Occupied, SlotAt, GoesOn

\* What a session's invariant needs to know of a step in which no ad of it is published or paced.
LEMMA SessionStays ==
  ASSUME AdTypes, NEW s \in Sessions, SessionSpaced(s),
         clock' = clock, lastShown'[s] = lastShown[s], lastAd'[s] = lastAd[s],
         Uncounted(s)' = Uncounted(s), Admitted(s)' \in SUBSET Admitted(s),
         \A r \in Admitted(s)' : slot'[r].beside = slot[r].beside /\ (Alone(r, s) => Alone(r, s)')
  PROVE  SessionSpaced(s)'
<1>1. ASSUME NEW r \in Admitted(s)', ~slot'[r].beside PROVE Alone(r, s)' /\ clock' - lastShown'[s] >= Interval
  <2>1. r \in Admitted(s) /\ ~slot[r].beside
    BY <1>1
  <2>2. Alone(r, s) /\ clock - lastShown[s] >= Interval
    BY <2>1 DEF SessionSpaced
  <2> QED
    BY <2>2
<1> QED
  BY <1>1 DEF SessionSpaced

LEMMA SelectAdKeeps ==
  ASSUME AdInvariant, NEW t \in Slots, SelectAd(t)
  PROVE  AdInvariant'
<1>0. /\ AdTypes /\ slot[t] \in SlotRow /\ slot[t].at = "fetch" /\ t \in Slots
      /\ UNCHANGED <<clock, due, period, lastAd, count, shownOf, hourly, since, lastShown, cut>>
  BY SlotRows DEF AdInvariant, SelectAd, SlotAt, pacing, adsShown
<1>1. PICK x \in SlotRow :
        /\ slot' = [slot EXCEPT ![t] = x] /\ GoesOn(t, x)
        /\ x.at = "idle" \/ x.at = "publish"
        /\ x.at = "publish" => x.advertiser \in Advertisers /\ Eligible(x.advertiser)
  <2>1. CASE \E a \in Advertisers : Eligible(a)
    <3>1. PICK a \in Advertisers : Eligible(a) /\ slot' = [slot EXCEPT ![t].at = "publish", ![t].advertiser = a]
      BY <2>1 DEF SelectAd
    <3> DEFINE x == [slot[t] EXCEPT !.at = "publish", !.advertiser = a]
    <3>2. x \in SlotRow /\ slot' = [slot EXCEPT ![t] = x]
      BY <1>0, <3>1 DEF SlotRow, SlotPoints, AdTypes
    <3>3. x.at = "publish" /\ x.advertiser = a /\ x.session = slot[t].session /\ x.beside = slot[t].beside
      BY <1>0 DEF SlotRow
    <3> QED
      BY <3>1, <3>2, <3>3 DEF GoesOn
  <2>2. CASE ~ \E a \in Advertisers : Eligible(a)
    BY <2>2, NoCallIsSlotRow DEF SelectAd, SlotRests, NoCall, GoesOn
  <2> QED
    BY <2>1, <2>2
<1>2. /\ slot' \in [Slots -> SlotRow] /\ slot'[t] = x /\ \A r \in Slots \ {t} : slot'[r] = slot[r]
      /\ \A s : Admitted(s)' = Joins(Admitted(s), t, x.session = s /\ x.at \in {"fetch", "publish"})
      /\ \A s : Uncounted(s)' = Joins(Uncounted(s), t, x.session = s /\ x.at \in {"track", "pace"})
      /\ \A a : Bidding(a)' = Joins(Bidding(a), t, x.advertiser = a /\ x.at \in {"publish", "track"})
  BY <1>0, <1>1, SlotMoves
<1>3. AdTypes'
  BY <1>0, <1>2 DEF AdTypes
<1>4. ASSUME NEW s \in Sessions \ cut PROVE SessionCapped(s)' /\ SessionSpaced(s)'
  <2>0. SessionCapped(s) /\ SessionSpaced(s)
    BY DEF AdInvariant
  <2>1. Uncounted(s)' = Uncounted(s)
    BY <1>0, <1>1, <1>2 DEF Uncounted
  <2>2. Admitted(s)' \in SUBSET Admitted(s) /\ Admitted(s) \in SUBSET Slots
    BY <1>0, <1>1, <1>2 DEF Admitted, GoesOn
  <2>3. Cardinality(Admitted(s)') <= Cardinality(Admitted(s)) /\ Cardinality(Admitted(s)') \in Nat /\ Cardinality(Admitted(s)) \in Nat
    BY <2>2, SlotsCount, FS_Subset, FS_CardinalityType
  <2>4. Cardinality(Slots) \in Nat /\ since[s] \in Nat
    BY <1>0, SlotsCount DEF AdTypes
  <2>5. SessionCapped(s)'
    BY <1>0, <2>0, <2>1, <2>3, <2>4 DEF SessionCapped
  <2>6. \A r \in Admitted(s)' : slot'[r].beside = slot[r].beside /\ (Alone(r, s) => Alone(r, s)')
    <3>1. \A r \in Slots : Alone(r, s) => Alone(r, s)'
      BY <1>0, <1>1, StaysAlone DEF SlotAt
    <3>2. \A r \in Admitted(s)' : slot'[r].beside = slot[r].beside
      BY <1>1, <1>2, <2>2 DEF Admitted, GoesOn
    <3> QED
      BY <2>2, <3>1, <3>2
  <2> QED
    BY <1>0, <2>0, <2>1, <2>2, <2>5, <2>6, SessionStays
<1>5. ASSUME NEW a \in Advertisers PROVE AdvertiserCapped(a)'
  <2>0. AdvertiserCapped(a) /\ Bidding(a) \in SUBSET Slots /\ t \notin Bidding(a)
    BY <1>0 DEF AdInvariant, Bidding
  <2>1. CASE x.at = "publish" /\ x.advertiser = a
    <3>1. Bidding(a)' \in SUBSET Slots /\ shownOf[a] < FrequencyCap
      BY <1>1, <2>1 DEF Bidding, Eligible
    <3>2. Cardinality(Bidding(a)') <= Cardinality(Slots) /\ Cardinality(Bidding(a)') \in Nat /\ Cardinality(Slots) \in Nat
      BY <3>1, SlotsCount
    <3> QED
      BY <1>0, <3>1, <3>2 DEF AdvertiserCapped, AdTypes
  <2>2. CASE ~(x.at = "publish" /\ x.advertiser = a)
    <3>1. Bidding(a)' = Bidding(a)
      BY <1>1, <1>2, <2>0, <2>2 DEF Joins
    <3> QED
      BY <1>0, <2>0, <3>1 DEF AdvertiserCapped
  <2> QED
    BY <2>1, <2>2
<1> QED
  BY <1>0, <1>3, <1>4, <1>5 DEF AdInvariant

\* A call returns; when it has published an ad, its session is no longer counted on.
LEMMA AdReturnKeeps ==
  ASSUME AdInvariant, NEW t \in Slots, ~SlotAt(t, "idle"), SlotRests(t),
         UNCHANGED <<clock, due, period, lastAd, count, shownOf, hourly, since, lastShown>>,
         cut' = IF slot[t].at \in {"track", "pace"} THEN cut \union {slot[t].session} ELSE cut
  PROVE  AdInvariant'
<1>0. AdTypes /\ slot[t] \in SlotRow /\ NoCall \in SlotRow /\ NoCall.at = "idle" /\ slot' = [slot EXCEPT ![t] = NoCall]
  BY SlotRows, NoCallIsSlotRow DEF AdInvariant, SlotRests, NoCall
<1>2. /\ slot' \in [Slots -> SlotRow] /\ slot'[t] = NoCall /\ \A r \in Slots \ {t} : slot'[r] = slot[r]
      /\ \A s : Admitted(s)' = Admitted(s) \ {t}
      /\ \A s : Uncounted(s)' = Uncounted(s) \ {t}
      /\ \A a : Bidding(a)' = Bidding(a) \ {t}
  BY <1>0, SlotMoves DEF Joins
<1>3. AdTypes'
  BY <1>0, <1>2 DEF AdTypes, SlotRow
<1>4. ASSUME NEW s \in Sessions \ cut' PROVE SessionCapped(s)' /\ SessionSpaced(s)'
  <2>0. SessionCapped(s) /\ SessionSpaced(s)
    BY DEF AdInvariant
  <2>1. Uncounted(s)' = Uncounted(s)
    <3>1. t \notin Uncounted(s)
      BY <1>4 DEF Uncounted
    <3> QED
      BY <1>2, <3>1
  <2>2. Admitted(s)' \in SUBSET Admitted(s) /\ Admitted(s) \in SUBSET Slots /\ t \notin Admitted(s)'
    BY <1>2 DEF Admitted
  <2>3. Cardinality(Admitted(s)') <= Cardinality(Admitted(s)) /\ Cardinality(Admitted(s)') \in Nat /\ Cardinality(Admitted(s)) \in Nat
    BY <2>2, SlotsCount, FS_Subset, FS_CardinalityType
  <2>4. Cardinality(Slots) \in Nat /\ since[s] \in Nat
    BY <1>0, SlotsCount DEF AdTypes
  <2>5. SessionCapped(s)'
    BY <2>0, <2>1, <2>3, <2>4 DEF SessionCapped
  <2>6. \A r \in Admitted(s)' : slot'[r].beside = slot[r].beside /\ (Alone(r, s) => Alone(r, s)')
    <3>1. GoesOn(t, NoCall)
      BY <1>0 DEF GoesOn
    <3>2. \A r \in Slots : Alone(r, s) => Alone(r, s)'
      BY <1>0, <3>1, StaysAlone
    <3>3. \A r \in Admitted(s)' : slot'[r] = slot[r]
      BY <1>2, <2>2
    <3> QED
      BY <2>2, <3>2, <3>3
  <2> QED
    BY <1>0, <2>0, <2>1, <2>2, <2>5, <2>6, SessionStays
<1>5. ASSUME NEW a \in Advertisers PROVE AdvertiserCapped(a)'
  <2>0. AdvertiserCapped(a) /\ Bidding(a) \in SUBSET Slots
    BY DEF AdInvariant, Bidding
  <2>1. Cardinality(Bidding(a)') <= Cardinality(Bidding(a)) /\ Cardinality(Bidding(a)') \in Nat /\ Cardinality(Bidding(a)) \in Nat
    BY <1>2, <2>0, SlotsCount, SlotLeaves
  <2>2. Cardinality(Slots) \in Nat /\ shownOf[a] \in Nat
    BY <1>0, SlotsCount DEF AdTypes
  <2> QED
    BY <2>0, <2>1, <2>2 DEF AdvertiserCapped
<1>6. cut \subseteq cut'
  OBVIOUS
<1> QED
  BY <1>3, <1>4, <1>5 DEF AdInvariant

LEMMA PublishAdFailsKeeps ==
  ASSUME AdInvariant, NEW t \in Slots, PublishAdFails(t)
  PROVE  AdInvariant'
  BY AdReturnKeeps DEF PublishAdFails, SlotAt, pacing, adsShown

LEMMA InterruptAdKeeps ==
  ASSUME AdInvariant, NEW t \in Slots, InterruptAd(t)
  PROVE  AdInvariant'
  BY AdReturnKeeps DEF InterruptAd, pacing, adsShown

(***************************************************************************)
(* An ad is published: its call was admitted and is now uncounted.         *)
(***************************************************************************)
LEMMA PublishAdKeeps ==
  ASSUME AdInvariant, NEW t \in Slots, PublishAd(t)
  PROVE  AdInvariant'
<1> DEFINE x == [slot[t] EXCEPT !.at = "track"]
           u == slot[t].session
<1>a. AdTypes /\ slot[t] \in SlotRow /\ slot[t].session \in Sessions /\ x \in SlotRow
  BY SlotRows DEF AdInvariant, SlotPoints
<1>b. /\ slot[t].at = "publish" /\ slot' = [slot EXCEPT ![t] = x]
      /\ since' = [since EXCEPT ![u] = @ + 1] /\ hourly' = [hourly EXCEPT ![u] = @ + 1]
      /\ lastShown' = [lastShown EXCEPT ![u] = clock]
      /\ UNCHANGED <<clock, due, period, lastAd, count, shownOf, cut>>
  BY <1>a DEF PublishAd, SlotAt, SlotGoes, pacing, adsShown, AdTypes
<1>c. GoesOn(t, x)
  BY <1>a DEF GoesOn, SlotRow
<1>0. /\ AdTypes /\ slot[t] \in SlotRow /\ slot[t].at = "publish" /\ u \in Sessions /\ x \in SlotRow
      /\ slot' = [slot EXCEPT ![t] = x] /\ GoesOn(t, x)
      /\ since' = [since EXCEPT ![u] = @ + 1] /\ hourly' = [hourly EXCEPT ![u] = @ + 1]
      /\ lastShown' = [lastShown EXCEPT ![u] = clock]
      /\ UNCHANGED <<clock, due, period, lastAd, count, shownOf, cut>>
  BY <1>a, <1>b, <1>c
<1>1. x.at = "track" /\ x.session = u /\ x.advertiser = slot[t].advertiser
  BY <1>0 DEF SlotRow
<1>2. /\ slot' \in [Slots -> SlotRow] /\ slot'[t] = x /\ \A r \in Slots \ {t} : slot'[r] = slot[r]
      /\ \A s : Admitted(s)' = Joins(Admitted(s), t, x.session = s /\ x.at \in {"fetch", "publish"})
      /\ \A s : Uncounted(s)' = Joins(Uncounted(s), t, x.session = s /\ x.at \in {"track", "pace"})
      /\ \A a : Bidding(a)' = Joins(Bidding(a), t, x.advertiser = a /\ x.at \in {"publish", "track"})
  BY <1>0, SlotMoves
<1>3. AdTypes'
  BY <1>0, <1>2 DEF AdTypes
<1>4. ASSUME NEW s \in Sessions \ cut PROVE SessionCapped(s)' /\ SessionSpaced(s)'
  <2>0. SessionCapped(s) /\ SessionSpaced(s) /\ Admitted(s) \in SUBSET Slots /\ Uncounted(s) \in SUBSET Slots
    BY DEF AdInvariant, Admitted, Uncounted
  <2>1. CASE s # u
    <3>1. Admitted(s)' = Admitted(s) /\ Uncounted(s)' = Uncounted(s)
      BY <1>0, <1>1, <1>2, <2>1 DEF Admitted, Uncounted
    <3>2. since'[s] = since[s] /\ lastShown'[s] = lastShown[s]
      BY <1>0, <2>1 DEF AdTypes
    <3>3. SessionCapped(s)'
      BY <1>0, <2>0, <3>1, <3>2 DEF SessionCapped
    <3>4. \A r \in Admitted(s)' : slot'[r].beside = slot[r].beside /\ (Alone(r, s) => Alone(r, s)')
      <4>1. \A r \in Slots : Alone(r, s) => Alone(r, s)'
        BY <1>0, StaysAlone DEF SlotAt
      <4>2. t \notin Admitted(s)
        BY <2>1 DEF Admitted
      <4> QED
        BY <1>2, <2>0, <3>1, <4>1, <4>2
    <3> QED
      BY <1>0, <2>0, <3>1, <3>2, <3>3, <3>4, SessionStays
  <2>2. CASE s = u
    <3>1. Admitted(s)' = Admitted(s) \ {t} /\ Uncounted(s)' = Uncounted(s) \union {t} /\ t \in Admitted(s) /\ t \notin Uncounted(s)
      BY <1>0, <1>1, <1>2, <2>2 DEF Joins, Admitted, Uncounted
    <3>2. since'[s] = since[s] + 1 /\ lastShown'[s] = clock /\ since[s] \in Nat /\ count[s] \in Nat /\ clock \in Nat
      BY <1>0, <2>2 DEF AdTypes
    <3>3. /\ Cardinality(Admitted(s)') = Cardinality(Admitted(s)) - 1 /\ Cardinality(Uncounted(s)') = Cardinality(Uncounted(s)) + 1
          /\ Cardinality(Admitted(s)) \in Nat /\ Cardinality(Uncounted(s)) \in Nat /\ Cardinality(Slots) \in Nat
      BY <2>0, <3>1, SlotEnters, SlotLeaves, SlotsCount
    <3>4. SessionCapped(s)'
      BY <1>0, <2>0, <3>2, <3>3 DEF SessionCapped
    <3>5. \A r \in Admitted(s)' : slot'[r].beside
      <4> SUFFICES ASSUME NEW r \in Admitted(s)', ~slot'[r].beside PROVE FALSE
        OBVIOUS
      <4>1. r \in Admitted(s) /\ r # t /\ slot'[r] = slot[r]
        BY <1>2, <2>0, <3>1
      <4>2. Alone(r, s)
        BY <2>0, <4>1 DEF SessionSpaced
      <4> QED
        BY <1>0, <2>2, <4>1, <4>2 DEF Alone, Occupied, SlotAt
    <3>6. SessionSpaced(s)'
      BY <1>0, <3>1, <3>2, <3>5 DEF SessionSpaced
    <3> QED
      BY <3>4, <3>6
  <2> QED
    BY <2>1, <2>2
<1>5. ASSUME NEW a \in Advertisers PROVE AdvertiserCapped(a)'
  <2>1. Bidding(a)' = Bidding(a)
    BY <1>0, <1>1, <1>2 DEF Bidding
  <2> QED
    BY <1>0, <2>1 DEF AdInvariant, AdvertiserCapped
<1> QED
  BY <1>0, <1>3, <1>4, <1>5 DEF AdInvariant

(***************************************************************************)
(* The impression is tracked: the advertiser counts one ad more and has    *)
(* one call less that bids for it.                                         *)
(***************************************************************************)
LEMMA TrackAdKeeps ==
  ASSUME AdInvariant, NEW t \in Slots, TrackAd(t)
  PROVE  AdInvariant'
<1> DEFINE x == [slot[t] EXCEPT !.at = "pace"]
           b == slot[t].advertiser
<1>a. AdTypes /\ slot[t] \in SlotRow /\ slot[t].session \in Sessions /\ x \in SlotRow
  BY SlotRows DEF AdInvariant, SlotPoints
<1>b. /\ slot[t].at = "track" /\ slot' = [slot EXCEPT ![t] = x]
      /\ shownOf' = [shownOf EXCEPT ![b] = @ + 1]
      /\ UNCHANGED <<clock, due, period, lastAd, count, hourly, since, lastShown, cut>>
  BY <1>a DEF TrackAd, SlotAt, SlotGoes, pacing, adsShown, AdTypes
<1>c. GoesOn(t, x)
  BY <1>a DEF GoesOn, SlotRow
<1>0. /\ AdTypes /\ slot[t] \in SlotRow /\ slot[t].at = "track" /\ x \in SlotRow
      /\ slot' = [slot EXCEPT ![t] = x] /\ GoesOn(t, x)
      /\ shownOf' = [shownOf EXCEPT ![b] = @ + 1]
      /\ UNCHANGED <<clock, due, period, lastAd, count, hourly, since, lastShown, cut>>
  BY <1>a, <1>b, <1>c
<1>1. x.at = "pace" /\ x.session = slot[t].session /\ x.advertiser = b
  BY <1>0 DEF SlotRow
<1>2. /\ slot' \in [Slots -> SlotRow] /\ slot'[t] = x /\ \A r \in Slots \ {t} : slot'[r] = slot[r]
      /\ \A s : Admitted(s)' = Joins(Admitted(s), t, x.session = s /\ x.at \in {"fetch", "publish"})
      /\ \A s : Uncounted(s)' = Joins(Uncounted(s), t, x.session = s /\ x.at \in {"track", "pace"})
      /\ \A a : Bidding(a)' = Joins(Bidding(a), t, x.advertiser = a /\ x.at \in {"publish", "track"})
  BY <1>0, SlotMoves
<1>3. AdTypes'
  <2>1. shownOf' \in [Advertisers -> Nat]
    <3>1. CASE b \in Advertisers
      BY <1>0, <3>1 DEF AdTypes
    <3>2. CASE b \notin Advertisers
      BY <1>0, <3>2 DEF AdTypes
    <3> QED
      BY <3>1, <3>2
  <2> QED
    BY <1>0, <1>2, <2>1 DEF AdTypes
<1>4. ASSUME NEW s \in Sessions \ cut PROVE SessionCapped(s)' /\ SessionSpaced(s)'
  <2>0. SessionCapped(s) /\ SessionSpaced(s)
    BY DEF AdInvariant
  <2>1. Admitted(s)' = Admitted(s) /\ Uncounted(s)' = Uncounted(s) /\ Admitted(s) \in SUBSET Slots /\ t \notin Admitted(s)
    BY <1>0, <1>1, <1>2 DEF Admitted, Uncounted
  <2>2. SessionCapped(s)'
    BY <1>0, <2>0, <2>1 DEF SessionCapped
  <2>3. \A r \in Slots : Alone(r, s) => Alone(r, s)'
    BY <1>0, StaysAlone DEF SlotAt
  <2>4. \A r \in Admitted(s)' : slot'[r].beside = slot[r].beside /\ (Alone(r, s) => Alone(r, s)')
    BY <1>2, <2>1, <2>3
  <2> QED
    BY <1>0, <2>0, <2>1, <2>2, <2>4, SessionStays
<1>5. ASSUME NEW a \in Advertisers PROVE AdvertiserCapped(a)'
  <2>0. AdvertiserCapped(a) /\ Bidding(a) \in SUBSET Slots
    BY DEF AdInvariant, Bidding
  <2>1. CASE a # b
    <3>1. Bidding(a)' = Bidding(a) /\ shownOf'[a] = shownOf[a]
      BY <1>0, <1>1, <1>2, <2>1 DEF Bidding, AdTypes
    <3> QED
      BY <2>0, <3>1 DEF AdvertiserCapped
  <2>2. CASE a = b
    <3>1. Bidding(a)' = Bidding(a) \ {t} /\ t \in Bidding(a) /\ shownOf'[a] = shownOf[a] + 1 /\ shownOf[a] \in Nat
      BY <1>0, <1>1, <1>2, <2>2 DEF Bidding, Joins, AdTypes
    <3>2. Cardinality(Bidding(a)') = Cardinality(Bidding(a)) - 1 /\ Cardinality(Bidding(a)) \in Nat /\ Cardinality(Slots) \in Nat
      BY <2>0, <3>1, SlotLeaves, SlotsCount
    <3> QED
      BY <2>0, <3>1, <3>2 DEF AdvertiserCapped
  <2> QED
    BY <2>1, <2>2
<1> QED
  BY <1>0, <1>3, <1>4, <1>5 DEF AdInvariant

(***************************************************************************)
(* The pacing is written: the call is counted, at the time of the writing. *)
(***************************************************************************)
LEMMA PaceAdKeeps ==
  ASSUME AdInvariant, NEW t \in Slots, PaceAd(t)
  PROVE  AdInvariant'
<1> DEFINE u == slot[t].session
<1>0. /\ AdTypes /\ slot[t] \in SlotRow /\ slot[t].at = "pace" /\ u \in Sessions
      /\ NoCall \in SlotRow /\ NoCall.at = "idle" /\ slot' = [slot EXCEPT ![t] = NoCall]
      /\ lastAd' = [lastAd EXCEPT ![u] = clock] /\ count' = [count EXCEPT ![u] = @ + 1]
      /\ UNCHANGED <<clock, due, period, shownOf, hourly, since, lastShown, cut>>
  BY SlotRows, NoCallIsSlotRow DEF AdInvariant, PaceAd, SlotAt, SlotRests, StampTime, adsShown, NoCall
<1>2. /\ slot' \in [Slots -> SlotRow] /\ slot'[t] = NoCall /\ \A r \in Slots \ {t} : slot'[r] = slot[r]
      /\ \A s : Admitted(s)' = Admitted(s) \ {t}
      /\ \A s : Uncounted(s)' = Uncounted(s) \ {t}
      /\ \A a : Bidding(a)' = Bidding(a) \ {t}
  BY <1>0, SlotMoves DEF Joins
<1>3. AdTypes'
  BY <1>0, <1>2 DEF AdTypes
<1>4. ASSUME NEW s \in Sessions \ cut PROVE SessionCapped(s)' /\ SessionSpaced(s)'
  <2>0. SessionCapped(s) /\ SessionSpaced(s) /\ Uncounted(s) \in SUBSET Slots
    BY DEF AdInvariant, Uncounted
  <2>1. Admitted(s)' = Admitted(s) /\ t \notin Admitted(s) /\ Admitted(s) \in SUBSET Slots
    BY <1>0, <1>2 DEF Admitted
  <2>2. \A r \in Admitted(s)' : slot'[r].beside = slot[r].beside /\ (Alone(r, s) => Alone(r, s)')
    <3>1. GoesOn(t, NoCall)
      BY <1>0 DEF GoesOn
    <3>2. \A r \in Slots : Alone(r, s) => Alone(r, s)'
      BY <1>0, <3>1, StaysAlone DEF SlotAt
    <3> QED
      BY <1>2, <2>1, <3>2
  <2>3. CASE s # u
    <3>1. Uncounted(s)' = Uncounted(s) /\ lastAd'[s] = lastAd[s] /\ count'[s] = count[s]
      BY <1>0, <1>2, <2>3 DEF Uncounted, AdTypes
    <3>2. SessionCapped(s)'
      BY <1>0, <2>0, <2>1, <3>1 DEF SessionCapped
    <3> QED
      BY <1>0, <2>0, <2>1, <2>2, <3>1, <3>2, SessionStays
  <2>4. CASE s = u
    <3>1. Uncounted(s)' = Uncounted(s) \ {t} /\ t \in Uncounted(s) /\ lastAd'[s] = clock /\ count'[s] = count[s] + 1
      BY <1>0, <1>2, <2>4 DEF Uncounted, AdTypes
    <3>2. /\ Cardinality(Uncounted(s)') = Cardinality(Uncounted(s)) - 1 /\ Cardinality(Uncounted(s)) \in Nat
          /\ count[s] \in Nat /\ since[s] \in Nat
      BY <1>0, <2>0, <3>1, SlotLeaves, SlotsCount DEF AdTypes
    <3>3. SessionCapped(s)'
      BY <1>0, <2>0, <2>1, <3>1, <3>2 DEF SessionCapped
    <3>4. ASSUME NEW r \in Admitted(s)', ~slot'[r].beside PROVE Alone(r, s)' /\ clock - lastShown[s] >= Interval
      BY <2>0, <2>1, <2>2, <3>4 DEF SessionSpaced
    <3>5. SessionSpaced(s)'
      BY <1>0, <2>0, <3>1, <3>4 DEF SessionSpaced
    <3> QED
      BY <3>3, <3>5
  <2> QED
    BY <2>3, <2>4
<1>5. ASSUME NEW a \in Advertisers PROVE AdvertiserCapped(a)'
  <2>1. Bidding(a)' = Bidding(a)
    BY <1>0, <1>2 DEF Bidding
  <2> QED
    BY <1>0, <2>1 DEF AdInvariant, AdvertiserCapped
<1> QED
  BY <1>0, <1>3, <1>4, <1>5 DEF AdInvariant

(***************************************************************************)
(* Time passes, and the timer starts the counters again: what is in flight *)
(* will still be counted.                                                  *)
(***************************************************************************)
LEMMA AdTickKeeps ==
  ASSUME AdInvariant, AdTick
  PROVE  AdInvariant'
<1>0. /\ AdTypes /\ clock' = clock + 1
      /\ UNCHANGED <<period, lastAd, slot, lastShown, cut>>
      /\ hourly' = [s \in Sessions |-> 0] \/ hourly' = hourly
  BY DEF AdInvariant, AdTick
<1>1. \/ UNCHANGED <<count, shownOf, since, due>>
      \/ /\ count' = [s \in Sessions |-> 0] /\ shownOf' = [a \in Advertisers |-> 0]
         /\ since' = [s \in Sessions |-> 0] /\ due' = due + period
  BY DEF AdTick
<1>2. \A s : Admitted(s)' = Admitted(s) /\ Uncounted(s)' = Uncounted(s) /\ Bidding(s)' = Bidding(s)
  BY <1>0 DEF Admitted, Uncounted, Bidding
<1>3. AdTypes'
  BY <1>0, <1>1 DEF AdTypes
<1>4. ASSUME NEW s \in Sessions \ cut PROVE SessionCapped(s)' /\ SessionSpaced(s)'
  <2>0. SessionCapped(s) /\ SessionSpaced(s) /\ Admitted(s)' = Admitted(s) /\ Uncounted(s)' = Uncounted(s)
    BY <1>2 DEF AdInvariant
  <2>1. /\ Cardinality(Admitted(s)) \in Nat /\ Cardinality(Admitted(s)) <= Cardinality(Slots)
        /\ Cardinality(Uncounted(s)) \in Nat /\ Cardinality(Slots) \in Nat
    BY SlotsCount DEF Admitted, Uncounted
  <2>2. SessionCapped(s)'
    BY <1>1, <2>0, <2>1 DEF SessionCapped
  <2>3. \A r : Alone(r, s)' <=> Alone(r, s)
    BY <1>0 DEF Alone, Occupied, SlotAt
  <2>4. lastShown[s] \in Int /\ clock \in Nat
    BY <1>0 DEF AdTypes
  <2>5. SessionSpaced(s)'
    BY <1>0, <2>0, <2>3, <2>4 DEF SessionSpaced
  <2> QED
    BY <2>2, <2>5
<1>5. ASSUME NEW a \in Advertisers PROVE AdvertiserCapped(a)'
  <2>1. /\ Cardinality(Bidding(a)) \in Nat /\ Cardinality(Bidding(a)) <= Cardinality(Slots) /\ Cardinality(Slots) \in Nat
        /\ Bidding(a)' = Bidding(a)
    BY <1>2, SlotsCount DEF Bidding
  <2> QED
    BY <1>1, <2>1 DEF AdInvariant, AdvertiserCapped
<1> QED
  BY <1>0, <1>3, <1>4, <1>5 DEF AdInvariant

LEMMA AdStep == AdInvariant /\ [AdNext]_adVars => AdInvariant'
<1> SUFFICES ASSUME AdInvariant, [AdNext]_adVars PROVE AdInvariant'
  OBVIOUS
<1>1. CASE AdTick
  BY <1>1, AdTickKeeps
<1>2. ASSUME NEW t \in Slots, NEW s \in Sessions, OpenSlot(t, s) PROVE AdInvariant'
  BY <1>2, OpenSlotKeeps
<1>3. ASSUME NEW t \in Slots,
             SelectAd(t) \/ PublishAd(t) \/ PublishAdFails(t) \/ TrackAd(t) \/ PaceAd(t) \/ InterruptAd(t)
      PROVE  AdInvariant'
  BY <1>3, SelectAdKeeps, PublishAdKeeps, PublishAdFailsKeeps, TrackAdKeeps, PaceAdKeeps, InterruptAdKeeps
<1>4. CASE UNCHANGED adVars
  <2>1. UNCHANGED <<clock, due, period, lastAd, count, shownOf, slot, hourly, since, lastShown, cut>>
    BY <1>4 DEF adVars
  <2>2. \A s : Admitted(s)' = Admitted(s) /\ Uncounted(s)' = Uncounted(s) /\ Bidding(s)' = Bidding(s)
    BY <2>1 DEF Admitted, Uncounted, Bidding
  <2>3. \A r, s : Alone(r, s)' <=> Alone(r, s)
    BY <2>1 DEF Alone, Occupied, SlotAt
  <2> QED
    BY <2>1, <2>2, <2>3 DEF AdInvariant, AdTypes, SessionCapped, SessionSpaced, AdvertiserCapped
<1> QED
  BY <1>1, <1>2, <1>3, <1>4 DEF AdNext

(***************************************************************************)
(* The gate's counters and its pacing are what the invariant says they     *)
(* are, for any number of sessions, advertisers and calls in flight.       *)
(***************************************************************************)
THEOREM AdGateSound == AdSpec => []AdInvariant
<1> QED
  BY AdInitially, AdStep, PTL DEF AdSpec

(***************************************************************************)
(* A session and an advertiser show at most as many ads between two resets *)
(* as their caps allow, and one for each call beside the last.             *)
(***************************************************************************)
THEOREM CapsAlwaysHold == AdSpec => []CapsHold
<1>1. AdInvariant => CapsHold
  <2> SUFFICES ASSUME AdInvariant PROVE CapsHold
    OBVIOUS
  <2>1. Cardinality(Slots) \in Nat
    BY SlotsCount
  <2>2. ASSUME NEW s \in Sessions \ cut PROVE since[s] <= MaxPerHour + Cardinality(Slots) - 1
    <3>1. Cardinality(Admitted(s)) \in Nat /\ since[s] \in Nat /\ SessionCapped(s)
      BY SlotsCount DEF Admitted, AdInvariant, AdTypes
    <3> QED
      BY <2>1, <3>1 DEF SessionCapped
  <2>3. ASSUME NEW a \in Advertisers PROVE shownOf[a] <= FrequencyCap + Cardinality(Slots) - 1
    <3>1. Cardinality(Bidding(a)) \in Nat /\ shownOf[a] \in Nat /\ AdvertiserCapped(a)
      BY SlotsCount DEF Bidding, AdInvariant, AdTypes
    <3> QED
      BY <2>1, <3>1 DEF AdvertiserCapped
  <2> QED
    BY <2>2, <2>3 DEF CapsHold
<1> QED
  BY <1>1, AdGateSound, PTL

(***************************************************************************)
(* An ad that is published by a call that ran alone in its session comes   *)
(* at least the interval after the last one.                               *)
(***************************************************************************)
THEOREM AdsAreSpaced == AdSpec => Spaced
<1>1. ASSUME AdInvariant, NEW t \in Slots, ~slot[t].beside, SlotAt(t, "publish"), slot[t].session \notin cut
      PROVE  clock - lastShown[slot[t].session] >= Interval
  <2>1. slot[t].session \in Sessions \ cut /\ t \in Admitted(slot[t].session)
    BY <1>1 DEF AdInvariant, AdTypes, SlotRow, SlotAt, Admitted
  <2> QED
    BY <1>1, <2>1 DEF AdInvariant, SessionSpaced
<1>2. AdInvariant => \A t \in Slots :
        LET s == slot[t].session IN
        SlotAt(t, "publish") /\ slot'[t].at = "track" /\ ~slot[t].beside /\ s \notin cut
          => clock - lastShown[s] >= Interval
  BY <1>1
<1> QED
  BY <1>2, AdGateSound, PTL DEF Spaced

-----------------------------------------------------------------------------
(***************************************************************************)
(* The token gateway.                                                      *)
(***************************************************************************)

USE GatewayAssumption DEF gatewayVars

(***************************************************************************)
(* What a pending statement and a request in flight refer to is there, and *)
(* a user without an account has neither deposits nor usage.               *)
(***************************************************************************)
AccountsThere ==
  /\ \A q \in Requests : chat[q] # Nothing => HasAccount(chat[q])
  /\ writing # Nothing => HasAccount(writing.user)
  /\ \A u \in Accounts : ~HasAccount(u) => DepositsOf(u) = {} /\ usage[u] = 0

GatewayInvariant == GatewayTypeOK /\ AccountsThere

LEMMA RowsAreNotNothing ==
  /\ \A u \in Accounts, usd \in Int : [user |-> u, usd |-> usd] # Nothing
  /\ \A i \in Int : i # Nothing
  /\ \A u \in Accounts : u # Nothing
  OBVIOUS

LEMMA GatewayInitially == GatewayInit => GatewayInvariant
  BY DEF GatewayInit, GatewayInvariant, GatewayTypeOK, AccountsThere, HasAccount, DepositsOf

LEMMA GatewayStep == GatewayInvariant /\ [GatewayNext]_gatewayVars => GatewayInvariant'
<1> SUFFICES ASSUME GatewayInvariant, [GatewayNext]_gatewayVars PROVE GatewayInvariant'
  OBVIOUS
<1> USE DEF GatewayInvariant, HasAccount
<1>1. ASSUME NEW u \in Accounts, CreateAccount(u) PROVE GatewayInvariant'
  <2>1. ExistingOrNew(u) \in Int
    BY DEF ExistingOrNew, GatewayTypeOK
  <2>2. GatewayTypeOK' /\ \A v \in Accounts : HasAccount(v) => HasAccount(v)'
    BY <1>1, <2>1, RowsAreNotNothing DEF CreateAccount, GatewayTypeOK
  <2>3. \A v \in Accounts : DepositsOf(v)' = DepositsOf(v)
    BY <1>1 DEF CreateAccount, DepositsOf
  <2> QED
    BY <1>1, <2>2, <2>3 DEF CreateAccount, AccountsThere, GatewayTypeOK
<1>2. ASSUME NEW u \in Accounts, NEW r \in Refs, NEW usd \in Deposits, Deposit(u, r, usd) PROVE GatewayInvariant'
  <2>1. CASE HasAccount(u) /\ ~Known(r)
    <3> DEFINE d == [user |-> u, usd |-> usd]
    <3>1. /\ deposit' = [deposit EXCEPT ![r] = d] /\ writing' = d /\ account' = account
          /\ UNCHANGED <<usage, chat, crashes>>
      BY <1>2, <2>1 DEF Deposit
    <3>2. GatewayTypeOK'
      <4>1. d \in [user : Accounts, usd : Int]
        OBVIOUS
      <4> QED
        BY <3>1, <4>1 DEF GatewayTypeOK
    <3>3. \A v \in Accounts : ~HasAccount(v) => DepositsOf(v)' = DepositsOf(v)
      BY <2>1, <3>1 DEF DepositsOf, Known, GatewayTypeOK
    <3> QED
      BY <2>1, <3>1, <3>2, <3>3 DEF AccountsThere
  <2>2. CASE ~(HasAccount(u) /\ ~Known(r))
    BY <1>2, <2>2 DEF Deposit, GatewayTypeOK, AccountsThere, DepositsOf
  <2> QED
    BY <2>1, <2>2
<1>3. CASE UpdateBalance
  <2>1. /\ writing \in [user : Accounts, usd : Int] /\ account[writing.user] \in Int
        /\ account' = [account EXCEPT ![writing.user] = @ + writing.usd]
        /\ writing' = Nothing /\ UNCHANGED <<deposit, usage, chat, crashes>>
    BY <1>3 DEF UpdateBalance, AccountsThere, GatewayTypeOK
  <2>2. GatewayTypeOK' /\ \A v \in Accounts : HasAccount(v)' <=> HasAccount(v)
    BY <2>1, RowsAreNotNothing DEF GatewayTypeOK
  <2>3. \A v \in Accounts : DepositsOf(v)' = DepositsOf(v)
    BY <2>1 DEF DepositsOf
  <2> QED
    BY <2>1, <2>2, <2>3 DEF AccountsThere, GatewayTypeOK
<1>4. ASSUME NEW u \in Accounts, NEW q \in Requests, Admit(q, u) PROVE GatewayInvariant'
  BY <1>4 DEF Admit, Solvent, GatewayTypeOK, AccountsThere, DepositsOf
<1>5. ASSUME NEW q \in Requests, NEW c \in Costs, RecordUsage(q, c) PROVE GatewayInvariant'
  <2> DEFINE u == chat[q]
  <2>1. /\ u \in Accounts /\ HasAccount(u) /\ c \in Nat
        /\ usage' = [usage EXCEPT ![u] = @ + c]
        /\ writing' = [user |-> u, usd |-> -c]
        /\ chat' = [chat EXCEPT ![q] = Nothing]
        /\ UNCHANGED <<account, deposit, crashes>>
    BY <1>5 DEF RecordUsage, AccountsThere, GatewayTypeOK, Charge
  <2>2. GatewayTypeOK'
    BY <2>1 DEF GatewayTypeOK
  <2>3. \A v \in Accounts : DepositsOf(v)' = DepositsOf(v)
    BY <2>1 DEF DepositsOf
  <2> QED
    BY <2>1, <2>2, <2>3 DEF AccountsThere, GatewayTypeOK
<1>6. ASSUME NEW q \in Requests, NoUsage(q) PROVE GatewayInvariant'
  BY <1>6 DEF NoUsage, GatewayTypeOK, AccountsThere, DepositsOf
<1>7. CASE Crash
  BY <1>7 DEF Crash, GatewayTypeOK, AccountsThere, DepositsOf
<1>8. CASE UNCHANGED gatewayVars
  BY <1>8 DEF GatewayTypeOK, AccountsThere, DepositsOf
<1> QED
  BY <1>1, <1>2, <1>3, <1>4, <1>5, <1>6, <1>7, <1>8 DEF GatewayNext

(***************************************************************************)
(* Rows have their types, and what a pending statement or a request in     *)
(* flight refers to exists.                                                *)
(***************************************************************************)
THEOREM GatewaySound == GatewaySpec => []GatewayInvariant
<1>1. GatewayInvariant /\ [GatewayNext]_gatewayVars => GatewayInvariant'
  BY GatewayStep
<1> QED
  BY <1>1, GatewayInitially, PTL DEF GatewaySpec

-----------------------------------------------------------------------------
(***************************************************************************)
(* The overdraft.  A request that is not in flight leaves room for one     *)
(* more charge: but for what deposits have taken back, an account is above *)
(* zero less one greatest cost for each request that is not charged to it  *)
(* any more.                                                               *)
(***************************************************************************)
InFlight(u) == {q \in Requests : chat[q] = u}
Landed(u) == Cardinality(Requests) - Cardinality(InFlight(u))
Dearest == Max(Costs)

AboveDue(u) ==
  /\ account[u] + TakenBack(u) > -(Landed(u) * Dearest)
  /\ account[u] + Pending(u) + TakenBack(u) > -(Landed(u) * Dearest)

OverdraftInvariant == \A u \in Accounts : HasAccount(u) => AboveDue(u)

CanCharge == Requests # {} /\ \E c \in Costs : c > 0

LEMMA DearestIsGreatest == CanCharge => Dearest \in Nat /\ Dearest > 0 /\ \A c \in Costs : c <= Dearest
  BY MaxIsGreatest DEF CanCharge, Dearest

LEMMA LandedCounts ==
  \A u : /\ Landed(u) \in Nat /\ Landed(u) <= Cardinality(Requests) /\ Cardinality(Requests) \in Nat
         /\ InFlight(u) \in SUBSET Requests /\ IsFiniteSet(InFlight(u)) /\ Cardinality(InFlight(u)) \in Nat
<1> TAKE u
<1>1. InFlight(u) \in SUBSET Requests
  BY DEF InFlight
<1>2. IsFiniteSet(InFlight(u)) /\ Cardinality(InFlight(u)) <= Cardinality(Requests)
  BY <1>1, FS_Subset
<1>3. Cardinality(Requests) \in Nat /\ Cardinality(InFlight(u)) \in Nat
  BY <1>2, FS_CardinalityType
<1> QED
  BY <1>1, <1>2, <1>3 DEF Landed

LEMMA LessInFlight ==
  ASSUME NEW u, InFlight(u)' \subseteq InFlight(u)
  PROVE  Landed(u)' \in Nat /\ Landed(u) <= Landed(u)'
<1>1. IsFiniteSet(InFlight(u)) /\ Landed(u) \in Nat /\ Cardinality(InFlight(u)) \in Nat /\ Cardinality(Requests) \in Nat
  BY LandedCounts
<1>2. Cardinality(InFlight(u)') <= Cardinality(InFlight(u)) /\ IsFiniteSet(InFlight(u)')
  BY <1>1, FS_Subset
<1>3. Cardinality(InFlight(u)') \in Nat
  BY <1>2, FS_CardinalityType
<1> QED
  BY <1>1, <1>2, <1>3 DEF Landed

Taken(u) == [r \in DepositsOf(u) |-> IF deposit[r].usd < 0 THEN Size(deposit[r].usd) ELSE 0]

\* What was taken from an account is a number, and nothing where nothing was deposited.
Counted(u) ==
  /\ IsFiniteSet(DepositsOf(u)) /\ \A r \in DepositsOf(u) : Taken(u)[r] \in Nat
  /\ TakenBack(u) = SumFunctionOnSet(Taken(u), DepositsOf(u)) /\ TakenBack(u) \in Nat

LEMMA TakenBackCounts == GatewayTypeOK => \A u \in Accounts : Counted(u)
<1> SUFFICES ASSUME GatewayTypeOK, NEW u \in Accounts PROVE Counted(u)
  OBVIOUS
<1>1. IsFiniteSet(DepositsOf(u)) /\ \A r \in DepositsOf(u) : Taken(u)[r] \in Nat
  BY FS_Subset DEF DepositsOf, Taken, Size, GatewayTypeOK
<1>2. TakenBack(u) = SumFunctionOnSet(Taken(u), DepositsOf(u))
  BY DEF TakenBack, Taken, SumFunction
<1> DEFINE none == [r \in DepositsOf(u) |-> 0]
           taken == Taken(u)
<1>3. \A r \in DepositsOf(u) : none[r] \in Int /\ taken[r] \in Int /\ none[r] <= taken[r]
  BY <1>1
<1>4. \A r \in DepositsOf(u) \ {} : none[r] = 0
  OBVIOUS
<1> HIDE DEF none, taken
<1>5. SumFunctionOnSet(none, DepositsOf(u)) <= SumFunctionOnSet(taken, DepositsOf(u)) /\ SumFunctionOnSet(taken, DepositsOf(u)) \in Int
  BY <1>1, <1>3, SumIsMonotonic, SumIsInt
<1>6. SumFunctionOnSet(none, DepositsOf(u)) = SumFunctionOnSet(none, {})
  BY <1>1, <1>4, SumOfPart
<1>7. SumFunctionOnSet(taken, DepositsOf(u)) \in Nat
  BY <1>5, <1>6, SumOfNone
<1> QED
  BY <1>1, <1>2, <1>7 DEF taken, Counted

LEMMA TakenBackCountsOn == GatewayTypeOK' => \A u \in Accounts : Counted(u)'
<1>1. GatewayTypeOK' => (\A u \in Accounts : Counted(u))'
  BY TakenBackCounts, PTL
<1> QED
  BY <1>1

LEMMA SameTaken ==
  ASSUME UNCHANGED deposit
  PROVE  \A u : TakenBack(u)' = TakenBack(u)
  BY DEF TakenBack, DepositsOf

\* A deposit takes back what its amount is below zero, from its own account.
LEMMA DepositTakes ==
  ASSUME GatewayInvariant, GatewayInvariant', NEW o \in Accounts, NEW r \in Refs, NEW usd \in Deposits,
         HasAccount(o), ~Known(r), Deposit(o, r, usd), NEW u \in Accounts
  PROVE  TakenBack(u)' = TakenBack(u) + IF u = o /\ usd < 0 THEN -usd ELSE 0
<1> DEFINE d == [user |-> o, usd |-> usd]
           w == Taken(u)
           v == Taken(u)'
<1>1. /\ deposit' = [deposit EXCEPT ![r] = d] /\ deposit[r] = Nothing /\ d # Nothing /\ usd \in Int
      /\ deposit \in [Refs -> [user : Accounts, usd : Int] \union {Nothing}]
  BY RowsAreNotNothing DEF Deposit, Known, GatewayInvariant, GatewayTypeOK
<1>2. /\ IsFiniteSet(DepositsOf(u)) /\ \A x \in DepositsOf(u) : w[x] \in Int
      /\ TakenBack(u) = SumFunctionOnSet(w, DepositsOf(u)) /\ TakenBack(u) \in Nat
  BY TakenBackCounts DEF GatewayInvariant, Counted
<1>3. /\ IsFiniteSet(DepositsOf(u)') /\ \A x \in DepositsOf(u)' : v[x] \in Int
      /\ TakenBack(u)' = SumFunctionOnSet(v, DepositsOf(u)')
  BY TakenBackCountsOn DEF GatewayInvariant, Counted
<1>4. CASE u # o
  <2>1. DepositsOf(u)' = DepositsOf(u) /\ \A x \in DepositsOf(u) : v[x] = w[x]
    BY <1>1, <1>4 DEF DepositsOf, Taken
  <2> HIDE DEF w, v
  <2>2. SumFunctionOnSet(v, DepositsOf(u)) = SumFunctionOnSet(w, DepositsOf(u))
    BY <1>2, <2>1, SumOfSame
  <2> QED
    BY <1>2, <1>3, <1>4, <2>1, <2>2
<1>5. CASE u = o
  <2>1. /\ r \in DepositsOf(u)' /\ DepositsOf(u)' \ {r} = DepositsOf(u)
        /\ \A x \in DepositsOf(u) : v[x] = w[x]
    BY <1>1, <1>5 DEF DepositsOf, Taken
  <2>2. v[r] = IF usd < 0 THEN -usd ELSE 0
    BY <1>1, <2>1 DEF Taken, Size
  <2> HIDE DEF w, v
  <2>3. SumFunctionOnSet(v, DepositsOf(u)') = v[r] + SumFunctionOnSet(v, DepositsOf(u))
    BY <1>3, <2>1, SumApart
  <2>4. SumFunctionOnSet(v, DepositsOf(u)) = SumFunctionOnSet(w, DepositsOf(u))
    BY <1>2, <2>1, SumOfSame
  <2> QED
    BY <1>1, <1>2, <1>3, <1>5, <2>2, <2>3, <2>4
<1> QED
  BY <1>4, <1>5

\* An account that has lost nothing else, and has no more requests in flight, stays above.
LEMMA StaysAbove ==
  ASSUME GatewayInvariant, GatewayInvariant', CanCharge, NEW u \in Accounts, HasAccount(u), AboveDue(u),
         InFlight(u)' \subseteq InFlight(u), HasAccount(u)', TakenBack(u) <= TakenBack(u)',
         account'[u] >= account[u] \/ account'[u] = account[u] + Pending(u),
         \/ account'[u] + Pending(u)' + TakenBack(u)' >= account[u] + TakenBack(u)
         \/ account'[u] + Pending(u)' >= account[u] + Pending(u)
  PROVE  AboveDue(u)'
<1>1. /\ account[u] \in Int /\ account'[u] \in Int /\ Pending(u) \in Int /\ Pending(u)' \in Int
      /\ TakenBack(u) \in Nat /\ TakenBack(u)' \in Nat
  <2>1. account[u] \in Int /\ account'[u] \in Int /\ Pending(u) \in Int /\ Pending(u)' \in Int
    BY DEF GatewayInvariant, GatewayTypeOK, HasAccount, Pending
  <2>2. TakenBack(u) \in Nat
    BY TakenBackCounts DEF GatewayInvariant, Counted
  <2>3. TakenBack(u)' \in Nat
    BY TakenBackCountsOn DEF GatewayInvariant, Counted
  <2> QED
    BY <2>1, <2>2, <2>3
<1>2. Landed(u) \in Nat /\ Landed(u)' \in Nat /\ Landed(u) <= Landed(u)'
  BY LandedCounts, LessInFlight
<1>3. Dearest \in Nat /\ Landed(u) * Dearest <= Landed(u)' * Dearest /\ Landed(u) * Dearest \in Nat /\ Landed(u)' * Dearest \in Nat
  BY <1>2, DearestIsGreatest, MultiplesGrow
<1> DEFINE old == Landed(u) * Dearest
           new == Landed(u)' * Dearest
<1>4. account[u] + TakenBack(u) > -old /\ account[u] + Pending(u) + TakenBack(u) > -old
  BY DEF AboveDue
<1>5. Dearest' = Dearest
  BY DEF Dearest
<1> HIDE DEF old, new
<1>6. account'[u] + TakenBack(u)' > -new /\ account'[u] + Pending(u)' + TakenBack(u)' > -new
  BY <1>1, <1>3, <1>4 DEF old, new
<1> QED
  BY <1>5, <1>6 DEF AboveDue, new

LEMMA OverdraftInitially == GatewayInit => OverdraftInvariant
  BY DEF GatewayInit, OverdraftInvariant, HasAccount

LEMMA OverdraftStep ==
  ASSUME CanCharge, GatewayInvariant, GatewayInvariant', OverdraftInvariant, [GatewayNext]_gatewayVars
  PROVE  OverdraftInvariant'
<1> DEFINE Kept(u) == HasAccount(u)' => AboveDue(u)'
<1>0. /\ \A u \in Accounts : HasAccount(u) => AboveDue(u) /\ account[u] \in Int
      /\ \A q \in Requests : chat[q] # Nothing => chat[q] \in Accounts /\ HasAccount(chat[q])
  BY DEF GatewayInvariant, GatewayTypeOK, AccountsThere, HasAccount, OverdraftInvariant
<1>t. \A u \in Accounts : TakenBack(u) \in Nat /\ TakenBack(u)' \in Nat
  <2>1. \A u \in Accounts : TakenBack(u) \in Nat
    BY TakenBackCounts DEF GatewayInvariant, Counted
  <2>2. (\A u \in Accounts : TakenBack(u) \in Nat)'
    BY TakenBackCountsOn DEF GatewayInvariant, Counted
  <2> QED
    BY <2>1, <2>2
<1>1. ASSUME NEW o \in Accounts, CreateAccount(o), NEW u \in Accounts PROVE Kept(u)
  <2>1. InFlight(u)' = InFlight(u) /\ Pending(u)' = 0 /\ Pending(u) = 0 /\ TakenBack(u)' = TakenBack(u)
    BY <1>1, SameTaken DEF CreateAccount, InFlight, Pending
  <2>2. CASE HasAccount(u)
    <3>1. account'[u] = account[u]
      BY <1>1, <2>2 DEF CreateAccount, GatewayInvariant, GatewayTypeOK, ExistingOrNew, HasAccount
    <3> QED
      BY <1>0, <1>t, <2>1, <2>2, <3>1, StaysAbove
  <2>3. CASE ~HasAccount(u)
    <3> SUFFICES ASSUME HasAccount(u)' PROVE AboveDue(u)'
      OBVIOUS
    <3>1. account'[u] = 0
      BY <1>1, <2>3 DEF CreateAccount, GatewayInvariant, GatewayTypeOK, ExistingOrNew, HasAccount
    <3>2. InFlight(u)' = {}
      BY <1>0, <2>1, <2>3 DEF InFlight, HasAccount, GatewayInvariant, GatewayTypeOK
    <3>3. Landed(u)' = Cardinality(Requests) /\ Cardinality(Requests) \in Nat /\ Cardinality(Requests) > 0
      <4>1. Cardinality(Requests) \in Nat /\ Cardinality(Requests) # 0
        BY FS_EmptySet, FS_CardinalityType DEF CanCharge
      <4> QED
        BY <3>2, <4>1, FS_EmptySet DEF Landed
    <3>4. Cardinality(Requests) * Dearest > 0
      <4>1. \A m, n \in Nat : m > 0 /\ n > 0 => m * n > 0
        OBVIOUS
      <4> QED
        BY <3>3, <4>1, DearestIsGreatest
    <3> DEFINE owed == Landed(u)' * Dearest
    <3>5. owed > 0 /\ owed \in Int
      BY <3>3, <3>4, DearestIsGreatest, MultiplesGrow
    <3> HIDE DEF owed
    <3>6. 0 + TakenBack(u)' > -owed /\ 0 + 0 + TakenBack(u)' > -owed
      BY <1>t, <3>5
    <3>7. Dearest' = Dearest
      BY DEF Dearest
    <3> QED
      BY <2>1, <3>1, <3>6, <3>7 DEF AboveDue, owed
  <2> QED
    BY <2>2, <2>3
<1>2. ASSUME NEW o \in Accounts, NEW r \in Refs, NEW usd \in Deposits, Deposit(o, r, usd), NEW u \in Accounts PROVE Kept(u)
  <2>1. InFlight(u)' = InFlight(u) /\ account' = account /\ Pending(u) = 0
    BY <1>2 DEF Deposit, InFlight, Pending
  <2>2. CASE HasAccount(o) /\ ~Known(r)
    <3>1. TakenBack(u)' = TakenBack(u) + IF u = o /\ usd < 0 THEN -usd ELSE 0
      BY <1>2, <2>2, DepositTakes
    <3>2. usd \in Int /\ Pending(u)' = IF u = o THEN usd ELSE 0
      BY <1>2, <2>2, RowsAreNotNothing DEF Deposit, Pending
    <3>3. ASSUME HasAccount(u) PROVE /\ account'[u] + Pending(u)' + TakenBack(u)' >= account[u] + TakenBack(u)
                                     /\ TakenBack(u) <= TakenBack(u)' /\ account'[u] >= account[u]
      BY <1>0, <1>t, <2>1, <3>1, <3>2, <3>3
    <3>4. HasAccount(u)' <=> HasAccount(u)
      BY <2>1 DEF HasAccount
    <3> QED
      BY <1>0, <2>1, <3>3, <3>4, StaysAbove
  <2>3. CASE ~(HasAccount(o) /\ ~Known(r))
    <3>1. TakenBack(u)' = TakenBack(u) /\ Pending(u)' = 0
      BY <1>2, <2>1, <2>3, SameTaken DEF Deposit, Pending
    <3> QED
      BY <1>0, <1>t, <2>1, <3>1, StaysAbove DEF HasAccount
  <2> QED
    BY <2>2, <2>3
<1>3. ASSUME UpdateBalance, NEW u \in Accounts PROVE Kept(u)
  <2>1. InFlight(u)' = InFlight(u) /\ TakenBack(u)' = TakenBack(u)
    BY <1>3, SameTaken DEF UpdateBalance, InFlight
  <2>2. /\ writing \in [user : Accounts, usd : Int]
        /\ account' = [account EXCEPT ![writing.user] = @ + writing.usd]
        /\ HasAccount(writing.user)
    BY <1>3 DEF UpdateBalance, GatewayInvariant, GatewayTypeOK, AccountsThere
  <2>3. HasAccount(u)' => HasAccount(u)
    BY <2>2 DEF HasAccount, GatewayInvariant, GatewayTypeOK
  <2>4. HasAccount(u) => account'[u] = account[u] + Pending(u) /\ Pending(u)' = 0 /\ Pending(u) \in Int
    BY <1>3, <1>0, <2>2 DEF UpdateBalance, Pending, GatewayInvariant, GatewayTypeOK
  <2>5. ASSUME HasAccount(u)' PROVE account'[u] + Pending(u)' >= account[u] + Pending(u)
    BY <1>0, <2>3, <2>4, <2>5
  <2> QED
    BY <1>0, <1>t, <2>1, <2>3, <2>4, <2>5, StaysAbove
<1>4. ASSUME NEW o \in Accounts, NEW q \in Requests, Admit(q, o), NEW u \in Accounts PROVE Kept(u)
  <2>1. /\ account' = account /\ Pending(u)' = 0 /\ Pending(u) = 0 /\ chat' = [chat EXCEPT ![q] = o] /\ account[o] > 0
        /\ TakenBack(u)' = TakenBack(u)
    BY <1>4, SameTaken DEF Admit, Pending, Solvent
  <2>2. CASE u # o
    <3>1. InFlight(u)' \subseteq InFlight(u)
      BY <2>1, <2>2 DEF InFlight, GatewayInvariant, GatewayTypeOK
    <3> QED
      BY <1>0, <1>t, <2>1, <3>1, StaysAbove DEF HasAccount
  <2>3. CASE u = o
    <3> SUFFICES ASSUME HasAccount(u)' PROVE AboveDue(u)'
      OBVIOUS
    <3>1. Landed(u)' \in Nat
      <4>1. InFlight(u)' \in SUBSET Requests
        BY DEF InFlight
      <4>2. IsFiniteSet(InFlight(u)') /\ Cardinality(InFlight(u)') <= Cardinality(Requests)
        BY <4>1, FS_Subset
      <4>3. Cardinality(InFlight(u)') \in Nat /\ Cardinality(Requests) \in Nat
        BY <4>2, FS_CardinalityType
      <4> QED
        BY <4>2, <4>3 DEF Landed
    <3>2. Landed(u)' * Dearest \in Nat
      BY <3>1, DearestIsGreatest, MultiplesGrow
    <3>3. account'[u] > 0 /\ account'[u] \in Int
      BY <1>0, <2>1, <2>3 DEF HasAccount
    <3> QED
      BY <1>t, <2>1, <3>2, <3>3 DEF AboveDue, Dearest
  <2> QED
    BY <2>2, <2>3
<1>5. ASSUME NEW q \in Requests, NEW c \in Costs, RecordUsage(q, c), NEW u \in Accounts PROVE Kept(u)
  <2> DEFINE o == chat[q]
  <2>1. /\ account' = account /\ Pending(u) = 0 /\ o \in Accounts /\ HasAccount(o) /\ c \in Nat
        /\ writing' = [user |-> o, usd |-> -c] /\ chat' = [chat EXCEPT ![q] = Nothing] /\ TakenBack(u)' = TakenBack(u)
    BY <1>0, <1>5, SameTaken DEF RecordUsage, Pending, Charge
  <2>2. CASE u # o
    <3>1. InFlight(u)' \subseteq InFlight(u) /\ Pending(u)' = 0
      BY <2>1, <2>2 DEF InFlight, Pending, GatewayInvariant, GatewayTypeOK
    <3> QED
      BY <1>0, <1>t, <2>1, <3>1, StaysAbove DEF HasAccount
  <2>3. CASE u = o
    <3>1. InFlight(u)' = InFlight(u) \ {q} /\ q \in InFlight(u)
      BY <2>1, <2>3 DEF InFlight, GatewayInvariant, GatewayTypeOK
    <3>2. Landed(u) \in Nat /\ Landed(u)' = Landed(u) + 1
      <4>1. IsFiniteSet(InFlight(u)) /\ Cardinality(InFlight(u)) \in Nat /\ Cardinality(Requests) \in Nat /\ Landed(u) \in Nat
        BY LandedCounts
      <4>2. Cardinality(InFlight(u)') = Cardinality(InFlight(u)) - 1
        BY <3>1, <4>1, FS_RemoveElement
      <4> QED
        BY <4>1, <4>2 DEF Landed
    <3> DEFINE old == Landed(u) * Dearest
               new == Landed(u)' * Dearest
    <3>3. old \in Nat /\ new = old + Dearest /\ c <= Dearest /\ Dearest \in Nat
      BY <3>2, DearestIsGreatest, MultiplesGrow
    <3>4. account[u] + TakenBack(u) > -old /\ account[u] \in Int
      BY <1>0, <2>1, <2>3 DEF AboveDue
    <3>5. Pending(u)' = -c
      BY <2>1, <2>3, RowsAreNotNothing DEF Pending
    <3> HIDE DEF old, new
    <3>6. account'[u] + TakenBack(u)' > -new /\ account'[u] + Pending(u)' + TakenBack(u)' > -new
      BY <1>t, <2>1, <3>3, <3>4, <3>5
    <3> QED
      BY <3>6 DEF AboveDue, Dearest, new
  <2> QED
    BY <2>2, <2>3
<1>6. ASSUME NEW q \in Requests, NoUsage(q), NEW u \in Accounts PROVE Kept(u)
  <2>1. /\ account' = account /\ Pending(u)' = 0 /\ Pending(u) = 0 /\ InFlight(u)' \subseteq InFlight(u)
        /\ TakenBack(u)' = TakenBack(u)
    BY <1>6, RowsAreNotNothing, SameTaken DEF NoUsage, Pending, InFlight, GatewayInvariant, GatewayTypeOK
  <2> QED
    BY <1>0, <1>t, <2>1, StaysAbove DEF HasAccount
<1>7. ASSUME Crash, NEW u \in Accounts PROVE Kept(u)
  <2>1. account' = account /\ Pending(u)' = 0 /\ InFlight(u)' \subseteq InFlight(u) /\ TakenBack(u)' = TakenBack(u)
    BY <1>7, RowsAreNotNothing, SameTaken DEF Crash, Pending, InFlight
  <2> QED
    BY <1>0, <1>t, <2>1, StaysAbove DEF HasAccount
<1>8. ASSUME UNCHANGED gatewayVars, NEW u \in Accounts PROVE Kept(u)
  BY <1>0, <1>8, SameTaken DEF HasAccount, AboveDue, Pending, Landed, InFlight, Dearest
<1> QED
  BY <1>1, <1>2, <1>3, <1>4, <1>5, <1>6, <1>7, <1>8 DEF GatewayNext, OverdraftInvariant

(***************************************************************************)
(* An account goes below zero by no more than what the requests in flight  *)
(* at one time may cost and what deposits have taken from it, for any      *)
(* number of accounts, requests and costs and any amounts of deposits; a   *)
(* gateway that serves at least one request at a cost is assumed.          *)
(***************************************************************************)
THEOREM OverdraftStaysInFlight ==
  ASSUME CanCharge
  PROVE  GatewaySpec => []OverdraftByInFlight
<1>1. GatewayInvariant /\ [GatewayNext]_gatewayVars => GatewayInvariant'
  BY GatewayStep
<1>2. GatewayInvariant /\ GatewayInvariant' /\ OverdraftInvariant /\ [GatewayNext]_gatewayVars => OverdraftInvariant'
  BY OverdraftStep
<1>3. GatewayInvariant /\ OverdraftInvariant => OverdraftByInFlight
  <2> SUFFICES ASSUME GatewayInvariant, OverdraftInvariant, NEW u \in Accounts, HasAccount(u)
               PROVE  account[u] + Pending(u) + TakenBack(u) > -Cardinality(Requests) * Max(Costs)
    BY DEF OverdraftByInFlight
  <2> DEFINE owed == Landed(u) * Dearest
             all == Cardinality(Requests) * Dearest
  <2>1. owed <= all /\ owed \in Nat /\ all \in Nat
    BY LandedCounts, DearestIsGreatest, MultiplesGrow
  <2>2. account[u] + Pending(u) + TakenBack(u) > -owed
    BY DEF OverdraftInvariant, AboveDue
  <2>3. account[u] + Pending(u) + TakenBack(u) \in Int
    BY TakenBackCounts DEF GatewayInvariant, GatewayTypeOK, HasAccount, Pending, Counted
  <2>4. -Cardinality(Requests) * Max(Costs) = -all
    BY LandedCounts, DearestIsGreatest DEF Dearest
  <2> HIDE DEF owed, all
  <2> QED
    BY <2>1, <2>2, <2>3, <2>4
<1> QED
  BY <1>1, <1>2, <1>3, GatewayInitially, OverdraftInitially, PTL DEF GatewaySpec

-----------------------------------------------------------------------------
(***************************************************************************)
(* The books.  What is off is spread over the accounts that exist; no      *)
(* handler changes it, and a crash changes it by the one statement that    *)
(* was pending, which is worth at most a deposit or the dearest answer.    *)
(***************************************************************************)
WriteWorth == LargestWrite
Existing == {u \in Accounts : HasAccount(u)}
AllOff == [u \in Existing |-> Distance(u)]

BooksInvariant ==
  /\ writing # Nothing => -WriteWorth <= writing.usd /\ writing.usd <= WriteWorth
  /\ BooksOffByCrashes

LEMMA WriteWorthCovers ==
  /\ WriteWorth \in Nat /\ \A c \in Costs : c <= WriteWorth
  /\ \A usd \in Deposits : usd \in Int /\ -WriteWorth <= usd /\ usd <= WriteWorth
<1> DEFINE sizes == {Size(usd) : usd \in Deposits}
           amounts == Costs \union sizes \union {0}
<1>1. IsFiniteSet(amounts) /\ amounts # {} /\ amounts \in SUBSET Int
  <2>1. IsFiniteSet(sizes)
    <3> DEFINE size == [usd \in Deposits |-> Size(usd)]
    <3>1. size \in Surjection(Deposits, sizes)
      BY DEF Surjection
    <3> QED
      BY <3>1, FS_Surjection
  <2>2. IsFiniteSet(Costs \union sizes)
    BY <2>1, FS_Union
  <2>3. sizes \in SUBSET Int
    BY DEF Size
  <2>4. amounts # {} /\ amounts \in SUBSET Int
    BY <2>3
  <2> HIDE DEF sizes
  <2> QED
    BY <2>2, <2>4, FS_AddElement
<1> HIDE DEF amounts
<1>2. Max(amounts) \in amounts /\ \A c \in amounts : c <= Max(amounts)
  BY <1>1, MaxIsGreatest
<1>3. Max(amounts) \in Int
  BY <1>1, <1>2
<1> USE DEF amounts
<1>4. WriteWorth \in Int /\ 0 <= WriteWorth /\ (\A c \in Costs : c <= WriteWorth) /\ \A usd \in Deposits : Size(usd) <= WriteWorth
  BY <1>2, <1>3 DEF WriteWorth, LargestWrite
<1> QED
  BY <1>4 DEF Size

LEMMA BooksState == BooksOffByCrashes <=> SumFunctionOnSet(AllOff, Existing) <= crashes * WriteWorth
  BY DEF BooksOffByCrashes, SumFunction, AllOff, Existing, WriteWorth, LargestWrite

LEMMA DepositedIsInt ==
  ASSUME GatewayTypeOK, NEW u \in Accounts
  PROVE  Deposited(u) \in Int
<1> DEFINE w == [r \in DepositsOf(u) |-> deposit[r].usd]
<1>1. IsFiniteSet(DepositsOf(u))
  BY FS_Subset DEF DepositsOf
<1>2. \A r \in DepositsOf(u) : w[r] \in Int
  BY DEF DepositsOf, GatewayTypeOK
<1>3. Deposited(u) = SumFunctionOnSet(w, DepositsOf(u))
  BY DEF Deposited, SumFunction
<1> HIDE DEF w
<1> QED
  BY <1>1, <1>2, <1>3, SumIsInt

LEMMA OffIsInt ==
  ASSUME GatewayTypeOK
  PROVE  /\ \A u \in Existing : Off(u) \in Int /\ Distance(u) \in Nat /\ Pending(u) \in Int /\ Deposited(u) \in Int
         /\ IsFiniteSet(Existing) /\ SumFunctionOnSet(AllOff, Existing) \in Int
<1>1. ASSUME NEW u \in Existing PROVE Off(u) \in Int /\ Distance(u) \in Nat /\ Pending(u) \in Int /\ Deposited(u) \in Int
  <2>1. u \in Accounts /\ account[u] \in Int /\ usage[u] \in Int /\ Pending(u) \in Int
    BY DEF GatewayTypeOK, Existing, HasAccount, Pending
  <2>2. Off(u) \in Int /\ Deposited(u) \in Int
    BY <2>1, DepositedIsInt DEF Off
  <2> QED
    BY <2>1, <2>2 DEF Distance, Size
<1>2. IsFiniteSet(Existing)
  BY FS_Subset DEF Existing
<1>3. \A u \in Existing : AllOff[u] \in Int
  BY <1>1 DEF AllOff
<1> QED
  BY <1>1, <1>2, <1>3, SumIsInt

\* A handler that leaves what is off at every account.
LEMMA SameOff ==
  ASSUME Existing' = Existing, \A u \in Existing : Off(u)' = Off(u), crashes' = crashes, BooksOffByCrashes
  PROVE  BooksOffByCrashes'
<1>1. AllOff' = AllOff
  BY DEF AllOff, Distance, Size
<1>2. BooksOffByCrashes' <=> SumFunctionOnSet(AllOff', Existing') <= crashes' * WriteWorth'
  BY DEF BooksOffByCrashes, SumFunction, AllOff, Existing, WriteWorth, LargestWrite
<1>3. WriteWorth' = WriteWorth
  BY DEF WriteWorth, LargestWrite
<1> QED
  BY <1>1, <1>2, <1>3, BooksState

LEMMA SameDeposits ==
  ASSUME UNCHANGED deposit
  PROVE  \A u : Deposited(u)' = Deposited(u)
  BY DEF Deposited, DepositsOf

LEMMA BooksInitially == GatewayInit => BooksInvariant
<1> SUFFICES ASSUME GatewayInit PROVE BooksInvariant
  OBVIOUS
<1>1. Existing = {} /\ crashes = 0 /\ writing = Nothing
  BY DEF GatewayInit, Existing, HasAccount
<1>2. SumFunctionOnSet(AllOff, Existing) <= crashes * WriteWorth
  BY <1>1, SumOfNone, WriteWorthCovers
<1> QED
  BY <1>1, <1>2, BooksState DEF BooksInvariant

\* A new account has nothing to its name, so nothing is off at it.
LEMMA CreateAccountKeepsBooks ==
  ASSUME GatewayInvariant, GatewayInvariant', BooksInvariant, NEW o \in Accounts, CreateAccount(o)
  PROVE  BooksInvariant'
<1>1. /\ account' = [account EXCEPT ![o] = ExistingOrNew(o)] /\ writing = Nothing /\ writing' = Nothing
      /\ UNCHANGED <<deposit, usage, chat, crashes>> /\ account \in [Accounts -> Int \union {Nothing}]
  BY DEF CreateAccount, GatewayInvariant, GatewayTypeOK
<1>2. CASE HasAccount(o)
  <2>1. account' = account
    BY <1>1, <1>2 DEF ExistingOrNew
  <2>2. Existing' = Existing /\ \A u \in Existing : Off(u)' = Off(u)
    BY <1>1, <2>1, SameDeposits DEF Existing, HasAccount, Off, Pending
  <2> QED
    BY <1>1, <2>2, SameOff DEF BooksInvariant
<1>3. CASE ~HasAccount(o)
  <2>1. account'[o] = 0 /\ \A u \in Accounts \ {o} : account'[u] = account[u]
    BY <1>1, <1>3 DEF ExistingOrNew
  <2>2. Existing' = Existing \union {o} /\ o \notin Existing /\ o \in Existing' /\ Existing' \ {o} = Existing
    BY <1>3, <2>1 DEF Existing, HasAccount
  <2>3. \A u \in Existing : AllOff'[u] = AllOff[u]
    BY <1>1, <2>1, <2>2, SameDeposits DEF AllOff, Distance, Size, Off, Pending, Existing
  <2>4. AllOff'[o] = 0
    <3>1. DepositsOf(o)' = {} /\ usage'[o] = 0
      BY <1>1, <1>3 DEF GatewayInvariant, AccountsThere, DepositsOf
    <3>2. Deposited(o)' = 0
      BY <3>1, SumOfNone DEF Deposited, SumFunction
    <3>3. Off(o)' = 0
      BY <1>1, <2>1, <3>1, <3>2 DEF Off, Pending
    <3> QED
      BY <2>2, <3>3 DEF AllOff, Distance, Size
  <2>5. IsFiniteSet(Existing) /\ (\A u \in Existing : AllOff[u] \in Int) /\ SumFunctionOnSet(AllOff, Existing) \in Int
    BY OffIsInt DEF GatewayInvariant, AllOff
  <2>6. IsFiniteSet(Existing') /\ \A u \in Existing' : AllOff'[u] \in Int
    BY <2>2, <2>3, <2>4, <2>5, FS_AddElement
  <2>7. SumFunctionOnSet(AllOff', Existing') = AllOff'[o] + SumFunctionOnSet(AllOff', Existing)
    BY <2>2, <2>6, SumApart
  <2>8. SumFunctionOnSet(AllOff', Existing) = SumFunctionOnSet(AllOff, Existing)
    BY <2>3, <2>5, SumOfSame
  <2>9. BooksOffByCrashes' <=> SumFunctionOnSet(AllOff', Existing') <= crashes' * WriteWorth
    BY DEF BooksOffByCrashes, SumFunction, AllOff, Existing, WriteWorth, LargestWrite
  <2> QED
    BY <1>1, <2>4, <2>5, <2>7, <2>8, <2>9, BooksState DEF BooksInvariant
<1> QED
  BY <1>2, <1>3

\* The row of a deposit is written and its balance is due: together nothing is off.
LEMMA DepositKeepsBooks ==
  ASSUME GatewayInvariant, GatewayInvariant', BooksInvariant, NEW o \in Accounts, NEW r \in Refs,
         NEW usd \in Deposits, Deposit(o, r, usd)
  PROVE  BooksInvariant'
<1>1. writing = Nothing /\ UNCHANGED <<account, usage, chat, crashes>> /\ Existing' = Existing
  BY DEF Deposit, Existing, HasAccount
<1>2. CASE ~(HasAccount(o) /\ ~Known(r))
  <2>1. UNCHANGED <<deposit, writing>>
    BY <1>2 DEF Deposit
  <2>2. \A u \in Existing : Off(u)' = Off(u)
    BY <1>1, <2>1, SameDeposits DEF Off, Pending
  <2> QED
    BY <1>1, <2>1, <2>2, SameOff DEF BooksInvariant
<1>3. CASE HasAccount(o) /\ ~Known(r)
  <2> DEFINE d == [user |-> o, usd |-> usd]
  <2>1. /\ deposit' = [deposit EXCEPT ![r] = d] /\ writing' = d /\ deposit[r] = Nothing /\ usd \in Int
        /\ deposit \in [Refs -> [user : Accounts, usd : Int] \union {Nothing}] /\ d # Nothing
    BY <1>3, RowsAreNotNothing DEF Deposit, Known, GatewayInvariant, GatewayTypeOK
  <2>2. ASSUME NEW u \in Existing, u # o PROVE Off(u)' = Off(u)
    <3>1. DepositsOf(u)' = DepositsOf(u) /\ \A x \in DepositsOf(u) : deposit'[x] = deposit[x]
      BY <2>1, <2>2 DEF DepositsOf
    <3>2. Deposited(u)' = Deposited(u)
      BY <3>1 DEF Deposited
    <3>3. Pending(u)' = 0 /\ Pending(u) = 0
      BY <1>1, <2>1, <2>2 DEF Pending
    <3> QED
      BY <1>1, <3>2, <3>3 DEF Off
  <2>3. ASSUME o \in Existing PROVE Off(o)' = Off(o)
    <3> DEFINE w == [x \in DepositsOf(o) |-> deposit[x].usd]
               v == [x \in DepositsOf(o)' |-> deposit'[x].usd]
    <3>1. /\ DepositsOf(o)' = DepositsOf(o) \union {r} /\ r \notin DepositsOf(o) /\ r \in DepositsOf(o)'
          /\ DepositsOf(o)' \ {r} = DepositsOf(o) /\ \A x \in DepositsOf(o) : deposit'[x] = deposit[x]
      BY <2>1 DEF DepositsOf
    <3>2. v[r] = usd /\ \A x \in DepositsOf(o) : w[x] = v[x] /\ w[x] \in Int
      BY <2>1, <3>1 DEF DepositsOf
    <3>3. IsFiniteSet(DepositsOf(o)) /\ IsFiniteSet(DepositsOf(o)')
      BY FS_Subset DEF DepositsOf
    <3>4. \A x \in DepositsOf(o)' : v[x] \in Int
      BY <3>1, <3>2
    <3>5. Deposited(o) = SumFunctionOnSet(w, DepositsOf(o)) /\ Deposited(o)' = SumFunctionOnSet(v, DepositsOf(o)')
      BY DEF Deposited, SumFunction
    <3> HIDE DEF w, v
    <3>6. SumFunctionOnSet(v, DepositsOf(o)') = v[r] + SumFunctionOnSet(v, DepositsOf(o))
      BY <3>1, <3>3, <3>4, SumApart
    <3>7. SumFunctionOnSet(v, DepositsOf(o)) = SumFunctionOnSet(w, DepositsOf(o))
      BY <3>2, <3>3, SumOfSame
    <3>8. Deposited(o)' = Deposited(o) + usd /\ Deposited(o) \in Int
      BY <2>1, <3>2, <3>5, <3>6, <3>7, DepositedIsInt DEF GatewayInvariant
    <3>9. Pending(o) = 0 /\ Pending(o)' = usd
      BY <1>1, <2>1 DEF Pending
    <3>10. account[o] \in Int /\ usage[o] \in Int
      BY <1>3 DEF GatewayInvariant, GatewayTypeOK, HasAccount
    <3> QED
      BY <1>1, <2>1, <3>8, <3>9, <3>10 DEF Off
  <2>4. writing'.usd = usd /\ WriteWorth' = WriteWorth
    BY <2>1 DEF WriteWorth
  <2> QED
    BY <1>1, <2>2, <2>3, <2>4, SameOff, WriteWorthCovers DEF BooksInvariant
<1> QED
  BY <1>2, <1>3

\* The pending statement runs: what was due is now in the balance.
LEMMA UpdateBalanceKeepsBooks ==
  ASSUME GatewayInvariant, GatewayInvariant', BooksInvariant, UpdateBalance
  PROVE  BooksInvariant'
<1> DEFINE o == writing.user
<1>1. /\ writing \in [user : Accounts, usd : Int] /\ writing # Nothing /\ writing' = Nothing /\ HasAccount(o)
      /\ account' = [account EXCEPT ![o] = @ + writing.usd]
      /\ UNCHANGED <<deposit, usage, chat, crashes>>
      /\ account \in [Accounts -> Int \union {Nothing}] /\ usage \in [Accounts -> Nat]
  BY DEF UpdateBalance, GatewayInvariant, GatewayTypeOK, AccountsThere
<1>2. Existing' = Existing
  BY <1>1, RowsAreNotNothing DEF Existing, HasAccount
<1>3. ASSUME NEW u \in Existing PROVE Off(u)' = Off(u)
  <2>1. u \in Accounts /\ account[u] \in Int /\ usage[u] \in Int /\ Deposited(u)' = Deposited(u) /\ Deposited(u) \in Int
    BY <1>1, SameDeposits, DepositedIsInt DEF Existing, HasAccount, GatewayInvariant
  <2>2. account'[u] = account[u] + Pending(u) /\ Pending(u)' = 0 /\ Pending(u) \in Int
    BY <1>1, <2>1 DEF Pending
  <2> QED
    BY <1>1, <2>1, <2>2 DEF Off
<1> QED
  BY <1>1, <1>2, <1>3, SameOff DEF BooksInvariant

\* The usage row is written and its charge is due.
LEMMA RecordUsageKeepsBooks ==
  ASSUME GatewayInvariant, GatewayInvariant', BooksInvariant, NEW q \in Requests, NEW c \in Costs, RecordUsage(q, c)
  PROVE  BooksInvariant'
<1> DEFINE o == chat[q]
<1>1. /\ o \in Accounts /\ writing = Nothing /\ writing' = [user |-> o, usd |-> -c] /\ c \in Nat
      /\ usage' = [usage EXCEPT ![o] = @ + c] /\ usage \in [Accounts -> Nat]
      /\ UNCHANGED <<account, deposit, crashes>>
  BY DEF RecordUsage, Charge, GatewayInvariant, GatewayTypeOK
<1>2. Existing' = Existing
  BY <1>1 DEF Existing, HasAccount
<1>3. ASSUME NEW u \in Existing PROVE Off(u)' = Off(u)
  <2>1. u \in Accounts /\ account[u] \in Int /\ usage[u] \in Int /\ Deposited(u)' = Deposited(u) /\ Deposited(u) \in Int
    BY <1>1, SameDeposits, DepositedIsInt DEF Existing, HasAccount, GatewayInvariant, GatewayTypeOK
  <2>2. Pending(u) = 0 /\ usage'[u] = usage[u] - Pending(u)' /\ Pending(u)' \in Int
    BY <1>1, <2>1, RowsAreNotNothing DEF Pending
  <2> QED
    BY <1>1, <2>1, <2>2 DEF Off
<1>4. writing'.usd = -c /\ WriteWorth' = WriteWorth
  BY <1>1 DEF WriteWorth
<1> QED
  BY <1>1, <1>2, <1>3, <1>4, SameOff, WriteWorthCovers DEF BooksInvariant

\* A crash loses the pending statement, so one account is off by its amount.
LEMMA CrashKeepsBooks ==
  ASSUME GatewayInvariant, GatewayInvariant', BooksInvariant, Crash
  PROVE  BooksInvariant'
<1>1. /\ writing' = Nothing /\ crashes' = crashes + 1 /\ UNCHANGED <<account, deposit, usage>> /\ Existing' = Existing
      /\ crashes \in Nat
  BY DEF Crash, Existing, HasAccount, GatewayInvariant, GatewayTypeOK
<1>2. ASSUME NEW u \in Existing PROVE Off(u)' = Off(u) + Pending(u)
  <2>1. u \in Accounts /\ account[u] \in Int /\ usage[u] \in Int /\ Deposited(u)' = Deposited(u) /\ Deposited(u) \in Int /\ Pending(u) \in Int
    BY <1>1, SameDeposits, OffIsInt DEF Existing, HasAccount, GatewayInvariant, GatewayTypeOK
  <2>2. Pending(u)' = 0
    BY <1>1 DEF Pending
  <2> QED
    BY <1>1, <2>1, <2>2 DEF Off
<1>3. /\ IsFiniteSet(Existing) /\ SumFunctionOnSet(AllOff, Existing) \in Int
      /\ \A u \in Existing : Off(u) \in Int /\ AllOff[u] \in Int /\ AllOff[u] = Distance(u) /\ Pending(u) \in Int
  BY OffIsInt DEF GatewayInvariant, AllOff
<1>4. \A u \in Existing : AllOff'[u] \in Int /\ AllOff'[u] = Distance(u)'
  BY <1>1, <1>2, <1>3 DEF AllOff, Distance, Size
<1>5. SumFunctionOnSet(AllOff', Existing) <= SumFunctionOnSet(AllOff, Existing) + WriteWorth
  <2>1. CASE \A u \in Existing : Pending(u) = 0
    <3>1. \A u \in Existing : AllOff'[u] = AllOff[u]
      BY <1>2, <1>3, <1>4, <2>1 DEF Distance, Size
    <3>2. SumFunctionOnSet(AllOff, Existing) = SumFunctionOnSet(AllOff', Existing)
      BY <1>3, <3>1, SumOfSame
    <3> QED
      BY <1>3, <3>2, WriteWorthCovers
  <2>2. ASSUME NEW o \in Existing, Pending(o) # 0 PROVE SumFunctionOnSet(AllOff', Existing) <= SumFunctionOnSet(AllOff, Existing) + WriteWorth
    <3>1. writing # Nothing /\ writing.user = o /\ Pending(o) = writing.usd
      BY <2>2 DEF Pending
    <3>2. \A u \in Existing \ {o} : AllOff'[u] = AllOff[u]
      <4>1. \A u \in Existing \ {o} : Pending(u) = 0
        BY <3>1 DEF Pending
      <4> QED
        BY <1>2, <1>3, <1>4, <4>1 DEF Distance, Size
    <3>3. SumFunctionOnSet(AllOff', Existing) = SumFunctionOnSet(AllOff, Existing) + AllOff'[o] - AllOff[o]
      BY <1>3, <1>4, <3>2, SumChanges
    <3>4. AllOff'[o] <= AllOff[o] + WriteWorth
      <4>1. -WriteWorth <= Pending(o) /\ Pending(o) <= WriteWorth
        BY <3>1 DEF BooksInvariant
      <4> QED
        BY <1>2, <1>3, <1>4, <4>1, WriteWorthCovers DEF Distance, Size
    <3> QED
      BY <1>3, <1>4, <3>3, <3>4, WriteWorthCovers
  <2> QED
    BY <2>1, <2>2
<1>6. (crashes + 1) * WriteWorth = crashes * WriteWorth + WriteWorth /\ crashes * WriteWorth \in Nat
  BY <1>1, WriteWorthCovers, MultiplesGrow
<1>7. BooksOffByCrashes' <=> SumFunctionOnSet(AllOff', Existing') <= crashes' * WriteWorth
  BY DEF BooksOffByCrashes, SumFunction, AllOff, Existing, WriteWorth, LargestWrite
<1>8. SumFunctionOnSet(AllOff', Existing) \in Int
  BY <1>3, <1>4, SumIsInt
<1> DEFINE bound == crashes * WriteWorth
           later == (crashes + 1) * WriteWorth
<1>9. SumFunctionOnSet(AllOff, Existing) <= bound
  BY BooksState DEF BooksInvariant
<1>10. bound \in Nat /\ later = bound + WriteWorth
  BY <1>6
<1> HIDE DEF bound, later
<1>11. SumFunctionOnSet(AllOff', Existing) <= later
  BY <1>3, <1>5, <1>8, <1>9, <1>10, WriteWorthCovers
<1> QED
  BY <1>1, <1>7, <1>11 DEF BooksInvariant, later

LEMMA BooksStep ==
  ASSUME GatewayInvariant, GatewayInvariant', BooksInvariant, [GatewayNext]_gatewayVars
  PROVE  BooksInvariant'
<1>1. ASSUME UNCHANGED <<account, deposit, usage, writing, crashes>> PROVE BooksInvariant'
  <2>1. Existing' = Existing /\ \A u \in Existing : Off(u)' = Off(u)
    BY <1>1, SameDeposits DEF Existing, HasAccount, Off, Pending
  <2> QED
    BY <1>1, <2>1, SameOff DEF BooksInvariant, WriteWorth, LargestWrite
<1>2. ASSUME NEW u \in Accounts, NEW q \in Requests, Admit(q, u) PROVE BooksInvariant'
  BY <1>1, <1>2 DEF Admit
<1>3. ASSUME NEW q \in Requests, NoUsage(q) PROVE BooksInvariant'
  BY <1>1, <1>3 DEF NoUsage
<1> QED
  BY <1>1, <1>2, <1>3, CreateAccountKeepsBooks, DepositKeepsBooks, UpdateBalanceKeepsBooks, RecordUsageKeepsBooks,
     CrashKeepsBooks DEF GatewayNext

(***************************************************************************)
(* The books of all accounts together are off by at most one write for     *)
(* each crash, whatever clients retry and wherever the process dies.       *)
(***************************************************************************)
THEOREM BooksStayExplained == GatewaySpec => []BooksOffByCrashes
<1>1. GatewayInvariant /\ [GatewayNext]_gatewayVars => GatewayInvariant'
  BY GatewayStep
<1>2. GatewayInvariant /\ GatewayInvariant' /\ BooksInvariant /\ [GatewayNext]_gatewayVars => BooksInvariant'
  BY BooksStep
<1>3. BooksInvariant => BooksOffByCrashes
  BY DEF BooksInvariant
<1> QED
  BY <1>1, <1>2, <1>3, GatewayInitially, BooksInitially, PTL DEF GatewaySpec
=============================================================================
