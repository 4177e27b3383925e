------------------------------ MODULE Rewards ------------------------------
(***************************************************************************)
(* Credits for ads that were seen or clicked: completeImpression and       *)
(* creditAdClick of packages/core/src/codefree.ts, with the impressions of *)
(* packages/core/src/ad/service.ts and the wallet of the module Wallet.    *)
(*                                                                         *)
(* A call is a fiber of one of the processes that share the database: the  *)
(* session and the HTTP handler both complete and click impressions.       *)
(* Every statement is a step; markCredited and recordClick read the row    *)
(* and write it in two.                                                    *)
(***************************************************************************)
EXTENDS Wallet, FiniteSets

CONSTANTS
  Claims,        \* calls in flight together
  Impressions,   \* ids of impressions
  NoImpression,  \* no row, or a call at rest
  ViewReward,    \* AD_VIEW_CREDIT_REWARD
  ClickReward,   \* AFFILIATE_CLICK_CREDIT_REWARD
  DailyCap,      \* MAX_DAILY_CREDITS
  MaxDays        \* BOUND: days that are looked at

ASSUME ClaimsAssumption == IsFiniteSet(Claims) /\ Claims # {}
ASSUME RewardAssumption ==
  /\ ViewReward \in Nat \ {0} /\ ClickReward \in Nat \ {0}
  /\ DailyCap \in Nat /\ ViewReward <= DailyCap /\ ClickReward <= DailyCap

VARIABLES
  impression,  \* impression[i]: the row of table ad_impression, or NoImpression
  claim,       \* claim[c]: what call c is at, for which impression and user
  yesterday,   \* yesterday[u]: what u had earned when the day began
  day,
  paid,        \* paid[i]: transactions of a kind that refer to i
  raced,       \* raced[i]: kinds two calls read as open for i before one wrote
  orphaned     \* orphaned[i]: kinds whose call died before it paid for i

rewardVars == <<wallet, ledger, call, impression, claim, yesterday, day, paid, raced, orphaned>>
rewardBooks == <<wallet, ledger>>
claimHistory == <<raced, orphaned>>

RewardKinds == {"view", "click"}
ImpressionRow == [ripe : BOOLEAN, done : SUBSET RewardKinds]
ASSUME NoImpressionAssumption == NoImpression \notin ImpressionRow
Reward(kind) == IF kind = "view" THEN ViewReward ELSE ClickReward
TypeOf(kind) == IF kind = "view" THEN "ad_view" ELSE "affiliate_click"

NoClaim == [at |-> "idle", kind |-> "view", for |-> NoImpression, user |-> CHOOSE u \in Users : TRUE]

RewardInit ==
  /\ wallet = [u \in Users |-> <<>>]
  /\ ledger = [u \in Users |-> <<>>]
  /\ call = [c \in Calls |-> Idle]
  /\ impression = [i \in Impressions |-> NoImpression]
  /\ claim = [c \in Claims |-> NoClaim]
  /\ yesterday = [u \in Users |-> 0]
  /\ day = 0
  /\ paid = [i \in Impressions |-> [k \in RewardKinds |-> 0]]
  /\ raced = [i \in Impressions |-> {}]
  /\ orphaned = [i \in Impressions |-> {}]

Recorded(i) == impression[i] # NoImpression
ClaimAt(c, kind, point) == claim[c].kind = kind /\ claim[c].at = point
ClaimGoes(c, point) == claim' = [claim EXCEPT ![c].at = point]
Returns(c) == claim' = [claim EXCEPT ![c] = NoClaim]

-----------------------------------------------------------------------------
\* recordImpression, and the slot's minimum duration that passes after it.
RecordImpression(i) ==
  /\ ~Recorded(i)
  /\ impression' = [impression EXCEPT ![i] = [ripe |-> FALSE, done |-> {}]]
  /\ UNCHANGED <<rewardBooks, call, claim, yesterday, day, paid, claimHistory>>

Ripen(i) ==
  /\ Recorded(i)
  /\ ~impression[i].ripe
  /\ impression' = [impression EXCEPT ![i].ripe = TRUE]
  /\ UNCHANGED <<rewardBooks, call, claim, yesterday, day, paid, claimHistory>>

(***************************************************************************)
(* getEarnedToday: the rows of the found wallet since midnight, of the     *)
(* types ad_view and affiliate_click.                                      *)
(***************************************************************************)
Earned(u) == IF HasWallet(u) THEN ledger[u][Found(u)]["ad_view"] + ledger[u][Found(u)]["affiliate_click"] ELSE 0
EarnedToday(u) == Earned(u) - yesterday[u]

NextDay ==
  /\ day < MaxDays
  /\ day' = day + 1
  /\ yesterday' = [u \in Users |-> Earned(u)]
  /\ UNCHANGED <<rewardBooks, call, impression, claim, paid, claimHistory>>

(***************************************************************************)
(* The order of a call: a view is looked up, capped, marked and paid; a    *)
(* click is recorded first.                                                *)
(***************************************************************************)
MarkFirst(kind) == <<"mark", "write", "cap", "pay">>   \* mutant: a view is marked before the cap is checked
PointsOf(kind) == IF kind = "view" THEN <<"cap", "mark", "write", "pay">> ELSE <<"mark", "write", "cap", "pay">>
NextPoint(c, point) ==
  LET order == PointsOf(claim[c].kind)
      here == CHOOSE n \in DOMAIN order : order[n] = point
  IN  order[here + 1]

\* completeImpression returns at once for an unknown, credited or fresh impression.
BeginView(c, u, i) ==
  /\ claim[c].at = "idle"
  /\ Recorded(i) /\ "view" \notin impression[i].done /\ impression[i].ripe
  /\ claim' = [claim EXCEPT ![c] = [at |-> PointsOf("view")[1], kind |-> "view", for |-> i, user |-> u]]
  /\ UNCHANGED <<rewardBooks, call, impression, yesterday, day, paid, claimHistory>>

BeginClick(c, u, i) ==
  /\ claim[c].at = "idle"
  /\ claim' = [claim EXCEPT ![c] = [at |-> PointsOf("click")[1], kind |-> "click", for |-> i, user |-> u]]
  /\ UNCHANGED <<rewardBooks, call, impression, yesterday, day, paid, claimHistory>>

EarnedOnly(u, reward) == EarnedToday(u) > DailyCap   \* mutant: the reward itself is not counted
ExceedsDailyCap(u, reward) == EarnedToday(u) + reward > DailyCap

CheckCap(c) ==
  LET k == claim[c] IN
  /\ k.at = "cap"
  /\ IF ExceedsDailyCap(k.user, Reward(k.kind)) THEN Returns(c) ELSE ClaimGoes(c, NextPoint(c, "cap"))
  /\ UNCHANGED <<rewardBooks, call, impression, yesterday, day, paid, claimHistory>>

\* markCredited and recordClick: a select, then an update of the row.
StillThere(i, kind) == Recorded(i)   \* mutant: the mark is not read again
Unmarked(i, kind) == Recorded(i) /\ kind \notin impression[i].done

ReadMark(c) ==
  LET k == claim[c]
      others == {d \in Claims : ClaimAt(d, k.kind, "write") /\ claim[d].for = k.for}
  IN
  /\ k.at = "mark"
  /\ IF Unmarked(k.for, k.kind)
       THEN /\ ClaimGoes(c, "write")
            /\ raced' = IF others = {} THEN raced ELSE [raced EXCEPT ![k.for] = @ \union {k.kind}]
       ELSE Returns(c) /\ UNCHANGED raced
  /\ UNCHANGED <<rewardBooks, call, impression, yesterday, day, paid, orphaned>>

WriteMark(c) ==
  LET k == claim[c] IN
  /\ k.at = "write"
  /\ impression' = [impression EXCEPT ![k.for].done = @ \union {k.kind}]
  /\ ClaimGoes(c, NextPoint(c, "write"))
  /\ UNCHANGED <<rewardBooks, call, yesterday, day, paid, claimHistory>>

Pay(c) ==
  LET k == claim[c] IN
  /\ k.at = "pay"
  /\ CreditWallet(k.user, TypeOf(k.kind), Reward(k.kind))
  /\ paid' = [paid EXCEPT ![k.for][k.kind] = @ + 1]
  /\ Returns(c)
  /\ UNCHANGED <<impression, yesterday, day, claimHistory>>

\* The process of a call dies between two statements.
ClaimDies(c) ==
  LET k == claim[c] IN
  /\ k.at # "idle"
  /\ orphaned' = IF k.at = "pay" THEN [orphaned EXCEPT ![k.for] = @ \union {k.kind}] ELSE orphaned
  /\ Returns(c)
  /\ UNCHANGED <<rewardBooks, call, impression, yesterday, day, paid, raced>>

RewardNext ==
  \/ \E i \in Impressions : RecordImpression(i) \/ Ripen(i)
  \/ NextDay
  \/ \E c \in Claims :
       \/ \E u \in Users, i \in Impressions : BeginView(c, u, i) \/ BeginClick(c, u, i)
       \/ CheckCap(c) \/ ReadMark(c) \/ WriteMark(c) \/ Pay(c) \/ ClaimDies(c)

RewardSpec == RewardInit /\ [][RewardNext]_rewardVars

-----------------------------------------------------------------------------
RewardTypeOK ==
  /\ impression \in [Impressions -> ImpressionRow \union {NoImpression}]
  /\ claim \in [Claims -> [at : {"idle", "cap", "mark", "write", "pay"}, kind : RewardKinds,
                           for : Impressions \union {NoImpression}, user : Users]]
  /\ yesterday \in [Users -> Nat] /\ day \in 0 .. MaxDays
  /\ paid \in [Impressions -> [RewardKinds -> Nat]]
  /\ raced \in [Impressions -> SUBSET RewardKinds] /\ orphaned \in [Impressions -> SUBSET RewardKinds]

Paying(i, kind) == {c \in Claims : claim[c].for = i /\ ClaimAt(c, kind, "pay")}

(***************************************************************************)
(* An impression is paid for once, and its click once, unless two calls    *)
(* read the row before one of them wrote it: the mark is no transaction.   *)
(* However many calls come, each of those that raced pays once.            *)
(***************************************************************************)
PaidOnce ==
  \A i \in Impressions, k \in RewardKinds :
    LET payments == paid[i][k] + Cardinality(Paying(i, k)) IN
    /\ k \notin raced[i] => payments <= 1
    /\ payments <= Cardinality(Claims)

(***************************************************************************)
(* What a user earns in a day exceeds the daily cap by no more than the    *)
(* calls that had passed the cap beside the last one.                      *)
(***************************************************************************)
LargestReward == IF ViewReward > ClickReward THEN ViewReward ELSE ClickReward
DailyCapHolds ==
  \A u \in Users : EarnedToday(u) <= DailyCap + (Cardinality(Claims) - 1) * LargestReward

(***************************************************************************)
(* A view that was marked is paid for, or will be by a call in flight,     *)
(* unless that call died: the cap is checked before the mark, so a view    *)
(* the cap refused can still be completed the next day.                    *)
(***************************************************************************)
MarkedIsPaid ==
  \A i \in Impressions :
    Recorded(i) /\ "view" \in impression[i].done =>
      paid[i]["view"] > 0 \/ Paying(i, "view") # {} \/ "view" \in orphaned[i]
=============================================================================
