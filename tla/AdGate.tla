------------------------------- MODULE AdGate -------------------------------
(***************************************************************************)
(* When a session shows an ad: maybeShowAd of                              *)
(* packages/opencode/src/session/codefree.ts with the selection and the    *)
(* frequency caps of packages/core/src/ad/injector.ts.                     *)
(*                                                                         *)
(* A call is forked by the session's processor after reasoning and after   *)
(* each tool result, so calls of one session run beside each other.  A     *)
(* call reads the session's pacing, awaits the ad server and the           *)
(* publication, and writes the pacing last.  All sessions of the process   *)
(* share the counters of the advertisers.  Time is counted in ticks.       *)
(***************************************************************************)
EXTENDS Integers, FiniteSets

CONSTANTS
  Sessions,      \* sessions of the process
  Advertisers,   \* advertisers of the pool
  NoAd,          \* no ad is selected
  Slots,         \* calls of maybeShowAd in flight together
  MaxPerHour,    \* max_ads_per_hour
  FrequencyCap,  \* frequency_cap
  Interval,      \* min_interval_ms, in ticks
  Hour,          \* ticks of an hour
  Starts,        \* ticks past the hour at which the process may start
  MaxTime,       \* BOUND: ticks that are looked at
  MaxAds         \* BOUND: ads of a session between two resets

ASSUME AdGateAssumption ==
  /\ Sessions # {} /\ IsFiniteSet(Slots)
  /\ MaxPerHour \in Nat \ {0} /\ FrequencyCap \in Nat \ {0}
  /\ Interval \in Nat /\ Hour \in Nat \ {0}
  /\ Starts \subseteq 0 .. Hour - 1

VARIABLES
  clock,      \* ticks since an hour began
  due,        \* when the timer of the counters fires next
  period,     \* what it is set to
  lastAd,     \* lastAdTimes
  count,      \* adCountsThisHour
  shownOf,    \* advertiserCounts
  slot,       \* slot[t]: the call that runs there
  \* What has been shown, which the code does not keep:
  hourly,     \* hourly[s]: ads of session s in this hour of the clock
  since,      \* since[s]: ads of s since the timer fired
  lastShown,  \* lastShown[s]: when the last ad of s was published
  cut         \* sessions a call of which ended between publication and pacing

adVars == <<clock, due, period, lastAd, count, shownOf, slot, hourly, since, lastShown, cut>>
pacing == <<lastAd, count>>
adsShown == <<hourly, since, lastShown>>

NoCall == [at |-> "idle", session |-> CHOOSE s \in Sessions : TRUE, advertiser |-> NoAd, beside |-> FALSE]
SlotAt(t, point) == slot[t].at = point
Occupied(t, s) == slot[t].session = s /\ ~SlotAt(t, "idle")
SlotRests(t) == slot' = [slot EXCEPT ![t] = NoCall]
SlotGoes(t, point) == slot' = [slot EXCEPT ![t].at = point]

\* The timer is an interval of what was left of the hour when the process started.
AdInit ==
  /\ clock \in Starts
  /\ period = Hour - clock
  /\ due = clock + period
  /\ lastAd = [s \in Sessions |-> clock - Interval]
  /\ count = [s \in Sessions |-> 0]
  /\ shownOf = [a \in Advertisers |-> 0]
  /\ slot = [t \in Slots |-> NoCall]
  /\ hourly = [s \in Sessions |-> 0]
  /\ since = [s \in Sessions |-> 0]
  /\ lastShown = lastAd
  /\ cut = {}

-----------------------------------------------------------------------------
(***************************************************************************)
(* shouldShowAd, then selectAd from what the ad server or its fallback     *)
(* gave; the rotation among the eligible ads is left open.                 *)
(***************************************************************************)
ReachedCap(s) == count[s] <= MaxPerHour   \* mutant: the cap is inclusive
BelowCap(s) == count[s] < MaxPerHour
Rested(s) == clock - lastAd[s] >= Interval

OpenSlot(t, s) ==
  /\ SlotAt(t, "idle")
  /\ Rested(s) /\ BelowCap(s)
  /\ slot' = [r \in Slots |->
       IF r = t THEN [slot[t] EXCEPT !.at = "fetch", !.session = s, !.beside = \E q \in Slots : Occupied(q, s)]
       ELSE IF Occupied(r, s) THEN [slot[r] EXCEPT !.beside = TRUE]
       ELSE slot[r]]
  /\ UNCHANGED <<clock, due, period, pacing, shownOf, adsShown, cut>>

Eligible(a) == shownOf[a] < FrequencyCap

SelectAd(t) ==
  /\ SlotAt(t, "fetch")
  /\ IF \E a \in Advertisers : Eligible(a)
       THEN \E a \in Advertisers :
              Eligible(a) /\ slot' = [slot EXCEPT ![t].at = "publish", ![t].advertiser = a]
       ELSE SlotRests(t)
  /\ UNCHANGED <<clock, due, period, pacing, shownOf, adsShown, cut>>

\* publishPart succeeds, or fails and nothing of the ad remains.
PublishAd(t) ==
  LET s == slot[t].session IN
  /\ SlotAt(t, "publish")
  /\ since[s] < MaxAds
  /\ SlotGoes(t, "track")
  /\ hourly' = [hourly EXCEPT ![s] = @ + 1]
  /\ since' = [since EXCEPT ![s] = @ + 1]
  /\ lastShown' = [lastShown EXCEPT ![s] = clock]
  /\ UNCHANGED <<clock, due, period, pacing, shownOf, cut>>

PublishAdFails(t) ==
  /\ SlotAt(t, "publish")
  /\ SlotRests(t)
  /\ UNCHANGED <<clock, due, period, pacing, shownOf, adsShown, cut>>

\* trackImpression; the impression, the report and the event follow and may fail.
TrackAd(t) ==
  /\ SlotAt(t, "track")
  /\ shownOf' = [shownOf EXCEPT ![slot[t].advertiser] = @ + 1]
  /\ SlotGoes(t, "pace")
  /\ UNCHANGED <<clock, due, period, pacing, adsShown, cut>>

OldTime(s) == lastAd   \* mutant: the time of the ad is not written
StampTime(s) == [lastAd EXCEPT ![s] = clock]

PaceAd(t) ==
  LET s == slot[t].session IN
  /\ SlotAt(t, "pace")
  /\ lastAd' = StampTime(s)
  /\ count' = [count EXCEPT ![s] = @ + 1]
  /\ SlotRests(t)
  /\ UNCHANGED <<clock, due, period, shownOf, adsShown, cut>>

\* The scope of the processor closes and interrupts what it has forked.
InterruptAd(t) ==
  /\ ~SlotAt(t, "idle")
  /\ SlotRests(t)
  /\ cut' = IF slot[t].at \in {"track", "pace"} THEN cut \union {slot[t].session} ELSE cut
  /\ UNCHANGED <<clock, due, period, pacing, shownOf, adsShown>>

-----------------------------------------------------------------------------
\* A tick, with the timer of the counters when it is due.
AdTick ==
  /\ clock < MaxTime
  /\ clock' = clock + 1
  /\ hourly' = IF (clock + 1) % Hour = 0 THEN [s \in Sessions |-> 0] ELSE hourly
  /\ IF clock + 1 = due
       THEN /\ count' = [s \in Sessions |-> 0]
            /\ shownOf' = [a \in Advertisers |-> 0]
            /\ since' = [s \in Sessions |-> 0]
            /\ due' = due + period
       ELSE UNCHANGED <<count, shownOf, since, due>>
  /\ UNCHANGED <<period, lastAd, slot, lastShown, cut>>

AdNext ==
  \/ AdTick
  \/ \E t \in Slots :
       \/ \E s \in Sessions : OpenSlot(t, s)
       \/ SelectAd(t) \/ PublishAd(t) \/ PublishAdFails(t) \/ TrackAd(t) \/ PaceAd(t) \/ InterruptAd(t)

AdSpec == AdInit /\ [][AdNext]_adVars

-----------------------------------------------------------------------------
AdTypeOK ==
  /\ clock \in Nat /\ due \in Nat /\ period \in 1 .. Hour
  /\ lastAd \in [Sessions -> Int] /\ lastShown \in [Sessions -> Int]
  /\ count \in [Sessions -> Nat] /\ hourly \in [Sessions -> Nat] /\ since \in [Sessions -> Nat]
  /\ shownOf \in [Advertisers -> Nat]
  /\ slot \in [Slots -> [at : {"idle", "fetch", "publish", "track", "pace"},
                         session : Sessions, advertiser : Advertisers \union {NoAd}, beside : BOOLEAN]]
  /\ cut \subseteq Sessions

(***************************************************************************)
(* The gate lets a session show at most as many ads between two resets as  *)
(* the cap allows, and one for each call beside the last; an advertiser    *)
(* likewise.  A call that was interrupted after its publication is not     *)
(* counted by the code.                                                    *)
(***************************************************************************)
CapsHold ==
  /\ \A s \in Sessions \ cut : since[s] <= MaxPerHour + Cardinality(Slots) - 1
  /\ \A a \in Advertisers : shownOf[a] <= FrequencyCap + Cardinality(Slots) - 1

(***************************************************************************)
(* Two ads of a session are at least the interval apart, however long a    *)
(* call takes to fetch and to publish, unless it ran beside another call   *)
(* of the session.                                                         *)
(***************************************************************************)
Spaced ==
  [][\A t \in Slots :
       LET s == slot[t].session IN
       SlotAt(t, "publish") /\ slot'[t].at = "track" /\ ~slot[t].beside /\ s \notin cut
         => clock - lastShown[s] >= Interval]_adVars

(***************************************************************************)
(* session/codefree.ts:72: "Reset hourly counters at the top of each hour  *)
(* so the max_ads_per_hour cap is per-hour, not lifetime."                 *)
(***************************************************************************)
AtMostPerHour == \A s \in Sessions \ cut : hourly[s] <= MaxPerHour
=============================================================================
