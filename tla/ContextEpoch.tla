---------------------------- MODULE ContextEpoch ----------------------------
(***************************************************************************)
(* The system context a session has shown to its model:                    *)
(* core/src/session/context-epoch.ts, with the turn of runner/llm.ts that  *)
(* prepares it and the projections of projector.ts that disturb it.        *)
(*                                                                         *)
(* One session.  Its epoch holds the baseline that opened it and a         *)
(* snapshot to compare with; what has changed since is told by system      *)
(* messages of the history.  Drains of several processes over one database *)
(* prepare turns; every statement is a step, and a transaction is one.     *)
(* What a drain observes is a value that names the place and the agent it  *)
(* was observed for and the state of the world at the time.                *)
(***************************************************************************)
EXTENDS Naturals, FiniteSets

CONSTANTS
  Drains,        \* runs of the session runner, in several processes
  Places,        \* locations of the session
  Agents,        \* agents
  DefaultAgent,  \* the agent of a session that names none
  NoAgent,       \* the session names no agent
  NoEpoch,       \* the session has no row in session_context_epoch
  Unread,        \* what a drain has not read yet
  Unavailable,   \* a source could not be observed
  MaxEvents,     \* BOUND: the number of the session's last event
  MaxWorld       \* BOUND: states of the world are 0 .. MaxWorld

ASSUME EpochAssumption ==
  /\ DefaultAgent \in Agents /\ NoAgent \notin Agents
  /\ MaxEvents \in Nat /\ MaxWorld \in Nat

VARIABLES
  events,      \* the number of the session's last event
  place,       \* the session's location
  selected,    \* the session's agent, or NoAgent
  epoch,       \* the row of session_context_epoch, or NoEpoch
  updates,     \* the system messages of the history: their number and value
  world,       \* the state of the files, skills and clock that sources observe
  drain,       \* drain[d]: the turn that drain d prepares
  behind,      \* the drains whose turn began before the session's last move
  overlapped   \* a moved session was initialized while a drain was behind

epochVars == <<events, place, selected, epoch, updates, world, drain, behind, overlapped>>

NoRequest == 0   \* replacement_seq is null; requests are numbered from 1
Value == [place : Places, agent : Agents, world : 0 .. MaxWorld]
EpochRow ==
  [agent : Agents, baseline : Value, since : 0 .. MaxEvents, snapshot : Value,
   wanted : 0 .. MaxEvents, revision : Nat]

ASSUME NoRowIsNoRow == NoEpoch \notin EpochRow /\ Unread \notin EpochRow

Drain(at, p, a) == [at |-> at, place |-> p, agent |-> a, seen |-> Unread, stored |-> Unread, told |-> Unread]
Resting(d) == Drain("resting", drain[d].place, drain[d].agent)

EpochInit ==
  /\ events = 0
  /\ place \in Places
  /\ selected = NoAgent
  /\ epoch = NoEpoch
  /\ updates = {}
  /\ world = 0
  /\ drain = [d \in Drains |-> Drain("resting", place, DefaultAgent)]
  /\ behind = {}
  /\ overlapped = FALSE

Chosen == IF selected = NoAgent THEN DefaultAgent ELSE selected
Selects(a) == selected = NoAgent \/ selected = a
At(d, point) == drain[d].at = point
InTurn(d) == drain[d].at \notin {"resting", "turn"}
Becomes(d, turn) == drain' = [drain EXCEPT ![d] = turn]
OnlyDrains == UNCHANGED <<events, place, selected, epoch, updates, world, behind, overlapped>>

-----------------------------------------------------------------------------
(***************************************************************************)
(* The session changes: an agent is selected, its model is switched or its *)
(* history compacted, it moves.  Each is an event with its projection.     *)
(***************************************************************************)
Requested ==
  IF epoch = NoEpoch THEN NoEpoch
  ELSE IF epoch.since < events + 1 /\ epoch.wanted < events + 1
    THEN [epoch EXCEPT !.wanted = events + 1, !.revision = @ + 1]
  ELSE epoch

NextEvent == events < MaxEvents /\ events' = events + 1

SwitchAgent(a) ==
  /\ NextEvent
  /\ selected' = a
  /\ epoch' = Requested
  /\ UNCHANGED <<place, updates, world, drain, behind, overlapped>>

Compact ==
  /\ NextEvent
  /\ epoch' = Requested
  /\ UNCHANGED <<place, selected, updates, world, drain, behind, overlapped>>

Move(p) ==
  /\ p # place
  /\ NextEvent
  /\ place' = p
  /\ epoch' = NoEpoch
  /\ behind' = {d \in Drains : InTurn(d)}
  /\ UNCHANGED <<selected, updates, world, drain, overlapped>>

ChangeWorld ==
  /\ world < MaxWorld
  /\ world' = world + 1
  /\ UNCHANGED <<events, place, selected, epoch, updates, drain, behind, overlapped>>

-----------------------------------------------------------------------------
(***************************************************************************)
(* runTurnAttempt: a drain runs at the location it was started for.  It    *)
(* creates a missing epoch before it promotes input, and prepares an       *)
(* existing one after.                                                     *)
(***************************************************************************)
Start(d) ==
  /\ At(d, "resting")
  /\ Becomes(d, Drain("turn", place, Chosen))
  /\ OnlyDrains

BeginTurn(d) ==
  /\ At(d, "turn")
  /\ Becomes(d, IF drain[d].place = place THEN Drain("initialize", place, Chosen) ELSE Resting(d))
  /\ behind' = behind \ {d}
  /\ UNCHANGED <<events, place, selected, epoch, updates, world, overlapped>>

Again(d, point) == Becomes(d, Drain(point, drain[d].place, drain[d].agent))
Rebuild(d) == Again(d, "turn")

LookForEpoch(d) ==
  /\ At(d, "initialize")
  /\ Again(d, IF epoch = NoEpoch THEN "seed" ELSE "prepare")
  /\ OnlyDrains

Observed(d) == [place |-> drain[d].place, agent |-> drain[d].agent, world |-> world]

\* The sources are observed; a part of them is while the epoch is read.
Observe(d) ==
  /\ drain[d].at \in {"seed", "prepare"}
  /\ drain[d].seen = Unread
  /\ \/ Becomes(d, [drain[d] EXCEPT !.seen = Observed(d)])
     \/ Becomes(d, [drain[d] EXCEPT !.seen = Unavailable])
  /\ OnlyDrains

FindEpoch(d) ==
  /\ At(d, "prepare")
  /\ drain[d].stored = Unread
  /\ Becomes(d, [drain[d] EXCEPT !.stored = epoch])
  /\ OnlyDrains

(***************************************************************************)
(* insert: the first epoch, if the session is still where the drain is and *)
(* still has its agent.  An initialization that is blocked ends the drain. *)
(***************************************************************************)
NoRow(d) == At(d, "seed") \/ (At(d, "prepare") /\ drain[d].stored = NoEpoch)

NewRow(d) ==
  [agent |-> drain[d].agent, baseline |-> drain[d].seen, since |-> events,
   snapshot |-> drain[d].seen, wanted |-> NoRequest, revision |-> 0]

Ready(d, row) == Becomes(d, [drain[d] EXCEPT !.at = "ready", !.stored = row])

Insert(d) ==
  /\ NoRow(d)
  /\ drain[d].seen # Unread
  /\ IF drain[d].seen # Unavailable /\ drain[d].place = place /\ Selects(drain[d].agent) /\ epoch = NoEpoch
       THEN /\ epoch' = NewRow(d)
            /\ Ready(d, NewRow(d))
            /\ overlapped' = (overlapped \/ \E b \in behind \ {d} : InTurn(b))
       ELSE /\ IF drain[d].seen = Unavailable \/ drain[d].place # place THEN Becomes(d, Resting(d))
               ELSE IF ~Selects(drain[d].agent) THEN Rebuild(d)
               ELSE Again(d, IF At(d, "seed") THEN "initialize" ELSE "prepare")
            /\ UNCHANGED <<epoch, overlapped>>
  /\ UNCHANGED <<events, place, selected, updates, world, behind>>

(***************************************************************************)
(* reconcile and replace of the system context compare what was observed   *)
(* with the stored snapshot.  A changed value is told by an update, unless *)
(* one of its sources has no rendering for the change.                     *)
(***************************************************************************)
HasRow(d) == At(d, "prepare") /\ drain[d].stored \notin {Unread, NoEpoch} /\ drain[d].seen # Unread
SameAgent(d) == FALSE   \* mutant: the agent of the epoch is not compared
ReplacingAgent(d) == drain[d].stored.agent # drain[d].agent
MustReplace(d) == drain[d].stored.wanted # NoRequest \/ ReplacingAgent(d)
Blind(d) == drain[d].seen = Unavailable
Differs(d) == drain[d].seen # drain[d].stored.snapshot

TellsNothing(d) == Blind(d) \/ (~MustReplace(d) /\ ~Differs(d))

\* The row is still the one the drain has read.
AnyRevision(d) == epoch # NoEpoch   \* mutant: the revision is not compared
Unchanged(d) == epoch # NoEpoch /\ epoch.revision = drain[d].stored.revision

\* fence: nothing is written, but the row must still be what was read.
Fence(d) ==
  /\ HasRow(d)
  /\ TellsNothing(d)
  /\ IF epoch = NoEpoch \/ ~Selects(drain[d].agent) THEN Rebuild(d)
     ELSE IF ~Unchanged(d) THEN Again(d, "prepare")
     ELSE IF ReplacingAgent(d) THEN Becomes(d, Resting(d))
     ELSE Ready(d, drain[d].stored)
  /\ OnlyDrains

\* The number of the request, or of the last event, read before the transaction.
BaselineSeq(d) == IF drain[d].stored.wanted # NoRequest THEN drain[d].stored.wanted ELSE events

ReplacedRow(d) ==
  [agent |-> drain[d].agent, baseline |-> drain[d].seen, since |-> BaselineSeq(d),
   snapshot |-> drain[d].seen, wanted |-> NoRequest, revision |-> drain[d].stored.revision + 1]

Replace(d) ==
  /\ HasRow(d)
  /\ ~Blind(d)
  /\ MustReplace(d) \/ Differs(d)
  /\ IF Selects(drain[d].agent) /\ Unchanged(d)
       THEN epoch' = ReplacedRow(d) /\ Ready(d, ReplacedRow(d))
       ELSE /\ IF Selects(drain[d].agent) THEN Again(d, "prepare") ELSE Rebuild(d)
            /\ UNCHANGED epoch
  /\ UNCHANGED <<events, place, selected, updates, world, behind, overlapped>>

\* advance, in the transaction of the event that carries the update.
Advanced(row, value) == [row EXCEPT !.snapshot = value, !.revision = @ + 1]

Update(d) ==
  /\ HasRow(d)
  /\ ~Blind(d)
  /\ ~MustReplace(d) /\ Differs(d)
  /\ IF Unchanged(d) /\ epoch.wanted = NoRequest
       THEN /\ NextEvent
            /\ updates' = updates \union {[seq |-> events + 1, value |-> drain[d].seen]}
            /\ epoch' = Advanced(epoch, drain[d].seen)
            /\ Ready(d, Advanced(drain[d].stored, drain[d].seen))
       ELSE Again(d, "prepare") /\ UNCHANGED <<events, updates, epoch>>
  /\ UNCHANGED <<place, selected, world, behind, overlapped>>

(***************************************************************************)
(* The prepared turn: the agent is read again, the history is loaded, and  *)
(* the epoch must be current before the provider is called.                *)
(***************************************************************************)
Reread(d) ==
  /\ At(d, "ready")
  /\ IF Chosen = drain[d].agent THEN Becomes(d, [drain[d] EXCEPT !.at = "load"]) ELSE Rebuild(d)
  /\ OnlyDrains

UpdatesAfter(n) == {u \in updates : u.seq > n}
Told(row) ==
  IF UpdatesAfter(row.since) = {} THEN row.baseline
  ELSE (CHOOSE u \in UpdatesAfter(row.since) : \A w \in UpdatesAfter(row.since) : w.seq <= u.seq).value

LoadHistory(d) ==
  /\ At(d, "load")
  /\ Becomes(d, [drain[d] EXCEPT !.at = "check", !.told = Told(drain[d].stored)])
  /\ OnlyDrains

OnlyAgent(d) == epoch # NoEpoch /\ epoch.agent = drain[d].agent   \* mutant: the revision is not looked at
Current(d) ==
  /\ epoch # NoEpoch
  /\ epoch.agent = drain[d].agent
  /\ Selects(drain[d].agent)
  /\ epoch.revision = drain[d].stored.revision

Call(d) ==
  /\ At(d, "check")
  /\ IF Current(d) THEN Becomes(d, [drain[d] EXCEPT !.at = "calling"]) ELSE Rebuild(d)
  /\ OnlyDrains

\* The provider's turn ends; the drain takes another one or is done.
EndTurn(d) ==
  /\ At(d, "calling")
  /\ Rebuild(d) \/ Becomes(d, Resting(d))
  /\ OnlyDrains

-----------------------------------------------------------------------------
EpochNext ==
  \/ \E a \in Agents : SwitchAgent(a)
  \/ Compact
  \/ \E p \in Places : Move(p)
  \/ ChangeWorld
  \/ \E d \in Drains :
       \/ Start(d) \/ BeginTurn(d) \/ LookForEpoch(d) \/ Observe(d) \/ FindEpoch(d) \/ Insert(d)
       \/ Fence(d) \/ Replace(d) \/ Update(d)
       \/ Reread(d) \/ LoadHistory(d) \/ Call(d) \/ EndTurn(d)

EpochSpec == EpochInit /\ [][EpochNext]_epochVars

-----------------------------------------------------------------------------
Points == {"resting", "turn", "initialize", "seed", "prepare", "ready", "load", "check", "calling"}

EpochTypeOK ==
  /\ events \in 0 .. MaxEvents
  /\ place \in Places
  /\ selected \in Agents \union {NoAgent}
  /\ epoch \in EpochRow \union {NoEpoch}
  /\ updates \subseteq [seq : 1 .. MaxEvents, value : Value]
  /\ world \in 0 .. MaxWorld
  /\ drain \in [Drains -> [at : Points, place : Places, agent : Agents, seen : Value \union {Unread, Unavailable},
                           stored : EpochRow \union {NoEpoch, Unread}, told : Value \union {Unread}]]
  /\ behind \subseteq Drains
  /\ overlapped \in BOOLEAN

Calls(d) == At(d, "check") /\ drain'[d].at = "calling"

(***************************************************************************)
(* The provider is never shown the context of another agent than the one   *)
(* the session has when its request leaves, whatever is selected while the *)
(* turn is prepared (specs/v2/session.md:75, "instead of exposing the      *)
(* prior agent's privileged baseline") - unless a drain of another place   *)
(* was still behind when the session was initialized after a move.         *)
(***************************************************************************)
OwnAgentOnly ==
  [][\A d \in Drains : Calls(d) /\ ~overlapped =>
       drain[d].told.agent = drain[d].agent /\ Selects(drain[d].agent)]_epochVars

(***************************************************************************)
(* specs/v2/session.md:75: the epoch's row is fenced by location, agent    *)
(* and revision, "preventing stale or ABA-observed context from becoming   *)
(* durable".  What is stored was observed for the place of the session.    *)
(***************************************************************************)
NoStaleContext == epoch # NoEpoch => epoch.snapshot.place = place

(***************************************************************************)
(* What the provider is told - the baseline, or the last update after it - *)
(* is what the stored snapshot says it was told, so that the next update   *)
(* is computed from what the model knows; and it is about the place where  *)
(* the session is.  Drains of two places of one session can break this.    *)
(***************************************************************************)
ToldTheSnapshot ==
  [][\A d \in Drains : Calls(d) /\ ~overlapped =>
       drain[d].told = epoch.snapshot /\ epoch.snapshot.place = place]_epochVars

(***************************************************************************)
(* A request for a replacement is answered only by a baseline that covers  *)
(* the event that made it, or by forgetting the epoch.                     *)
(***************************************************************************)
RequestHonoured ==
  [][epoch # NoEpoch /\ epoch' # NoEpoch /\ ~overlapped =>
       epoch'.wanted # NoRequest \/ epoch'.since >= epoch.wanted]_epochVars

=============================================================================
