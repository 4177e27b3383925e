-------------------------- MODULE SessionExecution --------------------------
(***************************************************************************)
(* One session in one process: the inbox (SessionInput), the drain chain   *)
(* (RunCoordinator) and the drain between them, core/src/session.ts,       *)
(* session/execution/local.ts and the run loop of session/runner/llm.ts.   *)
(*                                                                         *)
(* A provider turn is its outcome: the session goes on, it has settled, or *)
(* the turn fails.  A turn that is rebuilt before its request starts over  *)
(* without promoting again, which changes nothing here.                    *)
(***************************************************************************)
EXTENDS SessionInput

CONSTANTS
  Callers,    \* calls of sessions.resume
  NoEntry,    \* the session has no active entry
  MaxSteps    \* MAX_STEPS: provider turns of one activity

ASSUME StepsAssumption == MaxSteps \in Nat \ {0}

VARIABLES
  entry, barrier, caller,   \* of the coordinator
  drain,     \* where the run loop is
  asked,     \* interrupts published and not yet handed to the coordinator
  excused    \* inputs that nothing is bound to promote

Chain == INSTANCE RunCoordinator

ASSUME EntryAssumption == NoEntry \notin Chain!EntryRecord

chainVars == <<entry, barrier, caller>>
executionVars == <<seq, input, message, deleted, client, promoter, chainVars, drain, asked, excused>>

NoDrain == [at |-> "none", promotion |-> "none", step |-> 0]
Forced == entry.current.tag = "run"
AllPending == {id \in Ids : Pending(id)}

\* The demand is for a drain that has to take input id.
Covers(demand, id) == demand.tag = "run" \/ (demand.tag = "wake" /\ input[id].admitted <= demand.seq)

InitExecution ==
  /\ Init
  /\ Chain!Init
  /\ drain = NoDrain
  /\ asked = {}
  /\ excused = {}

-----------------------------------------------------------------------------
(***************************************************************************)
(* sessions.prompt up to its wake, sessions.resume, sessions.interrupt.    *)
(* A wake is taken unless the coordinator ignores it; its input then has   *)
(* to reach the history.                                                   *)
(***************************************************************************)
AskPrompt(c, q) ==
  /\ Prompt(c, q)
  /\ UNCHANGED <<chainVars, drain, asked, excused>>

AdmitPrompt(c) ==
  /\ PublishAdmitted(c)
  /\ UNCHANGED <<chainVars, drain, asked, excused>>

TakesWake(n) == Chain!AfterBoundary(n) /\ (Chain!Active => Chain!AcceptsWake(entry, n))

EnqueueWake(c) ==
  /\ client[c].at = "receipt"
  /\ Return(c)
  /\ Chain!Wake(client[c].admitted)
  /\ excused' = IF TakesWake(client[c].admitted) THEN excused \ {client[c].request.id}
                ELSE excused \union ({client[c].request.id} \intersect AllPending)
  /\ UNCHANGED <<drain, asked>>

\* resume is false, or the prompt was refused
AnswerOnly(c) ==
  /\ client[c].at \in {"receipt", "conflict"}
  /\ Return(c)
  /\ excused' = IF client[c].at = "receipt" THEN excused \union ({client[c].request.id} \intersect AllPending)
                ELSE excused
  /\ UNCHANGED <<chainVars, drain, asked>>

Resume(c) ==
  /\ Chain!CallRun(c)
  /\ UNCHANGED <<seq, input, message, deleted, client, promoter, drain, asked, excused>>

LeaveResume(c) ==
  /\ Chain!GiveUp(c) \/ Chain!Rest(c)
  /\ UNCHANGED <<seq, input, message, deleted, client, promoter, drain, asked, excused>>

RequestInterrupt(s) ==
  /\ Room(s)
  /\ NextEvent(s)
  /\ asked' = asked \union {seq'[s]}
  /\ UNCHANGED <<input, message, deleted, client, promoter, chainVars, drain, excused>>

\* An explicit run that is stopped takes along the inputs that relied on it.
StoppedWith(n) == {id \in AllPending :
  \/ input[id].admitted <= n
  \/ Chain!Active /\ entry.pending = Chain!Run
  \/ Chain!Active /\ Forced /\ ~Covers(entry.pending, id)}

Interrupt(n) ==
  /\ n \in asked
  /\ asked' = asked \ {n}
  /\ \/ Chain!Interrupt(n) /\ excused' = excused \union StoppedWith(n)
     \/ barrier >= n /\ UNCHANGED <<chainVars, excused>>
  /\ UNCHANGED <<seq, input, message, deleted, client, promoter, drain>>

-----------------------------------------------------------------------------
(***************************************************************************)
(* The drain.  It starts with its entry, asks the inbox what is pending,   *)
(* and runs provider turns until neither a steer nor a queued input is     *)
(* left.                                                                   *)
(***************************************************************************)
OfDelivery(d) == {id \in AllPending : input[id].delivery = d}
OnlySteers(d) == OfDelivery("steer") # {}   \* mutant: the queue is not asked
HasPending(d) == OfDelivery(d) # {}

StartDrain ==
  /\ Chain!Begin
  /\ drain' = [NoDrain EXCEPT !.at = "start"]
  /\ UNCHANGED <<seq, input, message, deleted, client, promoter, asked, excused>>

Turn(promotion, step) == drain' = [drain EXCEPT !.at = "turn", !.promotion = promotion, !.step = step]
Go(at) == drain' = [drain EXCEPT !.at = at]

ContinueTurn == IF drain.step = MaxSteps THEN Go("limit") ELSE Turn("steer", drain.step + 1)

Loop ==
  \/ /\ drain.at = "start"
     /\ IF HasPending("steer") THEN Turn("steer", 1) ELSE Go("no steer")
  \/ /\ drain.at = "no steer"
     /\ CASE HasPending("queue") -> Turn("queue", 1)
          [] ~HasPending("queue") /\ Forced -> Turn("none", 1)
          [] OTHER -> Go("done")
  \/ /\ drain.at = "turn" /\ drain.promotion = "none"
     /\ Go("provider")
  \/ /\ drain.at = "provider"   \* the turn needs a continuation, or not
     /\ ContinueTurn \/ Go("settled")
  \/ /\ drain.at = "settled"
     /\ IF HasPending("steer") THEN ContinueTurn ELSE Go("no more")
  \/ /\ drain.at = "no more"
     /\ IF HasPending("queue") THEN Turn("queue", 1) ELSE Go("done")

RunLoop ==
  /\ Loop
  /\ UNCHANGED <<inputVars, chainVars, asked, excused>>

Promote ==
  /\ \E r \in Runners, s \in Sessions :
       \/ drain.at = "turn" /\ drain.promotion # "none" /\ ReadCutoff(r, s, drain.promotion) /\ Go("promoting")
       \/ drain.at = "promoting" /\ (ReadQueued(r) \/ ReadSteers(r)) /\ UNCHANGED drain
       \/ drain.at = "promoting" /\ PublishPromoted(r) /\ UNCHANGED drain
       \/ drain.at = "promoting" /\ Promoted(r) /\ StopPromoting(r) /\ Go("provider")
  /\ excused' = excused \intersect {id \in Ids : input'[id] # NoRow /\ input'[id].promoted = None}
  /\ UNCHANGED <<chainVars, asked>>

StopDrain == drain' = NoDrain /\ promoter' = [r \in Runners |-> Quiet]

DrainDone ==
  /\ drain.at = "done"
  /\ Chain!Settle("success")
  /\ StopDrain
  /\ UNCHANGED <<seq, input, message, deleted, client, asked, excused>>

\* No context, no model, a failing provider or tool, or StepLimitExceeded
DrainFails ==
  /\ drain.at \in {"start", "turn", "promoting", "provider", "limit"}
  /\ Chain!Settle("failure")
  /\ StopDrain
  /\ excused' = excused \union {id \in AllPending : ~Covers(entry.pending, id)}
  /\ UNCHANGED <<seq, input, message, deleted, client, asked>>

DrainInterrupted ==
  /\ Chain!Settle("interrupted")
  /\ StopDrain
  /\ UNCHANGED <<seq, input, message, deleted, client, asked, excused>>

\* The process is killed and starts again: only the database is left.
Crash ==
  /\ client' = [c \in Clients |-> Quiet]
  /\ entry' = NoEntry /\ barrier' = Chain!None
  /\ caller' = [c \in Callers |-> Chain!Resting]
  /\ asked' = {}
  /\ excused' = AllPending
  /\ StopDrain
  /\ UNCHANGED <<seq, input, message, deleted>>

-----------------------------------------------------------------------------
Steps ==
  \/ \E c \in Clients : (\E q \in Request : AskPrompt(c, q)) \/ AdmitPrompt(c) \/ EnqueueWake(c) \/ AnswerOnly(c)
  \/ \E c \in Callers : Resume(c) \/ LeaveResume(c)
  \/ \E s \in Sessions : RequestInterrupt(s)
  \/ \E n \in asked : Interrupt(n)
  \/ StartDrain \/ RunLoop \/ Promote
  \/ DrainDone \/ DrainFails \/ DrainInterrupted

NextExecution == Steps \/ Crash

SpecExecution == InitExecution /\ [][NextExecution]_executionVars

\* prompt and interrupt are uninterruptible, and a drain that started goes on.
FairExecution ==
  /\ WF_executionVars(\E c \in Clients : EnqueueWake(c) \/ AnswerOnly(c))
  /\ WF_executionVars(\E n \in asked : Interrupt(n))
  /\ WF_executionVars(StartDrain \/ RunLoop \/ Promote \/ DrainDone \/ DrainFails \/ DrainInterrupted)

LiveExecution == SpecExecution /\ FairExecution

-----------------------------------------------------------------------------
DrainRecord ==
  [at : {"none", "start", "no steer", "turn", "promoting", "provider", "settled", "no more", "done", "limit"},
   promotion : {"none"} \union Deliveries, step : 0 .. MaxSteps]

ExecutionTypeOK ==
  /\ TypeOK
  /\ Chain!TypeOK
  /\ drain \in DrainRecord
  /\ asked \subseteq Nat
  /\ excused \subseteq Ids

(***************************************************************************)
(* When the session is idle, nothing is left in the inbox but what nobody  *)
(* promised to run: inputs admitted only, stopped by an interrupt, left by *)
(* a failed drain or by a crash, or retried with a wake that is ignored.   *)
(***************************************************************************)
WakeAhead(id) == \E c \in Clients : client[c].at = "receipt" /\ client[c].request.id = id

InboxDrained ==
  ~Chain!Active => \A id \in AllPending : id \in excused \/ WakeAhead(id)

(***************************************************************************)
(* A prompt with a wake that is taken ends in the history, unless an       *)
(* interrupt, a failure or a crash excuses it, or drain after drain fails. *)
(***************************************************************************)
FailuresStop == <>[][~DrainFails]_executionVars

PromptReachesHistory ==
  FailuresStop =>
    \A id \in Ids : (Pending(id) /\ id \notin excused) ~> (~Pending(id) \/ id \in excused)
=============================================================================
