-------------------------- MODULE SessionRunState ---------------------------
(***************************************************************************)
(* Who runs in a session of the first-version engine:                      *)
(* opencode/src/effect/runner.ts under opencode/src/session/run-state.ts,  *)
(* as session/prompt.ts uses them.                                         *)
(*                                                                         *)
(* One session.  The map of run-state.ts holds its runner; a runner lets   *)
(* one prompt loop or one shell run at a time and is dropped from the map  *)
(* when it falls idle.  A change of a runner's state is a step, and what   *)
(* follows it is another: fibers may be preempted in between.  The body of *)
(* a run goes on for as long as it likes after it is interrupted, while    *)
(* its finalizers run.  A fiber starts before it can be interrupted.       *)
(***************************************************************************)
EXTENDS Naturals, FiniteSets

CONSTANTS
  Prompters,  \* fibers that prompt, run a shell command or cancel
  MaxBodies   \* BOUND: prompt loops and shell commands that are started

ASSUME MaxBodiesAssumption == MaxBodies \in Nat

VARIABLES
  mapped,    \* the runner in the map, or NoRunner
  runners,   \* how many were made
  runner,    \* runner[r]: its state, the body it runs and the run that waits for it
  bodies,    \* how many were made
  body,      \* body[b]: where its fiber is; done: its deferred
  prompter,  \* prompter[p]: where p is, and with which runner and body
  strayed    \* a runner was busy that the map does not hold

runVars == <<mapped, runners, runner, bodies, body, prompter, strayed>>

NoRunner == 0
NoBody == 0
BodyIds == 1 .. MaxBodies
RunnerIds == 1 .. 2 * MaxBodies
IdleRunner == [tag |-> "Idle", runs |-> NoBody, then |-> NoBody]
Unborn == [kind |-> "run", of |-> NoRunner, at |-> "unborn", done |-> "open"]
Away == [at |-> "away", with |-> NoRunner, on |-> NoBody, then |-> NoBody, since |-> 0]

RunInit ==
  /\ mapped = NoRunner
  /\ runners = 0
  /\ runner = [r \in RunnerIds |-> IdleRunner]
  /\ bodies = 0
  /\ body = [b \in BodyIds |-> Unborn]
  /\ prompter = [p \in Prompters |-> Away]
  /\ strayed = FALSE

Leaves(p) == prompter' = [prompter EXCEPT ![p] = Away]
Moves(p, at) == prompter' = [prompter EXCEPT ![p].at = at]
AwaitsBody(p, at, b) == prompter' = [prompter EXCEPT ![p].at = at, ![p].on = b]
Tag(r) == runner[r].tag
SetRunner(r, tag, runs, then) == runner' = [runner EXCEPT ![r] = [tag |-> tag, runs |-> runs, then |-> then]]
NewBody(kind, r, at) ==
  /\ bodies < MaxBodies
  /\ bodies' = bodies + 1
  /\ body' = [body EXCEPT ![bodies + 1] = [kind |-> kind, of |-> r, at |-> at, done |-> "open"]]

\* A runner that works while the map holds another one, or none.
Stray == \E r \in RunnerIds : r # mapped' /\ runner'[r].tag # "Idle"
NotesStray == strayed' = (strayed \/ Stray)

-----------------------------------------------------------------------------
(***************************************************************************)
(* SessionRunState.runner: the runner of the map, or a new one in it.      *)
(***************************************************************************)
GetRunner(p, call) ==
  LET r == IF mapped # NoRunner THEN mapped ELSE runners + 1 IN
  /\ prompter[p].at = "away"
  /\ r \in RunnerIds
  /\ mapped' = r
  /\ runners' = IF mapped # NoRunner THEN runners ELSE r
  /\ prompter' = [prompter EXCEPT ![p] = [Away EXCEPT !.at = call, !.with = r]]
  /\ UNCHANGED <<runner, bodies, body>> /\ NotesStray

\* ensureRunning joins the run there is or will be, or starts one.
EnsureRunning(p) ==
  LET r == prompter[p].with IN
  /\ prompter[p].at = "prompt"
  /\ \/ /\ Tag(r) = "Running"
        /\ AwaitsBody(p, "awaiting", runner[r].runs)
        /\ UNCHANGED <<runner, bodies, body>>
     \/ /\ Tag(r) = "ShellThenRun"
        /\ AwaitsBody(p, "awaiting", runner[r].then)
        /\ UNCHANGED <<runner, bodies, body>>
     \/ /\ Tag(r) = "Shell"
        /\ NewBody("run", r, "pending")
        /\ SetRunner(r, "ShellThenRun", runner[r].runs, bodies + 1)
        /\ AwaitsBody(p, "awaiting", bodies + 1)
     \/ /\ Tag(r) = "Idle"
        /\ NewBody("run", r, "alive")
        /\ SetRunner(r, "Running", bodies + 1, NoBody)
        /\ AwaitsBody(p, "awaiting", bodies + 1)
  /\ UNCHANGED <<mapped, runners>> /\ NotesStray

\* startShell: busy, or a shell that cannot be interrupted before it is ready.
StartShell(p) ==
  LET r == prompter[p].with IN
  /\ prompter[p].at = "shell"
  /\ IF Tag(r) # "Idle"
       THEN Leaves(p) /\ UNCHANGED <<runner, bodies, body>>
       ELSE /\ NewBody("shell", r, "preparing")
            /\ SetRunner(r, "Shell", bodies + 1, NoBody)
            /\ AwaitsBody(p, "shelling", bodies + 1)
  /\ UNCHANGED <<mapped, runners>> /\ NotesStray

\* A caller has its answer, or is interrupted; a shell is its caller's child.
Answered(p) ==
  /\ \/ prompter[p].at = "awaiting" /\ body[prompter[p].on].done # "open"
     \/ prompter[p].at = "shelling" /\ body[prompter[p].on].at = "ended"
  /\ Leaves(p)
  /\ UNCHANGED <<mapped, runners, runner, bodies, body>> /\ NotesStray

Interrupted(b) == [body EXCEPT ![b].at = IF @ = "alive" THEN "stopping" ELSE @]

GivesUp(p) ==
  /\ \/ prompter[p].at = "awaiting" /\ UNCHANGED body
     \/ /\ prompter[p].at = "shelling" /\ body[prompter[p].on].at # "preparing"
        /\ body' = Interrupted(prompter[p].on)
  /\ Leaves(p)
  /\ UNCHANGED <<mapped, runners, runner, bodies>> /\ NotesStray

-----------------------------------------------------------------------------
(***************************************************************************)
(* The fiber of a body: it ends, tells its runner, drops the runner from   *)
(* the map when it has left it idle, and completes its deferred.           *)
(***************************************************************************)
BodyMoves(b, at) == body' = [body EXCEPT ![b].at = at]

BecomesReady(b) ==
  /\ body[b].at = "preparing"
  /\ BodyMoves(b, "alive")
  /\ UNCHANGED <<mapped, runners, runner, bodies, prompter>> /\ NotesStray

Ends(b) ==
  /\ body[b].at \in {"alive", "stopping"}
  /\ body' = [body EXCEPT ![b].at = "telling", ![b].done = IF body[b].at = "stopping" THEN "interrupted" ELSE @]
  /\ UNCHANGED <<mapped, runners, runner, bodies, prompter>> /\ NotesStray

AnyBody(b) == Tag(body[b].of) = "Running"   \* mutant: the id of the run is not compared
RunsNow(b) == Tag(body[b].of) = "Running" /\ runner[body[b].of].runs = b
ShellsNow(b, tag) == Tag(body[b].of) = tag /\ runner[body[b].of].runs = b

\* finishRun and finishShell.
Tells(b) ==
  LET r == body[b].of IN
  /\ body[b].at = "telling"
  /\ \/ /\ IF body[b].kind = "run" THEN RunsNow(b) ELSE ShellsNow(b, "Shell")
        /\ SetRunner(r, "Idle", NoBody, NoBody)
        /\ BodyMoves(b, "unmapping")
     \/ /\ body[b].kind = "shell" /\ ShellsNow(b, "ShellThenRun")
        /\ SetRunner(r, "Running", runner[r].then, NoBody)
        /\ body' = [body EXCEPT ![b].at = "completing", ![runner[r].then].at = "alive"]
     \/ /\ ~(IF body[b].kind = "run" THEN RunsNow(b) ELSE ShellsNow(b, "Shell") \/ ShellsNow(b, "ShellThenRun"))
        /\ BodyMoves(b, "completing")
        /\ UNCHANGED runner
  /\ UNCHANGED <<mapped, runners, bodies, prompter>> /\ NotesStray

\* onIdle: the session's runner leaves the map, whichever it is.
Unmaps(b) ==
  /\ body[b].at = "unmapping"
  /\ mapped' = NoRunner
  /\ BodyMoves(b, "completing")
  /\ UNCHANGED <<runners, runner, bodies, prompter>> /\ NotesStray

Completes(b) ==
  /\ body[b].at = "completing"
  /\ body' = [body EXCEPT ![b].at = "ended", ![b].done = IF @ = "open" THEN "completed" ELSE "cancelled"]
  /\ UNCHANGED <<mapped, runners, runner, bodies, prompter>> /\ NotesStray

-----------------------------------------------------------------------------
(***************************************************************************)
(* cancel: the runner is idle at once; then the body is interrupted and    *)
(* awaited, a shell not before it is ready, and the run behind a shell is  *)
(* cancelled.                                                              *)
(***************************************************************************)
Cancel(p) ==
  /\ prompter[p].at = "away"
  /\ mapped # NoRunner
  /\ prompter' = [prompter EXCEPT ![p] = [Away EXCEPT !.at = "cancel", !.with = mapped, !.since = bodies]]
  /\ UNCHANGED <<mapped, runners, runner, bodies, body>> /\ NotesStray

NoneBehind(r) == NoBody   \* mutant: the run behind the shell is forgotten
RunBehind(r) == runner[r].then

StopRunner(p) ==
  LET r == prompter[p].with IN
  /\ prompter[p].at = "cancel"
  /\ IF Tag(r) = "Idle"
       THEN Leaves(p) /\ UNCHANGED runner
       ELSE /\ prompter' = [prompter EXCEPT ![p].at = "interrupt", ![p].on = runner[r].runs, ![p].then = RunBehind(r)]
            /\ SetRunner(r, "Idle", NoBody, NoBody)
  /\ UNCHANGED <<mapped, runners, bodies, body>> /\ NotesStray

InterruptBody(p) ==
  /\ prompter[p].at = "interrupt"
  /\ body[prompter[p].on].at # "preparing"
  /\ body' = Interrupted(prompter[p].on)
  /\ Moves(p, "join")
  /\ UNCHANGED <<mapped, runners, runner, bodies>> /\ NotesStray

JoinBody(p) ==
  LET next == prompter[p].then IN
  /\ prompter[p].at = "join"
  /\ body[prompter[p].on].at = "ended"
  /\ body' = IF next = NoBody THEN body ELSE [body EXCEPT ![next].at = "ended", ![next].done = "cancelled"]
  /\ Moves(p, "idle?")
  /\ UNCHANGED <<mapped, runners, runner, bodies>> /\ NotesStray

\* idleIfCurrent, and onIdle after it.
IdleIfCurrent(p) ==
  /\ prompter[p].at = "idle?"
  /\ IF Tag(prompter[p].with) = "Idle" THEN Moves(p, "unmap") ELSE Leaves(p)
  /\ UNCHANGED <<mapped, runners, runner, bodies, body>> /\ NotesStray

UnmapRunner(p) ==
  /\ prompter[p].at = "unmap"
  /\ mapped' = NoRunner
  /\ Leaves(p)
  /\ UNCHANGED <<runners, runner, bodies, body>> /\ NotesStray

-----------------------------------------------------------------------------
BodySteps(b) == BecomesReady(b) \/ Ends(b) \/ Tells(b) \/ Unmaps(b) \/ Completes(b)
PrompterSteps(p) ==
  \/ EnsureRunning(p) \/ StartShell(p) \/ Answered(p)
  \/ StopRunner(p) \/ InterruptBody(p) \/ JoinBody(p) \/ IdleIfCurrent(p) \/ UnmapRunner(p)

RunNext ==
  \/ \E b \in BodyIds : BodySteps(b)
  \/ \E p \in Prompters :
       \/ GetRunner(p, "prompt") \/ GetRunner(p, "shell") \/ Cancel(p)
       \/ PrompterSteps(p) \/ GivesUp(p)

RunSpec == RunInit /\ [][RunNext]_runVars

\* Fibers go on, and every prompt loop and shell command ends.
FairRuns == (\A b \in BodyIds : WF_runVars(BodySteps(b))) /\ (\A p \in Prompters : WF_runVars(PrompterSteps(p)))
FairRunSpec == RunSpec /\ FairRuns

-----------------------------------------------------------------------------
RunTypeOK ==
  /\ mapped \in RunnerIds \union {NoRunner} /\ runners \in 0 .. 2 * MaxBodies /\ bodies \in 0 .. MaxBodies
  /\ runner \in [RunnerIds -> [tag : {"Idle", "Running", "Shell", "ShellThenRun"},
                               runs : 0 .. MaxBodies, then : 0 .. MaxBodies]]
  /\ body \in [BodyIds -> [kind : {"run", "shell"}, of : 0 .. 2 * MaxBodies,
       at : {"unborn", "pending", "preparing", "alive", "stopping", "telling", "unmapping", "completing", "ended"},
       done : {"open", "interrupted", "completed", "cancelled"}]]
  /\ prompter \in [Prompters -> [at : {"away", "prompt", "shell", "awaiting", "shelling", "cancel", "interrupt",
                                       "join", "idle?", "unmap"},
       with : 0 .. 2 * MaxBodies, on : 0 .. MaxBodies, then : 0 .. MaxBodies, since : 0 .. MaxBodies]]
  /\ strayed \in BOOLEAN

Working(b) == body[b].at \in {"preparing", "alive"}
BeingCancelled(b) ==
  \E p \in Prompters : prompter[p].at \in {"interrupt", "join"} /\ (prompter[p].on = b \/ prompter[p].then = b)

(***************************************************************************)
(* One prompt loop or shell command works in a session at a time, beside   *)
(* those somebody is cancelling - as long as the map has not dropped a     *)
(* runner that had become busy again (runner.test.ts "shell runs           *)
(* exclusively", "concurrent callers share the same run").                 *)
(***************************************************************************)
OneAtATime ==
  ~strayed => Cardinality({b \in BodyIds : Working(b) /\ ~BeingCancelled(b)}) <= 1

(***************************************************************************)
(* When a cancel returns, nothing that was started before it still works,  *)
(* unless another cancel has taken it over.                                *)
(***************************************************************************)
CancelStops ==
  [][\A p \in Prompters :
       prompter[p].at \in {"cancel", "idle?", "unmap"} /\ prompter'[p].at = "away" /\ ~strayed =>
         \A b \in 1 .. prompter[p].since : body[b].at = "pending" \/ Working(b) => BeingCancelled(b)]_runVars

(***************************************************************************)
(* Who prompts gets an answer, through shells, cancels and replacements.   *)
(***************************************************************************)
PromptsAnswered == \A p \in Prompters : prompter[p].at = "awaiting" ~> prompter[p].at # "awaiting"
=============================================================================
