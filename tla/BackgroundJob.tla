---------------------------- MODULE BackgroundJob ----------------------------
(***************************************************************************)
(* The job of a subagent: core/src/background-job.ts, as the task tool     *)
(* (opencode/src/tool/task.ts) uses it.                                    *)
(*                                                                         *)
(* All calls name one subagent's session, which is the id of its job.  A   *)
(* call extends the job that runs, or starts it anew: a new generation.    *)
(* The runs of a generation follow each other.  A modification of the      *)
(* registry is a step, and so is each thing that is done after it.         *)
(***************************************************************************)
EXTENDS Naturals, FiniteSets

CONSTANT Tasks   \* calls of the task tool

ASSUME TasksAssumption == IsFiniteSet(Tasks) /\ Tasks # {}

VARIABLES
  job,      \* the registry's entry: its generation, status, counts and output
  member,   \* member[g][k]: the k-th run of generation g, and how it ended
  over,     \* over[g]: how far the end of generation g has been carried out
  info,     \* info[g]: what its waiters are told then
  promo,    \* promo[g]: how far a promotion to the background has come
  task,     \* task[c]: where call c is and the generation it has to do with
  notice,   \* notice[c]: the fiber that is to bring the result of call c to its parent
  mixed     \* a call has met a generation that it did not start

jobVars == <<job, member, over, info, promo, task, notice, mixed>>

Gens == 1 .. Cardinality(Tasks)
Members == 0 .. Cardinality(Tasks) - 1
NoGen == 0
NoInfo == [status |-> "none", background |-> FALSE]
Unforked == [at |-> "none", exit |-> "none"]

JobInit ==
  /\ job = [gen |-> NoGen, status |-> "none", pending |-> 0, next |-> 0, output |-> 0, background |-> FALSE]
  /\ member = [g \in Gens |-> [k \in Members |-> Unforked]]
  /\ over = [g \in Gens |-> "open"]
  /\ info = [g \in Gens |-> NoInfo]
  /\ promo = [g \in Gens |-> "no"]
  /\ task = [c \in Tasks |-> [at |-> "away", gen |-> NoGen, started |-> NoGen, seq |-> 0, background |-> FALSE]]
  /\ notice = [c \in Tasks |-> [at |-> "none", gen |-> NoGen]]
  /\ mixed = FALSE

JobRuns == job.status = "running"
TaskAt(c, point) == task[c].at = point
TaskGoes(c, point) == task' = [task EXCEPT ![c].at = point]
MemberGoes(g, k, point) == member' = [member EXCEPT ![g][k].at = point]
JobAlone == UNCHANGED <<job, member, over, info, promo>>

-----------------------------------------------------------------------------
(***************************************************************************)
(* A call of the task tool extends the job, else starts it; then its run   *)
(* is forked into the generation's scope.                                  *)
(***************************************************************************)
NotCounted == [job EXCEPT !.next = @ + 1]   \* mutant: the new run is not counted
Extended == [job EXCEPT !.pending = @ + 1, !.next = @ + 1]

ExtendJob(c) ==
  /\ TaskAt(c, "away")
  /\ \E background \in BOOLEAN :
       IF JobRuns
         THEN /\ job' = Extended
              /\ task' = [task EXCEPT ![c].at = "forking", ![c].gen = job.gen, ![c].seq = job.next,
                                   ![c].background = background]
         ELSE /\ task' = [task EXCEPT ![c].at = "starting", ![c].background = background]
              /\ UNCHANGED job
  /\ UNCHANGED <<member, over, info, promo, notice, mixed>>

\* Between extend and start somebody else may have started the job: the run is dropped.
StartJob(c) ==
  LET after == IF task[c].background THEN "notify" ELSE "race" IN
  /\ TaskAt(c, "starting")
  /\ IF JobRuns
       THEN /\ task' = [task EXCEPT ![c].at = after, ![c].gen = job.gen]
            /\ mixed' = TRUE
            /\ UNCHANGED job
       ELSE /\ job' = [gen |-> job.gen + 1, status |-> "running", pending |-> 1, next |-> 1, output |-> 0,
                       background |-> task[c].background]
            /\ task' = [task EXCEPT ![c].at = "forking", ![c].gen = job.gen + 1,
                                    ![c].started = job.gen + 1]
            /\ UNCHANGED mixed
  /\ UNCHANGED <<member, over, info, promo, notice>>

ForkMember(c) ==
  LET first == task[c].seq = 0 IN
  /\ TaskAt(c, "forking")
  /\ MemberGoes(task[c].gen, task[c].seq, IF first THEN "running" ELSE "blocked")
  /\ TaskGoes(c, IF ~first THEN "done" ELSE IF task[c].background THEN "notify" ELSE "race")
  /\ UNCHANGED <<job, over, info, promo, notice, mixed>>

(***************************************************************************)
(* The result.  A call in the foreground waits for the end of the job or   *)
(* for its promotion.  For a job in the background a fiber waits and       *)
(* brings the result to the parent session.  Both look the job up by id.   *)
(***************************************************************************)
EndTold(g) == over[g] = "told"
LooksUp(c) == mixed' = (mixed \/ job.gen # task[c].gen)

RaceFor(c) ==
  /\ TaskAt(c, "race")
  /\ LooksUp(c)
  /\ task' = [task EXCEPT ![c].gen = job.gen,
                          ![c].at = IF JobRuns /\ ~job.background THEN "racing"
                                    ELSE IF job.background THEN "background"
                                    ELSE "answered"]
  /\ JobAlone /\ UNCHANGED <<notice>>

GetsResult(c) ==
  LET gen == task[c].gen IN
  /\ TaskAt(c, "racing")
  /\ \/ EndTold(gen) /\ TaskGoes(c, IF info[gen].background THEN "background" ELSE "answered")
     \/ promo[gen] \in {"told", "done"} /\ TaskGoes(c, "background")
  /\ JobAlone /\ UNCHANGED <<notice, mixed>>

\* What reaches the parent: the text or the error of a job that was not cancelled.
Injects(status) == IF status \in {"completed", "error"} THEN "injected" ELSE "dropped"

NotifyFor(c) ==
  /\ LooksUp(c)
  /\ notice' = [notice EXCEPT ![c] = [at |-> IF JobRuns THEN "waiting" ELSE Injects(job.status), gen |-> job.gen]]

NotifyLater(c) ==
  /\ TaskAt(c, "notify")
  /\ NotifyFor(c)
  /\ TaskGoes(c, "background")
  /\ JobAlone

BringResult(c) ==
  /\ notice[c].at = "waiting"
  /\ EndTold(notice[c].gen)
  /\ notice' = [notice EXCEPT ![c].at = Injects(info[notice[c].gen].status)]
  /\ JobAlone /\ UNCHANGED <<task, mixed>>

-----------------------------------------------------------------------------
(***************************************************************************)
(* promote: the entry is marked, then its waiters are told, then the       *)
(* starter's notification is set up.                                       *)
(***************************************************************************)
Unmarked == job   \* mutant: the entry is not marked
Marked == [job EXCEPT !.background = TRUE]

Promote ==
  /\ JobRuns /\ ~job.background
  /\ job' = Marked
  /\ promo' = [promo EXCEPT ![job.gen] = "marked"]
  /\ UNCHANGED <<member, over, info, task, notice, mixed>>

TellPromoted(g) ==
  /\ promo[g] = "marked"
  /\ promo' = [promo EXCEPT ![g] = "told"]
  /\ UNCHANGED <<job, member, over, info, task, notice, mixed>>

OnPromote(g) ==
  /\ promo[g] = "told"
  /\ promo' = [promo EXCEPT ![g] = "done"]
  /\ \E c \in Tasks : task[c].started = g /\ NotifyFor(c)
  /\ UNCHANGED <<job, member, over, info, task>>

-----------------------------------------------------------------------------
(***************************************************************************)
(* The runs.  A run waits for the one before it to end, not to settle.     *)
(***************************************************************************)
MemberBegins(g, k) ==
  /\ member[g][k].at = "blocked"
  /\ member[g][k - 1].at \in {"ended", "settled", "stopped"}
  /\ MemberGoes(g, k, "running")
  /\ UNCHANGED <<job, over, info, promo, task, notice, mixed>>

MemberEnds(g, k) ==
  /\ member[g][k].at = "running"
  /\ \E exit \in {"success", "failure", "interrupt"} : member' = [member EXCEPT ![g][k] = [at |-> "ended", exit |-> exit]]
  /\ UNCHANGED <<job, over, info, promo, task, notice, mixed>>

SameToken(g) == job.gen = g
LastSettled(k) == TRUE   \* mutant: the sequence is not compared
Newer(k) == k + 1 > job.output

StatusOf(exit) == CASE exit = "success" -> "completed" [] exit = "failure" -> "error" [] exit = "interrupt" -> "cancelled"

\* The entry leaves "running"; what its waiters will be told is its snapshot.
EndJob(status, output) ==
  /\ job' = [job EXCEPT !.status = status, !.pending = 0, !.output = output]
  /\ info' = [info EXCEPT ![job.gen] = [status |-> status, background |-> job.background]]
  /\ over' = [over EXCEPT ![job.gen] = "settled"]

SettleMember(g, k) ==
  LET exit == member[g][k].exit
      output == IF exit = "success" /\ Newer(k) THEN k + 1 ELSE job.output
  IN
  /\ member[g][k].at = "ended"
  /\ MemberGoes(g, k, "settled")
  /\ IF SameToken(g) /\ JobRuns
       THEN IF exit = "success" /\ job.pending > 1
              THEN job' = [job EXCEPT !.pending = @ - 1, !.output = output] /\ UNCHANGED <<info, over>>
              ELSE EndJob(StatusOf(exit), output)
       ELSE UNCHANGED <<job, info, over>>
  /\ UNCHANGED <<promo, task, notice, mixed>>

\* Somebody removes the session or stops it.
CancelJob ==
  /\ JobRuns
  /\ EndJob("cancelled", job.output)
  /\ UNCHANGED <<member, promo, task, notice, mixed>>

\* A waiting call is aborted: it cancels the job of that id.
AbortTask(c) ==
  /\ TaskAt(c, "racing")
  /\ TaskGoes(c, "aborted")
  /\ IF JobRuns THEN EndJob("cancelled", job.output) ELSE UNCHANGED <<job, info, over>>
  /\ UNCHANGED <<member, promo, notice, mixed>>

\* What follows the end: the waiters are told, then the scope is closed.
TellEnd(g) ==
  /\ over[g] = "settled"
  /\ over' = [over EXCEPT ![g] = "told"]
  /\ UNCHANGED <<job, member, info, promo, task, notice, mixed>>

\* The closed scope interrupts its runs, those forked since too; they do not settle.
StopMember(g, k) ==
  /\ over[g] = "told"
  /\ member[g][k].at \in {"blocked", "running"}
  /\ MemberGoes(g, k, "stopped")
  /\ UNCHANGED <<job, info, over, promo, task, notice, mixed>>

-----------------------------------------------------------------------------
JobNext ==
  \/ \E c \in Tasks :
       \/ ExtendJob(c) \/ StartJob(c) \/ ForkMember(c) \/ RaceFor(c) \/ GetsResult(c)
       \/ NotifyLater(c) \/ BringResult(c) \/ AbortTask(c)
  \/ Promote \/ CancelJob
  \/ \E g \in Gens : TellPromoted(g) \/ OnPromote(g) \/ TellEnd(g)
  \/ \E g \in Gens, k \in Members :
       MemberBegins(g, k) \/ MemberEnds(g, k) \/ SettleMember(g, k) \/ StopMember(g, k)

JobSpec == JobInit /\ [][JobNext]_jobVars

-----------------------------------------------------------------------------
JobTypeOK ==
  /\ job \in [gen : Gens \union {NoGen}, status : {"none", "running", "completed", "error", "cancelled"},
              pending : 0 .. Cardinality(Tasks), next : 0 .. Cardinality(Tasks),
              output : 0 .. Cardinality(Tasks), background : BOOLEAN]
  /\ member \in [Gens -> [Members -> [at : {"none", "blocked", "running", "ended", "settled", "stopped"},
                                     exit : {"none", "success", "failure", "interrupt"}]]]
  /\ over \in [Gens -> {"open", "settled", "told"}]
  /\ info \in [Gens -> [status : {"none", "completed", "error", "cancelled"}, background : BOOLEAN]]
  /\ promo \in [Gens -> {"no", "marked", "told", "done"}]
  /\ task \in [Tasks -> [at : {"away", "starting", "forking", "notify", "race", "racing", "done", "background",
                              "answered", "aborted"},
                         gen : Gens \union {NoGen}, started : Gens \union {NoGen}, seq : Members, background : BOOLEAN]]
  /\ notice \in [Tasks -> [at : {"none", "waiting", "injected", "dropped"}, gen : Gens \union {NoGen}]]
  /\ mixed \in BOOLEAN

(***************************************************************************)
(* A running job counts the runs of its generation that have not settled,  *)
(* and never those of an earlier one that end late.                        *)
(***************************************************************************)
PendingCounts ==
  JobRuns => job.pending > 0 /\ job.pending = Cardinality({k \in 0 .. job.next - 1 : member[job.gen][k].at # "settled"})

(***************************************************************************)
(* A job is completed only when every run of it has succeeded, and its     *)
(* output is that of the last one, in whatever order they settle.          *)
(***************************************************************************)
CompletedWithLast ==
  job.status = "completed" =>
    /\ job.output = job.next
    /\ \A k \in 0 .. job.next - 1 : member[job.gen][k] = [at |-> "settled", exit |-> "success"]

(***************************************************************************)
(* The result of a generation reaches the parent once: it is the answer of *)
(* the call that waits, or is brought to the session later, whenever the   *)
(* job is promoted - if no call has met a generation it did not start.     *)
(***************************************************************************)
Deliveries(g) ==
  {c \in Tasks : TaskAt(c, "answered") /\ task[c].gen = g} \union
  {[brought |-> c] : c \in {d \in Tasks : notice[d] = [at |-> "injected", gen |-> g]}}
DeliveredOnce == ~mixed => \A g \in Gens : Cardinality(Deliveries(g)) <= 1

=============================================================================
