# Verification of CodeFree

CodeFree is a fork of OpenCode, a coding agent, that lets advertising pay for
model usage: users earn credits by looking at ads, spend them on turns, and can
redeem them as balance of a token gateway. It is TypeScript on the Effect
runtime; every process keeps its state in one SQLite file that several
processes may share. Paths below are relative to `src/packages/`.

This directory holds TLA+ models of the parts whose correctness depends on
order, interleaving and failure, the TLC configurations that check them on
small instances, and TLAPS proofs of what holds for every instance.
`PROJECT.json` relates every definition to the lines it models.

## The system

| Component | State | Operations | Talks to | Modelled in |
| --- | --- | --- | --- | --- |
| Wallet `core/src/wallet/index.ts` | wallet rows, transaction rows | getOrCreate, credit, debit, applyUsage (`core/src/codefree.ts`) | called by session, handlers, payout | `Wallet` |
| Payout service `core/src/wallet/payout.ts` | withdrawal rows | request, process, complete, fail, cancel | writes wallet rows | `Payout`, `WithdrawalContract` |
| Token gateway `gateway/src/` | accounts, deposits, usage | create account, deposit, chat completion | HTTP | `Gateway` |
| Withdraw handler `opencode/.../handlers/codefree.ts` | none of its own | withdraw | payout service, gateway over HTTP | `Withdraw` |
| Rewards `core/src/codefree.ts`, `core/src/ad/service.ts` | ad impressions, clicks | completeImpression, creditAdClick, markCredited, recordClick | wallet, ad store | `Rewards` |
| Ad gate and injector `opencode/src/session/codefree.ts`, `core/src/ad/injector.ts` | pacing records of the process | maybeShowAd, selectAd, trackImpression, the hourly reset | ad server, ad store | `AdGate` |
| Event log `core/src/event.ts` | `event`, `event_sequence`, tails, PubSubs | publish, replay, claim, remove, aggregateEvents | projectors, listeners, other processes on the file | `EventLog`, `DurableLog` |
| Session inbox `core/src/session/input.ts`, `projector.ts` | `session_input`, `session_message` | admit, promote steers and queue, guard ids | event log | `SessionInput` |
| Run coordinator `core/src/session/run-coordinator.ts` | active entries, interrupt boundaries, Deferreds | wake, run, interrupt, settle | forks drains | `RunCoordinator`, `RunPromises` |
| Session service and runner `core/src/session.ts`, `session/runner/llm.ts` | the run loop | prompt, resume, interrupt, drain | inbox, coordinator, provider | `SessionExecution` |
| Context epoch `core/src/session/context-epoch.ts` | `session_context_epoch`, system messages | initialize, prepare, requestReplacement, reset, current | runner, projector, event log | `ContextEpoch` |
| Permission `core/src/permission.ts`, `permission/saved.ts` | pending requests, saved rules | assert, ask, reply | tools, user | `Permission` |
| Background jobs `core/src/background-job.ts`, `opencode/src/tool/task.ts` | registry of jobs | start, extend, settle, promote, cancel, wait | task tool, parent session | `BackgroundJob` |
| First-version runner `opencode/src/effect/runner.ts`, `session/run-state.ts` | a runner per session, the map of them | ensureRunning, startShell, cancel | prompt loop, shell | `SessionRunState` |
| Locks `core/src/util/flock.ts`, `effect-flock.ts` | a directory with a token and a heartbeat | acquire, renew, release, break a stale lock | the file system, other processes | `FileLock` |
| Workspace sync, questions, compaction, event publisher, prompt loop, ad server, tools, providers, configuration, HTTP, SDK, interfaces | | | | no |

How they interact. A prompt is admitted through the event log: the event and
its projection into the inbox commit in one transaction. The caller then wakes
the coordinator, in memory, with the number of that event. The coordinator
starts or prolongs a drain; the drain promotes inputs through further events,
prepares the context epoch and calls the provider. After a commit the event log
wakes the tails that clients follow. A tool of the turn asks for permission, or
starts a subagent as a background job. The session debits the wallet for a turn,
ads credit it, and the withdraw handler moves credits through an escrow to the
gateway.

What is hard:

* **Interleaving.** Fibers switch at every effect, and several processes share
  the file. The code is atomic only per statement, per `db.transaction`, and
  per synchronous block of JavaScript; every model takes exactly these as steps.
* **Checks that are stale when used**: the wallet balance, the status of a
  withdrawal, the rows a drain will promote, the epoch a turn prepared on, the
  rules an assertion read, the age of a lock that is about to be removed.
* **Failure between two steps**: the gateway between a deposit row and its
  balance, the handler between escrow and completion, a reward between mark and
  credit, a process in the middle of taking or breaking a lock.
* **Timeouts that race an answer**: the handler refunds what the gateway may
  still credit; a lock's owner may only be late.
* **Coalescing**: one dirty bit per tail, one pending demand per session.
* **Liveness**: every wake must lead to a drain, every commit to a tail, every
  prompt to an answer, every lock to its next owner.

`PROJECT.json` lists the hazards line by line with the properties that cover
them; a hazard without one says why.

## The modules

Each component is a module of its own. The parameters are CONSTANTS; a bound on
a counter is a constant whose comment begins with BOUND and which appears in a
guard. Alternatives of a definition that are marked `mutant:` are plausible
mistakes that the properties are known to detect; nothing else uses them.

**`Wallet`** models the calls of the wallet service as fibers. `call[c]` is what
a call remembers between its statements: the wallet row it found and the amount
it checked. `DebitCheck` and `DebitWallet` are the two halves of `debitWallet`;
`CreditWallet` is one transaction. The transaction table is kept as its sums
per wallet row and type, which is all its readers use.

**`Payout`** extends it with withdrawals. Each method that reads a withdrawal and
later writes it is a read step and a write step. `WithdrawalContract` is what the
service promises: a withdrawal moves from pending through processing to one
final status, its credits leave the wallet when it is requested and return
exactly when it fails or is cancelled. `Contract` holds the refinement mapping.

**`Rewards`** extends it with impressions. `claim[c]` is a call of completeImpression
or creditAdClick: `cap`, `mark`, `write` and `pay` are its statements, in the order
the code has for each. markCredited and recordClick read the row and write it in
two statements, so two calls can both find it open: `raced` notes this, and
`orphaned` the calls that died between mark and payment.

**`AdGate`** models calls of maybeShowAd (`slot[t]`: fetch, publish, track, pace), which
the session's processor forks after reasoning and after tool results. They read
the pacing first and write it last. Time is counted in ticks; the timer that
resets the counters has the period the code computes once at start.

**`Gateway`** models the HTTP handlers of the gateway. They are synchronous between
awaits, so a handler interleaves with others only while its upstream call runs
(`Admit`, then `RecordUsage`), but its two statements commit separately and a
crash can fall between them (`writing`). A deposit may name any number of
`Deposits`, also a negative one: the handler checks only that it is a number.

**`Withdraw`** composes the payout service with the gateway (INSTANCE) and a
network. Requests and answers are sets: they may be lost, answered late, or
handled after the handler gave up. Two history variables name the withdrawals whose
handler has stopped waiting (`late`) and whose handler's process has died (`dead`).

**`EventLog`** models the transaction of `commitSyncEvent` with its checks,
`replay`, `claim`, `remove`, the wake of the tails, the announcements to live
subscribers, and `aggregateEvents` as register, read, sleep. Commit guards,
projectors and commit hooks are inside the transaction: when one of them dies
nothing is written, a step that changes nothing. `elsewhere` is a history
variable: the rows that other processes have committed. **`DurableLog`** is the
abstraction: histories that only grow at their end, under an owner only a claim
replaces.

**`RunCoordinator`** models one key of the coordinator, since keys share nothing. A
transition is a synchronous block, hence one step. An entry includes its owner
fiber; Deferreds are found as the callers that wait on them. **`RunPromises`** adds
two history variables: which wakes are still owed a drain, and which of them
were coalesced with an explicit run.

**`SessionInput`** models admission (find, publish, find again on conflict),
promotion (cutoff, queue head, steers, one event per row), the other writers
of message ids, and the deletion of a session. The rows a promoter has read are a set, of which it always
publishes the oldest: the order of the select. Clients and promoters belong to
any process. Other writers are of two kinds. `Reserved` refuses the events that
`reservedID` knows the id of an admitted input; `ContextUpdated` and `Compaction.Ended`,
"context" in the model, are not in its list and may take it. `Delete` takes the rows of the session along,
as the foreign keys do, and leaves clients and promoters with what they have read.
A session is not created again under its id.

**`SessionExecution`** is one session in one process: it extends `SessionInput`,
instantiates `RunCoordinator` as `Chain`, and adds the run loop. Deleting the session and
the messages of other writers are left out here; `SessionInput` has them beside any number of promoters. A provider turn is
its outcome. `excused` is the set of inputs nobody is bound to promote: admitted
without a wake, stopped by an interrupt, left by a failed drain or a crash. A
crash keeps the database and forgets the rest.

**`ContextEpoch`** is one session's epoch and the turns of drains of several processes.
A turn reads the place and the agent, looks for an epoch, observes the world,
and inserts, replaces, advances or leaves the epoch; each is a transaction with
the comparisons the code makes in it and no others. Observed contexts are values
that name the place, the agent and the state of the world. Agent switches, moves,
compactions and changes of the world come in between. `behind` holds the drains
whose turn began before the last move, and `overlapped` says that one of them was
still on its way when another drain initialized the moved session.

**`Permission`** models an assertion (`request[q]`: configuration, saved rules,
registration, announcement, wait) and a reply (`replier[p]`: announcement, saved
rule, verdict, walk over the pending map). The walk sees what is added to the map
meanwhile, as an iteration over a JavaScript Map does. Publications and writes may
fail, and a reply dies of it. The map of pending requests is that of one Location in one process; the table
of saved rules is the project's. `SaveElsewhere` and `Forget` are what the services of other
Locations and processes do to it, at any time, while they walk over maps of their own;
`Deny` and `LoseSession` tighten the configuration and delete the session of a request, which a walk then skips.
`slipped` and `tangled` are history variables. The first names the requests no walk of this map is bound
to find: registered when the walk for their resource was over or had died, or pending when
their rule was saved elsewhere. The second names those that two replies had in hand at once, or whose published
reply died.

**`BackgroundJob`** is one job id: the registry's entry with its generation, counts and
output, the fibers of a generation, and the calls of the task tool which extend a
running job or start it anew, wait for it, and are told in the result or later by
a notification, never both. `mixed` marks behaviours in which a call met a generation it did not start.

**`SessionRunState`** models the first-version engine's map of runners and each runner's
state (idle, running, shell, shell then run), with the fibers that run bodies. A change of a
runner's state and what follows it are separate steps. `strayed` says that a
runner was busy which the map no longer holds.

**`FileLock`** models the two locks one system call at a time: mkdir, the token, the
heartbeat, the breaker directory, the judgement that a lock is stale and the
removal that follows it. `Renewing` chooses between the heartbeat of `flock.ts` and
that of `effect-flock.ts`. A process may die anywhere. It falls behind (`FallBehind`) while it holds the
lock, where its heartbeat stops with it and the lock grows old; a suspension anywhere else is a step taken late, which
every interleaving has. `excuses` names what has happened that the protocol does not provide for.

**MC modules.** `MCCredits`, `MCCore` and `MCServices` each check several
components that share no variable. Their variable `part` is chosen at the start and
says which component takes steps, so the state spaces add up instead of
multiplying; a property of a component is checked over its own behaviours. A component may have
several parts: `Permission` has "permission" (this service alone saves rules, two replies), "project"
(rules are also saved and removed elsewhere) and "losses" (a session goes or a resource is denied), the last two
with one reply at a time. In `MCSessionInput` the parts are "one", a session that is not deleted with all
clients and drains at it, and "several", sessions of which one may be deleted, with one client and one drain at a time; a promotion that has
nothing left to do stops before anybody else goes on, which nobody can tell.
`SerialContract` names its part, because the contract is promised only where one
call is made at a time. `Calm`, `Settled` and `Kept` stop a behaviour where its
properties excuse what follows anyway; `FewRunners` bounds the runners of `core`.

## The runs

| Run | Instance | Shows |
| --- | --- | --- |
| `credits` | two calls of wallet and payout, at most two withdrawals; two calls for two impressions; two ad calls of a session over five ticks; two gateway accounts, two references with deposits of 1 and -1, two completions, two crashes; two requests, two replies, two sessions and resources, one loss | the ledger explains every balance and the overdraft is bounded however calls interleave; one call at a time implements `WithdrawalContract`; an impression is paid once unless calls raced for it, the daily cap is exceeded by the calls in flight at most, and a marked view is paid; the caps and the spacing of ads hold but for calls side by side; the gateway's books are off by what crashes left, and the overdraft there, but for what negative deposits took, by the completions in flight; nobody is left asking for what was allowed for good where a walk is bound to find him, and answers agree |
| `withdraw` | two handlers, two withdrawals, one crash of the gateway | no credits are lost, only a late deposit is paid besides its refund, and every withdrawal settles but those whose handler died |
| `core` | an event log of two aggregates, three ids, two bodies, two owners; two drains, two places, two agents, two events and one change of the world; two calls of the task tool; two prompters, three bodies of which one is a shell, three runners; three processes at a lock and one fault | the log is contiguous and implements `DurableLog`; the provider is told the context of the agent it runs as, as the snapshot says, and no request for a new epoch is lost; pending counts of a job are right, it completes with its last run's output, and its result is delivered once; one body at a time works in a session and a cancel stops it; who holds a lock finds it his |
| `event_shared` | two fibers, another process, one tail | the tail misses, repeats and reorders nothing, never sleeps over a commit of its own process, and catches up |
| `inbox` | one session with two ids, two clients, two promoters; two sessions, one of which may be deleted, with one client and one promoter at a time | inbox and history agree, promotion is in order and dies only of a message that escaped the guard or with its session, retries are answered alike |
| `session` | one session, two ids, one client, one resume, two steps per activity | an idle session has drained its inbox, and a prompt whose wake is taken reaches the history |
| `services` | two callers, three sequence numbers; two prompters; two processes at a lock and one fault | no plain wake is lost, no waiter is orphaned, and those promised a drain are released; every prompt is answered; a lock recovers from its owner's or its cleaner's death |
| `payout_overdraft` | two debits | a finding: the balance can become negative |
| `run_lost_wake` | two callers, three numbers | a finding: a wake newer than an interrupt is dropped |
| `ads_per_hour` | one session, one call, hours of three ticks | a finding: the cap is not per hour |
| `context_aba` | two drains, two places | a finding: the context of the old place becomes durable |
| `flock_evicted` | two processes, no fault | a finding: a living owner is evicted |

Why the bounds are enough. Every race the models contain is between two calls,
two fibers, or a call and a failure, and each configuration has two of the
actors that race; the lock has three in `core`, for one that holds, one that
breaks and one that enters behind them. Two amounts distinguish a partial debit
from a whole one. Three event numbers allow a first, a duplicate and a gap on
either side; two bodies allow a replay with other data. Three sequence numbers
of the coordinator put a boundary below, at and above a wake, with a second wake
to coalesce. In the inbox `MaxSeq` bounds what is added, not what is promoted, so
every input that fits can be promoted; three leave room for both ids to be admitted and for a message of another
writer at one of them. Which sessions are deleted is asked of one client and one drain at a
time: what they have read before is enough to meet a row that is gone. Two events are enough for the context
epoch to be replaced and reset between the steps of one turn; three events without
changes of the world were checked once as well. Five ticks at three to the
hour cross two resets of a process that starts late in an hour. Symmetry is used in no run
that checks liveness.

Deadlock is checked in `event_shared` and `session`, which never stop. It is off where the
program is done once its credits, requests, calls or events are used up.

The bounds are small: a fault that needs three handlers, or four coalesced demands,
is out of reach of these runs; the theorems below have no such limit.

### Fairness

* `FairHandlers` (`Withdraw`): a handler that can take a step takes it. Both of its
  requests carry `AbortSignal.timeout(5000)`, so a request either answers or is
  given up. The death of the handler, the network and the gateway are not fair;
  nothing obliges the gateway to answer.
* `TailFairness` (`EventLog`): a fiber that has committed wakes the tails, because
  commit and wake are in one uninterruptible region; an open tail is pulled by
  its consumer. Publishing is not fair.
* `FairDrains` (`RunCoordinator`): a forked drain begins, and a drain that began
  exits. The runner bounds its turns by MAX_STEPS and an interrupted fiber exits;
  a provider that never answers and is never interrupted is outside this
  assumption.
* `FairExecution` (`SessionExecution`): prompt and interrupt are uninterruptible, so
  what they have published they hand to the coordinator; a drain goes on.
  `PromptReachesHistory` also assumes that drains stop failing, and excuses the
  inputs listed above.
* `FairRuns` (`SessionRunState`): a fiber that was forked goes on and its body ends, and
  a caller that can go on does. Calls begin when they like.
* `FairLocks` (`FileLock`): a living process goes on with its attempt, whose loop polls
  with a delay, and files grow old, because time passes. Dying and being suspended are not fair.

## The findings

* `payout_overdraft`: `debitWallet` checks the balance before its transaction
  (`core/src/wallet/index.ts:241`), the transaction subtracts unconditionally. Two
  debits, or a debit and a withdrawal, leave a negative balance, which the schema of
  `getBalance` then refuses to decode. `OverdraftBounded` says how far it can go.
* `run_lost_wake`: a wake that is coalesced with a pending run loses its number
  (`run-coordinator.ts:54`). An interrupt with an older boundary then drops both,
  although the comment at line 27 promises that wakes after the boundary run.
* `ads_per_hour`: the time to the next full hour, measured once, becomes the period of
  the reset (`opencode/src/session/codefree.ts:74`), so the cap of a process that starts
  late in an hour is not per hour as line 72 says.
* `context_aba`: `replace` and `advance` do not compare the location, which `insert` does
  (`core/src/session/context-epoch.ts:253`), and a new epoch starts at revision 0 again. A turn that
  began before a move can replace the epoch another drain has initialized since,
  with the context of the old place; `specs/v2/session.md:75` says this is fenced.
* `flock_evicted`: the repeated heartbeat of `effect-flock.ts:264` was given its time when it was
  built, so a critical section longer than the staleness limit loses its lock
  while it lives. `HeldIsMine` shows that the heartbeat of `flock.ts` does not.

Known and outside the findings:

* A withdrawal whose handler dies stays in escrow, and a deposit that lands after its handler's timeout
  is paid besides the refund (`TwiceOnlyIfLate` and `NothingLost` state the two bounds exactly).
* `reservedID` (`core/src/session/input.ts:232-240`) does not know `ContextUpdated` and `Compaction.Ended`, which
  insert a message under the id they carry. With the id of a pending prompt they poison its
  promotion, and with it every later drain of the session. The test at `core/test/session-prompt.test.ts:496` covers the
  guard with an event that is in the list; `DiesOnlyPoisoned` says that these two are the only way.
* The gateway takes deposits of any amount (`gateway/src/index.ts:169`), so an account can also be taken below zero by
  a negative one; `OverdraftByInFlight` counts these apart (`TakenBack`).
* An "always" that is answered to one Location or process does not release the requests that wait in another
  for the same rule: it is in the table they share, but each walks over its own map.
 
The exceptions that properties carry are behaviours of the code as well: `raced`,
`orphaned`, `slipped`, `tangled`, `mixed`, `strayed`, `overlapped` and `excused` each name
what the code does not guard against, and the hazards list says where.

## The proofs

Every safety property that a passing run checks is proved for all values of the
constants. `Sums` is a library of lemmas that the other proof modules cite.

| Theorem | Statement | For every |
| --- | --- | --- |
| `PayoutProofs!TypeCorrect` | `Spec => []TypeOK` | users, calls, withdrawals, amounts, bounds |
| `PayoutProofs!LedgerAlwaysExplains` | `Spec => []LedgerExplainsWallet` | the same |
| `PayoutProofs!OverdraftStaysBounded` | `Spec => []OverdraftBounded` | the same |
| `PayoutProofs!OneCallKeepsTheContract` | `SerialSpec => Contract!Spec` | the same |
| `PayoutProofs!WithdrawSound` | `WithdrawSpec => []WithdrawInvariant` | users, handlers, withdrawals, amounts |
| `PayoutProofs!NothingGetsLost` | `WithdrawSpec => []NothingLost` | the same |
| `PayoutProofs!OnlyLateRefundsTwice` | `WithdrawSpec => []TwiceOnlyIfLate` | the same |
| `CreditProofs!RewardsSound` | `RewardSpec => []RewardInvariant` | users, calls, impressions, rewards, caps |
| `CreditProofs!MarksArePaid` | `RewardSpec => []MarkedIsPaid` | the same |
| `CreditProofs!PaymentsBounded` | `RewardSpec => []PaidOnce` | the same |
| `CreditProofs!DailyCapAlwaysHolds` | `RewardSpec => []DailyCapHolds` | the same |
| `CreditProofs!AdGateSound` | `AdSpec => []AdInvariant` | sessions, advertisers, calls, caps, intervals |
| `CreditProofs!CapsAlwaysHold` | `AdSpec => []CapsHold` | the same |
| `CreditProofs!AdsAreSpaced` | `AdSpec => Spaced` | the same |
| `CreditProofs!GatewaySound` | `GatewaySpec => []GatewayInvariant` | accounts, references, requests, costs, amounts of deposits, bounds |
| `CreditProofs!OverdraftStaysInFlight` | `CanCharge` implies `GatewaySpec => []OverdraftByInFlight` | the same |
| `CreditProofs!BooksStayExplained` | `GatewaySpec => []BooksOffByCrashes` | the same |
| `CoreProofs!NumberingHolds` | `Spec => []LogContiguous` | aggregates, ids, bodies, owners, fibers, tails, bounds |
| `CoreProofs!IdsHold` | `Spec => []IdsUnique` | the same |
| `CoreProofs!NoWakeIsLost` | `SharedSpec => []NoLostWake` | the same |
| `CoreProofs!TailsAreGapFree` | `SharedSpec => []TailGapFree` | the same |
| `CoreProofs!LogKeepsHistory` | `Spec => KeepsHistory` | the same |
| `CoreProofs!LogImplementsDurableLog` | `Spec => Durable!Spec` | the same |
| `CoreProofs!PendingIsCounted` | `JobSpec => []PendingCounts` | calls of the task tool |
| `CoreProofs!LastRunIsTheResult` | `JobSpec => []CompletedWithLast` | the same |
| `CoreProofs!ResultsArriveOnce` | `JobSpec => []DeliveredOnce` | the same |
| `RunProofs!NobodyIsOrphaned` | `Spec => []NoOrphanWaiter` | callers, sequence numbers |
| `RunProofs!ExplicitRunsAreForced` | `Spec => []RunsWereForced` | the same |
| `RunProofs!InterruptsHitTheirOwn` | `Spec => []InterruptedAskedFor` | the same |
| `RunProofs!PlainWakesAreKept` | `PromisesSpec => []PlainWakeNotLost` | the same |
| `RunProofs!WorkIsOneAtATime` | `RunSpec => []OneAtATime` | prompters, bodies, bounds |
| `RunProofs!CancelsStop` | `RunSpec => CancelStops` | the same |
| `RunProofs!LockSound` | `Renewing` implies `LockSpec => []LockInvariant` | processes, faults |
| `RunProofs!HoldersFindTheirOwn` | `Renewing` implies `LockSpec => []HeldIsMine` | the same |
| `RunProofs!HoldersExclude` | `Renewing` implies `LockSpec => []Exclusive` | the same |
| `SessionInputProofs!HistoryAgrees` | `Spec => []HistoryMatchesInbox` | sessions, ids, prompts, clients, promoters, bounds |
| `SessionInputProofs!PromotionKeepsOrder` | `Spec => []PromotedInOrder` | the same |
| `SessionInputProofs!ReceiptsAreTrue` | `Spec => []ReceiptsHold` | the same |
| `SessionInputProofs!OnlyEscapedPoison` | `Spec => DiesOnlyPoisoned` | the same |
| `SessionInputProofs!AdmissionsStay` | `Spec => AdmissionStands` | the same |
| `SessionInputProofs!ExecutionSound` | `SpecExecution => []ExecutionInvariant` | the same, and callers and steps of an activity |
| `SessionInputProofs!IdleIsDrained` | `SpecExecution => []InboxDrained` | the same |
| `ContextEpochProofs!EpochSound` | `EpochSpec => []EpochInvariant` | drains, places, agents, bounds |
| `ContextEpochProofs!OwnAgentShown` | `EpochSpec => OwnAgentOnly` | the same |
| `ContextEpochProofs!SnapshotTold` | `EpochSpec => ToldTheSnapshot` | the same |
| `ContextEpochProofs!RequestAnswered` | `EpochSpec => RequestHonoured` | the same |
| `PermissionProofs!PermissionSound` | `PermissionSpec => []PermissionInvariant` | requests, replies, sessions, resources, bounds |
| `PermissionProofs!AllowedIsReleased` | `PermissionSpec => []NotLeftAsking` | the same |
| `PermissionProofs!RepliesAgree` | `PermissionSpec => []AnswersAgree` | the same |

The assumptions are the named ASSUMEs of the modules: amounts are positive
numbers, values for "nothing" are not members of the sets beside them, bounds are
numbers, the least withdrawal is not zero, and the sets that are summed or counted
over (calls, amounts, claims, tasks) are finite and not empty. TLC evaluates them in
every run. Two hypotheses are stated by theorems themselves. `CanCharge` says that there
is a request and a cost above zero: the bound, which the balance stays strictly
above, is a multiple of the greatest cost. `Renewing` chooses the heartbeat of `flock.ts`; with the other one
the run `flock_evicted` refutes `Exclusive`.

*Sums.* The models add up amounts over finite sets and count members. An induction
over sets or numbers is made by the least counterexample (`LeastNumber`, `LeastSubset`):
a nonempty set of counterexamples would have a least member, from which the step of the
induction takes one more away. On it rest the sum of a set with one member more,
the sum of a function changed at one place, and the comparison of two sums member by
member. `Room` is the shape of "checked, then taken": of a set of actors the holders have
seen that their amount, of one unit at most, is left and have not taken it yet, and
what is left suffices for them to fall short by one unit at most for every actor
beside the last. Who enters uses what it checked, who takes uses up its own place.

*Payout.* The inductive invariant is `BooksInvariant`, `TypeOK` together with
`LedgerExplainsWallet`. A call writes the wallet row it remembers from an earlier
step, so the type of a call includes that this row still exists: rows are only
appended. `StepKinds` classifies every step by what it does to the books - a
balanced entry, a new wallet, or nothing - and one lemma per kind shows that the
sums keep up. Nothing about the order of calls is used, which is why the ledger
survives the races that the balance does not. The overdraft is bounded with `Room`
on top of it: the holders are the calls that have read a row as sufficient and have
still to deduct from it (`HoldersOf`), the unit is the greatest amount.

*Contract.* While one call is made at a time (`Alone`, which every step of `SerialSpec`
keeps), what a call has checked is still true when it acts (`StillTrue`), and the
funds of a user are not negative (`SerialInvariant`). Steps are then classified by
their effect on the funds, on what is held and on the fate of a withdrawal; each is a
step of `WithdrawalContract` or leaves its variables alone.

*Withdraw.* `HandlingInvariant` says where each handler is and what its request has
done (`AtStep`), that a withdrawal has one handler (`OneHandler`), and that the deposit
at the gateway is what the handler believes of it, or may not believe any more
(`DepositsFollow`, `WritesInFlight`). `MoneyInvariant` follows the credits: the wallet holds what
was earned without what withdrawals took out of it, and the gateway has credited no more
than has reached it and no more than has landed. Both sides are sums over withdrawals and
are compared withdrawal by withdrawal, so only the one that a step touches matters.

*Rewards.* `RewardInvariant` counts, for an impression and a kind, the calls that are
`Busy` with it: they have read the row as open and have not paid yet. Payments and
busy calls together never exceed the calls there are (`FewPayments`), because nobody
becomes busy once the mark is written and payment follows the mark
(`MarkBeforePay`); without a race one call at most is busy, and none after the
payment (`OnePayment`). The lemma `PaymentStays` serves every step that takes no
open row and pays nothing. The daily cap is a `Room` over the calls that have
passed the check for a user and have still to pay (`PassedFor`); midnight only empties the day.

*Ad gate.* `AdInvariant` has one part for each limit. `SessionCapped` and `AdvertiserCapped` say
that what was shown, what is reserved and what is being bid for fit together with the
counter that the check reads, and by how much calls side by side exceed it.
`SessionSpaced` ties the time of the last ad to the call that runs alone in its
session. A session one of whose calls ended between publication and pacing (`cut`) is
excused, as in the properties.

*Gateway.* `GatewayInvariant` says that what a pending write or a request refers to is
there. `OverdraftByInFlight` needs `AboveDue`: above the limit there is room for one greatest cost for each
request that is not in flight, because only a request in flight has passed the check
and not been charged. What negative deposits took is added on the left side; it only grows, and a
deposit that takes adds to it what it takes from the balance. For the books, each crash drops at most one write whose amount
is bounded (`WriteWorth`), and every other step moves balances and their explanation
(`AllOff`) alike.

*Event log.* `LogInvariant` adds the types of head and log to contiguity and unique
ids: contiguity alone does not bound the number of the next event, and a
repeated number is excluded only because the head equals the largest one.
`WakeInvariant` adds the types of fibers and tails and `NoLostWake`. It rests on
contiguity through `LastSeqCovers`: the cursor of a tail is the largest number it
read, and says that nothing was missed only when the history has no gaps. The
commit of another process adds a row that needs no wake. `TailInvariant` says of what a tail
has read that it fills the range from the cursor it was opened with to the one it
has; one read adds the rows between the cursor and the head in order.

*Histories.* The refinement maps the rows of an aggregate, in the order of their numbers, to
its history, and the owner of the sequence row to the owner of the history. It needs that only a history which
has begun has an owner (`OwnedHasBegun`). A transaction adds one row at the end
of one history, writes an owner, or deletes an aggregate whole; with contiguity each
is the one action of `DurableLog` that says so.

*Jobs.* `CountInvariant` ties the counter of a running job to the runs of its generation: a
run is started once and under a place reserved for it (`StartedOnce`, `PlaceReserved`), no
place is beyond the ones counted (`NoneBeyond`), and `pending` is the number of runs not
settled (`RunningWell`). So the counter reaches zero with the last run and not before.
`DeliveryParts` follows a result: a promoted generation is delivered by a message, one
that is not answers its call, and a call acts on the generation it started
(`OwnGeneration`) unless it is marked `tangled`.

*Coordinator.* None of the three properties is inductive. `ChainInvariant` adds what
the code knows but does not store: whoever joined an entry that is being stopped
was hit by that stop (`StopHitsJoined`); whoever joined a run that drains has been
served by it (`RunServesJoined`); and once the current demand is no longer a run,
whoever waits for the end of the chain has had its run (`DoneIsServed`). A
settlement is split by its three outcomes: the chain goes on, a successor
replaces it, or the key becomes idle and every caller is answered.

*Promises.* `RunPromises` restricts the coordinator, so `PromisesAreOnlyWatched` gives
it `ChainInvariant`. `PromiseInvariant` says of each wake that is due and not absorbed
which demand carries it: the current one while its drain has still to begin, or
the pending one, with a number at least as large. `BoundaryKept` is needed
because an interrupt drops what is at or below its boundary: what it drops was
not due any more. `RunAbsorbsAll` marks the exception of `run_lost_wake`.

*Run state.* `RunParts` says that a busy runner is the one of the map, or somebody cancels
it, or it `strayed` (`BusyRunners`, `OneRunner`); that every body that works or waits belongs to a
runner that knows it (`NobodyForgotten`); and that what was started before a cancel
belongs to the runner the cancel is about to stop, and once that is stopped none of it
runs or waits to (`CancelMeetsAll`), which is what `CancelStops` needs at its return.

*Lock.* `LockParts` holds while `excuses` is empty. The owner has the token and the
heartbeat it made (`OwnersHave`); who has found the lock stale holds the breaker
(`CleanersHold`) and wipes what nobody owns (`WipesTheUnowned`); and a suspended process
was suspended where it holds or releases the lock, where its return is one of the
`excuses` if it matters (`LateArePast`). The
heartbeat enters in one place: a living owner's lock never grows old.

*Inbox.* `InboxInvariant` joins the type invariant and the three checked ones with `NumbersKnown` (the
numbers in rows are those of past events, so a new one is larger), `LiveRows` (nothing in the
store is of a session that is deleted, so a row that goes leaves nothing that would contradict it) and
`PromotersRemember`, which is what a promoter may still believe of a list it read
long ago, as long as its session is there. While it publishes steers, every pending steer up to its cutoff is
in its list; while it publishes the head of the queue, no pending input is ahead
of it. Both survive whatever others do, because an admission takes a number
beyond every cutoff already read and promotion only removes. Order follows: the
least row of the list has nothing pending ahead of it. `DiesOnlyPoisoned` follows step by step: a row
that a promoter of a living session has read is there and of that session, so that the publication fails only of a
message under its id, which by `HistoryMatchesInbox` is one that escaped the guard. `AdmissionStands` is what
`StoreGrows` says of every step.

*Run loop.* `ExecutionInvariant` carries `InboxInvariant` through the events of interrupts and through
failures and crashes of drains, and adds the link between inbox and
coordinator. An input is `Due` when its wake was taken, it is pending and nothing
excuses it. Each one is `Owed`: a chain is active, and its current or its follow-up
demand covers the number of the input; the follow-up does once the drain stops or
has `Passed` the point where it would still see it. What an interrupt may drop
(`Spared` names what it may not) is excused, and an entry that settles with work owed goes on with it. With no
chain active nothing is owed, which is `InboxDrained`. No session is deleted in these steps (`StoreStays`). The types of the coordinator are
proved again there, since a theorem that rests on the assumptions of an instanced module cannot be cited.

*Context epoch.* The part of `EpochInvariant` that matters is `Sound`: while no drain that
a move has overtaken is overlapped, the row is about the place of the session and
what is told after its baseline is its snapshot (`RowSound`); and what a drain has
read is a revision of the row not newer than the stored one, and the row itself
when the revisions are equal (`ReadSound`). So the comparison of revisions before
the call stands for the equality of rows, although revisions start over with
every epoch: only a drain that is behind can hold a row from before a move
(`InPlace`, `KnowsNoRow`).

*Permission.* `PermissionInvariant` follows an answer through its life: nobody has the
request in hand, one reply has it and has or has not published, or the verdict is
given (`AnswerSound`). A request that is not registered yet is known to nobody
(`UnaskedIsUnknown`), so no walk can have passed it, and a walk whose rules cover it
will still come by: this is `NotLeftAsking`. A rule that is saved elsewhere makes a request
permitted that no walk is bound to find, and that is noted in the same step; a rule taken back,
a denied resource and a session that is gone only make fewer requests permitted. Steps are grouped by what they do to a
reply: tools move and replies do not, a reply settles a request, a walk goes on.

Only model-checked: all liveness (`Settles`, `TailCatchesUp`, `PromisedRunAnswered`,
`PromptReachesHistory`, `LockRecovers`, `PromptsAnswered`), because TLAPS does not reason about
fairness and ENABLED; `SerialContract` in the form of `MCCredits`, which names `part` (the
theorem says it of `SerialSpec`); and the violations of the findings. That TLC and the provers treat
the same definitions has shaped one of them: the order of a history (`InOrder`) is
chosen among the sequences of its rows, because the provers cannot expand a sort.

## What is not modelled, and why

The prompt loop and the stream processor of the first-version engine, tools,
providers and presentation are dominated by input, output and formats, not by
state; they are most of the code's lines. The text of prompts, the prices, the ad
catalogue, the scores of ads and the encoding of events are data the properties do
not tell apart. SQLite and the file system are trusted: a statement, a transaction or a system call
is atomic and durable. The ad server only inserts rows. Questions are permission
requests without rules. Compaction chooses what a turn sends, a pure function
of the history. Workspace sync replays one log on another through replay and
claim, which `EventLog` has with arguments of any origin.

Inside the modelled components the following is left out: the mock payout
account; event versions, encoding and location filters; the finalizers of the
coordinator, of the registry of jobs and of a location's permission requests; tools, overflow recovery and
compaction in a turn; the projections of the first version's tables; creation of sessions and
switches of model; patterns of resources beyond equality; timeouts of a wait for a job;
snapshots of an epoch that cannot be decoded.

## What could follow

1. Two instances of `EventLog` joined by replay and claim, as workspace sync uses them.
2. A history variable for calls side by side, so that the contract can be stated of all of `Spec`
   with the overlapping calls excused.
3. Questions and the registry of pending forms, which share the shape of `Permission`.
4. The liveness arguments on paper, from the same invariants: what is owed has an
   action that serves it.
