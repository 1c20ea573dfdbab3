# A verification of the factory operations system

This directory specifies and checks the part of the repository that decides
what a factory does next: how a decision case is planned by workers that lease
it, how people approve and commit its recommendation, how simulations and
scenario evaluations are queued and run, how work orders and incidents follow
from what was published, how the planner chooses among its plans, and how the
web client tells a person what became of a write. The repository is a Node
service over PostgreSQL (`backend/`), a Python planning and simulation service
(`ai_services/`), a web client (`frontend/`) and shared schemas (`contracts/`).
Nearly everything that can go wrong quietly does so between processes that
change the same rows, each with what it read a while ago.

Paths below are relative to the repository; `services/`, `worker/` and so on
are under `backend/src/`.

## 1. Inventory

| Component | State | Operations | Talks to |
|---|---|---|---|
| Decision case planning: `decision-worker/`, `services/decision-case-lifecycle`, `services/decision-planning` | `decision_cases` (status, processing state, revision, lease token and expiry, attempt), `decision_recommendation_artifacts`, `decision_case_events`; in each worker: the claim, a heartbeat timer, `leaseLost`, the abort signal | discover and reclaim, claim, renew, persist, fail, release | planning client; the database trigger `decision_case_processing_guard` checks each update again |
| Decision commands and the operations head: `services/decision-command`, `decision-case`, `operations-snapshot` | `operations_heads`, `factory_snapshots`, `operation_schedules`, `decision_human_records`, `decision_commits`, idempotency receipts | ingest a snapshot, create a case, approve, reject, commit | the factory's advisory lock; cases planned by the workers |
| Episode execution: `worker/`, `controllers/episode`, `controllers/experiment` | `episodes` (status, attempt, lease, steps completed), observations and results per attempt and step, summaries, the parent experiment's status | start an experiment, claim, heartbeat, persist a step, persist the summary, fail, recover, retry, cancel | the engine's event stream; two triggers (legal edges, experiment status) |
| Scenario job queue: `services/scenario-lease`, `scenario-job`, `scenario-worker/` | `scenario_jobs` (status, attempt, lease, deadline), `scenario_attempts`, `scenario_points` | enqueue a run or a sensitivity sweep, claim with recovery, heartbeat, release, persist, reject | scenario engine client; a unique index on the running job of a factory |
| Scenario workspaces: `services/scenario-workspace`, `scenario-live` | workspaces, drafts and their revisions, receipts | create, save a draft, enqueue, prepare and create a LIVE evaluation | operations head, decision cases, job queue |
| Work orders: `services/work-order*` | `work_orders` (status, assignee, attempt, revision), completions, events, receipts | create from a published assignment; twelve commands | the published schedule; factory access |
| Incidents: `services/incident*` | incidents (status, owner, revision), occurrences, links, receipts | report, the transitions, append, link, unlink | work orders and cases |
| Factory access: `services/factory-access`, `factory-registry`, `controllers/user` | factories, memberships, users' roles and active flags | grant, revoke, change role, deactivate; the authorization inside every write | every writer above takes its locks |
| Maintenance decisions: `services/maintenance-decision` | `maintenance_decisions` and their actions | approve, reject, override | recommendations of episode steps |
| Planning and scenario engines: `ai_services/domain` | none between requests | plan, validate, simulate, score, recommend; override, evaluate, sweep, map to a LIVE case | called over HTTP by the clients above |
| Web client's writes: `lib/scenario-planning/hooks.ts`, `lib/work-orders/use-work-order-intent.ts`, `lib/operations-api/use-operations-action.ts` and the identity frames | the frozen request of an unanswered write, in the tab's memory or in `sessionStorage` | confirm, send, retry, recover, review | the receipts of the services above |

The read services, the analytics, the HTTP layer and the other pages keep no
state of their own that another part relies on.

### What makes it hard, and what must hold

*Planning under leases.* A worker plans for up to minutes outside any
transaction. In the meantime its lease may expire, the case may be reclaimed,
claimed and planned by another, the process may be told to stop, die, or lose
the reply to a commit. At most one claim can write, and it is the last; a
settled case stays settled; no case is left behind; a stop signal is obeyed.
The scenario queue adds a cap of attempts, an absolute deadline and one running
job per factory.

*Commands and the head.* Approvals and commits act on what a person saw some
time ago, are retried after lost replies, and race with new snapshots. One
publication per plan version, published exactly as approved and on the basis
reviewed, each request carried out at most once.

*Episodes.* Wall clocks decide leases, a failed episode can be retried while its
last worker still writes, and engine events arrive as they please. A completed
episode has exactly its attempt's steps and one summary, an old attempt writes
nothing, and the experiment's status is that of its episodes.

*Work orders and incidents.* Long sequences of commands by people in different
roles, whose roles change. Nobody verifies their own completion, started work is
not cancelled, one active order per maintenance request, no order depends on one
person, and an incident closed over finished work stays so.

*Scenarios.* A LIVE evaluation spans two transactions and a validation between
them; it must never be rebased silently. The same input reaches the planner by
several ways and must be answered alike.

*Writes of the client.* The reply may be lost, the page left, the session
changed. What the page tells of a write must be what became of it.

`PROJECT.json` lists the hazards one by one with the line where each bites.

## 2. Modules and runs

| Module | Contents | Runs | Proofs |
|---|---|---|---|
| `LeasedJob` | abstract: one live owner at a time, the last claim publishes, settled is final | refined in `case`, `scenario` | |
| `DecisionCase` | planning of decision cases under leases | `case` | `DecisionCaseProofs` |
| `Publication` | abstract: an append-only log of approved publications | refined in `command` | |
| `DecisionCommand` | head, snapshots, cases, approve, reject, commit, receipts | `command` | `DecisionCommandProofs` |
| `EpisodeExecution` | experiments, episodes, workers, recovery, retry, the status triggers | `episode_attempts`, `episode_last_two` | `EpisodeExecutionProofs` |
| `StepStream` | abstract: whole steps in order, then their summary | refined in `engine_stream` | |
| `EngineStream` | the event collector against any stream an engine may send | `engine_stream` | `EpisodeExecutionProofs` |
| `ScenarioJob` | queue, attempts, deadline, one running job per factory | `scenario` | `ScenarioJobProofs` |
| `FactoryAccess` | accounts, roles, memberships; who may write now | in the runs of the modules that extend it | |
| `WorkOrders` | orders, the twelve commands, recovery | `incident_orders` | `IncidentOrdersProofs` |
| `IncidentOrders` | incidents, composed with the orders and the access | `incident_orders` | `IncidentOrdersProofs` |
| `ScenarioWorkspace` | drafts, runs, the two-transaction LIVE evaluation, with the access | `scenario_workspace` | `ScenarioWorkspaceProofs` |
| `PlanRules`, `PlanScheduler`, `PlanRanking` | feasibility rules and both validators, the greedy scheduler, KPIs and the score, as operators | `planning_engine` | `PlanningEngineProofs` |
| `PlanningEngine` | calls of the planner: LIVE, baseline, scenario, sweeps | `planning_engine`, `planning_legacy_reserved` | `PlanningEngineProofs` |
| `WriteIntent` | the three hooks that send a confirmed write, a browser and a server | `write_intent`, `write_intent_recovery` | `WriteIntentProofs` |

`X extends Y` in the order: `FactoryAccess` < `WorkOrders` < `IncidentOrders`;
`FactoryAccess` < `ScenarioWorkspace`; `PlanRules` < `PlanScheduler` <
`PlanRanking` < `PlanningEngine`. `MC...` modules hold the constants of an
instance (`MCDecisionCommand` also later initial states); `DecisionCase`,
`EngineStream` are run as they are. All runs check deadlock except those of
systems that may rightly stop: people need not act, keys and revisions run out,
and a computation ends (`incident_orders`, `scenario_workspace`,
`planning_engine`, `write_intent`, `engine_stream`).

Each property of a passing run has a mutant in `PROJECT.json`: a plausible slip
in one definition (a dropped guard, a swapped order, a missing reset), written
beside the original with a comment that starts "Mutant", with which the property
is violated in the same run.

## 3. Decision case planning: `DecisionCase.tla`

### Correspondence

| Model | Code |
|---|---|
| `row`, `artifact`, `trail` | `decision_cases`, the stored recommendation (as the number of the claim that produced it), and the status events after creation |
| `pc`, `claim`, `renewal`, `lost`, `stop` | the worker's position in `runOnce`, its claim object, a heartbeat in flight, `leaseLost`, the abort signal |
| `seen` | the rows of the last `findMany`, tried one by one |
| `Owns`, `Transition`, `Released`, `Claimable` | `check`, `transition`, `clearLease` and the guard of `claimDecisionCase` |
| `ClaimTx` ... `PersistTx` | the six transactions of `decision-planning.service.js`, each holding the row lock to its commit |
| `Poll`, `Recover`, `ReadCandidates`, `TryClaim`, `Idle` | `claimNextDecisionCase`: two reads outside any transaction, a compare-and-set per row |
| `SendRenewal`, `RenewalCommits`, `RenewalReturns`, `RenewalRefused`, `RenewalThrows` | the heartbeat timer: sent, committed unknown to the worker, known to it, refused, or failed before or after its commit |
| `PlannerAnswers`, `PlanFails`, `Drained`, `Persist`, `Abandon`, `Release`, `Block` | the `try` and `catch` of `runOnce`, in their order |
| `Stop`, `Exit`, `Crash`, `Restart` | signals, the end of `start()`, the death of a process, its supervisor |
| `GuardEdge`, `GuardAccepts` | the trigger `decision_case_processing_guard`, translated from its SQL and used only as a property |

Time is relative: `lease` counts the ticks left, and 0 means expired, so the
clock needs no bound. A random lease token is the number of the claim, a value
never issued before. The plan itself, request hashes and the six HTTP outcomes
are abstracted to "answers" or "fails", because every failure takes the same
path; the four failure codes are one. `persistDecisionRecommendation` rechecks
the lease before each of its stages and rolls everything back when one check
fails; a commit is therefore one step taken while the lease is live, and a roll
back changes nothing.

### Run `case`

Two workers, one case, a lease of two ticks, two claims, revision bound 6, two
faults. Two workers are what every race here needs (an owner and a usurper), two
claims let the second overtake the first, and two faults let a lost reply meet a
stop or a crash. `MaxAttempts` bounds claims: after it, a pending case is left
alone, which is why `PendingIsClaimed` speaks of cases below the bound.
`MaxRevision` bounds renewals only. With several cases nothing new happens to
one of them but that the lists read before the compare-and-sets are longer; the
proofs cover any number.

- `RowConsistent`: status, processing state, lease, token and artifact agree, as
  the table's constraints demand (with the types of all variables).
- `StaleClaimFenced`: an owner that was superseded is strictly behind the row's
  revision, and no two workers hold one claim.
- `LiveOwnerIsHeard`: a worker that owns its case and lost no reply is never
  refused: no renewal of it is answered with a conflict, and what it ends its
  claim with commits. Between the commit of a renewal and its reply the worker is
  behind the row (the plan may arrive just then), so this rests on draining the
  heartbeat before persisting.
- `AuditTrail`: the events are a gapless history, except for renewals.
- `TriggerNeverFires`: the SQL trigger accepts every update the service commits.
- `LeaseHonoured`: under a live lease only its holder changes the row.
- `ImplementsLeasedJob`: the cases keep the promise of `LeasedJob`.
- `ClaimEnds`, `PendingIsClaimed`, `StopCompletes`: liveness.

Liveness is under `FairSpec`: time passes; a running process executes its own
code; a query in flight returns; the planning client ends each call, because one
absolute budget covers both of its attempts
(`services/operations-planning.client.js`, line 83); a process that is down is
started again. Crashes, signals and lost replies are never assumed, nor excluded:
there are finitely many (`MaxFaults`), without which no claim need ever end.

## 4. Commands and the operations head: `DecisionCommand.tla`

| Model | Code |
|---|---|
| `head`, `snapshots`, `published` | the factory's row of `operations_heads`, `factory_snapshots`, `operation_schedules` |
| `cases`, `human`, `commits`, `events`, `receipts` | `decision_cases` with the plans of its recommendation, `decision_human_records`, `decision_commits`, the human events, the idempotency receipts by actor and key |
| `requests` | requests being sent or retried: who, under which key, quoting what they had read |
| `grant` | whether the actor's account, role and membership allow a write now |
| `born` | history only: the head's revision when the case was created |
| `Ingest` | `ingestFactorySnapshot`; a replay or a conflicting delivery writes nothing and is no step |
| `SendCreate`, `SendCommand` | a client composes a request from what it reads at that moment |
| `Outcome` | the order of the checks: authorization, receipt, fences |
| `CreateFence`, `StateFence`, `BasisFence`, `SelectionFence`, `IdentityFence` | the fences themselves |
| `Create`, `Approve`, `Reject`, `Commit`, `Advance`, `WriteReceipt` | the writes of one transaction, with its event and receipt |
| `Replied` | the reply arrives and the request is gone, or it is lost and the request stays |
| `Plan`, `PlanningFails` | the planning workers, seen from here: one step to `AWAITING_APPROVAL` or `FAILED` |
| `ChangeAccess` | grants, revocations and role changes |
| `HumanInsertGuard`, `CommitInsertGuard`, `StatusGuard` | the triggers, translated from their SQL and used only in a property |

Every writer takes the factory's advisory lock as its first statement and keeps
it to its commit, so a transaction is one step: what interleaves is the moment a
person read, the moment the request is delivered, and its repetitions. A plan
stands for a candidate with its version, verdict, hashes and schedule, whose
identity `ScheduleOf` gives; equal hashes are equal plans. `requests` and a lost
reply model late, reordered and repeated delivery.

Run `command`: one person with five keys, two cases, two snapshots of which the
second has yet to arrive, two valid plans with different schedule identities, two
requests in flight. It starts from two situations, each with the receipts of what
led to it: one case was rejected and another is to be created, or one case is
approved and another, live or simulated, waits for approval on the same head.

A case needs three effects, hence three receipts, so the keys bound the histories:
in the first situation three free keys hold the whole life of a case, in the second
two free keys hold a commit and what is tried afterwards on the other case. Two
requests in flight are a retry meeting another command. The free keys are
interchangeable, and the properties are not liveness, so symmetry is sound. Three
things the run does not reach are covered by the proofs alone, which are about any
number of people, keys and cases: a second person (receipts are kept by person
and key), a plan that is not valid, and a second publication, where the schedule's
identity may be taken.

- `ReadsCanBeActedOn`: the two tokens of a basis (snapshot, plan version) are as
  good as the head's revision, there being no way back to an earlier pair; and
  `available_commands` tells the truth both ways. The one refusal it cannot
  foresee is `SCHEDULE_ALREADY_PUBLISHED`.
- `DecidedOnUntouchedBasis`: a command takes effect only if nothing was ingested
  or published since the case was created.
- `ReceiptPerEffect`: one receipt for each effect and one effect for each receipt,
  however late, often or out of order requests are delivered.
- `PublishedAsApproved`: what was published is the plan approved, for a live case,
  on its snapshot, and is still stored under its identity.
- `CommandTriggersNeverFire`: the triggers accept every transaction, and a stored
  schedule is never overwritten.
- `ImplementsPublication`: the log of publications only grows at its end, each
  entry approved before, no schedule identity twice. `Publication` lets anything
  be approved at the start, since the run starts with an approval.

No fairness is assumed, as nothing here must happen: people may always stop.

## 5. Episodes and their experiment: `EpisodeExecution.tla`

| Model | Code |
|---|---|
| `experiment`, `episodes`, `steps`, `summaries` | `experiments.status`, the episode rows as committed, the stored steps and summaries by attempt |
| `queue` | the `PENDING` episodes by `queued_at` and identifier |
| `tx` | an open transaction: the rows it wrote and locked, what its trigger derived, and what it will write to the experiment |
| `pc`, `job`, `abort`, `stop` | the worker's position, its claim with the steps streamed so far, the controller's signal, `stopping` |
| `Run`, `Retry`, `Cancel` | the handlers of the API |
| `Recover`, `Claim`, `Finish`, `Fail` | `recoverStale`, `claimNext`, `persistSummary`, `markFailed` |
| `StepStored`, `StepReplyLost` | `persistStep`, with its reply or without |
| `Heartbeat` | one renewal: done, refused, or failed before or after its commit |
| `Write`, `Sync`, `Publish` | the three moments of a transaction that changes a status |
| `Derive`, `TransitionAllowed` | the two triggers, from their SQL |
| `RunFails`, `StreamEnds`, `GraceEnds`, `Exit`, `Crash`, `Restart` | the ends of a stream and of a process |

Prisma's transactions run here at PostgreSQL's default, READ COMMITTED, which is
why they are not single steps as above: the AFTER trigger reads the episodes as
committed plus its own change, later compares with the experiment, later
commits. Writes of one row that change no status fire no trigger and are one
step. A blocked statement is one not yet begun: its guard is evaluated when the
lock is free. (A worker reads its clock just before the statement; a write that
passes because of an older reading is the same write made before the tick, for
only recovery depends on expiry, and a recovered row is fenced by its status.)

Clocks are per process: `Skew` says how far each is ahead, and `lease` counts
ticks left. A token is the pair of worker and attempt, as fresh as a random one,
because an attempt is claimed at most once. The collector is represented by its
contract `StepStream` (section 6): whole steps in order, at least one, then a
summary that counts them. The branch of `persistStep` for a step stored before is
left out: a worker stores each step of an attempt once, and `ResultsAreWhole`
shows that the row agrees.

| Run | Instance | Question |
|---|---|---|
| `episode_attempts` | 1 episode, 2 attempts of 2 steps, 2 workers with different clocks, 2 open transactions, 2 faults | fencing of attempts, the experiment's status, liveness |
| `episode_last_two` | 2 episodes, 1 attempt, 2 workers, 2 open transactions | the experiment's status (a violation) |

- `ResultsAreWhole`: `steps_completed` counts the steps stored for the present
  attempt, all by one worker; completed means one summary, of the present
  attempt, that counts all of them.
- `AttemptsAreExclusive`: no two workers ever hold claims of one attempt.
- `OldAttemptsFrozen`: nothing is added to an attempt but by its claim's holder
  while it runs, and the transition trigger accepts every commit.
- `ExperimentSynced`: with nothing under way the experiment's status is that of
  its episodes. This is what `WORKER-PERSISTENCE.md`, line 18, says. It holds of
  one episode, whatever its attempts, clients and workers do.
- `RunningEnds`, `QueuedIsTaken`, `StopEnds`: liveness.

**Finding.** `ExperimentSynced` fails of two episodes: when the last two open
ones end in overlapping transactions, each trigger sees the other episode open,
derives `RUNNING` and changes nothing; the experiment stays `RUNNING` after both
commits. If no episode failed, no later transition corrects it.

Liveness is checked under `FairSpec`: time passes, a running worker executes its
code, the database ends what it began, a process that is down is restarted, and
the engine's stream is finite, each read of it being bounded by a timeout
(`worker/event-collector.js`, line 73). Heartbeats and clients are not assumed to
act.

## 6. The engine's events: `EngineStream.tla`

The engine is the environment and may send any event at any time. `Accept` is
one turn of the collector's loop (`Acceptable` its checks, in their order),
`StepCommits` the awaited `onStep`, `EngineCloses` and `Break` the ends of the
loop, `CheckAbort` and `Commit` the caller's last look at the signal and
`persistSummary`, `Abort` any of shutdown, lost lease and silence. `mine`
abstracts the comparisons with the request, `about` the observation identifiers
by which the three events of a step refer to each other.

`ImplementsStepStream` (run `engine_stream`: two observations, three steps, every
stream of events of that size) says that the database gets whole steps, in order,
each about one observation, none after the terminal one, then the summary of
exactly those; and that once aborted at most the step in hand is still stored and
the episode does not complete. The bound on steps only limits the step numbers
an event may carry; the proof is for any bound.

## 7. Scenario jobs: `ScenarioJob.tla`

| Model | Code |
|---|---|
| `job`, `attempts` | `scenario_jobs` with its points and the attempt that wrote its result, `scenario_attempts.status` |
| `pc`, `seen`, `claim`, `retryable`, `lost`, `stop` | `runOnce`: position, candidates not yet tried, claim, the error in hand, `lost`, the signal |
| `Poll`, `TryClaim`, `Pass`, `Idle` | `claimNext`: the list, and for each candidate one transaction that fails, recovers or claims it |
| `Owns`, `Heartbeat`, `Persist`, `Settle` | `owns`, `heartbeat`, `persist`, and `release` or `reject` as the error says |
| `EngineAnswers`, `EngineFails`, `ResultRefused` | the client's outcomes, and a result the validation refuses |
| `Enqueue` | `enqueueRun`, `enqueueSensitivity` |
| `Tick`, `Stop`, `Exit`, `Crash`, `Restart` | time, signals and deaths |

Every transaction takes the factory's lock and the row first and is one step.
The filter of claims by engine and contract version is left out (a worker serves
the version of the jobs it is given), and so are the events of a job.

Run `scenario`: two jobs of one factory, two attempts each, two workers, a lease
of one tick and a deadline of two, one fault. Two jobs are a factory's
competition; the lease shorter than the deadline lets an attempt expire and be
followed by another before the deadline. The guard that a sweep starts from a
finished run is in `Enqueue` but not exercised by this instance (`NoSources`).

- `QueueSafe`: the job, its points and its attempts tell one story, one job of a
  factory runs, none is queued without an attempt left.
- `ImplementsLeasedJob`: a result is stored only by the last claim while its
  lease lives.
- `JobEnds`: every queued job ends, under weak fairness of the clock and of each
  worker's own steps (which include its restart), the engine client having an
  absolute budget per call. Renewals may go on as long as the deadline lets them.

## 8. Access, work orders and incidents

`FactoryAccess` has the accounts with role, active flag and membership, and the
commands that change them; `AuthorizeWrite` is the question every writer asks
inside its transaction. A writer holds the factory's lock and shared row locks on
the users it depends on, a user command the exclusive ones, so each is one action.

`WorkOrders` has `order` (one row per assignment of a published schedule) and
`head`. `Create` is `createWorkOrder`; `Command` is `commandWorkOrder`:
`MayIssue`, `Applicable`, `Patched` are `requireCommandRole`, `transition` and
its patch, `Recoverable`, `Recovered` the recovery policy, `Named` the command's
input. `UpdateGuard` and `RowChecks` are the migration's trigger and constraints,
used in properties only. `IncidentOrders` adds `incident` and `occurrence`; each
command of `incident-policy.js` is an action under `Fenced`, and closing reads
the orders that `WorkOrders` moves.

Receipts are abstracted in both (`DecisionCommand` has the same design): a
repeated request is answered from its receipt and changes nothing, and without
one it meets the revision. Links to decision cases are left out, as no later
guard reads them. A command carries the revision its author read, so it may
arrive arbitrarily late. The limit on links counts orders only: where cases have
taken the places, the code refuses the link, which is no step.

Run `incident_orders`: three people of different roles (an administrator outside
the factory's members, an engineer, an operator), one change of access anywhere,
one order of seven revisions, an incident of seven, two interchangeable sources.
Seven revisions let an order be reported, sent back and reported again while the
incident waits for it, and let an incident be closed and reopened. With one order,
the only unfinished one of a request is only one anyway, and nobody verifies the
second report: these two parts of `OrdersSafe` rest on its theorem, which is about
any number of assignments and revisions.

- `OrdersSafe`: row checks, one completion per attempt, the verifier is not the
  one who reported last, one unfinished order per request. Windows of one machine
  may overlap, since a manager may override that check, so nothing is stated of
  them (`Clash` is in `Create`; no pair of this instance overlaps).
- `NeverOrphaned`: with two who may manage and a third who may be assigned and is
  not the assignee, some command offered to one of the two on an unfinished order
  is accepted, whoever else lost access.
- `UpdateGuardNeverFires`: the trigger accepts every update of the service.
- `IncidentsSafe`: an incident is closed by another person than the one who
  resolved it; the orders it was closed over stay finished and were verified by
  another; each source is counted once.

An observation: links have no guard on the incident's state, so an active order
may be linked to a closed incident. `IncidentsSafe` is about the orders linked at
the closure.

## 9. Scenario workspaces: `ScenarioWorkspace.tla`

`workspaces`, `drafts` (with all revisions), `jobs` (with the input they froze),
`cases` (LIVE evaluations) and `receipts` are the tables; `requests` are those
under way, composed from what the author reads then. `write` is `Refuse`,
`Replay`, or the command's own action; the LIVE evaluation is `PrepareLive` in
one transaction, the validation outside, and `CreateLive` in a second. `Resend`
repeats a request while an earlier delivery may be between its two transactions.
Contents of drafts are abstracted to those a LIVE case can express (`Mappable`)
and those it cannot.

Run `scenario_workspace`: an administrator with one key and an engineer with two,
two requests in flight, two revisions of the head, one change of access.

- `EffectPerKey`: each key has one effect, the one its receipt names; no save of a
  draft is lost; each job holds the content of the revision it names.
- `LiveOnItsBasis`: a LIVE case is made only from a feasible completed run, on the
  basis of its workspace, on the head its author confirmed, by someone who may
  write then.

## 10. The planner: `PlanRules`, `PlanScheduler`, `PlanRanking`, `PlanningEngine`

`PlanRules` has the assignments, the retained work of the current schedule and
the validator under its two profiles (`legacy-v1` for a LIVE case without bounds,
strict for scenarios and bounded cases). `PlanScheduler` has the greedy scheduler
under its strategies: operations in their order, teams by minimal cover, the
first gap in shifts and machines. `PlanRanking` has the KPIs, the simulated
failures from given draws and the normalised score. `PlanningEngine` makes each
call of the service an action; the deadline may end a call after any number of
strategies (`Budgets`).

Run `planning_engine`: two machines, a job of two operations and one of one, two
requests of which the second needs both technicians, current schedules this
planner itself made (some of it locked or completed since) and five it would not
make (locked work before its release, too long, done and too long, cancelled, or
there twice), six sets of overrides (one names a request that does not exist),
both kinds of sweep.

- `OffersAreFeasible`: whatever is offered meets every hard constraint, stated
  independently of the validator and of the scheduler. Of a LIVE case without
  bounds this is stated if the entries to keep are distinct (below). An answer cut
  short by the deadline is included: its plans are whole plans.
- `SameInputSamePlans`: the scenario, the LIVE case made from it and the sweep's
  point at the same value have the same plans.
- `SelectionFollowsWeights`: no dominated plan is recommended, plans of a scenario
  are compared on the same draws, and a weight sweep changes in one direction.

The named assumptions say what a snapshot and an override may be: what the
contracts' validators accept, no more. A current schedule may therefore come from
anywhere. Entries that must be kept stay as they are, so their durations and
releases are those they had: the strict profile checks them again, `legacy-v1`
does not. `legacy-v1` also counts nothing: if a locked entry is cancelled, or an
operation has two, the scheduler takes the operation for placed, and a LIVE plan
without live work for it, or with it twice, is valid. No schedule this planner
publishes is like that, but no contract forbids it, so `OffersAreFeasible` has it
as a condition on that one case (`ReservationsDistinct`).

**Finding** (`planning_legacy_reserved`). A locked reservation whose request is
still active is retained and scheduled once more
(`ai_services/domain/operations/scheduler.py`, line 95). Under `legacy-v1` the
entries collide and a LIVE request ends in an internal error, where
`decision-planning-engine-v1.md` promises plans, `PLANNING_TIMEOUT` or
`NO_FEASIBLE_PLAN`.

Observations, which no document contradicts: the scheduler's own plan may be
refused by the validator, so that `NO_FEASIBLE_PLAN` is answered although a plan
exists, when a team's later technician pushes the start out of an earlier one's
window (`scheduler.py`, line 392), when a locked successor follows a replanned
predecessor, or when retained work is on a resource that changed; a completed
operation without a retained assignment makes its successor infeasible; a LIVE
case draws its failures per strategy and makespan, so it may recommend another plan than the
scenario it came from.

Abstractions: arithmetic is exact (KPIs are rounded to six decimals in the code,
scores to twelve), and scores are brought to a common denominator; times are whole
units of the clock, which halves as `timedelta` does; a team is a set, its list
being in the order the scheduler makes; which of an operation's entries in the
current schedule comes first is any fixed choice; an absent latest start is the
horizon; checks that identifiers exist are the typing of the
instance; hashes, explanations and display differences are left out.

## 11. Writes of the web client: `WriteIntent.tla`

The three hooks freeze a request under a key before sending it. `memory`,
`bound`, `page` and `intent` are the stored request, the identity the memory
belongs to, the mounted hook with its step in `execute`, and what is known of
each key. The steps of `execute` are actions (`Identified`, `Post`, the answer in
`Serve`, `Confirmed`), since anything may happen between them: `Unconfirmed`
(deadline, network, 5xx), `Leave`, `Reload`, `ChangeSession`, `ChangeAccess`,
`Overtake`. The server is reduced to authorization, receipt and fence, in that
order; without a receipt an answer may be 409 although the same request would be
accepted later (`ASSIGNEE_UNAVAILABLE`, an active order of the request, an overlap,
an owner who lost his access), or 409 for good once its revision is `overtaken`.
Roles are membership in `allowed`, so the role checks on an assignee or owner that
come before the receipt are among the 403s. One tab and one scope are modelled,
storage always available, and a frame's verification as one step. `/auth/me`
answers 200, 401 or 5xx, so an identity read is not refused otherwise, but for the
journal, which also asks for the scope (`Viewer`). A frame that forgets the memory
on a refused read is covered by `Reload`, and `acknowledge` of the journal has no
guard of its own: `Reviewed` has that of its callers.

A refusal is *conclusive* when it tells that the request has not and will not take
effect: it answered the only send of the key, or it is a 409 to the author, who
has access and no receipt, with no earlier send under way. A 409 may pass, but the
hooks do not send a refused key again. Any other refusal leaves the outcome of an
earlier send *doubtful*.

Run `write_intent`: two people, interchangeable, each hook, two requests of up to
two sends, two changes of session and one withdrawal of access. Two sends are a
lost reply and its recovery.

- `VerdictsAreTrue`: accepted means committed, and conclusively refused means not
  committed in any later state either.
- `NoSilentRepeat`: the same person's second request takes effect next to a first
  only if they were told that the first was accepted or was refused on a
  repetition, in doubt, or the tab's memory was lost with it.

**Finding** (`write_intent_recovery`, the journal alone, one request, no change of
session). `docs/frontend-live-decision-workflow.md`, lines 44-45, says unknown
outcomes remain recoverable with the original key and body. `UnknownOutcomesRecoverable`
fails: the request commits, its reply is lost, access is withdrawn, and the
recovery is answered 404 before the receipt is looked up;
`use-operations-action.ts`, lines 92-94, clears the journal and reports a
rejection. The in-memory hooks show "rejected" likewise.

Observations made while modelling. The journal records its actor only after the
first identity read (lines 72-75): if that read fails, whoever is signed in at the
recovery is adopted, whereas `lib/operations-api/actor.ts`, line 4, says never to
replay another actor's journal. An identity read that fails unmounts the scenario
editor with its unsaved input.

## 12. Proofs

`tlapm` proves, for every value of the constants that meets the named assumptions
(each evaluated by TLC in a run):

| Module | Theorems | Argument |
|---|---|---|
| `DecisionCaseProofs` | types, `RowConsistent`, the last claim publishes, `StaleClaimFenced`, `LiveOwnerIsHeard`, `LeaseHonoured`, settled cases stay, `ImplementsLeasedJob`, `AuditTrail`, `TriggerNeverFires` | `FenceInv` ties memory to tables: a claim's token was issued; a claim whose token is the row's is current, one behind while a committed renewal's reply is on its way, or behind after a lost reply; a superseded one is strictly behind; a row observed at its present revision has the token it was observed with. `AuditInv` adds the events as the history of the row: which of its revisions have one, and the status the events before it add up to |
| `DecisionCommandProofs` | types, `PublishedAsApproved`, `ReadsCanBeActedOn`, `DecidedOnUntouchedBasis`, `CommandTriggersNeverFire`, `ReceiptPerEffect`, `ImplementsPublication` | `BasisInv`: a row agrees with the decision and the commit made of it, every plan version was published for one case, and a case that is not stale has the head it was created on. `EffectsInv` adds the count: a case has one receipt more than events, and each event the receipt that answers it |
| `EpisodeExecutionProofs` | `ResultsAreWhole`, `AttemptsAreExclusive`, `OldAttemptsFrozen`; `ExperimentSynced` where transactions do not overlap, and with one episode; of the collector, `ImplementsStepStream` | `Inv`: open transactions hold different rows, unchanged since they were read; what a transaction writes is what the position of its worker or the rights of its client allow; a claim's token is its worker and attempt, and the attempt is never queued again; steps and summaries agree with the row; the queue is the `PENDING` episodes. The collector's `StreamInv`: the pending events are the prefix of one step about one observation, the phase agrees with their number, and what is stored is counted by `step` |
| `ScenarioJobProofs` | `QueueSafe`, `ImplementsLeasedJob` | `IInv`: each row agrees with its attempts and a queued row's attempts are closed, one job of a factory runs, and a working worker has a claim |
| `ScenarioWorkspaceProofs` | `EffectPerKey`, `LiveOnItsBasis` | `Inv`: what a request under way names exists, and names still what its first transaction checked; a job's content is that of the revision it names; each saved revision was made from the one before; every effect was made under one key that has a receipt, and every receipt's key made one |
| `IncidentOrdersProofs` | `OrdersSafe`, `UpdateGuardNeverFires` and `NeverOrphaned`, of the orders alone and of the composition; `IncidentsSafe` | `OrdersInv`: every row keeps the checks and one report per attempt, the attempt being no later than the revision, and unfinished orders of a request are one. `IInv` adds the rows of incidents, every source recorded for a known incident, and finished orders staying finished (by the orders' step lemma) |
| `PlanningEngineProofs` | `OffersAreFeasible` (of any current schedule, with the condition of section 10 on a LIVE case without bounds), `SameInputSamePlans`, `SelectionFollowsWeights` | `AnswersInv`: each answer is the planner's on its own input, whatever was called before it. Then, of one call: every entry the scheduler adds is `Fresh` (release, duration, bounds, machine) and every piece of work due is placed, which with what the validator of the profile checks and the contract's unique identifiers gives `Feasible`; the two ways to change a snapshot, by overrides and by LIVE bounds, give one snapshot; a better candidate has the higher score, and a score is linear in the weight swept, so of two weights the larger never prefers less benefit |
| `WriteIntentProofs` | `VerdictsAreTrue`, `NoSilentRepeat` | `Inv`: what travels was sent, each try once; the page shows the request of its slot; an open request is in its author's slot; a person's earlier requests are no longer open; a key refused conclusively is not being sent and not in the journal; and of each key, what is known of it against what the server did |

None of the properties is inductive by itself; each invariant adds what the
other side (a worker's memory, an earlier attempt, a request under way, an open
transaction) may still hold. The proofs have one lemma per transaction, saying
what it does to the row it changes and that it leaves the others alone, and one
step per action of `Next`. The refinements use the invariant and show that each
step maps to a step or a stutter of the abstract specification.

The theorems hold for any number of cases, episodes, orders, people, keys,
contents and workers, any lease and clock skew, and any bound on faults, which
is what the instances of section 2 cannot show: overlapping LIVE evaluations of
many people, two orders of one request, an attempt that outlives its lease by any
time, a factory of any size with any calendars, priorities, weights and draws.

`ExperimentSynced` is false in general (section 5), so the theorem states exactly
how far it holds: `SyncedWhenSerial` of every behaviour in which no two
transactions are open at a time, with any number of episodes, and
`SyncedWithOneEpisode` without that condition, because the transactions of one
row wait for each other. The finding's two overlapping transactions are thus the
only way for the status to drift.

The planner is a function, so its proofs are about data: sorted sequences, passes
over a team, a search that tries later and later starts, sums. Where a definition
recurs (a recursive function over the positions of a sequence, the instants of
the search, or the subsets of a finite set) a lemma shows first that the function
exists, and then what it keeps, by the least number at which it would fail to.
Termination of the search for a maintenance slot is part of this: each try starts
later, and none after the latest start is made.

Only model-checked: liveness (`ClaimEnds`, `PendingIsClaimed`, `StopCompletes`,
`RunningEnds`, `QueuedIsTaken`, `StopEnds`, `JobEnds`), which is out of the
prover's reach. Every invariant and every action property of a passing run is
stated by a theorem, `ExperimentSynced` as far as it holds.

## 13. Not modelled

The reasons are in `PROJECT.json`, component by component.

- Read services, analytics, lists and cursors: projections without state.
- HTTP routing, request schemas, serializers, error wording.
- Passwords, tokens and sessions: library calls. The client's session is an input
  of `WriteIntent`.
- The engine and planning HTTP clients: one bounded call; their outcomes are the
  environment of the worker models.
- Maintenance decisions: one compare-and-set on one row.
- The rest of the web client: pages, forms, tables, generated types and API
  clients. It is about half of the repository's code, and what it decides about
  the system's state is decided in the three hooks.
- In the planner: rounding, explanations, hashes, the process guard.

This is why the map covers a small part of the implementation's lines though it
covers the code in which processes and people meet: the larger share of the
lines renders, validates shapes, converts or lists.
