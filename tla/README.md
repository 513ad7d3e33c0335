# TradePilot in TLA+

TradePilot is a research and paper-trading service: an HTTP API accepts backtest, sentiment,
market-research and paper-trading jobs, external workers execute them, and a metadata store (SQLite
or Postgres, `pairs_trading/platform/persistence.py`) keeps what must survive. What is hard is the
protocol between API, Redis queue, workers, controller, store and ledger files, and, in the
sequential code, the ledger and the folds of a backtest. These modules describe both. Paths below
are relative to the repository.

## 1. Inventory

| Component | State it keeps | Operations | Interacts with |
|---|---|---|---|
| Durable job store (`platform/persistence.py`) | `jobs`: status, version, attempt, owner, lease, progress | `claim_job`, `heartbeat_job`, `update_claimed_job`, `release_job_claim`, `publish_claimed_job`, `recover_expired_jobs`, `upsert_job` | workers, controller, API |
| Worker execution (`backend/worker_tasks.py`, runners of `backend/services.py`) | the claim, a heartbeat thread, `lost`/`uncertain` events | claim, compute, upload, publish, complete, release | store, object storage |
| Queue dispatch (`backend/job_dispatch.py`, `backend/job_queue.py`) | dispatch fields of the row, RQ ids in Redis | `dispatch_initial_job`, `mark_dispatch_accepted`, `enqueue_quant_job` | API, controller, Redis |
| Controller (`apps/worker/job_control.py`) | the batch of a pass | recovery pass, reconciliation pass | store, Redis |
| Paper runs (`backend/services.py`, `operations/paper_trading.py`, `paper_state.py`) | `paper_runs` rows, one JSON ledger per strategy under a file lock, paper agents | `run_paper_batch`, create/update/retry/complete/fail a run, `apply_snapshot` | job claim (ownership guard), artifact storage |
| In-process runners (`backend/market_research_services.py`, `backend/services.py`) | jobs in memory and in files, an executor, rows, report records | submit, run, cancel an agent, `_finalize_unhandled`, load after a restart, trim | store, agent threads |
| Quotas (`persistence.py`, `backend/quotas.py`) | `usage_events`, `quota_usage_counters` | `check_and_record_many`, `reserve_usage_events` | API routes, sentiment jobs |
| Daily refresh (`backend/telemetry.py`) | `refresh_runs`: status, lock; `refresh_statuses`: status, next due time | `due_users`, `run_for_user`, `_execute_run` | scheduler threads, requests, command line |
| Backtest ledger (`engines/ledger.py`) | cash, positions at average cost, pending targets | rebalance, fill, clip or reject an order, charge a period | walk-forward backtester |
| Walk-forward folds (`engines/backtesting.py`, `engines/validation.py`) | the list of folds | `build_walk_forward_boundaries`, `WalkForwardBacktester.run` | strategies, ledger |
| Stripe billing (`persistence.py`, `backend/saas.py`) | `stripe_events`: status, attempts, claim token; `subscriptions`: plan, stamp | `webhook` (claim, apply, complete or fail an event), `sync_subscription` | Stripe, several API processes |
| Accounts, MFA, marketplace, deployments | rows with unique keys or versions | see `PROJECT.json` | API routes |
| Strategies, features, research, reports, frontend | none shared | sequential computation, presentation | - |

What is hard in it:

* **Split transactions.** Every owner-checked store call reads a row in one transaction and writes
  it in another, conditional on the version it read. Between the two the lease may end, the
  heartbeat thread may write, the controller may requeue and another worker may claim.
* **Guards that are not fences.** A worker asserts its claim and then acts; a paper execution calls
  `ownership_guard()` and then trades a file. Both may have lost the job by the time they act.
* **Two systems, no transaction.** A row is stored and a Redis job is enqueued by separate calls;
  either process may die between them, and Redis may raise after it took the job, or forget it.
* **Blind writes.** `_persist_dispatch` reads a row and upserts it unconditionally.
* **Events from outside.** Stripe delivers events late, twice and out of order, until an answer of 200.
* **Files.** A ledger is read, prices are computed from it, and it is read again under its lock.
* **Bounds.** Pages of queued rows, recovery batches, retry counts of conditional writes, attempts,
  and a list of jobs in memory from which running jobs are trimmed.
* **Concurrent transactions.** Two requests reserve the last unit of a quota; each sees what was
  committed when its statement began, and waits for the other's locks.
* **Threads that cannot be stopped.** An agent that timed out goes on, and its late event meets a
  job that has ended.
* **Locks that run out.** The lock of a refresh is a time, never renewed and looked at only once.
* **Accounting.** A fill that turns a position, a purchase clipped to the cash, a missing price and
  the seam of two folds are where books and targets go wrong.

What makes each part correct: a job's attempts are exclusive and bounded, only the attempt that
completes has its results published, terminal rows and progress never go back, abandoned claims
are recovered, queued rows get delivered, each run trades each ledger once and its dates in order,
a completed run, and a completed job, is whole, a subscription follows Stripe's events whatever the
order of their delivery, no limit is passed and nothing is charged in part or twice, what an
in-process job has recorded stays, a day's refresh is done once, the books of a backtest balance and
nothing in it is decided from the future. The unmodelled parts are listed with their reasons in
`PROJECT.json` (`components`), and the hazards, with the properties that would catch them, under
`hazards`.

## 2. Modules

| Module | Models | Composition |
|---|---|---|
| `JobRows` | the job row as pure operators: what each store method computes and when its WHERE clause matches | extended by `JobClaims`, instantiated by `JobDispatch` |
| `JobClaims` | worker main thread, heartbeat thread, split reads and writes, publication, recovery | implements `JobLifecycle` |
| `JobLifecycle` | abstract specification: what a durable job promises | - |
| `JobClaimsProofs` | proofs about `JobClaims` | extends `JobClaims` |
| `JobDispatch` | API submission, RQ, worker executions in single steps, the controller's two passes | uses `JobRows` |
| `JobDispatchProofs` | proofs about `JobDispatch` | extends `JobDispatch` |
| `PaperRuns` | `run_paper_batch` by several executions of a job, run rows, ledgers, agents | its claims are those of `JobClaims`, reduced to an owner |
| `PaperRunsProofs` | proofs about `PaperRuns` | extends `PaperRuns` |
| `StripeEvents` | the webhook by several requests at a time, Stripe's deliveries, the administrator's sync | - |
| `StripeEventsProofs` | proofs about `StripeEvents` | extends `StripeEvents` |
| `UsageQuotas` | the transactions of quota reservations, statement by statement, and the jobs paid with them | - |
| `UsageQuotasProofs` | proofs about `UsageQuotas` | extends `UsageQuotas` |
| `InProcessJobs` | request threads, executor threads and agent threads of an API process, its memory, files and rows | - |
| `InProcessJobsProofs` | proofs about `InProcessJobs` | extends `InProcessJobs` |
| `DailyRefresh` | the refresh of users by several schedulers and requests, call by call | - |
| `DailyRefreshProofs` | proofs about `DailyRefresh` | extends `DailyRefresh` |
| `BacktestLedger` | the ledger simulator: planning, fills, positions, costs of a period | extended by `Backtest` |
| `WalkForward` | the loop that builds the folds | extended by `Backtest` |
| `Backtest` | a walk-forward backtest: the folds, then the ledger over their tests | composes `WalkForward` and `BacktestLedger` |
| `BacktestProofs` | proofs about the folds, the ledger and their composition | extends `Backtest` |
| `MC*` | model values and definitions for TLC | extend the module of their name |

`PROJECT.json` (`map`) gives the source lines of every definition.

### JobClaims

One element of `Workers` is one call of `_execute_queued_job`: RQ may deliver a job several times,
so several elements may run one job (`JobOf`). `pc` is the main thread (`delivered`, `claiming`,
the `Computing` phases, `uploaded`, `publishing`, `completing`, `closing`, `releasing`, `done`,
`crashed`), `beat` the heartbeat thread. `Begin...`/`Finish...` pairs are the two transactions of a
store call, with the retry loop of five reads (`CasRetries`). `publish_claimed_job`, which the code
runs in one transaction, is one action. `RecoverSelect` and `RecoverOne` are the select and the
row-by-row writes of `recover_expired_jobs`; `ControllerCrash` drops a batch. `clock` is the time
that all processes read, `TicksPerSecond` to a second; the ISO text comparison of the recovery query is
`IsoLE`, in which a time without a fraction sorts after every fraction of its own second
(`Second`).

The abstract `JobLifecycle` has a status, a count of attempts and the published attempt, with
atomic steps. `JobClaims` implements it under
`status = rows[j].status`, `tried = rows[j].attempt`, `published = Published(j)`.

### JobDispatch

The row and the RQ id `<<job, attempt>>` are separate. The API process `Submit`s, `Save`s,
`Enqueue`s and records the dispatch in two steps (`ReadForRecord`, `WriteRecord`). The controller
alternates `Recover` and `List`, and for each id `Dispatch`es, then records (`ReadForMark`,
`WriteMark`). Redis, RQ's supervision and the workers are the environment; conditional writes of
workers are single steps here, as `JobClaims` shows they may be. A pass reads one page of queued
rows, the newest first (`Page`); queued rows of jobs that are not followed may come before all
others on it, a number that is chosen anew for each pass. `overwritten` is a history variable: the
jobs on which a dispatch record undid another write.

### PaperRuns

One execution walks the dates of its job: `Enter` (`create_paper_run`), `Resume`
(`update_paper_run_status` or `retry_paper_run`), then `Load` and `Apply` for each strategy,
`Collect`, three `Publish` stages, `Complete`; after the last date `Sync` and `Finish`. `Guard`
is the ownership guard before each of these stages: it sets `cleared` and the stage follows in a
later step, so that `ClaimIsLost` fits in between. `Raise` and `Abort` are exceptions inside and
outside the `try` block, `Crash` is the death of the process. A ledger is the sequence of the
execution keys applied to it; `prices` is the set of runs whose component return its synthetic
prices contain. Money and quantities are left out. All jobs trade one deployment.

### StripeEvents

The events of one workspace are numbered in the order `(created, id)` by which
`apply_subscription_event` compares them. An event of a checkout session or a subscription is a
*plan event* and carries the plan of its number; the others are invoices, whose handler reads the
plan of the row (`ReadPlan`) and writes it back under the invoice's stamp (`Apply`), in two
transactions. Event `e` has the stamp `2e`; a sync has `2 * created + 1`, since it is stamped with
the present time and `sync_...` sorts after `evt_...`. A claim token is the number of its attempt.

A webhook request is a sequence of stages. `Claim` and `Retry` are the two halves of
`claim_stripe_event`: its read and its conditional `UPDATE`, between which, on Postgres, other API
processes commit. `Raise` is an exception inside the `try` block, `Crash` the death of the process
or an exception outside of it. `Deliver` is Stripe: any created event, in any order, until an
answer with status 200. Duplicates that Stripe sends after such an answer are left out: one of a
processed event writes nothing, and one of an event that is in progress can only help it to settle.
`SyncFetch` asks Stripe for its plan (`remote`) and `SyncApply` writes it. Payments, periods, the
status column and events of types that change no subscription are left out.

### UsageQuotas

A call of `check_and_record_many` reads the limits (`ReadQuotas`) and reserves its features in one
transaction: for each feature, in sorted order, `InsertEvent`, `ReadSum` and `InsertCounter` when
there is no counter (one statement in the code: its SUM is read when it starts, and its insertion may
wait), `UpdateCounter`, then `Commit`; `RollsBack` where a limit is passed or a key is used for
something else. Statements see what is committed when they start (PostgreSQL, READ COMMITTED).
`EventIsHeld` and `CounterIsHeld` are the row locks for which a statement waits. `CreateJob` is the
sentiment job that is submitted after the commit. `Crash`, `Midnight` and `SetQuotas` come at any
time. Events from before the counters exist are `Legacy`.

### InProcessJobs

`stage[j]` walks a job from its request (`new` to `queued`) through the thread of the executor
(`InThread`). `rows`, `files`, `reports` and `memory` are what is known of it in four places; every
write to one is a step. `Raise` is an exception at any step, in the `try` block, in its handler or
outside both, and `_finalize_unhandled` the callback that is left then. An agent has a thread that
passes the check of its cancellation (`Emit`) before it writes its event, so that the event may come
late (`LateProgress`). `Crash` ends the process, `Load` is the constructor of the next one.

### DailyRefresh

An executor is a scheduler thread or a request. It has the users it must do (`todo`), and for the
first of them the time it looked at him (`now`), which gives the key of the run and is what the lock
is compared with. `Check`, `Create`, `Deduplicate` and `TakeOver` are `run_for_user`; the last reads
an existing row and goes on without writing it, as the code does. `Start` to `MarkFailed` are
`_execute_run`, one action for each store call. `AttemptFails` is an exception in the `try` block,
which holds the refresh and what records its success; `Abort` is the death of the process, or an
exception outside of that block. `abandoned` and `disturbed` are history variables: runs that were
left in the middle, and runs that two executors shared or that were repeated after a success.

### BacktestLedger, WalkForward and Backtest

One row of the frame is `StartRow`, which makes the plan, an `Order` for each symbol of it, and
`EndRow`, which charges the costs of the period.
A position has its cost basis instead of the average cost. Money is in integers, divisions round
down, and the impact and commission of a fill are of the same form as in the code, so that what
holds, holds with rounding. `WalkForward` is the loop over the windows. `Backtest` runs the ledger
on as many rows as the tests have bars; what a strategy returns for a bar is any row of targets.

## 3. Runs

| Run | Instance | Question |
|---|---|---|
| `claims_fencing` | 2 executions of 1 job, 2 attempts, lease of 2 ticks, clock to 3, 1 controller restart | every safety property of `JobClaims`, and that it implements `JobLifecycle` |
| `claims_recovery` | 2 jobs, 1 execution each, batch of 1, 2 ticks to a second, fairness | abandoned claims are taken away |
| `dispatch` | 1 job, 2 attempts, 1 fault, a page of 1 row, up to 1 newer row, fair controller and workers | a queued row gets a delivery unless newer rows fill every page, and a job ends unless that or its claim was overwritten |
| `dispatch_finished` | 1 job, 1 fault | violation: a dispatch record undoes a completion |
| `paper_retries` | 1 job, 3 executions, 2 dates, 2 strategies | every safety property of `PaperRuns` |
| `paper_returns` | 2 jobs, 1 date | violation: a component return is lost |
| `usage_quotas` | 2 calls, 2 features, 2 keys, 2 payloads, 2 days, 2 sets of limits | counters, limits, payment, atomicity, order of the locks |
| `stripe_events` | a plan event and an invoice, 2 requests, 2 attempts, 1 sync | the safety properties of `StripeEvents`, and that events settle unless Stripe was told "in progress" |
| `stripe_plan` | the same | violation: an invoice that overtakes a plan event suppresses it |
| `in_process` | 2 jobs of 2 agents, 1 in memory, 2 store errors, 1 crash | results stay, reports agree, accepted jobs end |
| `backtest` | 2 symbols, 3 rows, 2 modes, several settings of the folds | books, targets, cash, folds, and decisions from the past |
| `daily_refresh` | 1 user, a scheduler and a request, 2 days, 2 attempts, 1 death | locks, successes, statuses, and that due users are tried |

**Bounds.** Two executions of a job are the smallest number that can be stale to one another, and
two attempts the smallest with a retry; the proofs cover every number. `MaxClock` 3 with a lease of
2 lets a lease be renewed once, end, and a successor's begin. `MaxVersion` bounds heartbeats and
progress updates only: claims, completion, release and recovery are never cut off. `MaxRestarts`
and `MaxFaults` bound crashes and Redis errors. With `MaxNewer` 1 and a page of one row, newer rows
can keep the job off any page, off some, or off all of them. Three executions of a paper job let a stale one
overlap with a successor and a third take both over; two dates are needed for an order, and two
strategies for a run that is half traded. Two Stripe events are the least that can be out of order,
and two requests the least of which one can hold a stale claim; `MaxSyncs` bounds the syncs in
flight, not their number. Two calls that share keys and features are the least that can wait for
each other. A memory of one job with two jobs is the least from which a running one is trimmed. The
prices and targets of the backtest make positions grow, shrink, turn and go without a price, and its
settings meet the ends of the data exactly and by one bar. Two executors of one user are the least
that can join in a refresh; the clock of `daily_refresh` lets a lock, a delay and a day end.
Symmetry is used for the executions of one job in the `claims_fencing` run and for the keys and
calls of `usage_quotas`, never where liveness is checked. Deadlock checking is off where the system
stops by design: all executions have ended, or the clock has reached its bound. It is on in
the other runs, which have an actor that never stops (a controller, Stripe, a client, a scheduler).

**Fairness.** `LiveSpec` of `JobClaims` assumes that time advances and the controller's loop goes
on (`run_forever`, a supervised process); nothing is assumed of workers. `ControlledSpec` of
`JobDispatch` assumes the same of its controller alone. `WorkersGoOn`, the premise
of `JobsEndUnlessOverwritten`, adds that executions RQ has started go on and that a lease ends when
its owner has. `FairSpec` of `StripeEvents` assumes that Stripe
redelivers what was not answered with 200, that requests are served and that time passes. That of
`InProcessJobs` assumes that threads go on (agents are given a time) and a dead process is started
again, and that of `DailyRefresh` that schedulers poll and go on; its requests and its time may stop.
There is no fairness for faults, so that each may happen or not.

**Findings.** The violation runs each quote in `PROJECT.json` what the repository says:

* the record of a dispatch is a blind write: it can undo a completion (`dispatch_finished`), or a
  live claim, and then leave a row that is queued with all attempts used, which nothing claims and
  nothing ends;
* synthetic prices are computed from a ledger read before its lock is taken (`paper_returns`);
* an invoice writes the present plan under its own newer stamp, and a plan event from before the
  invoice is then discarded (`stripe_plan`).

`JobsEndUnlessOverwritten` says what remains true with the first of them: besides full pages of newer
rows it is the only way for a job not to end, and `EventsSettleOrAreInProgress` says the same of the
answer "in progress".
`SyncedPlanStays` shows the way out of the last: a sync puts the plan right, and no request in
flight undoes it.

Other places where the code does less than one would expect are exceptions of properties that hold:

* reconciliation reads the newest page of queued rows and never a second one, so that newer rows which
  fill every page starve an older row whose delivery was lost (`Starves`, in
  `QueuedJobsAreDispatched` and `JobsEndUnlessOverwritten`; without it the run violates both);
* a redelivery that meets a claim, also that of a dead process, is answered with 200, after which
  Stripe does not deliver the event again (`EventsSettleOrAreInProgress`);
* a late event of an agent that timed out writes the row of an ended job as running
  (`RecordedOutcomesStay`), and a restart that reads `max_history` rows leaves an older open row
  open (`AcceptedJobsEnd`);
* the report of a job that was trimmed from memory when its thread raised stays as it was
  (`ReportsAgree`);
* a refresh slower than its lock is joined by another executor, a failed one is executed again
  without a lock, and an exception of the telemetry that follows a success repeats the refresh and
  may end it as failed (`LocksExclude`, `SucceededRunsStay`), and a death between the write of a
  success and that of the status leaves the user shown as running (`StatusesTellTheRun`);
* the recovery query compares texts whose fraction is left out when it is zero, and may take a lease
  that ends within the present second for one that has ended (`IsoLE`): `LiveLeaseIsKept` promises
  whole seconds only.

One more was seen while modelling: a stale execution between its guard and `retry_paper_run` can take
a run from its successor, which costs that attempt and no data.

## 4. Proofs

All theorems hold for any sets of jobs and executions and any values of the bounds, from the named
assumptions on constants in the modules; TLC evaluates these assumptions in its runs.

**`JobClaimsProofs`**: types; `AttemptsAreExclusive`, `OwnershipIsCurrent`, `CompletionIsFenced`,
`PublicationFollowsUpload` (invariants); `TerminalRowsAreFinal`, `ProgressIsMonotone`,
`PublicationsMoveForward` (action properties). None of the promises is inductive alone, because a
store call writes what it read earlier. The invariant adds that (a) every read row is the stored
row or has an older version (`ReadsAreOldOrCurrent`), so that a conditional write that succeeds is
a write of the current row, (b) what the pending calls read allows the write they will make
(`PendingWrites`), and (c) an execution past its publication that still owns the job is the
published one (`PublisherOwnsDomain`). From (a), `StoreSteps` shows that every step of the system
changes the store by one of four transitions - a claim, a renewal, an end, or nothing - and the
promises are proved about those instead of the twenty actions. `LiveLeasesAreKept` holds for any
resolution of the clock: what the conditional write of recovery replaces is the row its select saw,
and the text comparison is exact between seconds. `LifecycleIsImplemented` is the refinement: the
first states agree, and each transition of the store, with the publication, is a step of
`JobLifecycle` or a stutter (`AbstractSteps` gives the abstract steps for given status and attempt).

**`JobDispatchProofs`**: types; `QueuedJobsStayClaimable`, `QueueFollowsStore` (invariants);
`OnlyRecordsLeaveTheLifecycle` (action property). The steps are summarised by what they do to the
store (`StoreStep`), to deliveries (`DeliveryStep`) and to the rest (`ClientStep`), and the invariant
follows from these three. It says that Redis and the controller hold deliveries of stored jobs only,
at most for the attempt after the row's, unless a dispatch record undid a write of the job: the
argument is that an unconditional write which does not set `overwritten` leaves the row as it is, and
that attempts of the other rows never go back. `LifecycleStep` is what is left of `JobLifecycle`
here: the blind write of the first finding is shown to be the only way out of it, and to be the only
way in which a queued row can have no attempt left. These statements are the safety part of
`JobsEndUnlessOverwritten`; TLC checks them with the invariant on one and two jobs.

**`PaperRunsProofs`**: types; `TradingIsIdempotent`, `TradingIsOrdered`,
`AggregatesAreOfTheirDate`, `JobsCompleteWhole` (invariants) and `CompletionIsFinal` (action
property). The argument does not use the claim at all: it is that everything an execution relies
on only grows - completed runs, keys in ledgers, what is published, agents that show a run
(`Grows`) - so that what it learned at an earlier stage (`Knows`) stays true however long it
stalls. `Knows` is proved stage by stage for the execution that moves, and by `KnowledgeStays` for
the others; each table's property then has a lemma of its own. The proof shows that the ledger
idempotency keys and the status checks of the run rows carry the safety of paper trading, and the
ownership guard only saves work.

**`StripeEventsProofs`**: types; `ProcessedIsApplied` (invariant); `ProcessedIsFinal`,
`FreshClaimIsKept`, `SyncedPlanStays` (action properties). The invariant adds that a request applies
its event before it completes it (`AppliesFirst`), and that the row a retry has read has no more
attempts than the present one and, if it is still the same claim, that claim is stale
(`ReadsLag`) - attempts only grow, a stale claim gets fresh by a new attempt only, and this is why
the comparison of attempts and status in the `UPDATE` suffices without the token.

**`UsageQuotasProofs`**: `CountersAreExact`, `JobsArePaid`, `WaitsAreInOrder` (invariants);
`LimitsAreKept`, `ChargedTogetherAndOnce` (action properties). The invariant says what an open
transaction has written (`WritesAreOpen`), that no two have written the same event or counter
(`LocksAreExclusive`), that an uncommitted counter is the committed sum and its own share
(`DraftsAreExact`), and that the SUM a waiting statement has read is still right if no counter has
appeared (`SumsAreFresh`): this is why the first counter of a day counts each event once. Deadlock
freedom is a measure: `Position` grows along every wait, because features are taken in one order.

**`InProcessJobsProofs`**: `RecordedOutcomesStay`, `ReportsAgree`. The invariant adds that an ended
job has no thread left that could write its row (`EndedJobsHaveNoThread`) and that a thread about
to record an end has written the report that belongs to it (`ReportsComeFirst`).

**`DailyRefreshProofs`**: `LocksExclude`, `StatusesTellTheRun` (invariants), `SucceededRunsStay`
(action property). The invariant says that two executors at one refresh have disturbed it and its
lock is over (`Alone`), and what an executor that is alone knows of its run: that it says succeeded
exactly from the write of the success to the end (`Known`). That no death makes a status show a
success that was none (`SuccessesAreReal`) follows from it and from `SucceededRunsStay`. The steps are proved by kind: those
that leave the tables alone, those inside of `_execute_run`, the two that enter it and the one that
leaves it with a failure. The user an executor is at is the least of a set; that it exists rests on
the well-foundedness of the order of the natural numbers.

**`BacktestProofs`**, the folds: `FoldsDoNotLeak` and `TestsCoverTheData`, for any settings. The
ledger: types; `FillsNeverOverdraw`; `BooksBalance`; and `RebalanceReachesTargets`. For the books a
lemma (`ApplyFillBalances`) shows that a fill, turns included, changes what its position has booked -
the realized profit less what the open position has cost - by the cash it moves. The last two are about sums over the symbols (`Total`, a fold). The laws
of sums - a sum of one more, of a difference, of a larger function - are proved by the smallest
counterexample: the cardinalities of the sets for which a law fails would have a least one, by the
well-foundedness of the order of the natural numbers, and one element less gives a smaller. From
them, an order changes the sum over all symbols by what it changes of one. The invariant of the row's
orders (`RebalanceInvariant`) is that the value at the start of the row is the cash, the positions at
their marks and what was `lost`; that a planned quantity is the gap to the target rounded towards
zero; and that a symbol without an order left is at its target up to a unit, or its purchase was
clipped. Purchases come after sales (`Upcoming`), so that when one is clipped nobody holds more than
a unit too much, and the cash that is short is bounded by what the fills have cost. That is
the bound of the property: a unit of each symbol at its price alone, without slippage and commission,
would be too small for some amounts of cash.

The composition: `BacktestWalksForward` and `BacktestKeepsALedger` show that the composed run
implements both specifications (the rows that a run receives are at least one, since a fold that fits
has a test), so that all of the above holds of it; `DecisionsUseThePast` follows from
`DecisionInvariant`, which gives each row its fold and bar, and from the order of the tests.

**Model-checked only**: liveness (`AbandonedClaimsAreRecovered`, `QueuedJobsAreDispatched`,
`JobsEndUnlessOverwritten`, `EventsSettleOrAreInProgress`, `AcceptedJobsEnd`, `DueUsersAreTried`),
which the proof system does not reach under fairness. Every other property of a passing run is a
theorem. The three properties that the code violates have no proof; what remains of them is in
`SyncedPlanStays` and `OnlyRecordsLeaveTheLifecycle`, and `NoReturnIsLost` is not stated within one
job, where it would hold.

## 5. Not modelled

* The other in-process runners of `backend/services.py`: they are `InProcessJobs` without reports
  and agents. Two processes with in-process jobs on one store, which a production configuration
  refuses.
* Direct paper runs and deployments, marketplace, heartbeats: each write is one conditional
  statement or one row under a unique key, and nothing follows it that another actor could meet.
* Accounts, sessions and MFA: what makes them right is the handling of tokens, hashes and codes,
  which is data here.
* The batch limit of a daily refresh: users after the first hundred due ones wait for the next poll,
  and several users: `DailyRefresh` is checked with one user and proved for any number.
* The benchmark, metrics, validation statistics, portfolio optimisation, broker, risk and execution
  engines, strategies, text analysis, prompts, charts: sequential computations on floating-point
  numbers or texts, without state that two actors share. The largest files of the repository
  (`features/lm_dict.py`, a dictionary; `apps/cli.py`; `data/news.py`; `reporting/`) are of this kind.
* HTTP serialisation, configuration, logging, object storage, secrets, email, and the browser client.
