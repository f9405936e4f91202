# Wholesale analytics platform: a formal model

TLA+ modules, TLC runs and TLAPS proofs for the stateful parts of the wholesale
analytics platform: the returns desk and its corrective actions, the fact dataset and the
processes that refresh it, the caches in front of it, the way from a planning scenario to a
purchase order, the action center's work items, the assistant's export jobs, the labor feed and the
alert runner. Everything is translated from the source at
the lines `PROJECT.json` names under `map`.

Check a run with `tlc -config <cfg> <module>`, a proof with `tlapm <module>.tla`.

## 1. The system and what is hard about it

One Flask application runs in gunicorn: two worker processes of eight threads each
(`gunicorn_conf.py`), over one SQLite database through SQLAlchemy and one Parquet
dataset read with DuckDB. Beside it run, from systemd, a refresh loop and a refresh
timer (`deploy/fact-refresh.*`), a labor refresh loop and an hourly alert runner. So the same rows are
moved by concurrent requests of two processes, the same directory is replaced by
several processes, and the same in-memory caches are shared by eight threads.

| Component | State it keeps | Operations | Talks to | What is hard |
|---|---|---|---|---|
| Returns workflow (`returns/service.py`) | `return_rmas`, its items, approvals, refunds, events | submit, receiving review, approve (warehouse, manager), reject, label, pickup, receive, inspect, refund, complete, override | users of two portals and the ops console; the webhook | several sessions per handler; read-check-write without row versions; partial UPDATEs; crashes between sessions |
| Returns webhook (`process_webhook`) | `return_webhook_events` | one delivery in three sessions | carriers; the returns workflow | redelivery, a worker lost between filing and moving, errors caught after a commit |
| Fact dataset writer (`etl/partition_writer.py`) | day and month directories of Parquet | upsert, month migration, full write, swap of directories | called by the refresh | two layouts, re-dated lines, a scan limit, a swap of two renames |
| Incremental refresh (`etl/incremental_refresh.py`) | a lock file, a window, temporary directories | refresh, rebuild, gap backfill | order system, dataset | several starters, non-blocking locks, crash between renames |
| In-app refresh job (`workers/refresh.py`) | a lock file inside the dataset | refresh | dataset | its lock is not the loop's, and moves with the directory |
| Value cache (`core/cache_manager.py`) | entries with expiry, Futures in flight | get, set, get_or_compute | every page bundle | single flight, failing builders, eviction, the clock read before the lock |
| Query cache (`services/fact_store.py`) | cached frames, Futures, a connection per thread | `_execute_df`, reload | dataset, page bundles | waits under a lock; versions change under a query |
| Planning scenarios (`services/planning_scenarios.py`) | scenarios, events, recommendations | create, new version, submit, approve, reject | write-back | numbers chosen before written; two decisions at once |
| Purchase orders (`decision_ops/service.py`) | operational records, approval records | write-back, lifecycle moves | planning | two sessions, retries, resubmission |
| Alert runner (`services/notifications.py`) | preferences, events | evaluate, dispatch, dry run | facts, mail | killed between mail and mark; two cycles; the hourly cap |
| Corrective actions (`returns/service.py`) | `return_corrective_actions` and their events | create, move, resolve with a measured outcome | returns analytics | a measurement of seconds between the check and the write |
| Work items (`decision_ops/service.py`) | `work_items`, their events, approval records, dependencies, notes | create, move, link, comment | action center pages | two moves from one status; a dependency inserted twice; requests left pending |
| Export jobs (`assistant/export_job_store.py`, `export_store.py`) | caches of jobs, deduplication keys, submission times, files; a pool of two threads | enqueue, run, poll, download | assistant | entries that expire or are pushed out under a running task; a file cache shared by all users; retries; two limits; a pool that closes |
| Labor feed (`services/labor_etl.py`, `labor_state.py`) | a Parquet dataset by day, a state file with a watermark | incremental refresh, recent repair, backfill | time-keeping system | refreshes beside one another without a lock; corrections of past days; failed pulls; a crash between two renames; where the next window starts |
| Event stream | an append-only log | | | not modelled, section 7 |
| Assistant, bundles, filters, permissions, forecasts, page routes, accounts, data products, front end, shell | none, or single rows written by their owner | | | not modelled, section 7 |

What makes each of them correct:

- Returns: a status only moves along the table, the trail explains every status,
  money leaves once and only for inspected goods, approval takes two people's stamps,
  totals agree with lines.
- Dataset: one line per order line whatever dates it has had; a refresh changes what
  it means to change; one refresh at a time; a lost dataset comes back.
- Caches: one computation per key, nobody waits for ever, an answer is of its key,
  of its time to live and of the version it is filed under.
- Planning: versions count up, recommendations only of approvals, one order per plan,
  no order ahead without a decision on it.
- Alerts: recorded once, mailed no more often than restarts explain, mailed in the end.
- Corrective actions and work items: every move a legal one from a status the record had, on record, the
  status the newest of them; what waits for a decision can be decided, what is resolved was measured.
- Export jobs: both limits hold in every minute and at every moment, a retry gets the job it
  retries and a file that is there unless the cache was full, what a poll reports goes forward and ends.
- Labor feed: no day left out or overwritten that the known hazards do not account for, corrections arrive.

`PROJECT.json` lists 40 hazards, each at the line where it bites, with the properties
that would catch it and, for those nothing covers yet, why.

## 2. Modules

| Module | Role | Models |
|---|---|---|
| `RmaStatus` | constants | the statuses, `TRANSITIONS` and the intake statuses of a return |
| `RmaLifecycle` | abstract | what the desk promises: intake, legal moves, one payment |
| `ReturnsWorkflow` | detailed | the handlers of `returns/service.py`, session by session |
| `ReturnsWorkflowProofs` | proofs | types, three invariants of it, that its records last, and that it implements `RmaLifecycle` while the sessions of each return are apart |
| `ReturnsWebhook` | detailed | the webhook's inbox; composes it with `ReturnsWorkflow` |
| `ReturnsWebhookProofs` | proofs | that the webhook is a client of the desk, and its own two invariants |
| `FactPartitions` | operators | the two layouts of the dataset, the duplicate scan, the migration, the upsert |
| `FactTable` | abstract | what a reader is promised: sets of lines replaced as a whole |
| `DatasetRefresh` | detailed | refresh loops and jobs, their locks, the swap, crashes; composes `FactPartitions` with the processes |
| `DatasetRefreshProofs` | proofs | types, exclusion of the loops, no duplicates, that upserts may be repeated, what a kill leaves behind, and that it implements `FactTable` |
| `LaborFeed` | detailed | labor refreshes beside one another: windows, chunks, the clone and the swap, the state file, corrections at the source |
| `SingleFlightCache` | detailed | `TTLValueCache` |
| `SingleFlightProofs` | proofs | all of its invariants |
| `QueryCache` | detailed | `_execute_df`, reload, dataset versions |
| `QueryCacheProofs` | proofs | types, that rows are of no older version than asked, that a query which waits waits for ever, and what only a reload breaks |
| `ExportJobs` | detailed | export jobs, their limits and caches, and the pool that runs them |
| `BackgroundProofs` | proofs | types and the five safety properties of `ExportJobs`, and that no job is lost; types of `LaborFeed`, and that its final days are loaded |
| `PlanningWriteback` | detailed | scenarios, recommendations, orders and approval requests; composes two services over one database |
| `AuditTrail` | abstract | what event tables promise: the status is the newest event's, and each event a legal move from a status the record had |
| `WorkItems` | detailed | work items, their approval requests, dependencies and notes |
| `CorrectiveActions` | detailed | corrective actions and the measurement of a resolution |
| `DesksProofs` | proofs | types and properties of `PlanningWriteback`, `WorkItems` and `CorrectiveActions`, that the last two implement `AuditTrail`, and what each keeps besides while no two requests decide one record |
| `NotificationRunner` | detailed | the hourly cycle, beside one started by hand |
| `NotificationProofs` | proofs | types and the three invariants of it, and that the timer alone mails once |
| `MC*` | instances | constants, symmetry sets and small inputs for TLC |

Operators marked `\* mutant` just above a definition are changed forms of it that
a plausible slip would produce; no specification uses them. `PROJECT.json` says for
each property which of them breaks it, so that a property is known to depend on the code.

### How requests are modelled

SQLite under SQLAlchemy's driver starts its transaction at the first INSERT, UPDATE or
DELETE; the reads before it run outside. No table has a version column and nothing
selects for update. Hence in `ReturnsWorkflow`, `PlanningWriteback`, `WorkItems` and `CorrectiveActions` each session of a
handler is two steps, one that reads and decides and one that writes what was
decided, and any other request may commit in between. A unique index is modelled as
what it does: the later INSERT fails, and with it its transaction. SQLAlchemy's
UPDATE contains only columns whose value differs from the one loaded (`OrmWrite`).
A killed worker or a raised error between two sessions is an action of its own
(`Crash`, `Abandon`, `DropJob`, `LeaveAction`).

### ReturnsWorkflow

`rma`, `item`, `approvals`, `trail` and `refunds` are the tables, one line item standing
for a return's lines; `pc`, `job` and `seen` are each request's place in its handler, its
arguments and the rows it loaded. `Transition`, `LaterTransition` and `TransitionCommit`
are `transition_return`, reached directly (approve, deny, override, pickup, reject,
complete) or as the second session of another handler. `ApproveWarehouse` with
`StoreRoute` and `ApproveManager` with `StoreRollup` are the two approvals, whose first session
stores a route or a total before the move is validated. `UpdateReceiving` and
`StoreReceiving` are the receiving review; `IssueLabel`, `ReceiveRma`, `InspectRma` and
`IssueRefund`, with their `Store...` halves, the desk's other handlers. Weights stand for
money at one dollar a pound. Shipments, comments and attachments, which no handler reads
back, are left out; so are permission checks, which come before these handlers.

### ReturnsWebhook

`inbox` is the table of events by idempotency key, with the payload filed first; `hand` is the event a
worker runs and the outcome it will store. The transition in the middle is the desk's own `Transition` and
`TransitionCommit`, run by the same workers, so `WebNext` interleaves webhooks with every handler. `Catch` is the
`except Exception` around it, at any point of it, after its commit too; `Die` is a killed worker. A
redelivery of a key that is filed changes nothing and is no step.

### FactPartitions and DatasetRefresh

A line is an order-line id with a date. A table is a set of lines in month directories
(`legacy`) and one set per day. `Upsert` does what `upsert_dataset` does: it
finds the partitions that hold a batch's keys (`PartitionsHolding`, with its key limit),
folds month directories into days, drops window and keys, writes what is left. In
`DatasetRefresh` a process pulls lines from the order system, which may change in between,
stages a new table, renames the old directory away (`SwapOut`) and the new one in
(`SwapIn`). The cache directory's lock is `cacheLock`; `dirLock` is the job's lock on a file
*inside* the dataset, and `SwapOut` clears it because the file leaves with its directory.
A full build reads month after month, and `torn` records the lines it met twice.

### SingleFlightCache and QueryCache

Each block under the value cache's lock is one step, since nothing waits inside. The
query cache waits *inside* `_duck_lock`, so there the lock is a variable. A Future is
known by the thread that made it. Values and frames are abstracted to the key and time, or
the version, they were computed for, which is all the properties tell apart.

### PlanningWriteback

`plans` and `recs` are the scenarios and their recommendations by product, `grants` the approval
events of each, `orders` the records written back, `requests` their approval records. What a
scenario recommends is an arbitrary set of products, the empty one included.

### WorkItems and CorrectiveActions

`item` is `work_items` with the columns a guard or a stamp concerns, `log` its status events, `asked` the approval records,
`links` and `linkLog` the dependencies and their events, `notes` the comments and pieces of evidence, `job` what each request
has read. `CreateItem` is `create_work_item`, which files a request when an item starts as pending; `ReadItem` and `WriteItem`
are `transition_work_item`, with the approval request it files or decides; `ReadLink` and `InsertLink` are
`add_dependency`, whose unique index decides between two; `AddNote` stands for comments and evidence.

`action`, `events` and `measured` are a corrective action, its events and the outcomes in their payloads; `clerk` is a request at work.
`ReadAction` checks a move, `Measure` runs the queries of a resolution outside any transaction,
`WriteAction` writes what differs from the row read before, an outcome column by column (`UpdatedOutcome`): a count and a rate or
revenue stand for its columns, and a measurement may leave one empty. Both modules implement `AuditTrail`, whose `Move` asks only that
the record *had* the status it is moved from. That it still has it is what a read and a later write cannot promise.

### ExportJobs

`entry` is the cache of jobs, each with its status and the time it expires; `twin` the deduplication cache, `counted` the
submission times of a user, `queue` and `task` the pool, `stored` the file cache of all users with `file`, when a file was put into it,
and `since`, its order of use: the files stored or downloaded after it. `requests` (history) is every submission accepted. `Enqueue` and `EnqueueRefused` are `enqueue_export_job`, under its lock from the first look to the
submission, with the pool open or closed; a submission that is over a limit or finds its twin changes nothing and is no step. `Take`,
`MakeFile`, `Complete` and `Fail` are `_run_job` and `create_export`. Which entry a full cache of jobs drops is left open; a full cache of files drops the one
used least recently (`FilesKept`, `Oldest`), so that charts (`MakeOther`) and downloads (`Download`) decide which file goes.
An expired entry is dropped by `ExportTick`, as no read can tell when it was. `Shutdown` is the interpreter's exit, which closes the pool.

### LaborFeed

`feed` is what the time-keeping system has for a day and `hours` what the dataset has; a value other than 0 stands for a day's records.
`pull` is what each refresh does, the loop's and those by hand, which take no lock: its window in chunks, each fetched (`FetchChunk`), put into
a clone of the dataset (`StageChunk`) and swapped in by two renames (`SwapChunkOut`, `SwapChunkIn`). Between the renames of one
another finds no dataset to clone, and a walk that another's renames overtake may find any part of it (`Glimpses`). The second rename finds
the place taken if another refresh was faster: then the clone replaces what is there (`CloneReplaces`), or is moved into it
(`CloneGoesInside`), which leaves the day partitions as they were and the clone's as `stray` files, depending on when the code looked.
`FinishPull` computes the watermark from the dataset, strays included, and saves the state file. `StopPull` is an error, or a
death, which between the renames loses the dataset and keeps the file. `Correct` changes a day of the recent past at the source at any time, while
its chunk is on its way too. `reached` and `lost` are history: the last day a success began on, and the days the dataset may lack or have as
they were, for one of the reasons named there.

### NotificationRunner

`events` is the table by id; `run` is what each runner has read and is about to do: the users still `due`, then the events `left` to
dispatch, one user after another, oldest event first, and of the user at hand the `batch` being mailed and those that come `next`. Sessions
are separate steps and the mail goes out between two of them. A fact date stands for what is
hashed into an event's key. `age` counts hours up to two, since the code asks only whether a mail
is within the hour. `mailed` and `trials` are history: how often an event really
went out, and which events a dry run marked.

## 3. Runs

Eight runs must pass and four must be violated (section 6).

| Run | Asks | Instance and why it is enough | States |
|---|---|---|---|
| `returns_serial` | With one request at a time and crashes, does the service implement `RmaLifecycle`, do stamps match the status and totals agree? (`StampsMatchStatus`, `TotalsInSync`, `ImplementsLifecycle`) | one worker, one return, the flag off (which has the looser validation), every intake status, every status as a target, reviews with and without a line and a weight; credits on both sides of the routing threshold | 40 k |
| `returns_desk_race` | Under any interleaving, is history audited, are refunds earned, are approvals two-step, and is each carrier's event run once and stored truly? (`AuditedHistory`, `RefundAfterInspection`, `TwoStepApproval`, `ProcessedIsApplied`, `RunOnce`) | two workers at one return, the final flag on; the targets a desk races on; two requests are enough to overwrite each other, and the proofs cover any number; one event, which may ask for receipt or for nothing | 2.8 M |
| `returns_strict` | Is every change of a status along the table? (`StrictTransitions`, violated) | as above | |
| `refresh_loops` | Two loops, edits and a crash: no duplicates, exclusion, and an implementation of `FactTable` (`NoDuplicateLines`, `OneRefreshAtATime`, `ImplementsFactTable`) | two lines, three days over two months, so that a line can leave the hot window and change month; a window of one day, backfill over three; two edits to re-date a line and move it back; one crash | 226 k |
| `background` | Programs beside the requests. Is a missing dataset built again (`RefreshComesBack`)? Do the limits of export jobs hold, do retries share a job and get its file, do jobs go forward and end (`RateIsBounded`, `ActiveIsBounded`, `RetriesShareAJob`, `TwinIsDownloadable`, `JobsGoForward`, `EveryJobEnds`)? | each behaviour is of one program, since they share nothing. Refresh: a fair loop with a job beside it, one line, one crash, no edits, which the property does not see. Exports: one user, two keys, two workers, three jobs over a cache of two, so that a running job is pushed out; a file cache of two with one file that no job made, so that a job's file is pushed out too; a minute, and every lifetime, of two ticks in a clock up to two, so that each expires | 607 k |
| `timers` | A timer or loop beside a command by hand. Are alerts recorded once, mailed at most as often as restarts explain, and mailed in the end (`TypeOK`, `OneEventPerHash`, `NoRepeats`, `SentIsMailed`, `AlertsGoOut`)? Are final days of hours loaded, and do corrections arrive (`LaborTypeOK`, `FinalDaysAreLoaded`, `CorrectionsArrive`)? | each behaviour is of one program. Alerts: one user with two alerts under a cap of one mail, so the cap postpones one; the timer and a hand-started runner, wet or dry; one kill. Labor: the loop and one command by hand in any mode, from the first of three days, chunks and an incremental window of two, so that a backfill takes two chunks and an outage exceeds the window, a repair window of three, days corrected for one day; a walk overtaken by a rename finds nothing, the first day or all; one correction, one stop. Two refreshes are enough to overwrite, to move a clone inside and to tear a walk, and the proof covers any number | 1.19 M |
| `refresh_lock` | Do two in-app jobs exclude one another? (`OneRefreshAtATime`, violated) | two jobs | |
| `refresh_scan_cap` | Are there no duplicates above the scan limit? (`NoDuplicateLines`, violated) | a limit of one key, batches of two | |
| `single_flight` | The value cache's promises: one builder of a key, fresh answers, and every request answered (`OneBuilderPerKey`, `AnswersAreFresh`, `EveryRequestReturns`) | three threads, so one builds, one waits and one evicts; two keys over one entry, so the limit is hit; lifetimes 0 and 1 in a clock of 2, so an entry expires while a thread waits | 130 k |
| `query_cache` | Are the rows a query gets never older than the version it was asked of? (`RowsAreCurrent`) | three threads on one query, two versions | 245 k |
| `query_cache_returns` | Does every query return? (`EveryQueryReturns`, violated) | two threads, one query, one version | |
| `desks` | Governed records under racing requests. Planning: versions, recommendations, orders and decisions (`VersionsCountUp`, `RecommendationsAreApproved`, `OrdersWriteBackApprovals`, `OneOrderPerPlan`, `OrdersAreDecided`). Work items: decisions, dependencies and the trail (`ItemsAreDecided`, `LinksAreLogged`, `ImplementsItemTrail`). Corrective actions: measured resolutions and the trail (`ResolvedIsMeasured`, `ImplementsActionTrail`) | each behaviour is of one desk, with two requests at work. Two versions of a name, two approval requests (so that an order is submitted again), one order. Two items, drafts or born pending, the first with room for three events, the least that lets a stale move follow two others; both requests insert one dependency. One action with seven events, which resolves it and lets a stale request reopen it and another resolve it again, with two outcomes of two columns, one of them empty in one, so that a mixed row is reached | 2.0 M |

Bounds that cap counters, each a constant: `MaxRefunds` (2: one more than may be paid),
`MaxEdits`, `MaxCrashes`, `LastDay`, `MaxTime`, `MaxVersion`, `MaxPlans`, `MaxGrants` (an approval under way
may still exceed it, so the double approval happens), `MaxOrders`, `MaxRequests`, `MaxMoves`, `MaxNotes`, `MaxEvents`,
`MaxJobs`, `MaxOthers`, `MaxClock`, `LastLaborDay`, `MaxCorrections`, `MaxStops`. `CHECK_DEADLOCK FALSE` is used where
the bounded world may come to rest: days, edits, versions end and no process has work.
A `background`, `timers` or `desks` behaviour is of one program or desk: a choice in the initial state, so that their states add up instead
of multiplying. Symmetry is used for interchangeable workers or threads, in runs without liveness only.

Section 5 proves every detailed module's types, for all values of the constants; most runs do not repeat them. The one that does,
`timers`, is of modules whose records change shape from step to step.

What each property is about is in the comment above it; the less obvious choices:

- `AuditedHistory`, `RefundAfterInspection` and `TwoStepApproval` speak of `Visited`, what the trail says,
  since the status itself may be overwritten by a stale request (`returns_strict`). They show what
  survives that race.
- `NoDuplicateLines` excepts `torn`: lines whose date moved from one month to another between
  two queries of one full build, which nothing in the build looks for.
- `NoRepeats` allows one mail per runner and one per kill: two runners may both load an event as
  pending. It forbids a mail of an event that any cycle has finished with.
- `OrdersAreDecided` looks at requests, not at `approval_status`, which may be stale after a race.
- `ItemsAreDecided` does not say that an item's `approval_status` is the one of its status: after a race it is not (section 6).
- `RateIsBounded` counts over `requests`, not over the tuple of times the code keeps, and `RetriesShareAJob`
  excepts a first job that failed or whose entry was pushed out, which a retry cannot find.
- `TwinIsDownloadable` excepts a file after which as many others were stored or downloaded as the cache holds: such a file is pushed
  out within the deduplication time, and the retry gets a link to nothing. It shows that nothing less does that.
- `FinalDaysAreLoaded` speaks of days no longer corrected when the last success began, and excepts `lost`: all days after a rename away, until a chunk
  brings some of them back; the days a clone lacks, or has from before another's write; a chunk moved inside; the days of an outage longer
  than the window. Each exception is needed: leaving any one out of `lost` violates the property. What is claimed is that a fetched day which none of
  these befell is not lost by chunks, by where windows start, by a failure, or by corrections on the way.
- `CorrectionsArrive` has no exceptions: once nobody corrects or fails, the loop alone repairs its own window, whatever was lost.
- `ResolvedIsMeasured` holds each column of an outcome to some resolution, and the whole row only where there was one resolution:
  two that overlap mix their columns (section 6).
- `AlertsGoOut` excepts users whose second digest stops the cycle (section 6).

## 4. Fairness

- `single_flight`: weak fairness of each thread's next locked block and of each build. Threads of
  a web process are scheduled, locks are held for a few operations, and a bundle's
  query ends or raises. Starting a request is not fair.
- `query_cache_returns`: strong fairness of each thread's steps, so that the counterexample
  is a wait for one another and not a starved lock.
- `background`, refresh: weak fairness of the loop's start and of its steps, as
  `deploy/fact-refresh.service` restarts the loop whenever it fails and the loop starts a refresh every
  interval; none for the job, for crashes or for edits. The day advances.
- `background`, exports: weak fairness of each worker's next step. The pool's threads are scheduled, at the
  interpreter's exit too, which waits for what was submitted, and a task returns or raises. The clock is not fair.
- `timers`, labor: weak fairness of the loop's next refresh, as `refresh-labor --loop` begins one after each that ended, and of the steps
  of every refresh that has begun: a process goes on until it ends, fails or dies. Commands by hand, corrections, stops and days are not fair,
  and all are bounded: each command is given once.
- `timers`, alerts: strong fairness of the hourly start, since the timer fires whatever was started by hand
  in between, and weak fairness of a cycle's steps. Kills are not fair and are bounded:
  a runner that is killed every time mails nothing.

## 5. Proofs

Checked by `tlapm`, for every value of the constants; no step is assumed.

**ReturnsWorkflowProofs** (any number of workers and returns, either flag): `TypesHold`,
`HistoryIsAudited`, `RefundsFollowInspection`, `ApprovalTakesTwoSteps`, `RecordsLast`. From the assumptions `SentinelAssumption`,
`FlagAssumption`, `BoundAssumption`, `SubmissionAssumption` and `FormAssumption`. `TypeInv` is `TypeOK` with `HandlerOK`:
where a handler is says which return and target it has. `SafetyInv` is the inductive invariant: besides the history, each
worker in the middle of a handler is *grounded*, that is, what its snapshot said was true at some
time is still in the trail (the trail only grows), and a worker about to pay has an approved
refund in the trail. The properties alone are not inductive: a commit writes from a stale
snapshot, and without groundedness nothing relates that snapshot to the trail. Stamps are kept
because no UPDATE of a stamp ever writes false, and `RecordsLast` says so of each step, for events and refunds too.

`StampsMatch`, `TotalsAgree`, `DeskKeepsItsPromise`, `MovesAreStrict` and `RefusedStaysUnpaid` are about behaviours in which `SessionsApart` always holds:
no two requests are inside a session of one return, or due to pay it, at once. Any number of workers still interleave on different returns, and the
sessions of one return's handlers with each other. `SerialInv` says that what a worker has loaded is still what the tables have (`Current`), hence an
UPDATE of changed columns is an UPDATE of the row, and of each return that its stamps, credits and payment agree with its status (`Agrees`); the last is
why no second payment finds it in `approved_refund`. The hypothesis is needed: with two workers on one return `StrictTransitions` is violated
(`returns_strict`), and `MovesAreStrict` says that nothing else violates it.

**ReturnsWebhookProofs** (and any number of events): `InboxTypes`; `EventsRunOnce`; `WebhookIsADeskClient`, that the desk with its webhook implements the
desk alone, so every theorem above holds with webhooks (`PromisesHoldWithWebhooks`, and `LifecycleHoldsWithWebhooks` for those under `SessionsApart`); `ProcessedEventsAreApplied`. From `CarrierAssumption`
as well, that a carrier asks for statuses the desk may be asked for. `InboxInv` gives each pending event at most one
worker. `ApplyInv` says that a worker about to store `processed` has its return's trail behind it; it needs that returns and
their trails last (`ReturnsLast`), and that no unique index refuses a carrier's move.

**DatasetRefreshProofs**: `RefreshTypes`; `LoopsStayApart`, that any number of loops, rebuilds and backfills exclude one another, whatever the in-app jobs do
(whose lock is another), and so `LoopsExclude`, that without jobs one refreshes at a time; `NoDuplicates`, while no two swaps
interleave (`OneSwapAtATime`) and each batch is within the scan limit when it is staged (`BatchesScanned`), with refreshes free to overlap
otherwise; `DatasetKeepsItsPromise`, that every step is one of `FactTable` or a stutter while no job refreshes beside another refresh (`JobsApart`) and
batches are within the limit: two refreshes that overlap lose lines of one another even where their swaps do not, which is why the refinement asks for
more than `NoDuplicates`. `LoopsKeepTheDataset` gives both without any hypothesis on behaviours, from constants: no jobs (`NoJobs`) and a limit that is off or above
the number of order lines (`NoScanLimit`). `UpsertRepeats` says that an upsert done twice is done once. What `RefreshComesBack`
rests on, whatever overlaps: no lock outlives its holder (`LocksAreLive`), and a dataset is missing for longer than a swap only after a kill between its renames (`OnlyKillsLoseTheDataset`). The hypotheses are needed, as `refresh_lock` and
`refresh_scan_cap` show. `Locked` (a process at work holds the cache lock) gives exclusion; `Clean` strengthens
uniqueness of the table to that of what is staged and pulled, well-placed in its day's directory. The lemmas on
`Upsert` say that every line it leaves is one that should be there, in either layout. The refinement takes `Prepared` as well: what a
process has in hand fits the dataset it is for. A batch has lines of days in its window, or of days of which the table has none,
and a staged upsert, which unlike a full build has no month directories, replaces exactly the lines the promise names.

**SingleFlightProofs**: `CacheTypes`, `StoreIsBounded`, `SingleFlight`, `NoForgottenFuture`, `FreshAnswers`, all from `IInv`:
types; `Flights` (a key is in flight exactly if its builder is building it, and waiters wait for a builder of their
key); `Stamps` (an entry is of its key and expires its lifetime after it was put; nobody asked, and nothing
was put, later than now); `Bounded`. Assumes `TtlAssumption`, `SizeAssumption`,
`TimeAssumption` and the sentinels.

**QueryCacheProofs** (any number of threads, queries and versions, from `VersionAssumption`): `QueryTypes`, `RowsStayCurrent`,
`JoiningIsForEver` and `OnlyReloadsRepeatAQuery`. `CacheInv` says of
every place a frame passes through, the cache, a Future, a thread's hands, that it is of the version it is filed under or a later one,
and that what a thread asks of has been published. The step a reader may miss is a waiter's: it holds the lock, so nobody can
forget or replace the Future it waits for (`WaitersHold`).
`JoiningIsForEver` is the general form of `query_cache_returns`: a thread that waits for an unfinished Future holds the lock, each step that could complete the Future, return
a query or give the lock back needs that lock, so no step of any thread changes what is shared, or ends a query, again. `OnlyReloadsRepeatAQuery` is about behaviours
without the step that forgets Futures (`Clear`): there a thread that runs a query is the maker of the Future in flight for it (`LeadersAreKnown`), so
no two run one query, and none finds its Future completed. It accounts for the last entry of section 6.

**BackgroundProofs**, exports (any number of users, keys, workers and jobs): `ExportTypes`, `RateHolds`, `ActiveHolds`, `RetriesShare`, `TwinsDownload`,
`JobsMoveForward`, `JobsAreHeld`. From `LimitAssumption`, `NothingAssumption` and `TTLAssumption`, that a deduplication key lives no longer
than a file, which the defaults of the two stores satisfy (45 seconds and 30 minutes). `ExportInv` has a part for each table: `Clocked` (nothing is of the
future, times are in order), `Unused` (a number not given yet has no entry, file or worker), `Lined` (a job is in the queue or with a worker at most
once, and not yet taken if pending), `Counted` (the tuple of times holds every submission of the last minute), `Twins`, `Filed`
(a job that completed has a file made before). The limits follow since each is looked at in the step that adds to what it counts.
`TwinsDownload` rests on `FilesInv` beside it: a file that is not stored and has not expired has at least `FileCap` files in `since`. The step that
needs an argument is a file pushed out: it is the one used least recently, so all the others stored, and the one coming in, are in its `since`.
`JobsAreHeld` is the half of `EveryJobEnds` a proof reaches: an entry that says `pending` is of a job in the queue, one that says `running` of a job some
worker has, so what fairness has to bring about is never out of reach.

**BackgroundProofs**, labor (any number of refreshes, dates, windows, chunks and glimpses): `LaborTypes` and `FinalDaysLoaded`, from `LoopAssumption`, `LaborDayAssumption`,
`LaborWindowAssumption`, `GlimpsesAssumption` and `LaborBounds`. `LaborShape` has the dates of every refresh in order and its copy's days as its step says. `LaborInv` adds what
the dataset and each staged copy answer for. `DueDays` are the days that were final for the last success, or for a running refresh that has
stored them. The dataset has them as the source has, but for `lost`; a copy in some refresh's hands does, but for those it `missed`, and it has
those of its own chunk that were final when the refresh began. The property alone is not inductive, since it forgets what a later rename will bring. Two steps need an
argument: `SwapChunkIn`, where the days stored become due for all, so every other copy has missed them or has them as final in its own chunk; and `FinishPull`,
where the days before the window become due, which were due at the last success already unless an outage lies between.

**DesksProofs**, planning (any number of workers, products, names and requests, no assumption on the constants): `PlanningTypes`,
`VersionsInOrder`, `RecommendationsFollowApprovals`, `OrdersFollowApprovals`, `WriteBackIsIdempotent`, `OrdersNeedDecisions`. Three inductive
invariants, each over the one before. `Versioned`: types, versions that count up, and that the number a worker has chosen is at most one
past the scenarios of its name, so an INSERT that passes the unique index takes the next one. `WriteBack`: the lines in an order
or in a worker's hands are what some approval left; this lasts because approvals only grow. `Decisions`: a move a worker is
about to write was asked for and, where it needs one, decided; the requests that allowed it are never withdrawn.
`RecommendationsAreSingle` adds, while no two requests are about to
decide one scenario (`PlansApart`), that it is approved at most once and neither its recommendations nor an order of it count a product twice.
That a highest version and a newest request exist follows from the well-foundedness of the natural numbers.

**DesksProofs**, work items and corrective actions (any number of items, actions, requests and outcomes): `ItemTypes`, `ItemsNeedDecisions`, `LinksHaveEvents`, `ActionTypes`,
`ResolutionsAreMeasured`, and the refinements `ItemsLeaveATrail` and `ActionsLeaveATrail`, each a proof that initial states map to
initial states and every step to one of `AuditTrail` or a stutter. `ItemInv` and `ActionInv` make what a request has read *had*: the status it read is in the
record's events, and since those only grow it still is when it writes. The refinements rest on exactly this, and so do the stamps:
a request that read an approved action wrote after somebody approved it. `NoStageIsSkipped` holds under every race too: each stage of an action that was reached
has the one before it in the record. What a race can undo is stated under the hypothesis that excludes it. `ActionsMoveInOrder` assumes that no two requests
have one action in hand (`ActionsApart`), `ItemsMoveInOrder` that no two are about to move one item (`ItemsApart`). Then what a request has
read is still so when it writes, moves are along the lifecycle from the status shown, an action is resolved once with the outcome of its event, and an item
that waits for approval, or was approved, says so in `approval_status` too.

**NotificationProofs** (any number of runners, users, dates and kills, from `RunnerAssumption` and `AlertBounds`): `AlertTypes`, `AlertsAreRecordedOnce`,
`SentWasMailed`, `MailsAreExplained`, `TimerMailsOnce`. Each is inductive only together with what runners have in hand. `AboutToMark`: a batch a runner marks next was mailed, or tried. `Apart`: an event is in
one place of a runner's plan only. `Repeats`: the mails of a pending event are at most the kills and the runners about to mark it, and the mails of any event, together with the
runners that still hold it, at most the kills and the runners. Neither half of `Repeats` lasts alone: a runner that loads a pending event needs the first to hold
the event within the second, and the second carries a mail over to the first only because its sender held the event once.
`TimerMailsOnce` is what is left of it where `ByHand` is empty and nobody is killed: no event is mailed twice.

**Hypotheses on behaviours.** `SessionsApart`, `ActionsApart`, `ItemsApart`, `PlansApart`, `JobsApart`, `OneSwapAtATime`, `BatchesScanned`, the absence of reloads and of
kills are not enforced by the code, and no theorem says they are. Each names the one overlap (or size, or event) a promise depends on, and says that it depends on nothing
else: a row lock from a session's read to its write, or one lock for all refreshes, would give it. They are satisfiable: a behaviour of one request at a
time, of which the runs have many, satisfies each. Theorems that name no such hypothesis hold in every race.

Only model-checked: liveness (`EveryRequestReturns`, `RefreshComesBack`, `AlertsGoOut`, `EveryJobEnds`, `CorrectionsArrive`), which the prover
does not handle. Every invariant, action property and refinement of the passing runs is proved, under the hypotheses named above.

## 6. What the runs found

Four runs are violated on purpose: a document or comment says otherwise.

- `returns_strict`: two requests read one return; the later commit overwrites the earlier one's status with a move
  that was legal from what it read only. `docs/returns_runbook.md:48` promises strict server-side enforcement.
- `refresh_lock`: the job's lock file is inside the directory the swap renames, and the refresh behind
  it takes no lock (`fact_store.py:1460`), so two jobs refresh at once.
- `refresh_scan_cap`: above 50 000 keys the upsert does not look for older copies of its lines, and leaves
  duplicates (`README.md:181` says it does not).
- `query_cache_returns`: a thread waits for a Future inside the lock its builder needs to complete it, and every
  query after it waits for that lock. `core/cache_manager.py:92` warns of exactly this.

Seen while modelling, and kept in the models as the code has it, without a run of their own:

- With `RETURNS_FINAL_V1` the manager's approval moves to `awaiting_finance`, for which nothing is validated
  (`service.py:4541`); `docs/returns_runbook.md:91` says it rejects incomplete totals or empty lines.
- Two refund requests that overlap between check and payment may both pay; `ImplementsLifecycle` and `RefusedIsUnpaid` hold while they do not.
- A user's second digest compares a time the database returns without a zone with one that
  has a zone (`notifications.py:842`). The comparison raises and ends the cycle for everybody after that
  user, every hour. A property that digests go out is violated; `AlertsGoOut` excepts this.
- A dry run marks events as sent (`trials`), so the real run after it does not mail them.
- The hourly cap is compared once for all of a user's immediate events, and can be exceeded by them.
- The alert page offers a cooldown (`templates/notifications/index.html:316`) that the runner does not read.
- A webhook whose worker is lost after filing its event leaves it pending for ever, and redeliveries are answered as
  duplicates; an error caught after the commit is stored as an error though the return has moved.
- Two approvals of one scenario write its recommendations twice; an approval that races a rejection
  leaves a rejected scenario with recommendations. `RecommendationsAreApproved` counts approvals for this reason.
- A line re-dated from inside the hot window to a date before it is dropped and not pulled again.
- Two resolutions of one corrective action that overlap leave the outcome of the row and the one of the newest event apart, or a row
  mixed of both: the later UPDATE skips each column whose value equals the one it read (`returns/service.py:3522`).
- A retry may be answered with a completed job whose file is gone: 256 other files, of any users, push it out before its time (`export_store.py:12`).
- `approval_status` of orders and work items may be stale: it is written only where it differs from what was read
  (`decision_ops/service.py:1290`).
- Dependencies between work items may form a circle of two or more (`decision_ops/service.py:797`).
- The labor window reaches back seven days from now, whatever the watermark: after a longer outage the days between are
  skipped (`labor_etl.py:637`). The state file also survives a lost dataset, after which an
  incremental refresh begins a new one with the window's days only (`labor_etl.py:635`).
- Labor refreshes lock nothing out (`labor_etl.py:763`). Two of them overwrite one another's days, and the slower rename may move its
  clone inside the dataset, where queries count its files a second time and no later upsert removes them (`partition_writer.py:479`). `lost` and `stray` record this.
- A reload that forgets the Futures in flight lets two threads run one query, the second of which completes a
  Future again (`fact_store.py:1062`).

## 7. Not modelled

Most of the repository's lines are pages and analytics over read-only frames. The models cover the parts that keep state
between requests and are written from more than one place; what follows is left out, and why.

- **Functions of a request over read-only data**: bundles, forecasts, metrics, margin rules, filters, permissions, the
  assistant's choice of tools, page routes. Mostly floating-point arithmetic and text, with no
  state between requests beyond the caches that are modelled.
- **Rows with one writer**: assistant memory and schedules, preferences' thresholds, account administration, password links.
- **Event stream**: an append-only log no handler reads back to decide.
- **Outside the program**: the order system, SMTP, DuckDB, dbt, the browser. The first two are in the models as
  choices of their results.
- **Abstracted inside modelled parts**: the refresh's state file and watermark (the window does not read
  them), the manifest's contents (the version is a number), shipments, comments and attachments of a return,
  `TTLValueCache.clear` (tests only), the sizes of the export stores' deduplication and rate caches, the other web process's export jobs
(each process has its own), the labor commands' explicit `--start` and `--end`, the year directories of the labor dataset (all its days are in one), prebuilt bundle files, the request-local query cache, orders entered by hand.

## 8. What is left

In this order, most important first:

1. The digest's comparison and the circle of dependencies as runs of their own.
2. The double count of a labor dataset moved inside another, which needs the readers of `labor_store`.
3. The event stream's append, and the one-use password links.
