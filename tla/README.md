# Verification of the balanser_tg task queue and discovery API

This directory holds TLA+ modules, TLC configurations and TLAPS proofs about the program in this repository: a
PostgreSQL-backed task queue that adds, moves, removes and inspects Telegram channels on a fleet of Telegram
accounts, and the HTTP API beside it, which holds the Telegram sessions and listens to the channels. Modules are
translated from the code; `PROJECT.json` maps every definition to the lines it stands for.

    tlasany M.tla                      parse
    tlc -config MCx.cfg MCx            model-check
    tlapm QueueProofs.tla              check the proofs of a module

## 1. The system

Two programs share one database. The *queue side* (`app_balance/`) claims and executes tasks; the *discovery API*
(`standalone_discovery/discovery_api/`) enqueues them, holds the Telegram sessions and, in production, also hosts
the workers as asyncio tasks. Every statement runs on a connection of its own in autocommit, except
`pick_and_reserve`, `pick_best_and_reserve`, `reserve_pair`, `postpone`, the watchdog, the re-sync of accounts and the
detector, which use a transaction. Between two statements anything else may run: that is the granularity of every module
here but `RowLocks`, which looks into statements and transactions.

| Part | State it keeps | Operations | What makes it correct |
|---|---|---|---|
| `queue/task_queue.py`, table `task_queue` | status, locked_by / locked_until, attempts, postpones, account_id, payload | enqueue, claim, begin attempt, complete, reschedule, fail, postpone, assign, note a step, time out | one owner at a time; a lock exactly while in progress; bounded attempts; a final status is final |
| `queue/accounts.py`, table `accounts` | current_task_id, status, is_enabled, cooldown_until | pick, reserve, reserve a pair, release, cooldown, ban, error, reactivate | an account works for one task; none stays reserved; a dead one takes no work |
| `queue/dispatch.py`, `queue_worker.py` | a snapshot of the claimed row, reserved_ids, the exception in hand | dispatch: reserve, check, assign, attempt, execute, sync health, settle, release | every path settles and releases what it may, and touches only what it still owns |
| `queue/watchdog.py` | none | mark what timed out, release orphaned accounts | nothing stays in progress or reserved |
| `queue/account_health_sync.py`, `queue_scheduler.py` | none | mark accounts from session errors, clear expired cooldowns | consistent account states while tasks run |
| `queue/producers/*`, `discovery_api/queue/producer.py` | none | look for duplicates and room, then insert | one active task per key and channel; no request lost; limits held |
| `queue/per_op_pipeline.py`, `collect_pipeline.py` | payload.last_completed_step; CollectContext in memory; membership at Telegram | charge, execute, note each op; resume; save the signals | no op charged twice; listeners stay; a temporary member leaves; signals saved |
| `queue/account_lease.py` | one task row, one reservation | insert in progress, pick, check, use, release, close | the lease stands while it lasts and is cleaned up after |
| `queue/adapter.py`, `channel_assignment_sync.py`, `producers/inactive_channel_remove.py` | membership at Telegram, clumps (memory + JSON), source_channels.assigned_account_id | add, move, remove a channel | the four places agree on who listens to a channel |
| `queue/producers/channel_balancer.py` | planned counts of one tick | plan moves | a channel moves once a tick; dead accounts are drained |
| `queue/resource_usage.py`, `resource_check.py`, `pacing.py` | usage rows of the last hour; last use per process | check, pace, charge | an account does no more of an op within an hour than its limit |
| `queue/monitoring/error_detector*.py`, `queue_monitor.py` | `resource_limit_adjustments`, rph_limit, is_enabled of ops | find recurring errors, cut a limit, switch an op off, cool an account | one cut a wave; switched off by a second wave only |
| `queue/monitoring/idle_transaction_reaper.py`, the connections to PostgreSQL | row locks, open transactions | begin, lock, wait, commit, kill idle transactions | no wait is for ever |
| `queue/monitoring/` alerts, metrics | heartbeats, time of the last alert | alert | no decision of the queue depends on it |
| `discovery_api/session_registry.py`: `SessionClump` | channels per session, assignments, pending channels; parser_jobs.json | add, move, migrate, retry, rebalance, add and remove sessions, save, restore | no channel is lost; what is at rest is saved |
| `discovery_api/session_registry.py`, `session_health.py`, `queue/account_health_sync.py`, `accounts_sync.py` | SessionHealth in memory, the client, the row of accounts | supervise, monitor, reactivate, resync | memory and table agree; a banned account stays out |
| `discovery_api/parser_router.py`, `parser_store.py`, `action_queue.py` | parsers in memory, parser_jobs.json, a SQLite FIFO of bulk actions | start, stop, add channels, enqueue and run actions, restore | a stopped parser stays stopped; an action runs at most once and its result is saved |
| `discovery_api/parser_functions.py`, `redis_ingress.py` | a bounded queue, counters, dispatchers | hear, post, retry, give up, publish, shut down | nothing heard is lost silently; the counters add up |
| `discovery_api/parser_router.py` enrol, `auth.py`, `session_archive.py` | .session, .identity.json and their .bak | upload an archive, log in by QR, delete | a failed upload leaves what was there; an identity belongs to the session beside it |
| `discovery_api/client_sessions/` | one JSON file an account: status, watched peers, cursors, idempotency keys | send, watch, poll, revoke, log in | sent once for a key the file keeps; no message passed over without an answer of the webhook; revoked until the next login |
| `discovery_api/discovery.py`, `lead_intent/`, `score_channel/` | none across requests | search and score | not a concurrency problem |

How they interact: producers and HTTP handlers insert rows; a worker claims a row by a compare-and-set under
`FOR UPDATE SKIP LOCKED`, reserves an account by another, executes against Telegram through a clump, and settles
the row with the fence `status = 'in_progress' AND locked_by = $worker`. The watchdog does to both tables what the
worker would have done, when it thinks the worker is gone. Nothing renews a lease, so "gone" and "slow" look the
same. The direct lease writes the same two tables from an HTTP handler.

The hard behaviour is therefore: a worker that outlives its lease (a *zombie*) beside the next owner of its task;
a crash or a raised statement between any two statements; decisions on a row read several statements ago; a
retry of work partly done; and the memory of an attempt that is lost with it. In the discovery API everything runs
in one asyncio process, so what interleaves are the stretches between two `await`s: a handler, a queue worker, the
supervisor of a session, the health monitor and the poll loops read state, wait for Telegram or PostgreSQL, and act
on what they read. `PROJECT.json` lists these hazards line by line with the properties that cover them.

## 2. Modules

| Module | Models | State and actions |
|---|---|---|
| `AccountsTable` | `accounts.py` | a row as a record; each WHERE clause a predicate, each SET clause a function of the row |
| `TasksTable` | `task_queue.py` | the same for `task_queue` |
| `Dispatch` | `dispatch.py`, `queue_worker.py` | `wk[w]` is what one worker has in memory, with its program counter; one action per SQL statement or transaction of `dispatch()` and per kind of failure |
| `Queue` | the whole queue side | composes Dispatch with enqueue, watchdog, health monitor and time; states the properties |
| `TaskLifecycle` | what the queue promises a producer | abstract: phase, owner and tries of each task |
| `Producers` | `enqueue`, `enqueue_many`, `enqueue_if_room`, `enqueue_parser_add_channels` | tasks as a sequence of statuses per dedup key; one action per statement of a call |
| `Pipeline` | `run_pipeline` and the collect ops | one task row of TasksTable, the runs of the workers, membership, charges, saved signals |
| `DirectLease` | `acquire_best_account_lease` | composes Queue with one process per direct call |
| `RowLocks` | transactions and row locks of `accounts.py`, `accounts_sync.py`, the sweeps; `idle_transaction_reaper.py`, `queue_monitor.py` | `conn[s]` is one session on the server: the rows its statements are still to lock, those it holds, whether its client lives; `tick` is the monitor |
| `Fleet` | `adapter.py` add, move, remove; `channel_assignment_sync.py`; the producers of these tasks | `follows` (Telegram), `listens` (memory), `stored` (file), `assignedTo` (table); one action per await or write of an attempt, where the write may be left out (table) or fail unnoticed (file), crash and retry |
| `Balancer` | `channel_balancer.py` | `tick` is one run of the loop with its counts and lists; `moves` the active tasks; moves end and accounts die at any time |
| `Health` | `session_health.py`, the supervisor, monitor, `get_or_create_client` and the leaving and entering of a clump of `session_registry.py`, `account_health_sync.py`, `_sync_account_health_on_error` of `dispatch.py`, `accounts_sync.py` | `memory`, the row `account` (of AccountsTable), `doing[t]` for each of four tasks (supervisor, monitor, caller, dispatcher), one resync transaction; `listed` is the clump |
| `Resources` | `resource_check.py`, the hourly window of `resource_usage.py`, `pacing.py`, the reading of the ops, the order of these in `_reserve_*` of `dispatch.py` | `used`, the units of the hour; the pacer's slot; one attempt a runner: reserve, check, pace, charge, execute, where a task for two accounts checks before it reserves. Units and threshold are those of the task type |
| `Clump` | `SessionClump` | `chans`, `assigned`, `pending`, `saved`; `op[t]` is one operation between two awaits, `lock` is `_migrate_lock` |
| `Parsers` | `parser_start`, `parser_stop`, add-channels, `parser_store.py`, `action_queue.py`, restore | the registry of clumps, the jobs, the file, the action rows, the worker loop, two handlers |
| `Ingress` | the listener's handler, `_dispatch_queue_worker`, `redis_ingress.py` | the queue, the dispatchers with their attempt, the counters, what the receiver stored |
| `SessionFiles` | enrolment from an archive, QR login, deletion | the session file, its sidecar, the two backups, each upload's progress |
| `ClientSessions` | `client_sessions/` | the metadata file, the mutex of the account, the chat, the callers and the poll with the metadata each has read; `known` is the sequence of the `Kept` keys remembered last |
| `Detector` | `error_detector.py`, `error_detector_repo.py` | the adjustments inside and before the window, limits, one tick a monitor |
| `TableProofs`, `QueueProofs`, `LeaseProofs`, `PipelineProofs`, `ProducersProofs`, `ServicesProofs`, `ClumpProofs`, `DiscoveryProofs` | - | theorems and proofs (section 5) |
| `MCQueue`, `MCProducers`, `MCPipeline`, `MCDirectLease`, `MCClump` | - | small instances |
| `MCServices`, `MCDiscovery` | - | instances of several modules that share no variable, as is `MCDirectLease` with RowLocks (see section 3) |

`Producers`, `Pipeline` and `Health` use the row operators of `TasksTable` and `AccountsTable`, so a statement is
written once. `Fleet`, `Clump` and `Balancer` look at one subject from three heights: `Clump` has every await inside one
clump, `Fleet` the four places a queue task writes, `Balancer` only the table. `Queue` sees all of it as `Execute`
with an outcome.

Operators whose comment says "Bug:" are the broken variants that show each property can fail; no specification
uses them.

**Abstractions.** Time is not a clock but the answers the WHERE clauses ask for: `due` (run_after has come), `lease`
("none", "live", "over") and `late` (task_timeout has passed), `cooling`; separate actions let each pass. Sort
orders (last_used_at, run_after, id) become the freedom to take any candidate; the task priority is kept, because
it can starve. The resource check and the pacer are a free verdict (`CheckPasses`, `CheckRefuses`). What
`adapter.execute` does is an outcome (`Outcomes`) in Dispatch, and is opened up in Pipeline for the two task
types of several ops. `ResourceError`, which `dispatch` handles, is raised by nothing in the repository
(`errors.py:50`): the outcome "resource" is in the module and in the theorems, and in no run. The rows of
`task_attempts` and `task_error_log` feed reports and the error detector only; that inserting one may raise after the attempt is counted is kept (`AttemptRowFails`).
`Pipeline` takes claim, assignment and attempt in one step, since Dispatch has them apart. Telegram is assumed to
answer a join of a member with `UserAlreadyParticipantError`, as the code assumes.

`Clump` keeps what `_pick_target` chooses (the least loaded session below its limit), and takes daily join limits, health and the
idle window as free choices. `Fleet` lets an attempt fail wherever it awaits; accounts are exclusive to attempts,
as `Queue` shows for workers within their lease. `Balancer` compares the 5 % band in integers. In `Health` a flood may be over at any
time, and the dispatcher reports a FloodWait whenever it likes. In `Resources` the hour is the sum of the units of its rows: `HourPasses` takes any part of the
units of one op out of it, so that rows leave the window one after the other or several at once. A move names the account in one of its two roles; whether the other account
is free is a free choice. `Ingress` lets a post time out
whether or not the receiver stored it. `ClientSessions` follows one peer; a page of the history is `Page` messages (20 in
the code), the file keeps `Kept` keys (200). An answer of the webhook is one of three: for later (5xx, 401), taken, or turned down for good (what is left below 500,
and the 204 that stands for a missing URL); the code does not tell the last two apart, the history does. `Detector` lets any set of pairs recur. `RowLocks` has the locks of `accounts` only, in the one mode of UPDATE and FOR UPDATE: rows of
`task_queue` are locked one at a time or with SKIP LOCKED, and the weaker locks of foreign keys are left out; the
monitor sets at most one cooldown a tick.

**History variables** say of which channels, files or keys an exception holds that a property names: `incident` and `unsaved` in Fleet, `past` in
Health, `undone` in Parsers, `unsaved` in Clump, `unclean` in SessionFiles, `unsure`, `passed`, `dropped`, `sent` and `behind` in ClientSessions,
`forgotten` in Ingress, `outlived` in Detector. Each is set at the step where the code leaves something undone, so the
comments of these properties are the list of what the code does *not* promise.

**The program counter of a worker** (`wk[w].pc`), against `dispatch()`:

| pc | Where the code is | Next statement |
|---|---|---|
| idle | `QueueWorker.run` | `claim_next` (`ClaimNext`) |
| reserve | after the claim | type look-up (`RefuseType`), `pick_and_reserve`, `reserve` or `reserve_pair` |
| check | account reserved, not yet in `reserved_ids` | resource check and pacer (`CheckPasses`, `CheckRefuses`) |
| assign | auto-picked account accepted | `assign_account` |
| begin | `reserved_ids` filled | `begin_execution_attempt`, insert of the attempt (`BeginAttempt`, `AttemptRowFails`) |
| running | `adapter.execute` | none; `Execute` chooses how it ends |
| sync | account error | `_sync_account_health_on_error` |
| unassign | account given back to the pool | `unassign_account` |
| settle | outcome known | `complete`, `postpone`, `fail` or `reschedule_or_fail` |
| release | `finally` | one `release` per reserved account |

**Undefined and concurrent details.** A worker may die anywhere (`Crash`), be cancelled at shutdown (`Cancelled`: only
`finally` runs), or see a statement raise (`StatementFailsInTry`, `...InHandler`, `...Quietly`, `AttemptRowFails`,
`ReleaseFails`), each going where the code's handlers send it. In particular an account under the resource check
is not in `reserved_ids` yet, and an exception there leaks it until the orphan release.

## 3. Runs

| Run | Configuration | Shows |
|---|---|---|
| `queue_safety` | `MCQueueAuto` | locks, attempts, duplicate work, ownership, finality, and that Queue implements TaskLifecycle |
| `queue_exclusive` | `MCQueueExclusive` | accounts are exclusive, when no worker outlives its lease |
| `queue_liveness` | `MCQueueLive` | every task ends and its reservation with it |
| `queue_overrun` | `MCQueueOverrun` (violation) | two workers on one account once a lease is outlived |
| `queue_disabled` | `MCQueueDisabled` (violation) | a task of a disabled type is retried for ever |
| `queue_dead_account` | `MCQueueDead` (violation) | a fixed account that is dead is reserved |
| `producers_twins` | `MCProducersTwins` (violation) | one channel queued under two parsers |
| `pipeline_data` | `MCPipelineData` (violation) | a retried collection is done without its signals |
| `direct_lease` | `MCDirectLease` | a direct lease stands while it lasts, is claimed by no worker, and is cleaned up. RowLocks: reservations, picks and marks never wait in a circle, and what a dead client locked comes free |
| `clump` | `MCClump` | a channel is lost only at the steps `LetsGo` lists; what is at rest is saved; assignments are true |
| `services` | `MCServices` | Producers: one active task per key, no key lost, target size exceeded by a bounded number. Pipeline: listeners, progress, charges, what a first attempt leaves. Fleet: the four places agree at rest but for the writes left out, a move between clumps never silences a channel. Balancer: one move a tick, dead accounts drained. Health: bans and errors. Resources: the hourly limit |
| `discovery_api` | `MCDiscovery` | Parsers: stopped stays stopped, no clump without a job, an action once and saved. Ingress: counters and no silent loss. SessionFiles: roll-back and identities. ClientSessions: once for a key that is kept, nothing passed over without an answer, revoked until login. Detector: waves |

`MCServices`, `MCDiscovery` and `MCDirectLease` put several modules into one instance. The modules share no variable, so a property
of one depends on its own steps only; a constant `focus` of the behaviour picks the module that moves while the others
stay in an initial state, and TLC explores the sum of the state spaces rather than their product. They share
model values where each is symmetric in them, which keeps one small symmetry group sound for all: x1 and x2 are
requests, workers, accounts, runners or parsers, messages and monitors, z1 and z2 handlers and listeners, dm1 and dm2 dispatchers and keys, y1 to y3 the calls of a client (`MCDiscovery` permutes all of these but the x).

**Bounds, and why they are enough.** Each conflict in this system is between two parties over one row, so two workers
(a zombie and its successor) and one or two tasks reach it. `MaxAttempts` is 1 or 2: with 2 a task can be
retried by the worker and by the watchdog before the limit. `MaxPostpone` = 1 and `WatchdogCap` = 1 put each limit
one step away. In `queue_liveness` the task has one account, so it must wait for it. `MaxFaults` = 1 admits one crash or failed statement at any point, and TLC tries them all; two
faults differ from one only in how often the watchdog is needed. `queue_exclusive` has three tasks (auto-pick,
fixed, move) over two accounts so that each kind competes with each other, and no postponement, which only gives a task
back. `queue_safety` leaves out the outcomes that settle as another one does (`channels_too_much` as `transient`, `banned` as
`permanent`, `flood` as `unauthorized` without the unassign). `direct_lease` has one account, for which the direct call and the
worker must quarrel, two outcomes and no worker that outlives its lease (a direct call may); its row locks are those of two accounts
whose order by name is not that by id, under two sessions and the monitor in the mode `all`, whose behaviours include those of
`alerts` (`detector` differs from `all` by reads only), with one death of a client or failed tick: a cycle needs two rows and two
sessions. In `clump` each of two sessions has room for one of two channels: a placement can be refused, a migration has to defer,
and two operations cover every pair of awaits (`OneChannelShared`: an operation on its own may have both channels, two at a time
are about one of them).

The modules of `services` and `discovery_api` are each bounded by a state constraint, `ServicesBound` and `DiscoveryBound`. Two
requests on two keys of one channel reach all orders of look-up, insertion and second look; three tasks in all, one of them finished,
give a key a history, and three capped keys are one more task than the bound. The pipeline has a listener and a stranger, so that
both branches of join and leave are met. The fleet has one channel, three accounts of two clumps and two tasks at a time up to the
first incident: moves inside a clump and across, twin adds, a removal beside a move. The balancer has three channels over three
accounts and a list limit of two, so that a donor's list ends before its channels do. Two things happen to the session from outside
(`MaxHappenings`); of its four tasks and the resync two are busy at a time, one once both have happened. In `Resources` there are three kinds of task, one of which is paced and has
threshold 0 and one of which uses two accounts, over two ops of one and two units with small limits, so that the window fills and two moves pass on the same rows; a1 is no op of a move
and has the tighter bound; the detector turns to one of the ops. In `discovery_api` there are two parsers and handlers
and one action; two messages, listeners and dispatchers with a queue of two; three uploads of which two carry an identity and two may
overwrite; three sends, histories or watches with two keys, of which the file keeps one, so that a key is forgotten and sent again, and a page of one; two of the six calls of a client are under way at a time, and the last of the three sends alone; two monitors, two error codes and
two waves. Symmetry is used in safety runs only.
Where a theorem covers the same property, the bound is immaterial.

`CHECK_DEADLOCK FALSE` is set everywhere: a queue whose tasks are all final has nothing left to do.

**Fairness** (`Queue!Fairness`, `DirectLease!LeaseFairness`, `RowLocks!LocksFairness`). Workers and the watchdog are loops that sleep a bounded
time and swallow exceptions (`queue_worker.py` run, `main.py` `_resilient_worker_loop`, `watchdog.py`), so a step that stays possible is taken; time passes. Weak fairness suffices. Nothing is assumed of
producers, faults, the health monitor or the *next* direct call (`WF` covers a call that has begun). PostgreSQL grants a lock in the order of
the requests, so a statement that can have a lock again and again has it in the end (`SF` of `TakesLock`); a live client sends its next
statement, and the monitor ticks (`queue_monitor.py` run_loop, restarted by the container). Fairness is per worker and
not per action, so the scheduler may choose among a worker's alternatives for ever; `Drains` holds because the
counters bound that.

**Two parameters carry the assumptions.** `Overruns` = FALSE says that time (lease or retry delay) never runs out on a task some worker
is still at. It is what `AccountExclusive` needs, and `queue_overrun` shows why: `locked_until` is set at the
claim and never renewed. `HealthMonitor` = FALSE says that session code does not ban or mark an account under a
worker; `_SET_BANNED_SQL` and `_SET_ACCOUNT_ERROR_SQL` clear `current_task_id`.

## 4. Disagreements between code and documents

Each is a run of its own with its counterexample, quoted in `PROJECT.json`:

1. *Exclusive accounts* (`pacing.py:19-20`), `queue_overrun`: the watchdog frees the account of a slow worker.
2. *Unknown type is failed in the end* (`docs/queue-runbook.md:33`), `queue_disabled`: the reschedule comes before
   the attempt is counted, so the limit is never reached.
3. *A dead account takes no task* (`accounts.py:56-58`), `queue_dead_account`: `_RESERVE_SQL` looks at neither
   status nor is_enabled.
4. *No duplicate under another parser* (`discovery_api/queue/producer.py:115-117`), `producers_twins`: look, then insert.
5. *The final signals are written* (`adapter.py:525`), `pipeline_data`: a resumed attempt overwrites extra_data with
   what it collected itself. The same lost context makes a resumed attempt skip its LeaveChannel
   (`collect_pipeline.py:223`): the account stays in a channel it had entered for the task.

With `WATCHDOG_AUTO_RETRY_ENABLED` (off by default) the docstring of `account_lease.py:4-6` fails too: an expired direct
lease becomes 'retry' and is claimed by a worker. `direct_lease` runs with the default.

Beside these, the models name behaviour no document denies but a maintainer should know. Each is an exception
in the comment of a property, and a hazard in `PROJECT.json` with its line:

* `Clump`: a retry drops channels that were deferred while it ran; a migration that meets an exception drops the channel in
  hand; a refused move does not put it back; pending channels do not survive a restart.
* `Fleet`: a cross-clump move that meets an owner conflict writes the wrong account into the table; an account can come
  back from a crash listening to a channel it has left. A write to the table is skipped when the channel is not resolved or there is no pool, a failed save of a
  clump is only logged, and the task is done all the same: table, memory and file then differ until somebody writes again.
* `Balancer`: two ticks can queue two moves of one channel to two targets.
* `Health`: a FloodWait written over 'error' ends in an 'active' row with is_enabled false. A ban the dispatcher reports is in the table alone: memory learns of it when it
  next asks Telegram, and then for an authorization error. A session that leaves its clump and enters again is 'starting' in memory, banned or not.
* `Resources`: moves check before they reserve, so as many as there are workers may pass on the same rows and are charged one after the other.
* `RowLocks`: the reaper comes last in a tick (`queue_monitor.py:116`), and nothing has a lock timeout. If the detector of the same tick
  is to cool an account whose row a dead client's transaction holds (`error_detector_repo.py:275`), or waits behind one who waits for it,
  the monitor waits with the others until TCP keepalive ends, and nobody reaps; "актуален всегда" (`queue_monitor.py:110`) holds in mode `alerts`.
  A re-sync (by name) and a pair reservation (by id) can deadlock; PostgreSQL then rolls one back.
* `Parsers`: an action 'running' when the process died stays so for ever.
* `SessionFiles`: two enrolments of one name at a time can delete each other's file; identities outlive their session.
* `ClientSessions`: a send with an unknown outcome is repeated, and so is one whose key 200 others have followed; a message the webhook turns down with 400, 403, 404 or 429,
  or for which there is no URL, counts as delivered and is lost; an own message moves the cursor over unread ones; metadata read
  before a lock is saved inside it.

## 5. Proofs

What is proved holds for every set of tasks, accounts, workers, keys, sessions, channels, requests, ops, parsers, clumps, fleets,
messages, logins and monitors, and for every limit. The assumptions are named and stand beside the constants: `TableAssumption`,
`DispatchAssumption`, `QueueAssumption`, `PipelineAssumption`, `ProducersAssumption`, `ClumpAssumption`, `FleetAssumption`,
`BalancerAssumption`, `HealthAssumption`, `ResourcesAssumption`, `ParsersAssumption`, `IngressAssumption`, `SessionFilesAssumption`, `ClientSessionsAssumption`, `DetectorAssumption`,
`RowLocksAssumption`. They say that constants have their
types, that `None` and its like are no id, and that what is counted is finite; every run evaluates them. A theorem that needs more
says so in its statement. TLC has checked each inductive invariant on the run's instance as well.

* **Queue** (`TableProofs`, `QueueProofs`). `TypeOK` is not inductive: an action that names "the account in hand" needs one. `TypeInv` adds
  `WorkerShape`, what a worker holds at each program counter. The other theorems do not look at every action
  again: one lemma shows that every step changes each row by one of a few row operators under its guard
  (`RowStep`), another the same for accounts (`AccountStep`). From those follow `LocksAreDisciplined`,
  `OnlyOwnerOrTimeoutEnds` and `Final`.
* **Attempts** (`AttemptsAreBounded` in `QueueProofs`). `AttemptInv` strengthens the bound: a row that may be claimed has an attempt left, and the
  owner between claim and `begin_execution_attempt` still has it; a worker past it has used one of at most
  `MaxAttempts`. With outcome "resource" the bound is `MaxAttempts + postpones`.
* **Duplicate work** (`WorkIsBounded`, same module). `WorkInv` adds to the work done (`effects`) the workers that may still do it
  (`Pending`, zombies included) and one more if the row is on offer to another; the sum stays within 1 + retries + faults. A step of one
  worker changes it by that worker's share (`OneWorkerCounts`).
* **Refinement** (`QueueImplementsLifecycle`, same module, if "resource" is no outcome). Under the mapping of `Queue!Lifecycle` the
  initial states agree, and each step maps to a step of `TaskLifecycle` or a stutter. A step that changes one row maps to the
  action of that task; a sweep of several rows is the case the abstract `LNext` has for it (`OneRowOrSweep`). It is from `AttemptInv`
  that a retried task has a try left.
* **Exclusiveness** (`ReservationsStand` in `QueueProofs`), assuming `~Overruns` and `~HealthMonitor`. `ExclusiveInv`: a worker with a task that is still
  in progress holds its lock; one worker per task; what it reserved carries its task. Exclusiveness follows,
  since an account carries one task and a task has one worker.
* **Direct lease** (`LeaseProofs`, on top of `QueueProofs`), assuming `~AutoRetry` beside those two; with auto-retry it is false (section 4).
  `LeaseInv` is what the workers rely on (`ExclusiveInv`), and: the row of a call is never claimable (`LeaseRow`), no worker has it in
  memory (`NotTheirs`), and while the lease stands the account of a call at work is reserved for it (`LeaseReserved`). A step of the
  queue is a step of `Queue!Next`, so `RowStep` and `AccountStep` say what it may do to row and account; a step of a call writes its own
  row, and takes a free account or gives its own back (`CallWrites`), so the workers' invariant stands beside it. `LeasesAreTheirOwn` and
  `LeasesStand` follow.
* **Row locks** (`LeaseProofs` too, since the run takes both). `LocksInv`: a row has one holder (`OneHolder`); a pair takes its two rows in the
  order of their ids, a pick or a mark wants no row while it holds one (`LockOrder`). In a cycle of such sessions each waits for one that
  wants a greater row, and the greatest row wanted ends it: `ReservationsFree`, the safety half of `LocksComeFree`, for any number of
  rows and sessions, whatever dies and whatever the reaper terminates. `LeaseAndLocksAreTheirs` carries both results to the specification the run checks.
* **Pipeline** (`PipelineProofs`). `PipeInv` = `TypeOK` + the shape of a run + "who will leave was a stranger" + "the holder of
  the task is ahead of `last_completed_step`". The last is what makes progress monotone and charges unique, since
  the note is fenced and the charge is not. `FirstAttemptIsClean` has an invariant of its own, `FirstInv`: at the first attempt
  only one run is under way, and membership and signals are what the ops it has behind it make them. It assumes `WholePipeline`: no op
  occurs twice, every kind of data has an op, and a join is followed by a leave, as in the two pipelines of the code.
* **Producers** (`ProducersProofs`). `ProducersInv` adds to `OneActivePerKey` what a call in each of its steps knows
  of every key it has answered (`CallsKnow`); "served at some time while the call ran" is a history variable. `OvershootIsBounded`
  counts: the active capped tasks and the calls that found room and have yet to insert stay together within `TargetSize` plus the
  other calls (`OvershootInv`). It assumes a finite number of calls, at least one.
* **Clump** (`ClumpProofs`). `OpsSound` says what an operation may hold across an await: a session of the clump, or one it knows to have
  left. With it `ChannelsAreHeld` and `AssignmentsStayTrue` follow action by action. `WhatIsHeardIsSaved` needs `CoverInv`: a channel
  listened to and not saved is noted in `unsaved`, or under an operation that has the save still ahead of it (`Covers`).
* **Fleet** (`ServicesProofs`). `FleetInv`: on a channel without a task the four places agree; a channel has one task, and what the
  places still differ in is what that task, at its program point, has yet to write (`AtWorkOn`). A crash sets memory back to what was
  saved, so `AtWorkOn` bounds both: only the two accounts of the task listen to the channel, in memory or in the file. The file may be behind where the clump's last save failed
  (`unsaved`), until the next one, which writes the whole clump; a crash before that is an incident.
  `PlacesOfFleetAgree` and `CrossMovesKeepHearing` follow.
* **Balancer** (same module). `BalancerInv` speaks of a tick nobody disturbs: what has gone from a list has been planned (`ListsAreTrue`),
  and the count of a dead account whose list is whole is what its list has left (`CountsAreTrue`). So the loop, which looks at counts only,
  ends with the lists of the dead empty (`PlansAreSound`). That it always finds a heaviest and a lightest account needs `LeastElement`. The type
  has an argument of its own: the counts are covered by the loads of some assignment of the channels (`CountsCovered`), since an account a
  move is taken from has a count, and is not the one it goes to (so `if source_id == target_id` never ends a tick).
* **Health** (same module). `HealthInv`: where memory and table differ on a ban or an error, the statement that makes them agree is under way
  (`BanUnderWay`, `ErrorUnderWay`), or a second writer was (`past`); the table is ahead of memory only where the dispatcher or a change of clump put it there ("alone", "renewed");
  outside a clump nobody supervises the session and memory knows of no ban (`Unlisted`); with `OneWriter` a statement that is through leaves none behind
  that would undo it.
* **Resources** (same module). `ResourcesInv`: as many attempts are past their reservation without the account as lost it (`Strays`). So the attempts that have passed the
  check of an op and have not been charged for it are at most one more than those, if no move uses the op, and any number of runners if one does. With these counted as charges the limit holds
  already (`ChargesWithin`). `HourlyLimit` speaks of ops that are `Limited`: with a threshold of 0, which `DB/A16_min_available_resource_percent_uniform.sql`
  sets for `parser_add_channel`, an op whose effective limit is 0 shows 0 % available, which passes, and its charges have no bound; with any limit above that the theorem holds for a
  threshold of 0 too. (A16:5 says the check with 0 passes at any remainder but none; it compares with `<`, so it passes at none too, one task past the limit.)
* **The services together** (`ServicesAreEach`): a behaviour of `ServicesSpec` is one of each service, whence `ServicesTypeCorrect`.
* **Discovery services** (`DiscoveryProofs`). Each service is proved by itself; `ServicesAreTheirs` shows that a behaviour of
  `DiscoverySpec` is one of each. The invariants in short:
  - *Clients* (`ClientsInv`): who is past the lock holds the mutex; then the metadata a call has read is as good as the file: it recalls
    each key that was sent (`KeysRecalled`: the key stands in it with no more keys after it than were added since, so only `Kept` of them drop it), is not 'active' after a revocation (`LoginKnown`), and its cursor passes only what was
    answered (`CursorsPass`; the rest of a page lies in order after the last one answered).
  - *Parsers* (`ParsersTrue`): a handler, and the worker loop, at work on a parser that was stopped know that it was overtaken; an action
    that is new or queued has not run; a zeroed file has no record.
  - *Ingress* (`IngressInv`): a worker at work has a message. The rest is arithmetic on the counters and on the cardinality of what
    is on its way.
  - *Files* (`FilesInv`): while a call counts its channels and nothing disturbed it, it is the only one, and what it moved is in the
    backups (`Restorable`).
  - *Detector* (`DetectorInv`): a pair that a tick calls repeated has outlived a window, or its adjustment is still in the window and
    the second look-up will pass it over; so an op is switched off only by a second wave. That waves cut a limit once
    (`WavesCountOnce` proves both halves of `EachWaveCounts`) needs `WavesInv`: the limit a tick writes back is computed from rows
    read earlier, which are of the time of some k waves (`MadeAfter`), and if one of its pairs is in the window by now, that
    pair began another wave since; so the tick's cut is at most the (k + 1)th. The two recursive pieces, `Cuts` and the sum over the
    codes, are taken by induction in its form for sets: a set with 0 and with n + 1 for each n in it has every number (`ByNumbers`,
    from the least element of a set of numbers), a family with {} and with each set whose rest it has is every set of codes (`ByCodes`).
    These lemmas take a set, not an operator, as parameter.

Proving found two faults of the models. A client that refuses a message for a reason other than a revocation (`SendRefused`) had been
given the metadata read before the lock, while the code remembers the key in the file as it is (`service.py:219-231`). And the part of
a limit the check leaves usable (`Usable`) ignored that the view rounds to hundredths of a percent, which matters from a limit of 200 on.

**Only model-checked:** liveness under fairness, which this prover does not reach: `Drains`, `LeaseCleansUp`, and of `LocksComeFree` the
half that what a dead client locked comes free. Every other property of a passing run is stated by a theorem.

## 6. What is left

1. Larger instances of `Clump` (three sessions) and of `Balancer` (five channels).
2. A refinement between `Clump` and `Fleet`: what a queue task sees of a clump.

**Not modelled, and why**

* *Discovery, channel scoring and lead intent* (`discovery.py`, `lead_intent/`, `score_channel/`): one request, one answer, over
  Telegram and language-model replies. No state is shared between requests; what they compute is a matter of prompts and
  heuristics of which the repository states no property.
* *Alerts, metrics, queue growth, heartbeats*: read the tables and write messages or gauges.
* *Task types and operations catalogue*: configuration; constants of the modules, and flags that may flip.
* *HTTP routing, authentication, request models, statistics, the read-only endpoints*: no state change.
* *Look-ups by channel reference, archive formats, TData conversion*: pure conversions of text and bytes; the outcome is a free choice.
* *Connection pool* (no code takes a second connection while it holds one, so the pool itself cannot be what everyone waits for), *mock adapter, Telegram notifications to developers, deployment scripts*: library, test and output code.
* *`current_server_version_read_only/`* (an older copy of the same code), *`n8n/`*, *`loadtest/`*: not the program.
