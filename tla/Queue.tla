-------------------------------- MODULE Queue --------------------------------
(***************************************************************************)
(* The task queue as it runs: producers enqueue, the workers of Dispatch   *)
(* carry tasks out, the watchdog of src/app_balance/queue/watchdog.py takes *)
(* back what timed out, the session-health code marks accounts, and time   *)
(* passes.                                                                 *)
(***************************************************************************)
EXTENDS Dispatch

CONSTANTS
    Overruns,      \* may a worker outlive the lease or the retry delay of its task?
    HealthMonitor  \* may the session-health code mark accounts during a task?

ASSUME QueueAssumption ==
    /\ Overruns \in BOOLEAN
    /\ HealthMonitor \in BOOLEAN

Init ==
    /\ tasks = [t \in Tasks |-> [Inserted(Pinned[t], FALSE) EXCEPT !.status = "absent"]]
    /\ accounts = [a \in Accounts |-> FreshAccount]
    /\ wk = [w \in Workers |-> Idle]
    /\ effects = [t \in Tasks |-> 0]
    /\ faults = 0

-----------------------------------------------------------------------------
\* TaskQueueRepo.enqueue, the row it inserts; run_after may lie ahead.
Enqueue(t) ==
    /\ tasks[t].status = "absent"
    /\ \E due \in BOOLEAN : tasks' = [tasks EXCEPT ![t] = Inserted(Pinned[t], due)]
    /\ UNCHANGED <<accounts, wk, effects, faults>>

\* release_orphan_account_locks: the reservations of tasks not in progress.
\* Bug: only the reservations of finished tasks.
OrphanedOfDone(a) == accounts[a].task # None /\ tasks[accounts[a].task].status = "done"
Orphaned(a) == /\ accounts[a].task # None
               /\ tasks[accounts[a].task].status # "in_progress"

Freed(S) == [a \in Accounts |-> IF a \in S THEN [accounts[a] EXCEPT !.task = None]
                                           ELSE accounts[a]]

ReleaseOrphanAccountLocks ==
    /\ \E a \in Accounts : Orphaned(a)
    /\ accounts' = Freed({a \in Accounts : Orphaned(a)})
    /\ UNCHANGED <<tasks, wk, effects, faults>>

\* mark_stuck_timed_out: every row that timed out (the batch limit is above the
\* bound on Tasks), and the accounts reserved for them, in one statement.
MarkStuckTimedOut ==
    LET marked == {t \in Tasks : TimedOut(tasks[t])} IN
    /\ marked # {}
    /\ tasks' = [t \in Tasks |-> IF t \in marked THEN Marked(tasks[t]) ELSE tasks[t]]
    /\ accounts' = Freed({a \in Accounts : accounts[a].task \in marked})
    /\ UNCHANGED <<wk, effects, faults>>

-----------------------------------------------------------------------------
\* persist_banned, persist_unauthorized, persist_flood_cooldown and
\* persist_account_reauthorized of account_health_sync, called by the session code
\* whatever the account is doing.
MonitorMarks(a) ==
    LET r == accounts[a] IN
    /\ HealthMonitor
    /\ \E row \in {Banned(r), Errored(r), CooledDown(r), Reactivated(r)} :
          /\ row # r
          /\ accounts' = [accounts EXCEPT ![a] = row]
    /\ UNCHANGED <<tasks, wk, effects, faults>>

ClearExpiredCooldowns ==
    /\ \E a \in Accounts : CooldownCleared(accounts[a]) # accounts[a]
    /\ accounts' = [a \in Accounts |-> CooldownCleared(accounts[a])]
    /\ UNCHANGED <<tasks, wk, effects, faults>>

-----------------------------------------------------------------------------
Attended(t) == \E w \in Workers : wk[w].task = t

Patient(t) == Overruns \/ ~Attended(t)

RunAfterPasses(t) ==
    /\ tasks[t].status \in Claimable
    /\ ~tasks[t].due
    /\ Patient(t)
    /\ tasks' = [tasks EXCEPT ![t].due = TRUE]
    /\ UNCHANGED <<accounts, wk, effects, faults>>

LeaseRunsOut(t) ==
    /\ tasks[t].lease = "live"
    /\ Patient(t)
    /\ tasks' = [tasks EXCEPT ![t].lease = "over"]
    /\ UNCHANGED <<accounts, wk, effects, faults>>

TimeoutPasses(t) ==
    /\ tasks[t].status = "in_progress"
    /\ ~tasks[t].late
    /\ tasks' = [tasks EXCEPT ![t].late = TRUE]
    /\ UNCHANGED <<accounts, wk, effects, faults>>

CooldownPasses(a) ==
    /\ accounts[a].cooling
    /\ accounts' = [accounts EXCEPT ![a].cooling = FALSE]
    /\ UNCHANGED <<tasks, wk, effects, faults>>

Next ==
    \/ \E t \in Tasks : Enqueue(t)
    \/ \E w \in Workers : WorkerStep(w)
    \/ \E w \in Workers : WorkerFault(w)
    \/ ReleaseOrphanAccountLocks
    \/ MarkStuckTimedOut
    \/ \E a \in Accounts : MonitorMarks(a)
    \/ ClearExpiredCooldowns
    \/ \E t \in Tasks : RunAfterPasses(t)
    \/ \E t \in Tasks : LeaseRunsOut(t)
    \/ \E t \in Tasks : TimeoutPasses(t)
    \/ \E a \in Accounts : CooldownPasses(a)

Spec == Init /\ [][Next]_vars

\* The workers and the watchdog are loops that always come round, and time
\* passes.  Producers, faults and the health monitor owe nothing.
Fairness ==
    /\ \A w \in Workers : WF_vars(WorkerStep(w))
    /\ WF_vars(ReleaseOrphanAccountLocks)
    /\ WF_vars(MarkStuckTimedOut)
    /\ \A t \in Tasks : /\ WF_vars(RunAfterPasses(t))
                        /\ WF_vars(LeaseRunsOut(t))
                        /\ WF_vars(TimeoutPasses(t))
    /\ \A a \in Accounts : WF_vars(CooldownPasses(a))

FairSpec == Spec /\ Fairness

-----------------------------------------------------------------------------
\* Every variable keeps its shape.
TypeOK ==
    /\ tasks \in [Tasks -> TaskRow]
    /\ accounts \in [Accounts -> AccountRow]
    /\ wk \in [Workers -> WorkerState]
    /\ effects \in [Tasks -> Nat]
    /\ faults \in Nat

\* A worker has a task unless it is idle, and an account in hand wherever the
\* code names one.  TypeOK needs it to be inductive.
Shape(s) ==
    /\ s.pc = "idle" <=> s.task = None
    /\ s.pc \in {"check", "assign", "begin", "running", "sync", "release"} => s.held # {}
    /\ s.pc \in {"check", "assign"} => s.task \notin Dual
    /\ s.pc = "sync" => s.out \in {"banned", "flood", "unauthorized"}
    /\ s.out \in Outcomes \cup {"none", "postponed", "unknown_type", "transient"}

WorkerShape == \A w \in Workers : Shape(wk[w])

\* A row carries a lock exactly while it is in_progress: whatever path a task
\* leaves in_progress by - settled, timed out, postponed - nothing of the lock is
\* left to keep the next claim away or to let the previous owner back in.
LockDiscipline ==
    \A t \in Tasks :
       /\ tasks[t].status = "in_progress" <=> tasks[t].lockedBy # None
       /\ tasks[t].status = "in_progress" <=> tasks[t].lease # "none"
       /\ tasks[t].late => tasks[t].status = "in_progress"

\* attempt_count never passes max_attempts, through retries, revocations, zombies
\* and failed statements.  ResourceError, which nothing in the adapter raises,
\* would postpone after the attempt was counted, and each such postpone would be
\* an attempt beyond the limit.
AttemptBound ==
    \A t \in Tasks :
       tasks[t].attempts <= MaxAttempts + (IF "resource" \in Outcomes
                                           THEN tasks[t].postpones ELSE 0)

\* The work of a task is done at most once, plus once for every auto-retry of the
\* watchdog (whose previous executor may still be at it) and for every fault.
DuplicateWorkBound ==
    \A t \in Tasks : effects[t] <= 1 + tasks[t].wdRetries + faults

\* A task is taken out of in_progress by the worker its lock names, at the
\* statement that settles it, or by the watchdog after both the lease and the
\* timeout ran out; a former owner never settles what another one now holds.
OwnerOrTimeoutEnds ==
    [][\A t \in Tasks :
          tasks[t].status = "in_progress" /\ tasks'[t].status # "in_progress" =>
             \/ tasks[t].late /\ tasks[t].lease = "over"
             \/ \E w \in Workers : /\ wk[w].task = t
                                   /\ wk[w].pc = "settle"
                                   /\ tasks[t].lockedBy = w]_vars

\* Nothing a late worker still does reaches the row of a finished task.
FinishedIsFinal ==
    [][\A t \in Tasks : tasks[t].status \in Terminal => tasks'[t] = tasks[t]]_vars

\* A worker between its reservation and the end of the attempt.
Using(w) == wk[w].pc \in {"check", "assign", "begin", "running"}

\* What a worker took for its task stays reserved for that task until the attempt
\* ends.
ReservationStands ==
    \A w \in Workers : Using(w) =>
       \A a \in wk[w].held : accounts[a].task = wk[w].task

\* One account never works for two workers at a time: "по каждому account_id
\* одновременно работает не более одного воркера" (pacing.py:19-20).
AccountExclusive ==
    \A v, w \in Workers :
       v # w /\ Using(v) /\ Using(w) => wk[v].held \cap wk[w].held = {}

\* "'Мёртвый' аккаунт - постоянно непригоден как получатель задач", and may only
\* be the source of a move (accounts.py:56-58).
DeadTakesNoTask ==
    [][\A a \in Accounts :
          LET t == accounts'[a].task IN
          accounts[a].status \in DeadStatuses /\ accounts[a].task = None /\ t # None =>
             t \in Dual /\ a = Source[t]]_vars

\* What a producer sees of a row.
PhaseOf(status) ==
    CASE status \in Claimable          -> "waiting"
      [] status = "in_progress"        -> "running"
      [] status \in {"failed", "stuck"} -> "dropped"
      [] OTHER                         -> status

Lifecycle == INSTANCE TaskLifecycle WITH
    phase <- [t \in Tasks |-> PhaseOf(tasks[t].status)],
    owner <- [t \in Tasks |-> tasks[t].lockedBy],
    tries <- [t \in Tasks |-> tasks[t].attempts]

\* The queue implements the lifecycle: one owner at a time, no more tries than
\* max_attempts, back to the queue only with a try left, done only after a try.
ImplementsLifecycle == Lifecycle!LSpec

-----------------------------------------------------------------------------
\* Every task of a type that stays enabled reaches a final status; in particular a
\* task whose worker died leaves in_progress, and no account stays reserved for it
\* for good.
Drains ==
    \A t \in Tasks \ Disabled :
       /\ tasks[t].status \in Active ~> tasks[t].status \in Terminal
       /\ \A a \in Accounts : accounts[a].task = t ~> accounts[a].task # t

\* "unknown_task_type:* ... retry -> failed" (docs/queue-runbook.md:33): a task
\* whose type was disabled is retried and in the end failed.
UnknownTypeFails ==
    \A t \in Tasks \ Enabled :
       tasks[t].status \in Active ~> tasks[t].status = "failed"
=============================================================================
