----------------------------- MODULE TasksTable -----------------------------
(***************************************************************************)
(* The table task_queue: one row per task, and what each SQL statement of  *)
(* TaskQueueRepo (src/app_balance/queue/task_queue.py) does to a row.  Every *)
(* operator below is the SET clause or the WHERE clause of one statement;  *)
(* the modules that use them supply the interleaving.                      *)
(*                                                                         *)
(* Time is kept as what the WHERE clauses ask of it, not as a clock:       *)
(*   due   = run_after <= now()                                            *)
(*   lease = "none" when locked_until is NULL, "live" when it is ahead of  *)
(*           now(), "over" when it is behind                               *)
(*   late  = COALESCE(locked_at, started_at) + task_timeout < now()        *)
(***************************************************************************)
EXTENDS Integers, AccountsTable

CONSTANTS Workers,      \* the values of locked_by
          MaxAttempts,  \* task_queue.max_attempts
          MaxPostpone,  \* task_types.max_postpone_count
          AutoRetry,    \* WATCHDOG_AUTO_RETRY_ENABLED
          WatchdogCap   \* WATCHDOG_AUTO_RETRY_MAX_ATTEMPTS

ASSUME TableAssumption ==
    /\ None \notin Workers
    /\ None \notin Accounts
    /\ MaxAttempts \in Nat \ {0}
    /\ MaxPostpone \in Nat
    /\ AutoRetry \in BOOLEAN
    /\ WatchdogCap \in Nat

Claimable == {"queued", "scheduled", "retry"}
Active    == Claimable \cup {"in_progress"}
Terminal  == {"done", "failed", "stuck"}

\* "absent" is a task no producer has enqueued yet.
Statuses == {"absent"} \cup Active \cup Terminal

TaskRow == [status    : Statuses,
            lockedBy  : Workers \cup {None},
            lease     : {"none", "live", "over"},
            late      : BOOLEAN,
            due       : BOOLEAN,
            acc       : Accounts \cup {None},
            attempts  : Nat,
            postpones : Nat,
            wdRetries : Nat]

-----------------------------------------------------------------------------
\* The row _INSERT_SQL writes.  run_after is the caller's or now().
Inserted(acc, due) ==
    [status |-> "queued", lockedBy |-> None, lease |-> "none", late |-> FALSE,
     due |-> due, acc |-> acc, attempts |-> 0, postpones |-> 0, wdRetries |-> 0]

\* locked_by, locked_at and locked_until := NULL.
\* Bug: locked_until is left behind.
UnlockedKeepingLease(r) == [r EXCEPT !.lockedBy = None, !.late = FALSE]
Unlocked(r) == [r EXCEPT !.lockedBy = None, !.lease = "none", !.late = FALSE]

\* WHERE of _CLAIM_NEXT_SQL and _CLAIM_BY_ID_SQL, the priority apart.
ClaimReady(r) == /\ r.status \in Claimable
                 /\ r.due
                 /\ r.lease # "live"

Claimed(r, w) == [r EXCEPT !.status = "in_progress", !.lockedBy = w,
                           !.lease = "live", !.late = FALSE]

\* The fence of every statement a worker finishes or edits its task with:
\* status = 'in_progress' AND locked_by = $n.
\* Bugs: the fence without locked_by, and no fence.
InProgressOnly(r, w) == r.status = "in_progress" /\ w \in Workers
NoFence(r, w) == r.status \in Statuses /\ w \in Workers
HeldBy(r, w) == /\ r.status = "in_progress"
                /\ r.lockedBy = w

Completed(r) == [Unlocked(r) EXCEPT !.status = "done"]

FailedRow(r) == [Unlocked(r) EXCEPT !.status = "failed"]

RetryRow(r) == [Unlocked(r) EXCEPT !.status = "retry", !.due = FALSE]

\* Bug: an off-by-one in the comparison with max_attempts.
RescheduledOffByOne(r) == IF r.attempts > MaxAttempts THEN FailedRow(r) ELSE RetryRow(r)
Rescheduled(r) == IF r.attempts >= MaxAttempts THEN FailedRow(r) ELSE RetryRow(r)

ScheduledRow(r) == [Unlocked(r) EXCEPT !.status = "scheduled", !.due = FALSE]

\* postpone(): _POSTPONE_LOCK_SQL, then _FAIL_SQL at the limit or _POSTPONE_SQL.
\* Bugs: the count is left alone; the postponement refunds an attempt.
PostponedUncounted(r) == IF r.postpones >= MaxPostpone THEN FailedRow(r) ELSE ScheduledRow(r)
PostponedRefunding(r) == [ScheduledRow(r) EXCEPT !.postpones = @ + 1, !.attempts = @ - 1]
Postponed(r) ==
    IF r.postpones >= MaxPostpone
    THEN FailedRow(r)
    ELSE [ScheduledRow(r) EXCEPT !.postpones = @ + 1]

BegunAttempt(r) == [r EXCEPT !.attempts = @ + 1]

-----------------------------------------------------------------------------
\* The CTE timed_out of _MARK_STUCK_TIMED_OUT_SQL.
\* Bug: the lease is not looked at.
TimedOutByAge(r) == r.status = "in_progress" /\ r.late
TimedOut(r) == /\ r.status = "in_progress"
               /\ r.late
               /\ r.lease # "live"

\* The CTE computed: G5 gives the task back only within both limits.
CanRetry(r) == /\ AutoRetry
               /\ r.wdRetries < WatchdogCap
               /\ r.attempts < MaxAttempts

\* The CTE marked.
\* Bugs: watchdog_retry_count is not incremented; the flag is not looked at.
MarkedUnflagged(r) == IF r.attempts < MaxAttempts THEN RetryRow(r) ELSE FailedRow(r)
MarkedUncounted(r) == IF CanRetry(r) THEN RetryRow(r) ELSE FailedRow(r)
Marked(r) ==
    IF ~AutoRetry
    THEN [Unlocked(r) EXCEPT !.status = "stuck"]
    ELSE IF CanRetry(r)
         THEN [RetryRow(r) EXCEPT !.wdRetries = @ + 1]
         ELSE FailedRow(r)
=============================================================================
