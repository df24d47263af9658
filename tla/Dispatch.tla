------------------------------ MODULE Dispatch ------------------------------
(***************************************************************************)
(* The queue workers: QueueWorker.run claims one task at a time and        *)
(* TaskDispatcher.dispatch carries it through reserve, assign, attempt,    *)
(* execute, settle and release (src/app_balance/queue_worker.py,           *)
(* src/app_balance/queue/dispatch.py).                                     *)
(*                                                                         *)
(* A step of a worker is one SQL statement (or one transaction) together   *)
(* with the code up to the next one, so every await on the database is a   *)
(* point where the other workers, the watchdog and the clock may act.      *)
(* What a worker keeps in memory between two statements - the snapshot of  *)
(* the row it claimed, reserved_ids, the exception it is handling - is in  *)
(* wk, and may be stale.                                                   *)
(***************************************************************************)
EXTENDS TasksTable

CONSTANTS
    Pinned,      \* [Tasks -> Accounts \cup {None}]: account_id given to enqueue
    Dual,        \* tasks whose type uses_two_accounts
    Source,      \* [Tasks -> Accounts \cup {None}]: source_account_id
    Target,      \* [Tasks -> Accounts \cup {None}]: target_account_id
    AutoPick,    \* tasks of the types in _AUTO_PICK_TASK_TYPES
    StayOnBusy,  \* tasks of _FIXED_ACCOUNT_NO_UNASSIGN_ON_BUSY_TASK_TYPES
    Enabled,     \* tasks whose type dispatch may find enabled
    Disabled,    \* ... and those whose type it may find disabled; an operator can
                 \* flip the flag at any time, so a task may be in both
    Priority,    \* [Tasks -> Int]
    Outcomes,    \* how adapter.execute may end
    MaxFaults    \* bound on crashes and failed statements

OutcomeKinds == {"success", "transient", "channels_too_much", "permanent",
                 "banned", "flood", "unauthorized", "resource"}

ASSUME DispatchAssumption ==
    /\ None \notin Tasks
    /\ Priority \in [Tasks -> Int]
    /\ Pinned \in [Tasks -> Accounts \cup {None}]
    /\ Source \in [Tasks -> Accounts \cup {None}]
    /\ Target \in [Tasks -> Accounts \cup {None}]
    /\ Outcomes \subseteq OutcomeKinds
    /\ {AutoPick, StayOnBusy, Dual} \subseteq SUBSET Tasks
    /\ Enabled \cup Disabled = Tasks
    /\ MaxFaults \in Nat

VARIABLES tasks,     \* [Tasks -> TaskRow]
          accounts,  \* [Accounts -> AccountRow]
          wk,        \* [Workers -> WorkerState]
          effects,   \* history: how often adapter.execute succeeded for a task
          faults     \* how many crashes and failed statements there were

vars == <<tasks, accounts, wk, effects, faults>>

WorkerPc == {"idle", "reserve", "check", "assign", "begin", "running",
             "sync", "unassign", "settle", "release"}

\* out is the exception (or the success) dispatch() is dealing with; "postponed"
\* and "unknown_type" are decided before the attempt, inside the try block.
WorkerState == [pc       : WorkerPc,
                task     : Tasks \cup {None},
                acc      : Accounts \cup {None},
                held     : SUBSET Accounts,
                rejected : SUBSET Accounts,
                out      : OutcomeKinds \cup {"none", "postponed", "unknown_type"}]

Idle == [pc |-> "idle", task |-> None, acc |-> None, held |-> {},
         rejected |-> {}, out |-> "none"]

-----------------------------------------------------------------------------
MyTask(w) == wk[w].task

\* The statement lands on the row only while the fence lets it.
Fenced(w, row) ==
    tasks' = IF HeldBy(tasks[MyTask(w)], w)
             THEN [tasks EXCEPT ![MyTask(w)] = row]
             ELSE tasks

Becomes(w, s) == wk' = [wk EXCEPT ![w] = s]

Goto(w, pc) == Becomes(w, [wk[w] EXCEPT !.pc = pc])

Fail(w, pc, out) == Becomes(w, [wk[w] EXCEPT !.pc = pc, !.out = out])

\* What dispatch() does last: `finally` releases reserved_ids, if there are any.
Leave(w) == Becomes(w, IF wk[w].held = {} THEN Idle
                                          ELSE [wk[w] EXCEPT !.pc = "release"])

\* execute_account: dual.target, or the one account that was reserved.
ExecuteAccount(w) == IF MyTask(w) \in Dual
                     THEN Target[MyTask(w)]
                     ELSE CHOOSE a \in wk[w].held : TRUE

-----------------------------------------------------------------------------
\* claim_next: a task of the highest priority that is ready, by any order.
ClaimNext(w, t) ==
    /\ wk[w].pc = "idle"
    /\ ClaimReady(tasks[t])
    /\ \A u \in Tasks : ClaimReady(tasks[u]) => Priority[u] <= Priority[t]
    /\ tasks' = [tasks EXCEPT ![t] = Claimed(@, w)]
    /\ Becomes(w, [Idle EXCEPT !.pc = "reserve", !.task = t, !.acc = tasks[t].acc])
    /\ UNCHANGED <<accounts, effects, faults>>

\* task_type is None or not task_type.is_enabled.
RefuseType(w) ==
    /\ wk[w].pc = "reserve"
    /\ MyTask(w) \in Disabled
    /\ Fail(w, "settle", "unknown_type")
    /\ UNCHANGED <<tasks, accounts, effects, faults>>

Reserving(w) == /\ wk[w].pc = "reserve"
                /\ MyTask(w) \in Enabled

\* _reserve_auto_pick_account: pick_and_reserve, the rejected ones excluded.
PickAccount(w) ==
    /\ Reserving(w)
    /\ MyTask(w) \notin Dual
    /\ wk[w].acc = None
    /\ \E a \in Accounts \ wk[w].rejected :
          /\ Pickable(accounts[a])
          /\ accounts' = [accounts EXCEPT ![a] = Picked(@, MyTask(w))]
          /\ Becomes(w, [wk[w] EXCEPT !.pc = "check", !.held = {a}])
    /\ UNCHANGED <<tasks, effects, faults>>

PickNone(w) ==
    /\ Reserving(w)
    /\ MyTask(w) \notin Dual
    /\ wk[w].acc = None
    /\ \A a \in Accounts \ wk[w].rejected : ~Pickable(accounts[a])
    /\ Fail(w, "settle", "postponed")
    /\ UNCHANGED <<tasks, accounts, effects, faults>>

\* _maybe_unassign_on_reserve_fail.
UnassignOnBusy(t) == t \in AutoPick \ (Dual \cup StayOnBusy)

\* _reserve_fixed_account: the account of the snapshot, which is the pinned one
\* or the one an earlier attempt was assigned.
ReserveFixed(w) ==
    LET a == wk[w].acc IN
    /\ Reserving(w)
    /\ MyTask(w) \notin Dual
    /\ a # None
    /\ IF Reservable(accounts[a])
       THEN /\ accounts' = [accounts EXCEPT ![a] = Reserved(@, MyTask(w))]
            /\ Becomes(w, [wk[w] EXCEPT !.pc = "check", !.held = {a}])
       ELSE /\ Fail(w, IF UnassignOnBusy(MyTask(w)) THEN "unassign" ELSE "settle",
                    "postponed")
            /\ UNCHANGED accounts
    /\ UNCHANGED <<tasks, effects, faults>>

\* The resource check and the pacer let the account through: it enters
\* reserved_ids.  Only a task whose snapshot has no account is assigned one.
CheckPasses(w) ==
    /\ wk[w].pc = "check"
    /\ Goto(w, IF wk[w].acc = None THEN "assign" ELSE "begin")
    /\ UNCHANGED <<tasks, accounts, effects, faults>>

\* They do not: the account is released, and an auto-pick tries the next one.
CheckRefuses(w) ==
    /\ wk[w].pc = "check"
    /\ \E a \in wk[w].held :
          /\ accounts' = [accounts EXCEPT ![a] = Released(@, MyTask(w))]
          /\ IF wk[w].acc = None
             THEN Becomes(w, [wk[w] EXCEPT !.pc = "reserve", !.held = {},
                                           !.rejected = @ \cup {a}])
             ELSE Becomes(w, [wk[w] EXCEPT !.pc = "settle", !.held = {},
                                           !.out = "postponed"])
    /\ UNCHANGED <<tasks, effects, faults>>

\* _reserve_dual_accounts: ids missing or equal, or a resource check fails.
DualRefused(w) ==
    /\ Reserving(w)
    /\ MyTask(w) \in Dual
    /\ Fail(w, "settle", "postponed")
    /\ UNCHANGED <<tasks, accounts, effects, faults>>

\* reserve_pair: both accounts in one transaction, or neither.
ReservePair(w) ==
    LET t == MyTask(w)
        s == Source[t]
        d == Target[t]
    IN
    /\ Reserving(w)
    /\ t \in Dual
    /\ s # None /\ d # None /\ s # d
    /\ IF PairReservable(accounts[s], accounts[d])
       THEN /\ accounts' = [accounts EXCEPT ![s] = Reserved(@, t),
                                            ![d] = Reserved(@, t)]
            /\ Becomes(w, [wk[w] EXCEPT !.pc = "begin", !.held = {s, d}])
       ELSE /\ Fail(w, "settle", "postponed")
            /\ UNCHANGED accounts
    /\ UNCHANGED <<tasks, effects, faults>>

AssignAccount(w) ==
    /\ wk[w].pc = "assign"
    /\ Fenced(w, [tasks[MyTask(w)] EXCEPT !.acc = ExecuteAccount(w)])
    /\ Goto(w, "begin")
    /\ UNCHANGED <<accounts, effects, faults>>

\* begin_execution_attempt raises ValueError when the lock is foreign, which the
\* last handler of dispatch() takes for any other error of the attempt.
BeginAttempt(w) ==
    /\ wk[w].pc = "begin"
    /\ Fenced(w, BegunAttempt(tasks[MyTask(w)]))
    /\ IF HeldBy(tasks[MyTask(w)], w)
       THEN Goto(w, "running")
       ELSE Fail(w, "settle", "transient")
    /\ UNCHANGED <<accounts, effects, faults>>

\* Where each outcome of adapter.execute goes first.
\* ACCOUNT_UNAUTHORIZED and CHANNELS_TOO_MUCH give an auto-pick task back its
\* freedom: _maybe_unassign_account_on_retry.
AfterSync(w, o) ==
    IF o \in {"channels_too_much", "unauthorized"} /\ MyTask(w) \in AutoPick \ Dual
    THEN "unassign"
    ELSE "settle"

Execute(w) ==
    /\ wk[w].pc = "running"
    /\ \E o \in Outcomes :
          /\ Fail(w, IF o \in {"banned", "flood", "unauthorized"}
                     THEN "sync" ELSE AfterSync(w, o), o)
          /\ effects' = IF o = "success" THEN [effects EXCEPT ![MyTask(w)] = @ + 1]
                                         ELSE effects
    /\ UNCHANGED <<tasks, accounts, faults>>

\* _sync_account_health_on_error.  An unauthorized session is marked 'error', or
\* 'banned' when Telegram reports a conflicting auth key.
SyncAccountHealth(w) ==
    LET a == ExecuteAccount(w)
        Mark(row) == accounts' = [accounts EXCEPT ![a] = row]
    IN
    /\ wk[w].pc = "sync"
    /\ \/ wk[w].out = "flood" /\ Mark(CooledDown(accounts[a]))
       \/ wk[w].out = "banned" /\ Mark(Banned(accounts[a]))
       \/ wk[w].out = "unauthorized" /\ Mark(Errored(accounts[a]))
       \/ wk[w].out = "unauthorized" /\ Mark(Banned(accounts[a]))
    /\ Goto(w, AfterSync(w, wk[w].out))
    /\ UNCHANGED <<tasks, effects, faults>>

UnassignAccount(w) ==
    /\ wk[w].pc = "unassign"
    /\ Fenced(w, [tasks[MyTask(w)] EXCEPT !.acc = None])
    /\ Goto(w, "settle")
    /\ UNCHANGED <<accounts, effects, faults>>

\* complete / postpone / fail / reschedule_or_fail.
Settled(r, o) ==
    CASE o = "success"                    -> Completed(r)
      [] o \in {"postponed", "resource"}  -> Postponed(r)
      [] o \in {"permanent", "banned"}    -> FailedRow(r)
      [] OTHER                            -> Rescheduled(r)

Settle(w) ==
    /\ wk[w].pc = "settle"
    /\ Fenced(w, Settled(tasks[MyTask(w)], wk[w].out))
    /\ Leave(w)
    /\ UNCHANGED <<accounts, effects, faults>>

\* finally: one release per reserved id, each a statement of its own.
ReleaseAccount(w) ==
    /\ wk[w].pc = "release"
    /\ \E a \in wk[w].held :
          /\ accounts' = [accounts EXCEPT ![a] = Released(@, MyTask(w))]
          /\ Becomes(w, IF wk[w].held = {a} THEN Idle
                                            ELSE [wk[w] EXCEPT !.held = @ \ {a}])
    /\ UNCHANGED <<tasks, effects, faults>>

-----------------------------------------------------------------------------
Fault == /\ faults < MaxFaults
         /\ faults' = faults + 1
         /\ UNCHANGED effects

\* The process dies between two statements.
Crash(w) ==
    /\ wk[w].pc # "idle"
    /\ Becomes(w, Idle)
    /\ Fault
    /\ UNCHANGED <<tasks, accounts>>

\* Shutdown gives up waiting and cancels the worker: no handler takes a
\* CancelledError, so `finally` is all that runs.
Cancelled(w) ==
    /\ wk[w].pc \notin {"idle", "release"}
    /\ IF wk[w].pc = "check" THEN Becomes(w, Idle) ELSE Leave(w)
    /\ Fault
    /\ UNCHANGED <<tasks, accounts>>

\* A statement raises inside the try block: the last handler reschedules.  The
\* account under check is not in reserved_ids yet, so no one will release it.
StatementFailsInTry(w) ==
    /\ \/ wk[w].pc \in {"reserve", "check", "assign", "begin"}
       \/ wk[w].pc = "settle" /\ wk[w].out \in {"success", "postponed", "unknown_type"}
    /\ Becomes(w, [wk[w] EXCEPT !.pc = "settle", !.out = "transient",
                                !.held = IF wk[w].pc = "check" THEN {} ELSE @])
    /\ Fault
    /\ UNCHANGED <<tasks, accounts>>

\* The attempt is counted and TaskAttemptsRepo.insert raises.
AttemptRowFails(w) ==
    /\ wk[w].pc = "begin"
    /\ HeldBy(tasks[MyTask(w)], w)
    /\ Fenced(w, BegunAttempt(tasks[MyTask(w)]))
    /\ Fail(w, "settle", "transient")
    /\ Fault
    /\ UNCHANGED accounts

\* The health sync and the unassign swallow their errors.
StatementFailsQuietly(w) ==
    /\ wk[w].pc \in {"sync", "unassign"}
    /\ Goto(w, IF wk[w].pc = "sync" THEN AfterSync(w, wk[w].out) ELSE "settle")
    /\ Fault
    /\ UNCHANGED <<tasks, accounts>>

\* A statement raises inside a handler: only `finally` is left.
StatementFailsInHandler(w) ==
    /\ wk[w].pc = "settle"
    /\ wk[w].out \notin {"success", "postponed", "unknown_type"}
    /\ Leave(w)
    /\ Fault
    /\ UNCHANGED <<tasks, accounts>>

\* A release raises inside `finally`: the rest of reserved_ids stays reserved.
ReleaseFails(w) ==
    /\ wk[w].pc = "release"
    /\ Becomes(w, Idle)
    /\ Fault
    /\ UNCHANGED <<tasks, accounts>>

WorkerStep(w) ==
    \/ \E t \in Tasks : ClaimNext(w, t)
    \/ RefuseType(w)
    \/ PickAccount(w)
    \/ PickNone(w)
    \/ ReserveFixed(w)
    \/ CheckPasses(w)
    \/ CheckRefuses(w)
    \/ DualRefused(w)
    \/ ReservePair(w)
    \/ AssignAccount(w)
    \/ BeginAttempt(w)
    \/ Execute(w)
    \/ SyncAccountHealth(w)
    \/ UnassignAccount(w)
    \/ Settle(w)
    \/ ReleaseAccount(w)

WorkerFault(w) ==
    \/ Crash(w)
    \/ Cancelled(w)
    \/ StatementFailsInTry(w)
    \/ AttemptRowFails(w)
    \/ StatementFailsQuietly(w)
    \/ StatementFailsInHandler(w)
    \/ ReleaseFails(w)
=============================================================================
