---------------------------- MODULE AccountsTable ----------------------------
(***************************************************************************)
(* The table accounts: one row per Telegram account, and the WHERE and SET *)
(* clauses of AccountsRepo (src/app_balance/queue/accounts.py) as predicates *)
(* and functions of a row.                                                 *)
(*                                                                         *)
(* task is current_task_id, the reservation; cooling is cooldown_until >   *)
(* now().  last_used_at only orders the candidates of a pick, and is       *)
(* abstracted to the freedom to pick any of them.                          *)
(***************************************************************************)
CONSTANTS Tasks,     \* task_queue.id
          Accounts,  \* accounts.id
          None       \* SQL NULL

DeadStatuses == {"banned", "disabled", "error"}

AccountRow == [task    : Tasks \cup {None},
               status  : {"active", "cooldown"} \cup DeadStatuses,
               enabled : BOOLEAN,
               cooling : BOOLEAN]

FreshAccount == [task |-> None, status |-> "active", enabled |-> TRUE,
                 cooling |-> FALSE]

\* An account the pool may hand to any task: the WHERE of _PICK_SQL without the
\* reservation.
Live(r) == /\ r.status \in {"active", "cooldown"}
           /\ r.enabled
           /\ ~r.cooling

\* WHERE of _PICK_FOR_UPDATE_SQL.
\* Bug: the reservation is not looked at.
PickableWhenBusy(r) == Live(r)
Pickable(r) == r.task = None /\ Live(r)

\* WHERE of _RESERVE_SQL: neither status nor is_enabled is looked at.
Reservable(r) == r.task = None /\ ~r.cooling

\* WHERE of _PAIR_LOCK_SQL, and the two _RESERVE_SQL that follow it.
PairReservable(source, target) ==
    /\ source.status \in DeadStatuses \/ Live(source)
    /\ Live(target)
    /\ Reservable(source)
    /\ Reservable(target)

-----------------------------------------------------------------------------
Picked(r, t) == [r EXCEPT !.task = t, !.status = "active"]

Reserved(r, t) == [r EXCEPT !.task = t]

\* _RELEASE_FOR_TASK_SQL: a compare-and-set on the task, not on the worker.
Released(r, t) == [r EXCEPT !.task = IF @ = t THEN None ELSE @]

\* _SET_COOLDOWN_SQL: only 'banned' survives it.
\* Bug: nothing survives it.
CooledDownAnyway(r) == [r EXCEPT !.cooling = TRUE, !.status = "cooldown"]
CooledDown(r) == [r EXCEPT !.cooling = TRUE,
                           !.status = IF @ = "banned" THEN @ ELSE "cooldown"]

\* _SET_BANNED_SQL.
Banned(r) == [r EXCEPT !.status = "banned", !.enabled = FALSE,
                       !.cooling = FALSE, !.task = None]

\* _SET_ACCOUNT_ERROR_SQL.
Errored(r) == IF r.status = "banned"
              THEN r
              ELSE [r EXCEPT !.status = "error", !.enabled = FALSE, !.task = None]

\* _REACTIVATE_FROM_ERROR_SQL.
Reactivated(r) == IF r.status = "error"
                  THEN [r EXCEPT !.status = "active", !.enabled = TRUE]
                  ELSE r

\* _CLEAR_EXPIRED_COOLDOWNS_SQL.
CooldownCleared(r) == IF r.status = "cooldown" /\ ~r.cooling
                      THEN [r EXCEPT !.status = "active"]
                      ELSE r
=============================================================================
