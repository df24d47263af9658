------------------------------ MODULE Resources ------------------------------
(***************************************************************************)
(* The hourly limits of one account: ResourceChecker.check_account          *)
(* (app_balance/queue/resource_check.py), the view                          *)
(* v_account_op_usage_last_hour, ResourceUsageRepo.record_for_task          *)
(* (resource_usage.py), AccountPacer (pacing.py), in the order in which     *)
(* _reserve_fixed_account, _reserve_auto_pick_account,                       *)
(* _reserve_dual_accounts and dispatch of the dispatcher call them.         *)
(*                                                                         *)
(* The check precedes the charges by several awaits.  A task for one        *)
(* account reserves it before the check, which keeps the others out, unless *)
(* the reservation ends under a task that outlives its lease.  A move       *)
(* checks first and reserves then: other tasks may charge in between.       *)
(***************************************************************************)
EXTENDS Integers, FiniteSets

CONSTANTS
    Runners,      \* workers of the process, each with a task for this account
    Kinds,        \* task types, a move in the role that the account has in it
    TwoAccounts,        \* those that use two accounts
    Paced,        \* _PACED_TASK_TYPES, or none when the pacer is off
    UsageOps,     \* the ops of these types
    OpsOf,        \* [Kinds -> SUBSET UsageOps]: task_type_ops
    ThresholdOf,  \* [Kinds -> 0 .. 100]: min_available_resource_percent
    UnitsOf,      \* [Kinds -> [UsageOps -> Nat]]: their units_per_execution
    MostUnits,    \* [UsageOps -> Nat]: the most of them
    RphOf,        \* [UsageOps -> Nat]: resource_op_types.rph_limit at the beginning
    Reserve,      \* reserve_percent
    Unreserved,   \* no task: current_task_id is NULL
    MaxOverruns   \* bound of the model: tasks that outlive their lease

ASSUME ResourcesAssumption ==
    /\ IsFiniteSet(Runners) /\ Unreserved \notin Runners
    /\ UnitsOf \in [Kinds -> [UsageOps -> Nat]] /\ MostUnits \in [UsageOps -> Nat]
    /\ \A k \in Kinds, o \in UsageOps : UnitsOf[k][o] <= MostUnits[o]
    /\ RphOf \in [UsageOps -> Nat] /\ Reserve \in 0 .. 100 /\ MaxOverruns \in Nat
    /\ TwoAccounts \subseteq Kinds /\ Paced \subseteq Kinds \ TwoAccounts
    /\ OpsOf \in [Kinds -> SUBSET UsageOps] /\ UsageOps = UNION {OpsOf[k] : k \in Kinds}
    /\ ThresholdOf \in [Kinds -> 0 .. 100]

VARIABLES
    rph,         \* [UsageOps -> Nat]
    disabledOps, \* the ops whose is_enabled is false
    used,        \* [UsageOps -> Nat]: units of the usage rows of the last hour
    holder,      \* accounts.current_task_id
    runner,      \* [Runners -> [pc, kind, ops, todo]]
    slotFree,    \* the pacer's interval for the account is over
    overruns     \* history: reservations taken from a running task

resourceVars == <<rph, disabledOps, used, holder, runner, slotFree, overruns>>

\* ops: the enabled ops of the task type as it was read; todo: those of them left.
NoRunner == [pc |-> "idle", kind |-> "none", ops |-> {}, todo |-> {}]
Turn(pc, kind, ops) == [pc |-> pc, kind |-> kind, ops |-> ops, todo |-> ops]

ResourcesInit ==
    /\ rph = RphOf /\ disabledOps = {} /\ used = [o \in UsageOps |-> 0]
    /\ holder = Unreserved /\ runner = [r \in Runners |-> NoRunner]
    /\ slotFree = TRUE /\ overruns = 0

-----------------------------------------------------------------------------
\* The view: effective_rph, used_last_hour, available_resource_percent in
\* hundredths, rounded.
Effective(limit) == (limit * (100 - Reserve)) \div 100

Hundredths(limit, spent) ==
    IF limit = 0 THEN 0
    ELSE (20000 * (limit - spent) + limit) \div (2 * limit)

\* One turn of check_account: an op that has been disabled is not in the view.
Available(o, kind) ==
    /\ o \notin disabledOps
    /\ Hundredths(Effective(rph[o]), used[o]) >= 100 * ThresholdOf[kind]

\* r has come past its reservation.
HasReserved(r) ==
    \/ runner[r].pc \in {"charge", "execute"}
    \/ runner[r].pc = "check" /\ runner[r].kind \notin TwoAccounts

\* The reservation ends if it still is of r's task.
LetAccountGo(r) == holder' = IF holder = r /\ HasReserved(r) THEN Unreserved ELSE holder

Leave(r) == runner' = [runner EXCEPT ![r] = NoRunner] /\ LetAccountGo(r)
Goes(r, pc) == runner' = [runner EXCEPT ![r] = Turn(pc, @.kind, @.ops)]

-----------------------------------------------------------------------------
\* dispatch reads the task type with its ops: a move checks first.
ReadTaskType(r) ==
    /\ runner[r].pc = "idle"
    /\ \E kind \in Kinds :
          LET pc == IF kind \in TwoAccounts THEN "check" ELSE "reserve"
          IN  runner' = [runner EXCEPT ![r] = Turn(pc, kind, OpsOf[kind] \ disabledOps)]
    /\ UNCHANGED <<rph, disabledOps, used, holder, slotFree, overruns>>

\* Bug: does not look whether the account has a task.
ReserveAnyway(r) ==
    /\ runner[r].pc = "reserve" /\ holder' = r
    /\ Goes(r, IF runner[r].kind \in TwoAccounts THEN "charge" ELSE "check")
    /\ UNCHANGED <<rph, disabledOps, used, slotFree, overruns>>

\* accounts.reserve or reserve_pair; the task is postponed when the account, or the
\* other one of a move, is taken or cools down.
ReserveAccount(r) ==
    /\ runner[r].pc = "reserve"
    /\ \/ /\ holder = Unreserved /\ holder' = r
          /\ Goes(r, IF runner[r].kind \in TwoAccounts THEN "charge" ELSE "check")
       \/ UNCHANGED holder /\ runner' = [runner EXCEPT ![r] = NoRunner]
    /\ UNCHANGED <<rph, disabledOps, used, slotFree, overruns>>

\* A query per op, any that is short of resource postpones the task, and so does
\* having no op at all.
CheckOp(r) ==
    /\ runner[r].pc = "check"
    /\ \/ \E o \in runner[r].todo :
             \/ Available(o, runner[r].kind) /\ UNCHANGED holder
                /\ runner' = [runner EXCEPT ![r].todo = @ \ {o}]
             \/ ~Available(o, runner[r].kind) /\ Leave(r)
       \/ runner[r].ops = {} /\ Leave(r)
    /\ UNCHANGED <<rph, disabledOps, used, slotFree, overruns>>

\* check_account has no op left: a move reserves its accounts, a paced task tries
\* to get a slot of the pacer.
TryAcquire(r) ==
    /\ runner[r].pc = "check" /\ runner[r].todo = {} /\ runner[r].ops # {}
    /\ \/ /\ runner[r].kind \notin Paced /\ UNCHANGED <<slotFree, holder>>
          /\ Goes(r, IF runner[r].kind \in TwoAccounts THEN "reserve" ELSE "charge")
       \/ /\ runner[r].kind \in Paced /\ slotFree /\ slotFree' = FALSE
          /\ UNCHANGED holder /\ Goes(r, "charge")
       \/ runner[r].kind \in Paced /\ ~slotFree /\ UNCHANGED slotFree /\ Leave(r)
    /\ UNCHANGED <<rph, disabledOps, used, overruns>>

\* record_for_task inserts the usage of each op on a connection of its own.
RecordUsage(r) ==
    /\ runner[r].pc = "charge"
    /\ \E o \in runner[r].todo :
          /\ used' = [used EXCEPT ![o] = @ + UnitsOf[runner[r].kind][o]]
          /\ IF runner[r].todo = {o}
             THEN Goes(r, "execute")
             ELSE runner' = [runner EXCEPT ![r].todo = @ \ {o}]
    /\ UNCHANGED <<rph, disabledOps, holder, slotFree, overruns>>

\* The adapter returns or raises, or anything before it raised.
AttemptEnds(r) ==
    /\ runner[r].pc \in {"check", "charge", "execute"}
    /\ Leave(r)
    /\ UNCHANGED <<rph, disabledOps, used, slotFree, overruns>>

\* The process dies: reservations stay, the pacer's memory does not.
ProcessDies ==
    /\ \E r \in Runners : runner[r].pc # "idle"
    /\ runner' = [r \in Runners |-> NoRunner]
    /\ slotFree' = TRUE
    /\ UNCHANGED <<rph, disabledOps, used, holder, overruns>>

\* The watchdog: the lease of the task that holds the account is over.  set_banned
\* ends the reservation the same way.
WatchdogFrees ==
    /\ holder # Unreserved
    /\ \/ ~HasReserved(holder) /\ UNCHANGED overruns
       \/ overruns < MaxOverruns /\ HasReserved(holder) /\ overruns' = overruns + 1
    /\ holder' = Unreserved
    /\ UNCHANGED <<rph, disabledOps, used, runner, slotFree>>

\* The oldest rows of an op become an hour old, however many units they have.
HourPasses ==
    /\ \E o \in UsageOps : \E units \in 1 .. used[o] :
          used' = [used EXCEPT ![o] = @ - units]
    /\ UNCHANGED <<rph, disabledOps, holder, runner, slotFree, overruns>>

\* The pacer's interval is over.
IntervalPasses ==
    /\ ~slotFree /\ slotFree' = TRUE
    /\ UNCHANGED <<rph, disabledOps, used, holder, runner, overruns>>

\* The error detector, module Detector.
LimitIsCut ==
    /\ \E o \in UsageOps : /\ rph[o] = RphOf[o]
                           /\ rph' = [rph EXCEPT ![o] = (@ * 7) \div 10]
    /\ UNCHANGED <<disabledOps, used, holder, runner, slotFree, overruns>>
OpIsDisabled ==
    /\ \E o \in UsageOps \ disabledOps : disabledOps' = disabledOps \cup {o}
    /\ UNCHANGED <<rph, used, holder, runner, slotFree, overruns>>

ResourcesNext ==
    \/ \E r \in Runners : \/ ReadTaskType(r) \/ ReserveAccount(r) \/ CheckOp(r)
                          \/ TryAcquire(r) \/ RecordUsage(r) \/ AttemptEnds(r)
    \/ ProcessDies \/ WatchdogFrees \/ HourPasses \/ IntervalPasses
    \/ LimitIsCut \/ OpIsDisabled

-----------------------------------------------------------------------------
ResourcesTypeOK ==
    /\ rph \in [UsageOps -> Nat] /\ used \in [UsageOps -> Nat]
    /\ disabledOps \subseteq UsageOps /\ holder \in Runners \cup {Unreserved}
    /\ runner \in [Runners -> [pc : {"idle", "reserve", "check", "charge", "execute"},
                               kind : Kinds \cup {"none"},
                               ops : SUBSET UsageOps, todo : SUBSET UsageOps]]
    /\ slotFree \in BOOLEAN /\ overruns \in 0 .. MaxOverruns

\* What the check for a task of this kind leaves of the limit to be used, half a
\* hundredth of a percent that the view rounds up included.
UsersOf(o) == {k \in Kinds : o \in OpsOf[k]}
Usable(o, kind) == (Effective(RphOf[o]) * (20001 - 200 * ThresholdOf[kind])) \div 20000

\* The tasks that may be between the check and the charge of o at a time: one, and
\* one for each attempt that lost its reservation; any number when a move uses o.
Racers(o) ==
    IF UsersOf(o) \cap TwoAccounts # {} THEN Cardinality(Runners) ELSE 1 + overruns

\* A threshold of 0 lets everything pass when nothing is left of the limit itself.
Limited(o) == Effective(rph[o]) > 0 \/ \A k \in UsersOf(o) : ThresholdOf[k] > 0

\* However checks, reservations, charges, lost leases and restarts interleave, an
\* account does no more of an op within an hour than the check allows, and once more
\* for each task that may be past its check: only the attempt in progress and those
\* that lost their reservation, unless moves use the op, which check before they
\* reserve and so may all have passed on the same rows.
HourlyLimit ==
    \A o \in UsageOps : Limited(o) =>
        \E k \in UsersOf(o) : used[o] <= Usable(o, k) + MostUnits[o] * Racers(o)
=============================================================================
