---------------------------- MODULE DirectLease ----------------------------
(***************************************************************************)
(* acquire_best_account_lease (src/app_balance/queue/account_lease.py):     *)
(* POST /discover-leads/direct takes an account without going through the   *)
(* queue.  The call inserts a task that is already in_progress, as the     *)
(* owner of the reservation, picks the best account for it, works in the    *)
(* HTTP handler and settles the task itself, beside the workers and the    *)
(* watchdog of Queue, which see an ordinary row.                            *)
(***************************************************************************)
EXTENDS Queue

CONSTANTS Leases,  \* the tasks that direct calls insert
          Direct   \* DIRECT_LEASE_LOCKED_BY, the locked_by they all share

ASSUME LeaseAssumption ==
    /\ Leases \subseteq Tasks
    /\ Direct \in Workers
    /\ \A t \in Leases : Pinned[t] = None

VARIABLE call  \* [Leases -> Call]: acquire_best_account_lease of each task

leaseVars == <<vars, call>>

\* acc is the local variable `account`, cand the account under the resource check,
\* which is not `account` yet.
Call == [pc       : {"new", "pick", "check", "assign", "use", "release", "close", "over"},
         acc      : Accounts \cup {None},
         cand     : Accounts \cup {None},
         rejected : SUBSET Accounts,
         success  : BOOLEAN]

NewCall == [pc |-> "new", acc |-> None, cand |-> None, rejected |-> {}, success |-> FALSE]

LeaseInit == Init /\ call = [t \in Leases |-> NewCall]

Proceed(t, c) == call' = [call EXCEPT ![t] = c]

\* `finally`: the account is released if the call has one, then the task closed.
Unwind(c, ok) == [c EXCEPT !.success = ok, !.cand = None,
                           !.pc = IF c.acc = None THEN "close" ELSE "release"]

-----------------------------------------------------------------------------
\* _insert_direct_lease_task.
InsertLease(t) ==
    /\ call[t].pc = "new"
    /\ tasks' = [tasks EXCEPT ![t] = Claimed(Inserted(None, TRUE), Direct)]
    /\ Proceed(t, [call[t] EXCEPT !.pc = "pick"])
    /\ UNCHANGED <<accounts, wk, effects, faults>>

\* pick_best_and_reserve; which account has the resource is left open.
PickBest(t) ==
    /\ call[t].pc = "pick"
    /\ \E a \in Accounts \ call[t].rejected :
          /\ Pickable(accounts[a])
          /\ accounts' = [accounts EXCEPT ![a] = Picked(@, t)]
          /\ Proceed(t, [call[t] EXCEPT !.pc = "check", !.cand = a])
    /\ UNCHANGED <<tasks, wk, effects, faults>>

\* NoAccountAvailableError.
PickNoBest(t) ==
    /\ call[t].pc = "pick"
    /\ Proceed(t, Unwind(call[t], FALSE))
    /\ UNCHANGED vars

\* check_account agrees: the candidate is `account` from here on.
Accept(t) ==
    /\ call[t].pc = "check"
    /\ Proceed(t, [call[t] EXCEPT !.pc = "assign", !.acc = call[t].cand])
    /\ UNCHANGED vars

Reject(t) ==
    LET a == call[t].cand IN
    /\ call[t].pc = "check"
    /\ accounts' = [accounts EXCEPT ![a] = Released(@, t)]
    /\ Proceed(t, [call[t] EXCEPT !.pc = "pick", !.cand = None, !.rejected = @ \cup {a}])
    /\ UNCHANGED <<tasks, wk, effects, faults>>

\* The fence of a direct call on its row.
LeaseFenced(t, row) ==
    tasks' = IF HeldBy(tasks[t], Direct) THEN [tasks EXCEPT ![t] = row] ELSE tasks

AssignLease(t) ==
    /\ call[t].pc = "assign"
    /\ LeaseFenced(t, [tasks[t] EXCEPT !.acc = call[t].acc])
    /\ Proceed(t, [call[t] EXCEPT !.pc = "use"])
    /\ UNCHANGED <<accounts, wk, effects, faults>>

\* The body of the `async with` ends, or raises.
EndUse(t) ==
    /\ call[t].pc = "use"
    /\ \E ok \in BOOLEAN : Proceed(t, Unwind(call[t], ok))
    /\ effects' \in {effects, [effects EXCEPT ![t] = @ + 1]}
    /\ UNCHANGED <<tasks, accounts, wk, faults>>

ReleaseLease(t) ==
    /\ call[t].pc = "release"
    /\ accounts' = [accounts EXCEPT ![call[t].acc] = Released(@, t)]
    /\ Proceed(t, [call[t] EXCEPT !.pc = "close"])
    /\ UNCHANGED <<tasks, wk, effects, faults>>

\* merge_payload and complete, or fail.
CloseLease(t) ==
    /\ call[t].pc = "close"
    /\ LeaseFenced(t, IF call[t].success THEN Completed(tasks[t]) ELSE FailedRow(tasks[t]))
    /\ Proceed(t, [call[t] EXCEPT !.pc = "over"])
    /\ UNCHANGED <<accounts, wk, effects, faults>>

-----------------------------------------------------------------------------
\* A statement raises or the client goes away: `finally` runs.
CallFails(t) ==
    /\ call[t].pc \in {"pick", "check", "assign", "use"}
    /\ Proceed(t, Unwind(call[t], FALSE))
    /\ Fault
    /\ UNCHANGED <<tasks, accounts, wk>>

\* The process dies, or a statement raises inside `finally`.
CallDies(t) ==
    /\ call[t].pc \notin {"new", "over"}
    /\ Proceed(t, [call[t] EXCEPT !.pc = "over"])
    /\ Fault
    /\ UNCHANGED <<tasks, accounts, wk>>

CallStep(t) ==
    \/ InsertLease(t)
    \/ PickBest(t)
    \/ PickNoBest(t)
    \/ Accept(t)
    \/ Reject(t)
    \/ AssignLease(t)
    \/ EndUse(t)
    \/ ReleaseLease(t)
    \/ CloseLease(t)

\* A step of Queue, where the direct calls have tasks of their own.
QueueStep ==
    /\ \/ \E t \in Tasks \ Leases : Enqueue(t)
       \/ \E w \in Workers \ {Direct} : WorkerStep(w) \/ WorkerFault(w)
       \/ ReleaseOrphanAccountLocks
       \/ MarkStuckTimedOut
       \/ ClearExpiredCooldowns
       \/ \E t \in Tasks : RunAfterPasses(t) \/ LeaseRunsOut(t) \/ TimeoutPasses(t)
       \/ \E a \in Accounts : CooldownPasses(a)
    /\ UNCHANGED call

LeaseNext == \/ QueueStep
             \/ \E t \in Leases : CallStep(t) \/ CallFails(t) \/ CallDies(t)

LeaseSpec == LeaseInit /\ [][LeaseNext]_leaseVars

\* A call that has begun goes on; the loops of Queue come round and time passes.
LeaseFairness ==
    /\ \A t \in Leases : WF_leaseVars(call[t].pc # "new" /\ CallStep(t))
    /\ \A w \in Workers \ {Direct} : WF_leaseVars(WorkerStep(w) /\ UNCHANGED call)
    /\ WF_leaseVars(ReleaseOrphanAccountLocks /\ UNCHANGED call)
    /\ WF_leaseVars(MarkStuckTimedOut /\ UNCHANGED call)
    /\ \A t \in Tasks : /\ WF_leaseVars(RunAfterPasses(t) /\ UNCHANGED call)
                        /\ WF_leaseVars(LeaseRunsOut(t) /\ UNCHANGED call)
                        /\ WF_leaseVars(TimeoutPasses(t) /\ UNCHANGED call)
    /\ \A a \in Accounts : WF_leaseVars(CooldownPasses(a) /\ UNCHANGED call)

FairLeaseSpec == LeaseSpec /\ LeaseFairness

-----------------------------------------------------------------------------
\* The account of a direct call.
LeaseHolds(t) == IF call[t].pc = "check" THEN call[t].cand ELSE call[t].acc

Leasing(t) == call[t].pc \in {"check", "assign", "use"}

\* As long as its lease has not run out, nobody takes the row or the account away
\* from a direct call at work, however late it is by task_timeout: "Иначе watchdog
\* убивает HTTP-lease ... и отпускает аккаунт у живого исполнителя"
\* (task_queue.py:544-546).
LeaseStands ==
    [][\A t \in Leases :
          Leasing(t) /\ call'[t] = call[t] /\ tasks[t].lease = "live" =>
             /\ accounts'[LeaseHolds(t)].task = t
             /\ HeldBy(tasks'[t], Direct)]_leaseVars

\* Until then no worker that holds its own task uses the account of a direct call.
LeaseExclusive ==
    \A t \in Leases, w \in Workers :
       Leasing(t) /\ tasks[t].lease = "live" /\ Using(w) /\ HeldBy(tasks[MyTask(w)], w)
          => LeaseHolds(t) \notin wk[w].held

\* "Worker claim (queued/scheduled/retry) эту задачу не подхватывает"
\* (account_lease.py:4-6).
LeaseNeverClaimed == \A t \in Leases : tasks[t].lockedBy \in {None, Direct}

\* No worker shares anything with a direct call, neither its account nor its row.
LeaseIsItsOwn == LeaseExclusive /\ LeaseNeverClaimed

\* A direct call, even one that dies, leaves neither a task in progress nor an
\* account reserved.
LeaseCleansUp ==
    \A t \in Leases :
       /\ tasks[t].status = "in_progress" ~> tasks[t].status \in Terminal
       /\ \A a \in Accounts : accounts[a].task = t ~> accounts[a].task # t
=============================================================================
