----------------------------- MODULE LeaseProofs -----------------------------
(***************************************************************************)
(* What a direct call relies on, for every number of tasks, direct calls,  *)
(* workers and accounts: as long as its lease stands, neither its row nor  *)
(* its account goes to anybody else.  The theorems are about a watchdog    *)
(* that does not give tasks back (~AutoRetry): one that does hands the row  *)
(* of a direct call to a worker.  What the workers rely on comes from      *)
(* QueueProofs, so they keep its hypotheses.  Beside them, of the row locks *)
(* that reservations take: that they never wait for each other in a cycle. *)
(***************************************************************************)
EXTENDS MCDirectLease, QueueProofs

-----------------------------------------------------------------------------
(* The inductive invariant.  LeaseIsItsOwn is not inductive: that a worker *)
(* never comes to the row rests on the row never being claimable, and that *)
(* no worker uses the account on the reservations of both sides.           *)

\* The row of a direct call: never queued, never a worker's.
LeaseRow(r) == /\ r.status \in {"absent", "in_progress"} \cup Terminal
               /\ r.lockedBy \in {None, Direct}

\* A call has the account its next statement names.
CallShape(c) == /\ c.pc = "check" => c.cand # None
                /\ c.pc \in {"assign", "use", "release"} => c.acc # None

\* The account of a call at work is reserved for it while the lease stands.
LeaseReserved(t) == Leasing(t) /\ tasks[t].lease = "live" =>
                       accounts[LeaseHolds(t)].task = t

NotTheirs == \A w \in Workers : wk[w].task \notin Leases

WorkersInv == TypeInv /\ LockDiscipline /\ ExclusiveInv

LeaseInv ==
    /\ WorkersInv
    /\ call \in [Leases -> Call]
    /\ \A t \in Leases : CallShape(call[t]) /\ LeaseRow(tasks[t]) /\ LeaseReserved(t)
    /\ NotTheirs

LeaseAssumed == /\ LeaseInv
                /\ ~AutoRetry /\ ~Overruns /\ ~HealthMonitor

LEMMA LeaseTasks == Leases \subseteq Tasks /\ Direct \in Workers /\ None \notin Leases
  BY LeaseAssumption, DispatchAssumption

LEMMA InitLeaseInv == LeaseInit => LeaseInv
  <1> SUFFICES ASSUME LeaseInit PROVE LeaseInv
    OBVIOUS
  <1>1. \A w \in Workers : wk[w].pc = "idle" /\ wk[w].task = None
    BY DEF LeaseInit, Init, Idle
  <1>2. ExclusiveInv
    BY <1>1 DEF ExclusiveInv, ClaimStands, OneWorkerPerTask, ReservationHolds,
                Relies, TargetInHand
  <1>3. TypeInv
    BY InitTypeInv DEF LeaseInit
  <1>4. \A t \in Tasks : tasks[t].status = "absent" /\ tasks[t].lockedBy = None
                        /\ tasks[t].lease = "none" /\ tasks[t].late = FALSE
    BY DEF LeaseInit, Init, Inserted
  <1>5. LockDiscipline
    BY <1>4 DEF LockDiscipline
  <1>6. call = [t \in Leases |-> NewCall] /\ NewCall \in Call
    BY DEF LeaseInit, NewCall, Call
  <1>7. \A t \in Leases : CallShape(call[t]) /\ LeaseRow(tasks[t]) /\ LeaseReserved(t)
    BY <1>4, <1>6, LeaseTasks DEF CallShape, LeaseRow, LeaseReserved, Leasing, NewCall
  <1>8. QED
    BY <1>1, <1>2, <1>3, <1>5, <1>6, <1>7, LeaseTasks DEF LeaseInv, WorkersInv, NotTheirs

\* What the lease tells of the row.
LEMMA LiveRow ==
    ASSUME LeaseInv, NEW t \in Leases, tasks[t].lease = "live"
    PROVE  HeldBy(tasks[t], Direct)
  BY LeaseTasks DEF LeaseInv, WorkersInv, LockDiscipline, LeaseRow, HeldBy

\* Only a task that is not a direct call's is reserved by a worker.
LEMMA NotHeldByWorker ==
    ASSUME LeaseInv, NEW t \in Leases, NEW a, accounts[a].task = t,
           NEW w \in Workers, Relies(wk[w])
    PROVE  a \notin wk[w].held
  BY DEF LeaseInv, NotTheirs, WorkersInv, ExclusiveInv, ReservationHolds

-----------------------------------------------------------------------------
(* The steps of the queue.                                                 *)

LEMMA QueueStepIsNext == QueueStep => Next /\ call' = call
  BY DEF QueueStep, Next

LEMMA QueueStepAssumed ==
    ASSUME LeaseAssumed, QueueStep \/ UNCHANGED leaseVars
    PROVE  Assumed /\ WorkersInv' /\ call' = call
  <1>1. [Next]_vars /\ call' = call
    BY QueueStepIsNext DEF leaseVars
  <1>2. Assumed
    BY <1>1 DEF Assumed, LeaseAssumed, LeaseInv, WorkersInv
  <1>3. ExclusiveInv'
    BY <1>2, NextClaimStands, NextOneWorkerPerTask, NextReservationHolds,
       NextTargetInHand DEF ExclusiveInv
  <1>4. TypeInv' /\ LockDiscipline'
    BY <1>2, NextTypeInv, NextLockDiscipline DEF Assumed
  <1>5. QED
    BY <1>1, <1>2, <1>3, <1>4 DEF WorkersInv

\* No worker writes a row that no one has inserted.
LEMMA WorkerLeavesAbsent ==
    ASSUME TypeInv, NEW w \in Workers, WorkerStep(w) \/ WorkerFault(w),
           NEW t \in Tasks, tasks[t].status = "absent"
    PROVE  tasks'[t] = tasks[t]
  <1>0. tasks \in [Tasks -> TaskRow]
    BY DEF TypeInv, TypeOK
  <1>1. ASSUME NEW row, Fenced(w, row)
        PROVE  tasks'[t] = tasks[t]
    BY <1>0, <1>1 DEF Fenced, HeldBy
  <1>2. ASSUME NEW u \in Tasks, ClaimNext(w, u)
        PROVE  tasks'[t] = tasks[t]
    BY <1>0, <1>2 DEF ClaimNext, ClaimReady, Claimable
  <1>3. CASE \/ AssignAccount(w) \/ BeginAttempt(w) \/ AttemptRowFails(w)
             \/ UnassignAccount(w) \/ Settle(w)
    BY <1>1, <1>3 DEF AssignAccount, BeginAttempt, AttemptRowFails, UnassignAccount, Settle
  <1>4. CASE \/ RefuseType(w) \/ PickAccount(w) \/ PickNone(w) \/ ReserveFixed(w)
             \/ CheckPasses(w) \/ CheckRefuses(w) \/ DualRefused(w)
             \/ ReservePair(w) \/ Execute(w) \/ SyncAccountHealth(w)
             \/ ReleaseAccount(w)
    BY <1>4 DEF RefuseType, PickAccount, PickNone, ReserveFixed, CheckPasses,
                CheckRefuses, DualRefused, ReservePair, Execute, SyncAccountHealth,
                ReleaseAccount
  <1>5. CASE \/ Crash(w) \/ Cancelled(w) \/ StatementFailsInTry(w)
             \/ StatementFailsQuietly(w) \/ StatementFailsInHandler(w) \/ ReleaseFails(w)
    BY <1>5 DEF Crash, Cancelled, StatementFailsInTry, StatementFailsQuietly,
                StatementFailsInHandler, ReleaseFails
  <1>6. QED
    BY <1>2, <1>3, <1>4, <1>5 DEF WorkerStep, WorkerFault

\* The producers of the queue never insert the task of a direct call, and nothing
\* else touches it before.
LEMMA AbsentStays ==
    ASSUME LeaseAssumed, QueueStep, NEW t \in Leases, tasks[t].status = "absent"
    PROVE  tasks'[t] = tasks[t]
  <1>0. t \in Tasks /\ tasks \in [Tasks -> TaskRow] /\ TypeInv
    BY LeaseTasks DEF LeaseAssumed, LeaseInv, WorkersInv, TypeInv, TypeOK
  <1>1. ASSUME NEW u \in Tasks \ Leases, Enqueue(u)
        PROVE  tasks'[t] = tasks[t]
    BY <1>0, <1>1 DEF Enqueue
  <1>2. ASSUME NEW w \in Workers, WorkerStep(w) \/ WorkerFault(w)
        PROVE  tasks'[t] = tasks[t]
    BY <1>0, <1>2, WorkerLeavesAbsent
  <1>3. CASE \/ ReleaseOrphanAccountLocks \/ ClearExpiredCooldowns
             \/ \E a \in Accounts : CooldownPasses(a)
    BY <1>3 DEF ReleaseOrphanAccountLocks, ClearExpiredCooldowns, CooldownPasses
  <1>4. CASE MarkStuckTimedOut
    BY <1>0, <1>4 DEF MarkStuckTimedOut, TimedOut
  <1>5. ASSUME NEW u \in Tasks, RunAfterPasses(u) \/ TimeoutPasses(u)
        PROVE  tasks'[t] = tasks[t]
    BY <1>0, <1>5 DEF RunAfterPasses, TimeoutPasses, Claimable
  <1>6. ASSUME NEW u \in Tasks, LeaseRunsOut(u)
        PROVE  tasks'[t] = tasks[t]
    <2>1. tasks[t].lease # "live"
      BY <1>0 DEF LeaseAssumed, LeaseInv, WorkersInv, LockDiscipline
    <2>2. QED
      BY <1>0, <1>6, <2>1 DEF LeaseRunsOut
  <1>7. QED
    BY <1>1, <1>2, <1>3, <1>4, <1>5, <1>6 DEF QueueStep

\* The queue lets the row of a direct call time out, and no more.
LEMMA QueueLeaseRow ==
    ASSUME LeaseAssumed, QueueStep \/ UNCHANGED leaseVars, NEW t \in Leases
    PROVE  /\ LeaseRow(tasks'[t])
           /\ tasks'[t].lease = "live" => tasks[t].lease = "live"
           /\ tasks[t].lease = "live" => HeldBy(tasks'[t], Direct)
  <1> DEFINE r == tasks[t]
             q == tasks'[t]
  <1>1. r \in TaskRow /\ RowStep(t) /\ t \in Tasks
    BY NextRowSteps, QueueStepAssumed, LeaseTasks
       DEF Assumed, RowSteps, TypeInv, TypeOK
  <1>2. LeaseRow(r) /\ (r.lease = "live" => HeldBy(r, Direct))
    BY LiveRow DEF LeaseAssumed, LeaseInv
  <1>3. CASE r.status = "absent"
    <2>1. q = r
      BY <1>3, AbsentStays DEF leaseVars, vars
    <2>2. QED
      BY <1>2, <2>1
  <1>4. CASE r.status # "absent"
    <2>1. r.status \notin Claimable /\ ~ClaimReady(r)
      BY <1>2, <1>4 DEF LeaseRow, Terminal, Claimable, ClaimReady
    <2>2. ~ \E w \in Workers : wk[w].task = t
      BY DEF LeaseAssumed, LeaseInv, NotTheirs
    <2>3. CASE q = r
      BY <1>2, <2>3
    <2>4. CASE q = [r EXCEPT !.lease = "over"] \/ q = [r EXCEPT !.late = TRUE]
      BY <1>1, <1>2, <2>4 DEF LeaseRow, HeldBy, TaskRow
    <2>5. CASE TimedOut(r) /\ q = Marked(r)
      <3>1. q = [Unlocked(r) EXCEPT !.status = "stuck"] /\ r.lease # "live"
        BY <2>5 DEF Marked, TimedOut, LeaseAssumed
      <3>2. q.status = "stuck" /\ q.lockedBy = None /\ q.lease = "none"
        BY <1>1, <3>1 DEF Unlocked, TaskRow
      <3>3. QED
        BY <3>1, <3>2 DEF LeaseRow, Terminal
    <2>6. QED
      BY <1>1, <1>4, <2>1, <2>2, <2>3, <2>4, <2>5 DEF RowStep
  <1>5. QED
    BY <1>3, <1>4

\* The queue leaves the reservation of a call whose lease stands alone.
LEMMA QueueLeaseAccount ==
    ASSUME LeaseAssumed, QueueStep \/ UNCHANGED leaseVars, NEW t \in Leases,
           NEW a \in Accounts, accounts[a].task = t, tasks[t].lease = "live"
    PROVE  accounts'[a].task = t
  <1> DEFINE r == accounts[a]
             q == accounts'[a]
  <1>1. r \in AccountRow /\ AccountStep(a) /\ t # None /\ Assumed
    BY NextAccountSteps, QueueStepAssumed, LeaseTasks
       DEF Assumed, AccountSteps, TypeInv, TypeOK
  <1>2. ASSUME NEW w \in Workers, q = Released(r, wk[w].task)
        PROVE  q.task = t
    BY <1>1, <1>2 DEF Released, AccountRow, LeaseAssumed, LeaseInv, NotTheirs
  <1>3. ASSUME NEW w \in Workers, wk[w].pc = "sync", a = ExecuteAccount(w)
        PROVE  FALSE
    <2>1. a \in wk[w].held
      BY <1>1, <1>3 DEF ExecuteAccount, MyTask, Assumed, ExclusiveInv, TargetInHand,
                        TypeInv, WorkerShape, Shape
    <2>2. QED
      BY <1>3, <2>1, NotHeldByWorker DEF LeaseAssumed, Relies
  <1>4. tasks[t].status = "in_progress" /\ ~TimedOut(tasks[t])
    BY LiveRow DEF HeldBy, TimedOut, LeaseAssumed
  <1>5. CASE q \in {CooldownCleared(r), [r EXCEPT !.cooling = FALSE]}
    BY <1>1, <1>5 DEF CooldownCleared, AccountRow
  <1>6. CASE q = r
    BY <1>6
  <1>7. QED
    BY <1>1, <1>2, <1>3, <1>4, <1>5, <1>6 DEF AccountStep, LeaseAssumed

\* A call names an account.
LEMMA HoldsAccount ==
    ASSUME LeaseInv, NEW t \in Leases, Leasing(t)
    PROVE  LeaseHolds(t) \in Accounts
  <1>1. call[t] \in Call /\ CallShape(call[t])
    BY DEF LeaseInv
  <1>2. QED
    BY <1>1 DEF Leasing, LeaseHolds, Call, CallShape

LEMMA QueueLeaseInv ==
    ASSUME LeaseAssumed, QueueStep \/ UNCHANGED leaseVars
    PROVE  LeaseInv'
  <1>1. Assumed /\ WorkersInv' /\ call' = call
    BY QueueStepAssumed
  <1>2. call' \in [Leases -> Call] /\ \A t \in Leases : CallShape(call'[t])
    BY <1>1 DEF LeaseAssumed, LeaseInv
  <1>3. ASSUME NEW t \in Leases
        PROVE  LeaseRow(tasks'[t]) /\ LeaseReserved(t)'
    <2>1. LeaseRow(tasks'[t]) /\ (tasks'[t].lease = "live" => tasks[t].lease = "live")
      BY QueueLeaseRow
    <2>2. ASSUME Leasing(t), tasks[t].lease = "live"
          PROVE  accounts'[LeaseHolds(t)].task = t
      BY <2>2, HoldsAccount, QueueLeaseAccount
         DEF LeaseAssumed, LeaseInv, LeaseReserved
    <2>3. LeaseHolds(t)' = LeaseHolds(t) /\ Leasing(t)' = Leasing(t)
      BY <1>1 DEF LeaseHolds, Leasing
    <2>4. QED
      BY <2>1, <2>2, <2>3 DEF LeaseReserved
  <1>4. ASSUME NEW w \in Workers
        PROVE  wk'[w].task \notin Leases
    <2>1. WorkerMove(w) /\ Shape(wk'[w])
      BY <1>1, NextWorkerMove DEF Assumed, WorkersInv, TypeInv, WorkerShape
    <2>2. CASE wk'[w].pc = "idle"
      BY <2>1, <2>2, LeaseTasks DEF Shape
    <2>3. CASE wk'[w].task = wk[w].task
      BY <2>3 DEF LeaseAssumed, LeaseInv, NotTheirs
    <2>4. CASE ClaimReady(tasks[wk'[w].task])
      BY <2>4 DEF ClaimReady, Claimable, LeaseAssumed, LeaseInv, LeaseRow, Terminal
    <2>5. QED
      BY <2>1, <2>2, <2>3, <2>4 DEF WorkerMove
  <1>5. QED
    BY <1>1, <1>2, <1>3, <1>4 DEF LeaseInv, NotTheirs

-----------------------------------------------------------------------------
(* The steps of the direct calls.                                          *)

\* A row that a direct call writes: its own, as its own.
OwnRow(r) == LeaseRow(r) /\ r \in TaskRow
             /\ (r.status = "in_progress" <=> r.lockedBy # None)
             /\ (r.status = "in_progress" <=> r.lease # "none")
             /\ (r.late => r.status = "in_progress")

\* What a direct call does to the tables: its own row, and a reservation taken from
\* nobody or given back.
CallWrites(t) ==
    /\ \/ tasks' = tasks
       \/ \E r : OwnRow(r) /\ tasks' = [tasks EXCEPT ![t] = r]
    /\ \/ accounts' = accounts
       \/ \E a \in Accounts : /\ accounts[a].task = None
                             /\ accounts' = [accounts EXCEPT ![a] = Picked(@, t)]
       \/ \E a \in Accounts : accounts' = [accounts EXCEPT ![a] = Released(@, t)]
    /\ wk' = wk
    /\ effects' \in {effects, [effects EXCEPT ![t] = @ + 1]}
    /\ faults' \in {faults, faults + 1}
    /\ \E c : call' = [call EXCEPT ![t] = c] /\ c \in Call /\ CallShape(c)

\* What a call writes under its fence is a row of its own.
LEMMA OwnRows ==
    ASSUME LeaseInv, NEW t \in Leases, HeldBy(tasks[t], Direct)
    PROVE  /\ \A a \in Accounts : OwnRow([tasks[t] EXCEPT !.acc = a])
           /\ OwnRow(Completed(tasks[t]))
           /\ OwnRow(FailedRow(tasks[t]))
  <1> DEFINE r == tasks[t]
  <1>1. /\ r \in TaskRow
        /\ r.status = "in_progress" /\ r.lockedBy = Direct /\ r.lease # "none"
        /\ Direct # None
    BY LeaseTasks, TableAssumption
       DEF LeaseInv, WorkersInv, TypeInv, TypeOK, LockDiscipline, HeldBy
  <1>2. ASSUME NEW a \in Accounts
        PROVE  OwnRow([r EXCEPT !.acc = a])
    <2>1. [r EXCEPT !.acc = a] \in TaskRow
      BY <1>1, TaskRows
    <2>2. QED
      BY <1>1, <2>1 DEF OwnRow, LeaseRow, TaskRow
  <1>3. OwnRow(Completed(r)) /\ OwnRow(FailedRow(r))
    <2>1. Completed(r) \in TaskRow /\ FailedRow(r) \in TaskRow
      BY <1>1, TaskRows
    <2>2. /\ Completed(r).status = "done" /\ FailedRow(r).status = "failed"
          /\ Completed(r).lockedBy = None /\ FailedRow(r).lockedBy = None
          /\ Completed(r).lease = "none" /\ FailedRow(r).lease = "none"
          /\ Completed(r).late = FALSE /\ FailedRow(r).late = FALSE
      BY <1>1 DEF Completed, FailedRow, Unlocked, TaskRow
    <2>3. QED
      BY <2>1, <2>2 DEF OwnRow, LeaseRow, Terminal
  <1>4. QED
    BY <1>2, <1>3

\* The row a call inserts.
LEMMA InsertedRow == OwnRow(Claimed(Inserted(None, TRUE), Direct))
  <1> DEFINE r == Inserted(None, TRUE)
  <1>1. r \in TaskRow
    BY DEF Inserted, TaskRow, Statuses, Active, Claimable
  <1>2. Claimed(r, Direct) \in TaskRow
    BY <1>1, LeaseTasks, TaskRows
  <1>3. /\ Claimed(r, Direct).status = "in_progress"
        /\ Claimed(r, Direct).lockedBy = Direct
        /\ Claimed(r, Direct).lease = "live"
        /\ Claimed(r, Direct).late = FALSE
    BY DEF Inserted, Claimed
  <1>4. Direct # None
    BY LeaseTasks, TableAssumption
  <1>5. QED
    BY <1>2, <1>3, <1>4 DEF OwnRow, LeaseRow

\* Where a call goes when it gives up.
LEMMA UnwindShape ==
    ASSUME NEW c \in Call, NEW ok \in BOOLEAN
    PROVE  /\ Unwind(c, ok) \in Call
           /\ CallShape(Unwind(c, ok))
           /\ Unwind(c, ok).pc \in {"close", "release"}
  BY DEF Unwind, Call, CallShape

\* Each step of a call: what it writes, and where the call is after it.
LEMMA CallMoves ==
    ASSUME LeaseInv, NEW t \in Leases, CallStep(t) \/ CallFails(t) \/ CallDies(t)
    PROVE  /\ CallWrites(t)
           /\ call'[t] # call[t]
           /\ call'[t].pc \in {"assign", "use"} =>
                 /\ Leasing(t) /\ LeaseHolds(t)' = LeaseHolds(t)
                 /\ accounts' = accounts /\ (tasks'[t].lease = "live" => tasks[t].lease = "live")
           /\ call'[t].pc = "check" => accounts'[call'[t].cand].task = t
  <1> DEFINE c == call[t]
             Moved(d) == /\ call' = [call EXCEPT ![t] = d]
                         /\ d \in Call /\ CallShape(d) /\ d.pc # c.pc
             Out(d) == Moved(d) /\ d.pc \notin {"check", "assign", "use"}
             Goal == /\ CallWrites(t)
                     /\ call'[t] # call[t]
                     /\ call'[t].pc \in {"assign", "use"} =>
                           /\ Leasing(t) /\ LeaseHolds(t)' = LeaseHolds(t)
                           /\ accounts' = accounts
                           /\ (tasks'[t].lease = "live" => tasks[t].lease = "live")
                     /\ call'[t].pc = "check" => accounts'[call'[t].cand].task = t
  <1>0. /\ c \in Call /\ CallShape(c) /\ call \in [Leases -> Call] /\ t \in Tasks
        /\ accounts \in [Accounts -> AccountRow] /\ tasks \in [Tasks -> TaskRow]
        /\ tasks[t] \in TaskRow
    BY LeaseTasks DEF LeaseInv, WorkersInv, TypeInv, TypeOK
  <1>m. ASSUME NEW d, Moved(d) PROVE call'[t] = d /\ d # c
    BY <1>0, <1>m
  <1>n. ASSUME NEW d, Out(d), CallWrites(t) PROVE Goal
    BY <1>n, <1>m
  <1>1. CASE InsertLease(t)
    <2> DEFINE d == [c EXCEPT !.pc = "pick"]
    <2>1. Out(d)
      BY <1>0, <1>1 DEF InsertLease, Proceed, Call, CallShape
    <2>2. CallWrites(t)
      BY <1>1, <2>1, InsertedRow DEF InsertLease, CallWrites
    <2>3. QED
      BY <1>n, <2>1, <2>2
  <1>2. CASE PickBest(t)
    <2>1. PICK a \in Accounts : /\ Pickable(accounts[a])
                               /\ accounts' = [accounts EXCEPT ![a] = Picked(@, t)]
                               /\ Proceed(t, [c EXCEPT !.pc = "check", !.cand = a])
      BY <1>2 DEF PickBest
    <2> DEFINE d == [c EXCEPT !.pc = "check", !.cand = a]
    <2>2. Moved(d) /\ d.pc = "check" /\ d.cand = a
      BY <1>0, <1>2, <2>1, TableAssumption DEF PickBest, Proceed, Call, CallShape
    <2>3. CallWrites(t)
      BY <1>2, <2>1, <2>2 DEF PickBest, CallWrites, Pickable
    <2>4. accounts'[a].task = t
      BY <1>0, <2>1 DEF Picked, AccountRow
    <2>5. QED
      BY <1>m, <2>2, <2>3, <2>4
  <1>3. CASE PickNoBest(t)
    <2>1. Out(Unwind(c, FALSE))
      BY <1>0, <1>3, UnwindShape DEF PickNoBest, Proceed
    <2>2. CallWrites(t)
      BY <1>3, <2>1 DEF PickNoBest, CallWrites, vars
    <2>3. QED
      BY <1>n, <2>1, <2>2
  <1>4. CASE Accept(t)
    <2> DEFINE d == [c EXCEPT !.pc = "assign", !.acc = c.cand]
    <2>1. Moved(d) /\ d.pc = "assign" /\ d.acc = c.cand
      BY <1>0, <1>4 DEF Accept, Proceed, Call, CallShape
    <2>2. CallWrites(t) /\ accounts' = accounts /\ tasks' = tasks
      BY <1>4, <2>1 DEF Accept, CallWrites, vars
    <2>3. Leasing(t) /\ LeaseHolds(t) = c.cand
      BY <1>4 DEF Accept, Leasing, LeaseHolds
    <2>4. LeaseHolds(t)' = c.cand
      BY <1>m, <2>1 DEF LeaseHolds
    <2>5. QED
      BY <1>m, <2>1, <2>2, <2>3, <2>4
  <1>5. CASE Reject(t)
    <2> DEFINE a == c.cand
               d == [c EXCEPT !.pc = "pick", !.cand = None, !.rejected = @ \cup {a}]
    <2>1. a \in Accounts
      BY <1>0, <1>5 DEF Reject, Call, CallShape
    <2>2. Out(d)
      BY <1>0, <1>5, <2>1 DEF Reject, Proceed, Call, CallShape
    <2>3. CallWrites(t)
      BY <1>5, <2>1, <2>2 DEF Reject, CallWrites
    <2>4. QED
      BY <1>n, <2>2, <2>3
  <1>6. CASE AssignLease(t)
    <2> DEFINE d == [c EXCEPT !.pc = "use"]
    <2>1. Moved(d) /\ d.pc = "use" /\ d.acc = c.acc /\ c.pc = "assign"
      BY <1>0, <1>6 DEF AssignLease, Proceed, Call, CallShape
    <2>2. c.acc \in Accounts
      BY <1>0, <2>1 DEF Call, CallShape
    <2>3. \/ tasks' = tasks
          \/ /\ HeldBy(tasks[t], Direct)
             /\ tasks' = [tasks EXCEPT ![t] = [tasks[t] EXCEPT !.acc = c.acc]]
      BY <1>6 DEF AssignLease, LeaseFenced
    <2>4. tasks'[t].lease = tasks[t].lease
      BY <1>0, <2>3 DEF TaskRow
    <2>5. CallWrites(t) /\ accounts' = accounts
      BY <1>6, <2>1, <2>2, <2>3, OwnRows DEF AssignLease, CallWrites
    <2>6. Leasing(t) /\ LeaseHolds(t) = c.acc /\ LeaseHolds(t)' = c.acc
      BY <1>m, <2>1 DEF Leasing, LeaseHolds
    <2>7. QED
      BY <1>m, <2>1, <2>4, <2>5, <2>6
  <1>7. CASE EndUse(t)
    <2>1. PICK ok \in BOOLEAN : Proceed(t, Unwind(c, ok))
      BY <1>7 DEF EndUse
    <2>2. Out(Unwind(c, ok))
      BY <1>0, <1>7, <2>1, UnwindShape DEF EndUse, Proceed
    <2>3. CallWrites(t)
      BY <1>7, <2>2 DEF EndUse, CallWrites
    <2>4. QED
      BY <1>n, <2>2, <2>3
  <1>8. CASE ReleaseLease(t)
    <2> DEFINE d == [c EXCEPT !.pc = "close"]
    <2>1. Out(d) /\ c.pc = "release"
      BY <1>0, <1>8 DEF ReleaseLease, Proceed, Call, CallShape
    <2>2. c.acc \in Accounts
      BY <1>0, <2>1 DEF Call, CallShape
    <2>3. CallWrites(t)
      BY <1>8, <2>1, <2>2 DEF ReleaseLease, CallWrites
    <2>4. QED
      BY <1>n, <2>1, <2>3
  <1>9. CASE CloseLease(t)
    <2> DEFINE d == [c EXCEPT !.pc = "over"]
    <2>1. Out(d)
      BY <1>0, <1>9 DEF CloseLease, Proceed, Call, CallShape
    <2>2. \/ tasks' = tasks
          \/ /\ HeldBy(tasks[t], Direct)
             /\ \/ tasks' = [tasks EXCEPT ![t] = Completed(tasks[t])]
                \/ tasks' = [tasks EXCEPT ![t] = FailedRow(tasks[t])]
      BY <1>9 DEF CloseLease, LeaseFenced
    <2>4. CallWrites(t)
      BY <1>9, <2>1, <2>2, OwnRows DEF CloseLease, CallWrites
    <2>5. QED
      BY <1>n, <2>1, <2>4
  <1>10. CASE CallFails(t)
    <2>1. Out(Unwind(c, FALSE))
      BY <1>0, <1>10, UnwindShape DEF CallFails, Proceed
    <2>2. CallWrites(t)
      BY <1>10, <2>1 DEF CallFails, CallWrites, Fault
    <2>3. QED
      BY <1>n, <2>1, <2>2
  <1>11. CASE CallDies(t)
    <2> DEFINE d == [c EXCEPT !.pc = "over"]
    <2>1. Out(d)
      BY <1>0, <1>11 DEF CallDies, Proceed, Call, CallShape
    <2>2. CallWrites(t)
      BY <1>11, <2>1 DEF CallDies, CallWrites, Fault
    <2>3. QED
      BY <1>n, <2>1, <2>2
  <1>12. QED
    BY <1>1, <1>2, <1>3, <1>4, <1>5, <1>6, <1>7, <1>8, <1>9, <1>10, <1>11 DEF CallStep

\* A direct call takes no account that is reserved for another task, and gives back
\* only its own.
LEMMA OthersKeepReservations ==
    ASSUME LeaseInv, NEW t \in Leases, CallWrites(t)
    PROVE  /\ accounts' \in [Accounts -> AccountRow]
           /\ \A a \in Accounts : accounts[a].task \notin {None, t} =>
                                     accounts'[a].task = accounts[a].task
  <1>0. accounts \in [Accounts -> AccountRow] /\ t \in Tasks \cup {None}
    BY LeaseTasks DEF LeaseInv, WorkersInv, TypeInv, TypeOK
  <1>1. CASE accounts' = accounts
    BY <1>0, <1>1
  <1>2. ASSUME NEW b \in Accounts, accounts[b].task = None,
               accounts' = [accounts EXCEPT ![b] = Picked(@, t)]
        PROVE  /\ accounts' \in [Accounts -> AccountRow]
               /\ \A a \in Accounts : accounts[a].task \notin {None, t} =>
                                         accounts'[a].task = accounts[a].task
    <2>1. Picked(accounts[b], t) \in AccountRow
      BY <1>0, AccountRows
    <2>2. QED
      BY <1>0, <1>2, <2>1
  <1>3. ASSUME NEW b \in Accounts, accounts' = [accounts EXCEPT ![b] = Released(@, t)]
        PROVE  /\ accounts' \in [Accounts -> AccountRow]
               /\ \A a \in Accounts : accounts[a].task \notin {None, t} =>
                                         accounts'[a].task = accounts[a].task
    <2>1. Released(accounts[b], t) \in AccountRow
      BY <1>0, AccountRows
    <2>2. accounts[b].task # t => Released(accounts[b], t).task = accounts[b].task
      BY <1>0 DEF Released, AccountRow
    <2>3. QED
      BY <1>0, <1>3, <2>1, <2>2
  <1>4. QED
    BY <1>1, <1>2, <1>3 DEF CallWrites

\* Nor does it write another row, and its own stays its own.
LEMMA OthersKeepRows ==
    ASSUME LeaseInv, NEW t \in Leases, CallWrites(t)
    PROVE  /\ tasks' \in [Tasks -> TaskRow]
           /\ \A u \in Tasks : u # t => tasks'[u] = tasks[u]
           /\ LockDiscipline'
           /\ LeaseRow(tasks'[t])
  <1>0. tasks \in [Tasks -> TaskRow] /\ t \in Tasks /\ LockDiscipline /\ LeaseRow(tasks[t])
    BY LeaseTasks DEF LeaseInv, WorkersInv, TypeInv, TypeOK
  <1>1. CASE tasks' = tasks
    BY <1>0, <1>1 DEF LockDiscipline
  <1>2. ASSUME NEW r, OwnRow(r), tasks' = [tasks EXCEPT ![t] = r]
        PROVE  /\ tasks' \in [Tasks -> TaskRow]
               /\ \A u \in Tasks : u # t => tasks'[u] = tasks[u]
               /\ LockDiscipline'
               /\ LeaseRow(tasks'[t])
    <2>1. /\ tasks' \in [Tasks -> TaskRow] /\ tasks'[t] = r
          /\ \A u \in Tasks : u # t => tasks'[u] = tasks[u]
      BY <1>0, <1>2 DEF OwnRow
    <2>2. LockDiscipline'
      BY <1>0, <1>2, <2>1 DEF LockDiscipline, OwnRow
    <2>3. QED
      BY <1>2, <2>1, <2>2 DEF OwnRow
  <1>3. QED
    BY <1>1, <1>2 DEF CallWrites

\* The workers rely on nothing that a direct call writes.
LEMMA WorkersUntouched ==
    ASSUME LeaseInv, NEW t \in Leases, CallWrites(t)
    PROVE  WorkersInv' /\ NotTheirs'
  <1>0. wk' = wk /\ TypeInv /\ ExclusiveInv /\ NotTheirs
    BY DEF CallWrites, LeaseInv, WorkersInv
  <1>1. TypeInv'
    <2>1. effects' \in [Tasks -> Nat] /\ faults' \in Nat
      BY <1>0, LeaseTasks DEF CallWrites, TypeInv, TypeOK
    <2>2. QED
      BY <1>0, <2>1, OthersKeepRows, OthersKeepReservations
         DEF TypeInv, TypeOK, WorkerShape
  <1>2. ASSUME NEW w \in Workers, wk[w].pc # "idle"
        PROVE  /\ wk[w].task \in Tasks \ {t, None}
               /\ tasks'[wk[w].task] = tasks[wk[w].task]
    <2>1. wk[w].task \in Tasks \ {t, None}
      BY <1>0, <1>2, DispatchAssumption
         DEF NotTheirs, TypeInv, TypeOK, WorkerShape, Shape, WorkerState
    <2>2. QED
      BY <2>1, OthersKeepRows
  <1>3. ASSUME NEW w \in Workers
        PROVE  ClaimStands(w)'
    BY <1>0, <1>2, <1>3 DEF ExclusiveInv, ClaimStands, Leased
  <1>4. ASSUME NEW w \in Workers
        PROVE  ReservationHolds(w)'
    <2>1. ASSUME Relies(wk[w]), NEW a \in wk[w].held
          PROVE  accounts'[a].task = wk[w].task
      <3>1. accounts[a].task = wk[w].task /\ wk[w].task \notin {None, t}
        BY <1>0, <1>2, <2>1 DEF ExclusiveInv, ReservationHolds, Relies
      <3>2. a \in Accounts
        BY <1>0, <2>1 DEF TypeInv, TypeOK, WorkerState
      <3>3. QED
        BY <3>1, <3>2, OthersKeepReservations
    <2>2. QED
      BY <1>0, <2>1 DEF ReservationHolds
  <1>5. OneWorkerPerTask' /\ \A w \in Workers : TargetInHand(w)'
    BY <1>0 DEF ExclusiveInv, OneWorkerPerTask, TargetInHand
  <1>6. QED
    BY <1>0, <1>1, <1>3, <1>4, <1>5, OthersKeepRows
       DEF WorkersInv, ExclusiveInv, NotTheirs

\* A step of one direct call leaves another's reservation alone.
LEMMA OtherLeaseAccount ==
    ASSUME LeaseInv, NEW t \in Leases, CallWrites(t), NEW u \in Leases, u # t,
           Leasing(u), tasks[u].lease = "live"
    PROVE  accounts'[LeaseHolds(u)].task = u
  <1>1. LeaseHolds(u) \in Accounts
    BY HoldsAccount
  <1>2. accounts[LeaseHolds(u)].task = u /\ u # None
    BY LeaseTasks DEF LeaseInv, LeaseReserved
  <1>3. QED
    BY <1>1, <1>2, OthersKeepReservations

LEMMA CallLeaseInv ==
    ASSUME LeaseInv, NEW t \in Leases, CallStep(t) \/ CallFails(t) \/ CallDies(t)
    PROVE  LeaseInv'
  <1>1. CallWrites(t)
    BY CallMoves
  <1>2. PICK c : call' = [call EXCEPT ![t] = c] /\ c \in Call /\ CallShape(c)
    BY <1>1 DEF CallWrites
  <1>3. /\ call' \in [Leases -> Call] /\ call'[t] = c
        /\ \A u \in Leases : u # t => call'[u] = call[u]
    BY <1>2 DEF LeaseInv
  <1>4. WorkersInv' /\ NotTheirs'
    BY <1>1, WorkersUntouched
  <1>5. ASSUME NEW u \in Leases, u # t
        PROVE  CallShape(call'[u]) /\ LeaseRow(tasks'[u]) /\ LeaseReserved(u)'
    <2>1. call'[u] = call[u] /\ tasks'[u] = tasks[u]
      BY <1>1, <1>3, <1>5, OthersKeepRows, LeaseTasks
    <2>2. Leasing(u)' = Leasing(u) /\ LeaseHolds(u)' = LeaseHolds(u)
      BY <2>1 DEF Leasing, LeaseHolds
    <2>3. LeaseReserved(u)'
      BY <1>1, <1>5, <2>1, <2>2, OtherLeaseAccount DEF LeaseReserved
    <2>4. QED
      BY <2>1, <2>3 DEF LeaseInv
  <1>6. LeaseReserved(t)'
    <2>1. SUFFICES ASSUME call'[t].pc \in {"check", "assign", "use"},
                          tasks'[t].lease = "live"
                   PROVE  accounts'[IF call'[t].pc = "check" THEN call'[t].cand
                                                             ELSE call'[t].acc].task = t
      BY DEF LeaseReserved, Leasing, LeaseHolds
    <2>2. CASE call'[t].pc = "check"
      BY <2>2, CallMoves
    <2>3. CASE call'[t].pc \in {"assign", "use"}
      <3>1. /\ Leasing(t) /\ LeaseHolds(t)' = LeaseHolds(t)
            /\ accounts' = accounts /\ tasks[t].lease = "live"
        BY <2>1, <2>3, CallMoves
      <3>2. accounts[LeaseHolds(t)].task = t
        BY <3>1 DEF LeaseInv, LeaseReserved
      <3>3. LeaseHolds(t)' = call'[t].acc
        BY <2>3 DEF LeaseHolds
      <3>4. QED
        BY <2>3, <3>1, <3>2, <3>3
    <2>4. QED
      BY <2>1, <2>2, <2>3
  <1>7. CallShape(call'[t]) /\ LeaseRow(tasks'[t])
    BY <1>1, <1>2, <1>3, OthersKeepRows
  <1>8. QED
    BY <1>3, <1>4, <1>5, <1>6, <1>7 DEF LeaseInv

-----------------------------------------------------------------------------
(* The theorems.                                                           *)

LEMMA NextLeaseInv ==
    ASSUME ~AutoRetry, ~Overruns, ~HealthMonitor
    PROVE  LeaseInv /\ [LeaseNext]_leaseVars => LeaseInv'
  <1> SUFFICES ASSUME LeaseInv, [LeaseNext]_leaseVars PROVE LeaseInv'
    OBVIOUS
  <1>1. LeaseAssumed
    BY DEF LeaseAssumed
  <1>2. QED
    BY <1>1, QueueLeaseInv, CallLeaseInv DEF LeaseNext

LEMMA LeaseInvariant ==
    ASSUME ~AutoRetry, ~Overruns, ~HealthMonitor
    PROVE  LeaseSpec => []LeaseInv
  BY InitLeaseInv, NextLeaseInv, PTL DEF LeaseSpec

\* acquire_best_account_lease shares nothing with the workers: no worker ever claims
\* its row ("Worker claim ... эту задачу не подхватывает", account_lease.py:4-6), and
\* while its lease stands none that holds its own task uses its account.
THEOREM LeasesAreTheirOwn ==
    ASSUME ~AutoRetry, ~Overruns, ~HealthMonitor
    PROVE  LeaseSpec => []LeaseIsItsOwn
  <1>1. LeaseInv => LeaseIsItsOwn
    <2> SUFFICES ASSUME LeaseInv PROVE LeaseIsItsOwn
      OBVIOUS
    <2>1. LeaseNeverClaimed
      BY DEF LeaseInv, LeaseRow, LeaseNeverClaimed
    <2>2. LeaseExclusive
      <3> SUFFICES ASSUME NEW t \in Leases, NEW w \in Workers, Leasing(t),
                          tasks[t].lease = "live", Using(w)
                   PROVE  LeaseHolds(t) \notin wk[w].held
        BY DEF LeaseExclusive
      <3>1. accounts[LeaseHolds(t)].task = t
        BY DEF LeaseInv, LeaseReserved
      <3>2. Relies(wk[w])
        BY DEF Using, Relies
      <3>3. QED
        BY <3>1, <3>2, NotHeldByWorker
    <2>3. QED
      BY <2>1, <2>2 DEF LeaseIsItsOwn
  <1>2. QED
    BY <1>1, LeaseInvariant, PTL

\* No step of the workers, of the watchdog or of another direct call takes the row
\* or the account from a direct call whose lease stands, however late it is by
\* task_timeout (task_queue.py:544-546).
THEOREM LeasesStand ==
    ASSUME ~AutoRetry, ~Overruns, ~HealthMonitor
    PROVE  LeaseSpec => LeaseStands
  <1> DEFINE Stands == \A t \in Leases :
                Leasing(t) /\ call'[t] = call[t] /\ tasks[t].lease = "live" =>
                   /\ accounts'[LeaseHolds(t)].task = t
                   /\ HeldBy(tasks'[t], Direct)
  <1>1. LeaseInv /\ [LeaseNext]_leaseVars => Stands
    <2> SUFFICES ASSUME LeaseInv, [LeaseNext]_leaseVars, NEW t \in Leases,
                        Leasing(t), call'[t] = call[t], tasks[t].lease = "live"
                 PROVE  /\ accounts'[LeaseHolds(t)].task = t
                        /\ HeldBy(tasks'[t], Direct)
      OBVIOUS
    <2>1. CASE QueueStep \/ UNCHANGED leaseVars
      <3>1. LeaseAssumed
        BY DEF LeaseAssumed
      <3>2. accounts[LeaseHolds(t)].task = t /\ LeaseHolds(t) \in Accounts
        BY HoldsAccount DEF LeaseInv, LeaseReserved
      <3>3. QED
        BY <2>1, <3>1, <3>2, QueueLeaseRow, QueueLeaseAccount
    <2>2. ASSUME NEW u \in Leases, CallStep(u) \/ CallFails(u) \/ CallDies(u)
          PROVE  /\ accounts'[LeaseHolds(t)].task = t
                 /\ HeldBy(tasks'[t], Direct)
      <3>1. CallWrites(u) /\ u # t
        BY <2>2, CallMoves
      <3>2. tasks'[t] = tasks[t]
        BY <3>1, OthersKeepRows, LeaseTasks
      <3>3. QED
        BY <3>1, <3>2, OtherLeaseAccount, LiveRow
    <2>3. QED
      BY <2>1, <2>2 DEF LeaseNext
  <1>2. LeaseInv /\ [LeaseNext]_leaseVars => [Stands]_leaseVars
    BY <1>1
  <1>3. QED
    BY <1>2, LeaseInvariant, PTL DEF LeaseSpec, LeaseStands

-----------------------------------------------------------------------------
\* The row locks of accounts.

\* The specification of the row locks by themselves.
LocksSpec == LocksInit /\ [][LocksNext]_locksVars

Kinds == {"none", "pair", "update", "pick", "sync", "sweep", "stuck"}

Connection == [kind : Kinds, stmts : Seq(Seq(Rows)), runs : BOOLEAN, held : SUBSET Rows,
               old : BOOLEAN, client : BOOLEAN]

MonitorTick == [pc : {"off", "sleep", "cool", "reap", "kill"}, mode : {"alerts", "detector", "all"},
                doomed : SUBSET AllSessions]

\* What the statements of a reservation, a pick and a mark still lock: a pair takes its
\* rows in the order of their ids, the others want no row while they hold one.
LockOrder(c) ==
    /\ c.runs => c.stmts # <<>>
    /\ c.kind \in {"none", "pick"} => ~c.runs /\ c.stmts = <<>>
    /\ c.kind = "none" => c.held = {}
    /\ c.kind = "update" =>
          /\ c.runs
          /\ c.stmts = <<<<>>>> \/ (c.held = {} /\ \E r \in Rows : c.stmts = <<<<r>>>>)
    /\ c.kind = "pair" =>
          \/ ~c.runs /\ c.stmts = <<>>
          \/ c.stmts = <<<<>>>>
          \/ \E a, b \in Rows : a < b /\ (\/ c.stmts = <<<<a, b>>>> /\ c.held = {}
                                          \/ c.stmts = <<<<b>>>> /\ c.held = {a})

\* A row is locked by one session at a time.
OneHolder == \A s, h \in AllSessions : s # h => conn[s].held \cap conn[h].held = {}

LocksInv ==
    /\ conn \in [AllSessions -> Connection]
    /\ \A s \in AllSessions : LockOrder(conn[s])
    /\ OneHolder
    /\ tick \in MonitorTick

LEMMA NoOperationIdle ==
    NoOperation \in Connection /\ NoOperation.held = {} /\ LockOrder(NoOperation)
  BY DEF NoOperation, Connection, Kinds, LockOrder

\* The row a session wants next is the head of its statement.
LEMMA Wanted ==
    ASSUME LocksInv, NEW s \in AllSessions
    PROVE  /\ Wants(s) # {} => /\ conn[s].runs /\ conn[s].stmts # <<>>
                               /\ conn[s].stmts[1] \in Seq(Rows) /\ conn[s].stmts[1] # <<>>
                               /\ Wants(s) = {conn[s].stmts[1][1]}
           /\ Wants(s) \subseteq Rows
  <1>1. conn[s] \in Connection /\ LockOrder(conn[s])
    BY DEF LocksInv
  <1> DEFINE q == conn[s].stmts
  <1>2. q \in Seq(Seq(Rows))
    BY <1>1 DEF Connection
  <1>3. CASE conn[s].runs /\ Head(q) # <<>>
    <2>1. q # <<>>
      BY <1>1, <1>3 DEF LockOrder
    <2>2. q[1] \in Seq(Rows) /\ Head(q) = q[1]
      BY <1>2, <2>1
    <2>3. Wants(s) = {Head(q[1])} /\ q[1] # <<>>
      BY <1>3, <2>2 DEF Wants
    <2>4. Head(q[1]) = q[1][1] /\ q[1][1] \in Rows
      BY <2>2, <2>3
    <2>5. QED
      BY <1>3, <2>1, <2>2, <2>3, <2>4
  <1>4. CASE ~(conn[s].runs /\ Head(q) # <<>>)
    BY <1>4 DEF Wants
  <1>5. QED
    BY <1>3, <1>4

\* One session changes, to locks nobody else has.
LEMMA OneTurns ==
    ASSUME LocksInv, NEW s \in AllSessions, NEW c \in Connection, Turns(s, c), LockOrder(c),
           \A h \in AllSessions : h # s => conn[h].held \cap c.held = {},
           tick' \in MonitorTick
    PROVE  LocksInv'
  <1>1. /\ conn' = [conn EXCEPT ![s] = c] /\ conn \in [AllSessions -> Connection]
    BY DEF Turns, LocksInv
  <1>2. /\ conn' \in [AllSessions -> Connection] /\ conn'[s] = c
        /\ \A h \in AllSessions : h # s => conn'[h] = conn[h]
    BY <1>1
  <1>3. \A h \in AllSessions : LockOrder(conn[h])'
    <2>1. ASSUME NEW h \in AllSessions PROVE LockOrder(conn'[h])
      BY <1>2 DEF LocksInv
    <2>2. QED
      BY <2>1 DEF LockOrder
  <1>4. OneHolder'
    <2>1. ASSUME NEW g \in AllSessions, NEW h \in AllSessions, g # h
          PROVE  conn'[g].held \cap conn'[h].held = {}
      <3>1. CASE g = s
        BY <1>2, <2>1, <3>1
      <3>2. CASE h = s
        BY <1>2, <2>1, <3>2
      <3>3. CASE g # s /\ h # s
        BY <1>2, <2>1, <3>3 DEF LocksInv, OneHolder
      <3>4. QED
        BY <3>1, <3>2, <3>3
    <2>2. QED
      BY <2>1 DEF OneHolder
  <1>5. QED
    BY <1>2, <1>3, <1>4 DEF LocksInv

\* It holds no more than it did.
LEMMA HoldsNoMore ==
    ASSUME LocksInv, NEW s \in AllSessions, NEW c \in Connection, Turns(s, c), LockOrder(c),
           c.held \subseteq conn[s].held, tick' \in MonitorTick
    PROVE  LocksInv'
  <1>1. \A h \in AllSessions : h # s => conn[h].held \cap c.held = {}
    BY DEF LocksInv, OneHolder
  <1>2. QED
    BY <1>1, OneTurns

LEMMA TransactionEnds ==
    ASSUME LocksInv, NEW s \in AllSessions, Turns(s, NoOperation),
           tick' \in MonitorTick
    PROVE  LocksInv'
  BY NoOperationIdle, HoldsNoMore

LEMMA OperationBegins ==
    ASSUME LocksInv, NEW s \in AllSessions, NEW kind \in Kinds, NEW q \in Seq(Seq(Rows)),
           Turns(s, Opened(kind, q)), LockOrder(Opened(kind, q)), tick' \in MonitorTick
    PROVE  LocksInv'
  <1>1. Opened(kind, q) \in Connection /\ Opened(kind, q).held = {}
    BY DEF Opened, NoOperation, Connection, Kinds
  <1>2. QED
    BY <1>1, HoldsNoMore

\* What the operations are when they begin.
LEMMA OperationShapes ==
    ASSUME NEW c \in Operations
    PROVE  c \in Connection /\ c.held = {} /\ LockOrder(c)
  <1> DEFINE IsOpened(kind, q) == c = Opened(kind, q)
  <1>0. ASSUME NEW kind \in Kinds, NEW q \in Seq(Seq(Rows)), c = Opened(kind, q)
        PROVE  /\ c \in Connection /\ c.held = {} /\ c.kind = kind /\ c.stmts = q /\ c.runs
    BY <1>0 DEF Opened, NoOperation, Connection, Kinds
  <1>1. ASSUME NEW p \in Rows \X Rows, p[1] # p[2], c = Opened("pair", <<PairLock(p[1], p[2])>>)
        PROVE  c \in Connection /\ c.held = {} /\ LockOrder(c)
    <2>1. PICK a \in Rows, b \in Rows : a < b /\ PairLock(p[1], p[2]) = <<a, b>>
      <3>1. p[1] \in Nat /\ p[2] \in Nat /\ p[1] \in Rows /\ p[2] \in Rows
        BY RowLocksAssumption
      <3>2. CASE p[1] < p[2]
        BY <3>1, <3>2 DEF PairLock
      <3>3. CASE ~(p[1] < p[2])
        <4>1. p[2] < p[1]
          BY <1>1, <3>1, <3>3
        <4>2. QED
          BY <3>1, <3>3, <4>1 DEF PairLock
      <3>4. QED
        BY <3>2, <3>3
    <2>2. <<<<a, b>>>> \in Seq(Seq(Rows)) /\ "pair" \in Kinds
      BY DEF Kinds
    <2>3. /\ c \in Connection /\ c.held = {} /\ c.kind = "pair" /\ c.stmts = <<<<a, b>>>>
          /\ c.runs
      BY <1>0, <1>1, <2>1, <2>2
    <2>4. <<<<a, b>>>> # <<>>
      OBVIOUS
    <2>5. QED
      BY <2>1, <2>3, <2>4 DEF LockOrder
  <1>2. ASSUME NEW r \in Rows, c = Opened("update", <<<<r>>>>)
        PROVE  c \in Connection /\ c.held = {} /\ LockOrder(c)
    <2>1. <<<<r>>>> \in Seq(Seq(Rows)) /\ "update" \in Kinds /\ <<<<r>>>> # <<>>
      BY DEF Kinds
    <2>2. /\ c \in Connection /\ c.held = {} /\ c.kind = "update" /\ c.stmts = <<<<r>>>>
          /\ c.runs
      BY <1>0, <1>2, <2>1
    <2>3. QED
      BY <2>1, <2>2 DEF LockOrder
  \* A set of several rows, in some order.
  <1>3. ASSUME NEW R \in Several, NEW q \in Orders(R)
        PROVE  /\ Cardinality(R) \in Nat /\ Cardinality(R) > 1 /\ DOMAIN q = 1 .. Cardinality(R)
               /\ q \in Seq(Rows) /\ Len(q) = Cardinality(R)
    <2>1. R \in SUBSET Rows /\ Cardinality(R) > 1
      BY DEF Several
    <2>2. Cardinality(R) \in Nat
      BY <2>1, RowLocksAssumption, FS_Subset, FS_CardinalityType
    <2>3. q \in [1 .. Cardinality(R) -> R]
      BY DEF Orders
    <2>4. QED
      BY <2>1, <2>2, <2>3
  <1>4. ASSUME NEW R \in Several, NEW q \in Orders(R),
               c = Opened("sync", [i \in DOMAIN q |-> <<q[i]>>])
        PROVE  c \in Connection /\ c.held = {} /\ LockOrder(c)
    <2> DEFINE g == [i \in DOMAIN q |-> <<q[i]>>]
               n == Cardinality(R)
    <2>1. n \in Nat /\ n > 1 /\ DOMAIN q = 1 .. n /\ q \in Seq(Rows) /\ Len(q) = n
      BY <1>3
    <2> HIDE DEF n
    <2>2. \A i \in 1 .. n : <<q[i]>> \in Seq(Rows)
      BY <2>1
    <2>3. g \in [1 .. n -> Seq(Rows)]
      BY <2>1, <2>2
    <2> HIDE DEF g
    <2>4. g \in Seq(Seq(Rows)) /\ Len(g) = n
      BY <2>1, <2>3
    <2>5. g # <<>> /\ "sync" \in Kinds
      BY <2>1, <2>4 DEF Kinds
    <2>6. /\ c \in Connection /\ c.held = {} /\ c.kind = "sync" /\ c.stmts = g /\ c.runs
      BY <1>0, <1>4, <2>4, <2>5 DEF g
    <2>7. QED
      BY <2>5, <2>6 DEF LockOrder
  <1>5. ASSUME NEW k \in {"sweep", "stuck"}, NEW R \in Several, NEW q \in Orders(R),
               c = Opened(k, <<q>>)
        PROVE  c \in Connection /\ c.held = {} /\ LockOrder(c)
    <2>1. q \in Seq(Rows)
      BY <1>3
    <2>2. <<q>> \in Seq(Seq(Rows)) /\ k \in Kinds /\ <<q>> # <<>>
      BY <2>1 DEF Kinds
    <2>3. /\ c \in Connection /\ c.held = {} /\ c.kind = k /\ c.stmts = <<q>> /\ c.runs
      BY <1>0, <1>5, <2>2
    <2>4. QED
      BY <2>2, <2>3 DEF LockOrder
  <1>6. \/ \E p \in Rows \X Rows : p[1] # p[2] /\ c = Opened("pair", <<PairLock(p[1], p[2])>>)
        \/ \E r \in Rows : c = Opened("update", <<<<r>>>>)
        \/ \E R \in Several : \E q \in Orders(R) : c = Opened("sync", [i \in DOMAIN q |-> <<q[i]>>])
        \/ \E R \in Several : \E q \in Orders(R) :
              c = Opened("sweep", <<q>>) \/ c = Opened("stuck", <<q>>)
    <2>1. \A q \in OrdersOfSeveral : \E R \in Several : q \in Orders(R)
      BY DEF OrdersOfSeveral
    <2>2. \/ c \in {Opened("pair", <<PairLock(p[1], p[2])>>) :
                       p \in {o \in Rows \X Rows : o[1] # o[2]}}
          \/ c \in {Opened("update", <<<<r>>>>) : r \in Rows}
          \/ c \in {Opened("sync", [i \in DOMAIN q |-> <<q[i]>>]) :
                       q \in {o \in OrdersOfSeveral : ByName(o)}}
          \/ c \in {Opened("sweep", <<q>>) : q \in OrdersOfSeveral}
          \/ c \in {Opened("stuck", <<q>>) : q \in OrdersOfSeveral}
      BY DEF Operations
    <2>3. QED
      BY <2>1, <2>2, Zenon
  <1>7. QED
    BY <1>1, <1>2, <1>4, <1>5, <1>6

LEMMA LocksStep ==
    ASSUME LocksInv, [LocksNext]_locksVars
    PROVE  LocksInv'
  <1>0. /\ \A s \in AllSessions : conn[s] \in Connection /\ LockOrder(conn[s])
        /\ tick \in MonitorTick /\ Sessions \subseteq AllSessions
        /\ Monitor \in AllSessions
    BY DEF LocksInv, AllSessions
  <1>1. ASSUME NEW s \in AllSessions, Begin(s)
        PROVE  LocksInv'
    <2>1. PICK c \in Operations : Turns(s, c)
      BY <1>1 DEF Begin
    <2>2. c \in Connection /\ c.held = {} /\ LockOrder(c) /\ tick' = tick
      BY <1>1, OperationShapes DEF Begin
    <2>3. QED
      BY <1>0, <2>1, <2>2, HoldsNoMore
  <1>2. ASSUME NEW s \in AllSessions, PickAndReserve(s)
        PROVE  LocksInv'
    <2>1. PICK r \in Rows : ~Locked(r) /\ Turns(s, [Opened("pick", <<>>) EXCEPT
                                                       !.held = {r}, !.runs = FALSE])
      BY <1>2 DEF PickAndReserve
    <2> DEFINE o == Opened("pick", <<>>)
               c == [o EXCEPT !.held = {r}, !.runs = FALSE]
    <2>2. /\ c \in Connection /\ c.kind = "pick" /\ ~c.runs /\ c.stmts = <<>> /\ c.held = {r}
      <3>1. <<>> \in Seq(Seq(Rows)) /\ "pick" \in Kinds /\ {r} \in SUBSET Rows
        BY DEF Kinds
      <3>2. o \in Connection /\ o.kind = "pick" /\ o.stmts = <<>>
        BY <3>1 DEF Opened, NoOperation, Connection
      <3> HIDE DEF o
      <3>3. QED
        BY <3>1, <3>2 DEF Connection
    <2> HIDE DEF c
    <2>3. LockOrder(c) /\ \A h \in AllSessions : h # s => conn[h].held \cap c.held = {}
      BY <2>1, <2>2 DEF LockOrder, Locked
    <2>4. QED
      BY <1>0, <1>2, <2>1, <2>2, <2>3, OneTurns DEF PickAndReserve, c, o
  <1>3. ASSUME NEW s \in AllSessions, TakesLock(s)
        PROVE  LocksInv'
    <2> DEFINE t == conn[s]
               q == t.stmts
               new == [t EXCEPT !.held = t.held \cup Wants(s), !.stmts = [q EXCEPT ![1] = Tail(q[1])]]
    <2>1. /\ Wants(s) # {} /\ Turns(s, new) /\ tick' = tick /\ t \in Connection /\ LockOrder(t)
          /\ \A h \in AllSessions : h # s => conn[h].held \cap Wants(s) = {}
      BY <1>0, <1>3 DEF TakesLock, Waits, Blocks
    <2>2. /\ t.runs /\ q # <<>> /\ q[1] \in Seq(Rows) /\ q[1] # <<>> /\ Wants(s) = {q[1][1]}
          /\ Wants(s) \subseteq Rows /\ q \in Seq(Seq(Rows))
      BY <2>1, Wanted DEF Connection
    <2> DEFINE g == [q EXCEPT ![1] = Tail(q[1])]
    <2>3. g \in Seq(Seq(Rows)) /\ g # <<>> /\ Len(g) = Len(q) /\ g[1] = Tail(q[1])
      <3>1. Tail(q[1]) \in Seq(Rows) /\ 1 \in DOMAIN q /\ Len(q) >= 1
        BY <2>2
      <3>2. g \in Seq(Seq(Rows)) /\ Len(g) = Len(q) /\ g[1] = Tail(q[1])
        BY <2>2, <3>1
      <3>3. QED
        BY <3>1, <3>2
    <2>4. /\ new \in Connection /\ new.kind = t.kind /\ new.runs /\ new.stmts = g
          /\ new.held = t.held \cup Wants(s)
      <3> HIDE DEF g, q
      <3>1. new = [t EXCEPT !.held = t.held \cup Wants(s), !.stmts = g]
        BY DEF g, q
      <3> HIDE DEF new
      <3>2. QED
        BY <2>1, <2>2, <2>3, <3>1 DEF Connection
    <2> HIDE DEF new
    <2>5. t.kind \notin {"none", "pick"}
      BY <2>1, <2>2 DEF LockOrder
    <2>6. t.kind = "update" => g = <<<<>>>>
      <3>1. SUFFICES ASSUME t.kind = "update" PROVE g = <<<<>>>>
        OBVIOUS
      <3>2. PICK r \in Rows : q = <<<<r>>>>
        BY <2>1, <2>2, <3>1 DEF LockOrder
      <3>3. g = <<Tail(<<r>>)>>
        BY <3>2
      <3>4. QED
        BY <3>3
    <2>7. ASSUME t.kind = "pair"
          PROVE  \/ g = <<<<>>>>
                 \/ \E a, b \in Rows : a < b /\ g = <<<<b>>>> /\ t.held \cup Wants(s) = {a}
      <3>1. PICK a \in Rows, b \in Rows :
               a < b /\ (\/ q = <<<<a, b>>>> /\ t.held = {}
                         \/ q = <<<<b>>>> /\ t.held = {a})
        BY <2>1, <2>2, <2>7 DEF LockOrder
      <3>2. CASE q = <<<<a, b>>>> /\ t.held = {}
        <4>1. g = <<Tail(<<a, b>>)>> /\ Wants(s) = {a}
          BY <2>2, <3>2
        <4>2. Tail(<<a, b>>) = <<b>>
          OBVIOUS
        <4>3. QED
          BY <3>1, <3>2, <4>1, <4>2
      <3>3. CASE q = <<<<b>>>>
        <4>1. g = <<Tail(<<b>>)>>
          BY <3>3
        <4>2. QED
          BY <4>1
      <3>4. QED
        BY <3>1, <3>2, <3>3
    <2>8. LockOrder(new)
      <3> HIDE DEF g, t
      <3>1. QED
        BY <2>3, <2>4, <2>5, <2>6, <2>7 DEF LockOrder
    <2>9. \A h \in AllSessions : h # s => conn[h].held \cap new.held = {}
      BY <1>0, <2>1, <2>4 DEF LocksInv, OneHolder
    <2>10. QED
      BY <1>0, <2>1, <2>4, <2>8, <2>9, OneTurns
  <1>4. ASSUME NEW s \in AllSessions, StatementEnds(s)
        PROVE  LocksInv'
    <2>1. CASE Autocommits(s)
      BY <1>0, <1>4, <2>1, TransactionEnds DEF StatementEnds
    <2>2. CASE ~Autocommits(s)
      <3> DEFINE t == conn[s]
                 c == [t EXCEPT !.runs = FALSE, !.stmts = Tail(t.stmts)]
      <3>1. /\ t.runs /\ Turns(s, c) /\ t \in Connection /\ LockOrder(t) /\ tick' = tick
            /\ t.kind # "update" /\ t.stmts # <<>> /\ t.stmts \in Seq(Seq(Rows))
        BY <1>0, <1>4, <2>2 DEF StatementEnds, Autocommits, LockOrder, Connection
      <3>2. Tail(t.stmts) \in Seq(Seq(Rows))
        BY <3>1
      <3>3. /\ c \in Connection /\ c.kind = t.kind /\ ~c.runs /\ c.stmts = Tail(t.stmts)
            /\ c.held = t.held
        BY <3>1, <3>2 DEF Connection
      <3>4. t.kind \notin {"none", "pick"}
        BY <3>1 DEF LockOrder
      <3>5. t.kind = "pair" => Tail(t.stmts) = <<>>
        <4>1. SUFFICES ASSUME t.kind = "pair" PROVE Tail(t.stmts) = <<>>
          OBVIOUS
        <4>2. \E q \in Seq(Rows) : t.stmts = <<q>>
          <5>1. \/ t.stmts = <<<<>>>>
                \/ \E a, b \in Rows : t.stmts = <<<<a, b>>>> \/ t.stmts = <<<<b>>>>
            BY <3>1, <4>1 DEF LockOrder
          <5>2. <<>> \in Seq(Rows) /\ \A a, b \in Rows : <<a, b>> \in Seq(Rows) /\ <<b>> \in Seq(Rows)
            OBVIOUS
          <5>3. QED
            BY <5>1, <5>2
        <4>3. QED
          BY <4>2
      <3> HIDE DEF c, t
      <3>6. LockOrder(c)
        BY <3>1, <3>3, <3>4, <3>5 DEF LockOrder
      <3>7. QED
        BY <1>0, <3>1, <3>3, <3>6, HoldsNoMore DEF t
    <2>3. QED
      BY <2>1, <2>2
  <1>5. ASSUME NEW s \in AllSessions, ClientGoesOn(s)
        PROVE  LocksInv'
    <2>1. CASE Turns(s, NoOperation)
      BY <1>0, <1>5, <2>1, TransactionEnds DEF ClientGoesOn
    <2>2. CASE conn[s].stmts # <<>> /\ Turns(s, [conn[s] EXCEPT !.runs = TRUE])
      <3> DEFINE t == conn[s]
                 c == [t EXCEPT !.runs = TRUE]
      <3>1. t \in Connection /\ LockOrder(t) /\ tick' = tick /\ ~t.runs
        BY <1>0, <1>5 DEF ClientGoesOn, InTransaction
      <3>2. c \in Connection /\ c.kind = t.kind /\ c.runs /\ c.stmts = t.stmts /\ c.held = t.held
        BY <3>1 DEF Connection
      <3> HIDE DEF c, t
      <3>3. t.kind \notin {"none", "pick", "update"} /\ t.stmts # <<>>
        BY <2>2, <3>1 DEF LockOrder, t
      <3>4. LockOrder(c)
        BY <3>1, <3>2, <3>3 DEF LockOrder
      <3>5. QED
        BY <1>0, <2>2, <3>1, <3>2, <3>4, HoldsNoMore DEF c, t
    <2>3. QED
      BY <1>5, <2>1, <2>2 DEF ClientGoesOn
  \* The age of a transaction and the loss of its client change none of its locks.
  <1>6. ASSUME NEW s \in AllSessions, NEW c, Turns(s, c), tick' = tick,
               \/ c = [conn[s] EXCEPT !.client = FALSE]
               \/ c = [conn[s] EXCEPT !.old = TRUE]
        PROVE  LocksInv'
    <2>1. conn[s] \in Connection /\ LockOrder(conn[s])
      BY <1>0
    <2>2. /\ c \in Connection /\ c.kind = conn[s].kind /\ c.runs = conn[s].runs
          /\ c.stmts = conn[s].stmts /\ c.held = conn[s].held
      BY <1>6, <2>1 DEF Connection
    <2>3. LockOrder(c)
      BY <2>1, <2>2 DEF LockOrder
    <2>4. QED
      BY <1>0, <1>6, <2>2, <2>3, HoldsNoMore
  <1>7. ASSUME NEW s \in AllSessions, ClientDies(s) \/ Ages(s)
        PROVE  LocksInv'
    BY <1>6, <1>7 DEF ClientDies, Ages
  <1>8. ASSUME NEW s \in AllSessions, ServerNotices(s)
        PROVE  LocksInv'
    BY <1>0, <1>8, TransactionEnds DEF ServerNotices
  <1>9. ASSUME DeadlockDetected
        PROVE  LocksInv'
    <2>1. PICK C \in WaitCycles : \E s \in C : Turns(s, NoOperation)
      BY <1>9 DEF DeadlockDetected
    <2>2. C \subseteq AllSessions /\ tick' = tick
      BY <1>9 DEF DeadlockDetected, WaitCycles
    <2>3. QED
      BY <1>0, <2>1, <2>2, TransactionEnds
  <1>10. ASSUME TickBegins
         PROVE  LocksInv'
    <2>1. CASE UNCHANGED conn /\ tick' = [tick EXCEPT !.pc = "reap"]
      BY <1>0, <2>1 DEF LocksInv, OneHolder, LockOrder, MonitorTick
    <2>2. CASE /\ tick' = [tick EXCEPT !.pc = "cool"]
               /\ \E r \in Rows : Turns(Monitor, Opened("update", <<<<r>>>>))
      <3>1. PICK r \in Rows : Turns(Monitor, Opened("update", <<<<r>>>>))
        BY <2>2
      <3>2. Opened("update", <<<<r>>>>) \in Operations
        <4>1. Opened("update", <<<<r>>>>) \in {Opened("update", <<<<q>>>>) : q \in Rows}
          OBVIOUS
        <4>2. QED
          BY <4>1 DEF Operations
      <3>3. tick' \in MonitorTick
        BY <1>0, <2>2 DEF MonitorTick
      <3>4. QED
        BY <1>0, <3>1, <3>2, <3>3, OperationShapes, HoldsNoMore
    <2>3. QED
      BY <1>10, <2>1, <2>2 DEF TickBegins
  <1>11. ASSUME Cooled \/ FindIdle
         PROVE  LocksInv'
    <2>1. conn' = conn /\ tick' \in MonitorTick
      <3>1. Reapable \subseteq AllSessions
        BY DEF Reapable
      <3>2. CASE Cooled
        BY <1>0, <3>2 DEF Cooled, MonitorTick
      <3>3. CASE FindIdle /\ tick' = [tick EXCEPT !.pc = "kill", !.doomed = Reapable]
        BY <1>0, <3>1, <3>3 DEF FindIdle, MonitorTick
      <3>4. CASE FindIdle /\ tick' = [tick EXCEPT !.pc = "sleep"]
        BY <1>0, <3>4 DEF FindIdle, MonitorTick
      <3>5. QED
        BY <1>11, <3>2, <3>3, <3>4 DEF FindIdle
    <2>2. QED
      BY <2>1 DEF LocksInv, OneHolder, LockOrder
  <1>12. ASSUME Terminate
         PROVE  LocksInv'
    <2>1. PICK s \in tick.doomed : /\ Turns(s, NoOperation)
                                   /\ tick' = [tick EXCEPT !.doomed = @ \ {s},
                                         !.pc = IF tick.doomed = {s} THEN "sleep" ELSE "kill"]
      BY <1>12 DEF Terminate
    <2>2. tick' \in MonitorTick /\ s \in AllSessions
      <3>1. tick.doomed \subseteq AllSessions
        BY <1>0 DEF MonitorTick
      <3>2. tick.doomed \ {s} \subseteq AllSessions
        BY <3>1
      <3>3. QED
        BY <1>0, <2>1, <3>1, <3>2 DEF MonitorTick
    <2>3. QED
      BY <1>0, <2>1, <2>2, TransactionEnds
  <1>13. ASSUME TickRaises
         PROVE  LocksInv'
    <2>1. tick' \in MonitorTick
      BY <1>0, <1>13 DEF TickRaises, MonitorTick
    <2>2. QED
      BY <1>0, <1>13, <2>1, TransactionEnds DEF TickRaises
  <1>14. CASE UNCHANGED locksVars
    BY <1>14 DEF locksVars, LocksInv, OneHolder, LockOrder
  <1>15. QED
    BY <1>0, <1>1, <1>2, <1>3, <1>4, <1>5, <1>7, <1>8, <1>9, <1>10, <1>11, <1>12, <1>13, <1>14
       DEF LocksNext

\* The inductive invariant of the row locks: what every operation still wants, and that
\* a row has one holder.
THEOREM LocksInvariant == LocksSpec => []LocksInv
  <1>1. ASSUME LocksInit
        PROVE  LocksInv
    <2>1. conn \in [AllSessions -> Connection] /\ \A s \in AllSessions : conn[s] = NoOperation
      BY <1>1, NoOperationIdle DEF LocksInit
    <2>2. tick \in MonitorTick
      BY <1>1 DEF LocksInit, NoTick, MonitorTick
    <2>3. QED
      BY <2>1, <2>2, NoOperationIdle DEF LocksInv, OneHolder
  <1>2. QED
    BY <1>1, LocksStep, PTL DEF LocksSpec

\* A reservation, a pick or a mark that waits for one that waits itself waits for a
\* smaller row than that one.
LEMMA WaitsUpwards ==
    ASSUME LocksInv, NEW s \in AllSessions, NEW h \in AllSessions, Blocks(h, s), Wants(h) # {},
           conn[h].kind \notin {"sync", "sweep", "stuck"}
    PROVE  \E a, b \in Rows : a < b /\ Wants(s) = {a} /\ Wants(h) = {b}
  <1>1. conn[h] \in Connection /\ LockOrder(conn[h]) /\ conn[h].kind \in Kinds
    BY DEF LocksInv, Connection
  <1>2. /\ conn[h].runs /\ conn[h].stmts[1] # <<>> /\ Wants(h) = {conn[h].stmts[1][1]}
        /\ conn[h].held # {}
    BY Wanted DEF Blocks
  <1>3. conn[h].kind = "pair"
    <2>1. conn[h].kind \notin {"none", "pick"}
      BY <1>1, <1>2 DEF LockOrder
    <2>2. conn[h].kind # "update"
      <3>1. conn[h].stmts # <<<<>>>>
        BY <1>2
      <3>2. QED
        BY <1>1, <1>2, <3>1 DEF LockOrder
    <2>3. QED
      BY <1>1, <2>1, <2>2 DEF Kinds
  <1>4. PICK a \in Rows, b \in Rows :
           a < b /\ conn[h].stmts = <<<<b>>>> /\ conn[h].held = {a}
    <2>1. conn[h].stmts # <<<<>>>>
      BY <1>2
    <2>2. QED
      BY <1>1, <1>2, <1>3, <2>1 DEF LockOrder
  <1>5. Wants(h) = {b}
    BY <1>2, <1>4
  <1>6. \E r : Wants(s) = {r}
    BY Wanted DEF Blocks
  <1>7. Wants(s) = {a}
    BY <1>4, <1>6 DEF Blocks
  <1>8. QED
    BY <1>4, <1>5, <1>7

\* Whatever accounts they are given and in whatever order, reservations of pairs, picks
\* and marks do not wait for each other in a cycle: a deadlock has a re-sync
\* (sync_accounts_to_pg) or a sweep in it, each of which locks in an order of its own
\* (_PAIR_LOCK_SQL).
THEOREM ReservationsFree == LocksSpec => []ReservationsNeverCycle
  <1>1. LocksInv => ReservationsNeverCycle
    <2> SUFFICES ASSUME LocksInv, NEW C \in WaitCycles,
                        \A s \in C : conn[s].kind \notin {"sync", "sweep", "stuck"}
                 PROVE  FALSE
      BY DEF ReservationsNeverCycle
    <2>1. /\ C \subseteq AllSessions /\ C # {}
          /\ \A s \in C : \E h \in C : Blocks(h, s)
      BY DEF WaitCycles
    <2>2. \A s \in C : Wants(s) # {}
      BY <2>1 DEF Blocks
    <2> DEFINE W == {r \in Rows : \E s \in C : Wants(s) = {r}}
    <2>3. \A r \in W : \E b \in W : r < b
      <3>1. ASSUME NEW r \in Rows, NEW s \in C, Wants(s) = {r}
            PROVE  \E b \in W : r < b
        <4>1. PICK h \in C : Blocks(h, s)
          BY <2>1
        <4>2. PICK a \in Rows, b \in Rows : a < b /\ Wants(s) = {a} /\ Wants(h) = {b}
          BY <2>1, <2>2, <4>1, WaitsUpwards
        <4>3. a = r
          BY <3>1, <4>2
        <4>4. QED
          BY <4>2, <4>3
      <3>2. QED
        BY <3>1
    <2>4. W # {}
      <3>1. PICK s \in C : TRUE
        BY <2>1
      <3>2. PICK h \in C : Blocks(h, s)
        BY <2>1
      <3>3. \E a \in Rows : Wants(s) = {a}
        BY <2>1, <2>2, <3>2, WaitsUpwards
      <3>4. QED
        BY <3>3
    <2>5. IsFiniteSet(W) /\ W \subseteq Nat
      BY RowLocksAssumption, FS_Subset
    <2> HIDE DEF W
    <2> DEFINE f == [r \in W |-> 0 - r]
    <2>6. \A r \in W : f[r] \in Int
      <3>1. ASSUME NEW r \in W PROVE 0 - r \in Int
        <4>1. r \in Nat
          BY <2>5
        <4>2. QED
          BY <4>1
      <3>2. QED
        BY <3>1
    <2>7. \E a \in W : \A b \in W : f[a] <= f[b]
      <3> HIDE DEF f
      <3>1. QED
        BY <2>4, <2>5, <2>6, LeastElement
    <2>8. QED
      BY <2>3, <2>5, <2>7
  <1>2. QED
    BY <1>1, LocksInvariant, PTL

-----------------------------------------------------------------------------
\* The direct calls and the row locks together, as the run has them.

\* Every behaviour of both is one of each of them.
THEOREM LeaseAndLocksAreTheirs == LeaseAndLocksSpec => LeaseSpec /\ LocksSpec
  <1>1. LeaseAndLocksInit => LeaseInit /\ LocksInit
    BY DEF LeaseAndLocksInit
  <1>2. [LeaseAndLocksNext]_<<focus, leaseVars, locksVars>>
        => [LeaseNext]_leaseVars /\ [LocksNext]_locksVars
    BY DEF LeaseAndLocksNext
  <1>3. QED
    BY <1>1, <1>2, PTL DEF LeaseAndLocksSpec, LeaseSpec, LocksSpec
=============================================================================
