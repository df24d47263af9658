----------------------------- MODULE QueueProofs -----------------------------
(***************************************************************************)
(* Theorems about Queue for every number of tasks, accounts and workers,   *)
(* every limit and every mix of task types.                                *)
(***************************************************************************)
EXTENDS Queue, TableProofs, FiniteSets, FiniteSetTheorems, TLAPS

-----------------------------------------------------------------------------
(* Type correctness.  TypeOK alone is not inductive: that assign_account   *)
(* writes an account needs reserved_ids to be non-empty there.             *)

TypeInv == TypeOK /\ WorkerShape

\* Every statement that settles a task writes a row, whatever the outcome.
LEMMA SettledRow ==
    ASSUME NEW r \in TaskRow, NEW o
    PROVE  Settled(r, o) \in TaskRow
  BY TaskRows DEF Settled

\* Moving one worker to a well-shaped state keeps the type and the shape of wk.
LEMMA WorkerMoves ==
    ASSUME TypeInv, NEW w \in Workers, NEW s \in WorkerState, Shape(s), Becomes(w, s)
    PROVE  wk' \in [Workers -> WorkerState] /\ WorkerShape'
  BY DEF TypeInv, TypeOK, WorkerShape, Becomes

LEMMA IdleState == Idle \in WorkerState /\ Shape(Idle)
  BY DispatchAssumption DEF Idle, WorkerState, WorkerPc, Shape

LEMMA InitTypeInv == Init => TypeInv
  <1> SUFFICES ASSUME Init PROVE TypeInv
    OBVIOUS
  <1> USE TableAssumption, DispatchAssumption DEF Init
  <1>1. tasks \in [Tasks -> TaskRow]
    BY DEF Inserted, TaskRow, Statuses
  <1>2. accounts \in [Accounts -> AccountRow]
    BY DEF FreshAccount, AccountRow
  <1>3. wk \in [Workers -> WorkerState]
    BY IdleState
  <1>4. WorkerShape
    BY DEF WorkerShape, Shape, Idle
  <1>5. QED
    BY <1>1, <1>2, <1>3, <1>4 DEF TypeInv, TypeOK

\* What a worker knows where it stands.
LEMMA Standing ==
    ASSUME TypeInv, NEW w \in Workers
    PROVE  /\ wk[w] \in WorkerState
           /\ Shape(wk[w])
           /\ wk[w].pc # "idle" => MyTask(w) \in Tasks
  BY DEF TypeInv, TypeOK, WorkerShape, Shape, WorkerState, MyTask

\* The states of a worker after Fail and after Goto.
LEMMA FailShape ==
    ASSUME NEW s \in WorkerState, Shape(s), s.pc # "idle",
           NEW o \in Outcomes \cup {"none", "postponed", "unknown_type", "transient"},
           NEW pc \in {"settle", "unassign"}
    PROVE  /\ [s EXCEPT !.pc = pc, !.out = o] \in WorkerState
           /\ Shape([s EXCEPT !.pc = pc, !.out = o])
  BY DispatchAssumption DEF Shape, WorkerState, WorkerPc, OutcomeKinds

LEMMA GotoShape ==
    ASSUME NEW s \in WorkerState, Shape(s), s.pc # "idle",
           NEW pc \in WorkerPc \ {"idle", "sync"},
           pc \in {"check", "assign", "begin", "running", "release"} => s.held # {},
           pc \in {"check", "assign"} => s.task \notin Dual
    PROVE  [s EXCEPT !.pc = pc] \in WorkerState /\ Shape([s EXCEPT !.pc = pc])
  BY DEF Shape, WorkerState, WorkerPc

\* Every step of a worker takes it from a state of a worker to another.
LEMMA WorkerStepMoves ==
    ASSUME TypeInv, NEW w \in Workers, WorkerStep(w)
    PROVE  \E s \in WorkerState : Shape(s) /\ Becomes(w, s)
  <1> DEFINE me == wk[w]
  <1>0. me \in WorkerState /\ Shape(me) /\ (me.pc # "idle" => MyTask(w) \in Tasks)
    BY Standing
  <1>a. ASSUME NEW o \in Outcomes \cup {"none", "postponed", "unknown_type", "transient"},
               NEW pc \in {"settle", "unassign"}, me.pc # "idle", Fail(w, pc, o)
        PROVE  \E s \in WorkerState : Shape(s) /\ Becomes(w, s)
    BY <1>0, <1>a, FailShape DEF Fail
  <1>b. ASSUME Leave(w), me.pc # "idle"
        PROVE  \E s \in WorkerState : Shape(s) /\ Becomes(w, s)
    <2>1. CASE me.held = {}
      BY <1>b, <2>1, IdleState DEF Leave
    <2>2. CASE me.held # {}
      BY <1>0, <1>b, <2>2, GotoShape DEF Leave, WorkerPc
    <2>3. QED
      BY <2>1, <2>2
  <1>1. ASSUME NEW t \in Tasks, ClaimNext(w, t)
        PROVE  \E s \in WorkerState : Shape(s) /\ Becomes(w, s)
    <2> DEFINE s == [Idle EXCEPT !.pc = "reserve", !.task = t, !.acc = tasks[t].acc]
    <2>1. tasks[t].acc \in Accounts \cup {None}
      BY DEF TypeInv, TypeOK, TaskRow
    <2>2. s \in WorkerState /\ Shape(s)
      BY <2>1, DispatchAssumption DEF Idle, WorkerState, WorkerPc, Shape
    <2>3. QED
      BY <1>1, <2>2 DEF ClaimNext
  <1>2. CASE RefuseType(w)
    BY <1>2, <1>a DEF RefuseType
  <1>3. CASE PickAccount(w)
    <2>1. PICK a \in Accounts : Becomes(w, [me EXCEPT !.pc = "check", !.held = {a}])
      BY <1>3 DEF PickAccount
    <2> DEFINE s == [me EXCEPT !.pc = "check", !.held = {a}]
    <2>2. s \in WorkerState /\ Shape(s)
      BY <1>0, <1>3 DEF WorkerState, WorkerPc, Shape, PickAccount, Reserving, MyTask
    <2>3. QED
      BY <2>1, <2>2
  <1>4. CASE PickNone(w)
    BY <1>4, <1>a DEF PickNone, Reserving
  <1>5. CASE ReserveFixed(w)
    <2>1. me.pc = "reserve" /\ MyTask(w) \notin Dual /\ me.acc # None
      BY <1>5 DEF ReserveFixed, Reserving
    <2>2. CASE Becomes(w, [me EXCEPT !.pc = "check", !.held = {me.acc}])
      <3> DEFINE s == [me EXCEPT !.pc = "check", !.held = {me.acc}]
      <3>1. s \in WorkerState /\ Shape(s)
        BY <1>0, <2>1 DEF WorkerState, WorkerPc, Shape, MyTask
      <3>2. QED
        BY <2>2, <3>1
    <2>3. CASE \E pc \in {"settle", "unassign"} : Fail(w, pc, "postponed")
      BY <2>1, <2>3, <1>a
    <2>4. QED
      BY <1>5, <2>2, <2>3 DEF ReserveFixed
  <1>6. CASE CheckPasses(w)
    <2>1. me.pc = "check" /\ me.held # {} /\ me.task \notin Dual
      BY <1>0, <1>6 DEF CheckPasses, Shape
    <2>2. PICK pc \in {"assign", "begin"} : Goto(w, pc)
      BY <1>6 DEF CheckPasses
    <2>3. QED
      BY <1>0, <2>1, <2>2, GotoShape DEF Goto, WorkerPc
  <1>7. CASE CheckRefuses(w)
    <2>1. PICK a \in me.held :
             IF me.acc = None
             THEN Becomes(w, [me EXCEPT !.pc = "reserve", !.held = {},
                                        !.rejected = @ \cup {a}])
             ELSE Becomes(w, [me EXCEPT !.pc = "settle", !.held = {},
                                        !.out = "postponed"])
      BY <1>7 DEF CheckRefuses
    <2>2. me.pc = "check"
      BY <1>7 DEF CheckRefuses
    <2> DEFINE s == [me EXCEPT !.pc = "reserve", !.held = {}, !.rejected = @ \cup {a}]
               u == [me EXCEPT !.pc = "settle", !.held = {}, !.out = "postponed"]
    <2>3. s \in WorkerState /\ Shape(s) /\ u \in WorkerState /\ Shape(u)
      BY <1>0, <2>2 DEF WorkerState, WorkerPc, Shape
    <2>4. QED
      BY <2>1, <2>3
  <1>8. CASE DualRefused(w)
    BY <1>8, <1>a DEF DualRefused, Reserving
  <1>9. CASE ReservePair(w)
    <2>1. me.pc = "reserve"
      BY <1>9 DEF ReservePair, Reserving
    <2> DEFINE x == Source[MyTask(w)]
               y == Target[MyTask(w)]
               s == [me EXCEPT !.pc = "begin", !.held = {x, y}]
    <2>2. CASE Becomes(w, s)
      <3>1. x \in Accounts /\ y \in Accounts
        BY <1>0, <1>9, <2>1, DispatchAssumption DEF ReservePair
      <3>2. s \in WorkerState /\ Shape(s)
        BY <1>0, <2>1, <3>1 DEF WorkerState, WorkerPc, Shape
      <3>3. QED
        BY <2>2, <3>2
    <2>3. CASE Fail(w, "settle", "postponed")
      BY <2>1, <2>3, <1>a
    <2>4. QED
      BY <1>9, <2>2, <2>3 DEF ReservePair
  <1>10. CASE AssignAccount(w)
    BY <1>0, <1>10, GotoShape DEF AssignAccount, Goto, WorkerPc, Shape
  <1>11. CASE BeginAttempt(w)
    <2>1. me.pc = "begin" /\ me.held # {}
      BY <1>0, <1>11 DEF BeginAttempt, Shape
    <2>2. CASE Goto(w, "running")
      BY <1>0, <2>1, <2>2, GotoShape DEF Goto, WorkerPc
    <2>3. CASE Fail(w, "settle", "transient")
      BY <2>1, <2>3, <1>a
    <2>4. QED
      BY <1>11, <2>2, <2>3 DEF BeginAttempt
  <1>12. CASE Execute(w)
    <2>1. me.pc = "running" /\ me.held # {}
      BY <1>0, <1>12 DEF Execute, Shape
    <2>2. PICK o \in Outcomes, pc \in {"sync", "settle", "unassign"} :
             /\ Fail(w, pc, o)
             /\ pc = "sync" => o \in {"banned", "flood", "unauthorized"}
      BY <1>12 DEF Execute, AfterSync
    <2>3. CASE pc = "sync"
      <3> DEFINE s == [me EXCEPT !.pc = "sync", !.out = o]
      <3>1. s \in WorkerState /\ Shape(s)
        BY <1>0, <2>1, <2>2, <2>3, DispatchAssumption DEF WorkerState, WorkerPc, Shape
      <3>2. QED
        BY <2>2, <2>3, <3>1 DEF Fail
    <2>4. CASE pc # "sync"
      BY <2>1, <2>2, <2>4, <1>a
    <2>5. QED
      BY <2>3, <2>4
  <1>13. CASE SyncAccountHealth(w)
    <2>1. me.pc = "sync"
      BY <1>13 DEF SyncAccountHealth
    <2>2. PICK pc \in {"settle", "unassign"} : Goto(w, pc)
      BY <1>13 DEF SyncAccountHealth, AfterSync
    <2>3. QED
      BY <1>0, <2>1, <2>2, GotoShape DEF Goto, WorkerPc
  <1>14. CASE UnassignAccount(w)
    BY <1>0, <1>14, GotoShape DEF UnassignAccount, Goto, WorkerPc
  <1>15. CASE Settle(w)
    BY <1>15, <1>b DEF Settle
  <1>16. CASE ReleaseAccount(w)
    <2>1. me.pc = "release"
      BY <1>16 DEF ReleaseAccount
    <2>2. PICK a \in me.held :
             Becomes(w, IF me.held = {a} THEN Idle ELSE [me EXCEPT !.held = @ \ {a}])
      BY <1>16 DEF ReleaseAccount
    <2>3. CASE me.held = {a}
      BY <2>2, <2>3, IdleState
    <2>4. CASE me.held # {a}
      <3> DEFINE s == [me EXCEPT !.held = @ \ {a}]
      <3>1. me.held \ {a} # {}
        BY <2>4
      <3>2. s \in WorkerState /\ Shape(s)
        BY <1>0, <2>1, <3>1 DEF WorkerState, WorkerPc, Shape
      <3>3. QED
        BY <2>2, <2>4, <3>2
    <2>5. QED
      BY <2>3, <2>4
  <1>17. QED
    BY <1>1, <1>2, <1>3, <1>4, <1>5, <1>6, <1>7, <1>8, <1>9, <1>10, <1>11, <1>12,
       <1>13, <1>14, <1>15, <1>16 DEF WorkerStep

\* So does every crash, cancellation and failed statement.
LEMMA WorkerFaultMoves ==
    ASSUME TypeInv, NEW w \in Workers, WorkerFault(w)
    PROVE  \E s \in WorkerState : Shape(s) /\ Becomes(w, s)
  <1> DEFINE me == wk[w]
  <1>0. me \in WorkerState /\ Shape(me)
    BY Standing
  <1>a. ASSUME Leave(w), me.pc # "idle"
        PROVE  \E s \in WorkerState : Shape(s) /\ Becomes(w, s)
    <2>1. CASE me.held = {}
      BY <1>a, <2>1, IdleState DEF Leave
    <2>2. CASE me.held # {}
      BY <1>0, <1>a, <2>2, GotoShape DEF Leave, WorkerPc
    <2>3. QED
      BY <2>1, <2>2
  <1>1. CASE Crash(w)
    BY <1>1, IdleState DEF Crash
  <1>2. CASE Cancelled(w)
    BY <1>2, <1>a, IdleState DEF Cancelled
  <1>3. CASE StatementFailsInTry(w)
    <2>1. me.pc # "idle"
      BY <1>3 DEF StatementFailsInTry
    <2>2. PICK H \in SUBSET Accounts :
             Becomes(w, [me EXCEPT !.pc = "settle", !.out = "transient", !.held = H])
      BY <1>0, <1>3 DEF StatementFailsInTry, WorkerState
    <2> DEFINE s == [me EXCEPT !.pc = "settle", !.out = "transient", !.held = H]
    <2>3. s \in WorkerState
      BY <1>0 DEF WorkerState, WorkerPc, OutcomeKinds
    <2>4. Shape(s)
      BY <1>0, <2>1 DEF WorkerState, Shape
    <2>5. QED
      BY <2>2, <2>3, <2>4
  <1>4. CASE AttemptRowFails(w)
    BY <1>0, <1>4, FailShape DEF AttemptRowFails, Fail
  <1>5. CASE StatementFailsQuietly(w)
    <2>1. me.pc # "idle"
      BY <1>5 DEF StatementFailsQuietly
    <2>2. PICK pc \in {"settle", "unassign"} : Goto(w, pc)
      BY <1>5 DEF StatementFailsQuietly, AfterSync
    <2>3. QED
      BY <1>0, <2>1, <2>2, GotoShape DEF Goto, WorkerPc
  <1>6. CASE StatementFailsInHandler(w)
    BY <1>6, <1>a DEF StatementFailsInHandler
  <1>7. CASE ReleaseFails(w)
    BY <1>7, IdleState DEF ReleaseFails
  <1>8. QED
    BY <1>1, <1>2, <1>3, <1>4, <1>5, <1>6, <1>7 DEF WorkerFault

-----------------------------------------------------------------------------
(* What a step may do to one row of task_queue.                            *)

\* The statements on task_queue, each under the condition its WHERE clause and
\* the place of its worker put on it.
RowStep(t) ==
    \/ tasks'[t] = tasks[t]
    \/ /\ tasks[t].status = "absent"
       /\ \E due \in BOOLEAN : tasks'[t] = Inserted(Pinned[t], due)
    \/ \E w \in Workers : /\ wk[w].pc = "idle"
                          /\ ClaimReady(tasks[t])
                          /\ tasks'[t] = Claimed(tasks[t], w)
    \/ \E w \in Workers :
          /\ HeldBy(tasks[t], w)
          /\ wk[w].task = t
          /\ \/ \E a \in Accounts \cup {None} : tasks'[t] = [tasks[t] EXCEPT !.acc = a]
             \/ /\ wk[w].pc = "begin"
                /\ tasks'[t] = BegunAttempt(tasks[t])
                /\ \/ wk'[w].pc = "running"
                   \/ wk'[w].pc = "settle" /\ wk'[w].out = "transient"
             \/ /\ wk[w].pc = "settle"
                /\ tasks'[t] = Settled(tasks[t], wk[w].out)
                /\ wk'[w].pc \in {"idle", "release"}
    \/ TimedOut(tasks[t]) /\ tasks'[t] = Marked(tasks[t])
    \/ /\ tasks[t].status \in Claimable
       /\ Patient(t)
       /\ tasks'[t] = [tasks[t] EXCEPT !.due = TRUE]
    \/ /\ tasks[t].lease = "live"
       /\ Patient(t)
       /\ tasks'[t] = [tasks[t] EXCEPT !.lease = "over"]
    \/ tasks[t].status = "in_progress" /\ tasks'[t] = [tasks[t] EXCEPT !.late = TRUE]

RowSteps == tasks' \in [Tasks -> TaskRow] /\ \A t \in Tasks : RowStep(t)

\* A statement that touches one row.
LEMMA OneRow ==
    ASSUME TypeInv, NEW u \in Tasks, NEW row \in TaskRow,
           tasks' = [tasks EXCEPT ![u] = row],
           tasks'[u] = row => RowStep(u)
    PROVE  RowSteps
  <1>1. tasks' \in [Tasks -> TaskRow] /\ tasks'[u] = row
    BY DEF TypeInv, TypeOK
  <1>2. \A t \in Tasks : t # u => tasks'[t] = tasks[t]
    BY DEF TypeInv, TypeOK
  <1>3. \A t \in Tasks : t # u => RowStep(t)
    BY <1>2 DEF RowStep
  <1>4. QED
    BY <1>1, <1>3 DEF RowSteps

\* A step that touches no row.
LEMMA NoRow ==
    ASSUME TypeInv, tasks' = tasks
    PROVE  RowSteps
  BY DEF TypeInv, TypeOK, RowSteps, RowStep

\* A fenced statement.
LEMMA FencedRow ==
    ASSUME TypeInv, NEW w \in Workers, MyTask(w) \in Tasks, NEW row \in TaskRow,
           Fenced(w, row),
           HeldBy(tasks[MyTask(w)], w) /\ tasks'[MyTask(w)] = row => RowStep(MyTask(w))
    PROVE  RowSteps
  <1>1. CASE HeldBy(tasks[MyTask(w)], w)
    BY <1>1, OneRow DEF Fenced
  <1>2. CASE ~HeldBy(tasks[MyTask(w)], w)
    BY <1>2, NoRow DEF Fenced
  <1>3. QED
    BY <1>1, <1>2

\* What the worker steps do to the rows.
LEMMA WorkerRowSteps ==
    ASSUME TypeInv, NEW w \in Workers, WorkerStep(w) \/ WorkerFault(w)
    PROVE  RowSteps
  <1> DEFINE t == MyTask(w)
             r == tasks[t]
  <1>0. wk[w].pc # "idle" => t \in Tasks /\ r \in TaskRow /\ wk[w].task = t
    BY Standing DEF TypeInv, TypeOK, MyTask
  <1>1. ASSUME NEW u \in Tasks, ClaimNext(w, u)
        PROVE  RowSteps
    <2>1. tasks[u] \in TaskRow
      BY DEF TypeInv, TypeOK
    <2>2. Claimed(tasks[u], w) \in TaskRow
      BY <2>1, TaskRows
    <2>3. tasks' = [tasks EXCEPT ![u] = Claimed(tasks[u], w)]
      BY <1>1 DEF ClaimNext
    <2>4. tasks'[u] = Claimed(tasks[u], w) => RowStep(u)
      BY <1>1 DEF ClaimNext, RowStep
    <2>5. QED
      BY <2>2, <2>3, <2>4, OneRow
  <1>2. CASE AssignAccount(w)
    <2> DEFINE row == [r EXCEPT !.acc = ExecuteAccount(w)]
    <2>1. t \in Tasks /\ r \in TaskRow /\ wk[w].task = t
      BY <1>0, <1>2 DEF AssignAccount
    <2>2. ExecuteAccount(w) \in Accounts
      BY <1>2, Standing DEF AssignAccount, ExecuteAccount, Shape, WorkerState, MyTask
    <2>3. row \in TaskRow
      BY <2>1, <2>2, TaskRows
    <2>4. HeldBy(r, w) /\ tasks'[t] = row => RowStep(t)
      BY <2>1, <2>2 DEF RowStep
    <2>5. QED
      BY <1>2, <2>1, <2>3, <2>4, FencedRow DEF AssignAccount
  <1>3. CASE BeginAttempt(w) \/ AttemptRowFails(w)
    <2>1. t \in Tasks /\ r \in TaskRow /\ wk[w].task = t /\ wk[w].pc = "begin"
      BY <1>0, <1>3 DEF BeginAttempt, AttemptRowFails
    <2>2. BegunAttempt(r) \in TaskRow
      BY <2>1, TaskRows
    <2>3. HeldBy(r, w) => \/ wk'[w].pc = "running"
                          \/ wk'[w].pc = "settle" /\ wk'[w].out = "transient"
      <3>1. wk[w] \in WorkerState /\ \A s : Becomes(w, s) => wk'[w] = s
        BY DEF TypeInv, TypeOK, Becomes
      <3>2. CASE Goto(w, "running")
        BY <3>1, <3>2 DEF Goto, WorkerState
      <3>3. CASE Fail(w, "settle", "transient")
        BY <3>1, <3>3 DEF Fail, WorkerState
      <3>4. QED
        BY <1>3, <3>2, <3>3 DEF BeginAttempt, AttemptRowFails
    <2>4. HeldBy(r, w) /\ tasks'[t] = BegunAttempt(r) => RowStep(t)
      BY <2>1, <2>3 DEF RowStep
    <2>5. Fenced(w, BegunAttempt(r))
      BY <1>3 DEF BeginAttempt, AttemptRowFails
    <2>6. QED
      BY <2>1, <2>2, <2>4, <2>5, FencedRow
  <1>4. CASE UnassignAccount(w)
    <2> DEFINE row == [r EXCEPT !.acc = None]
    <2>1. t \in Tasks /\ r \in TaskRow /\ wk[w].task = t
      BY <1>0, <1>4 DEF UnassignAccount
    <2>2. row \in TaskRow
      BY <2>1, TaskRows
    <2>3. HeldBy(r, w) /\ tasks'[t] = row => RowStep(t)
      BY <2>1 DEF RowStep
    <2>4. QED
      BY <1>4, <2>1, <2>2, <2>3, FencedRow DEF UnassignAccount
  <1>5. CASE Settle(w)
    <2>1. t \in Tasks /\ r \in TaskRow /\ wk[w].task = t /\ wk[w].pc = "settle"
      BY <1>0, <1>5 DEF Settle
    <2>2. Settled(r, wk[w].out) \in TaskRow
      BY <2>1, SettledRow
    <2>3. wk'[w].pc \in {"idle", "release"}
      BY <1>5 DEF Settle, Leave, Becomes, Idle, TypeInv, TypeOK, WorkerState
    <2>4. HeldBy(r, w) /\ tasks'[t] = Settled(r, wk[w].out) => RowStep(t)
      BY <2>1, <2>3 DEF RowStep
    <2>5. QED
      BY <1>5, <2>1, <2>2, <2>4, FencedRow DEF Settle
  <1>6. ASSUME \/ RefuseType(w) \/ PickAccount(w) \/ PickNone(w) \/ ReserveFixed(w)
               \/ CheckPasses(w) \/ CheckRefuses(w) \/ DualRefused(w)
               \/ ReservePair(w) \/ Execute(w) \/ SyncAccountHealth(w)
               \/ ReleaseAccount(w)
        PROVE  tasks' = tasks
    BY <1>6 DEF RefuseType, PickAccount, PickNone, ReserveFixed, CheckPasses,
                CheckRefuses, DualRefused, ReservePair, Execute, SyncAccountHealth,
                ReleaseAccount
  <1>7. ASSUME \/ Crash(w) \/ Cancelled(w) \/ StatementFailsInTry(w)
               \/ StatementFailsQuietly(w) \/ StatementFailsInHandler(w)
               \/ ReleaseFails(w)
        PROVE  tasks' = tasks
    BY <1>7 DEF Crash, Cancelled, StatementFailsInTry, StatementFailsQuietly,
                StatementFailsInHandler, ReleaseFails
  <1>8. CASE tasks' = tasks
    BY <1>8, NoRow
  <1>9. QED
    BY <1>1, <1>2, <1>3, <1>4, <1>5, <1>6, <1>7, <1>8 DEF WorkerStep, WorkerFault

\* What any step does to the rows.
LEMMA NextRowSteps ==
    ASSUME TypeInv, [Next]_vars
    PROVE  RowSteps
  <1> USE DEF TypeInv, TypeOK
  <1>1. ASSUME NEW u \in Tasks, Enqueue(u)
        PROVE  RowSteps
    <2>1. PICK due \in BOOLEAN : tasks' = [tasks EXCEPT ![u] = Inserted(Pinned[u], due)]
      BY <1>1 DEF Enqueue
    <2>2. Inserted(Pinned[u], due) \in TaskRow
      BY TableAssumption, DispatchAssumption
         DEF Inserted, TaskRow, Statuses, Active, Claimable
    <2>3. tasks'[u] = Inserted(Pinned[u], due) => RowStep(u)
      BY <1>1 DEF Enqueue, RowStep
    <2>4. QED
      BY <2>1, <2>2, <2>3, OneRow
  <1>2. ASSUME NEW w \in Workers, WorkerStep(w) \/ WorkerFault(w)
        PROVE  RowSteps
    BY <1>2, WorkerRowSteps
  <1>3. CASE MarkStuckTimedOut
    <2> DEFINE marked == {u \in Tasks : TimedOut(tasks[u])}
    <2>1. tasks' = [u \in Tasks |-> IF u \in marked THEN Marked(tasks[u]) ELSE tasks[u]]
      BY <1>3 DEF MarkStuckTimedOut
    <2>2. ASSUME NEW u \in Tasks
          PROVE  Marked(tasks[u]) \in TaskRow /\ RowStep(u)
      <3>1. Marked(tasks[u]) \in TaskRow
        BY TaskRows
      <3>2. RowStep(u)
        BY <2>1 DEF RowStep
      <3>3. QED
        BY <3>1, <3>2
    <2>3. QED
      BY <2>1, <2>2 DEF RowSteps
  <1>4. ASSUME NEW u \in Tasks, RunAfterPasses(u)
        PROVE  RowSteps
    <2>1. tasks' = [tasks EXCEPT ![u] = [tasks[u] EXCEPT !.due = TRUE]]
      BY <1>4 DEF RunAfterPasses
    <2>2. [tasks[u] EXCEPT !.due = TRUE] \in TaskRow
      BY TaskRows
    <2>3. tasks'[u] = [tasks[u] EXCEPT !.due = TRUE] => RowStep(u)
      BY <1>4 DEF RunAfterPasses, RowStep
    <2>4. QED
      BY <2>1, <2>2, <2>3, OneRow
  <1>5. ASSUME NEW u \in Tasks, LeaseRunsOut(u)
        PROVE  RowSteps
    <2>1. tasks' = [tasks EXCEPT ![u] = [tasks[u] EXCEPT !.lease = "over"]]
      BY <1>5 DEF LeaseRunsOut
    <2>2. [tasks[u] EXCEPT !.lease = "over"] \in TaskRow
      BY TaskRows
    <2>3. tasks'[u] = [tasks[u] EXCEPT !.lease = "over"] => RowStep(u)
      BY <1>5 DEF LeaseRunsOut, RowStep
    <2>4. QED
      BY <2>1, <2>2, <2>3, OneRow
  <1>6. ASSUME NEW u \in Tasks, TimeoutPasses(u)
        PROVE  RowSteps
    <2>1. tasks' = [tasks EXCEPT ![u] = [tasks[u] EXCEPT !.late = TRUE]]
      BY <1>6 DEF TimeoutPasses
    <2>2. [tasks[u] EXCEPT !.late = TRUE] \in TaskRow
      BY TaskRows
    <2>3. tasks'[u] = [tasks[u] EXCEPT !.late = TRUE] => RowStep(u)
      BY <1>6 DEF TimeoutPasses, RowStep
    <2>4. QED
      BY <2>1, <2>2, <2>3, OneRow
  <1>7. CASE \/ ReleaseOrphanAccountLocks
             \/ \E a \in Accounts : MonitorMarks(a)
             \/ ClearExpiredCooldowns
             \/ \E a \in Accounts : CooldownPasses(a)
             \/ UNCHANGED vars
    <2>1. tasks' = tasks
      BY <1>7 DEF ReleaseOrphanAccountLocks, MonitorMarks, ClearExpiredCooldowns,
                  CooldownPasses, vars
    <2>2. QED
      BY <2>1, NoRow
  <1>8. QED
    BY <1>1, <1>2, <1>3, <1>4, <1>5, <1>6, <1>7 DEF Next

-----------------------------------------------------------------------------
(* What a step may do to one row of accounts.                              *)

\* The statements on accounts.  A reservation is only ever taken from nobody, for
\* the task of a worker that is reserving; the last two disjuncts but one take it
\* away without asking whose it is.
AccountStep(a) ==
    \/ accounts'[a] = accounts[a]
    \/ \E w \in Workers :
          /\ wk[w].pc = "reserve"
          /\ accounts[a].task = None
          /\ \/ accounts'[a] = Picked(accounts[a], wk[w].task)
             \/ accounts'[a] = Reserved(accounts[a], wk[w].task)
    \/ \E w \in Workers :
          /\ wk[w].pc \in {"check", "release"}
          /\ a \in wk[w].held
          /\ accounts'[a] = Released(accounts[a], wk[w].task)
          /\ wk'[w].pc \in {"reserve", "settle", "idle", "release"}
    \/ \E w \in Workers :
          /\ wk[w].pc = "sync"
          /\ a = ExecuteAccount(w)
          /\ accounts'[a] \in {CooledDown(accounts[a]), Banned(accounts[a]),
                               Errored(accounts[a])}
          /\ wk'[w].pc \in {"settle", "unassign"}
    \/ /\ accounts[a].task \in Tasks
       /\ \/ tasks[accounts[a].task].status # "in_progress"
          \/ TimedOut(tasks[accounts[a].task])
       /\ accounts'[a] = [accounts[a] EXCEPT !.task = None]
    \/ /\ HealthMonitor
       /\ accounts'[a] \in {Banned(accounts[a]), Errored(accounts[a]),
                            CooledDown(accounts[a]), Reactivated(accounts[a])}
    \/ accounts'[a] \in {CooldownCleared(accounts[a]),
                         [accounts[a] EXCEPT !.cooling = FALSE]}

AccountSteps == accounts' \in [Accounts -> AccountRow] /\ \A a \in Accounts : AccountStep(a)

\* A statement that touches one account.
LEMMA OneAccount ==
    ASSUME TypeInv, NEW b \in Accounts, NEW row \in AccountRow,
           accounts' = [accounts EXCEPT ![b] = row],
           accounts'[b] = row => AccountStep(b)
    PROVE  AccountSteps
  <1>1. accounts' \in [Accounts -> AccountRow] /\ accounts'[b] = row
    BY DEF TypeInv, TypeOK
  <1>2. \A a \in Accounts : a # b => accounts'[a] = accounts[a]
    BY DEF TypeInv, TypeOK
  <1>3. \A a \in Accounts : a # b => AccountStep(a)
    BY <1>2 DEF AccountStep
  <1>4. QED
    BY <1>1, <1>3 DEF AccountSteps

\* A step that touches no account.
LEMMA NoAccount ==
    ASSUME TypeInv, accounts' = accounts
    PROVE  AccountSteps
  BY DEF TypeInv, TypeOK, AccountSteps, AccountStep

\* What the worker steps do to the accounts.
LEMMA WorkerAccountSteps ==
    ASSUME TypeInv, NEW w \in Workers, WorkerStep(w) \/ WorkerFault(w)
    PROVE  AccountSteps
  <1> DEFINE me == wk[w]
             t  == MyTask(w)
  <1>0. /\ me \in WorkerState
        /\ Shape(me)
        /\ me.pc # "idle" => t \in Tasks /\ me.task = t
        /\ \A a \in Accounts : accounts[a] \in AccountRow
    BY Standing DEF TypeInv, TypeOK, MyTask
  <1>u. ASSUME NEW s, Becomes(w, s) PROVE wk'[w] = s
    BY <1>u DEF TypeInv, TypeOK, Becomes
  <1>1. CASE PickAccount(w)
    <2>1. PICK a \in Accounts : /\ Pickable(accounts[a])
                               /\ accounts' = [accounts EXCEPT ![a] = Picked(@, t)]
      BY <1>1 DEF PickAccount
    <2>2. me.pc = "reserve"
      BY <1>1 DEF PickAccount, Reserving
    <2>3. Picked(accounts[a], t) \in AccountRow
      BY <1>0, <2>2, AccountRows
    <2>4. accounts'[a] = Picked(accounts[a], t) => AccountStep(a)
      BY <1>0, <2>1, <2>2 DEF AccountStep, Pickable
    <2>5. QED
      BY <2>1, <2>3, <2>4, OneAccount
  <1>2. CASE ReserveFixed(w)
    <2>1. me.pc = "reserve" /\ me.acc \in Accounts
      BY <1>0, <1>2 DEF ReserveFixed, Reserving, WorkerState
    <2>2. CASE accounts' = accounts
      BY <2>2, NoAccount
    <2>3. CASE /\ Reservable(accounts[me.acc])
               /\ accounts' = [accounts EXCEPT ![me.acc] = Reserved(@, t)]
      <3>1. Reserved(accounts[me.acc], t) \in AccountRow
        BY <1>0, <2>1, AccountRows
      <3>2. accounts'[me.acc] = Reserved(accounts[me.acc], t) => AccountStep(me.acc)
        BY <1>0, <2>1, <2>3 DEF AccountStep, Reservable
      <3>3. QED
        BY <2>1, <2>3, <3>1, <3>2, OneAccount
    <2>4. QED
      BY <1>2, <2>2, <2>3 DEF ReserveFixed
  <1>3. CASE CheckRefuses(w) \/ ReleaseAccount(w)
    <2>1. me.pc \in {"check", "release"}
      BY <1>3 DEF CheckRefuses, ReleaseAccount
    <2>2. PICK a \in me.held : accounts' = [accounts EXCEPT ![a] = Released(@, t)]
      BY <1>3 DEF CheckRefuses, ReleaseAccount
    <2>3. a \in Accounts
      BY <1>0 DEF WorkerState
    <2>4. Released(accounts[a], t) \in AccountRow
      BY <1>0, <2>1, <2>3, AccountRows
    <2>5. wk'[w].pc \in {"reserve", "settle", "idle", "release"}
      <3>1. CASE CheckRefuses(w)
        <4>1. PICK b \in me.held :
                 wk'[w] = IF me.acc = None
                          THEN [me EXCEPT !.pc = "reserve", !.held = {},
                                          !.rejected = @ \cup {b}]
                          ELSE [me EXCEPT !.pc = "settle", !.held = {},
                                          !.out = "postponed"]
          BY <3>1, <1>u DEF CheckRefuses
        <4>2. /\ [me EXCEPT !.pc = "reserve", !.held = {}, !.rejected = @ \cup {b}].pc
                    = "reserve"
              /\ [me EXCEPT !.pc = "settle", !.held = {}, !.out = "postponed"].pc
                    = "settle"
          BY <1>0 DEF WorkerState
        <4>3. QED
          BY <4>1, <4>2
      <3>2. CASE ReleaseAccount(w)
        <4>1. PICK b \in me.held : wk'[w] = IF me.held = {b} THEN Idle
                                            ELSE [me EXCEPT !.held = @ \ {b}]
          BY <3>2, <1>u DEF ReleaseAccount
        <4>2. me.pc = "release"
          BY <3>2 DEF ReleaseAccount
        <4>3. [me EXCEPT !.held = @ \ {b}].pc = me.pc /\ Idle.pc = "idle"
          BY <1>0 DEF Idle, WorkerState
        <4>4. QED
          BY <4>1, <4>2, <4>3
      <3>3. QED
        BY <1>3, <3>1, <3>2
    <2>6. accounts'[a] = Released(accounts[a], t) => AccountStep(a)
      BY <1>0, <2>1, <2>2, <2>5 DEF AccountStep
    <2>7. QED
      BY <2>2, <2>3, <2>4, <2>6, OneAccount
  <1>4. CASE ReservePair(w)
    <2> DEFINE x == Source[t]
               y == Target[t]
    <2>1. me.pc = "reserve" /\ t \in Tasks /\ me.task = t
      BY <1>0, <1>4 DEF ReservePair, Reserving
    <2>2. CASE accounts' = accounts
      BY <2>2, NoAccount
    <2>3. CASE /\ PairReservable(accounts[x], accounts[y])
               /\ accounts' = [accounts EXCEPT ![x] = Reserved(@, t), ![y] = Reserved(@, t)]
      <3>1. x \in Accounts /\ y \in Accounts /\ x # y
        BY <1>4, <2>1, DispatchAssumption DEF ReservePair
      <3>2. accounts[x] \in AccountRow /\ accounts[y] \in AccountRow
        BY <1>0, <3>1
      <3>3. Reserved(accounts[x], t) \in AccountRow /\ Reserved(accounts[y], t) \in AccountRow
        BY <2>1, <3>2, AccountRows
      <3>4. /\ accounts' \in [Accounts -> AccountRow]
            /\ accounts'[x] = Reserved(accounts[x], t)
            /\ accounts'[y] = Reserved(accounts[y], t)
            /\ \A a \in Accounts \ {x, y} : accounts'[a] = accounts[a]
        BY <2>3, <3>1, <3>3 DEF TypeInv, TypeOK
      <3>5. AccountStep(x) /\ AccountStep(y)
        BY <2>1, <2>3, <3>4 DEF AccountStep, PairReservable, Reservable
      <3>6. \A a \in Accounts \ {x, y} : AccountStep(a)
        BY <3>4 DEF AccountStep
      <3>7. QED
        BY <3>4, <3>5, <3>6 DEF AccountSteps
    <2>4. QED
      BY <1>4, <2>2, <2>3 DEF ReservePair
  <1>5. CASE SyncAccountHealth(w)
    <2> DEFINE a == ExecuteAccount(w)
               rows == {CooledDown(accounts[a]), Banned(accounts[a]), Errored(accounts[a])}
    <2>1. PICK row \in rows : accounts' = [accounts EXCEPT ![a] = row]
      BY <1>5 DEF SyncAccountHealth
    <2>2. CASE a \in Accounts
      <3>1. None \in Tasks \cup {None} /\ rows \subseteq AccountRow
        BY <1>0, <2>2, AccountRows
      <3>2. wk'[w].pc \in {"settle", "unassign"}
        BY <1>0, <1>5, <1>u DEF SyncAccountHealth, AfterSync, Goto, WorkerState
      <3>3. accounts'[a] = row => AccountStep(a)
        BY <1>5, <2>1, <3>2 DEF AccountStep, SyncAccountHealth
      <3>4. QED
        BY <2>1, <2>2, <3>1, <3>3, OneAccount
    <2>3. CASE a \notin Accounts
      <3>1. accounts' = accounts
        BY <2>1, <2>3 DEF TypeInv, TypeOK
      <3>2. QED
        BY <3>1, NoAccount
    <2>4. QED
      BY <2>2, <2>3
  <1>6. ASSUME \/ \E u \in Tasks : ClaimNext(w, u)
               \/ RefuseType(w) \/ PickNone(w) \/ CheckPasses(w) \/ DualRefused(w)
               \/ AssignAccount(w) \/ BeginAttempt(w) \/ Execute(w)
               \/ UnassignAccount(w) \/ Settle(w)
        PROVE  accounts' = accounts
    BY <1>6 DEF ClaimNext, RefuseType, PickNone, CheckPasses, DualRefused,
                AssignAccount, BeginAttempt, Execute, UnassignAccount, Settle
  <1>7. ASSUME WorkerFault(w)
        PROVE  accounts' = accounts
    BY <1>7 DEF WorkerFault, Crash, Cancelled, StatementFailsInTry, AttemptRowFails,
                StatementFailsQuietly, StatementFailsInHandler, ReleaseFails
  <1>8. CASE accounts' = accounts
    BY <1>8, NoAccount
  <1>9. QED
    BY <1>1, <1>2, <1>3, <1>4, <1>5, <1>6, <1>7, <1>8 DEF WorkerStep

\* What any step does to the accounts.
LEMMA NextAccountSteps ==
    ASSUME TypeInv, [Next]_vars
    PROVE  AccountSteps
  <1>0. \A a \in Accounts : accounts[a] \in AccountRow
    BY DEF TypeInv, TypeOK
  <1>1. ASSUME NEW w \in Workers, WorkerStep(w) \/ WorkerFault(w)
        PROVE  AccountSteps
    BY <1>1, WorkerAccountSteps
  <1>2. CASE ReleaseOrphanAccountLocks \/ MarkStuckTimedOut
    <2>1. PICK S \in SUBSET Accounts :
             /\ accounts' = Freed(S)
             /\ \A a \in S : /\ accounts[a].task \in Tasks
                           /\ \/ tasks[accounts[a].task].status # "in_progress"
                              \/ TimedOut(tasks[accounts[a].task])
      <3>1. CASE ReleaseOrphanAccountLocks
        <4> DEFINE S == {a \in Accounts : Orphaned(a)}
        <4>1. \A a \in S : /\ accounts[a].task \in Tasks
                         /\ tasks[accounts[a].task].status # "in_progress"
          BY <1>0 DEF Orphaned, AccountRow
        <4>2. QED
          BY <3>1, <4>1 DEF ReleaseOrphanAccountLocks
      <3>2. CASE MarkStuckTimedOut
        <4> DEFINE marked == {t \in Tasks : TimedOut(tasks[t])}
                   S == {a \in Accounts : accounts[a].task \in marked}
        <4>1. accounts' = Freed(S)
          BY <3>2 DEF MarkStuckTimedOut
        <4>2. \A a \in S : accounts[a].task \in Tasks /\ TimedOut(tasks[accounts[a].task])
          OBVIOUS
        <4>3. QED
          BY <4>1, <4>2
      <3>3. QED
        BY <1>2, <3>1, <3>2
    <2>2. ASSUME NEW a \in Accounts
          PROVE  accounts'[a] \in AccountRow /\ AccountStep(a)
      <3>1. CASE a \in S
        <4>1. accounts'[a] = [accounts[a] EXCEPT !.task = None]
          BY <2>1, <3>1 DEF Freed
        <4>2. [accounts[a] EXCEPT !.task = None] \in AccountRow
          BY <1>0, AccountRows
        <4>3. QED
          BY <2>1, <3>1, <4>1, <4>2 DEF AccountStep
      <3>2. CASE a \notin S
        <4>1. accounts'[a] = accounts[a]
          BY <2>1, <3>2 DEF Freed
        <4>2. QED
          BY <1>0, <4>1 DEF AccountStep
      <3>3. QED
        BY <3>1, <3>2
    <2>3. accounts' = [a \in Accounts |-> accounts'[a]]
      BY <2>1 DEF Freed
    <2>4. QED
      BY <2>2, <2>3 DEF AccountSteps
  <1>3. ASSUME NEW a \in Accounts, MonitorMarks(a)
        PROVE  AccountSteps
    <2> DEFINE rows == {Banned(accounts[a]), Errored(accounts[a]), CooledDown(accounts[a]),
                        Reactivated(accounts[a])}
    <2>1. PICK row \in rows : accounts' = [accounts EXCEPT ![a] = row]
      BY <1>3 DEF MonitorMarks
    <2>2. rows \subseteq AccountRow
      BY <1>0, AccountRows
    <2>3. accounts'[a] = row => AccountStep(a)
      BY <1>3, <2>1 DEF AccountStep, MonitorMarks
    <2>4. QED
      BY <2>1, <2>2, <2>3, OneAccount
  <1>4. CASE ClearExpiredCooldowns
    <2>1. accounts' = [a \in Accounts |-> CooldownCleared(accounts[a])]
      BY <1>4 DEF ClearExpiredCooldowns
    <2>2. \A a \in Accounts : CooldownCleared(accounts[a]) \in AccountRow
      BY <1>0, AccountRows
    <2>3. QED
      BY <2>1, <2>2 DEF AccountSteps, AccountStep
  <1>5. ASSUME NEW a \in Accounts, CooldownPasses(a)
        PROVE  AccountSteps
    <2> DEFINE row == [accounts[a] EXCEPT !.cooling = FALSE]
    <2>1. accounts' = [accounts EXCEPT ![a] = row]
      BY <1>5 DEF CooldownPasses
    <2>2. row \in AccountRow
      BY <1>0, AccountRows
    <2>3. accounts'[a] = row => AccountStep(a)
      BY DEF AccountStep
    <2>4. QED
      BY <2>1, <2>2, <2>3, OneAccount
  <1>6. CASE \/ \E t \in Tasks : \/ Enqueue(t) \/ RunAfterPasses(t)
                               \/ LeaseRunsOut(t) \/ TimeoutPasses(t)
             \/ UNCHANGED vars
    <2>1. accounts' = accounts
      BY <1>6 DEF Enqueue, RunAfterPasses, LeaseRunsOut, TimeoutPasses, vars
    <2>2. QED
      BY <2>1, NoAccount
  <1>7. QED
    BY <1>1, <1>2, <1>3, <1>4, <1>5, <1>6 DEF Next

-----------------------------------------------------------------------------
(* The inductive step of the types.                                        *)

\* One worker moves at a time.
LEMMA NextMoves ==
    ASSUME TypeInv, [Next]_vars
    PROVE  \/ wk' = wk
           \/ \E w \in Workers : /\ WorkerStep(w) \/ WorkerFault(w)
                                /\ \E s \in WorkerState : Shape(s) /\ Becomes(w, s)
  <1>1. ASSUME NEW w \in Workers, WorkerStep(w) \/ WorkerFault(w)
        PROVE  \E s \in WorkerState : Shape(s) /\ Becomes(w, s)
    BY <1>1, WorkerStepMoves, WorkerFaultMoves
  <1>2. CASE ~ \E w \in Workers : WorkerStep(w) \/ WorkerFault(w)
    BY <1>2 DEF Next, vars, Enqueue, ReleaseOrphanAccountLocks, MarkStuckTimedOut,
                MonitorMarks, ClearExpiredCooldowns, RunAfterPasses, LeaseRunsOut,
                TimeoutPasses, CooldownPasses
  <1>3. QED
    BY <1>1, <1>2

\* The history and the count of faults stay numbers.
LEMMA NextCounts ==
    ASSUME TypeInv, [Next]_vars
    PROVE  effects' \in [Tasks -> Nat] /\ faults' \in Nat
  <1> USE DEF TypeInv, TypeOK
  <1>1. ASSUME NEW w \in Workers, Execute(w)
        PROVE  effects' \in [Tasks -> Nat] /\ faults' \in Nat
    <2>1. faults' = faults
      BY <1>1 DEF Execute
    <2>2. MyTask(w) \in Tasks
      BY <1>1, Standing DEF Execute
    <2>3. effects' = effects \/ effects' = [effects EXCEPT ![MyTask(w)] = @ + 1]
      BY <1>1 DEF Execute
    <2>4. QED
      BY <2>1, <2>2, <2>3
  <1>2. ASSUME NEW w \in Workers, WorkerFault(w)
        PROVE  effects' = effects /\ faults' = faults + 1
    BY <1>2 DEF WorkerFault, Crash, Cancelled, StatementFailsInTry, AttemptRowFails,
                StatementFailsQuietly, StatementFailsInHandler, ReleaseFails, Fault
  <1>3. ASSUME NEW w \in Workers, WorkerStep(w), ~Execute(w)
        PROVE  effects' = effects /\ faults' = faults
    BY <1>3 DEF WorkerStep, ClaimNext, RefuseType, PickAccount, PickNone, ReserveFixed,
                CheckPasses, CheckRefuses, DualRefused, ReservePair, AssignAccount,
                BeginAttempt, SyncAccountHealth, UnassignAccount, Settle, ReleaseAccount
  <1>4. CASE ~ \E w \in Workers : WorkerStep(w) \/ WorkerFault(w)
    BY <1>4 DEF Next, vars, Enqueue, ReleaseOrphanAccountLocks, MarkStuckTimedOut,
                MonitorMarks, ClearExpiredCooldowns, RunAfterPasses, LeaseRunsOut,
                TimeoutPasses, CooldownPasses
  <1>5. QED
    BY <1>1, <1>2, <1>3, <1>4

\* TypeInv is inductive.
LEMMA NextTypeInv == TypeInv /\ [Next]_vars => TypeInv'
  <1> SUFFICES ASSUME TypeInv, [Next]_vars PROVE TypeInv'
    OBVIOUS
  <1>1. tasks' \in [Tasks -> TaskRow]
    BY NextRowSteps DEF RowSteps
  <1>2. accounts' \in [Accounts -> AccountRow]
    BY NextAccountSteps DEF AccountSteps
  <1>3. wk' \in [Workers -> WorkerState] /\ WorkerShape'
    <2>1. CASE wk' = wk
      BY <2>1 DEF TypeInv, TypeOK, WorkerShape
    <2>2. CASE wk' # wk
      BY <2>2, NextMoves, WorkerMoves
    <2>3. QED
      BY <2>1, <2>2
  <1>4. QED
    BY <1>1, <1>2, <1>3, NextCounts DEF TypeInv, TypeOK

\* Every variable keeps its type, whatever the workers, the watchdog and the clock
\* do, and a worker is never without the account its next statement names.
THEOREM TypeCorrect == Spec => []TypeOK
  <1>1. Spec => []TypeInv
    BY InitTypeInv, NextTypeInv, PTL DEF Spec
  <1>2. TypeInv => TypeOK
    BY DEF TypeInv
  <1>3. QED
    BY <1>1, <1>2, PTL

\* The inductive invariant the other theorems start from.
THEOREM TypeInvariant == Spec => []TypeInv
  BY InitTypeInv, NextTypeInv, PTL DEF Spec

-----------------------------------------------------------------------------
(* Locks.                                                                  *)

\* What every way out of in_progress leaves of a row.
Ended(q, r) ==
    /\ q.status \in {"queued", "scheduled", "retry", "done", "failed", "stuck"}
    /\ q.lockedBy = None
    /\ q.lease = "none"
    /\ q.late = FALSE
    /\ q.attempts = r.attempts

LEMMA EndedRows ==
    ASSUME NEW r \in TaskRow
    PROVE  /\ Ended(Completed(r), r)
           /\ Ended(FailedRow(r), r)
           /\ Ended(RetryRow(r), r)
           /\ Ended(Postponed(r), r)
           /\ Ended(Rescheduled(r), r)
           /\ Ended(Marked(r), r)
           /\ \A o : Ended(Settled(r, o), r)
  <1> USE DEF TaskRow, Ended
  <1>1. Ended(Completed(r), r)
    BY DEF Completed, Unlocked
  <1>2. Ended(FailedRow(r), r)
    BY DEF FailedRow, Unlocked
  <1>3. Ended(RetryRow(r), r)
    BY DEF RetryRow, Unlocked
  <1>4. Ended(Postponed(r), r)
    <2>1. CASE r.postpones >= MaxPostpone
      BY <2>1, <1>2 DEF Postponed
    <2>2. CASE ~(r.postpones >= MaxPostpone)
      BY <2>2 DEF Postponed, ScheduledRow, Unlocked
    <2>3. QED
      BY <2>1, <2>2
  <1>5. Ended(Rescheduled(r), r)
    BY <1>2, <1>3 DEF Rescheduled
  <1>6. Ended(Marked(r), r)
    <2>1. CASE ~AutoRetry
      BY <2>1 DEF Marked, Unlocked
    <2>2. CASE AutoRetry /\ CanRetry(r)
      BY <2>2 DEF Marked, RetryRow, Unlocked
    <2>3. CASE AutoRetry /\ ~CanRetry(r)
      BY <2>3, <1>2 DEF Marked
    <2>4. QED
      BY <2>1, <2>2, <2>3
  <1>7. \A o : Ended(Settled(r, o), r)
    BY <1>1, <1>2, <1>4, <1>5 DEF Settled
  <1>8. QED
    BY <1>1, <1>2, <1>3, <1>4, <1>5, <1>6, <1>7

\* LockDiscipline is inductive on its own: each statement writes status, locked_by
\* and locked_until together.
LEMMA NextLockDiscipline == TypeInv /\ LockDiscipline /\ [Next]_vars => LockDiscipline'
  <1> SUFFICES ASSUME TypeInv, LockDiscipline, [Next]_vars, NEW t \in Tasks
               PROVE  /\ tasks'[t].status = "in_progress" <=> tasks'[t].lockedBy # None
                      /\ tasks'[t].status = "in_progress" <=> tasks'[t].lease # "none"
                      /\ tasks'[t].late => tasks'[t].status = "in_progress"
    BY DEF LockDiscipline
  <1> DEFINE r == tasks[t]
             q == tasks'[t]
             Locks(x) == /\ x.status = "in_progress" <=> x.lockedBy # None
                         /\ x.status = "in_progress" <=> x.lease # "none"
                         /\ x.late => x.status = "in_progress"
  <1>1. r \in TaskRow /\ Locks(r) /\ RowStep(t)
    BY NextRowSteps DEF RowSteps, LockDiscipline, TypeInv, TypeOK
  <1>2. ASSUME Ended(q, r) PROVE Locks(q)
    BY <1>2 DEF Ended
  <1>3. ASSUME NEW due \in BOOLEAN, q = Inserted(Pinned[t], due) PROVE Locks(q)
    BY <1>3 DEF Inserted
  <1>4. ASSUME NEW w \in Workers, q = Claimed(r, w) PROVE Locks(q)
    BY <1>1, <1>4, TableAssumption DEF Claimed, TaskRow
  <1>5. ASSUME NEW a, q = [r EXCEPT !.acc = a] PROVE Locks(q)
    BY <1>1, <1>5 DEF TaskRow
  <1>6. CASE q = BegunAttempt(r)
    BY <1>1, <1>6 DEF TaskRow, BegunAttempt
  <1>7. CASE q = [r EXCEPT !.due = TRUE]
    BY <1>1, <1>7 DEF TaskRow
  <1>8. CASE r.lease = "live" /\ q = [r EXCEPT !.lease = "over"]
    BY <1>1, <1>8 DEF TaskRow
  <1>9. CASE r.status = "in_progress" /\ q = [r EXCEPT !.late = TRUE]
    BY <1>1, <1>9 DEF TaskRow
  <1>10. CASE q = r
    BY <1>1, <1>10
  <1>11. ASSUME NEW o, q = Settled(r, o) \/ q = Marked(r) PROVE Locks(q)
    BY <1>1, <1>2, <1>11, EndedRows
  <1>12. Locks(q)
    BY <1>1, <1>3, <1>4, <1>5, <1>6, <1>7, <1>8, <1>9, <1>10, <1>11 DEF RowStep
  <1>13. QED
    BY <1>12

\* A row carries a lock exactly while it is in progress, in every reachable state.
THEOREM LocksAreDisciplined == Spec => []LockDiscipline
  <1>1. ASSUME Init, NEW t \in Tasks
        PROVE  /\ tasks[t].status = "absent"
               /\ tasks[t].lockedBy = None
               /\ tasks[t].lease = "none"
               /\ tasks[t].late = FALSE
    <2>1. tasks[t] = [Inserted(Pinned[t], FALSE) EXCEPT !.status = "absent"]
      BY <1>1 DEF Init
    <2>2. QED
      BY <2>1 DEF Inserted
  <1>2. Init => LockDiscipline
    BY <1>1 DEF LockDiscipline
  <1>3. QED
    BY <1>2, NextLockDiscipline, TypeInvariant, PTL DEF Spec

-----------------------------------------------------------------------------
(* Who takes a task out of in_progress, and what is final.                 *)

\* Only the owner, where it settles, or the watchdog, after lease and timeout.
THEOREM OnlyOwnerOrTimeoutEnds == Spec => OwnerOrTimeoutEnds
  <1> DEFINE Ends == \A t \in Tasks :
                        tasks[t].status = "in_progress" /\ tasks'[t].status # "in_progress" =>
                           \/ tasks[t].late /\ tasks[t].lease = "over"
                           \/ \E w \in Workers : /\ wk[w].task = t
                                                 /\ wk[w].pc = "settle"
                                                 /\ tasks[t].lockedBy = w
  <1>1. TypeInv /\ LockDiscipline /\ [Next]_vars => Ends
    <2> SUFFICES ASSUME TypeInv, LockDiscipline, [Next]_vars, NEW t \in Tasks,
                        tasks[t].status = "in_progress", tasks'[t].status # "in_progress"
                 PROVE  \/ tasks[t].late /\ tasks[t].lease = "over"
                        \/ \E w \in Workers : /\ wk[w].task = t
                                              /\ wk[w].pc = "settle"
                                              /\ tasks[t].lockedBy = w
      OBVIOUS
    <2> DEFINE r == tasks[t]
               q == tasks'[t]
    <2>1. r \in TaskRow /\ RowStep(t) /\ r.lease # "none"
      BY NextRowSteps DEF RowSteps, LockDiscipline, TypeInv, TypeOK
    <2>2. ASSUME NEW a PROVE q # [r EXCEPT !.acc = a]
      BY <2>1 DEF TaskRow
    <2>3. q # BegunAttempt(r)
      BY <2>1 DEF TaskRow, BegunAttempt
    <2>4. /\ q # r
          /\ q # [r EXCEPT !.lease = "over"]
          /\ q # [r EXCEPT !.late = TRUE]
          /\ r.status \notin Claimable
      BY <2>1 DEF TaskRow, Claimable
    <2>5. CASE \E w \in Workers : /\ HeldBy(r, w)
                                 /\ wk[w].task = t
                                 /\ wk[w].pc = "settle"
      BY <2>5 DEF HeldBy
    <2>6. CASE TimedOut(r)
      BY <2>1, <2>6 DEF TimedOut, TaskRow
    <2>7. QED
      BY <2>1, <2>2, <2>3, <2>4, <2>5, <2>6 DEF RowStep, ClaimReady
  <1>2. TypeInv /\ LockDiscipline /\ [Next]_vars => [Ends]_vars
    BY <1>1
  <1>3. QED
    BY <1>2, TypeInvariant, LocksAreDisciplined, PTL DEF Spec, OwnerOrTimeoutEnds

\* Nothing reaches the row of a finished task.
THEOREM Final == Spec => FinishedIsFinal
  <1> DEFINE Stays == \A t \in Tasks : tasks[t].status \in Terminal => tasks'[t] = tasks[t]
  <1>1. TypeInv /\ LockDiscipline /\ [Next]_vars => Stays
    <2> SUFFICES ASSUME TypeInv, LockDiscipline, [Next]_vars, NEW t \in Tasks,
                        tasks[t].status \in Terminal
                 PROVE  tasks'[t] = tasks[t]
      OBVIOUS
    <2>1. RowStep(t) /\ tasks[t].lease = "none"
      BY NextRowSteps DEF RowSteps, LockDiscipline, Terminal
    <2>2. tasks[t].status \notin Claimable \cup {"absent", "in_progress"}
      BY DEF Terminal, Claimable
    <2>3. QED
      BY <2>1, <2>2 DEF RowStep, ClaimReady, HeldBy, TimedOut
  <1>2. TypeInv /\ LockDiscipline /\ [Next]_vars => [Stays]_vars
    BY <1>1
  <1>3. QED
    BY <1>2, TypeInvariant, LocksAreDisciplined, PTL DEF Spec, FinishedIsFinal

-----------------------------------------------------------------------------
(***************************************************************************)
(* No account in two hands.  The theorem is about a queue whose workers do *)
(* not outlive their lease and whose health monitor keeps off accounts in  *)
(* use: without the first, TLC finds the account freed under its user      *)
(* (queue_overrun).  accounts.current_task_id names a task and not a       *)
(* worker, so the argument has to show that a task never has two workers,  *)
(* not even while the first is only releasing.                             *)
(***************************************************************************)

\* The claim still stands.
Leased(w) == LET r == tasks[wk[w].task] IN HeldBy(r, w) /\ r.lease = "live"

\* No one can claim the row.
Shut(r) == r.status \in Terminal \/ (r.status \in Claimable /\ ~r.due)

ClaimStands(w) ==
    /\ wk[w].pc \notin {"idle", "release"} => Leased(w)
    /\ wk[w].pc = "release" => Leased(w) \/ Shut(tasks[wk[w].task])

OneWorkerPerTask ==
    \A v, w \in Workers :
       v # w /\ wk[v].pc # "idle" /\ wk[w].pc # "idle" => wk[v].task # wk[w].task

\* From the reservation to the statement that may end it.
Relies(s) == s.pc \in {"check", "assign", "begin", "running", "sync"}

ReservationHolds(w) ==
    Relies(wk[w]) => \A a \in wk[w].held : accounts[a].task = wk[w].task

TargetInHand(w) ==
    wk[w].pc \in {"begin", "running", "sync"} /\ wk[w].task \in Dual =>
       Target[wk[w].task] \in wk[w].held

ExclusiveInv ==
    /\ \A w \in Workers : ClaimStands(w)
    /\ OneWorkerPerTask
    /\ \A w \in Workers : ReservationHolds(w)
    /\ \A w \in Workers : TargetInHand(w)

-----------------------------------------------------------------------------
\* What a step may do to one worker: nothing that changes its task but leaving it
\* or claiming another; and what it relies on, it held before or just reserved.
WorkerMove(w) ==
    LET me == wk[w]
        he == wk'[w]
    IN
    /\ \/ he.pc = "idle"
       \/ /\ me.pc # "idle"
          /\ he.task = me.task
          /\ me.pc = "release" => he.pc = "release"
       \/ /\ me.pc = "idle"
          /\ he.pc = "reserve"
          /\ he.task \in Tasks
          /\ ClaimReady(tasks[he.task])
          /\ tasks'[he.task] = Claimed(tasks[he.task], w)
    /\ Relies(he) => \/ Relies(me) /\ he.held = me.held
                     \/ \A a \in he.held : accounts'[a].task = he.task
    /\ he.pc \in {"begin", "running", "sync"} =>
          \/ me.pc \in {"begin", "running"} /\ he.held = me.held /\ he.task = me.task
          \/ he = me
          \/ he.task \notin Dual
          \/ Target[he.task] \in he.held

\* A worker that only moves on, or gives up.
LEMMA MovesOn ==
    ASSUME NEW w \in Workers, NEW pc, NEW o, wk[w] \in WorkerState,
           wk'[w] = [wk[w] EXCEPT !.pc = pc, !.out = o] \/ wk'[w] = [wk[w] EXCEPT !.pc = pc],
           wk[w].pc \notin {"idle", "release"},
           pc \in {"check", "assign", "begin", "running", "sync"} => Relies(wk[w]),
           pc \in {"begin", "running", "sync"} =>
              wk[w].pc \in {"begin", "running"} \/ wk[w].task \notin Dual
    PROVE  WorkerMove(w)
  <1>1. wk'[w].pc = pc /\ wk'[w].task = wk[w].task /\ wk'[w].held = wk[w].held
    BY DEF WorkerState
  <1>2. QED
    BY <1>1 DEF WorkerMove, Relies

\* A worker that has left.
LEMMA HasLeft ==
    ASSUME NEW w \in Workers, wk[w] \in WorkerState,
           \/ wk'[w] = Idle
           \/ wk[w].pc # "idle" /\ wk'[w] = [wk[w] EXCEPT !.pc = "release"]
    PROVE  WorkerMove(w)
  <1>1. CASE wk'[w] = Idle
    BY <1>1 DEF WorkerMove, Relies, Idle
  <1>2. CASE wk[w].pc # "idle" /\ wk'[w] = [wk[w] EXCEPT !.pc = "release"]
    <2>1. wk'[w].pc = "release" /\ wk'[w].task = wk[w].task
      BY <1>2 DEF WorkerState
    <2>2. QED
      BY <1>2, <2>1 DEF WorkerMove, Relies
  <1>3. QED
    BY <1>1, <1>2

LEMMA NextWorkerMove ==
    ASSUME TypeInv, [Next]_vars, NEW w \in Workers
    PROVE  WorkerMove(w)
  <1> DEFINE me == wk[w]
             he == wk'[w]
             t  == MyTask(w)
  <1>0. /\ me \in WorkerState
        /\ Shape(me)
        /\ me.pc # "idle" => t \in Tasks /\ me.task = t
        /\ \A a \in Accounts : accounts[a] \in AccountRow
    BY Standing DEF TypeInv, TypeOK, MyTask
  <1>u. ASSUME NEW s, Becomes(w, s) PROVE he = s
    BY <1>u DEF TypeInv, TypeOK, Becomes
  <1>f. ASSUME NEW pc \in {"settle", "unassign"}, NEW o, Fail(w, pc, o),
               me.pc \notin {"idle", "release"}
        PROVE  WorkerMove(w)
    BY <1>0, <1>u, <1>f, MovesOn DEF Fail
  <1>l. ASSUME Leave(w), me.pc # "idle" PROVE WorkerMove(w)
    BY <1>0, <1>u, <1>l, HasLeft DEF Leave
  <1>1. CASE he = me
    BY <1>0, <1>1 DEF WorkerMove
  <1>2. CASE WorkerStep(w)
    <2>1. ASSUME NEW u \in Tasks, ClaimNext(w, u) PROVE WorkerMove(w)
      <3>1. he = [Idle EXCEPT !.pc = "reserve", !.task = u, !.acc = tasks[u].acc]
        BY <1>u, <2>1 DEF ClaimNext
      <3>2. he.pc = "reserve" /\ he.task = u
        BY <3>1 DEF Idle
      <3>3. tasks'[u] = Claimed(tasks[u], w)
        BY <2>1 DEF ClaimNext, TypeInv, TypeOK
      <3>4. QED
        BY <2>1, <3>2, <3>3 DEF WorkerMove, Relies, ClaimNext
    <2>2. CASE RefuseType(w) \/ PickNone(w) \/ DualRefused(w)
      BY <1>f, <2>2 DEF RefuseType, PickNone, DualRefused, Reserving
    <2>3. CASE PickAccount(w)
      <3>1. PICK a \in Accounts : /\ accounts' = [accounts EXCEPT ![a] = Picked(@, t)]
                                 /\ he = [me EXCEPT !.pc = "check", !.held = {a}]
        BY <1>u, <2>3 DEF PickAccount
      <3>2. me.pc = "reserve" /\ t \in Tasks /\ me.task = t
        BY <1>0, <2>3 DEF PickAccount, Reserving
      <3>3. he.pc = "check" /\ he.held = {a} /\ he.task = t
        BY <1>0, <3>1, <3>2 DEF WorkerState
      <3>4. Picked(accounts[a], t).task = t
        BY <1>0 DEF Picked, AccountRow
      <3>5. accounts'[a].task = t
        BY <3>1, <3>4 DEF TypeInv, TypeOK
      <3>6. QED
        BY <3>2, <3>3, <3>5 DEF WorkerMove, Relies
    <2>4. CASE ReserveFixed(w)
      <3>1. me.pc = "reserve" /\ me.acc \in Accounts /\ t \in Tasks /\ me.task = t
        BY <1>0, <2>4 DEF ReserveFixed, Reserving, WorkerState
      <3>2. CASE \E pc \in {"settle", "unassign"} : Fail(w, pc, "postponed")
        BY <1>f, <3>1, <3>2
      <3>3. CASE /\ accounts' = [accounts EXCEPT ![me.acc] = Reserved(@, t)]
                 /\ Becomes(w, [me EXCEPT !.pc = "check", !.held = {me.acc}])
        <4>1. he = [me EXCEPT !.pc = "check", !.held = {me.acc}]
          BY <1>u, <3>3
        <4>2. he.pc = "check" /\ he.held = {me.acc} /\ he.task = t
          BY <1>0, <3>1, <4>1 DEF WorkerState
        <4>3. Reserved(accounts[me.acc], t).task = t
          BY <1>0, <3>1 DEF Reserved, AccountRow
        <4>4. accounts'[me.acc].task = t
          BY <3>1, <3>3, <4>3 DEF TypeInv, TypeOK
        <4>5. QED
          BY <3>1, <4>2, <4>4 DEF WorkerMove, Relies
      <3>4. QED
        BY <2>4, <3>2, <3>3 DEF ReserveFixed
    <2>5. CASE CheckPasses(w)
      <3>1. me.pc = "check" /\ me.task \notin Dual
        BY <1>0, <2>5 DEF CheckPasses, Shape
      <3>2. PICK pc \in {"assign", "begin"} : he = [me EXCEPT !.pc = pc]
        BY <1>u, <2>5 DEF CheckPasses, Goto
      <3>3. QED
        BY <1>0, <3>1, <3>2, MovesOn DEF Relies
    <2>6. CASE CheckRefuses(w)
      <3>1. me.pc = "check"
        BY <2>6 DEF CheckRefuses
      <3>2. PICK a \in me.held :
               \/ he = [me EXCEPT !.pc = "reserve", !.held = {}, !.rejected = @ \cup {a}]
               \/ he = [me EXCEPT !.pc = "settle", !.held = {}, !.out = "postponed"]
        BY <1>u, <2>6 DEF CheckRefuses
      <3>3. he.pc \in {"reserve", "settle"} /\ he.task = me.task
        BY <1>0, <3>2 DEF WorkerState
      <3>4. QED
        BY <3>1, <3>3 DEF WorkerMove, Relies
    <2>7. CASE ReservePair(w)
      <3> DEFINE x == Source[t]
                 y == Target[t]
      <3>1. me.pc = "reserve" /\ t \in Tasks /\ me.task = t
        BY <1>0, <2>7 DEF ReservePair, Reserving
      <3>2. CASE Fail(w, "settle", "postponed")
        BY <1>f, <3>1, <3>2
      <3>3. CASE /\ accounts' = [accounts EXCEPT ![x] = Reserved(@, t), ![y] = Reserved(@, t)]
                 /\ Becomes(w, [me EXCEPT !.pc = "begin", !.held = {x, y}])
        <4>1. x \in Accounts /\ y \in Accounts /\ x # y
          BY <2>7, <3>1, DispatchAssumption DEF ReservePair
        <4>2. he = [me EXCEPT !.pc = "begin", !.held = {x, y}]
          BY <1>u, <3>3
        <4>3. he.pc = "begin" /\ he.held = {x, y} /\ he.task = t
          BY <1>0, <3>1, <4>2 DEF WorkerState
        <4>4. Reserved(accounts[x], t).task = t /\ Reserved(accounts[y], t).task = t
          BY <1>0, <4>1 DEF Reserved, AccountRow
        <4>5. accounts'[x].task = t /\ accounts'[y].task = t
          BY <3>3, <4>1, <4>4 DEF TypeInv, TypeOK
        <4>6. QED
          BY <3>1, <4>3, <4>5 DEF WorkerMove, Relies
      <3>4. QED
        BY <2>7, <3>2, <3>3 DEF ReservePair
    <2>8. CASE AssignAccount(w)
      <3>1. me.pc = "assign" /\ me.task \notin Dual
        BY <1>0, <2>8 DEF AssignAccount, Shape
      <3>2. he = [me EXCEPT !.pc = "begin"]
        BY <1>u, <2>8 DEF AssignAccount, Goto
      <3>3. QED
        BY <1>0, <3>1, <3>2, MovesOn DEF Relies
    <2>9. CASE BeginAttempt(w)
      <3>1. me.pc = "begin"
        BY <2>9 DEF BeginAttempt
      <3>2. CASE Fail(w, "settle", "transient")
        BY <1>f, <3>1, <3>2
      <3>3. CASE Goto(w, "running")
        <4>1. he = [me EXCEPT !.pc = "running"]
          BY <1>u, <3>3 DEF Goto
        <4>2. QED
          BY <1>0, <3>1, <4>1, MovesOn DEF Relies
      <3>4. QED
        BY <2>9, <3>2, <3>3 DEF BeginAttempt
    <2>10. CASE Execute(w)
      <3>1. me.pc = "running"
        BY <2>10 DEF Execute
      <3>2. PICK o \in Outcomes, pc \in {"sync", "settle", "unassign"} :
               he = [me EXCEPT !.pc = pc, !.out = o]
        BY <1>u, <2>10 DEF Execute, AfterSync, Fail
      <3>3. QED
        BY <1>0, <3>1, <3>2, MovesOn DEF Relies
    <2>11. CASE SyncAccountHealth(w)
      <3>1. me.pc = "sync"
        BY <2>11 DEF SyncAccountHealth
      <3>2. PICK pc \in {"settle", "unassign"} : he = [me EXCEPT !.pc = pc]
        BY <1>u, <2>11 DEF SyncAccountHealth, AfterSync, Goto
      <3>3. QED
        BY <1>0, <3>1, <3>2, MovesOn
    <2>12. CASE UnassignAccount(w)
      <3>1. me.pc = "unassign" /\ he = [me EXCEPT !.pc = "settle"]
        BY <1>u, <2>12 DEF UnassignAccount, Goto
      <3>2. QED
        BY <1>0, <3>1, MovesOn
    <2>13. CASE Settle(w)
      BY <1>l, <2>13 DEF Settle
    <2>14. CASE ReleaseAccount(w)
      <3>1. me.pc = "release"
        BY <2>14 DEF ReleaseAccount
      <3>2. PICK a \in me.held :
               he = Idle \/ he = [me EXCEPT !.held = @ \ {a}]
        BY <1>u, <2>14 DEF ReleaseAccount
      <3>3. CASE he = Idle
        BY <1>0, <3>3, HasLeft
      <3>4. CASE he = [me EXCEPT !.held = @ \ {a}]
        <4>1. he.pc = "release" /\ he.task = me.task
          BY <1>0, <3>1, <3>4 DEF WorkerState
        <4>2. QED
          BY <3>1, <4>1 DEF WorkerMove, Relies
      <3>5. QED
        BY <3>2, <3>3, <3>4
    <2>15. QED
      BY <1>2, <2>1, <2>2, <2>3, <2>4, <2>5, <2>6, <2>7, <2>8, <2>9, <2>10, <2>11,
         <2>12, <2>13, <2>14 DEF WorkerStep
  <1>3. CASE WorkerFault(w)
    <2>1. CASE Crash(w) \/ ReleaseFails(w)
      BY <1>0, <1>u, <2>1, HasLeft DEF Crash, ReleaseFails
    <2>2. CASE Cancelled(w)
      <3>1. me.pc # "idle" /\ (Becomes(w, Idle) \/ Leave(w))
        BY <2>2 DEF Cancelled
      <3>2. QED
        BY <1>0, <1>u, <1>l, <3>1, HasLeft
    <2>3. CASE StatementFailsInTry(w)
      <3>1. PICK H : he = [me EXCEPT !.pc = "settle", !.out = "transient", !.held = H]
        BY <1>u, <2>3 DEF StatementFailsInTry
      <3>2. he.pc = "settle" /\ he.task = me.task
        BY <1>0, <3>1 DEF WorkerState
      <3>3. me.pc \notin {"idle", "release"}
        BY <2>3 DEF StatementFailsInTry
      <3>4. QED
        BY <3>2, <3>3 DEF WorkerMove, Relies
    <2>4. CASE AttemptRowFails(w)
      BY <1>f, <2>4 DEF AttemptRowFails
    <2>5. CASE StatementFailsQuietly(w)
      <3>1. me.pc \in {"sync", "unassign"}
        BY <2>5 DEF StatementFailsQuietly
      <3>2. PICK pc \in {"settle", "unassign"} : he = [me EXCEPT !.pc = pc]
        BY <1>u, <2>5 DEF StatementFailsQuietly, AfterSync, Goto
      <3>3. QED
        BY <1>0, <3>1, <3>2, MovesOn
    <2>6. CASE StatementFailsInHandler(w)
      BY <1>l, <2>6 DEF StatementFailsInHandler
    <2>7. QED
      BY <1>3, <2>1, <2>2, <2>3, <2>4, <2>5, <2>6 DEF WorkerFault
  <1>4. QED
    BY <1>1, <1>2, <1>3, NextMoves DEF TypeInv, TypeOK, Becomes

-----------------------------------------------------------------------------
(* The inductive step.                                                     *)

Assumed == /\ TypeInv /\ LockDiscipline /\ ExclusiveInv
           /\ [Next]_vars
           /\ ~Overruns /\ ~HealthMonitor

\* What the statements that settle a task leave for the next claim.
LEMMA SettledShut ==
    ASSUME NEW r \in TaskRow, NEW o
    PROVE  Shut(Settled(r, o))
  <1> USE DEF TaskRow, Shut, Terminal, Claimable
  <1>1. Shut(FailedRow(r)) /\ Shut(Completed(r)) /\ Shut(RetryRow(r))
    BY DEF FailedRow, Completed, RetryRow, Unlocked
  <1>2. Shut(Rescheduled(r))
    BY <1>1 DEF Rescheduled
  <1>3. Shut(Postponed(r))
    BY <1>1 DEF Postponed, ScheduledRow, Unlocked
  <1>4. QED
    BY <1>1, <1>2, <1>3 DEF Settled

\* The claim of a worker that stays survives whatever anyone does to the row.
LEMMA LeaseSurvives ==
    ASSUME Assumed, NEW w \in Workers, wk[w].pc # "idle", wk'[w].pc # "idle",
           wk'[w].task = wk[w].task, Leased(w),
           NEW t \in Tasks, t = wk[w].task
    PROVE  \/ HeldBy(tasks'[t], w) /\ tasks'[t].lease = "live"
           \/ wk'[w].pc = "release" /\ Shut(tasks'[t])
  <1> DEFINE r == tasks[t]
             q == tasks'[t]
  <1>1. r \in TaskRow /\ RowStep(t)
    BY NextRowSteps DEF Assumed, RowSteps, TypeInv, TypeOK
  <1>2. r.status = "in_progress" /\ r.lockedBy = w /\ r.lease = "live"
    BY DEF Leased, HeldBy
  <1>3. ~Patient(t)
    BY DEF Patient, Attended, Assumed
  <1>4. ~TimedOut(r) /\ ~ClaimReady(r) /\ r.status \notin Claimable \cup {"absent"}
    BY <1>2 DEF TimedOut, ClaimReady, Claimable
  <1>5. \A u \in Workers : HeldBy(r, u) => u = w
    BY <1>2 DEF HeldBy
  <1>6. CASE q = r \/ q = [r EXCEPT !.late = TRUE]
    BY <1>1, <1>2, <1>6 DEF HeldBy, TaskRow
  <1>7. ASSUME NEW a, q = [r EXCEPT !.acc = a]
        PROVE  HeldBy(q, w) /\ q.lease = "live"
    BY <1>1, <1>2, <1>7 DEF HeldBy, TaskRow
  <1>8. CASE q = BegunAttempt(r)
    BY <1>1, <1>2, <1>8 DEF HeldBy, TaskRow, BegunAttempt
  <1>9. CASE /\ q = Settled(r, wk[w].out)
             /\ wk'[w].pc \in {"idle", "release"}
    BY <1>1, <1>9, SettledShut
  <1>10. QED
    BY <1>1, <1>3, <1>4, <1>5, <1>6, <1>7, <1>8, <1>9 DEF RowStep

\* So does the impossibility to claim it.
LEMMA ShutSurvives ==
    ASSUME Assumed, NEW w \in Workers, wk[w].pc # "idle",
           NEW t \in Tasks, t = wk[w].task, Shut(tasks[t])
    PROVE  Shut(tasks'[t])
  <1> DEFINE r == tasks[t]
             q == tasks'[t]
  <1>1. r \in TaskRow /\ RowStep(t)
    BY NextRowSteps DEF Assumed, RowSteps, TypeInv, TypeOK
  <1>2. r.lease = "none" /\ r.status \notin {"absent", "in_progress"} /\ ~ClaimReady(r)
    BY <1>1 DEF Assumed, LockDiscipline, Shut, Terminal, Claimable, ClaimReady
  <1>3. ~Patient(t)
    BY DEF Patient, Attended, Assumed
  <1>4. QED
    BY <1>1, <1>2, <1>3 DEF RowStep, HeldBy, TimedOut

LEMMA NextClaimStands ==
    ASSUME Assumed, NEW w \in Workers
    PROVE  ClaimStands(w)'
  <1> DEFINE me == wk[w]
             he == wk'[w]
             t  == he.task
             Stands == HeldBy(tasks'[t], w) /\ tasks'[t].lease = "live"
  <1>0. WorkerMove(w) /\ TypeInv'
    BY NextWorkerMove, NextTypeInv DEF Assumed
  <1>1. SUFFICES ASSUME he.pc # "idle"
                 PROVE  Stands \/ (he.pc = "release" /\ Shut(tasks'[t]))
    BY DEF ClaimStands, Leased, HeldBy, Shut
  <1>2. t \in Tasks
    BY <1>0, <1>1 DEF TypeInv, TypeOK, WorkerState, WorkerShape, Shape
  <1>3. CASE me.pc = "idle"
    <2>1. tasks'[t] = Claimed(tasks[t], w)
      BY <1>0, <1>1, <1>3 DEF WorkerMove
    <2>2. tasks[t] \in TaskRow
      BY <1>2 DEF Assumed, TypeInv, TypeOK
    <2>3. QED
      BY <2>1, <2>2 DEF Claimed, HeldBy, TaskRow
  <1>4. CASE me.pc # "idle"
    <2>1. he.task = me.task /\ (me.pc = "release" => he.pc = "release")
      BY <1>0, <1>1, <1>4 DEF WorkerMove
    <2>2. CASE Leased(w)
      BY <1>1, <1>2, <1>4, <2>1, <2>2, LeaseSurvives
    <2>3. CASE ~Leased(w)
      <3>1. me.pc = "release" /\ Shut(tasks[t])
        BY <1>4, <2>1, <2>3 DEF Assumed, ExclusiveInv, ClaimStands
      <3>2. QED
        BY <1>2, <1>4, <2>1, <3>1, ShutSurvives
    <2>4. QED
      BY <2>2, <2>3
  <1>5. QED
    BY <1>3, <1>4

LEMMA NextOneWorkerPerTask ==
    ASSUME Assumed
    PROVE  OneWorkerPerTask'
  <1>1. SUFFICES ASSUME NEW v \in Workers, NEW w \in Workers, v # w,
                        wk'[v].pc # "idle", wk'[w].pc # "idle",
                        wk'[v].task = wk'[w].task
                 PROVE  FALSE
    BY DEF OneWorkerPerTask
  <1> DEFINE t == wk'[v].task
  <1>2. WorkerMove(v) /\ WorkerMove(w)
    BY NextWorkerMove DEF Assumed
  <1>3. ASSUME NEW u \in Workers, NEW x \in Workers, wk[u].pc = "idle", wk[x].pc # "idle",
               wk'[u].pc # "idle", wk'[x].pc # "idle",
               wk'[u].task = t, wk'[x].task = t
        PROVE  FALSE
    <2>1. ClaimReady(tasks[t]) /\ WorkerMove(x)
      BY <1>3, NextWorkerMove DEF WorkerMove, Assumed
    <2>2. wk[x].task = t
      BY <1>3, <2>1 DEF WorkerMove
    <2>3. Leased(x) \/ Shut(tasks[t])
      BY <1>3, <2>2 DEF Assumed, ExclusiveInv, ClaimStands
    <2>4. QED
      BY <2>1, <2>2, <2>3 DEF ClaimReady, Leased, HeldBy, Shut, Terminal, Claimable
  <1>4. CASE wk[v].pc # "idle" /\ wk[w].pc # "idle"
    <2>1. wk[v].task = wk[w].task
      BY <1>1, <1>2, <1>4 DEF WorkerMove
    <2>2. QED
      BY <1>1, <1>4, <2>1 DEF Assumed, ExclusiveInv, OneWorkerPerTask
  <1>5. CASE wk[v].pc = "idle" /\ wk[w].pc = "idle"
    <2>1. t \in Tasks /\ tasks'[t] = Claimed(tasks[t], v) /\ tasks'[t] = Claimed(tasks[t], w)
      BY <1>1, <1>2, <1>5 DEF WorkerMove
    <2>2. tasks[t] \in TaskRow
      BY <2>1 DEF Assumed, TypeInv, TypeOK
    <2>3. tasks'[t].lockedBy = v /\ tasks'[t].lockedBy = w
      BY <2>1, <2>2 DEF Claimed, TaskRow
    <2>4. QED
      BY <1>1, <2>3
  <1>6. QED
    BY <1>1, <1>3, <1>4, <1>5

\* No one else's statement takes a reservation from a worker that relies on it.
LEMMA ReservationSurvives ==
    ASSUME Assumed, NEW w \in Workers, NEW a \in Accounts,
           Relies(wk[w]), Relies(wk'[w]), a \in wk[w].held
    PROVE  accounts'[a].task = wk[w].task
  <1> DEFINE t == wk[w].task
             r == accounts[a]
             q == accounts'[a]
  <1>1. r \in AccountRow /\ AccountStep(a)
    BY NextAccountSteps DEF Assumed, AccountSteps, TypeInv, TypeOK
  <1>2. r.task = t /\ Leased(w) /\ t \in Tasks /\ t # None
    BY DispatchAssumption
       DEF Assumed, ExclusiveInv, ReservationHolds, ClaimStands, Relies,
           TypeInv, TypeOK, WorkerShape, Shape, WorkerState
  <1>3. ASSUME NEW u \in Workers, wk[u].pc # "idle", wk[u].task = t PROVE u = w
    BY <1>3 DEF Assumed, ExclusiveInv, OneWorkerPerTask, Relies
  <1>4. ASSUME NEW u \in Workers, wk[u].pc \in {"check", "release"},
               q = Released(r, wk[u].task),
               wk'[u].pc \in {"reserve", "settle", "idle", "release"}
        PROVE  q.task = t
    <2>1. CASE wk[u].task = t
      BY <1>3, <1>4, <2>1 DEF Relies
    <2>2. CASE wk[u].task # t
      BY <1>1, <1>2, <1>4, <2>2 DEF Released, AccountRow
    <2>3. QED
      BY <2>1, <2>2
  <1>5. ASSUME NEW u \in Workers, wk[u].pc = "sync", a = ExecuteAccount(u),
               wk'[u].pc \in {"settle", "unassign"}
        PROVE  FALSE
    <2>1. a \in wk[u].held
      BY <1>5 DEF ExecuteAccount, MyTask, Assumed, ExclusiveInv, TargetInHand,
                  TypeInv, WorkerShape, Shape
    <2>2. wk[u].task = t
      BY <1>2, <1>5, <2>1 DEF Assumed, ExclusiveInv, ReservationHolds, Relies
    <2>3. QED
      BY <1>3, <1>5, <2>2 DEF Relies
  <1>6. tasks[t].status = "in_progress" /\ ~TimedOut(tasks[t])
    BY <1>2 DEF Leased, HeldBy, TimedOut
  <1>7. CASE q \in {CooldownCleared(r), [r EXCEPT !.cooling = FALSE]}
    BY <1>1, <1>2, <1>7 DEF CooldownCleared, AccountRow
  <1>8. CASE q = r
    BY <1>2, <1>8
  <1>9. QED
    BY <1>1, <1>2, <1>4, <1>5, <1>6, <1>7, <1>8 DEF AccountStep, Assumed

LEMMA NextReservationHolds ==
    ASSUME Assumed, NEW w \in Workers
    PROVE  ReservationHolds(w)'
  <1>1. SUFFICES ASSUME Relies(wk'[w]), NEW a \in wk'[w].held
                 PROVE  accounts'[a].task = wk'[w].task
    BY DEF ReservationHolds, Relies
  <1>2. WorkerMove(w) /\ TypeInv'
    BY NextWorkerMove, NextTypeInv DEF Assumed
  <1>3. a \in Accounts
    BY <1>1, <1>2 DEF TypeInv, TypeOK, WorkerState
  <1>4. CASE Relies(wk[w]) /\ wk'[w].held = wk[w].held
    <2>1. wk'[w].task = wk[w].task
      BY <1>1, <1>2, <1>4 DEF WorkerMove, Relies
    <2>2. QED
      BY <1>1, <1>3, <1>4, <2>1, ReservationSurvives
  <1>5. QED
    BY <1>1, <1>2, <1>4 DEF WorkerMove

LEMMA NextTargetInHand ==
    ASSUME Assumed, NEW w \in Workers
    PROVE  TargetInHand(w)'
  <1>1. WorkerMove(w) /\ TargetInHand(w)
    BY NextWorkerMove DEF Assumed, ExclusiveInv
  <1>2. QED
    BY <1>1 DEF WorkerMove, TargetInHand

\* As long as workers do not outlive their leases, what a worker reserved stays
\* reserved for its task, through every release, sweep and health mark of others.
THEOREM ReservationsStand ==
    ASSUME ~Overruns, ~HealthMonitor
    PROVE  Spec => [](ReservationStands /\ AccountExclusive)
  <1>1. Init => ExclusiveInv
    <2>1. ASSUME Init, NEW w \in Workers PROVE wk[w].pc = "idle"
      BY <2>1 DEF Init, Idle
    <2>2. QED
      BY <2>1 DEF ExclusiveInv, ClaimStands, OneWorkerPerTask, ReservationHolds,
                  Relies, TargetInHand
  <1>2. TypeInv /\ LockDiscipline /\ ExclusiveInv /\ [Next]_vars => ExclusiveInv'
    <2> SUFFICES ASSUME TypeInv, LockDiscipline, ExclusiveInv, [Next]_vars
                 PROVE  ExclusiveInv'
      OBVIOUS
    <2>1. Assumed
      BY DEF Assumed
    <2>2. QED
      BY <2>1, NextClaimStands, NextOneWorkerPerTask, NextReservationHolds,
         NextTargetInHand DEF ExclusiveInv
  <1>3. TypeInv /\ ExclusiveInv => ReservationStands /\ AccountExclusive
    <2> SUFFICES ASSUME TypeInv, ExclusiveInv
                 PROVE  ReservationStands /\ AccountExclusive
      OBVIOUS
    <2>1. \A w \in Workers : Using(w) => Relies(wk[w]) /\ wk[w].pc # "idle"
      BY DEF Using, Relies
    <2>2. ReservationStands
      BY <2>1 DEF ExclusiveInv, ReservationHolds, ReservationStands
    <2>3. AccountExclusive
      BY <2>1, <2>2 DEF ExclusiveInv, OneWorkerPerTask, ReservationStands, AccountExclusive
    <2>4. QED
      BY <2>2, <2>3
  <1>4. QED
    BY <1>1, <1>2, <1>3, TypeInvariant, LocksAreDisciplined, PTL DEF Spec

-----------------------------------------------------------------------------
(***************************************************************************)
(* What the queue counts: attempts against max_attempts, work done against *)
(* retries and faults, and with them the lifecycle a producer is promised. *)
(*                                                                         *)
(* AttemptBound is not inductive: that begin_execution_attempt does not    *)
(* pass max_attempts rests on no row being claimable without an attempt    *)
(* left, and on the owner of a row not having used up that attempt before  *)
(* it comes to begin.  Nor is DuplicateWorkBound: the workers that may yet *)
(* do the work, and a row that a worker may yet claim, count with it.      *)
(***************************************************************************)

\* max_attempts, and one more for each postponement that followed an attempt.
Limit(r) == MaxAttempts + (IF "resource" \in Outcomes THEN r.postpones ELSE 0)

\* A worker that has not begun the attempt its claim was for, and still may, or
\* gives the task back with the attempt unused.
Unspent(s) == \/ s.pc \in {"reserve", "check", "assign", "begin"}
              \/ s.pc \in {"unassign", "settle"} /\ s.out = "postponed"

RowWithin(r) == /\ r.attempts <= Limit(r)
                /\ r.status \in Claimable \cup {"absent"} => r.attempts < Limit(r)

OwnerWithin(w) == /\ wk[w].task # None
                  /\ HeldBy(tasks[wk[w].task], w)
                  /\ Unspent(wk[w])
                  => tasks[wk[w].task].attempts < Limit(tasks[wk[w].task])

AttemptInv == /\ \A t \in Tasks : RowWithin(tasks[t])
              /\ \A w \in Workers : OwnerWithin(w)

-----------------------------------------------------------------------------
\* How the statements move attempt_count against the limit.
LEMMA WithinRows ==
    ASSUME NEW r \in TaskRow, r.attempts <= Limit(r)
    PROVE  /\ RowWithin(Completed(r))
           /\ RowWithin(FailedRow(r))
           /\ RowWithin(Rescheduled(r))
           /\ RowWithin(Marked(r))
           /\ "resource" \in Outcomes \/ r.attempts < Limit(r) => RowWithin(Postponed(r))
  <1> USE TableAssumption DEF TaskRow, RowWithin, Limit, Claimable
  <1>1. RowWithin(Completed(r)) /\ RowWithin(FailedRow(r))
    BY DEF Completed, FailedRow, Unlocked
  <1>2. r.attempts < MaxAttempts => RowWithin(RetryRow(r))
    BY DEF RetryRow, Unlocked
  <1>3. RowWithin(Rescheduled(r))
    BY <1>1, <1>2 DEF Rescheduled
  <1>4. RowWithin(Marked(r))
    <2>1. CASE ~AutoRetry
      BY <2>1 DEF Marked, Unlocked
    <2>2. CASE AutoRetry /\ CanRetry(r)
      <3> DEFINE q == RetryRow(r)
      <3>1. q \in TaskRow /\ RowWithin(q)
        BY <1>2, <2>2, TaskRows DEF CanRetry
      <3>2. RowWithin([q EXCEPT !.wdRetries = @ + 1])
        BY <3>1
      <3>3. QED
        BY <2>2, <3>2 DEF Marked
    <2>3. CASE AutoRetry /\ ~CanRetry(r)
      BY <2>3, <1>1 DEF Marked
    <2>4. QED
      BY <2>1, <2>2, <2>3
  <1>5. ASSUME "resource" \in Outcomes \/ r.attempts < Limit(r)
        PROVE  RowWithin(Postponed(r))
    <2>1. CASE r.postpones >= MaxPostpone
      BY <2>1, <1>1 DEF Postponed
    <2>2. CASE ~(r.postpones >= MaxPostpone)
      <3> DEFINE q == ScheduledRow(r)
      <3>1. /\ q \in TaskRow
            /\ q.attempts = r.attempts
            /\ q.postpones = r.postpones
        BY <1>5, <2>2 DEF ScheduledRow, Unlocked, Statuses, Active
      <3>2. RowWithin([q EXCEPT !.postpones = @ + 1])
        BY <1>5, <3>1
      <3>3. QED
        BY <2>2, <3>2 DEF Postponed
    <2>3. QED
      BY <2>1, <2>2
  <1>6. QED
    BY <1>1, <1>3, <1>4, <1>5

\* Where a worker with an unspent attempt comes from.
LEMMA UnspentMoves ==
    ASSUME TypeInv, [Next]_vars, NEW v \in Workers, Unspent(wk'[v])
    PROVE  \/ Unspent(wk[v]) /\ wk'[v].task = wk[v].task
           \/ /\ wk'[v].task \in Tasks
              /\ tasks[wk'[v].task].status \in Claimable
  <1> DEFINE me == wk[v]
             he == wk'[v]
             Goal == \/ Unspent(me) /\ he.task = me.task
                     \/ he.task \in Tasks /\ tasks[he.task].status \in Claimable
  <1>0. me \in WorkerState
    BY DEF TypeInv, TypeOK
  <1>1. ASSUME NEW s, Becomes(v, s) PROVE he = s
    BY <1>1 DEF TypeInv, TypeOK, Becomes
  <1>2. CASE he = me
    BY <1>2
  <1>3. CASE WorkerStep(v)
    <2>1. ASSUME NEW u \in Tasks, ClaimNext(v, u) PROVE Goal
      <3>1. he = [Idle EXCEPT !.pc = "reserve", !.task = u, !.acc = tasks[u].acc]
        BY <1>1, <2>1 DEF ClaimNext
      <3>2. QED
        BY <2>1, <3>1 DEF Idle, ClaimNext, ClaimReady
    <2>2. CASE RefuseType(v) \/ PickNone(v) \/ DualRefused(v)
      BY <1>0, <1>1, <2>2
         DEF RefuseType, PickNone, DualRefused, Reserving, Fail, WorkerState, Unspent
    <2>3. CASE PickAccount(v) \/ ReserveFixed(v)
      BY <1>0, <1>1, <2>3
         DEF PickAccount, ReserveFixed, Reserving, Fail, WorkerState, Unspent
    <2>4. CASE CheckPasses(v) \/ CheckRefuses(v)
      BY <1>0, <1>1, <2>4 DEF CheckPasses, CheckRefuses, Goto, WorkerState, Unspent
    <2>5. CASE ReservePair(v)
      BY <1>0, <1>1, <2>5 DEF ReservePair, Reserving, Fail, WorkerState, Unspent
    <2>6. CASE AssignAccount(v) \/ UnassignAccount(v)
      BY <1>0, <1>1, <2>6 DEF AssignAccount, UnassignAccount, Goto, WorkerState, Unspent
    <2>7. CASE BeginAttempt(v)
      BY <1>0, <1>1, <2>7 DEF BeginAttempt, Goto, Fail, WorkerState, Unspent
    <2>8. CASE Execute(v)
      <3>1. PICK o \in Outcomes, pc \in {"sync", "settle", "unassign"} : Fail(v, pc, o)
        BY <2>8 DEF Execute, AfterSync
      <3>2. he = [me EXCEPT !.pc = pc, !.out = o]
        BY <1>1, <3>1 DEF Fail
      <3>3. o # "postponed"
        BY DispatchAssumption DEF OutcomeKinds
      <3>4. QED
        BY <1>0, <3>2, <3>3 DEF WorkerState, Unspent
    <2>9. CASE SyncAccountHealth(v)
      <3>1. PICK pc \in {"settle", "unassign"} : he = [me EXCEPT !.pc = pc]
        BY <1>1, <2>9 DEF SyncAccountHealth, AfterSync, Goto
      <3>2. me.out # "postponed"
        BY <2>9 DEF SyncAccountHealth
      <3>3. QED
        BY <1>0, <3>1, <3>2 DEF WorkerState, Unspent
    <2>10. CASE Settle(v)
      BY <1>0, <1>1, <2>10 DEF Settle, Leave, Idle, WorkerState, Unspent
    <2>11. CASE ReleaseAccount(v)
      <3>1. PICK a \in me.held : he = IF me.held = {a} THEN Idle
                                      ELSE [me EXCEPT !.held = @ \ {a}]
        BY <1>1, <2>11 DEF ReleaseAccount
      <3>2. he.pc \in {"idle", "release"}
        BY <1>0, <2>11, <3>1 DEF ReleaseAccount, Idle, WorkerState
      <3>3. QED
        BY <3>2 DEF Unspent
    <2>12. QED
      BY <1>3, <2>1, <2>2, <2>3, <2>4, <2>5, <2>6, <2>7, <2>8, <2>9, <2>10, <2>11
         DEF WorkerStep
  <1>4. CASE WorkerFault(v)
    <2>1. CASE Crash(v) \/ ReleaseFails(v)
      BY <1>1, <2>1 DEF Crash, ReleaseFails, Idle, Unspent
    <2>2. CASE Cancelled(v) \/ StatementFailsInHandler(v)
      BY <1>0, <1>1, <2>2
         DEF Cancelled, StatementFailsInHandler, Leave, Idle, WorkerState, Unspent
    <2>3. CASE StatementFailsInTry(v)
      BY <1>0, <1>1, <2>3 DEF StatementFailsInTry, WorkerState, Unspent
    <2>4. CASE AttemptRowFails(v)
      BY <1>0, <1>1, <2>4 DEF AttemptRowFails, Fail, WorkerState, Unspent
    <2>5. CASE StatementFailsQuietly(v)
      <3>1. me.pc = "sync" => me.out # "postponed"
        BY Standing DEF Shape
      <3>2. QED
        BY <1>0, <1>1, <2>5, <3>1
           DEF StatementFailsQuietly, AfterSync, Goto, WorkerState, Unspent
    <2>6. QED
      BY <1>4, <2>1, <2>2, <2>3, <2>4, <2>5 DEF WorkerFault
  <1>5. QED
    BY <1>2, <1>3, <1>4, NextMoves DEF TypeInv, TypeOK, Becomes

-----------------------------------------------------------------------------
\* What a statement may do to attempt_count of a row that some worker holds
\* afterwards.
LEMMA HeldMoves ==
    ASSUME TypeInv, [Next]_vars, NEW t \in Tasks, NEW v \in Workers,
           HeldBy(tasks'[t], v), Unspent(wk'[v])
    PROVE  /\ tasks'[t].attempts = tasks[t].attempts
           /\ tasks'[t].postpones = tasks[t].postpones
           /\ HeldBy(tasks[t], v) \/ tasks[t].status \in Claimable
  <1> DEFINE r == tasks[t]
             q == tasks'[t]
  <1>1. r \in TaskRow /\ RowStep(t)
    BY NextRowSteps DEF RowSteps, TypeInv, TypeOK
  <1>2. ASSUME Ended(q, r) PROVE FALSE
    BY <1>2 DEF Ended, HeldBy
  <1>3. \A o : q # Settled(r, o) /\ q # Marked(r)
    BY <1>1, <1>2, EndedRows
  <1>4. ASSUME NEW due \in BOOLEAN, q = Inserted(Pinned[t], due) PROVE FALSE
    BY <1>4 DEF Inserted, HeldBy
  <1>5. ASSUME NEW w \in Workers, ClaimReady(r), q = Claimed(r, w)
        PROVE  /\ q.attempts = r.attempts
               /\ q.postpones = r.postpones
               /\ r.status \in Claimable
    BY <1>1, <1>5 DEF Claimed, ClaimReady, TaskRow
  <1>6. ASSUME NEW w \in Workers, HeldBy(r, w), q = BegunAttempt(r),
               \/ wk'[w].pc = "running"
               \/ wk'[w].pc = "settle" /\ wk'[w].out = "transient"
        PROVE  FALSE
    BY <1>1, <1>6 DEF BegunAttempt, HeldBy, Unspent, TaskRow
  <1>7. CASE \E a : q = [r EXCEPT !.acc = a]
    BY <1>1, <1>7 DEF HeldBy, TaskRow
  <1>8. CASE \/ q = r
             \/ q = [r EXCEPT !.due = TRUE]
             \/ q = [r EXCEPT !.lease = "over"]
             \/ q = [r EXCEPT !.late = TRUE]
    BY <1>1, <1>8 DEF HeldBy, TaskRow
  <1>9. QED
    BY <1>1, <1>3, <1>4, <1>5, <1>6, <1>7, <1>8 DEF RowStep

\* Rows stay within the limit.
LEMMA NextRowWithin ==
    ASSUME TypeInv, AttemptInv, [Next]_vars, NEW t \in Tasks
    PROVE  RowWithin(tasks'[t])
  <1> DEFINE r == tasks[t]
             q == tasks'[t]
  <1>1. r \in TaskRow /\ RowWithin(r) /\ RowStep(t)
    BY NextRowSteps DEF RowSteps, TypeInv, TypeOK, AttemptInv
  <1> USE TableAssumption DEF RowWithin, Limit, Claimable
  <1>2. r.attempts <= Limit(r)
    BY <1>1
  <1>3. ASSUME NEW due \in BOOLEAN, q = Inserted(Pinned[t], due) PROVE RowWithin(q)
    BY <1>3 DEF Inserted
  <1>4. ASSUME NEW w \in Workers, q = Claimed(r, w) PROVE RowWithin(q)
    BY <1>1, <1>4 DEF Claimed, TaskRow
  <1>5. ASSUME NEW a, q = [r EXCEPT !.acc = a] PROVE RowWithin(q)
    BY <1>1, <1>5 DEF TaskRow
  <1>6. ASSUME NEW w \in Workers, HeldBy(r, w), wk[w].task = t, wk[w].pc = "begin",
               q = BegunAttempt(r)
        PROVE  RowWithin(q)
    <2>1. t # None
      BY DispatchAssumption
    <2>2. r.attempts < Limit(r)
      BY <1>6, <2>1 DEF AttemptInv, OwnerWithin, Unspent
    <2>3. QED
      BY <1>1, <1>6, <2>2 DEF BegunAttempt, HeldBy, TaskRow
  <1>7. ASSUME NEW w \in Workers, HeldBy(r, w), wk[w].task = t, wk[w].pc = "settle",
               q = Settled(r, wk[w].out)
        PROVE  RowWithin(q)
    <2>1. t # None
      BY DispatchAssumption
    <2>2. wk[w].out = "postponed" => r.attempts < Limit(r)
      BY <1>7, <2>1 DEF AttemptInv, OwnerWithin, Unspent
    <2>3. wk[w].out = "resource" => "resource" \in Outcomes
      BY Standing DEF Shape
    <2>4. QED
      BY <1>1, <1>2, <1>7, <2>2, <2>3, WithinRows DEF Settled
  <1>8. CASE q = Marked(r)
    BY <1>1, <1>2, <1>8, WithinRows
  <1>9. CASE \/ q = r
             \/ q = [r EXCEPT !.due = TRUE]
             \/ q = [r EXCEPT !.lease = "over"]
             \/ q = [r EXCEPT !.late = TRUE]
    BY <1>1, <1>9 DEF TaskRow
  <1>10. QED
    BY <1>1, <1>3, <1>4, <1>5, <1>6, <1>7, <1>8, <1>9 DEF RowStep

\* Owners with an unspent attempt stay within the limit.
LEMMA NextOwnerWithin ==
    ASSUME TypeInv, AttemptInv, [Next]_vars, NEW v \in Workers
    PROVE  OwnerWithin(v)'
  <1> DEFINE t == wk'[v].task
  <1>1. SUFFICES ASSUME t # None, HeldBy(tasks'[t], v), Unspent(wk'[v])
                 PROVE  tasks'[t].attempts < Limit(tasks'[t])
    BY DEF OwnerWithin, HeldBy, Unspent, Limit
  <1>2. t \in Tasks
    BY <1>1, NextTypeInv DEF TypeInv, TypeOK, WorkerState
  <1>3. /\ tasks'[t].attempts = tasks[t].attempts
        /\ tasks'[t].postpones = tasks[t].postpones
        /\ HeldBy(tasks[t], v) \/ tasks[t].status \in Claimable
    BY <1>1, <1>2, HeldMoves
  <1>4. CASE tasks[t].status \in Claimable
    BY <1>2, <1>3, <1>4 DEF AttemptInv, RowWithin, Limit
  <1>5. CASE HeldBy(tasks[t], v) /\ tasks[t].status \notin Claimable
    <2>1. Unspent(wk[v]) /\ wk[v].task = t
      BY <1>1, <1>5, UnspentMoves
    <2>2. QED
      BY <1>1, <1>3, <1>5, <2>1 DEF AttemptInv, OwnerWithin, Limit
  <1>6. QED
    BY <1>3, <1>4, <1>5

\* Rows and owners stay within the limit, through every interleaving of retries,
\* revocations, zombies and failed statements.
THEOREM AttemptInvariant == Spec => []AttemptInv
  <1>1. Init => AttemptInv
    <2> SUFFICES ASSUME Init PROVE AttemptInv
      OBVIOUS
    <2>1. ASSUME NEW t \in Tasks PROVE RowWithin(tasks[t])
      <3>1. tasks[t] = [Inserted(Pinned[t], FALSE) EXCEPT !.status = "absent"]
        BY DEF Init
      <3>2. tasks[t].attempts = 0 /\ tasks[t].postpones = 0
        BY <3>1 DEF Inserted
      <3>3. QED
        BY <3>2, TableAssumption DEF RowWithin, Limit
    <2>2. ASSUME NEW w \in Workers PROVE OwnerWithin(w)
      BY DEF Init, OwnerWithin, Idle
    <2>3. QED
      BY <2>1, <2>2 DEF AttemptInv
  <1>2. TypeInv /\ AttemptInv /\ [Next]_vars => AttemptInv'
    BY NextRowWithin, NextOwnerWithin DEF AttemptInv
  <1>3. QED
    BY <1>1, <1>2, TypeInvariant, PTL DEF Spec

\* attempt_count never passes max_attempts (but for ResourceError).
THEOREM AttemptsAreBounded == Spec => []AttemptBound
  <1>1. AttemptInv => AttemptBound
    BY DEF AttemptInv, RowWithin, Limit, AttemptBound
  <1>2. QED
    BY <1>1, AttemptInvariant, PTL

-----------------------------------------------------------------------------
(* Work done twice.                                                        *)

\* A worker that may still do the work of its task, or give the task back.
MayWork(s) == \/ s.pc \in {"reserve", "check", "assign", "begin", "running"}
              \/ s.pc \in {"sync", "unassign", "settle"} /\ s.out # "success"

Pending(t) == {w \in Workers : wk[w].task = t /\ MayWork(wk[w])}

\* A row that a worker may yet claim, or a producer insert.
Offers(r) == IF r.status \in Claimable \cup {"absent"} THEN 1 ELSE 0

WorkWithin(t) ==
    /\ IsFiniteSet(Pending(t))
    /\ effects[t] + Cardinality(Pending(t)) + Offers(tasks[t])
          <= 1 + tasks[t].wdRetries + faults
    /\ tasks[t].status = "absent" => tasks[t].wdRetries = 0

WorkInv == \A t \in Tasks : WorkWithin(t)

\* 1 if a worker in the state s is one of those of t.
Counts(s, t) == IF s.task = t /\ MayWork(s) THEN 1 ELSE 0

-----------------------------------------------------------------------------
\* When one worker moves, the number of those at t changes by its own share.
LEMMA OneWorkerCounts ==
    ASSUME NEW t, IsFiniteSet(Pending(t)), NEW v \in Workers,
           \A w \in Workers : w # v => wk'[w] = wk[w]
    PROVE  /\ IsFiniteSet(Pending(t)')
           /\ Cardinality(Pending(t)') + Counts(wk[v], t)
                = Cardinality(Pending(t)) + Counts(wk'[v], t)
  <1> DEFINE P == Pending(t)
             Q == Pending(t)'
  <1>0. Cardinality(P) \in Nat
    BY FS_CardinalityType
  <1>1. v \in P <=> Counts(wk[v], t) = 1
    BY DEF Pending, Counts
  <1>2. v \in Q <=> Counts(wk'[v], t) = 1
    BY DEF Pending, Counts, MayWork
  <1>3. P \ {v} = Q \ {v}
    BY DEF Pending, MayWork
  <1>4. /\ IsFiniteSet(P \ {v})
        /\ Cardinality(P \ {v}) = Cardinality(P) - Counts(wk[v], t)
        /\ Cardinality(P \ {v}) \in Nat
    BY <1>0, <1>1, FS_RemoveElement, FS_CardinalityType DEF Counts
  <1>5. CASE v \in Q
    <2>1. Q = (P \ {v}) \cup {v}
      BY <1>3, <1>5
    <2>2. /\ IsFiniteSet((P \ {v}) \cup {v})
          /\ Cardinality((P \ {v}) \cup {v}) = Cardinality(P \ {v}) + 1
      <3> HIDE DEF P
      <3> QED
        BY <1>4, FS_AddElement
    <2>3. QED
      BY <1>0, <1>2, <1>4, <1>5, <2>1, <2>2 DEF Counts
  <1>6. CASE v \notin Q
    <2>1. Q = P \ {v}
      BY <1>3, <1>6
    <2>2. Counts(wk'[v], t) = 0
      BY <1>2, <1>6 DEF Counts
    <2>3. QED
      BY <1>0, <1>4, <2>1, <2>2 DEF Counts
  <1>7. QED
    BY <1>5, <1>6

\* A statement that leaves status and watchdog_retry_count as they are.
Quiet(t) == /\ tasks'[t].status = tasks[t].status
            /\ tasks'[t].wdRetries = tasks[t].wdRetries

\* What a settlement leaves to claim.
LEMMA SettledOffers ==
    ASSUME NEW r \in TaskRow, NEW o
    PROVE  /\ Settled(r, o).wdRetries = r.wdRetries
           /\ Settled(r, o).status # "absent"
           /\ o = "success" => Offers(Settled(r, o)) = 0
  <1> USE DEF TaskRow
  <1>1. /\ Completed(r).wdRetries = r.wdRetries /\ Completed(r).status = "done"
        /\ FailedRow(r).wdRetries = r.wdRetries /\ FailedRow(r).status = "failed"
        /\ RetryRow(r).wdRetries = r.wdRetries /\ RetryRow(r).status = "retry"
    BY DEF Completed, FailedRow, RetryRow, Unlocked
  <1>2. Postponed(r).wdRetries = r.wdRetries /\ Postponed(r).status \in {"scheduled", "failed"}
    BY <1>1 DEF Postponed, ScheduledRow, Unlocked
  <1>3. CASE o = "success"
    BY <1>1, <1>3 DEF Settled, Offers, Claimable
  <1>4. CASE o # "success"
    BY <1>1, <1>2, <1>4 DEF Settled, Rescheduled
  <1>5. QED
    BY <1>3, <1>4

\* A retry of the watchdog is counted.
LEMMA MarkedOffers ==
    ASSUME NEW r \in TaskRow
    PROVE  /\ Offers(Marked(r)) + r.wdRetries <= Marked(r).wdRetries
           /\ Marked(r).status # "absent"
  <1> USE DEF TaskRow, Offers, Claimable
  <1>1. CASE ~AutoRetry
    BY <1>1 DEF Marked, Unlocked
  <1>2. CASE AutoRetry /\ CanRetry(r)
    <2> DEFINE q == RetryRow(r)
    <2>1. q \in TaskRow /\ q.wdRetries = r.wdRetries /\ q.status = "retry"
      BY TaskRows DEF RetryRow, Unlocked
    <2>2. QED
      BY <1>2, <2>1 DEF Marked
  <1>3. CASE AutoRetry /\ ~CanRetry(r)
    BY <1>3 DEF Marked, FailedRow, Unlocked
  <1>4. QED
    BY <1>1, <1>2, <1>3

\* What a step adds, in work done, workers at the task and offers, it has to pay for
\* with a counted retry or a fault.
LEMMA Balanced ==
    ASSUME TypeInv, NEW t \in Tasks, WorkWithin(t), TypeInv',
           NEW x \in Nat, NEW y \in Nat, IsFiniteSet(Pending(t)'),
           Cardinality(Pending(t)') + x = Cardinality(Pending(t)) + y,
           effects'[t] + y + Offers(tasks'[t]) + tasks[t].wdRetries + faults
             <= effects[t] + x + Offers(tasks[t]) + tasks'[t].wdRetries + faults',
           tasks'[t].status = "absent" => tasks'[t].wdRetries = 0
    PROVE  WorkWithin(t)'
  <1>1. /\ effects[t] \in Nat /\ effects'[t] \in Nat
        /\ faults \in Nat /\ faults' \in Nat
        /\ tasks[t].wdRetries \in Nat /\ tasks'[t].wdRetries \in Nat
    BY DEF TypeInv, TypeOK, TaskRow
  <1>2. Cardinality(Pending(t)) \in Nat /\ Cardinality(Pending(t)') \in Nat
    BY FS_CardinalityType DEF WorkWithin
  <1>3. Offers(tasks[t]) \in Nat /\ Offers(tasks'[t]) \in Nat
    BY DEF Offers
  <1>4. Offers(tasks[t])' = Offers(tasks'[t])
    BY DEF Offers
  <1>5. QED
    BY <1>1, <1>2, <1>3, <1>4 DEF WorkWithin

\* A step in which no worker moves.
LEMMA NoWorker ==
    ASSUME TypeInv, NEW t \in Tasks, WorkWithin(t), TypeInv', wk' = wk,
           effects' = effects, faults' = faults,
           \/ Quiet(t)
           \/ /\ Offers(tasks'[t]) + tasks[t].wdRetries <= tasks'[t].wdRetries
              /\ tasks'[t].status # "absent"
           \/ /\ tasks[t].status = "absent"
              /\ tasks'[t].status # "absent"
              /\ tasks'[t].wdRetries = 0
    PROVE  WorkWithin(t)'
  <1>1. Pending(t)' = Pending(t)
    BY DEF Pending, MayWork
  <1>2. /\ effects[t] \in Nat
        /\ faults \in Nat
        /\ tasks[t].wdRetries \in Nat /\ tasks'[t].wdRetries \in Nat
    BY DEF TypeInv, TypeOK, TaskRow
  <1>3. tasks[t].status = "absent" => tasks[t].wdRetries = 0
    BY DEF WorkWithin
  <1>4. /\ Offers(tasks'[t]) + tasks[t].wdRetries
              <= Offers(tasks[t]) + tasks'[t].wdRetries
        /\ tasks'[t].status = "absent" => tasks'[t].wdRetries = 0
    BY <1>2, <1>3 DEF Quiet, Offers, Claimable
  <1>5. /\ Offers(tasks[t]) \in Nat /\ Offers(tasks'[t]) \in Nat
        /\ Cardinality(Pending(t)) \in Nat
        /\ IsFiniteSet(Pending(t))
    BY FS_CardinalityType DEF Offers, WorkWithin
  <1>6. QED
    BY <1>1, <1>2, <1>4, <1>5, Balanced

\* A step of one worker.
LEMMA OneWorker ==
    ASSUME TypeInv, NEW t \in Tasks, WorkWithin(t), TypeInv',
           NEW v \in Workers, NEW s, Becomes(v, s),
           effects'[t] + Counts(s, t) + Offers(tasks'[t]) + tasks[t].wdRetries + faults
             <= effects[t] + Counts(wk[v], t) + Offers(tasks[t])
                  + tasks'[t].wdRetries + faults',
           tasks'[t].status = "absent" => tasks'[t].wdRetries = 0
    PROVE  WorkWithin(t)'
  <1>1. wk'[v] = s /\ \A w \in Workers : w # v => wk'[w] = wk[w]
    BY DEF TypeInv, TypeOK, Becomes
  <1>2. /\ IsFiniteSet(Pending(t)')
        /\ Cardinality(Pending(t)') + Counts(wk[v], t) = Cardinality(Pending(t)) + Counts(s, t)
    BY <1>1, OneWorkerCounts DEF WorkWithin
  <1>3. Counts(wk[v], t) \in Nat /\ Counts(s, t) \in Nat
    BY DEF Counts
  <1>4. QED
    BY <1>2, <1>3, Balanced

\* What each step of a worker costs.
LEMMA WorkerPays ==
    ASSUME TypeInv, NEW t \in Tasks, WorkWithin(t), TypeInv',
           NEW v \in Workers, WorkerStep(v) \/ WorkerFault(v)
    PROVE  WorkWithin(t)'
  <1> DEFINE me == wk[v]
             u  == MyTask(v)
  <1>0. /\ me \in WorkerState /\ Shape(me) /\ me.task = u
        /\ me.pc # "idle" => u \in Tasks
        /\ tasks[t] \in TaskRow
        /\ tasks[t].wdRetries \in Nat /\ tasks'[t].wdRetries \in Nat
        /\ effects[t] \in Nat /\ faults \in Nat
        /\ tasks[t].status = "absent" => tasks[t].wdRetries = 0
    BY Standing DEF TypeInv, TypeOK, MyTask, TaskRow, WorkWithin
  <1>n. \A s : Counts(s, t) \in 0..1 /\ \A r : Offers(r) \in 0..1
    BY DEF Counts, Offers
  <1>q. ASSUME NEW s, Becomes(v, s), Quiet(t), effects' = effects,
               \/ faults' = faults /\ s.task = u /\ (MayWork(s) => MayWork(me))
               \/ faults' = faults /\ ~MayWork(s)
               \/ faults' = faults + 1
        PROVE  WorkWithin(t)'
    <2>1. Offers(tasks'[t]) = Offers(tasks[t])
      BY <1>q DEF Quiet, Offers
    <2>2. \/ faults' = faults /\ Counts(s, t) <= Counts(me, t)
          \/ faults' = faults + 1
      BY <1>0, <1>q DEF Counts
    <2>3. tasks'[t].status = "absent" => tasks'[t].wdRetries = 0
      BY <1>0, <1>q DEF Quiet
    <2>4. tasks'[t].wdRetries = tasks[t].wdRetries
      BY <1>q DEF Quiet
    <2>5. effects'[t] + Counts(s, t) + Offers(tasks'[t]) + tasks[t].wdRetries + faults
             <= effects[t] + Counts(me, t) + Offers(tasks[t])
                  + tasks'[t].wdRetries + faults'
      <3>1. effects'[t] = effects[t]
        BY <1>q
      <3> HIDE DEF me
      <3>2. QED
        BY <1>0, <1>n, <2>1, <2>2, <2>4, <3>1
    <2>6. QED
      BY <1>q, <2>3, <2>5, OneWorker
  <1>r. ASSUME \/ tasks' = tasks
               \/ \E a : Fenced(v, [tasks[u] EXCEPT !.acc = a])
               \/ Fenced(v, BegunAttempt(tasks[u]))
        PROVE  Quiet(t)
    BY <1>0, <1>r DEF Quiet, Fenced, BegunAttempt, TypeInv, TypeOK, TaskRow
  <1>l. ASSUME Leave(v)
        PROVE  \E s : Becomes(v, s) /\ ~MayWork(s)
    BY <1>0, <1>l DEF Leave, Idle, MayWork, WorkerState
  <1>1. ASSUME NEW x \in Tasks, ClaimNext(v, x) PROVE WorkWithin(t)'
    <2> DEFINE s == [Idle EXCEPT !.pc = "reserve", !.task = x, !.acc = tasks[x].acc]
    <2>1. /\ Becomes(v, s) /\ effects' = effects /\ faults' = faults
          /\ tasks' = [tasks EXCEPT ![x] = Claimed(tasks[x], v)]
          /\ ClaimReady(tasks[x])
          /\ me.pc = "idle"
      BY <1>1 DEF ClaimNext
    <2>2. CASE x = t
      <3>1. /\ tasks'[t].status = "in_progress"
            /\ tasks'[t].wdRetries = tasks[t].wdRetries
        BY <1>0, <2>1, <2>2 DEF Claimed, TypeInv, TypeOK, TaskRow
      <3>2. Offers(tasks'[t]) = 0 /\ Offers(tasks[t]) = 1
        BY <2>1, <2>2, <3>1 DEF Offers, ClaimReady, Claimable
      <3>3. Counts(me, t) = 0
        BY <2>1 DEF Counts, MayWork
      <3>4. QED
        BY <1>0, <1>n, <2>1, <3>1, <3>2, <3>3, OneWorker
    <2>3. CASE x # t
      <3>1. Quiet(t)
        BY <2>1, <2>3 DEF Quiet, TypeInv, TypeOK
      <3>2. Counts(s, t) = 0
        BY <2>3 DEF Counts, Idle
      <3>3. Offers(tasks'[t]) = Offers(tasks[t]) /\ tasks'[t].wdRetries = tasks[t].wdRetries
        BY <3>1 DEF Quiet, Offers
      <3>4. tasks'[t].status = "absent" => tasks'[t].wdRetries = 0
        BY <1>0, <3>1 DEF Quiet
      <3>5. QED
        BY <1>0, <1>n, <2>1, <3>2, <3>3, <3>4, OneWorker
    <2>4. QED
      BY <2>2, <2>3
  <1>2. CASE RefuseType(v) \/ PickNone(v) \/ DualRefused(v)
    <2>1. Fail(v, "settle", "unknown_type") \/ Fail(v, "settle", "postponed")
      BY <1>2 DEF RefuseType, PickNone, DualRefused
    <2>2. me.pc = "reserve" /\ tasks' = tasks /\ effects' = effects /\ faults' = faults
      BY <1>2 DEF RefuseType, PickNone, DualRefused, Reserving
    <2>3. \E s : Becomes(v, s) /\ s.task = u
      <3>1. \A o : [me EXCEPT !.pc = "settle", !.out = o].task = u
        BY <1>0 DEF WorkerState
      <3>2. QED
        BY <2>1, <3>1 DEF Fail
    <2>4. QED
      BY <1>q, <1>r, <2>2, <2>3 DEF MayWork
  <1>3. CASE PickAccount(v) \/ ReserveFixed(v) \/ ReservePair(v)
    <2>1. me.pc = "reserve" /\ tasks' = tasks /\ effects' = effects /\ faults' = faults
      BY <1>3 DEF PickAccount, ReserveFixed, ReservePair, Reserving
    <2>2. \E s : Becomes(v, s) /\ s.task = u
      <3>1. \A pc, H, o : /\ [me EXCEPT !.pc = pc, !.held = H].task = u
                          /\ [me EXCEPT !.pc = pc, !.out = o].task = u
        BY <1>0 DEF WorkerState
      <3>2. CASE PickAccount(v)
        BY <3>1, <3>2 DEF PickAccount
      <3>3. CASE ReserveFixed(v)
        BY <3>1, <3>3 DEF ReserveFixed, Fail
      <3>4. CASE ReservePair(v)
        BY <3>1, <3>4 DEF ReservePair, Fail
      <3>5. QED
        BY <1>3, <3>2, <3>3, <3>4
    <2>3. QED
      BY <1>q, <1>r, <2>1, <2>2 DEF MayWork
  <1>4. CASE CheckPasses(v) \/ CheckRefuses(v)
    <2>1. me.pc = "check" /\ tasks' = tasks /\ effects' = effects /\ faults' = faults
      BY <1>4 DEF CheckPasses, CheckRefuses
    <2>2. \E s : Becomes(v, s) /\ s.task = u
      <3>1. \A pc, o, R : /\ [me EXCEPT !.pc = pc].task = u
                          /\ [me EXCEPT !.pc = pc, !.held = {}, !.out = o].task = u
                          /\ [me EXCEPT !.pc = pc, !.held = {}, !.rejected = R].task = u
        BY <1>0 DEF WorkerState
      <3>2. CASE CheckPasses(v)
        BY <3>1, <3>2 DEF CheckPasses, Goto
      <3>3. CASE CheckRefuses(v)
        <4>1. PICK a \in me.held :
                 IF me.acc = None
                 THEN Becomes(v, [me EXCEPT !.pc = "reserve", !.held = {},
                                            !.rejected = @ \cup {a}])
                 ELSE Becomes(v, [me EXCEPT !.pc = "settle", !.held = {},
                                            !.out = "postponed"])
          BY <3>3 DEF CheckRefuses
        <4>2. CASE me.acc = None
          BY <3>1, <4>1, <4>2
        <4>3. CASE me.acc # None
          BY <3>1, <4>1, <4>3
        <4>4. QED
          BY <4>2, <4>3
      <3>4. QED
        BY <1>4, <3>2, <3>3
    <2>3. QED
      BY <1>q, <1>r, <2>1, <2>2 DEF MayWork
  <1>5. CASE AssignAccount(v) \/ BeginAttempt(v)
    <2>1. me.pc \in {"assign", "begin"} /\ effects' = effects /\ faults' = faults /\ Quiet(t)
      BY <1>5, <1>r DEF AssignAccount, BeginAttempt
    <2>2. \E s : Becomes(v, s) /\ s.task = u
      <3>1. \A pc, o : /\ [me EXCEPT !.pc = pc].task = u
                       /\ [me EXCEPT !.pc = pc, !.out = o].task = u
        BY <1>0 DEF WorkerState
      <3>2. QED
        BY <1>5, <3>1 DEF AssignAccount, BeginAttempt, Goto, Fail
    <2>3. QED
      BY <1>q, <2>1, <2>2 DEF MayWork
  <1>6. CASE Execute(v)
    <2>1. PICK o \in Outcomes, pc \in {"sync", "settle", "unassign"} :
             /\ Fail(v, pc, o)
             /\ effects' = IF o = "success" THEN [effects EXCEPT ![u] = @ + 1] ELSE effects
             /\ o = "success" => pc = "settle"
      BY <1>6 DEF Execute, AfterSync
    <2> DEFINE s == [me EXCEPT !.pc = pc, !.out = o]
    <2>2. /\ Becomes(v, s) /\ s.task = u /\ s.pc = pc /\ s.out = o
          /\ me.pc = "running" /\ tasks' = tasks /\ faults' = faults
      BY <1>0, <1>6, <2>1 DEF Fail, Execute, WorkerState
    <2>3. CASE o # "success"
      BY <1>q, <1>r, <2>1, <2>2, <2>3 DEF MayWork
    <2>4. CASE o = "success"
      <3>1. Counts(s, t) = 0
        BY <2>2, <2>4, <2>1 DEF Counts, MayWork
      <3>2. CASE t = u
        <4>1. effects'[t] = effects[t] + 1 /\ Counts(me, t) = 1
          BY <1>0, <2>1, <2>2, <2>4, <3>2 DEF Counts, MayWork, TypeInv, TypeOK
        <4>2. QED
          BY <1>0, <1>n, <2>2, <3>1, <4>1, OneWorker
      <3>3. CASE t # u
        <4>1. effects'[t] = effects[t]
          BY <2>1, <2>4, <3>3 DEF TypeInv, TypeOK
        <4>2. QED
          BY <1>0, <1>n, <2>2, <3>1, <4>1, OneWorker
      <3>4. QED
        BY <3>2, <3>3
    <2>5. QED
      BY <2>3, <2>4
  <1>7. CASE SyncAccountHealth(v) \/ UnassignAccount(v)
    <2>1. PICK pc \in {"settle", "unassign"} : Goto(v, pc)
      BY <1>7 DEF SyncAccountHealth, UnassignAccount, AfterSync
    <2> DEFINE s == [me EXCEPT !.pc = pc]
    <2>2. /\ Becomes(v, s) /\ s.task = u /\ s.pc = pc /\ s.out = me.out
          /\ me.pc \in {"sync", "unassign"}
          /\ effects' = effects /\ faults' = faults /\ Quiet(t)
      BY <1>0, <1>7, <1>r, <2>1 DEF Goto, SyncAccountHealth, UnassignAccount, WorkerState
    <2>3. QED
      BY <1>q, <2>2 DEF MayWork
  <1>8. CASE Settle(v)
    <2>1. PICK s : Becomes(v, s) /\ ~MayWork(s)
      BY <1>8, <1>l DEF Settle
    <2>2. Counts(s, t) = 0
      BY <2>1 DEF Counts
    <2>3. me.pc = "settle" /\ effects' = effects /\ faults' = faults
      BY <1>8 DEF Settle
    <2>4. CASE t = u /\ HeldBy(tasks[u], v)
      <3>1. tasks'[t] = Settled(tasks[t], me.out)
        BY <1>8, <2>4 DEF Settle, Fenced, TypeInv, TypeOK
      <3>2. /\ tasks'[t].wdRetries = tasks[t].wdRetries
            /\ tasks'[t].status # "absent"
            /\ me.out = "success" => Offers(tasks'[t]) = 0
        BY <1>0, <3>1, SettledOffers
      <3>3. me.out # "success" => Counts(me, t) = 1
        BY <1>0, <2>3, <2>4 DEF Counts, MayWork
      <3>4. Offers(tasks'[t]) <= Counts(me, t)
        BY <1>n, <3>2, <3>3
      <3>5. QED
        BY <1>0, <1>n, <2>1, <2>2, <2>3, <3>2, <3>4, OneWorker
    <2>5. CASE ~(t = u /\ HeldBy(tasks[u], v))
      <3>1. tasks'[t] = tasks[t]
        BY <1>8, <2>5 DEF Settle, Fenced, TypeInv, TypeOK
      <3>2. QED
        BY <1>q, <2>1, <2>3, <3>1 DEF Quiet
    <2>6. QED
      BY <2>4, <2>5
  <1>9. CASE ReleaseAccount(v)
    <2>1. PICK a \in me.held :
             Becomes(v, IF me.held = {a} THEN Idle ELSE [me EXCEPT !.held = @ \ {a}])
      BY <1>9 DEF ReleaseAccount
    <2>2. me.pc = "release" /\ tasks' = tasks /\ effects' = effects /\ faults' = faults
      BY <1>9 DEF ReleaseAccount
    <2>3. \E s : Becomes(v, s) /\ ~MayWork(s)
      BY <1>0, <2>1, <2>2 DEF Idle, MayWork, WorkerState
    <2>4. QED
      BY <1>q, <1>r, <2>2, <2>3
  <1>10. CASE WorkerFault(v)
    <2>1. effects' = effects /\ faults' = faults + 1
      BY <1>10 DEF WorkerFault, Crash, Cancelled, StatementFailsInTry, AttemptRowFails,
                   StatementFailsQuietly, StatementFailsInHandler, ReleaseFails, Fault
    <2>2. Quiet(t)
      BY <1>10, <1>r DEF WorkerFault, Crash, Cancelled, StatementFailsInTry, AttemptRowFails,
                   StatementFailsQuietly, StatementFailsInHandler, ReleaseFails
    <2>3. \E s : Becomes(v, s)
      BY <1>10 DEF WorkerFault, Crash, Cancelled, StatementFailsInTry, AttemptRowFails,
                   StatementFailsQuietly, StatementFailsInHandler, ReleaseFails, Leave,
                   Fail, Goto
    <2>4. QED
      BY <1>q, <2>1, <2>2, <2>3
  <1>11. QED
    BY <1>1, <1>2, <1>3, <1>4, <1>5, <1>6, <1>7, <1>8, <1>9, <1>10 DEF WorkerStep

\* The work of a task is done once, but for counted retries and faults, whoever else
\* is still at it.
THEOREM WorkIsBounded == Spec => []DuplicateWorkBound
  <1>1. Init => WorkInv
    <2> SUFFICES ASSUME Init, NEW t \in Tasks PROVE WorkWithin(t)
      BY DEF WorkInv
    <2>1. Pending(t) = {}
      BY DEF Init, Pending, MayWork, Idle
    <2>2. IsFiniteSet(Pending(t)) /\ Cardinality(Pending(t)) = 0
      BY <2>1, FS_EmptySet
    <2>3. tasks[t].status = "absent" /\ tasks[t].wdRetries = 0
      BY DEF Init, Inserted
    <2>4. effects[t] = 0 /\ faults = 0 /\ Offers(tasks[t]) = 1
      BY <2>3 DEF Init, Offers
    <2>5. QED
      BY <2>2, <2>3, <2>4 DEF WorkWithin
  <1>2. TypeInv /\ WorkInv /\ [Next]_vars => WorkInv'
    <2> SUFFICES ASSUME TypeInv, WorkInv, [Next]_vars, NEW t \in Tasks
                 PROVE  WorkWithin(t)'
      BY DEF WorkInv
    <2>0. TypeInv' /\ WorkWithin(t) /\ tasks[t] \in TaskRow
      BY NextTypeInv DEF WorkInv, TypeInv, TypeOK
    <2>1. ASSUME NEW v \in Workers, WorkerStep(v) \/ WorkerFault(v) PROVE WorkWithin(t)'
      BY <2>0, <2>1, WorkerPays
    <2>2. ASSUME NEW x \in Tasks, Enqueue(x) PROVE WorkWithin(t)'
      <3>1. /\ wk' = wk /\ effects' = effects /\ faults' = faults
            /\ tasks[x].status = "absent"
            /\ \E due \in BOOLEAN : tasks' = [tasks EXCEPT ![x] = Inserted(Pinned[x], due)]
        BY <2>2 DEF Enqueue
      <3>2. CASE x = t
        <4>1. tasks'[t].status = "queued" /\ tasks'[t].wdRetries = 0
          BY <3>1, <3>2 DEF Inserted, TypeInv, TypeOK
        <4>2. QED
          BY <2>0, <3>1, <3>2, <4>1, NoWorker
      <3>3. CASE x # t
        <4>1. Quiet(t)
          BY <3>1, <3>3 DEF Quiet, TypeInv, TypeOK
        <4>2. QED
          BY <2>0, <3>1, <4>1, NoWorker
      <3>4. QED
        BY <3>2, <3>3
    <2>3. CASE MarkStuckTimedOut
      <3>1. /\ wk' = wk /\ effects' = effects /\ faults' = faults
            /\ tasks'[t] \in {tasks[t], Marked(tasks[t])}
        BY <2>3 DEF MarkStuckTimedOut
      <3>2. CASE tasks'[t] = tasks[t]
        BY <2>0, <3>1, <3>2, NoWorker DEF Quiet
      <3>3. CASE tasks'[t] = Marked(tasks[t])
        BY <2>0, <3>1, <3>3, MarkedOffers, NoWorker
      <3>4. QED
        BY <3>1, <3>2, <3>3
    <2>4. ASSUME NEW x \in Tasks, RunAfterPasses(x) \/ LeaseRunsOut(x) \/ TimeoutPasses(x)
          PROVE  WorkWithin(t)'
      <3>1. wk' = wk /\ effects' = effects /\ faults' = faults
        BY <2>4 DEF RunAfterPasses, LeaseRunsOut, TimeoutPasses
      <3>2. Quiet(t)
        BY <2>0, <2>4 DEF RunAfterPasses, LeaseRunsOut, TimeoutPasses, Quiet, TypeInv,
                          TypeOK, TaskRow
      <3>3. QED
        BY <2>0, <3>1, <3>2, NoWorker
    <2>5. CASE \/ ReleaseOrphanAccountLocks \/ ClearExpiredCooldowns
               \/ \E a \in Accounts : MonitorMarks(a) \/ CooldownPasses(a)
               \/ UNCHANGED vars
      <3>1. wk' = wk /\ effects' = effects /\ faults' = faults /\ tasks' = tasks
        BY <2>5 DEF ReleaseOrphanAccountLocks, ClearExpiredCooldowns, MonitorMarks,
                    CooldownPasses, vars
      <3>2. QED
        BY <2>0, <3>1, NoWorker DEF Quiet
    <2>6. QED
      BY <2>1, <2>2, <2>3, <2>4, <2>5 DEF Next
  <1>3. TypeInv /\ WorkInv => DuplicateWorkBound
    <2> SUFFICES ASSUME TypeInv, WorkInv, NEW t \in Tasks
                 PROVE  effects[t] <= 1 + tasks[t].wdRetries + faults
      BY DEF DuplicateWorkBound
    <2>1. WorkWithin(t) /\ Cardinality(Pending(t)) \in Nat /\ Offers(tasks[t]) \in Nat
      BY FS_CardinalityType DEF WorkInv, WorkWithin, Offers
    <2>2. effects[t] \in Nat /\ faults \in Nat /\ tasks[t].wdRetries \in Nat
      BY DEF TypeInv, TypeOK, TaskRow
    <2>3. QED
      BY <2>1, <2>2 DEF WorkWithin
  <1>4. QED
    BY <1>1, <1>2, <1>3, TypeInvariant, PTL DEF Spec

-----------------------------------------------------------------------------
(* The lifecycle.                                                          *)

\* A worker in its attempt, or about to complete the task.
Tried(s) == s.pc = "running" \/ (s.pc \in {"unassign", "settle"} /\ s.out = "success")

OwnerTried(w) == /\ wk[w].task # None
                 /\ HeldBy(tasks[wk[w].task], w)
                 /\ Tried(wk[w])
                 => tasks[wk[w].task].attempts > 0

LifeInv == /\ \A t \in Tasks : tasks[t].status = "absent" => tasks[t].attempts = 0
           /\ \A w \in Workers : OwnerTried(w)

\* Where a worker that has begun its attempt comes from.
LEMMA TriedMoves ==
    ASSUME TypeInv, [Next]_vars, NEW v \in Workers, Tried(wk'[v])
    PROVE  /\ wk'[v].task = wk[v].task
           /\ wk[v].pc # "idle"
           /\ \/ Tried(wk[v])
              \/ /\ HeldBy(tasks[wk[v].task], v)
                 /\ tasks'[wk[v].task] = BegunAttempt(tasks[wk[v].task])
  <1> DEFINE me == wk[v]
             he == wk'[v]
             t  == MyTask(v)
             Goal == /\ he.task = me.task
                     /\ me.pc # "idle"
                     /\ \/ Tried(me)
                        \/ /\ HeldBy(tasks[t], v)
                           /\ tasks'[t] = BegunAttempt(tasks[t])
  <1>0. me \in WorkerState /\ me.task = t /\ (me.pc # "idle" => t \in Tasks)
    BY Standing DEF TypeInv, TypeOK, MyTask
  <1>1. ASSUME NEW s, Becomes(v, s) PROVE he = s
    BY <1>1 DEF TypeInv, TypeOK, Becomes
  <1>2. CASE he = me
    BY <1>2 DEF Tried
  <1>3. CASE WorkerStep(v)
    <2>1. ASSUME NEW u \in Tasks, ClaimNext(v, u) PROVE Goal
      BY <1>1, <2>1 DEF ClaimNext, Idle, Tried
    <2>2. CASE RefuseType(v) \/ PickNone(v) \/ DualRefused(v)
      BY <1>0, <1>1, <2>2 DEF RefuseType, PickNone, DualRefused, Fail, WorkerState, Tried
    <2>3. CASE PickAccount(v) \/ ReserveFixed(v)
      BY <1>0, <1>1, <2>3 DEF PickAccount, ReserveFixed, Fail, WorkerState, Tried
    <2>4. CASE CheckPasses(v) \/ CheckRefuses(v)
      BY <1>0, <1>1, <2>4 DEF CheckPasses, CheckRefuses, Goto, WorkerState, Tried
    <2>5. CASE ReservePair(v)
      BY <1>0, <1>1, <2>5 DEF ReservePair, Fail, WorkerState, Tried
    <2>6. CASE AssignAccount(v)
      BY <1>0, <1>1, <2>6 DEF AssignAccount, Goto, WorkerState, Tried
    <2>7. CASE BeginAttempt(v)
      <3>1. CASE HeldBy(tasks[t], v)
        <4>1. he = [me EXCEPT !.pc = "running"] /\ me.pc = "begin"
          BY <1>1, <2>7, <3>1 DEF BeginAttempt, Goto
        <4>2. tasks' = [tasks EXCEPT ![t] = BegunAttempt(tasks[t])]
          BY <2>7, <3>1 DEF BeginAttempt, Fenced
        <4>3. he.task = me.task /\ tasks'[t] = BegunAttempt(tasks[t])
          BY <1>0, <4>1, <4>2 DEF WorkerState, TypeInv, TypeOK
        <4>4. me.pc # "idle"
          BY <4>1
        <4>5. QED
          BY <1>0, <3>1, <4>3, <4>4
      <3>2. CASE ~HeldBy(tasks[t], v)
        BY <1>0, <1>1, <2>7, <3>2 DEF BeginAttempt, Fail, WorkerState, Tried
      <3>3. QED
        BY <3>1, <3>2
    <2>8. CASE Execute(v)
      <3>1. PICK o \in Outcomes, pc \in {"sync", "settle", "unassign"} : Fail(v, pc, o)
        BY <2>8 DEF Execute, AfterSync
      <3>2. he.task = me.task /\ me.pc = "running"
        BY <1>0, <1>1, <2>8, <3>1 DEF Fail, Execute, WorkerState
      <3>3. QED
        BY <3>2 DEF Tried
    <2>9. CASE SyncAccountHealth(v) \/ UnassignAccount(v)
      <3>1. PICK pc \in {"settle", "unassign"} : he = [me EXCEPT !.pc = pc]
        BY <1>1, <2>9 DEF SyncAccountHealth, UnassignAccount, AfterSync, Goto
      <3>2. me.pc = "unassign" \/ (me.pc = "sync" /\ me.out # "success")
        BY <2>9, Standing DEF SyncAccountHealth, UnassignAccount, Shape
      <3>3. QED
        BY <1>0, <3>1, <3>2 DEF WorkerState, Tried
    <2>10. CASE Settle(v)
      BY <1>0, <1>1, <2>10 DEF Settle, Leave, Idle, WorkerState, Tried
    <2>11. CASE ReleaseAccount(v)
      <3>1. PICK a \in me.held : he = IF me.held = {a} THEN Idle
                                      ELSE [me EXCEPT !.held = @ \ {a}]
        BY <1>1, <2>11 DEF ReleaseAccount
      <3>2. he.pc \in {"idle", "release"}
        BY <1>0, <2>11, <3>1 DEF ReleaseAccount, Idle, WorkerState
      <3>3. QED
        BY <3>2 DEF Tried
    <2>12. QED
      BY <1>3, <2>1, <2>2, <2>3, <2>4, <2>5, <2>6, <2>7, <2>8, <2>9, <2>10, <2>11
         DEF WorkerStep, MyTask
  <1>4. CASE WorkerFault(v)
    <2>1. CASE Crash(v) \/ ReleaseFails(v)
      BY <1>1, <2>1 DEF Crash, ReleaseFails, Idle, Tried
    <2>2. CASE Cancelled(v) \/ StatementFailsInHandler(v)
      BY <1>0, <1>1, <2>2
         DEF Cancelled, StatementFailsInHandler, Leave, Idle, WorkerState, Tried
    <2>3. CASE StatementFailsInTry(v)
      BY <1>0, <1>1, <2>3 DEF StatementFailsInTry, WorkerState, Tried
    <2>4. CASE AttemptRowFails(v)
      BY <1>0, <1>1, <2>4 DEF AttemptRowFails, Fail, WorkerState, Tried
    <2>5. CASE StatementFailsQuietly(v)
      <3>1. PICK pc \in {"settle", "unassign"} : he = [me EXCEPT !.pc = pc]
        BY <1>1, <2>5 DEF StatementFailsQuietly, AfterSync, Goto
      <3>2. me.pc = "unassign" \/ (me.pc = "sync" /\ me.out # "success")
        BY <2>5, Standing DEF StatementFailsQuietly, Shape
      <3>3. QED
        BY <1>0, <3>1, <3>2 DEF WorkerState, Tried
    <2>6. QED
      BY <1>4, <2>1, <2>2, <2>3, <2>4, <2>5 DEF WorkerFault
  <1>5. he = me => me.pc # "idle"
    BY DEF Tried
  <1>6. QED
    BY <1>2, <1>3, <1>4, <1>5, NextMoves DEF TypeInv, TypeOK, Becomes, MyTask

\* What a statement may do to attempt_count of a row that some worker holds, and held.
LEMMA TriedRow ==
    ASSUME TypeInv, [Next]_vars, NEW t \in Tasks, NEW v \in Workers,
           HeldBy(tasks'[t], v), wk[v].pc # "idle"
    PROVE  HeldBy(tasks[t], v) /\ tasks'[t].attempts >= tasks[t].attempts
  <1> DEFINE r == tasks[t]
             q == tasks'[t]
  <1>1. r \in TaskRow /\ RowStep(t)
    BY NextRowSteps DEF RowSteps, TypeInv, TypeOK
  <1>2. ASSUME Ended(q, r) PROVE FALSE
    BY <1>2 DEF Ended, HeldBy
  <1>3. \A o : q # Settled(r, o) /\ q # Marked(r)
    BY <1>1, <1>2, EndedRows
  <1>4. ASSUME NEW due \in BOOLEAN, q = Inserted(Pinned[t], due) PROVE FALSE
    BY <1>4 DEF Inserted, HeldBy
  <1>5. ASSUME NEW w \in Workers, wk[w].pc = "idle", q = Claimed(r, w) PROVE FALSE
    BY <1>1, <1>5 DEF Claimed, HeldBy, TaskRow
  <1>6. CASE q = BegunAttempt(r)
    BY <1>1, <1>6 DEF BegunAttempt, HeldBy, TaskRow
  <1>7. CASE \E a : q = [r EXCEPT !.acc = a]
    BY <1>1, <1>7 DEF HeldBy, TaskRow
  <1>8. CASE \/ q = r
             \/ q = [r EXCEPT !.due = TRUE]
             \/ q = [r EXCEPT !.lease = "over"]
             \/ q = [r EXCEPT !.late = TRUE]
    BY <1>1, <1>8 DEF HeldBy, TaskRow
  <1>9. QED
    BY <1>1, <1>3, <1>4, <1>5, <1>6, <1>7, <1>8 DEF RowStep

LEMMA NextLifeInv ==
    ASSUME TypeInv, LifeInv, [Next]_vars
    PROVE  LifeInv'
  <1>1. ASSUME NEW t \in Tasks, tasks'[t].status = "absent"
        PROVE  tasks'[t].attempts = 0
    <2> DEFINE r == tasks[t]
               q == tasks'[t]
    <2>1. r \in TaskRow /\ RowStep(t) /\ (r.status = "absent" => r.attempts = 0)
      BY NextRowSteps DEF RowSteps, TypeInv, TypeOK, LifeInv
    <2>2. \A o : q # Settled(r, o) /\ q # Marked(r)
      BY <1>1, <2>1, EndedRows DEF Ended
    <2>3. \A w : q # Claimed(r, w)
      BY <1>1, <2>1 DEF Claimed, TaskRow
    <2>4. \A due : q # Inserted(Pinned[t], due)
      BY <1>1 DEF Inserted
    <2>5. ~(\E w \in Workers : HeldBy(r, w) /\ q = BegunAttempt(r))
      BY <1>1, <2>1 DEF HeldBy, BegunAttempt, TaskRow
    <2>6. CASE \E a : q = [r EXCEPT !.acc = a]
      BY <1>1, <2>1, <2>6 DEF TaskRow
    <2>7. CASE \/ q = r
               \/ q = [r EXCEPT !.due = TRUE]
               \/ q = [r EXCEPT !.lease = "over"]
               \/ q = [r EXCEPT !.late = TRUE]
      BY <1>1, <2>1, <2>7 DEF TaskRow
    <2>8. QED
      BY <2>1, <2>2, <2>3, <2>4, <2>5, <2>6, <2>7 DEF RowStep
  <1>2. ASSUME NEW v \in Workers PROVE OwnerTried(v)'
    <2> DEFINE t == wk'[v].task
    <2>1. SUFFICES ASSUME t # None, HeldBy(tasks'[t], v), Tried(wk'[v])
                   PROVE  tasks'[t].attempts > 0
      BY DEF OwnerTried, HeldBy, Tried
    <2>2. t \in Tasks
      BY <2>1, NextTypeInv DEF TypeInv, TypeOK, WorkerState
    <2>3. /\ t = wk[v].task
          /\ wk[v].pc # "idle"
          /\ \/ Tried(wk[v])
             \/ HeldBy(tasks[t], v) /\ tasks'[t] = BegunAttempt(tasks[t])
      BY <2>1, TriedMoves
    <2>4. HeldBy(tasks[t], v) /\ tasks'[t].attempts >= tasks[t].attempts
      BY <2>1, <2>2, <2>3, TriedRow
    <2>5. tasks[t].attempts \in Nat /\ tasks'[t].attempts \in Nat /\ tasks[t] \in TaskRow
      BY <2>2, NextTypeInv DEF TypeInv, TypeOK, TaskRow
    <2>6. CASE Tried(wk[v])
      BY <2>1, <2>3, <2>4, <2>5, <2>6 DEF LifeInv, OwnerTried
    <2>7. CASE tasks'[t] = BegunAttempt(tasks[t])
      BY <2>5, <2>7 DEF BegunAttempt, TaskRow
    <2>8. QED
      BY <2>3, <2>6, <2>7
  <1>3. QED
    BY <1>1, <1>2 DEF LifeInv

-----------------------------------------------------------------------------
(* The refinement, step by step.                                           *)

\* What the lifecycle lets happen to one task.
Submits(r, q) == /\ r.status = "absent" /\ PhaseOf(q.status) = "waiting"
                 /\ q.lockedBy = r.lockedBy /\ q.attempts = r.attempts
Takes(r, q)   == /\ PhaseOf(r.status) = "waiting" /\ r.attempts < MaxAttempts
                 /\ PhaseOf(q.status) = "running" /\ q.lockedBy \in Workers
                 /\ q.attempts = r.attempts
Tries(r, q)   == /\ PhaseOf(r.status) = "running" /\ r.attempts < MaxAttempts
                 /\ q.attempts = r.attempts + 1
                 /\ q.status = r.status /\ q.lockedBy = r.lockedBy
Finishes(r, q) == /\ PhaseOf(r.status) = "running" /\ r.attempts > 0
                  /\ PhaseOf(q.status) = "done" /\ q.lockedBy = None
                  /\ q.attempts = r.attempts
GivesUp(r, q) == /\ PhaseOf(r.status) = "running"
                 /\ \/ PhaseOf(q.status) = "waiting" /\ r.attempts < MaxAttempts
                    \/ PhaseOf(q.status) = "dropped"
                 /\ q.lockedBy = None /\ q.attempts = r.attempts
Stutters(r, q) == /\ q.status = r.status /\ q.lockedBy = r.lockedBy
                  /\ q.attempts = r.attempts

RowLives(r, q) == \/ Submits(r, q) \/ Takes(r, q) \/ Tries(r, q)
                  \/ Finishes(r, q) \/ GivesUp(r, q) \/ Stutters(r, q)

LEMMA Phases ==
    /\ PhaseOf("absent") = "absent"
    /\ \A s \in Claimable : PhaseOf(s) = "waiting"
    /\ PhaseOf("in_progress") = "running"
    /\ PhaseOf("done") = "done"
    /\ PhaseOf("failed") = "dropped" /\ PhaseOf("stuck") = "dropped"
  BY DEF PhaseOf, Claimable

\* What the ends of a task leave: a try to spare, or no way back.
LEMMA EndsLive ==
    ASSUME NEW r \in TaskRow, r.status = "in_progress", NEW o,
           o = "success" => r.attempts > 0,
           o \in {"postponed", "resource"} => r.attempts < MaxAttempts
    PROVE  /\ RowLives(r, Settled(r, o))
           /\ GivesUp(r, Marked(r))
  <1> USE Phases DEF TaskRow, GivesUp, Claimable
  <1>1. GivesUp(r, FailedRow(r))
    BY DEF FailedRow, Unlocked
  <1>2. r.attempts < MaxAttempts => GivesUp(r, RetryRow(r))
    BY DEF RetryRow, Unlocked
  <1>3. r.attempts > 0 => Finishes(r, Completed(r))
    BY DEF Finishes, Completed, Unlocked
  <1>4. r.attempts < MaxAttempts => GivesUp(r, Postponed(r))
    <2>1. CASE r.postpones >= MaxPostpone
      BY <1>1, <2>1 DEF Postponed
    <2>2. CASE ~(r.postpones >= MaxPostpone)
      <3> DEFINE q == ScheduledRow(r)
      <3>1. /\ q.status = "scheduled" /\ q.lockedBy = None /\ q.attempts = r.attempts
            /\ q \in TaskRow
        BY DEF ScheduledRow, Unlocked, Statuses, Active
      <3>2. r.attempts < MaxAttempts => GivesUp(r, [q EXCEPT !.postpones = @ + 1])
        BY <3>1
      <3>3. QED
        BY <2>2, <3>2 DEF Postponed
    <2>3. QED
      BY <2>1, <2>2
  <1>5. GivesUp(r, Rescheduled(r))
    BY <1>1, <1>2, TableAssumption DEF Rescheduled
  <1>6. RowLives(r, Settled(r, o))
    <2>1. CASE o = "success"
      BY <1>3, <2>1 DEF Settled, RowLives
    <2>2. CASE o \in {"postponed", "resource"}
      BY <1>4, <2>2 DEF Settled, RowLives
    <2>3. CASE o \notin {"success", "postponed", "resource"}
      <3>1. Settled(r, o) \in {FailedRow(r), Rescheduled(r)}
        BY <2>3 DEF Settled
      <3>2. QED
        BY <1>1, <1>5, <3>1 DEF RowLives
    <2>4. QED
      BY <2>1, <2>2, <2>3
  <1>7. GivesUp(r, Marked(r))
    <2>1. CASE ~AutoRetry
      BY <2>1 DEF Marked, Unlocked
    <2>2. CASE AutoRetry /\ CanRetry(r)
      <3> DEFINE q == RetryRow(r)
      <3>1. q \in TaskRow /\ GivesUp(r, q)
        BY <1>2, <2>2, TaskRows DEF CanRetry
      <3>2. GivesUp(r, [q EXCEPT !.wdRetries = @ + 1])
        BY <3>1
      <3>3. QED
        BY <2>2, <3>2 DEF Marked
    <2>3. CASE AutoRetry /\ ~CanRetry(r)
      BY <2>3, <1>1 DEF Marked
    <2>4. QED
      BY <2>1, <2>2, <2>3
  <1>8. QED
    BY <1>6, <1>7

LifeAssumed == /\ TypeInv /\ LockDiscipline /\ AttemptInv /\ LifeInv
               /\ [Next]_vars
               /\ "resource" \notin Outcomes

\* Every row moves as the lifecycle lets it.
LEMMA RowsLive ==
    ASSUME LifeAssumed, NEW t \in Tasks
    PROVE  RowLives(tasks[t], tasks'[t])
  <1> DEFINE r == tasks[t]
             q == tasks'[t]
  <1>0. \A x : Limit(x) = MaxAttempts
    BY TableAssumption DEF LifeAssumed, Limit
  <1>1. /\ r \in TaskRow /\ RowStep(t)
        /\ r.status = "in_progress" <=> r.lockedBy # None
        /\ r.status \in Claimable => r.attempts < MaxAttempts
        /\ r.status = "absent" => r.attempts = 0
    <2>1. r \in TaskRow /\ RowStep(t)
      BY NextRowSteps DEF LifeAssumed, RowSteps, TypeInv, TypeOK
    <2>2. r.status \in Claimable => r.attempts < MaxAttempts
      BY <1>0 DEF LifeAssumed, AttemptInv, RowWithin
    <2>3. QED
      BY <2>1, <2>2 DEF LifeAssumed, LockDiscipline, LifeInv
  <1>2. ASSUME NEW due \in BOOLEAN, r.status = "absent", q = Inserted(Pinned[t], due)
        PROVE  RowLives(r, q)
    BY <1>1, <1>2, Phases DEF Inserted, RowLives, Submits, Claimable
  <1>3. ASSUME NEW w \in Workers, ClaimReady(r), q = Claimed(r, w)
        PROVE  RowLives(r, q)
    BY <1>1, <1>3, Phases DEF ClaimReady, Claimed, RowLives, Takes, TaskRow
  <1>4. ASSUME NEW a, q = [r EXCEPT !.acc = a] PROVE RowLives(r, q)
    BY <1>1, <1>4 DEF RowLives, Stutters, TaskRow
  <1>5. ASSUME NEW w \in Workers, HeldBy(r, w), wk[w].task = t, wk[w].pc = "begin",
               q = BegunAttempt(r)
        PROVE  RowLives(r, q)
    <2>1. r.attempts < MaxAttempts
      BY <1>0, <1>5, DispatchAssumption DEF LifeAssumed, AttemptInv, OwnerWithin, Unspent
    <2>2. QED
      BY <1>1, <1>5, <2>1, Phases DEF BegunAttempt, HeldBy, RowLives, Tries, TaskRow
  <1>6. ASSUME NEW w \in Workers, HeldBy(r, w), wk[w].task = t, wk[w].pc = "settle",
               q = Settled(r, wk[w].out)
        PROVE  RowLives(r, q)
    <2>1. t # None
      BY DispatchAssumption
    <2>2. wk[w].out = "postponed" => r.attempts < MaxAttempts
      BY <1>0, <1>6, <2>1 DEF LifeAssumed, AttemptInv, OwnerWithin, Unspent
    <2>3. wk[w].out = "success" => r.attempts > 0
      BY <1>6, <2>1 DEF LifeAssumed, LifeInv, OwnerTried, Tried
    <2>4. wk[w].out # "resource"
      BY Standing DEF LifeAssumed, Shape
    <2>5. QED
      BY <1>1, <1>6, <2>2, <2>3, <2>4, EndsLive DEF HeldBy
  <1>7. CASE TimedOut(r) /\ q = Marked(r)
    BY <1>1, <1>7, EndsLive DEF TimedOut, RowLives
  <1>8. CASE \/ q = r
             \/ q = [r EXCEPT !.due = TRUE]
             \/ q = [r EXCEPT !.lease = "over"]
             \/ q = [r EXCEPT !.late = TRUE]
    BY <1>1, <1>8 DEF RowLives, Stutters, TaskRow
  <1>9. QED
    BY <1>1, <1>2, <1>3, <1>4, <1>5, <1>6, <1>7, <1>8 DEF RowStep

\* Only the watchdog moves several rows at once.
LEMMA OneRowOrSweep ==
    ASSUME TypeInv, [Next]_vars
    PROVE  \/ MarkStuckTimedOut
           \/ tasks' = tasks
           \/ \E u \in Tasks : \A t \in Tasks : t # u => tasks'[t] = tasks[t]
  <1> DEFINE Goal == \/ tasks' = tasks
                     \/ \E u \in Tasks : \A t \in Tasks : t # u => tasks'[t] = tasks[t]
  <1>1. ASSUME NEW u \in Tasks, NEW row, tasks' = [tasks EXCEPT ![u] = row]
        PROVE  Goal
    BY <1>1 DEF TypeInv, TypeOK
  <1>2. ASSUME NEW w \in Workers, NEW row, Fenced(w, row), wk[w].pc # "idle" PROVE Goal
    <2>1. MyTask(w) \in Tasks
      BY <1>2, Standing
    <2>2. QED
      BY <1>1, <1>2, <2>1 DEF Fenced
  <1>3. ASSUME NEW w \in Workers, WorkerStep(w) PROVE Goal
    <2>1. ASSUME NEW u \in Tasks, ClaimNext(w, u) PROVE Goal
      BY <1>1, <2>1 DEF ClaimNext
    <2>2. CASE AssignAccount(w) \/ UnassignAccount(w) \/ BeginAttempt(w) \/ Settle(w)
      BY <1>2, <2>2 DEF AssignAccount, UnassignAccount, BeginAttempt, Settle
    <2>3. QED
      BY <1>3, <2>1, <2>2 DEF WorkerStep, RefuseType, PickAccount, PickNone, ReserveFixed,
         CheckPasses, CheckRefuses, DualRefused, ReservePair, Execute, SyncAccountHealth,
         ReleaseAccount
  <1>4. ASSUME NEW w \in Workers, WorkerFault(w) PROVE Goal
    BY <1>2, <1>4 DEF WorkerFault, Crash, Cancelled, StatementFailsInTry, AttemptRowFails,
       StatementFailsQuietly, StatementFailsInHandler, ReleaseFails
  <1>5. ASSUME NEW u \in Tasks,
               Enqueue(u) \/ RunAfterPasses(u) \/ LeaseRunsOut(u) \/ TimeoutPasses(u)
        PROVE  Goal
    BY <1>1, <1>5 DEF Enqueue, RunAfterPasses, LeaseRunsOut, TimeoutPasses
  <1>6. QED
    BY <1>3, <1>4, <1>5 DEF Next, vars, ReleaseOrphanAccountLocks, MonitorMarks,
       ClearExpiredCooldowns, CooldownPasses

\* The mapped variables, as functions of the rows.
LEMMA NextImplements ==
    ASSUME LifeAssumed
    PROVE  [Lifecycle!LNext]_(Lifecycle!lvars)
  <1>1. TypeInv /\ [Next]_vars /\ LockDiscipline
    BY DEF LifeAssumed
  <1>2. CASE tasks' = tasks
    BY <1>2 DEF Lifecycle!lvars
  <1>3. ASSUME NEW u \in Tasks, \A t \in Tasks : t # u => tasks'[t] = tasks[t]
        PROVE  [Lifecycle!LNext]_(Lifecycle!lvars)
    <2> DEFINE r == tasks[u]
               q == tasks'[u]
    <2>1. RowLives(r, q)
      BY RowsLive
    <2>2. CASE Submits(r, q)
      <3>1. Lifecycle!Submit(u)
        BY <1>3, <2>2, Phases DEF Submits, Lifecycle!Submit
      <3>2. QED
        BY <3>1 DEF Lifecycle!LNext
    <2>3. CASE Takes(r, q)
      <3>1. PICK w \in Workers : q.lockedBy = w
        BY <2>3 DEF Takes
      <3>2. Lifecycle!Take(u, w)
        BY <1>3, <2>3, <3>1 DEF Takes, Lifecycle!Take
      <3>3. QED
        BY <3>2 DEF Lifecycle!LNext
    <2>4. CASE Tries(r, q)
      <3>1. Lifecycle!Try(u)
        BY <1>3, <2>4 DEF Tries, Lifecycle!Try
      <3>2. QED
        BY <3>1 DEF Lifecycle!LNext
    <2>5. CASE Finishes(r, q)
      <3>1. Lifecycle!Finish(u)
        BY <1>3, <2>5 DEF Finishes, Lifecycle!Finish
      <3>2. QED
        BY <3>1 DEF Lifecycle!LNext
    <2>6. CASE GivesUp(r, q)
      <3>1. PICK back \in SUBSET {u} : u \in back <=> PhaseOf(q.status) = "waiting"
        <4> WITNESS {t \in {u} : PhaseOf(q.status) = "waiting"} \in SUBSET {u}
        <4> QED
          OBVIOUS
      <3>2. Lifecycle!GiveUp({u}, back)
        BY <1>3, <2>6, <3>1 DEF GivesUp, Lifecycle!GiveUp
      <3>3. {u} \in SUBSET Tasks
        OBVIOUS
      <3>4. QED
        BY <3>2, <3>3 DEF Lifecycle!LNext
    <2>7. CASE Stutters(r, q)
      BY <1>3, <2>7 DEF Stutters, Lifecycle!lvars
    <2>8. QED
      BY <2>1, <2>2, <2>3, <2>4, <2>5, <2>6, <2>7 DEF RowLives
  <1>4. CASE MarkStuckTimedOut
    <2> DEFINE lost == {t \in Tasks : TimedOut(tasks[t])}
    <2>1. /\ lost # {}
          /\ \A t \in Tasks : tasks'[t] = IF t \in lost THEN Marked(tasks[t]) ELSE tasks[t]
      BY <1>4 DEF MarkStuckTimedOut
    <2>2. \A t \in lost : GivesUp(tasks[t], tasks'[t])
      <3> TAKE t \in lost
      <3>1. tasks[t] \in TaskRow /\ tasks[t].status = "in_progress"
        BY <1>1 DEF TypeInv, TypeOK, TimedOut
      <3>2. GivesUp(tasks[t], Marked(tasks[t]))
        BY <3>1, EndsLive
      <3>3. QED
        BY <2>1, <3>2
    <2>3. PICK back \in SUBSET lost :
             \A t \in lost : t \in back <=> PhaseOf(tasks'[t].status) = "waiting"
      <3> WITNESS {t \in lost : PhaseOf(tasks'[t].status) = "waiting"} \in SUBSET lost
      <3> QED
        OBVIOUS
    <2>4. Lifecycle!GiveUp(lost, back)
      BY <2>1, <2>2, <2>3 DEF GivesUp, Lifecycle!GiveUp
    <2>5. lost \in SUBSET Tasks
      OBVIOUS
    <2> HIDE DEF lost
    <2>6. QED
      BY <2>4, <2>5 DEF Lifecycle!LNext
  <1>5. QED
    BY <1>1, <1>2, <1>3, <1>4, OneRowOrSweep

\* The queue implements the lifecycle it promises to producers, unless adapters
\* raise ResourceError, which no adapter does and which would try once too often.
THEOREM QueueImplementsLifecycle ==
    ASSUME "resource" \notin Outcomes
    PROVE  Spec => ImplementsLifecycle
  <1>1. Init => Lifecycle!LInit
    <2> SUFFICES ASSUME Init PROVE Lifecycle!LInit
      OBVIOUS
    <2>1. \A t \in Tasks : /\ tasks[t].status = "absent"
                           /\ tasks[t].lockedBy = None
                           /\ tasks[t].attempts = 0
      BY DEF Init, Inserted
    <2>2. QED
      BY <2>1, Phases DEF Lifecycle!LInit
  <1>2. Init => LifeInv
    <2> SUFFICES ASSUME Init PROVE LifeInv
      OBVIOUS
    <2>1. \A t \in Tasks : tasks[t].attempts = 0
      BY DEF Init, Inserted
    <2>2. QED
      BY <2>1 DEF Init, LifeInv, OwnerTried, Idle
  <1>3. TypeInv /\ LifeInv /\ [Next]_vars => LifeInv'
    BY NextLifeInv
  <1>4. TypeInv /\ LockDiscipline /\ AttemptInv /\ LifeInv /\ [Next]_vars
          => [Lifecycle!LNext]_(Lifecycle!lvars)
    BY NextImplements DEF LifeAssumed
  <1>5. QED
    BY <1>1, <1>2, <1>3, <1>4, TypeInvariant, LocksAreDisciplined, AttemptInvariant,
       PTL DEF Spec, ImplementsLifecycle, Lifecycle!LSpec
=============================================================================
