--------------------------- MODULE PipelineProofs ---------------------------
(***************************************************************************)
(* Theorems about Pipeline for every pipeline of ops, every number of      *)
(* workers and accounts and every limit.                                   *)
(***************************************************************************)
EXTENDS Pipeline, TableProofs, TLAPS

-----------------------------------------------------------------------------
(* The inductive invariant.                                                *)

\* A run that is about to work on an op has one, and an account for it.
Working(s) == s.pc \in {"charge", "op", "note"}

RunShape == \A w \in Workers :
               /\ Working(run[w]) => run[w].step \in 1 .. Len(Ops)
               /\ run[w].pc # "idle" => run[w].acc \in Accounts

\* An account that must leave is one this run let in, so it was no listener.
OutsidersLeave == \A w \in Workers : MustLeave(run[w]) => run[w].acc \notin Listeners

\* The worker that holds the task is past every op noted as completed.
HolderIsAhead == \A w \in Workers :
                    row.lockedBy = w /\ Working(run[w]) => run[w].step > last

PipeInv == TypeOK /\ RunShape /\ ListenersStay /\ OutsidersLeave /\ HolderIsAhead

\* Every step moves at most one run; this is what its new state owes.
RunIs(w, s) ==
    /\ s \in Run
    /\ Working(s) => s.step \in 1 .. Len(Ops)
    /\ s.pc # "idle" => s.acc \in Accounts
    /\ MustLeave(s) => s.acc \notin Listeners
    /\ row'.lockedBy = w /\ Working(s) => s.step > last'

\* A step that moves the run of w keeps the invariant, if it moves the row and the
\* noted step only in ways the other runs can stand.
LEMMA OneRun ==
    ASSUME PipeInv, NEW w \in Workers, NEW s, run' = [run EXCEPT ![w] = s], RunIs(w, s),
           row' \in TaskRow, last' \in 0 .. Len(Ops),
           members' \subseteq Accounts, Listeners \subseteq members',
           charged' \in [1 .. Len(Ops) -> Nat], saved' \in {None} \cup SUBSET Data,
           \A v \in Workers \ {w} : row'.lockedBy = v => row.lockedBy = v /\ last' = last
    PROVE  PipeInv'
  <1> USE DEF PipeInv
  <1>1. run' \in [Workers -> Run] /\ run'[w] = s
    BY DEF TypeOK, RunIs
  <1>2. \A v \in Workers \ {w} : run'[v] = run[v]
    BY DEF TypeOK
  <1>3. TypeOK'
    BY <1>1 DEF TypeOK
  <1>4. RunShape'
    BY <1>1, <1>2 DEF RunShape, RunIs
  <1>5. ListenersStay'
    BY DEF ListenersStay
  <1>6. OutsidersLeave'
    BY <1>1, <1>2 DEF OutsidersLeave, RunIs
  <1>7. HolderIsAhead'
    BY <1>1, <1>2 DEF HolderIsAhead, RunIs
  <1>8. QED
    BY <1>3, <1>4, <1>5, <1>6, <1>7

\* A step of the row alone keeps it too, if it hands the row to no one.
LEMMA RowAlone ==
    ASSUME PipeInv, row' \in TaskRow, row'.lockedBy \in {None, row.lockedBy},
           UNCHANGED <<last, run, members, charged, saved>>
    PROVE  PipeInv'
  BY TableAssumption
     DEF PipeInv, TypeOK, RunShape, ListenersStay, OutsidersLeave, HolderIsAhead

LEMMA InitPipeInv == Init => PipeInv
  <1> SUFFICES ASSUME Init PROVE PipeInv
    OBVIOUS
  <1> USE TableAssumption, PipelineAssumption DEF Init
  <1>0. Len(Ops) \in Nat
    OBVIOUS
  <1>1. row \in TaskRow
    BY DEF Inserted, TaskRow, Statuses, Active, Claimable
  <1>2. NoRun \in Run
    BY <1>0 DEF NoRun, Run
  <1>3. TypeOK
    <2>1. run \in [Workers -> Run] /\ charged \in [1 .. Len(Ops) -> Nat]
      BY <1>2
    <2>2. last \in 0 .. Len(Ops)
      BY <1>0
    <2>3. members \subseteq Accounts /\ saved \in {None} \cup SUBSET Data
      OBVIOUS
    <2>4. QED
      BY <1>1, <2>1, <2>2, <2>3 DEF TypeOK
  <1>4. RunShape /\ ListenersStay /\ OutsidersLeave /\ HolderIsAhead
    BY DEF RunShape, ListenersStay, OutsidersLeave, HolderIsAhead, NoRun, Working, MustLeave
  <1>5. QED
    BY <1>3, <1>4 DEF PipeInv

\* The statements that end an attempt give the lock up.
LEMMA LockGivenUp ==
    ASSUME NEW r \in TaskRow
    PROVE  /\ Completed(r).lockedBy = None
           /\ FailedRow(r).lockedBy = None
           /\ Rescheduled(r).lockedBy = None
           /\ Marked(r).lockedBy = None
  BY DEF Completed, FailedRow, Rescheduled, RetryRow, Marked, Unlocked, TaskRow

\* The ops act on the members as the invariant needs: only an account this run let
\* in leaves, and only one that was not a member is let in.
LEMMA OpMembers ==
    ASSUME PipeInv, NEW w \in Workers, run[w].pc = "op"
    PROVE  /\ MembersAfterOp(run[w]) \subseteq Accounts
           /\ Listeners \subseteq MembersAfterOp(run[w])
  BY DEF PipeInv, TypeOK, RunShape, ListenersStay, OutsidersLeave, MembersAfterOp

LEMMA OpRun ==
    ASSUME NEW r \in Run, Listeners \subseteq members, MustLeave(r) => r.acc \notin Listeners
    PROVE  /\ AfterOp(r) \in Run
           /\ AfterOp(r).step = r.step /\ AfterOp(r).acc = r.acc
           /\ MustLeave(AfterOp(r)) => r.acc \notin Listeners
  <1>1. CASE Ops[r.step] = "join"
    <2>1. AfterOp(r) = Joined(r, r.acc \in members)
      BY <1>1 DEF AfterOp, Data
    <2>2. CASE r.acc \in members
      <3>1. AfterOp(r) = [r EXCEPT !.already = TRUE]
        BY <2>1, <2>2 DEF Joined
      <3>2. QED
        BY <3>1 DEF Run, MustLeave
    <2>3. CASE r.acc \notin members
      <3>1. AfterOp(r) = [r EXCEPT !.joined = TRUE]
        BY <2>1, <2>3 DEF Joined
      <3>2. QED
        BY <2>3, <3>1 DEF Run, MustLeave
    <2>4. QED
      BY <2>2, <2>3
  <1>2. CASE Ops[r.step] \in Data
    <2>1. AfterOp(r) = [r EXCEPT !.got = @ \cup {Ops[r.step]}]
      BY <1>2 DEF AfterOp, Data
    <2>2. QED
      BY <1>2, <2>1 DEF Run, MustLeave
  <1>3. CASE Ops[r.step] # "join" /\ Ops[r.step] \notin Data
    BY <1>3 DEF AfterOp
  <1>4. QED
    BY <1>1, <1>2, <1>3

-----------------------------------------------------------------------------
(* Every step keeps the invariant.                                         *)

LEMMA WorkerKeepsPipeInv ==
    ASSUME PipeInv, NEW w \in Workers,
           StartAttempt(w) \/ Charge(w) \/ ExecuteOp(w) \/ OpFails(w) \/ NoteStep(w)
             \/ SaveSignals(w) \/ CompleteTask(w) \/ FailTask(w) \/ StatementFails(w)
             \/ Crash(w)
    PROVE  PipeInv'
  <1> DEFINE r == run[w]
  <1>0. /\ Len(Ops) \in Nat /\ last \in 0 .. Len(Ops)
        /\ row \in TaskRow /\ r \in Run
        /\ Working(r) => r.step \in 1 .. Len(Ops)
        /\ r.pc # "idle" => r.acc \in Accounts
        /\ MustLeave(r) => r.acc \notin Listeners
        /\ row.lockedBy = w /\ Working(r) => r.step > last
        /\ members \subseteq Accounts /\ Listeners \subseteq members
        /\ charged \in [1 .. Len(Ops) -> Nat] /\ saved \in {None} \cup SUBSET Data
    BY PipelineAssumption
       DEF PipeInv, TypeOK, RunShape, ListenersStay, OutsidersLeave, HolderIsAhead
  <1>a. RunIs(w, NoRun)
    BY <1>0 DEF RunIs, NoRun, Run, Working, MustLeave
  <1>b. ASSUME NEW pc \in {"op", "complete", "fail"},
               pc = "op" => Working(r), r.pc # "idle", last' = last, row' = row
        PROVE  RunIs(w, [r EXCEPT !.pc = pc])
    BY <1>0, <1>b DEF RunIs, Run, Working, MustLeave
  <1> HIDE DEF r
  <1>1. CASE StartAttempt(w)
    <2>1. PICK a \in IF row.acc = None THEN Accounts ELSE {row.acc} :
             /\ row' = [BegunAttempt(Claimed(row, w)) EXCEPT !.acc = a]
             /\ run' = [run EXCEPT ![w] =
                          [NoRun EXCEPT !.pc = IF ResumeAt(last) > Len(Ops) THEN "save"
                                                                            ELSE "charge",
                                        !.step = ResumeAt(last), !.acc = a]]
      BY <1>1 DEF StartAttempt
    <2>2. a \in Accounts
      BY <1>0, <2>1 DEF TaskRow
    <2>3. row' \in TaskRow /\ row'.lockedBy = w
      <3>1. Claimed(row, w) \in TaskRow /\ Claimed(row, w).lockedBy = w
        BY <1>0, TaskRows DEF Claimed, TaskRow
      <3>2. /\ BegunAttempt(Claimed(row, w)) \in TaskRow
            /\ BegunAttempt(Claimed(row, w)).lockedBy = w
        BY <3>1, TaskRows DEF BegunAttempt, TaskRow
      <3>3. QED
        BY <2>1, <2>2, <3>2 DEF TaskRow
    <2>4. RunIs(w, [NoRun EXCEPT !.pc = IF ResumeAt(last) > Len(Ops) THEN "save"
                                                                     ELSE "charge",
                                 !.step = ResumeAt(last), !.acc = a])
      <3> DEFINE p == IF ResumeAt(last) > Len(Ops) THEN "save" ELSE "charge"
                 s == [NoRun EXCEPT !.pc = p, !.step = ResumeAt(last), !.acc = a]
      <3>1. last' = last /\ ResumeAt(last) = last + 1
        BY <1>1 DEF StartAttempt, ResumeAt
      <3>2. last + 1 \in 0 .. Len(Ops) + 1
        BY <1>0
      <3>3. p \in {"save", "charge"} /\ (p = "charge" => last + 1 \in 1 .. Len(Ops))
        BY <1>0, <3>1
      <3> HIDE DEF p
      <3>4. NoRun \in Run /\ ~NoRun.joined
        BY <1>a DEF RunIs, NoRun
      <3>5. s \in Run /\ s.pc = p /\ s.step = last + 1 /\ s.acc = a
        BY <2>2, <3>1, <3>2, <3>3, <3>4 DEF Run
      <3>6. ~MustLeave(s) /\ s.step > last'
        BY <1>0, <3>1, <3>4, <3>5 DEF MustLeave, Run
      <3> HIDE DEF s
      <3>7. Working(s) => s.step \in 1 .. Len(Ops)
        BY <3>3, <3>5 DEF Working
      <3>8. RunIs(w, s)
        BY <2>2, <3>5, <3>6, <3>7 DEF RunIs
      <3>9. QED
        BY <3>8 DEF s, p
    <2>5. QED
      BY <1>0, <1>1, <2>1, <2>3, <2>4, OneRun DEF StartAttempt
  <1>2. CASE Charge(w)
    <2>1. /\ run' = [run EXCEPT ![w] = [r EXCEPT !.pc = "op"]]
          /\ row' = row /\ last' = last /\ members' = members /\ saved' = saved
          /\ r.pc = "charge"
      BY <1>2 DEF Charge, r
    <2>2. charged' \in [1 .. Len(Ops) -> Nat]
      <3>1. charged' = [charged EXCEPT ![r.step] = charged[r.step] + 1]
        BY <1>2 DEF Charge, r
      <3>2. r.step \in 1 .. Len(Ops)
        BY <1>0, <2>1 DEF Working
      <3>3. QED
        BY <1>0, <3>1, <3>2
    <2>3. RunIs(w, [r EXCEPT !.pc = "op"])
      BY <2>1, <1>b DEF Working
    <2>4. QED
      BY <1>0, <2>1, <2>2, <2>3, OneRun
  <1>3. CASE ExecuteOp(w)
    <2>1. /\ run' = [run EXCEPT ![w] = [AfterOp(r) EXCEPT !.pc = "note"]]
          /\ members' = MembersAfterOp(r) /\ r.pc = "op"
          /\ row' = row /\ last' = last /\ charged' = charged /\ saved' = saved
      BY <1>3 DEF ExecuteOp, r
    <2>2. members' \subseteq Accounts /\ Listeners \subseteq members'
      BY <2>1, OpMembers DEF r
    <2>3. RunIs(w, [AfterOp(r) EXCEPT !.pc = "note"])
      BY <1>0, <2>1, OpRun DEF RunIs, Run, Working, MustLeave
    <2>4. QED
      BY <1>0, <2>1, <2>2, <2>3, OneRun
  <1>4. CASE OpFails(w)
    <2>1. /\ run' = [run EXCEPT ![w] = [r EXCEPT !.pc = "fail"]]
          /\ members' \in {members, MembersAfterOp(r)} /\ r.pc = "op"
          /\ row' = row /\ last' = last /\ charged' = charged /\ saved' = saved
      BY <1>4 DEF OpFails, r
    <2>2. members' \subseteq Accounts /\ Listeners \subseteq members'
      BY <1>0, <2>1, OpMembers DEF r
    <2>3. RunIs(w, [r EXCEPT !.pc = "fail"])
      BY <2>1, <1>b
    <2>4. QED
      BY <1>0, <2>1, <2>2, <2>3, OneRun
  <1>5. CASE NoteStep(w)
    <2> DEFINE pc == IF r.step = Len(Ops) THEN "save" ELSE "charge"
    <2>1. /\ run' = [run EXCEPT ![w] = [r EXCEPT !.step = r.step + 1, !.pc = pc]]
          /\ last' = IF HeldBy(row, w) THEN r.step ELSE last
          /\ r.pc = "note"
          /\ row' = row /\ members' = members /\ charged' = charged /\ saved' = saved
      BY <1>5 DEF NoteStep, r
    <2>2. r.step \in 1 .. Len(Ops) /\ (row.lockedBy = w => r.step > last)
      BY <1>0, <2>1 DEF Working
    <2>3. RunIs(w, [r EXCEPT !.step = r.step + 1, !.pc = pc])
      <3> DEFINE s == [r EXCEPT !.step = r.step + 1, !.pc = pc]
      <3>1. pc \in {"save", "charge"} /\ (pc = "charge" => r.step + 1 \in 1 .. Len(Ops))
        BY <1>0, <2>2
      <3>2. row'.lockedBy = w => r.step + 1 > last'
        BY <1>0, <2>1, <2>2
      <3> HIDE DEF pc
      <3>3. s \in Run /\ s.pc = pc /\ s.step = r.step + 1 /\ s.acc = r.acc
        <4>1. r.step + 1 \in 0 .. Len(Ops) + 1
          BY <1>0, <2>2
        <4>2. QED
          BY <1>0, <3>1, <4>1 DEF Run
      <3>4. MustLeave(s) <=> MustLeave(r)
        BY <1>0 DEF MustLeave, Run
      <3> HIDE DEF s
      <3>5. RunIs(w, s)
        BY <1>0, <2>1, <3>1, <3>2, <3>3, <3>4 DEF RunIs, Working
      <3>6. QED
        BY <3>5 DEF s, pc
    <2>4. last' \in 0 .. Len(Ops) /\ (row.lockedBy # w => last' = last)
      BY <1>0, <2>1, <2>2 DEF HeldBy
    <2>5. QED
      BY <1>0, <2>1, <2>3, <2>4, OneRun
  <1>6. CASE SaveSignals(w)
    <2>1. /\ run' = [run EXCEPT ![w] = [r EXCEPT !.pc = "complete"]]
          /\ saved' = r.got /\ r.pc = "save"
          /\ row' = row /\ last' = last /\ members' = members /\ charged' = charged
      BY <1>6 DEF SaveSignals, r
    <2>2. RunIs(w, [r EXCEPT !.pc = "complete"]) /\ saved' \in SUBSET Data
      BY <1>0, <2>1, <1>b DEF Run
    <2>3. QED
      BY <1>0, <2>1, <2>2, OneRun
  <1>7. ASSUME NEW settled \in TaskRow, settled.lockedBy = None, Finish(w, settled)
        PROVE  PipeInv'
    <2>1. row' \in TaskRow /\ row'.lockedBy \in {None, row.lockedBy}
      BY <1>0, <1>7 DEF Finish
    <2>2. QED
      BY <1>0, <1>7, <1>a, <2>1, TableAssumption, OneRun DEF Finish
  <1>8. CASE CompleteTask(w)
    BY <1>0, <1>7, <1>8, TaskRows, LockGivenUp DEF CompleteTask
  <1>9. CASE FailTask(w)
    <2>1. [row EXCEPT !.acc = None] \in TaskRow
      BY <1>0, TaskRows
    <2>2. QED
      BY <1>0, <1>7, <1>9, <2>1, TaskRows, LockGivenUp DEF FailTask
  <1>10. CASE StatementFails(w)
    <2>1. /\ run' = [run EXCEPT ![w] = [r EXCEPT !.pc = "fail"]]
          /\ r.pc # "idle"
          /\ UNCHANGED <<row, last, members, charged, saved>>
      BY <1>10 DEF StatementFails, r
    <2>2. RunIs(w, [r EXCEPT !.pc = "fail"])
      BY <2>1, <1>b
    <2>3. QED
      BY <1>0, <2>1, <2>2, OneRun
  <1>11. CASE Crash(w)
    BY <1>0, <1>a, <1>11, OneRun DEF Crash
  <1>12. QED
    BY <1>1, <1>2, <1>3, <1>4, <1>5, <1>6, <1>8, <1>9, <1>10, <1>11

LEMMA NextPipeInv == PipeInv /\ [Next]_vars => PipeInv'
  <1> SUFFICES ASSUME PipeInv, [Next]_vars PROVE PipeInv'
    OBVIOUS
  <1>0. row \in TaskRow
    BY DEF PipeInv, TypeOK
  <1>1. ASSUME NEW w \in Workers,
               StartAttempt(w) \/ Charge(w) \/ ExecuteOp(w) \/ OpFails(w) \/ NoteStep(w)
                 \/ SaveSignals(w) \/ CompleteTask(w) \/ FailTask(w) \/ StatementFails(w)
                 \/ Crash(w)
        PROVE  PipeInv'
    BY <1>1, WorkerKeepsPipeInv
  <1>2. CASE Watchdog
    BY <1>0, <1>2, TaskRows, LockGivenUp, RowAlone DEF Watchdog
  <1>3. CASE TimePasses
    <2>1. row' \in TaskRow /\ row'.lockedBy = row.lockedBy
      BY <1>0, <1>3 DEF TimePasses, TaskRow
    <2>2. QED
      BY <1>3, <2>1, RowAlone DEF TimePasses
  <1>4. CASE UNCHANGED vars
    BY <1>0, <1>4, RowAlone DEF vars
  <1>5. QED
    BY <1>1, <1>2, <1>3, <1>4 DEF Next

THEOREM PipelineInvariant == Spec => []PipeInv
  BY InitPipeInv, NextPipeInv, PTL DEF Spec

-----------------------------------------------------------------------------
(* What follows from it.                                                   *)

\* No account is ever taken out of a channel it listened to before the task.
THEOREM ListenersNeverKicked == Spec => []ListenersStay
  <1>1. PipeInv => ListenersStay
    BY DEF PipeInv
  <1>2. QED
    BY <1>1, PipelineInvariant, PTL

\* The step noted as completed only moves forward: the fence keeps out a worker that
\* lost the task, and the one that holds it is ahead.
THEOREM ProgressOnlyGrows == Spec => ProgressIsKept
  <1>1. PipeInv /\ [Next]_vars => [last' >= last]_vars
    <2> SUFFICES ASSUME PipeInv, [Next]_vars PROVE last' >= last
      OBVIOUS
    <2>1. last \in 0 .. Len(Ops) /\ Len(Ops) \in Nat
      BY PipelineAssumption DEF PipeInv, TypeOK
    <2>2. ASSUME NEW w \in Workers, NoteStep(w) PROVE last' >= last
      <3>1. CASE HeldBy(row, w)
        <4>1. run[w].step > last /\ run[w].step \in Nat
          BY <2>1, <2>2, <3>1 DEF NoteStep, HeldBy, PipeInv, HolderIsAhead, RunShape, Working
        <4>2. QED
          BY <2>1, <2>2, <3>1, <4>1 DEF NoteStep
      <3>2. CASE ~HeldBy(row, w)
        BY <2>1, <2>2, <3>2 DEF NoteStep
      <3>3. QED
        BY <3>1, <3>2
    <2>3. CASE UNCHANGED last
      BY <2>1, <2>3
    <2>4. QED
      BY <2>2, <2>3 DEF Next, vars, StartAttempt, Charge, ExecuteOp, OpFails, SaveSignals,
                        CompleteTask, FailTask, Finish, StatementFails, Crash, Watchdog,
                        TimePasses
  <1>2. QED
    BY <1>1, PipelineInvariant, PTL DEF Spec, ProgressIsKept

\* The worker that holds the task pays for no op a second time once it is noted.
THEOREM ChargedOnce == Spec => NotChargedAgain
  <1> DEFINE Step == \A w \in Workers :
                 row.lockedBy = w /\ run[w].pc = "charge" /\ run'[w].pc = "op" =>
                    \A s \in 1 .. last : charged'[s] = charged[s]
  <1>1. PipeInv /\ [Next]_vars => [Step]_vars
    <2> SUFFICES ASSUME PipeInv, Next,
                        NEW w \in Workers, row.lockedBy = w,
                        run[w].pc = "charge", run'[w].pc = "op",
                        NEW s \in 1 .. last
                 PROVE  charged'[s] = charged[s]
      OBVIOUS
    <2>1. last \in 0 .. Len(Ops) /\ Len(Ops) \in Nat
      BY PipelineAssumption DEF PipeInv, TypeOK
    <2>2. run[w].step > last /\ run[w].step \in 1 .. Len(Ops)
      BY DEF PipeInv, HolderIsAhead, RunShape, Working
    <2>3. run \in [Workers -> Run] /\ charged \in [1 .. Len(Ops) -> Nat]
      BY DEF PipeInv, TypeOK
    <2>4. ASSUME NEW v \in Workers, Charge(v) PROVE charged'[s] = charged[s]
      <3>1. CASE v = w
        BY <2>1, <2>2, <2>3, <2>4, <3>1 DEF Charge
      <3>2. CASE v # w
        BY <2>3, <2>4, <3>2 DEF Charge
      <3>3. QED
        BY <3>1, <3>2
    <2>5. CASE UNCHANGED charged
      BY <2>5
    <2>6. QED
      BY <2>4, <2>5 DEF Next, StartAttempt, ExecuteOp, OpFails, NoteStep, SaveSignals,
                        CompleteTask, FailTask, Finish, StatementFails, Crash, Watchdog,
                        TimePasses
  <1>2. QED
    BY <1>1, PipelineInvariant, PTL DEF Spec, NotChargedAgain

-----------------------------------------------------------------------------
(* A first attempt that ends well.  A second one starts with an empty       *)
(* context, so nothing of this holds for it: DoneHasSignals fails.          *)

\* ordered_pipeline of collect_extra_data and update_channel: each op once, all
\* that collect, and what joins leaves.
WholePipeline ==
    /\ \A i, j \in DOMAIN Ops : Ops[i] = Ops[j] => i = j
    /\ \A d \in Data : \E i \in DOMAIN Ops : Ops[i] = d
    /\ \A i \in DOMAIN Ops : Ops[i] = "join" => \E j \in DOMAIN Ops : i < j /\ Ops[j] = "leave"

\* The ops a run has behind it.
DoneOps(s) == {Ops[i] : i \in 1 .. (IF s.pc = "note" THEN s.step ELSE s.step - 1)}

Advancing == {"charge", "op", "note", "save", "complete"}

\* What the context of a first run and the channel m have in common.
CleanRun(s, m, d) ==
    /\ s.pc \in {"save", "complete"} => s.step = Len(Ops) + 1
    /\ s.got = Data \cap DoneOps(s)
    /\ s.joined <=> "join" \in DoneOps(s) /\ s.acc \notin Listeners
    /\ s.already <=> "join" \in DoneOps(s) /\ s.acc \in Listeners
    /\ m = Listeners \cup IF s.joined /\ "leave" \notin DoneOps(s) THEN {s.acc} ELSE {}
    /\ s.pc = "complete" => d = s.got

AllIdle == \A w \in Workers : run[w].pc = "idle"
OneRunner == \A v, w \in Workers : run[v].pc # "idle" /\ run[w].pc # "idle" => v = w

FirstInv ==
    /\ row.attempts = 0 => AllIdle /\ members = Listeners /\ last = 0 /\ row.status # "done"
    /\ row.attempts = 1 =>
          /\ OneRunner
          /\ \A w \in Workers : run[w].pc \in Advancing => CleanRun(run[w], members, saved)
    /\ row.attempts = 1 /\ row.status = "done" =>
          AllIdle /\ members = Listeners /\ saved = Data

\* A step of the run that is under way.
LEMMA RunnerMoves ==
    ASSUME PipeInv, FirstInv, NEW w \in Workers, run[w].pc # "idle", NEW s,
           run' = [run EXCEPT ![w] = s], row'.attempts = row.attempts,
           row.attempts = 1 /\ row'.status = "done" /\ row.status # "done"
              => s.pc = "idle" /\ members' = Listeners /\ saved' = Data,
           row.attempts = 1 /\ s.pc \in Advancing => CleanRun(s, members', saved')
    PROVE  FirstInv'
  <1>1. run'[w] = s /\ \A v \in Workers \ {w} : run'[v] = run[v]
    BY DEF PipeInv, TypeOK
  <1>2. row.attempts # 0 /\ ~(row.attempts = 1 /\ row.status = "done")
    BY DEF FirstInv, AllIdle
  <1>3. CASE row.attempts # 1
    BY <1>2, <1>3 DEF FirstInv
  <1>4. CASE row.attempts = 1
    <2>1. \A v \in Workers \ {w} : run[v].pc = "idle"
      BY <1>4 DEF FirstInv, OneRunner
    <2>2. \A v \in Workers \ {w} : run'[v].pc = "idle"
      BY <1>1, <2>1
    <2>3. OneRunner'
      BY <2>2 DEF OneRunner
    <2>4. \A v \in Workers : run'[v].pc \in Advancing => CleanRun(run'[v], members', saved')
      BY <1>1, <1>4, <2>2 DEF Advancing
    <2>5. row'.status = "done" => AllIdle' /\ members' = Listeners /\ saved' = Data
      BY <1>1, <1>2, <1>4, <2>2 DEF AllIdle
    <2>6. QED
      BY <1>2, <1>4, <2>3, <2>4, <2>5 DEF FirstInv
  <1>5. QED
    BY <1>3, <1>4

\* A step of the row alone.
LEMMA RowMoves ==
    ASSUME FirstInv, row'.attempts = row.attempts, row'.status = "done" => row.status = "done",
           UNCHANGED <<last, run, members, charged, saved>>
    PROVE  FirstInv'
  BY DEF FirstInv, AllIdle, OneRunner, CleanRun, DoneOps

\* The statements leave the count of attempts, and only Completed makes a row done.
LEMMA AttemptsKept ==
    ASSUME NEW r \in TaskRow
    PROVE  /\ Completed(r).attempts = r.attempts
           /\ FailedRow(r).attempts = r.attempts /\ FailedRow(r).status # "done"
           /\ Rescheduled(r).attempts = r.attempts /\ Rescheduled(r).status # "done"
           /\ Marked(r).attempts = r.attempts /\ Marked(r).status # "done"
  BY DEF Completed, FailedRow, Rescheduled, RetryRow, Marked, Unlocked, TaskRow

\* The op at hand is done once, and a leave comes after the join.
LEMMA OpsInOrder ==
    ASSUME WholePipeline, NEW i \in DOMAIN Ops
    PROVE  /\ \A k \in 1 .. i - 1 : Ops[k] # Ops[i]
           /\ Ops[i] = "join" => \A k \in 1 .. i - 1 : Ops[k] # "leave"
  <1>1. Len(Ops) \in Nat /\ DOMAIN Ops = 1 .. Len(Ops)
    BY PipelineAssumption
  <1>2. \A k \in 1 .. i - 1 : k \in DOMAIN Ops /\ k < i
    BY <1>1
  <1>3. QED
    BY <1>1, <1>2 DEF WholePipeline

LEMMA CleanOp ==
    ASSUME WholePipeline, NEW r \in Run, r.pc = "op", r.step \in DOMAIN Ops, r.acc \in Accounts,
           NEW d, CleanRun(r, members, d)
    PROVE  CleanRun([AfterOp(r) EXCEPT !.pc = "note"], MembersAfterOp(r), d)
  <1> DEFINE x == Ops[r.step]
             n == [AfterOp(r) EXCEPT !.pc = "note"]
             B == DoneOps(r)
  <1>0. Len(Ops) \in Nat /\ DOMAIN Ops = 1 .. Len(Ops) /\ r.step \in Nat
    BY PipelineAssumption DEF Run
  <1>1. B = {Ops[i] : i \in 1 .. (r.step - 1)}
    BY DEF DoneOps
  <1>2. x \notin B /\ (x = "join" => "leave" \notin B)
    BY <1>1, OpsInOrder
  <1>3. 1 .. r.step = (1 .. (r.step - 1)) \cup {r.step}
    BY <1>0
  <1>4. /\ r.got = Data \cap B
        /\ r.joined <=> "join" \in B /\ r.acc \notin Listeners
        /\ r.already <=> "join" \in B /\ r.acc \in Listeners
        /\ members = Listeners \cup IF r.joined /\ "leave" \notin B THEN {r.acc} ELSE {}
    BY DEF CleanRun
  <1>5. ASSUME NEW s \in Run, s.step = r.step, s.pc = "note" PROVE DoneOps(s) = B \cup {x}
    BY <1>1, <1>3, <1>5 DEF DoneOps
  <1> HIDE DEF B, x
  <1>6. CASE x = "join"
    <2>0. members = Listeners
      BY <1>2, <1>4, <1>6
    <2>1. AfterOp(r) = Joined(r, r.acc \in members) /\ MembersAfterOp(r) = members \cup {r.acc}
      BY <1>6 DEF AfterOp, MembersAfterOp, Data, x
    <2>2. CASE r.acc \in members
      <3>1. AfterOp(r) = [r EXCEPT !.already = TRUE]
        BY <2>1, <2>2 DEF Joined
      <3>2. /\ n \in Run /\ n.step = r.step /\ n.pc = "note" /\ n.acc = r.acc /\ n.got = r.got
            /\ n.joined = r.joined /\ n.already = TRUE
        BY <3>1 DEF Run
      <3> HIDE DEF n
      <3>3. DoneOps(n) = B \cup {"join"}
        BY <1>5, <1>6, <3>2
      <3>4. CleanRun(n, MembersAfterOp(r), d)
        BY <1>2, <1>4, <1>6, <2>0, <2>1, <2>2, <3>2, <3>3 DEF CleanRun, Data
      <3>5. QED
        BY <3>4 DEF n
    <2>3. CASE r.acc \notin members
      <3>1. AfterOp(r) = [r EXCEPT !.joined = TRUE]
        BY <2>1, <2>3 DEF Joined
      <3>2. /\ n \in Run /\ n.step = r.step /\ n.pc = "note" /\ n.acc = r.acc /\ n.got = r.got
            /\ n.joined = TRUE /\ n.already = r.already
        BY <3>1 DEF Run
      <3> HIDE DEF n
      <3>3. DoneOps(n) = B \cup {"join"}
        BY <1>5, <1>6, <3>2
      <3>4. CleanRun(n, MembersAfterOp(r), d)
        BY <1>2, <1>4, <1>6, <2>0, <2>1, <2>3, <3>2, <3>3 DEF CleanRun, Data
      <3>5. QED
        BY <3>4 DEF n
    <2>4. QED
      BY <2>2, <2>3
  <1>7. CASE x \in Data
    <2>1. AfterOp(r) = [r EXCEPT !.got = @ \cup {x}] /\ MembersAfterOp(r) = members
      BY <1>7 DEF AfterOp, MembersAfterOp, Data, x
    <2>2. /\ n \in Run /\ n.step = r.step /\ n.pc = "note" /\ n.acc = r.acc /\ n.got = r.got \cup {x}
          /\ n.joined = r.joined /\ n.already = r.already
      <3>1. r.got \cup {x} \in SUBSET Data
        BY <1>7 DEF Run
      <3>2. n = [r EXCEPT !.got = r.got \cup {x}, !.pc = "note"]
        BY <2>1
      <3>3. QED
        BY <3>1, <3>2 DEF Run
    <2> HIDE DEF n
    <2>3. DoneOps(n) = B \cup {x} /\ x # "join" /\ x # "leave"
      BY <1>5, <1>7, <2>2 DEF Data
    <2>4. CleanRun(n, MembersAfterOp(r), d)
      BY <1>4, <1>7, <2>1, <2>2, <2>3 DEF CleanRun
    <2>5. QED
      BY <2>4 DEF n
  <1>8. CASE x # "join" /\ x \notin Data
    <2>1. /\ AfterOp(r) = r
          /\ MembersAfterOp(r) = IF x = "leave" /\ MustLeave(r) THEN members \ {r.acc} ELSE members
      BY <1>8 DEF AfterOp, MembersAfterOp, x
    <2>2. /\ n \in Run /\ n.step = r.step /\ n.pc = "note" /\ n.acc = r.acc /\ n.got = r.got
          /\ n.joined = r.joined /\ n.already = r.already
      BY <2>1 DEF Run
    <2> HIDE DEF n
    <2>3. DoneOps(n) = B \cup {x}
      BY <1>5, <2>2
    <2>4. CleanRun(n, MembersAfterOp(r), d)
      <3>1. CASE x = "leave"
        <4>1. MembersAfterOp(r) = Listeners
          BY <1>2, <1>4, <2>1, <3>1 DEF MustLeave
        <4>2. QED
          BY <1>4, <1>8, <2>2, <2>3, <3>1, <4>1 DEF CleanRun
      <3>2. CASE x # "leave"
        BY <1>4, <1>8, <2>1, <2>2, <2>3, <3>2 DEF CleanRun
      <3>3. QED
        BY <3>1, <3>2
    <2>5. QED
      BY <2>4 DEF n
  <1>9. QED
    BY <1>6, <1>7, <1>8

\* At the end of the pipeline all is collected and the channel left.
LEMMA CleanEnd ==
    ASSUME WholePipeline, NEW s \in Run, s.pc \in {"save", "complete"}, NEW m, NEW d,
           CleanRun(s, m, d)
    PROVE  s.got = Data /\ m = Listeners
  <1>1. Len(Ops) \in Nat /\ DOMAIN Ops = 1 .. Len(Ops)
    BY PipelineAssumption
  <1>2. DoneOps(s) = {Ops[i] : i \in DOMAIN Ops}
    BY <1>1 DEF DoneOps, CleanRun
  <1>3. \A x \in Data : x \in DoneOps(s)
    BY <1>2 DEF WholePipeline
  <1>4. "join" \in DoneOps(s) => "leave" \in DoneOps(s)
    BY <1>2 DEF WholePipeline
  <1>5. QED
    BY <1>3, <1>4 DEF CleanRun

LEMMA FirstStep == ASSUME WholePipeline, PipeInv, FirstInv, [Next]_vars PROVE FirstInv'
  <1>0. /\ row \in TaskRow /\ Len(Ops) \in Nat /\ DOMAIN Ops = 1 .. Len(Ops)
        /\ last \in 0 .. Len(Ops) /\ run \in [Workers -> Run]
    BY PipelineAssumption DEF PipeInv, TypeOK
  <1>1. ASSUME NEW w \in Workers, StartAttempt(w) PROVE FirstInv'
    <2>1. PICK a \in IF row.acc = None THEN Accounts ELSE {row.acc} :
             /\ row' = [BegunAttempt(Claimed(row, w)) EXCEPT !.acc = a]
             /\ run' = [run EXCEPT ![w] =
                          [NoRun EXCEPT !.pc = IF ResumeAt(last) > Len(Ops) THEN "save"
                                                                            ELSE "charge",
                                        !.step = ResumeAt(last), !.acc = a]]
      BY <1>1 DEF StartAttempt
    <2>2. row'.attempts = row.attempts + 1 /\ row'.status = "in_progress" /\ row.attempts \in Nat
      BY <1>0, <2>1 DEF BegunAttempt, Claimed, TaskRow
    <2>3. CASE row.attempts # 0
      BY <2>2, <2>3 DEF FirstInv
    <2>4. CASE row.attempts = 0
      <3>1. AllIdle /\ members = Listeners /\ last = 0 /\ UNCHANGED <<members, saved>>
        BY <1>1, <2>4 DEF FirstInv, StartAttempt
      <3>2. /\ run'[w].pc = "charge" /\ run'[w].step = 1 /\ run'[w].got = {}
            /\ ~run'[w].joined /\ ~run'[w].already
            /\ \A v \in Workers \ {w} : run'[v].pc = "idle"
        <4>1. ResumeAt(last) = 1 /\ Len(Ops) >= 1
          BY <1>0, <3>1 DEF ResumeAt, WholePipeline, Data
        <4>2. QED
          BY <1>0, <2>1, <3>1, <4>1 DEF AllIdle, NoRun
      <3>3. DoneOps(run'[w]) = {}
        BY <3>2 DEF DoneOps
      <3>4. CleanRun(run'[w], members', saved')
        BY <3>1, <3>2, <3>3 DEF CleanRun
      <3>5. OneRunner' /\ \A v \in Workers : run'[v].pc \in Advancing
                                               => CleanRun(run'[v], members', saved')
        BY <3>2, <3>4 DEF OneRunner, Advancing
      <3>6. QED
        BY <2>2, <2>4, <3>5 DEF FirstInv
    <2>5. QED
      BY <2>3, <2>4
  <1>2. ASSUME NEW w \in Workers,
               Charge(w) \/ ExecuteOp(w) \/ OpFails(w) \/ NoteStep(w) \/ SaveSignals(w)
                 \/ CompleteTask(w) \/ FailTask(w) \/ StatementFails(w) \/ Crash(w)
        PROVE  FirstInv'
    <2> DEFINE r == run[w]
    <2>0. /\ r \in Run /\ (Working(r) => r.step \in DOMAIN Ops)
          /\ (r.pc # "idle" => r.acc \in Accounts)
          /\ (row.attempts = 1 /\ r.pc \in Advancing => CleanRun(r, members, saved))
      BY <1>0 DEF PipeInv, RunShape, FirstInv
    <2> HIDE DEF r
    <2>a. CASE Charge(w)
      <3>1. /\ r.pc = "charge" /\ run' = [run EXCEPT ![w] = [r EXCEPT !.pc = "op"]]
            /\ UNCHANGED <<row, members, saved>>
        BY <2>a DEF Charge, r
      <3>2. CleanRun(r, members, saved) => CleanRun([r EXCEPT !.pc = "op"], members, saved)
        BY <2>0, <3>1 DEF CleanRun, DoneOps, Run
      <3>3. QED
        BY <2>0, <3>1, <3>2, RunnerMoves DEF r, Advancing
    <2>b. CASE ExecuteOp(w)
      <3>1. /\ r.pc = "op" /\ run' = [run EXCEPT ![w] = [AfterOp(r) EXCEPT !.pc = "note"]]
            /\ members' = MembersAfterOp(r) /\ UNCHANGED <<row, saved>>
        BY <2>b DEF ExecuteOp, r
      <3>2. row.attempts = 1 => CleanRun([AfterOp(r) EXCEPT !.pc = "note"], members', saved')
        BY <2>0, <3>1, CleanOp DEF Working, Advancing
      <3>3. QED
        BY <3>1, <3>2, RunnerMoves DEF r
    <2>c. CASE NoteStep(w)
      <3> DEFINE pc == IF r.step = Len(Ops) THEN "save" ELSE "charge"
                 s == [r EXCEPT !.step = r.step + 1, !.pc = pc]
      <3>1. /\ r.pc = "note" /\ run' = [run EXCEPT ![w] = s]
            /\ UNCHANGED <<row, members, saved>>
        BY <2>c DEF NoteStep, r
      <3>2. r.step \in 1 .. Len(Ops)
        BY <1>0, <2>0, <3>1 DEF Working
      <3>3. pc \in {"save", "charge"} /\ (pc = "save" => r.step + 1 = Len(Ops) + 1)
        OBVIOUS
      <3> HIDE DEF pc
      <3>4. /\ s.pc = pc /\ s.step = r.step + 1 /\ s.acc = r.acc /\ s.got = r.got
            /\ s.joined = r.joined /\ s.already = r.already
        BY <2>0 DEF Run
      <3> HIDE DEF s
      <3>5. DoneOps(s) = DoneOps(r)
        <4>1. s.step - 1 = r.step
          BY <3>2, <3>4
        <4>2. QED
          BY <3>1, <3>3, <3>4, <4>1 DEF DoneOps
      <3>6. CleanRun(r, members, saved) => CleanRun(s, members, saved)
        BY <3>3, <3>4, <3>5 DEF CleanRun
      <3>7. QED
        BY <2>0, <3>1, <3>6, RunnerMoves DEF r, Advancing
    <2>d. CASE SaveSignals(w)
      <3> DEFINE s == [r EXCEPT !.pc = "complete"]
      <3>1. /\ r.pc = "save" /\ run' = [run EXCEPT ![w] = s]
            /\ saved' = r.got /\ UNCHANGED <<row, members>>
        BY <2>d DEF SaveSignals, r
      <3>2. /\ s.pc = "complete" /\ s.step = r.step /\ s.acc = r.acc /\ s.got = r.got
            /\ s.joined = r.joined /\ s.already = r.already
        BY <2>0 DEF Run
      <3> HIDE DEF s
      <3>3. DoneOps(s) = DoneOps(r)
        BY <3>1, <3>2 DEF DoneOps
      <3>4. CleanRun(r, members, saved) => CleanRun(s, members', saved')
        BY <3>1, <3>2, <3>3 DEF CleanRun
      <3>5. QED
        BY <2>0, <3>1, <3>4, RunnerMoves DEF r, Advancing
    <2>e. CASE CompleteTask(w)
      <3>1. /\ r.pc = "complete" /\ run' = [run EXCEPT ![w] = NoRun] /\ UNCHANGED <<members, saved>>
            /\ row' = (IF HeldBy(row, w) THEN Completed(row) ELSE row)
        BY <2>e DEF CompleteTask, Finish, r
      <3>2. row'.attempts = row.attempts
        BY <1>0, <3>1, AttemptsKept
      <3>3. row.attempts = 1 => members = Listeners /\ saved = Data
        BY <2>0, <3>1, CleanEnd DEF Advancing, CleanRun
      <3>4. NoRun.pc = "idle" /\ "idle" \notin Advancing
        BY DEF NoRun, Advancing
      <3>5. QED
        BY <3>1, <3>2, <3>3, <3>4, RunnerMoves DEF r
    <2>f. CASE FailTask(w)
      <3>1. [row EXCEPT !.acc = None] \in TaskRow /\ [row EXCEPT !.acc = None].attempts = row.attempts
        BY <1>0 DEF TaskRow
      <3>2. /\ r.pc = "fail" /\ run' = [run EXCEPT ![w] = NoRun] /\ UNCHANGED <<members, saved>>
            /\ row' \in {row, Rescheduled(row), Rescheduled([row EXCEPT !.acc = None]), FailedRow(row)}
        BY <2>f DEF FailTask, Finish, r
      <3>3. row'.attempts = row.attempts /\ (row'.status = "done" => row.status = "done")
        BY <1>0, <3>1, <3>2, AttemptsKept
      <3>4. NoRun.pc = "idle" /\ "idle" \notin Advancing
        BY DEF NoRun, Advancing
      <3>5. QED
        BY <3>2, <3>3, <3>4, RunnerMoves DEF r
    <2>g. CASE OpFails(w) \/ StatementFails(w)
      <3>1. /\ r.pc # "idle" /\ run' = [run EXCEPT ![w] = [r EXCEPT !.pc = "fail"]] /\ row' = row
        BY <2>g DEF OpFails, StatementFails, r
      <3>2. [r EXCEPT !.pc = "fail"].pc = "fail" /\ "fail" \notin Advancing
        BY <2>0 DEF Run, Advancing
      <3>3. QED
        BY <3>1, <3>2, RunnerMoves DEF r
    <2>h. CASE Crash(w)
      <3>1. r.pc # "idle" /\ run' = [run EXCEPT ![w] = NoRun] /\ row' = row
        BY <2>h DEF Crash, r
      <3>2. NoRun.pc = "idle" /\ "idle" \notin Advancing
        BY DEF NoRun, Advancing
      <3>3. QED
        BY <3>1, <3>2, RunnerMoves DEF r
    <2>i. QED
      BY <1>2, <2>a, <2>b, <2>c, <2>d, <2>e, <2>f, <2>g, <2>h
  <1>3. CASE Watchdog
    BY <1>0, <1>3, AttemptsKept, RowMoves DEF Watchdog
  <1>4. CASE TimePasses
    <2>1. row'.attempts = row.attempts /\ row'.status = row.status
      BY <1>0, <1>4 DEF TimePasses, TaskRow
    <2>2. QED
      BY <1>4, <2>1, RowMoves DEF TimePasses
  <1>5. CASE UNCHANGED vars
    BY <1>5, RowMoves DEF vars
  <1>6. QED
    BY <1>1, <1>2, <1>3, <1>4, <1>5 DEF Next

\* For every whole pipeline, a task done at its first attempt leaves the channel
\* to those who listened before, and its signals in the database.
THEOREM FirstAttemptIsClean ==
    ASSUME WholePipeline PROVE Spec => []CleanFirstAttempt
  <1>1. Init => FirstInv
    BY DEF Init, Inserted, FirstInv, AllIdle, NoRun
  <1>2. Spec => []FirstInv
    BY <1>1, FirstStep, PipelineInvariant, PTL DEF Spec
  <1>3. FirstInv => CleanFirstAttempt
    BY DEF FirstInv, CleanFirstAttempt
  <1>4. QED
    BY <1>2, <1>3, PTL
=============================================================================
