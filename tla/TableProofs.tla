----------------------------- MODULE TableProofs -----------------------------
(***************************************************************************)
(* The types of the two tables: every statement turns a row into a row.    *)
(***************************************************************************)
EXTENDS TasksTable, FiniteSetTheorems, TLAPS

\* Every statement on task_queue turns a row into a row.
LEMMA TaskRows ==
    ASSUME NEW r \in TaskRow
    PROVE  /\ Unlocked(r) \in TaskRow
           /\ \A w \in Workers : Claimed(r, w) \in TaskRow
           /\ BegunAttempt(r) \in TaskRow
           /\ RetryRow(r) \in TaskRow
           /\ FailedRow(r) \in TaskRow
           /\ Completed(r) \in TaskRow
           /\ Postponed(r) \in TaskRow
           /\ Rescheduled(r) \in TaskRow
           /\ Marked(r) \in TaskRow
           /\ [r EXCEPT !.due = TRUE] \in TaskRow
           /\ [r EXCEPT !.late = TRUE] \in TaskRow
           /\ [r EXCEPT !.lease = "over"] \in TaskRow
           /\ \A a \in Accounts \cup {None} : [r EXCEPT !.acc = a] \in TaskRow
  <1> USE DEF TaskRow
  <1>0. {"queued", "scheduled", "retry", "in_progress", "done", "failed", "stuck"}
           \subseteq Statuses
    BY DEF Statuses, Active, Claimable, Terminal
  <1>1. Unlocked(r) \in TaskRow
    BY DEF Unlocked
  <1>2. \A w \in Workers : Claimed(r, w) \in TaskRow
    BY <1>0 DEF Claimed
  <1>3. BegunAttempt(r) \in TaskRow
    BY DEF BegunAttempt
  <1>4. RetryRow(r) \in TaskRow
    BY <1>0 DEF RetryRow, Unlocked
  <1>5. FailedRow(r) \in TaskRow
    BY <1>0 DEF FailedRow, Unlocked
  <1>6. Completed(r) \in TaskRow
    BY <1>0 DEF Completed, Unlocked
  <1>7. Postponed(r) \in TaskRow
    <2>1. CASE r.postpones >= MaxPostpone
      BY <2>1, <1>5 DEF Postponed
    <2>2. CASE ~(r.postpones >= MaxPostpone)
      <3>1. ScheduledRow(r) \in TaskRow
        BY <1>0, <1>1 DEF ScheduledRow
      <3>2. QED
        BY <2>2, <3>1 DEF Postponed
    <2>3. QED
      BY <2>1, <2>2
  <1>8. Rescheduled(r) \in TaskRow
    BY <1>4, <1>5 DEF Rescheduled
  <1>9. Marked(r) \in TaskRow
    <2>1. CASE ~AutoRetry
      BY <1>0, <1>1, <2>1 DEF Marked
    <2>2. CASE AutoRetry
      <3>1. CASE CanRetry(r)
        BY <2>2, <3>1, <1>4 DEF Marked
      <3>2. CASE ~CanRetry(r)
        BY <2>2, <3>2, <1>5 DEF Marked
      <3>3. QED
        BY <3>1, <3>2
    <2>3. QED
      BY <2>1, <2>2
  <1>10. /\ [r EXCEPT !.due = TRUE] \in TaskRow
         /\ [r EXCEPT !.late = TRUE] \in TaskRow
         /\ [r EXCEPT !.lease = "over"] \in TaskRow
         /\ \A a \in Accounts \cup {None} : [r EXCEPT !.acc = a] \in TaskRow
    OBVIOUS
  <1>11. QED
    BY <1>1, <1>2, <1>3, <1>4, <1>5, <1>6, <1>7, <1>8, <1>9, <1>10

\* And every statement on accounts.
LEMMA AccountRows ==
    ASSUME NEW r \in AccountRow, NEW t \in Tasks \cup {None}
    PROVE  /\ Picked(r, t) \in AccountRow
           /\ Reserved(r, t) \in AccountRow
           /\ Released(r, t) \in AccountRow
           /\ CooledDown(r) \in AccountRow
           /\ Banned(r) \in AccountRow
           /\ Errored(r) \in AccountRow
           /\ Reactivated(r) \in AccountRow
           /\ CooldownCleared(r) \in AccountRow
           /\ [r EXCEPT !.task = None] \in AccountRow
           /\ [r EXCEPT !.cooling = FALSE] \in AccountRow
  <1> USE DEF AccountRow, DeadStatuses
  <1>1. Picked(r, t) \in AccountRow
    BY DEF Picked
  <1>2. Reserved(r, t) \in AccountRow
    BY DEF Reserved
  <1>3. Released(r, t) \in AccountRow
    BY DEF Released
  <1>4. CooledDown(r) \in AccountRow
    BY DEF CooledDown
  <1>5. Banned(r) \in AccountRow
    BY DEF Banned
  <1>6. Errored(r) \in AccountRow
    BY DEF Errored
  <1>7. Reactivated(r) \in AccountRow
    BY DEF Reactivated
  <1>8. CooldownCleared(r) \in AccountRow
    BY DEF CooldownCleared
  <1>9. QED
    BY <1>1, <1>2, <1>3, <1>4, <1>5, <1>6, <1>7, <1>8

-----------------------------------------------------------------------------
\* A finite set has an element at which f is least.
LEMMA LeastElement ==
    ASSUME NEW S, IsFiniteSet(S), S # {}, NEW f, \A a \in S : f[a] \in Int
    PROVE  \E a \in S : \A b \in S : f[a] <= f[b]
  <1> DEFINE Below(a) == {b \in S : f[b] <= f[a]}
             All == {Below(a) : a \in S}
  <1>1. IsWellFoundedOn(StrictSubsetOrdering(S), FiniteSubsetsOf(S))
    BY FS_StrictSubsetOrderingWellFounded
  <1>2. All \subseteq FiniteSubsetsOf(S) /\ All # {}
    <2>1. ASSUME NEW a \in S PROVE Below(a) \in FiniteSubsetsOf(S)
      <3>1. Below(a) \subseteq S
        OBVIOUS
      <3>2. IsFiniteSet(Below(a))
        BY <3>1, FS_Subset
      <3>3. QED
        BY <3>1, <3>2 DEF FiniteSubsetsOf
    <2>2. QED
      BY <2>1
  <1>3. PICK T \in All : \A U \in All : ~(<<U, T>> \in StrictSubsetOrdering(S))
    <2> HIDE DEF All
    <2> QED
      BY <1>1, <1>2, WFMin
  <1>4. PICK a \in S : T = Below(a)
    BY <1>3
  <1>5. ASSUME NEW b \in S, ~(f[a] <= f[b]) PROVE FALSE
    <2>1. Below(b) \subseteq Below(a) /\ a \in Below(a) /\ a \notin Below(b)
      BY <1>5
    <2>2. Below(b) # Below(a) /\ Below(b) \in SUBSET S /\ Below(a) \in SUBSET S
      BY <2>1
    <2>3. <<Below(b), Below(a)>> \in StrictSubsetOrdering(S)
      BY <2>1, <2>2 DEF StrictSubsetOrdering
    <2>4. Below(b) \in All
      BY <1>5
    <2>5. QED
      BY <1>3, <1>4, <2>3, <2>4
  <1>6. QED
    BY <1>5
=============================================================================
