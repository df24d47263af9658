------------------------------ MODULE Pipeline ------------------------------
(***************************************************************************)
(* A task of several ops, collect_extra_data or update_channel: run_pipeline *)
(* (src/app_balance/queue/per_op_pipeline.py) charges an op, executes it and *)
(* notes it in payload.last_completed_step, and a retry resumes after that  *)
(* step; the ops are those of collect_pipeline.py.  What an attempt has     *)
(* collected (CollectContext) lives in memory only.                         *)
(*                                                                         *)
(* The task's row moves as TasksTable says; the claim, the assignment and   *)
(* the counted attempt of Dispatch are one step here.                       *)
(***************************************************************************)
EXTENDS TasksTable, Sequences

CONSTANTS Ops,        \* ordered_pipeline(task_type): the enabled op codes in order
          Listeners   \* the accounts that follow the channel before the task

ASSUME PipelineAssumption ==
    /\ Ops \in Seq({"get_entity", "join", "get_full", "iter_messages",
                    "get_participants", "leave"})
    /\ Listeners \subseteq Accounts

Data == {"get_full", "iter_messages", "get_participants"}

VARIABLES row,      \* the task's TaskRow
          last,     \* payload.last_completed_step, as an index into Ops; 0 if absent
          run,      \* [Workers -> Run]: run_pipeline and the CollectContext
          members,  \* the accounts that are in the channel, at Telegram
          charged,  \* [1 .. Len(Ops) -> Nat]: rows of account_resource_usage
          saved     \* what source_channels.metadata.extra_data holds; None before

vars == <<row, last, run, members, charged, saved>>

Run == [pc      : {"idle", "charge", "op", "note", "save", "complete", "fail"},
        step    : 0 .. Len(Ops) + 1,
        acc     : Accounts \cup {None},
        joined  : BOOLEAN,
        already : BOOLEAN,
        got     : SUBSET Data]

NoRun == [pc |-> "idle", step |-> 0, acc |-> None, joined |-> FALSE,
          already |-> FALSE, got |-> {}]

-----------------------------------------------------------------------------
\* remaining_steps: the first op of a run.
\* Bugs: the completed step is not skipped; the one after it is skipped too.
ResumeAtLast(l) == IF l = 0 THEN 1 ELSE l
ResumePastNext(l) == l + 2
ResumeAt(l) == l + 1

\* _op_join on the context: UserAlreadyParticipant leaves `joined` alone.
\* Bug: it does not.
JoinedAnyway(s, isMember) == [s EXCEPT !.joined = TRUE]
Joined(s, isMember) == IF isMember THEN [s EXCEPT !.already = TRUE]
                                   ELSE [s EXCEPT !.joined = TRUE]

\* _op_leave: only an account this very run let in leaves.
\* Bug: the membership is taken for an earlier one.
LeavesNoOne(s) == s.joined /\ s.already
MustLeave(s) == s.joined /\ ~s.already

\* The context and the channel after the op of s succeeded.
AfterOp(s) == CASE Ops[s.step] = "join" -> Joined(s, s.acc \in members)
                [] Ops[s.step] \in Data -> [s EXCEPT !.got = @ \cup {Ops[s.step]}]
                [] OTHER                -> s

MembersAfterOp(s) ==
    CASE Ops[s.step] = "join"                  -> members \cup {s.acc}
      [] Ops[s.step] = "leave" /\ MustLeave(s) -> members \ {s.acc}
      [] OTHER                                 -> members

-----------------------------------------------------------------------------
\* The task starts on the account it has, or on any.
StartAttempt(w) ==
    /\ run[w].pc = "idle"
    /\ ClaimReady(row)
    /\ \E a \in IF row.acc = None THEN Accounts ELSE {row.acc} :
          /\ row' = [BegunAttempt(Claimed(row, w)) EXCEPT !.acc = a]
          /\ run' = [run EXCEPT ![w] =
                       [NoRun EXCEPT !.pc = IF ResumeAt(last) > Len(Ops) THEN "save"
                                                                         ELSE "charge",
                                     !.step = ResumeAt(last), !.acc = a]]
    /\ UNCHANGED <<last, members, charged, saved>>

\* record_op, before the op.
Charge(w) ==
    /\ run[w].pc = "charge"
    /\ charged' = [charged EXCEPT ![run[w].step] = @ + 1]
    /\ run' = [run EXCEPT ![w].pc = "op"]
    /\ UNCHANGED <<row, last, members, saved>>

ExecuteOp(w) ==
    /\ run[w].pc = "op"
    /\ members' = MembersAfterOp(run[w])
    /\ run' = [run EXCEPT ![w] = [AfterOp(run[w]) EXCEPT !.pc = "note"]]
    /\ UNCHANGED <<row, last, charged, saved>>

\* The RPC fails, before or after Telegram carried it out.
OpFails(w) ==
    /\ run[w].pc = "op"
    /\ members' \in {members, MembersAfterOp(run[w])}
    /\ run' = [run EXCEPT ![w].pc = "fail"]
    /\ UNCHANGED <<row, last, charged, saved>>

\* set_last_completed_step; run_pipeline does not ask whether the fence held.
NoteStep(w) ==
    /\ run[w].pc = "note"
    /\ last' = IF HeldBy(row, w) THEN run[w].step ELSE last
    /\ run' = [run EXCEPT ![w].step = @ + 1,
                          ![w].pc = IF run[w].step = Len(Ops) THEN "save" ELSE "charge"]
    /\ UNCHANGED <<row, members, charged, saved>>

\* save_extra_data or save_channel_update: metadata || {extra_data: ...} puts the
\* new signals in the place of the old.
SaveSignals(w) ==
    /\ run[w].pc = "save"
    /\ saved' = run[w].got
    /\ run' = [run EXCEPT ![w].pc = "complete"]
    /\ UNCHANGED <<row, last, members, charged>>

Finish(w, settled) ==
    /\ row' = IF HeldBy(row, w) THEN settled ELSE row
    /\ run' = [run EXCEPT ![w] = NoRun]
    /\ UNCHANGED <<last, members, charged, saved>>

CompleteTask(w) == run[w].pc = "complete" /\ Finish(w, Completed(row))

\* A retryable error, with the account kept or given back; or a permanent one.
FailTask(w) ==
    /\ run[w].pc = "fail"
    /\ \/ Finish(w, Rescheduled(row))
       \/ Finish(w, Rescheduled([row EXCEPT !.acc = None]))
       \/ Finish(w, FailedRow(row))

\* A statement on the way raises, which is a retryable error too.
StatementFails(w) == /\ run[w].pc \in {"charge", "note", "save", "complete"}
                     /\ run' = [run EXCEPT ![w].pc = "fail"]
                     /\ UNCHANGED <<row, last, members, charged, saved>>

Crash(w) == /\ run[w].pc # "idle"
            /\ run' = [run EXCEPT ![w] = NoRun]
            /\ UNCHANGED <<row, last, members, charged, saved>>

-----------------------------------------------------------------------------
Watchdog == /\ TimedOut(row)
            /\ row' = Marked(row)
            /\ UNCHANGED <<last, run, members, charged, saved>>

TimePasses ==
    /\ \/ row.status \in Claimable /\ ~row.due /\ row' = [row EXCEPT !.due = TRUE]
       \/ row.lease = "live" /\ row' = [row EXCEPT !.lease = "over"]
       \/ row.status = "in_progress" /\ ~row.late /\ row' = [row EXCEPT !.late = TRUE]
    /\ UNCHANGED <<last, run, members, charged, saved>>

Init == /\ \E a \in Accounts \cup {None} : row = Inserted(a, TRUE)
        /\ last = 0
        /\ run = [w \in Workers |-> NoRun]
        /\ members = Listeners
        /\ charged = [s \in 1 .. Len(Ops) |-> 0]
        /\ saved = None

Next == \/ \E w \in Workers :
              \/ StartAttempt(w)
              \/ Charge(w)
              \/ ExecuteOp(w)
              \/ OpFails(w)
              \/ NoteStep(w)
              \/ SaveSignals(w)
              \/ CompleteTask(w)
              \/ FailTask(w)
              \/ StatementFails(w)
              \/ Crash(w)
        \/ Watchdog
        \/ TimePasses

Spec == Init /\ [][Next]_vars

-----------------------------------------------------------------------------
TypeOK == /\ row \in TaskRow
          /\ last \in 0 .. Len(Ops)
          /\ run \in [Workers -> Run]
          /\ members \subseteq Accounts
          /\ charged \in [1 .. Len(Ops) -> Nat]
          /\ saved \in {None} \cup SUBSET Data

\* The pipeline never takes an account out of a channel it followed before: "иначе
\* сорвём listener assigned-канала" (collect_pipeline.py:58-59).
ListenersStay == Listeners \subseteq members

\* last_completed_step never goes back, whoever still runs an earlier attempt.
ProgressIsKept == [][last' >= last]_vars

\* The worker that holds the task charges no op that is noted as completed: "ресурс
\* за них повторно не списывается" (per_op_pipeline.py:121-122).  Only a worker that
\* lost the task may.
NotChargedAgain ==
    [][\A w \in Workers : row.lockedBy = w /\ run[w].pc = "charge" /\ run'[w].pc = "op" =>
          \A s \in 1 .. last : charged'[s] = charged[s]]_vars

\* A task done at its first attempt leaves the channel as it found it, and the
\* signals of every op in the database.
CleanFirstAttempt ==
    row.status = "done" /\ row.attempts = 1 =>
       /\ members = Listeners
       /\ saved = Data

\* "Итоговые сигналы пишутся в source_channels.metadata" (adapter.py:525): a task
\* that is done has saved what its ops collected.
DoneHasSignals == row.status = "done" => saved = Data
=============================================================================
