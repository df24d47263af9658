---------------------------- MODULE TaskLifecycle ----------------------------
(***************************************************************************)
(* What the task queue promises its producers, without accounts, leases,   *)
(* snapshots or statements: a task is handed to one worker at a time, is   *)
(* tried at most MaxAttempts times, goes back to the queue only while it   *)
(* has a try left, is done only by a worker that tried it, and is over     *)
(* once.  Queue is shown to implement it.                                  *)
(***************************************************************************)
EXTENDS Naturals

CONSTANTS Tasks, Workers, None, MaxAttempts

VARIABLES phase,  \* [Tasks -> Phases]
          owner,  \* [Tasks -> Workers \cup {None}]
          tries   \* [Tasks -> Nat]

lvars == <<phase, owner, tries>>

Phases == {"absent", "waiting", "running", "done", "dropped"}

LInit == /\ phase = [t \in Tasks |-> "absent"]
         /\ owner = [t \in Tasks |-> None]
         /\ tries = [t \in Tasks |-> 0]

Submit(t) == /\ phase[t] = "absent"
             /\ phase' = [phase EXCEPT ![t] = "waiting"]
             /\ UNCHANGED <<owner, tries>>

Take(t, w) == /\ phase[t] = "waiting"
              /\ tries[t] < MaxAttempts
              /\ phase' = [phase EXCEPT ![t] = "running"]
              /\ owner' = [owner EXCEPT ![t] = w]
              /\ UNCHANGED tries

Try(t) == /\ phase[t] = "running"
          /\ tries[t] < MaxAttempts
          /\ tries' = [tries EXCEPT ![t] = @ + 1]
          /\ UNCHANGED <<phase, owner>>

Finish(t) == /\ phase[t] = "running"
             /\ tries[t] > 0
             /\ phase' = [phase EXCEPT ![t] = "done"]
             /\ owner' = [owner EXCEPT ![t] = None]
             /\ UNCHANGED tries

\* Several tasks at a time: a tick of the watchdog takes back all that timed out.
GiveUp(lost, back) ==
    /\ lost # {}
    /\ \A t \in lost : phase[t] = "running"
    /\ back \subseteq {t \in lost : tries[t] < MaxAttempts}
    /\ phase' = [t \in Tasks |-> IF t \in back THEN "waiting"
                                 ELSE IF t \in lost THEN "dropped" ELSE phase[t]]
    /\ owner' = [t \in Tasks |-> IF t \in lost THEN None ELSE owner[t]]
    /\ UNCHANGED tries

LNext == \/ \E t \in Tasks : Submit(t) \/ Try(t) \/ Finish(t)
         \/ \E t \in Tasks, w \in Workers : Take(t, w)
         \/ \E lost \in SUBSET Tasks : \E back \in SUBSET lost : GiveUp(lost, back)

LSpec == LInit /\ [][LNext]_lvars
=============================================================================
