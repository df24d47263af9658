------------------------------- MODULE MCQueue -------------------------------
(***************************************************************************)
(* Small instances of Queue.  t1 is an auto-pick task (collect_extra_data, *)
(* say), t2 one with a fixed account (parser_add_channel), t3 a            *)
(* move_channel from a1 to a2.                                             *)
(***************************************************************************)
EXTENDS Queue, TLC

CONSTANTS t1, t2, t3, a1, a2, w1, w2

PinT2 == [t \in Tasks |-> IF t = t2 THEN a1 ELSE None]
MoveSource == [t \in Tasks |-> IF t = t3 THEN a1 ELSE None]
MoveTarget == [t \in Tasks |-> IF t = t3 THEN a2 ELSE None]
Flat == [t \in Tasks |-> 0]

WorkerSymmetry == Permutations(Workers)
=============================================================================
