------------------------------- MODULE MCClump -------------------------------
(* Clump for TLC: interchangeable sessions, channels and tasks. *)
EXTENDS Clump, TLC
CONSTANTS s1, s2, s3, r1, r2, t1, t2

\* Bound: two operations that run together concern one channel between them; an
\* operation that runs alone may have all channels to see to.
RefsOf(t) == (op[t].todo \cup {op[t].ref}) \cap Refs
OneChannelShared ==
    \A t, u \in Tasks : t # u /\ Idle \notin {op[t], op[u]} =>
                          Cardinality(RefsOf(t) \cup RefsOf(u)) <= 1

ClumpSymmetry == Permutations(Sessions) \cup Permutations(Refs) \cup Permutations(Tasks)
=============================================================================
