----------------------------- MODULE MCProducers -----------------------------
(***************************************************************************)
(* A small instance of Producers: k1 and k2 are parser_add_channel keys of   *)
(* the channel c1, under two parsers or in two spellings of its name.        *)
(***************************************************************************)
EXTENDS Producers, TLC

CONSTANTS k1, k2, c1, r1, r2

OneChannel == [k \in Keys |-> c1]
OneKeyCalls == {{k} : k \in Keys}
TwoTasks == [k \in Keys |-> 2]

RequestSymmetry == Permutations(Requests)
=============================================================================
