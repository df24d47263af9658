----------------------------- MODULE MCPipeline -----------------------------
(***************************************************************************)
(* Small instances of Pipeline: an account that follows the channel (a1) and *)
(* one that does not (a2).                                                  *)
(***************************************************************************)
EXTENDS Pipeline, TLC

CONSTANTS a1, a2, w1, w2

CollectOps == <<"get_entity", "join", "get_full", "iter_messages",
                "get_participants", "leave">>

WorkerSymmetry == Permutations(Workers)
=============================================================================
