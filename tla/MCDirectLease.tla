--------------------------- MODULE MCDirectLease ---------------------------
(***************************************************************************)
(* A small instance of DirectLease: the direct call d1 beside the auto-pick *)
(* task t1, with one worker and one account to quarrel over.  Beside it, as *)
(* a matter of its own, the row locks of two accounts whose order by        *)
(* session_name is not the order of their ids: `focus` picks the one that   *)
(* moves, the other stays in one of its initial states, where none of its   *)
(* fair actions is enabled.                                                *)
(***************************************************************************)
EXTENDS DirectLease, RowLocks, TLC

CONSTANTS t1, d1, a1, w1, direct, s1, s2, monitor

VARIABLE focus

Free == [t \in Tasks |-> None]
Flat == [t \in Tasks |-> 0]
Backwards == [r \in Rows |-> -r]

LeaseAndLocksInit ==
    /\ LeaseInit /\ LocksInit
    /\ focus \in {"lease", "locks"}
    /\ IF focus = "lease" THEN tick = [NoTick EXCEPT !.pc = "off"] 
                          ELSE tick.pc = "sleep" /\ tick.mode = "all"

LeaseAndLocksNext ==
    /\ \/ focus = "lease" /\ LeaseNext /\ UNCHANGED locksVars
       \/ focus = "locks" /\ LocksNext /\ UNCHANGED leaseVars
    /\ UNCHANGED focus

LeaseAndLocksSpec ==
    /\ LeaseAndLocksInit /\ [][LeaseAndLocksNext]_<<focus, leaseVars, locksVars>>
    /\ LeaseFairness
    /\ LocksFairness
=============================================================================
