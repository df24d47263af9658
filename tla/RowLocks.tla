------------------------------- MODULE RowLocks -------------------------------
(***************************************************************************)
(* The row locks of accounts: who waits for whom in PostgreSQL, what a      *)
(* client that dies inside a transaction leaves behind, and the reaper at   *)
(* the end of a tick of queue_monitor that is to clean it up.  There is no  *)
(* lock_timeout and no command timeout: a statement waits for as long as    *)
(* the lock is held.                                                       *)
(*                                                                         *)
(* pc = "off" is a deployment without a monitor.                            *)
(*                                                                         *)
(* The other modules take a statement as one step; here it is the rows it   *)
(* locks one after another, and what it writes is left out.                *)
(***************************************************************************)
EXTENDS Integers, SequencesExt

CONSTANTS Rows,      \* ids of accounts
          NameOf,    \* [Rows -> Int]: the place of each by session_name
          Sessions,  \* connections of workers, watchdog, API and sync-accounts
          Monitor,   \* the connection of queue_monitor
          MaxLosses  \* bound of the model: clients that die, ticks that raise

ASSUME RowLocksAssumption ==
    Rows \subseteq Nat /\ IsFiniteSet(Rows) /\ NameOf \in [Rows -> Int]

VARIABLES conn,   \* [Sessions \cup {Monitor} -> the session on the server]
          tick,   \* run_combined_tick and the --mode of the monitor
          losses

locksVars == <<conn, tick, losses>>

\* kind: the operation; stmts: the rows each of its statements is still to lock;
\* runs: a statement runs, else the transaction is idle; old: xact_start lies past
\* max_age_seconds; client: there is still one.
NoOperation == [kind |-> "none", stmts |-> <<>>, runs |-> FALSE, held |-> {},
                old |-> FALSE, client |-> TRUE]

NoTick == [pc |-> "sleep", mode |-> "alerts", doomed |-> {}]

AllSessions == Sessions \cup {Monitor}

Opened(kind, stmts) == [NoOperation EXCEPT !.kind = kind, !.stmts = stmts, !.runs = TRUE]

\* db.acquire: one statement, which commits by itself.
Autocommits(s) == conn[s].kind \in {"update", "sweep"}

LocksInit ==
    /\ conn = [s \in AllSessions |-> NoOperation]
    /\ \E pc \in {"off", "sleep"}, mode \in {"alerts", "detector", "all"} :
          tick = [NoTick EXCEPT !.pc = pc, !.mode = mode]
    /\ losses = 0

-----------------------------------------------------------------------------
\* _PAIR_LOCK_SQL, ORDER BY id FOR UPDATE.
PairLock(source, target) == IF source < target THEN <<source, target>>
                                               ELSE <<target, source>>

Orders(R) == {q \in [1 .. Cardinality(R) -> R] : ToSet(q) = R}

\* A sweep or re-sync of one row locks like "update" and "pick".
Several == {R \in SUBSET Rows : Cardinality(R) > 1}
OrdersOfSeveral == UNION {Orders(R) : R \in Several}
ByName(q) == \A i, j \in DOMAIN q : i < j => NameOf[q[i]] < NameOf[q[j]]

\* The operations that write accounts.  sync_accounts_to_pg upserts row by row in the
\* order of session_name; a sweep (release_orphan_account_locks,
\* clear_expired_cooldowns, mark_stuck_timed_out in a transaction) updates its rows
\* as the scan finds them.
Operations ==
    {Opened("pair", <<PairLock(p[1], p[2])>>) : p \in {o \in Rows \X Rows : o[1] # o[2]}}
    \cup {Opened("update", <<<<r>>>>) : r \in Rows}
    \cup {Opened("sync", [i \in DOMAIN q |-> <<q[i]>>]) : q \in {o \in OrdersOfSeveral : ByName(o)}}
    \cup {Opened("sweep", <<q>>) : q \in OrdersOfSeveral}
    \cup {Opened("stuck", <<q>>) : q \in OrdersOfSeveral}

NoneOpen(s) == conn[s].kind = "none"
Locked(r) == \E s \in AllSessions : r \in conn[s].held

Turns(s, c) == conn' = [conn EXCEPT ![s] = c]

Begin(s) ==
    /\ NoneOpen(s) /\ conn[s].client
    /\ \E o \in Operations : Turns(s, o)
    /\ UNCHANGED <<tick, losses>>

\* FOR UPDATE SKIP LOCKED of pick_and_reserve and pick_best_and_reserve: a row
\* nobody has locked, without a wait.
PickAndReserve(s) ==
    /\ NoneOpen(s) /\ conn[s].client
    /\ \E r \in Rows : ~Locked(r) /\ Turns(s, [Opened("pick", <<>>) EXCEPT !.held = {r},
                                                                           !.runs = FALSE])
    /\ UNCHANGED <<tick, losses>>

\* The row the running statement of s is to lock next.
Wants(s) == IF conn[s].runs /\ Head(conn[s].stmts) # <<>> THEN {Head(Head(conn[s].stmts))}
                                                           ELSE {}
Blocks(h, s) == h # s /\ conn[h].held \cap Wants(s) # {}
Waits(s) == \E h \in AllSessions : Blocks(h, s)

TakesLock(s) ==
    /\ Wants(s) # {} /\ ~Waits(s)
    /\ Turns(s, [conn[s] EXCEPT !.held = @ \cup Wants(s), !.stmts[1] = Tail(@)])
    /\ UNCHANGED <<tick, losses>>

\* A transaction is idle now, until its client sends the next statement.
StatementEnds(s) ==
    /\ conn[s].runs /\ Wants(s) = {}
    /\ Turns(s, IF Autocommits(s) THEN NoOperation
                  ELSE [conn[s] EXCEPT !.runs = FALSE, !.stmts = Tail(@)])
    /\ UNCHANGED <<tick, losses>>

InTransaction(s) == ~NoneOpen(s) /\ ~conn[s].runs

\* The next statement of the client, COMMIT after the last one, or ROLLBACK.
ClientGoesOn(s) ==
    /\ InTransaction(s) /\ conn[s].client
    /\ \/ conn[s].stmts # <<>> /\ Turns(s, [conn[s] EXCEPT !.runs = TRUE])
       \/ Turns(s, NoOperation)
    /\ UNCHANGED <<tick, losses>>

\* The process is killed, the TCP connection stays: the server goes on without it.
ClientDies(s) ==
    /\ ~NoneOpen(s) /\ conn[s].client /\ losses < MaxLosses
    /\ Turns(s, [conn[s] EXCEPT !.client = FALSE])
    /\ losses' = losses + 1
    /\ UNCHANGED tick

\* TCP keepalive, hours later.
ServerNotices(s) ==
    /\ InTransaction(s) /\ ~conn[s].client
    /\ Turns(s, NoOperation)
    /\ UNCHANGED <<tick, losses>>

\* max_age_seconds since the transaction began: one that is left, or one that waits.
Ages(s) ==
    /\ ~conn[s].old
    /\ (InTransaction(s) /\ ~conn[s].client) \/ (Waits(s) /\ ~Autocommits(s))
    /\ Turns(s, [conn[s] EXCEPT !.old = TRUE])
    /\ UNCHANGED <<tick, losses>>

\* Sets of sessions each of which waits for another one of them.
WaitCycles == {C \in (SUBSET AllSessions) \ {{}} : \A s \in C : \E h \in C : Blocks(h, s)}

\* deadlock_timeout: PostgreSQL rolls one of them back.
DeadlockDetected ==
    /\ \E C \in WaitCycles : \E s \in C : Turns(s, NoOperation)
    /\ UNCHANGED <<tick, losses>>

-----------------------------------------------------------------------------
\* The modes in which a tick ends with the reaper.  Bug: the alerts alone.
ReapsWithAlerts == {"alerts"}
ReapsIn == {"alerts", "detector", "all"}

\* The detector's last statement for an account is set_cooldown, the alerts only read.
TickBegins ==
    /\ tick.pc = "sleep"
    /\ \/ tick' = [tick EXCEPT !.pc = "reap"] /\ UNCHANGED conn
       \/ /\ tick.mode \in {"detector", "all"}
          /\ tick' = [tick EXCEPT !.pc = "cool"]
          /\ \E r \in Rows : Turns(Monitor, Opened("update", <<<<r>>>>))
    /\ UNCHANGED losses

Cooled ==
    /\ tick.pc = "cool" /\ NoneOpen(Monitor)
    /\ tick' = [tick EXCEPT !.pc = "reap"]
    /\ UNCHANGED <<conn, losses>>

\* _REAP_SQL, whichever program the transactions are of.
Reapable == {s \in AllSessions : InTransaction(s) /\ conn[s].old}

FindIdle ==
    /\ tick.pc = "reap"
    /\ tick' = IF tick.mode \in ReapsIn /\ Reapable # {}
               THEN [tick EXCEPT !.pc = "kill", !.doomed = Reapable]
               ELSE [tick EXCEPT !.pc = "sleep"]
    /\ UNCHANGED <<conn, losses>>

\* pg_terminate_backend, whatever the session does by now; its client, if there is
\* one, has an exception, and the pool another connection.
Terminate ==
    /\ tick.pc = "kill"
    /\ \E s \in tick.doomed :
          /\ Turns(s, NoOperation)
          /\ tick' = [tick EXCEPT !.doomed = @ \ {s},
                                  !.pc = IF tick.doomed = {s} THEN "sleep" ELSE "kill"]
    /\ UNCHANGED losses

\* A query of the tick raises: run_loop ends, the container is started anew.
TickRaises ==
    /\ tick.pc \notin {"off", "sleep"} /\ losses < MaxLosses
    /\ tick' = [tick EXCEPT !.pc = "sleep", !.doomed = {}]
    /\ Turns(Monitor, NoOperation)
    /\ losses' = losses + 1

LocksNext ==
    \/ \E s \in Sessions : Begin(s) \/ PickAndReserve(s) \/ ClientGoesOn(s) \/ ClientDies(s)
                           \/ ServerNotices(s) \/ Ages(s)
    \/ \E s \in AllSessions : TakesLock(s) \/ StatementEnds(s)
    \/ DeadlockDetected
    \/ TickBegins \/ Cooled \/ FindIdle \/ Terminate \/ TickRaises

\* Locks are granted in the order of the requests; clients and the monitor go on.
LocksFairness ==
    /\ \A s \in AllSessions : SF_locksVars(TakesLock(s)) /\ WF_locksVars(StatementEnds(s))
    /\ \A s \in Sessions : WF_locksVars(ClientGoesOn(s)) /\ WF_locksVars(Ages(s))
    /\ WF_locksVars(DeadlockDetected)
    /\ WF_locksVars(TickBegins \/ Cooled \/ FindIdle \/ Terminate)

-----------------------------------------------------------------------------
\* The monitor waits itself, in the end for a transaction whose client is gone.
Left(s) == InTransaction(s) /\ ~conn[s].client
MonitorCaught ==
    \E C \in SUBSET AllSessions :
       Monitor \in C /\ \A s \in C : Left(s) \/ \E h \in C : Blocks(h, s)

\* No two reservations, picks or marks ever wait for each other, in whatever order
\* their accounts are given: a cycle has a re-sync or a sweep in it (which PostgreSQL
\* then breaks).
ReservationsNeverCycle ==
    \A C \in WaitCycles : \E s \in C : conn[s].kind \in {"sync", "sweep", "stuck"}

\* Besides, no row is held for ever by a client that died in a transaction ("держат
\* блокировки часами", queue_monitor.py:109-112), in any mode of the monitor, unless
\* the cooldown it sets before it reaps waits behind that very row.
LocksComeFree ==
    /\ []ReservationsNeverCycle
    /\ \A s \in AllSessions : Waits(s) ~> (~Waits(s) \/ MonitorCaught)
=============================================================================
