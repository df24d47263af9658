-------------------------------- MODULE Clump --------------------------------
(***************************************************************************)
(* One SessionClump of the discovery API: which session listens to which    *)
(* channel (src/standalone_discovery/discovery_api/session_registry.py),    *)
(* the record of it in parser_jobs.json (parser_store.py) and its restore   *)
(* after a restart (clump_bootstrap.py).                                    *)
(*                                                                         *)
(* An operation runs in an asyncio task and gives way only where it awaits: *)
(* for _migrate_lock, for Telegram while a session resolves and joins a     *)
(* channel, for PostgreSQL before the clump is saved, for a supervisor to   *)
(* stop.  Between two awaits it is one step; a task at "loop" has more to   *)
(* do before its next await, and nobody else steps (Undisturbed).           *)
(*                                                                         *)
(* A channel stands for its ref and its chat id.  Which sessions accept     *)
(* channels (_pc_available: health, admin block, hourly quota) changes at   *)
(* any time, so any session with room may be the least loaded of the        *)
(* available ones, or none is available.                                    *)
(***************************************************************************)
EXTENDS Integers, FiniteSets

CONSTANTS
    Sessions,  \* account sessions
    Refs,      \* channels
    Tasks,     \* asyncio tasks: HTTP handlers, queue workers, supervisors, the monitor
    Limit,     \* max_channels_per_session
    NoSession  \* no entry in `assignments`

ASSUME ClumpAssumption == /\ NoSession \notin Sessions
                          /\ Sessions # {}
                          /\ Limit \in Nat

VARIABLES
    members,   \* session_name_list
    chans,     \* [Sessions -> SUBSET Refs]: Parser_client.channels
    assigned,  \* [Refs -> Sessions or NoSession]: assignments
    pending,   \* pending_channels
    lock,      \* the holder of _migrate_lock: a set of at most one task
    op,        \* [Tasks -> Op]
    saved,     \* the record in parser_jobs.json
    unsaved    \* history: channels listened to when an operation ended without its save

memory == <<members, chans, assigned, pending>>
vars == <<memory, lock, op, saved, unsaved>>

Looping == {"add", "migrate", "drop", "retry", "rebalance"}

\* todo: what a loop has left; kept: still_pending of a retry, the underloaded
\* sessions of a rebalance; stripped: ref was taken off its session before;
\* moved: a retry or a rebalance has something to save; gone: the sessions that
\* left the clump since, whose Parser_client objects the operation still holds.
Op == [kind : Looping \cup {"none", "add_on", "move", "save"},
       at : {"idle", "lock", "loop", "resolve", "write", "stop"},
       ref : Refs \cup {NoSession}, src : Sessions \cup {NoSession},
       dst : Sessions \cup {NoSession}, todo : SUBSET (Refs \cup Sessions),
       kept : SUBSET (Refs \cup Sessions), stripped : BOOLEAN, moved : BOOLEAN,
       gone : SUBSET Sessions]

Idle == [kind |-> "none", at |-> "idle", ref |-> NoSession, src |-> NoSession,
         dst |-> NoSession, todo |-> {}, kept |-> {}, stripped |-> FALSE,
         moved |-> FALSE, gone |-> {}]

\* Waiting for PostgreSQL, before _persist_safe or _persist_clump_state.
Writing == [Idle EXCEPT !.kind = "save", !.at = "write"]

TypeOK ==
    /\ members \subseteq Sessions
    /\ chans \in [Sessions -> SUBSET Refs]
    /\ assigned \in [Refs -> Sessions \cup {NoSession}]
    /\ pending \subseteq Refs /\ unsaved \subseteq Refs
    /\ lock \subseteq Tasks /\ Cardinality(lock) <= 1
    /\ op \in [Tasks -> Op]
    /\ saved \in [members : SUBSET Sessions, list : SUBSET Refs,
                  assigned : [Refs -> Sessions \cup {NoSession}]]

-----------------------------------------------------------------------------
Listeners(r) == {s \in members : r \in chans[s]}

\* _find_owner: the assigned session, else one that has the channel.
Owners(r) == IF assigned[r] \in members THEN {assigned[r]} ELSE Listeners(r)

Load(s) == Cardinality(chans[s])

\* _pick_target and _pick_target_excluding.
Targets(excluded) == {s \in members \ excluded : Load(s) < Limit}

\* Parser_client.add_channel or restore_channel on the object o has of s, and
\* the assignment: the channels of a session that left the clump are nobody's.
\* add_channel on the owner leaves the assignment as it is.
Place(o, s) ==
    /\ chans' = IF s \in o.gone THEN chans ELSE [chans EXCEPT ![s] = @ \cup {o.ref}]
    /\ assigned' = IF o.kind = "add" /\ o.src = s THEN assigned
                   ELSE [assigned EXCEPT ![o.ref] = s]

\* _strip_channel_local and remove_channel.
\* Bug: the channel leaves the session, not the assignments.
StaysAssigned(r) == UNCHANGED assigned
Unassigns(r) == assigned' = [assigned EXCEPT ![r] = NoSession]

\* _enqueue_pending.
\* Bug: the channel no session has room for is forgotten.
Forgets(r) == UNCHANGED pending
Defers(r) == pending' = pending \cup {r}

\* clump_to_record of the memory as this step leaves it: pending is not in it.
Save == /\ saved' = [members |-> members', assigned |-> assigned',
                     list |-> UNION {chans'[s] : s \in members'}]
        /\ unsaved' = {}
NoSave == unsaved' = {r \in Refs : r \notin saved.list /\ \E s \in members : r \in chans[s]}

\* The Parser_client objects an operation holds across an await.
Objects(o) == ({o.src, o.dst} \cup o.todo \cup o.kept) \cap Sessions

\* A session the operation has just found is the one of now.
Toward(o, r, s) == [o EXCEPT !.at = "resolve", !.ref = r, !.dst = s, !.gone = @ \ {s}]

Go(t, o) == op' = [op EXCEPT ![t] = o]

Undisturbed(t) == \A u \in Tasks \ {t} : op[u].at # "loop"

-----------------------------------------------------------------------------
\* add_channel_on_session, up to its await.
StartAddOn(t, s, r) ==
    /\ op[t] = Idle /\ s \in members
    /\ \/ Owners(r) = {}
       \/ s \in Owners(r) /\ r \notin chans[s]
    /\ Go(t, Toward([Idle EXCEPT !.kind = "add_on"], r, s))
    /\ UNCHANGED <<memory, lock, saved, unsaved>>

\* add_channels_batch: HTTP handlers and the action queue.
StartAdd(t, R) ==
    /\ op[t] = Idle
    /\ Go(t, [Idle EXCEPT !.kind = "add", !.at = "loop", !.todo = R])
    /\ UNCHANGED <<memory, lock, saved, unsaved>>

\* add_channel of one channel of the batch, up to its await.
AddNext(t, r) ==
    LET o == [op[t] EXCEPT !.todo = @ \ {r}] IN
    /\ op[t].kind = "add" /\ op[t].at = "loop" /\ r \in op[t].todo
    /\ \/ \E s \in Owners(r) :
            /\ Go(t, IF r \in chans[s] THEN o ELSE [Toward(o, r, s) EXCEPT !.src = s])
            /\ UNCHANGED pending
       \/ /\ Owners(r) = {}
          /\ \E s \in Targets({}) : Go(t, Toward(o, r, s))
          /\ UNCHANGED pending
       \/ /\ Owners(r) = {}
          /\ Defers(r)
          /\ Go(t, o)
    /\ UNCHANGED <<members, chans, assigned, lock, saved, unsaved>>

\* move_channel: the channel leaves its session before the target has it.
StartMove(t, r, from, to) ==
    /\ op[t] = Idle /\ {from, to} \subseteq members /\ from # to
    /\ \/ Owners(r) \in {{}, {from}}
       \/ Owners(r) = {to} /\ r \notin chans[to]
    /\ chans' = [chans EXCEPT ![from] = @ \ {r}]
    /\ assigned' = [assigned EXCEPT ![r] = IF @ = from THEN NoSession ELSE @]
    /\ Go(t, Toward([Idle EXCEPT !.kind = "move", !.stripped = r \in chans[from]], r, to))
    /\ UNCHANGED <<members, pending, lock, saved, unsaved>>

\* remove_channel, then the wait for PostgreSQL.
Remove(t, r) ==
    /\ op[t] = Idle
    /\ \E s \in Owners(r) :
         /\ r \in chans[s]
         /\ chans' = [chans EXCEPT ![s] = @ \ {r}]
    /\ Unassigns(r)
    /\ Go(t, Writing)
    /\ UNCHANGED <<members, pending, lock, saved, unsaved>>

\* _on_session_down and remove_session_force (kind "drop") wait for the lock.
StartMigrate(t, s, kind) ==
    /\ op[t] = Idle /\ s \in members
    /\ Go(t, [Idle EXCEPT !.kind = kind, !.src = s,
              !.at = IF kind = "drop" /\ chans[s] = {} THEN "stop" ELSE "lock"])
    /\ UNCHANGED <<memory, lock, saved, unsaved>>

Monitoring == \E t \in Tasks : op[t].kind \in {"retry", "rebalance"}

\* retry_pending_channels, on a tick of the HealthMonitor.
StartRetry(t) ==
    /\ op[t] = Idle /\ ~Monitoring /\ pending # {}
    /\ Go(t, [Idle EXCEPT !.kind = "retry", !.at = "lock"])
    /\ UNCHANGED <<memory, lock, saved, unsaved>>

\* rebalance_idle: the loads are read before the lock.  The watermarks are the
\* full session and the empty one.
Overloaded  == {s \in members : Load(s) >= Limit}
Underloaded == {s \in members : Load(s) = 0}
StartRebalance(t) ==
    /\ op[t] = Idle /\ ~Monitoring
    /\ Overloaded # {} /\ Underloaded # {}
    /\ Go(t, [Idle EXCEPT !.kind = "rebalance", !.at = "lock",
                          !.todo = Overloaded, !.kept = Underloaded])
    /\ UNCHANGED <<memory, lock, saved, unsaved>>

\* Bug: an operation does not wait for _migrate_lock.
EntersAnyway == TRUE
Enters == lock = {}

\* async with self._migrate_lock: the snapshot is taken inside.
Acquire(t) ==
    LET o == op[t] IN
    /\ o.at = "lock" /\ Enters
    /\ lock' = lock \cup {t}
    /\ Go(t, [o EXCEPT !.at = "loop",
                       !.todo = CASE o.kind = "retry" -> pending
                                  [] o.kind = "rebalance" -> o.todo
                                  [] OTHER -> IF o.src \in members THEN chans[o.src] ELSE {}])
    /\ UNCHANGED <<memory, saved, unsaved>>

\* One channel of migrate_channels, up to its await.
MigrateNext(t, r) ==
    LET o == [op[t] EXCEPT !.todo = @ \ {r}] IN
    /\ op[t].kind \in {"migrate", "drop"} /\ op[t].at = "loop" /\ r \in op[t].todo
    /\ chans' = [s \in Sessions |-> IF s \in {o.src} \ o.gone THEN chans[s] \ {r} ELSE chans[s]]
    /\ Unassigns(r)
    /\ \/ /\ \E s \in Targets({o.src}) : Go(t, [Toward(o, r, s) EXCEPT !.stripped = TRUE])
          /\ UNCHANGED pending
       \/ /\ Defers(r)
          /\ Go(t, o)
    /\ UNCHANGED <<members, lock, saved, unsaved>>

\* One channel of retry_pending_channels, up to its await.
RetryNext(t, r) ==
    LET o == [op[t] EXCEPT !.todo = @ \ {r}] IN
    /\ op[t].kind = "retry" /\ op[t].at = "loop" /\ r \in op[t].todo
    /\ \/ \E s \in Targets({}) : Go(t, Toward(o, r, s))
       \/ Go(t, [o EXCEPT !.kept = @ \cup {r}])
    /\ UNCHANGED <<memory, lock, saved, unsaved>>

\* One session of rebalance_idle, up to its await; the second disjunct skips it.
RebalanceNext(t, s) ==
    LET o == [op[t] EXCEPT !.todo = @ \ {s}] IN
    /\ op[t].kind = "rebalance" /\ op[t].at = "loop" /\ s \in op[t].todo
    /\ \/ \E r \in chans[s], to \in o.kept :
            /\ s \notin o.gone
            /\ \A u \in o.kept : Load(to) <= Load(u)
            /\ Load(to) < Limit
            /\ chans' = [chans EXCEPT ![s] = @ \ {r}]
            /\ Unassigns(r)
            /\ Go(t, [o EXCEPT !.at = "resolve", !.ref = r, !.src = s, !.dst = to,
                               !.stripped = TRUE])
       \/ Go(t, o) /\ UNCHANGED <<chans, assigned>>
    /\ UNCHANGED <<members, pending, lock, saved, unsaved>>

-----------------------------------------------------------------------------
\* After the await for a channel: the next of the loop.
Continue(o) ==
    LET n == [o EXCEPT !.at = "loop", !.ref = NoSession, !.dst = NoSession, !.stripped = FALSE,
                       !.src = IF o.kind \in {"migrate", "drop"} THEN @ ELSE NoSession]
    IN  [n EXCEPT !.gone = @ \cap Objects(n)]

\* After a join: the save, or the next of the loop.
\* Bug: the handler answers without saving the clump.
EndsUnsaved(o) ==
    IF o.kind \notin Looping THEN Idle
    ELSE [Continue(o) EXCEPT !.moved = o.kind \in {"retry", "rebalance"}]
GoesOn(o) ==
    IF o.kind \notin Looping THEN Writing
    ELSE [Continue(o) EXCEPT !.moved = o.kind \in {"retry", "rebalance"}]

\* Parser_client.add_channel has joined the channel.
Joined(t) ==
    LET o == op[t] IN
    /\ o.at = "resolve"
    /\ Place(o, o.dst)
    /\ Go(t, GoesOn(o))
    /\ UNCHANGED <<members, pending, lock, saved, unsaved>>

\* It returns an error.  A batch defers the channel on a FloodWait only, a
\* migration always; a rebalance gives it back; a move just ends.
Refused(t, flood) ==
    LET o == op[t]
        defers == o.kind \in {"migrate", "drop"} \/ (o.kind = "add" /\ flood)
    IN  /\ o.at = "resolve"
        /\ pending' = IF defers THEN pending \cup {o.ref} ELSE pending
        /\ IF o.kind = "rebalance" THEN Place(o, o.src) ELSE UNCHANGED <<chans, assigned>>
        /\ Go(t, IF o.kind \notin Looping THEN Idle
                 ELSE IF o.kind = "retry" THEN [Continue(o) EXCEPT !.kept = @ \cup {o.ref}]
                 ELSE Continue(o))
        /\ UNCHANGED <<members, lock, saved, unsaved>>

\* get_client raises (the session is not authorized): the exception ends the
\* operation without a save, only a rebalance goes on.
Raised(t) ==
    LET o == op[t] IN
    /\ o.at = "resolve"
    /\ IF o.kind = "rebalance"
       THEN Go(t, Continue(o)) /\ UNCHANGED <<lock, unsaved>>
       ELSE /\ Go(t, Idle)
            /\ lock' = lock \ {t}
            /\ NoSave
    /\ UNCHANGED <<memory, saved>>

\* The loop is over: the lock is given back and the clump saved.
LoopEnds(t) ==
    LET o == op[t] IN
    /\ o.at = "loop" /\ o.todo = {}
    /\ lock' = lock \ {t}
    /\ pending' = IF o.kind = "retry" THEN o.kept ELSE pending
    /\ UNCHANGED <<members, chans, assigned>>
    /\ CASE o.kind = "rebalance" /\ ~o.moved -> UNCHANGED saved /\ NoSave
         [] o.kind = "retry" /\ ~o.moved -> UNCHANGED <<saved, unsaved>>
         [] OTHER -> Save
    /\ Go(t, IF o.kind = "drop" /\ o.src \in members /\ chans[o.src] = {}
             THEN [Idle EXCEPT !.kind = "drop", !.at = "stop", !.src = o.src] ELSE Idle)

\* remove_session_force and remove_session, after pc.stop(): whatever the
\* session has by now is gone.
DropSession(t) ==
    LET s == op[t].src IN
    /\ op[t].at = "stop"
    /\ IF s \in members
       THEN /\ members' = members \ {s}
            /\ chans' = [chans EXCEPT ![s] = {}]
            /\ assigned' = [r \in Refs |-> IF assigned[r] = s THEN NoSession ELSE assigned[r]]
            /\ op' = [u \in Tasks |-> IF u = t THEN Writing
                                      ELSE [op[u] EXCEPT !.gone = @ \cup ({s} \cap Objects(op[u]))]]
       ELSE Go(t, Idle) /\ UNCHANGED <<members, chans, assigned>>
    /\ UNCHANGED <<pending, lock, saved, unsaved>>

\* add_session and the save of its handler.
AddSession(s) ==
    /\ s \notin members
    /\ members' = members \cup {s}
    /\ UNCHANGED <<chans, assigned, pending, lock, op>>
    /\ Save

\* PostgreSQL has answered: _persist_safe.
Persist(t) ==
    /\ op[t].at = "write"
    /\ UNCHANGED <<memory, lock>>
    /\ Save
    /\ Go(t, Idle)

\* The process dies and restore_from_record rebuilds the clump.  A record
\* without sessions is skipped: such a clump is not there any more.
Restart ==
    \E first \in saved.members :
       LET home(r) == IF saved.assigned[r] \in saved.members THEN saved.assigned[r] ELSE first
       IN  /\ members' = saved.members
           /\ chans' = [s \in Sessions |-> IF s \in saved.members
                                           THEN {r \in saved.list : home(r) = s} ELSE {}]
           /\ assigned' = [r \in Refs |-> IF r \in saved.list /\ saved.assigned[r] = NoSession
                                          THEN first ELSE saved.assigned[r]]
           /\ pending' = {} /\ lock' = {} /\ unsaved' = {}
           /\ op' = [t \in Tasks |-> Idle]
           /\ UNCHANGED saved

-----------------------------------------------------------------------------
Init ==
    /\ members = Sessions
    /\ chans = [s \in Sessions |-> {}]
    /\ assigned = [r \in Refs |-> NoSession]
    /\ pending = {} /\ lock = {} /\ unsaved = {}
    /\ op = [t \in Tasks |-> Idle]
    /\ saved = [members |-> Sessions, list |-> {}, assigned |-> [r \in Refs |-> NoSession]]

Step(t) ==
    \/ \E s \in Sessions, r \in Refs : StartAddOn(t, s, r)
    \/ \E R \in (SUBSET Refs) \ {{}} : StartAdd(t, R)
    \/ \E r \in Refs, from, to \in Sessions : StartMove(t, r, from, to)
    \/ \E r \in Refs : Remove(t, r)
    \/ \E s \in Sessions, kind \in {"migrate", "drop"} : StartMigrate(t, s, kind)
    \/ StartRetry(t) \/ StartRebalance(t) \/ Acquire(t)
    \/ \E r \in Refs : AddNext(t, r) \/ MigrateNext(t, r) \/ RetryNext(t, r)
    \/ \E s \in Sessions : RebalanceNext(t, s)
    \/ Joined(t) \/ Refused(t, TRUE) \/ Refused(t, FALSE) \/ Raised(t)
    \/ LoopEnds(t) \/ DropSession(t) \/ Persist(t)

Next ==
    \/ \E t \in Tasks : Undisturbed(t) /\ Step(t)
    \/ /\ \A t \in Tasks : op[t].at # "loop"
       /\ \/ \E s \in Sessions : AddSession(s)
          \/ Restart

Spec == Init /\ [][Next]_vars

-----------------------------------------------------------------------------
InHand(r) == \E t \in Tasks : op[t].ref = r /\ op[t].stripped
Held(r) == Listeners(r) # {} \/ r \in pending \/ InHand(r)

\* The steps that may let a channel go: the clump's own removal of it, an
\* exception or a refusal after it was taken off its session, a join or a
\* restore on the object of a session that has left, a session dropped with
\* what it got while it was being stopped, the list a retry leaves behind.
LetsGo(t, r) ==
    \/ Remove(t, r)
    \/ op[t].ref = r /\ op[t].stripped /\ (Raised(t) \/ (op[t].kind = "move" /\ Refused(t, TRUE)))
    \/ op[t].ref = r /\ op[t].gone # {} /\ (Joined(t) \/ Refused(t, TRUE))
    \/ op[t].at = "stop" /\ DropSession(t)
    \/ op[t].kind = "retry" /\ LoopEnds(t)

\* While the process runs, a channel that is listened to, deferred or in the
\* hands of a move stays so through every interleaving of adds, moves,
\* migrations, retries and rebalances, but for the steps of LetsGo.
HeldStays == [][\A r \in Refs : Held(r) /\ ~Restart => Held(r)' \/ \E t \in Tasks : LetsGo(t, r)]_vars

\* Whatever is listened to while no operation is under way is in
\* parser_jobs.json and comes back after a restart, unless an operation ended
\* without a save: an exception, or a rebalance that gave every channel back.
SavedAtRest ==
    (\A t \in Tasks : op[t] = Idle) =>
        \A r \in Refs : Listeners(r) # {} => r \in saved.list \cup unsaved

\* `assignments` names sessions that do listen: no step breaks that but a join
\* or a restore on the object of a session that has left the clump.
Truthful == \A r \in Refs : assigned[r] # NoSession =>
                                assigned[r] \in members /\ r \in chans[assigned[r]]
AssignmentsTruthful ==
    [][Truthful /\ ~Restart
         => Truthful' \/ \E t \in Tasks : {op[t].dst, op[t].src} \cap op[t].gone # {}]_vars
=============================================================================
