------------------------------ MODULE Producers ------------------------------
(***************************************************************************)
(* How tasks get into the queue: TaskQueueRepo.enqueue and enqueue_many     *)
(* (src/app_balance/queue/task_queue.py), BaseProducer.enqueue_if_room      *)
(* (producers/base.py) and enqueue_parser_add_channels of the discovery API *)
(* (standalone_discovery/discovery_api/queue/producer.py).                  *)
(*                                                                         *)
(* Every step of a request is one SQL statement, on a connection of its own *)
(* or without a transaction, so what a request read may be stale when it    *)
(* inserts.  The tasks of a dedup_key are the sequence of their statuses,   *)
(* in the order of their ids; what the workers do to them is reduced to     *)
(* those statuses ("queued" stands for queued, scheduled and retry, "over"  *)
(* for done, stuck and a failure that is not fatal).                        *)
(***************************************************************************)
EXTENDS Integers, Sequences, FiniteSets

CONSTANTS
    Keys,        \* dedup keys
    ChannelOf,   \* [Keys -> channels]: source_channels.id of the key's channel
    Requests,    \* concurrent calls: HTTP handlers and producer ticks
    Batches,     \* the sets of keys one add-channels call may ask for
    Capped,      \* the keys of a type that has a target_queue_size
    TargetSize,  \* task_types.target_queue_size
    MaxTasks     \* [Keys -> Nat]: bounds on the tasks of each key

ASSUME ProducersAssumption ==
    /\ DOMAIN ChannelOf = Keys
    /\ Batches \subseteq SUBSET (Keys \ Capped)
    /\ Capped \subseteq Keys
    /\ TargetSize \in Nat
    /\ MaxTasks \in [Keys -> Nat]

VARIABLES rows,  \* [Keys -> Seq(KeyStatuses)]
          req,   \* [Requests -> Request]
          seen   \* history: the keys that were served at some time of a request

producersVars == <<rows, req, seen>>

ActiveStatuses == {"queued", "in_progress"}
KeyStatuses    == ActiveStatuses \cup {"over", "fatal"}

\* What a request has to say of a key; "nothing" is an existing_task_id of None.
RequestAnswers == {"none", "asked", "created", "exists", "nothing",
                   "fatal_history", "already_queued", "queue_full"}

Request == [pc    : {"idle", "channel", "room", "history", "insert", "lookup"},
            out   : [Keys -> RequestAnswers],
            force : BOOLEAN]

Unasked == [k \in Keys |-> "none"]

ProducersInit == /\ rows = [k \in Keys |-> << >>]
                 /\ req = [r \in Requests |-> [pc |-> "idle", out |-> Unasked, force |-> FALSE]]
                 /\ seen = [r \in Requests |-> {}]

-----------------------------------------------------------------------------
\* The tasks of k that are active.
ActiveTasks(k) == {i \in DOMAIN rows[k] : rows[k][i] \in ActiveStatuses}

\* The predicate of idx_task_queue_dedup_active, repeated in ON CONFLICT.
\* Bug: the index does not cover in_progress.
ConflictsWaitingOnly(k) == \E i \in DOMAIN rows[k] : rows[k][i] = "queued"
Conflicts(k) == ActiveTasks(k) # {}

\* _FIND_LAST_BY_DEDUP_KEYS_SQL and the FATAL_ERROR_CODES that are asked of it.
\* Bug: any finished task will do.
FatalOfAny(k) == rows[k] # << >> /\ rows[k][Len(rows[k])] \notin ActiveStatuses
FatalHistory(k) == rows[k] # << >> /\ rows[k][Len(rows[k])] = "fatal"

\* _FIND_ACTIVE_BY_CHANNEL_IDS_SQL.
ChannelTaken(k) == \E j \in Keys \ Capped : ChannelOf[j] = ChannelOf[k] /\ Conflicts(j)

\* count_active_tasks.
ActiveCapped == UNION {{k} \X ActiveTasks(k) : k \in Capped}

\* Bug: the tasks being executed are not counted.
RoomBesideWaiting ==
    Cardinality({p \in ActiveCapped : rows[p[1]][p[2]] = "queued"}) < TargetSize
Room == Cardinality(ActiveCapped) < TargetSize

Asked(r) == {k \in Keys : req[r].out[k] = "asked"}

\* The request answers `answer` for the keys in K and goes on at pc, or ends when
\* no key is left.
Answer(r, pc, K, answer) ==
    req' = [req EXCEPT ![r].out = [k \in Keys |-> IF k \in K THEN answer ELSE @[k]],
                       ![r].pc = IF Asked(r) \subseteq K THEN "idle" ELSE pc]

Ask(r, pc, K, force) ==
    /\ req[r].pc = "idle"
    /\ req' = [req EXCEPT ![r] = [pc |-> pc, force |-> force,
                                  out |-> [k \in Keys |-> IF k \in K THEN "asked" ELSE "none"]]]
    /\ UNCHANGED rows

-----------------------------------------------------------------------------
\* enqueue_parser_add_channels, up to its query by channel_id.
AskAddChannels(r) ==
    \E K \in Batches \ {{}}, force \in BOOLEAN : Ask(r, "channel", K, force)

\* enqueue_if_room: its type has a target_queue_size.
AskIfRoom(r) == \E k \in Capped : Ask(r, "room", {k}, FALSE)

\* Step 2.5 of enqueue_parser_add_channels: a query that fails filters nothing.
FilterByChannel(r) ==
    /\ req[r].pc = "channel"
    /\ \/ Answer(r, "history", {k \in Asked(r) : ChannelTaken(k)}, "already_queued")
       \/ Answer(r, "history", {}, "already_queued")
    /\ UNCHANGED rows

CountRoom(r) ==
    /\ req[r].pc = "room"
    /\ Answer(r, "history", IF Room THEN {} ELSE Asked(r), "queue_full")
    /\ UNCHANGED rows

\* find_fatal_history(_batch), unless skip_known_fatal is off.
ReadFatalHistory(r) ==
    /\ req[r].pc = "history"
    /\ Answer(r, "insert",
              IF req[r].force THEN {} ELSE {k \in Asked(r) : FatalHistory(k)},
              "fatal_history")
    /\ UNCHANGED rows

\* _INSERT_SQL or _INSERT_MANY_SQL: the keys that do not conflict get a task.
Insert(r) ==
    LET fresh == {k \in Asked(r) : ~Conflicts(k)} IN
    /\ req[r].pc = "insert"
    /\ \A k \in fresh : Len(rows[k]) < MaxTasks[k]
    /\ rows' = [k \in Keys |-> IF k \in fresh THEN Append(rows[k], "queued") ELSE rows[k]]
    /\ Answer(r, "lookup", fresh, "created")

\* _FIND_ACTIVE_BY_DEDUP(_KEYS)_SQL: the task that was in the way may be gone.
LookUpExisting(r) ==
    /\ req[r].pc = "lookup"
    /\ req' = [req EXCEPT ![r].pc = "idle",
                          ![r].out = [k \in Keys |->
                              IF k \notin Asked(r) THEN @[k]
                              ELSE IF Conflicts(k) THEN "exists" ELSE "nothing"]]
    /\ UNCHANGED rows

\* A statement raises: the call ends, what it inserted stays.
RequestFails(r) ==
    /\ req[r].pc # "idle"
    /\ req' = [req EXCEPT ![r].pc = "idle",
                          ![r].out = [k \in Keys |-> IF k \in Asked(r) THEN "none" ELSE @[k]]]
    /\ UNCHANGED rows

-----------------------------------------------------------------------------
\* What the workers and the watchdog do to a task.
TaskMoves ==
    \E k \in Keys : \E i \in ActiveTasks(k) :
       /\ \/ rows[k][i] = "queued" /\ rows' = [rows EXCEPT ![k][i] = "in_progress"]
          \/ /\ rows[k][i] = "in_progress"
             /\ \E s \in {"queued", "over", "fatal"} : rows' = [rows EXCEPT ![k][i] = s]
       /\ UNCHANGED req

\* k needs no new task: its channel has an active one, or its last one was fatal.
Served(k) == \/ \E j \in Keys : ActiveTasks(j) # {} /\ ChannelOf[j] = ChannelOf[k]
             \/ \E i \in DOMAIN rows[k] : i = Len(rows[k]) /\ rows[k][i] = "fatal"

\* seen[r] gathers, while r runs, those of its keys that are Served.
Watch == seen' = [r \in Requests |->
                    IF req[r].pc = "idle" /\ req'[r].pc = "idle" THEN seen[r]
                    ELSE (IF req[r].pc = "idle" THEN {} ELSE seen[r])
                           \cup {k \in Keys : req'[r].out[k] # "none" /\ Served(k)'}]

RequestStep(r) ==
    \/ AskAddChannels(r)
    \/ AskIfRoom(r)
    \/ FilterByChannel(r)
    \/ CountRoom(r)
    \/ ReadFatalHistory(r)
    \/ Insert(r)
    \/ LookUpExisting(r)
    \/ RequestFails(r)

ProducersNext == /\ \/ \E r \in Requests : RequestStep(r)
                    \/ TaskMoves
                 /\ Watch

ProducersSpec == ProducersInit /\ [][ProducersNext]_producersVars

-----------------------------------------------------------------------------
ProducersTypeOK == /\ rows \in [Keys -> Seq(KeyStatuses)]
                      /\ req \in [Requests -> Request]
                      /\ seen \in [Requests -> SUBSET Keys]

\* However calls and workers interleave, at most one task of a dedup_key is
\* active, and it is the last one of its key: an older task never comes back.
OneActivePerKey ==
    \A k \in Keys : ActiveTasks(k) \subseteq {Len(rows[k])}

\* A call that answers without an error loses no key: for every key it asked for
\* it created a task, or at some time while it ran the channel had an active task
\* or the last task of the key was fatal.  This holds of the answers "exists" and
\* "nothing" too, which come from a second look, after the insertion conflicted.
NoneLost ==
    \A r \in Requests, k \in Keys :
       req[r].pc = "idle" /\ req[r].out[k] \notin {"none", "queue_full"} => k \in seen[r]

\* A type with a target_queue_size never has more active tasks than the target
\* and one for each other producer that counted before the last one inserted.
OvershootBound ==
    Cardinality(ActiveCapped) <= TargetSize + Cardinality(Requests) - 1

\* "Каналы, для которых уже есть активная задача - под ЭТИМ ЖЕ ИЛИ ДРУГИМ
\* parser_id - не дублируются" (producer.py:115-117).
OneAddPerChannel ==
    \A j, k \in Keys \ Capped :
       ChannelOf[j] = ChannelOf[k] /\ Conflicts(j) /\ Conflicts(k) => j = k
=============================================================================
