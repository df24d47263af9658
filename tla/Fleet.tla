-------------------------------- MODULE Fleet --------------------------------
(***************************************************************************)
(* How the queue tasks parser_add_channel, move_channel and                 *)
(* parser_remove_channel (src/app_balance/queue/adapter.py) keep four       *)
(* places in agreement on who listens to a channel: Telegram (`follows`),   *)
(* the memory of the clumps (`listens`), parser_jobs.json (`stored`) and     *)
(* source_channels.assigned_account_id (`assignedTo`), written by           *)
(* channel_assignment_sync.py.                                              *)
(*                                                                         *)
(* An attempt gives way where it awaits Telegram ("join", "leave") and      *)
(* PostgreSQL ("pg"); what it does to the memory of a clump in between is    *)
(* one step.  A crash drops the memory and every attempt; the watchdog      *)
(* puts the tasks back, and they are attempted again from the beginning.    *)
(* An account is reserved by one attempt at a time (Queue), so attempts     *)
(* that run together have no account in common.                             *)
(*                                                                         *)
(* Two of the writes may be left out with nothing but a line in the log,     *)
(* and the task is done all the same: the one to source_channels when the    *)
(* channel is not resolved or there is no pool, and every save of a clump.   *)
(***************************************************************************)
EXTENDS FiniteSets

CONSTANTS Channels, FleetAccounts,  \* channels; accounts that listen
          ClumpOf,              \* [FleetAccounts -> clumps]
          Jobs,                 \* places for tasks: bounds the tasks at a time
          Nobody                \* SQL NULL

ASSUME FleetAssumption == Nobody \notin Channels \cup FleetAccounts

VARIABLES
    listens,     \* [FleetAccounts -> SUBSET Channels]: Parser_client.channels
    stored,      \* the same in parser_jobs.json
    follows,     \* [FleetAccounts -> SUBSET Channels]: the account is a member
    assignedTo,  \* [Channels -> FleetAccounts or Nobody]: assigned_account_id
    inProject,   \* channels of an active project
    job,         \* [Jobs -> Job]
    unsaved,     \* history: clump and channel of the saves that failed, until the next
    incident     \* history: channels that met one of the cases of FleetAgrees

fleetVars == <<listens, stored, follows, assignedTo, inProject, job, unsaved, incident>>

NoJob == [kind |-> "none", ch |-> Nobody, from |-> Nobody, to |-> Nobody, pc |-> "free"]

\* "queued" stands for a task that waits for its first or its next attempt.
Job == [kind : {"none", "add", "move", "remove"}, ch : Channels \cup {Nobody},
        from : FleetAccounts \cup {Nobody}, to : FleetAccounts \cup {Nobody},
        pc : {"free", "queued", "join", "leave", "pg", "persist"}]

FleetTypeOK ==
    /\ {listens, stored, follows} \subseteq [FleetAccounts -> SUBSET Channels]
    /\ assignedTo \in [Channels -> FleetAccounts \cup {Nobody}]
    /\ inProject \subseteq Channels /\ incident \subseteq Channels
    /\ job \in [Jobs -> Job]
    /\ unsaved \subseteq {ClumpOf[a] : a \in FleetAccounts} \X Channels

FleetInit ==
    /\ listens = [a \in FleetAccounts |-> {}]
    /\ stored = listens /\ follows = listens
    /\ assignedTo = [c \in Channels |-> Nobody]
    /\ inProject = Channels /\ incident = {} /\ unsaved = {}
    /\ job = [j \in Jobs |-> NoJob]

-----------------------------------------------------------------------------
Running(j) == job[j].pc \notin {"free", "queued"}
AccountsOf(j) == {job[j].from, job[j].to} \ {Nobody}

HearersOf(c) == {a \in FleetAccounts : c \in listens[a]}

\* _find_owner in the clump of a.
OwnersBeside(a, c) == {b \in HearersOf(c) : ClumpOf[b] = ClumpOf[a]}

\* Clump.remove_channel in the clump of a: whoever the owner is.
Stripped(l, a, c) == [b \in FleetAccounts |-> IF ClumpOf[b] = ClumpOf[a] THEN l[b] \ {c} ELSE l[b]]

\* persist_state of the clump of a, of the memory as this step leaves it.
PersistedWith(l, a) == [b \in FleetAccounts |-> IF ClumpOf[b] = ClumpOf[a] THEN l[b] ELSE stored[b]]

Step(j, pc) == job' = [job EXCEPT ![j] = IF pc = "free" THEN NoJob ELSE [job[j] EXCEPT !.pc = pc]]

Excepted(c) == incident' = incident \cup {c}

\* _persist_safe of the clump of a, for the sake of c: its exceptions are swallowed.
SaveClump(l, a, c) ==
    \/ stored' = PersistedWith(l, a) /\ unsaved' = {u \in unsaved : u[1] # ClumpOf[a]}
    \/ stored' = stored /\ unsaved' = unsaved \cup {<<ClumpOf[a], c>>}

\* An attempt begins: its accounts are free.
Begins(j, kind) ==
    /\ job[j].pc = "queued" /\ job[j].kind = kind
    /\ \A i \in Jobs \ {j} : Running(i) => AccountsOf(i) \cap AccountsOf(j) = {}

\* An attempt fails: the task is tried again, or given up.
Fails(j) ==
    \/ Step(j, "queued") /\ UNCHANGED incident
    \/ Step(j, "free") /\ Excepted(job[j].ch)

-----------------------------------------------------------------------------
\* The API and the producers.  The removal is of a channel without an active
\* project, by the account the table assigns to it.
EnqueueJob(j, kind, c, from, to) ==
    /\ job[j] = NoJob
    /\ job' = [job EXCEPT ![j] = [kind |-> kind, ch |-> c, from |-> from, to |-> to,
                                  pc |-> "queued"]]
    /\ incident' = IF \E i \in Jobs : job[i].ch = c THEN incident \cup {c} ELSE incident
    /\ UNCHANGED <<listens, stored, follows, assignedTo, inProject, unsaved>>

EnqueueAdd(j, c, a)  == assignedTo[c] = Nobody /\ EnqueueJob(j, "add", c, Nobody, a)
EnqueueMove(j, c, a) == assignedTo[c] \notin {Nobody, a} /\ EnqueueJob(j, "move", c, assignedTo[c], a)
EnqueueRemove(j, c)  == /\ assignedTo[c] # Nobody /\ c \notin inProject
                        /\ EnqueueJob(j, "remove", c, assignedTo[c], Nobody)

-----------------------------------------------------------------------------
\* _execute_parser_add_channel, up to its first await; an owner_conflict ends it.
BeginAdd(j) ==
    LET a == job[j].to
        c == job[j].ch
    IN  /\ Begins(j, "add")
        /\ CASE OwnersBeside(a, c) = {} -> Step(j, "join") /\ UNCHANGED incident
             [] OwnersBeside(a, c) = {a} -> Step(j, "pg") /\ UNCHANGED incident
             [] OTHER -> Step(j, "free") /\ Excepted(c)
        /\ UNCHANGED <<listens, stored, follows, assignedTo, inProject, unsaved>>

SameClump(j) == ClumpOf[job[j].from] = ClumpOf[job[j].to]

\* _execute_move_channel inside one clump: move_channel strips the source first.
BeginMoveWithin(j) ==
    LET a == job[j].to
        c == job[j].ch
        owners == OwnersBeside(a, c)
    IN  /\ Begins(j, "move") /\ SameClump(j)
        /\ IF owners \subseteq AccountsOf(j)
           THEN /\ Step(j, IF owners = {a} THEN "pg" ELSE "join")
                /\ listens' = IF owners = {a} THEN listens
                              ELSE [listens EXCEPT ![job[j].from] = @ \ {c}]
                /\ UNCHANGED incident
           ELSE Step(j, "free") /\ Excepted(c) /\ UNCHANGED listens
        /\ UNCHANGED <<stored, follows, assignedTo, inProject, unsaved>>

\* remove_channel of the source clump, which may answer FALSE: the move goes on.
Releases(j, l, agreed) ==
    \/ /\ listens' = Stripped(l, job[j].from, job[j].ch)
       /\ IF agreed THEN UNCHANGED incident ELSE Excepted(job[j].ch)
    \/ listens' = l /\ Excepted(job[j].ch)

\* Bug: the source clump is not saved.
LetGoUnsaved(j, l, agreed) == Releases(j, l, agreed) /\ UNCHANGED <<stored, unsaved>>

\* The source clump lets the channel go and is saved.
LetGo(j, l, agreed) ==
    Releases(j, l, agreed) /\ SaveClump(listens', job[j].from, job[j].ch)

\* Bug: the source lets the channel go before the target has joined it.
LeavesFirst(j) == Step(j, "join") /\ LetGo(j, listens, TRUE)
JoinsFirst(j) == Step(j, "join") /\ UNCHANGED <<listens, stored, unsaved, incident>>

\* ... and between two clumps: add_channel_on_session of the target comes first.
\* An owner_conflict is taken for a success.
BeginMoveAcross(j) ==
    LET a == job[j].to
        owners == OwnersBeside(a, job[j].ch)
    IN  /\ Begins(j, "move") /\ ~SameClump(j)
        /\ IF owners = {} THEN JoinsFirst(j) ELSE Step(j, "pg") /\ LetGo(j, listens, owners = {a})
        /\ UNCHANGED <<follows, assignedTo, inProject>>

\* The account has joined the channel.
JoinedBy(j) ==
    LET a == job[j].to
        heard == [listens EXCEPT ![a] = @ \cup {job[j].ch}]
    IN  /\ job[j].pc = "join"
        /\ follows' = [follows EXCEPT ![a] = @ \cup {job[j].ch}]
        /\ IF job[j].kind = "move" /\ ~SameClump(j)
           THEN LetGo(j, heard, TRUE)
           ELSE listens' = heard /\ UNCHANGED <<stored, unsaved, incident>>
        /\ Step(j, "pg")
        /\ UNCHANGED <<assignedTo, inProject>>

\* Telegram refuses, or the statement on source_channels raises.
AttemptFails(j) ==
    /\ job[j].pc \in {"join", "leave", "pg"}
    /\ Fails(j)
    /\ UNCHANGED <<listens, stored, follows, assignedTo, inProject, unsaved>>

\* _execute_parser_remove_channel: has_active_project, unless the task does not tell
\* the channel's id, then LeaveChannel.
BeginRemove(j) ==
    /\ Begins(j, "remove")
    /\ IF job[j].ch \in inProject
       THEN \/ Step(j, "free") /\ UNCHANGED incident
            \/ Step(j, "leave") /\ Excepted(job[j].ch)
       ELSE Step(j, "leave") /\ UNCHANGED incident
    /\ UNCHANGED <<listens, stored, follows, assignedTo, inProject, unsaved>>

\* Clump.remove_channel may answer FALSE here, too.
LeftBy(j) ==
    /\ job[j].pc = "leave"
    /\ follows' = [follows EXCEPT ![job[j].from] = @ \ {job[j].ch}]
    /\ Releases(j, listens, TRUE)
    /\ Step(j, "pg")
    /\ UNCHANGED <<stored, assignedTo, inProject, unsaved>>

\* _write_pg_assignment, or clear_assigned_account; or the write is left out.
WriteAssignment(j) ==
    /\ job[j].pc = "pg"
    /\ \/ assignedTo' = [assignedTo EXCEPT ![job[j].ch] = job[j].to] /\ UNCHANGED incident
       \/ UNCHANGED assignedTo /\ Excepted(job[j].ch)
    /\ Step(j, "persist")
    /\ UNCHANGED <<listens, stored, follows, inProject, unsaved>>

\* _persist_clump_if_available, and the task is done.
PersistClump(j) ==
    /\ job[j].pc = "persist"
    /\ SaveClump(listens, IF job[j].kind = "remove" THEN job[j].from ELSE job[j].to, job[j].ch)
    /\ Step(j, "free")
    /\ UNCHANGED <<listens, follows, assignedTo, inProject, incident>>

-----------------------------------------------------------------------------
\* A project takes the channel in or lets it go.
ProjectChanges(c) ==
    /\ inProject' = (inProject \ {c}) \cup ({c} \ inProject)
    /\ incident' = IF \E j \in Jobs : job[j].kind = "remove" /\ job[j].ch = c
                   THEN incident \cup {c} ELSE incident
    /\ UNCHANGED <<listens, stored, follows, assignedTo, job, unsaved>>

\* A task finds account a not authorized: clear_assignments_for_account.
AccountUnauthorized(a) ==
    /\ \E c \in Channels : assignedTo[c] = a
    /\ assignedTo' = [c \in Channels |-> IF assignedTo[c] = a THEN Nobody ELSE assignedTo[c]]
    /\ incident' = incident \cup {c \in Channels : assignedTo[c] = a}
    /\ UNCHANGED <<listens, stored, follows, inProject, job, unsaved>>

\* The process dies at any point; the clumps come back from parser_jobs.json.
FleetCrash ==
    /\ listens' = stored
    /\ job' = [j \in Jobs |-> IF Running(j) THEN [job[j] EXCEPT !.pc = "queued"] ELSE job[j]]
    /\ incident' = incident \cup {u[2] : u \in unsaved}
    /\ unsaved' = {}
    /\ UNCHANGED <<stored, follows, assignedTo, inProject>>

JobStep(j) ==
    \/ BeginAdd(j) \/ BeginMoveWithin(j) \/ BeginMoveAcross(j) \/ BeginRemove(j)
    \/ JoinedBy(j) \/ LeftBy(j) \/ AttemptFails(j) \/ WriteAssignment(j) \/ PersistClump(j)

FleetNext ==
    \/ \E j \in Jobs : JobStep(j)
    \/ \E j \in Jobs, c \in Channels :
          \/ \E a \in FleetAccounts : EnqueueAdd(j, c, a) \/ EnqueueMove(j, c, a)
          \/ EnqueueRemove(j, c)
    \/ \E c \in Channels : ProjectChanges(c)
    \/ \E a \in FleetAccounts : AccountUnauthorized(a)
    \/ FleetCrash

-----------------------------------------------------------------------------
\* At rest the table, the memory and the file agree on who listens to a channel,
\* and that account is a member of it, however often the process died on the way
\* there; the file only once the clump is saved again after a save that failed.
\* Excepted is a channel with two tasks at a time, a task that was given up or found
\* another session in its place (owner_conflict), a write to the table that was left
\* out, a removal that found nothing to remove, a project that changed its mind during
\* a removal or was not looked at, an account that lost its authorization, or a crash
\* before that next save.
FleetAgrees ==
    \A c \in Channels \ incident : (\A j \in Jobs : job[j].ch # c) =>
        /\ HearersOf(c) = {assignedTo[c]} \ {Nobody}
        /\ \A a \in FleetAccounts :
              <<ClumpOf[a], c>> \notin unsaved => (c \in listens[a] <=> c \in stored[a])
        /\ \A a \in HearersOf(c) : c \in follows[a]

\* "add-to-target before remove-from-source ... nothing is lost"
\* (adapter.py:398-399): a move between clumps leaves the channel heard at every
\* step, as long as the process lives and the move is the channel's only task.
CrossMoveKeepsHearing ==
    [][\A j \in Jobs, c \in Channels :
          job[j].kind = "move" /\ job[j].ch = c /\ c \notin incident' /\ ~SameClump(j) /\ ~FleetCrash
             => (HearersOf(c) # {} => HearersOf(c)' # {})]_fleetVars
=============================================================================
