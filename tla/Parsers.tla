------------------------------- MODULE Parsers -------------------------------
(***************************************************************************)
(* The life of the parsers (clumps) of the discovery API: parser_start,     *)
(* parser_stop and the synchronous add-channels of parser_router.py, the    *)
(* bulk actions of action_queue.py with their worker loop, the records of    *)
(* parser_store.py and their restore at start-up (main.py).                 *)
(*                                                                         *)
(* A handler gives way where it awaits a batch of channels (Clump), the     *)
(* start or the stop of the supervisors; SQLite and the JSON file are       *)
(* written without an await.  A batch stands for its channels, and an       *)
(* action for its batch.                                                    *)
(***************************************************************************)
EXTENDS Naturals

CONSTANTS
    ParserIds,  \* uuids: a parser is started once
    Actions,    \* rows of the SQLite table action_queue
    Handlers,   \* HTTP requests under way
    NoParser    \* none

ASSUME ParsersAssumption ==
    NoParser \notin ParserIds \cup Actions /\ \A batch \in SUBSET Actions : batch # NoParser

VARIABLES
    registry,   \* _clumps of session_registry.py
    jobs,       \* _jobs of parser_router.py
    listening,  \* parsers whose supervisors run
    batches,    \* [ParserIds -> SUBSET Actions]: what the clump has
    record,     \* [ParserIds -> Record or NoParser]: parser_jobs.json
    jobsFile,   \* "ok", or "zeroed": ParserStoreCorruptedError
    action,     \* [Actions -> Action]
    loop,       \* the worker loop of the action queue
    handler,    \* [Handlers -> Handler]
    executions, \* history: [Actions -> Nat], how often the handler was called
    undone      \* history, see Undone

parserVars == <<registry, jobs, listening, batches, record, jobsFile, action, loop,
                handler, executions, undone>>

Action == [status : {"new", "queued", "running", "done", "failed"},
           parser : ParserIds \cup {NoParser}]
Loop == [at : {"idle", "batch", "start", "dead"}, act : Actions \cup {NoParser}]
Handler == [kind : {"none", "start", "stop", "add"}, parser : ParserIds \cup {NoParser},
            at : {"idle", "batch", "start", "stopping", "removing"}]

\* stopped: parsers that were stopped; overtaken: ... while something else was
\* at work on them; leaked: parser_start raised in its loop; lost: their record
\* was in the file when it was zeroed, or their clump was in memory then.
Undone == [stopped : SUBSET ParserIds, overtaken : SUBSET ParserIds,
           leaked : SUBSET ParserIds, lost : SUBSET ParserIds]

IdleLoop == [at |-> "idle", act |-> NoParser]
IdleHandler == [kind |-> "none", parser |-> NoParser, at |-> "idle"]

ParsersTypeOK ==
    /\ {registry, jobs, listening} \subseteq SUBSET ParserIds
    /\ batches \in [ParserIds -> SUBSET Actions]
    /\ record \in [ParserIds -> (SUBSET Actions) \cup {NoParser}]
    /\ jobsFile \in {"ok", "zeroed"}
    /\ action \in [Actions -> Action]
    /\ executions \in [Actions -> Nat] /\ loop \in Loop /\ handler \in [Handlers -> Handler]
    /\ undone \in Undone

ParsersInit ==
    /\ registry = {} /\ jobs = {} /\ listening = {}
    /\ batches = [p \in ParserIds |-> {}]
    /\ record = [p \in ParserIds |-> NoParser]
    /\ jobsFile = "ok"
    /\ action = [a \in Actions |-> [status |-> "new", parser |-> NoParser]]
    /\ loop = IdleLoop
    /\ handler = [h \in Handlers |-> IdleHandler]
    /\ executions = [a \in Actions |-> 0]
    /\ undone = [stopped |-> {}, overtaken |-> {}, leaked |-> {}, lost |-> {}]

-----------------------------------------------------------------------------
\* upsert_job: a zeroed file is written anew with this record only.
Upsert(p) ==
    /\ record' = [q \in ParserIds |-> IF q = p THEN batches[p]
                                      ELSE IF jobsFile = "zeroed" THEN NoParser ELSE record[q]]
    /\ jobsFile' = "ok"

\* delete_job: it leaves a zeroed file alone.
Delete(p) ==
    /\ record' = IF jobsFile = "zeroed" THEN record ELSE [record EXCEPT ![p] = NoParser]
    /\ UNCHANGED jobsFile

Handles(h, kind, p, at) == handler' = [handler EXCEPT ![h] = [kind |-> kind, parser |-> p, at |-> at]]
Replies(h) == handler' = [handler EXCEPT ![h] = IdleHandler]

\* Whoever works on p beside h.
BusyWith(p, h) == \/ \E g \in Handlers \ {h} : handler[g].parser = p
                  \/ loop.act # NoParser /\ action[loop.act].parser = p

QueueUntouched == UNCHANGED <<action, loop, executions>>

-----------------------------------------------------------------------------
\* parser_start: get_or_create_clump, then add_channel one by one.
StartParser(h, p) ==
    /\ handler[h] = IdleHandler
    /\ p \notin registry \cup undone.stopped \cup undone.leaked \cup undone.lost
    /\ record[p] = NoParser /\ \A g \in Handlers : handler[g].parser # p
    /\ registry' = registry \cup {p}
    /\ Handles(h, "start", p, "batch")
    /\ UNCHANGED <<jobs, listening, batches, record, jobsFile, undone>> /\ QueueUntouched

\* remove_clump of a start that brought nothing.
RemovesClump(p) == registry' = registry \ {p}

\* Some channel was added; or none, and the clump is removed; or an exception
\* (ChannelQuotaExceeded answers 409) leaves the clump in the registry.
StartChannelsAdded(h) ==
    LET p == handler[h].parser IN
    /\ handler[h].kind = "start" /\ handler[h].at = "batch"
    /\ \/ Handles(h, "start", p, "start") /\ UNCHANGED <<registry, undone>>
       \/ Replies(h) /\ RemovesClump(p) /\ UNCHANGED undone
       \/ Replies(h) /\ undone' = [undone EXCEPT !.leaked = @ \cup {p}] /\ UNCHANGED registry
    /\ UNCHANGED <<jobs, listening, batches, record, jobsFile>> /\ QueueUntouched

\* clump.start is through: the job and its record; or it raises.
ParserStarted(h) ==
    LET p == handler[h].parser IN
    /\ handler[h].kind = "start" /\ handler[h].at = "start"
    /\ \/ /\ listening' = listening \cup {p} /\ jobs' = jobs \cup {p}
          /\ Upsert(p)
          /\ UNCHANGED registry
       \/ /\ RemovesClump(p)
          /\ UNCHANGED <<listening, jobs, record, jobsFile>>
    /\ Replies(h)
    /\ UNCHANGED <<batches, undone>> /\ QueueUntouched

-----------------------------------------------------------------------------
\* parser_stop and parser_delete: clump.stop ...
StopParser(h, p) ==
    /\ handler[h] = IdleHandler /\ p \in jobs
    /\ Handles(h, "stop", p, "stopping")
    /\ UNCHANGED <<registry, jobs, listening, batches, record, jobsFile, undone>> /\ QueueUntouched

\* ... remove_clump, which stops it again ...
RemoveClump(h) ==
    LET p == handler[h].parser IN
    /\ handler[h].at = "stopping"
    /\ listening' = listening \ {p} /\ registry' = registry \ {p}
    /\ Handles(h, "stop", p, "removing")
    /\ UNCHANGED <<jobs, batches, record, jobsFile, undone>> /\ QueueUntouched

\* ... and its job and its record.
ParserStopped(h) ==
    LET p == handler[h].parser IN
    /\ handler[h].at = "removing"
    /\ listening' = listening \ {p} /\ jobs' = jobs \ {p}
    /\ Delete(p)
    /\ Replies(h)
    /\ undone' = [undone EXCEPT !.stopped = @ \cup {p},
                                !.overtaken = IF BusyWith(p, h) THEN @ \cup {p} ELSE @]
    /\ UNCHANGED <<registry, batches>> /\ QueueUntouched

-----------------------------------------------------------------------------
\* add-channels with async=false (remove-channels, add-session and
\* remove-session save the clump the same way).
AddChannels(h, p) ==
    /\ handler[h] = IdleHandler /\ p \in jobs
    /\ Handles(h, "add", p, "batch")
    /\ UNCHANGED <<registry, jobs, listening, batches, record, jobsFile, undone>> /\ QueueUntouched

ChannelsAdded(h) ==
    LET p == handler[h].parser IN
    /\ handler[h].kind = "add" /\ handler[h].at = "batch"
    /\ \/ Handles(h, "add", p, "start")
       \/ Replies(h)
    /\ UNCHANGED <<registry, jobs, listening, batches, record, jobsFile, undone>> /\ QueueUntouched

\* clump.start, whether or not the parser was stopped in between.
ClumpSaved(h) ==
    LET p == handler[h].parser IN
    /\ handler[h].kind = "add" /\ handler[h].at = "start"
    /\ listening' = listening \cup {p}
    /\ UNCHANGED <<registry, jobs, batches, undone>> /\ QueueUntouched
    /\ Upsert(p)
    /\ Replies(h)

-----------------------------------------------------------------------------
\* enqueue_action.
EnqueueAction(a, p) ==
    /\ action[a].status = "new" /\ p \in jobs
    /\ action' = [action EXCEPT ![a] = [status |-> "queued", parser |-> p]]
    /\ UNCHANGED <<registry, jobs, listening, batches, record, jobsFile, loop, handler,
                   executions, undone>>

\* Bug: actions that were running when the process died are taken up again.
NextUnfinished == {a \in Actions : action[a].status \in {"queued", "running"}}

\* created_at has seconds only: any of the queued ones may be the oldest.
NextQueued == {a \in Actions : action[a].status = "queued"}

Sets(a, status) == action' = [action EXCEPT ![a].status = status]

\* _require_running_clump.
\* Bug: the action is carried out though its parser is gone.
AnyParser(p) == TRUE
Runs(p) == p \in jobs

\* _worker_loop: 'running', then _execute_action up to its await.
RunAction ==
    \E a \in NextQueued :
       /\ loop.at = "idle"
       /\ executions' = [executions EXCEPT ![a] = @ + 1]
       /\ IF Runs(action[a].parser)
          THEN Sets(a, "running") /\ loop' = [at |-> "batch", act |-> a]
          ELSE Sets(a, "failed") /\ UNCHANGED loop
       /\ UNCHANGED <<registry, jobs, listening, batches, record, jobsFile, handler, undone>>

\* add_channels_batch is through, or raises.
BatchAdded ==
    LET a == loop.act IN
    /\ loop.at = "batch"
    /\ \/ /\ batches' = [batches EXCEPT ![action[a].parser] = @ \cup {a}]
          /\ loop' = [loop EXCEPT !.at = "start"]
          /\ UNCHANGED action
       \/ Sets(a, "failed") /\ loop' = IdleLoop /\ UNCHANGED batches
    /\ UNCHANGED <<registry, jobs, listening, record, jobsFile, handler, executions, undone>>

ActionDone ==
    LET p == action[loop.act].parser IN
    /\ loop.at = "start"
    /\ listening' = listening \cup {p}
    /\ UNCHANGED <<registry, jobs, batches, handler, executions, undone>>
    /\ Upsert(p)
    /\ Sets(loop.act, "done")
    /\ loop' = IdleLoop

\* SQLite raises outside the try: the loop is over until the process restarts.
LoopDies ==
    /\ loop.at # "dead"
    /\ loop' = [at |-> "dead", act |-> NoParser]
    /\ UNCHANGED <<registry, jobs, listening, batches, record, jobsFile, action, handler,
                   executions, undone>>

-----------------------------------------------------------------------------
\* The process dies or is stopped at any point; restore_persisted_parsers, then
\* the loop: an action that was 'running' stays so.
ProcessRestart ==
    LET restored == IF jobsFile = "zeroed" THEN {} ELSE {p \in ParserIds : record[p] # NoParser} IN
    /\ registry' = restored /\ jobs' = restored /\ listening' = restored
    /\ batches' = [p \in ParserIds |-> IF p \in restored THEN record[p] ELSE {}]
    /\ loop' = IdleLoop
    /\ handler' = [h \in Handlers |-> IdleHandler]
    /\ UNCHANGED <<record, jobsFile, action, executions, undone>>

\* The incident of 2026-08-11: the file has no bytes left.
FileZeroed ==
    /\ jobsFile = "ok"
    /\ undone.lost = {} /\ \E p \in ParserIds : record[p] # NoParser
    /\ jobsFile' = "zeroed"
    /\ record' = [p \in ParserIds |-> NoParser]
    /\ undone' = [undone EXCEPT !.lost = {p \in ParserIds : record[p] # NoParser}]
    /\ UNCHANGED <<registry, jobs, listening, batches, action, loop, handler, executions>>

ParsersNext ==
    \/ \E h \in Handlers, p \in ParserIds :
          StartParser(h, p) \/ StopParser(h, p) \/ AddChannels(h, p)
    \/ \E h \in Handlers : \/ StartChannelsAdded(h) \/ ParserStarted(h) \/ RemoveClump(h)
                           \/ ParserStopped(h) \/ ChannelsAdded(h) \/ ClumpSaved(h)
    \/ \E a \in Actions, p \in ParserIds : EnqueueAction(a, p)
    \/ RunAction \/ BatchAdded \/ ActionDone \/ LoopDies
    \/ ProcessRestart \/ FileZeroed

-----------------------------------------------------------------------------
\* A parser that was stopped is gone: no listener runs, and no record brings it
\* back at the next start of the process, unless an operation on it was under way
\* when it was stopped: that one starts the clump again and saves it.
StoppedStaysStopped ==
    \A p \in undone.stopped \ undone.overtaken :
       p \notin registry \cup jobs \cup listening /\ record[p] = NoParser

\* No clump is in the registry, where the health monitor and the queue find it,
\* without a parser that could be stopped, but for a parser_start that raised.
RegistryHasJobs ==
    \A p \in registry \ (undone.leaked \cup undone.overtaken) :
       p \in jobs \/ \E h \in Handlers : handler[h].parser = p

\* No bulk action is carried out twice, whatever restarts come in between.
ActionAtMostOnce == \A a \in Actions : executions[a] <= 1

\* An action that reports "done" outlives every restart with the channels it
\* added, unless its parser was stopped or the file zeroed.
DoneActionIsSaved ==
    \A a \in Actions : action[a].status = "done" =>
       LET p == action[a].parser IN
       p \in undone.stopped \cup undone.lost \/ (record[p] # NoParser /\ a \in record[p])

\* The jobs, the registry of clumps, the listeners and the file tell one story of
\* which parsers there are, though start, stop, add-channels and restore write them
\* one after the other.
ParsersAgree == StoppedStaysStopped /\ RegistryHasJobs

\* A bulk action is neither repeated nor half kept: its SQLite row and the file of
\* the parsers agree over restarts.
ActionsKept == ActionAtMostOnce /\ DoneActionIsSaved
=============================================================================
