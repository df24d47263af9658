-------------------------------- MODULE Health --------------------------------
(***************************************************************************)
(* What is known of one account's session, in two places that are written   *)
(* one after the other: SessionHealth in memory (discovery_api/             *)
(* session_health.py) and the account's row of the table accounts           *)
(* (account_health_sync.py, whose statements are AccountsTable's).          *)
(*                                                                         *)
(* Four asyncio tasks work on them: the supervisor of the listener, the     *)
(* HealthMonitor, a caller that needs the client (an HTTP handler, an        *)
(* executor), and the dispatcher, which reports how an attempt of a queue    *)
(* task failed, a ban or a FloodWait to the table alone.  Each gives way     *)
(* while it waits for Telegram and for PostgreSQL; who is in                 *)
(* get_or_create_client holds the lock of the session until its statement    *)
(* is through.  accounts_sync reads the row and the sources, then upserts.  *)
(* SessionHealth belongs to the Parser_client of the clump: a session that   *)
(* leaves its clump loses it, and gets a fresh one where it enters again.   *)
(***************************************************************************)
EXTENDS Naturals, AccountsTable

CONSTANT MaxHappenings  \* bound of the model: what happens to the session from outside

ASSUME HealthAssumption == MaxHappenings \in Nat

VARIABLES
    memory,    \* SessionHealth, and the client of _clients
    account,   \* the row of accounts
    doing,     \* [Workings -> Work]
    resync,    \* the transaction of accounts_sync
    telegram,  \* what Telegram thinks of the session
    listed,    \* a clump, and so parser_jobs.json, names the session
    blocked,   \* telegram_accounts.admin_blocked
    past,      \* history, see Past
    happened   \* counter of what happened from outside

sources == <<telegram, listed, blocked>>
healthVars == <<memory, account, doing, resync, sources, past, happened>>

Workings == {"supervisor", "monitor", "caller", "dispatcher"}

\* flood: flood_until is set, and may be over by now; "strange" is the status 'error'
\* with a last_error that is_session_unauthorized_error does not know.
SessionHealth ==
    [status : {"starting", "healthy", "flood_wait", "disconnected", "banned", "error", "strange"},
     banned : BOOLEAN, connected : BOOLEAN, flood : BOOLEAN, client : BOOLEAN]

\* write: the statement a task waits for; next: where it goes on; locked: it holds
\* the lock of the session.
Work == [at : {"idle", "get", "write", "listen", "down", "sleep", "resolve", "observe", "probe"},
         write : {"none", "cooldown", "banned", "error", "reactivate"},
         next : {"idle", "listen", "raised", "down", "sleep", "resolve"},
         locked : BOOLEAN]

Rest == [at |-> "idle", write |-> "none", next |-> "idle", locked |-> FALSE]
NoResync == [at |-> "off", blocked |-> FALSE, listed |-> FALSE]

\* disorder: a cooldown was written over an 'error', or two statements on the
\* session were under way at a time; lost: a statement failed, was cancelled or
\* died with the process, or an administrator blocked the account; alone: a ban was
\* reported to the table and not to memory; renewed: a session whose ban was known
\* has left its clump, and SessionHealth with it.
Past == {"disorder", "lost", "alone", "renewed"}

HealthTypeOK ==
    /\ memory \in SessionHealth
    /\ account \in AccountRow
    /\ doing \in [Workings -> Work]
    /\ resync \in [at : {"off", "write"}, blocked : BOOLEAN, listed : BOOLEAN]
    /\ telegram \in {"ok", "out", "banned"}
    /\ {listed, blocked} \subseteq BOOLEAN
    /\ past \subseteq Past /\ happened \in 0 .. MaxHappenings

Unborn == [status |-> "starting", banned |-> FALSE, connected |-> FALSE,
           flood |-> FALSE, client |-> FALSE]

HealthInit ==
    /\ memory = Unborn
    /\ account = FreshAccount
    /\ doing = [t \in Workings |-> Rest]
    /\ resync = NoResync
    /\ telegram = "ok" /\ listed = TRUE /\ blocked = FALSE
    /\ past = {} /\ happened = 0

-----------------------------------------------------------------------------
\* The methods of SessionHealth.
Connected(m) == [m EXCEPT !.connected = TRUE,
                          !.status = IF @ \in {"starting", "disconnected"} THEN "healthy" ELSE @]
Disconnected(m) == [m EXCEPT !.connected = FALSE,
                             !.status = IF m.banned THEN @ ELSE "disconnected"]
Flooded(m) == [m EXCEPT !.flood = TRUE, !.status = "flood_wait"]
FloodCleared(m) ==
    [m EXCEPT !.flood = FALSE,
              !.status = IF ~m.flood \/ m.banned \/ @ # "flood_wait" THEN @
                         ELSE IF m.connected THEN "healthy" ELSE "disconnected"]
MarkedBanned(m) == [m EXCEPT !.banned = TRUE, !.status = "banned", !.connected = FALSE]
Unauthorized(m) == [m EXCEPT !.connected = FALSE, !.status = "error"]
Reauthorized(m) ==
    IF ~m.banned /\ m.status \in {"starting", "disconnected", "error"}
    THEN [m EXCEPT !.connected = TRUE, !.status = "healthy"]
    ELSE m

\* The row after the statement a task waits for.
RowAfter(write) ==
    CASE write = "cooldown"   -> CooledDown(account)
      [] write = "banned"     -> Banned(account)
      [] write = "error"      -> Errored(account)
      [] write = "reactivate" -> Reactivated(account)
      [] OTHER                -> account

NothingWritten == \A t \in Workings : doing[t].at # "write"

Does(t, w) == doing' = [doing EXCEPT ![t] = w]
At(pc) == [Rest EXCEPT !.at = pc]
Writes(t, write, next, locked) ==
    /\ Does(t, [at |-> "write", write |-> write, next |-> next, locked |-> locked])
    /\ past' = past \cup (IF \E u \in Workings \ {t} : doing[u].at = "write" THEN {"disorder"} ELSE {})

Happens == happened < MaxHappenings /\ happened' = happened + 1

Free == \A t \in Workings : ~doing[t].locked

\* find_parser_client: outside a clump only _clients knows the session.
Noted(m) == IF listed THEN m ELSE [memory EXCEPT !.client = m.client]

-----------------------------------------------------------------------------
\* get_or_create_client, up to its statement.  is_user_authorized answers "no"
\* for a ban as well; connect may fail.
GetClient(t, ok, failed) ==
    /\ doing[t].at = "get" /\ Free
    /\ \/ /\ telegram = "ok"
          /\ memory' = Noted([Reauthorized(memory) EXCEPT !.client = TRUE])
          /\ Writes(t, "reactivate", ok, TRUE)
       \/ /\ telegram # "ok"
          /\ memory' = Noted([Unauthorized(memory) EXCEPT !.client = FALSE])
          /\ Writes(t, "error", failed, TRUE)
       \/ /\ t # "supervisor"
          /\ Does(t, Rest)
          /\ UNCHANGED <<memory, past>>
    /\ UNCHANGED <<account, resync, sources, happened>>

\* The statement is through, or fails and is logged; the task goes on.  An
\* exception of get_or_create_client goes to the supervisor's own handler.
WriteRow(t) ==
    LET w == doing[t] IN
    /\ w.at = "write"
    /\ \/ /\ account' = RowAfter(w.write) /\ UNCHANGED happened
          /\ past' = IF w.write = "cooldown" /\ account.status = "error"
                     THEN past \cup {"disorder"} ELSE past
       \/ Happens /\ account' = account /\ past' = past \cup {"lost"}
    /\ IF w.next = "raised"
       THEN /\ memory' = Unauthorized(memory)
            /\ Does(t, [at |-> "write", write |-> "error", next |-> "down", locked |-> FALSE])
       ELSE /\ memory' = IF w.next = "listen" THEN Connected(memory) ELSE memory
            /\ Does(t, At(w.next))
    /\ UNCHANGED <<resync, sources>>

-----------------------------------------------------------------------------
\* Parser_client.start; a supervisor in _trigger_down is still running.
StartSupervisor ==
    /\ doing["supervisor"] = Rest /\ listed
    /\ Does("supervisor", At("get"))
    /\ memory' = [memory EXCEPT !.status = IF @ = "disconnected" THEN "starting" ELSE @]
    /\ UNCHANGED <<account, resync, sources, past, happened>>

\* Parser_client.stop: the task is cancelled wherever it waits.
StopSupervisor ==
    LET w == doing["supervisor"] IN
    /\ Happens
    /\ w # Rest
    /\ account' \in {account, RowAfter(w.write)}
    /\ past' = past \cup (IF w.at = "write" THEN {"lost"} ELSE {})
    /\ Does("supervisor", Rest)
    /\ UNCHANGED <<memory, resync, sources>>

\* run_session_listener ends: the handler of _supervise.
Floods ==
    /\ doing["supervisor"].at = "listen"
    /\ memory' = Flooded(memory)
    /\ Writes("supervisor", "cooldown", "sleep", FALSE)
    /\ UNCHANGED <<account, resync, sources, happened>>

IsBanned ==
    /\ doing["supervisor"].at = "listen" /\ telegram = "banned"
    /\ memory' = MarkedBanned(memory)
    /\ Writes("supervisor", "banned", "down", FALSE)
    /\ UNCHANGED <<account, resync, sources, happened>>

IsUnauthorized ==
    /\ doing["supervisor"].at = "listen" /\ telegram = "out"
    /\ memory' \in {Unauthorized(memory), [Unauthorized(memory) EXCEPT !.status = "strange"]}
    /\ Writes("supervisor", "error", "down", FALSE)
    /\ UNCHANGED <<account, resync, sources, happened>>

\* A transient error, or none; or connect fails.  After max_reconnects it is over.
LosesConnection ==
    /\ doing["supervisor"].at \in {"listen", "get"}
    /\ memory' = Disconnected(memory)
    /\ \E pc \in {"sleep", "down"} : Does("supervisor", At(pc))
    /\ UNCHANGED <<account, resync, sources, past, happened>>

\* The backoff is over; or on_down, which moves the channels away (Clump), is.
SupervisorGoesOn ==
    LET pc == doing["supervisor"].at IN
    /\ pc \in {"sleep", "down"}
    /\ Does("supervisor", IF pc = "sleep" THEN At("get") ELSE Rest)
    /\ UNCHANGED <<memory, account, resync, sources, past, happened>>

-----------------------------------------------------------------------------
\* A tick of the HealthMonitor, up to its await.
MonitorLooks ==
    /\ doing["monitor"] = Rest /\ listed
    /\ \E m \in {memory, FloodCleared(memory)} :
          LET broken == m.status \in {"error", "strange"} IN
          /\ memory' = m
          /\ CASE ~m.banned /\ (broken \/ (~m.client /\ m.status = "starting")) ->
                    Does("monitor", At("get"))
               [] ~m.banned /\ ~broken /\ m.client -> Does("monitor", At("observe"))
               [] OTHER -> UNCHANGED doing
    /\ UNCHANGED <<account, resync, sources, past, happened>>

\* is_connected and is_authorized_uncached have answered.
MonitorObserves ==
    /\ doing["monitor"].at = "observe"
    /\ \/ memory' = Disconnected(memory)
       \/ telegram = "ok" /\ memory' \in {Connected(memory)} \cup (IF memory.flood THEN {memory} ELSE {})
    /\ Does("monitor", Rest)
    /\ UNCHANGED <<account, resync, sources, past, happened>>

\* Parser_client.add_channel, and whoever else asks for the client.
CallerAsks ==
    /\ doing["caller"] = Rest
    /\ Does("caller", At("get"))
    /\ UNCHANGED <<memory, account, resync, sources, past, happened>>

\* resolve_channel_to_chat_id has answered; a FloodWait is noted.
CallerResolves ==
    /\ doing["caller"].at = "resolve"
    /\ \/ memory' = Flooded(memory) /\ Writes("caller", "cooldown", "idle", FALSE)
       \/ Does("caller", Rest) /\ UNCHANGED <<memory, past>>
    /\ UNCHANGED <<account, resync, sources, happened>>

\* PATCH /accounts/.../reactivate: release_client, then the probe.
Reactivate ==
    /\ doing["caller"] = Rest /\ Free
    /\ memory' = [memory EXCEPT !.client = FALSE]
    /\ Does("caller", At("probe"))
    /\ UNCHANGED <<account, resync, sources, past, happened>>

Probed ==
    /\ doing["caller"].at = "probe" /\ Free
    /\ IF telegram = "ok"
       THEN memory' = Noted(Reauthorized(memory)) /\ Writes("caller", "reactivate", "idle", FALSE)
       ELSE Does("caller", Rest) /\ UNCHANGED <<memory, past>>
    /\ UNCHANGED <<account, resync, sources, happened>>

-----------------------------------------------------------------------------
\* BANNED marks nothing in memory; a conflicting authorization key marks the
\* Parser_client, when there is one.
ReportsBan ==
    /\ \/ telegram = "banned" /\ UNCHANGED memory
       \/ telegram # "ok" /\ memory' = Noted(MarkedBanned(memory))
    /\ Does("dispatcher", [At("write") EXCEPT !.write = "banned"])
    /\ past' = past \cup (IF memory'.banned THEN {} ELSE {"alone"})
                    \cup (IF NothingWritten THEN {} ELSE {"disorder"})

\* _sync_account_health_on_error, by what the attempt raised: FLOOD_WAIT and BANNED
\* are reported to the table only, ACCOUNT_UNAUTHORIZED through notify_session_*.
DispatcherReports ==
    /\ doing["dispatcher"] = Rest
    /\ \/ Writes("dispatcher", "cooldown", "idle", FALSE) /\ UNCHANGED memory
       \/ ReportsBan
       \/ /\ telegram # "ok"
          /\ memory' = Noted(Unauthorized(memory))
          /\ Writes("dispatcher", "error", "idle", FALSE)
    /\ UNCHANGED <<account, resync, sources, happened>>

-----------------------------------------------------------------------------
\* Bug: the resync takes an account in error for one that works.
RuntimeWithoutError == {"cooldown", "banned"}
Runtime == {"cooldown", "banned", "error"}

\* resolve_status of what the transaction has read.
Resolved(b, l, status) == IF b \/ ~l THEN "disabled"
                          ELSE IF status \in Runtime THEN status ELSE "active"

\* sync_accounts_to_pg, up to its upsert: _load_existing and _row_changed.
ResyncReads ==
    LET status == Resolved(blocked, listed, account.status) IN
    /\ resync = NoResync
    /\ blocked \/ account.status \notin Runtime
    /\ account.status # status \/ account.enabled # (status = "active")
    /\ resync' = [at |-> "write", blocked |-> blocked, listed |-> listed]
    /\ UNCHANGED <<memory, account, doing, sources, past, happened>>

\* _UPSERT_SQL looks at the row again.
Upserted(r, b, l) ==
    IF ~b /\ r.status \in Runtime THEN r
    ELSE [r EXCEPT !.status = Resolved(b, l, "active"), !.enabled = ~b /\ l]

ResyncWrites ==
    /\ resync.at = "write"
    /\ account' = Upserted(account, resync.blocked, resync.listed)
    /\ past' = IF resync.blocked THEN past \cup {"lost"} ELSE past
    /\ resync' = NoResync
    /\ UNCHANGED <<memory, doing, sources, happened>>

\* set_admin_blocked.
SourcesChange ==
    /\ Happens
    /\ blocked' = ~blocked
    /\ UNCHANGED <<memory, account, doing, resync, telegram, listed, past>>

\* remove_session stops the supervisor wherever it waits, remove_session_force
\* closes the client too.  Who still waits for a statement gets it through; what
\* the others learn goes to a Parser_client nobody looks at.
LeavesClump ==
    LET w == doing["supervisor"] IN
    /\ Happens
    /\ listed /\ listed' = FALSE
    /\ memory' \in {Unborn, [Unborn EXCEPT !.client = memory.client]}
    /\ account' \in {account, RowAfter(w.write)}
    /\ doing' = [t \in Workings |-> IF t = "supervisor" \/ doing[t].at # "write" THEN Rest
                                    ELSE [doing[t] EXCEPT !.next = "idle"]]
    /\ past' = past \cup (IF w.at = "write" THEN {"lost"} ELSE {})
                    \cup (IF memory.banned \/ account.status = "banned" THEN {"renewed"} ELSE {})
    /\ UNCHANGED <<resync, telegram, blocked>>

\* add_session: _make_client.
EntersClump ==
    /\ Happens
    /\ ~listed /\ listed' = TRUE
    /\ memory' = [Unborn EXCEPT !.client = memory.client]
    /\ UNCHANGED <<account, doing, resync, telegram, blocked, past>>

\* clear_expired_account_cooldowns, of the monitor and of the scheduler.
CooldownsCleared ==
    /\ account.status = "cooldown"
    /\ account' = CooldownCleared([account EXCEPT !.cooling = FALSE])
    /\ UNCHANGED <<memory, doing, resync, sources, past, happened>>

\* Telegram logs the session out or bans it; a QR login brings it back.
TelegramChanges ==
    /\ Happens
    /\ telegram' \in {"ok", "out", "banned"} \ {telegram}
    /\ UNCHANGED <<memory, account, doing, resync, listed, blocked, past>>

\* The process is restarted: the health of the session is forgotten.
HealthRestart ==
    /\ Happens
    /\ memory' = Unborn
    /\ doing' = [t \in Workings |-> Rest]
    /\ resync' = NoResync
    /\ past' = past \cup {"lost"}
    /\ UNCHANGED <<account, sources>>

HealthNext ==
    \/ GetClient("supervisor", "listen", "raised")
    \/ GetClient("monitor", "idle", "idle")
    \/ GetClient("caller", IF listed THEN "resolve" ELSE "idle", "idle")
    \/ \E t \in Workings : WriteRow(t)
    \/ StartSupervisor \/ StopSupervisor \/ Floods \/ IsBanned \/ IsUnauthorized
    \/ LosesConnection \/ SupervisorGoesOn
    \/ MonitorLooks \/ MonitorObserves \/ CallerAsks \/ CallerResolves \/ Reactivate \/ Probed
    \/ DispatcherReports \/ LeavesClump \/ EntersClump
    \/ ResyncReads \/ ResyncWrites \/ SourcesChange
    \/ CooldownsCleared \/ TelegramChanges \/ HealthRestart

-----------------------------------------------------------------------------
\* A ban in the table outlives every statement of the tasks that learnt of
\* something else at the same time, a late FloodWait, an authorization error or a
\* recovery: only an administrator's block that the resync carries over replaces it.
BannedStaysOut ==
    [][account.status = "banned"
         => account'.status = "banned" \/ (account'.status = "disabled" /\ resync.blocked)]_healthVars

\* Once no statement is under way, memory and table agree on a ban.  What memory
\* knows the table knows, unless a statement was lost or the process restarted; what
\* the table knows memory knows, unless besides those the dispatcher reported the ban
\* to the table alone or the session changed its clump since.
BanAgrees ==
    NothingWritten =>
        /\ memory.banned => account.status = "banned" \/ "lost" \in past
        /\ account.status = "banned"
             => memory.banned \/ past \cap {"lost", "alone", "renewed"} # {}

\* A session of a clump that the process holds for unauthorized gets no task: its
\* account is disabled in the table, once no statement is under way, unless a
\* statement was lost, two of them overtook each other or a FloodWait was written
\* over the error.
ErrorDisables ==
    NothingWritten /\ listed /\ memory.status = "error"
      => ~account.enabled \/ past \cap {"disorder", "lost"} # {}

\* What supervisor, health monitor, callers, dispatcher and resync write of one
\* session, in two places and one after the other, ends in agreement on whether it
\* can be used.
HealthAgrees == BanAgrees /\ ErrorDisables
=============================================================================
