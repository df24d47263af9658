---------------------------- MODULE ClientSessions ----------------------------
(***************************************************************************)
(* The personal session of one client (discovery_api/client_sessions):      *)
(* the QR dialogue that opens it, messages sent under an idempotency key,   *)
(* the listener that posts what one watched peer answers to the webhook,    *)
(* and the revocation.                                                     *)
(*                                                                         *)
(* All of them read the meta file of the account and write it back whole;   *)
(* `snap` is what a call has read before it gave way.  Messages of the chat *)
(* are numbered as Telegram numbers them.                                  *)
(***************************************************************************)
EXTENDS Naturals, Sequences

CONSTANTS
    Senders,     \* calls of send_dm, history and watch
    DmKeys,      \* idempotency keys
    NoKey,
    Kept,        \* keys the meta file keeps (200)
    MaxMessages, \* bound on the messages of the chat
    Page         \* messages a poll reads (20)

\* The holders of the mutex are told apart.
ASSUME ClientSessionsAssumption ==
    /\ Senders \cap {"free", "poll", "revoke"} = {}
    /\ MaxMessages \in Nat /\ Page \in Nat /\ Kept \in Nat \ {0}

VARIABLES
    meta,      \* the meta file
    mutex,     \* the _lock of the account: "free", a sender, "poll" or "revoke"
    chat,      \* Seq({"in", "out"}): the chat in Telegram
    sender,    \* [Senders -> Sender]
    poll,      \* the listener: poll_once
    revoking,  \* a call of revoke
    dialogue,  \* the QR dialogue
    passed,    \* history: messages the webhook took, or PostedOrPassed excepts
    dropped,   \* history: messages the webhook turned down for good
    sent,      \* history: [DmKeys -> 0 .. 2], how often a key was sent, 2 for more,
               \* before Kept keys were added after it
    behind,    \* history: [DmKeys -> 0 .. Kept - 1], keys added since it was sent
    unsure,    \* history: keys SentOnce makes exceptions for
    revoked    \* history: revoked, and not logged in again since

calls == <<sender, poll, revoking, dialogue>>
histories == <<passed, dropped, sent, behind, unsure, revoked>>
clientVars == <<meta, mutex, chat, calls, histories>>

Numbers == 0 .. MaxMessages
KeyLists == {q \in Seq(DmKeys) : Len(q) <= Kept}
Meta == [status : {"pending", "active", "revoked"}, watched : BOOLEAN, begun : BOOLEAN,
         cursor : Numbers, known : KeyLists]
NewMeta == [status |-> "pending", watched |-> FALSE, begun |-> FALSE, cursor |-> 0,
            known |-> << >>]

Sender == [at : {"new", "done", "wait", "sending", "watch", "latest", "advance"},
           key : DmKeys \cup {NoKey}, id : Numbers, snap : Meta]
NewCall == [at |-> "new", key |-> NoKey, id |-> 0, snap |-> NewMeta]
Asleep == [at |-> "idle", left |-> << >>, last |-> 0, snap |-> NewMeta]
Silent == [at |-> "idle", snap |-> NewMeta]

ClientsTypeOK ==
    /\ meta \in Meta
    /\ mutex \in Senders \cup {"free", "poll", "revoke"}
    /\ chat \in Seq({"in", "out"}) /\ Len(chat) <= MaxMessages
    /\ sender \in [Senders -> Sender]
    /\ poll \in [at : {"idle", "listed", "history", "post"}, left : Seq(Numbers),
                 last : Numbers, snap : Meta]
    /\ revoking \in [at : {"idle", "wait", "revoking"}, snap : Meta]
    /\ dialogue \in [at : {"idle", "opening", "open"}, snap : Meta]
    /\ passed \subseteq Numbers /\ dropped \subseteq Numbers
    /\ sent \in [DmKeys -> 0 .. 2] /\ behind \in [DmKeys -> 0 .. Kept - 1]
    /\ unsure \subseteq DmKeys /\ revoked \in BOOLEAN

ClientsInit ==
    /\ meta = NewMeta /\ mutex = "free" /\ chat = << >>
    /\ sender = [s \in Senders |-> NewCall]
    /\ poll = Asleep /\ revoking = Silent /\ dialogue = Silent
    /\ passed = {} /\ dropped = {}
    /\ sent = [k \in DmKeys |-> 0] /\ behind = [k \in DmKeys |-> 0]
    /\ unsure = {} /\ revoked = FALSE

-----------------------------------------------------------------------------
Knows(m, k) == \E i \in 1 .. Len(m.known) : m.known[i] = k

\* remember_idempotency: a key that is there keeps its place, beyond Kept the
\* oldest goes.
LastOf(q) == SubSeq(q, Len(q) - Kept + 1, Len(q))
Kepts(q) == IF Len(q) > Kept THEN LastOf(q) ELSE q
Remember(m, k) == IF Knows(m, k) THEN m ELSE [m EXCEPT !.known = Kepts(Append(@, k))]

\* FileSessionStore.save; a login that ends excuses the keys sent so far and
\* those being sent.
SaveMeta(m) ==
    /\ meta' = m
    /\ unsure' = IF m.status = "active" THEN unsure
                 ELSE unsure \cup {k \in DmKeys : sent[k] > 0}
                             \cup {sender[s].key : s \in {t \in Senders : sender[t].at = "sending"}}

\* The histories when k, sent n times, is remembered in m: a key is counted afresh
\* once Kept others were added after it.
Outdone(m, k) == {j \in DmKeys \ {k} : ~Knows(m, k) /\ sent[j] > 0 /\ behind[j] + 1 = Kept}
Followed(m, k) == {j \in DmKeys \ {k} : ~Knows(m, k) /\ sent[j] > 0 /\ behind[j] + 1 < Kept}
Ages(m, k, n) ==
    /\ sent' = [j \in DmKeys |-> IF j \in Outdone(m, k) THEN 0 ELSE IF j = k THEN n ELSE sent[j]]
    /\ behind' = [j \in DmKeys |-> IF j \in Outdone(m, k) \cup {k} THEN 0
                                  ELSE IF j \in Followed(m, k) THEN behind[j] + 1 ELSE behind[j]]

Goes(s, at) == sender' = [sender EXCEPT ![s].at = at]
Returns(s) == sender' = [sender EXCEPT ![s] = [NewCall EXCEPT !.at = "done"]]

\* A message is written in the chat by the peer.
Answered ==
    /\ Len(chat) < MaxMessages
    /\ chat' = Append(chat, "in")
    /\ UNCHANGED <<meta, mutex, calls, histories>>

\* send_dm up to the lock: a key that is known is answered from the file.
CallSend(s, k) ==
    /\ sender[s] = NewCall /\ ~Knows(meta, k) /\ meta.status = "active"
    /\ sender' = [sender EXCEPT ![s] = [at |-> "wait", key |-> k, id |-> 0, snap |-> meta]]
    /\ UNCHANGED <<meta, mutex, chat, poll, revoking, dialogue, histories>>

\* Bug: the key is not looked up again under the lock.
UnknownToCall(s) == FALSE
KnownByNow(s) == Knows(meta, sender[s].key)

LockSend(s) ==
    /\ sender[s].at = "wait" /\ mutex = "free"
    /\ IF KnownByNow(s) THEN Returns(s) /\ UNCHANGED mutex
                     ELSE Goes(s, "sending") /\ mutex' = s
    /\ UNCHANGED <<meta, chat, poll, revoking, dialogue, histories>>

OnceMore(k) == IF sent[k] = 2 THEN 2 ELSE sent[k] + 1

Sent(s) ==
    LET key == sender[s].key IN
    /\ sender[s].at = "sending" /\ Len(chat) < MaxMessages
    /\ chat' = Append(chat, "out")
    /\ meta' = Remember(meta, key) /\ Ages(meta, key, OnceMore(key))
    /\ mutex' = "free"
    /\ sender' = [sender EXCEPT ![s] = [NewCall EXCEPT !.at = "watch", !.id = Len(chat) + 1]]
    /\ UNCHANGED <<poll, revoking, dialogue, passed, dropped, unsure, revoked>>

\* A ClientSessionError: the failure is remembered under the key.  A revoked
\* session is saved as such first, in the meta read before the lock.
SendRefused(s) ==
    LET key == sender[s].key
        over == [sender[s].snap EXCEPT !.status = "revoked"]
    IN
    /\ sender[s].at = "sending"
    /\ \/ /\ SaveMeta(Remember(over, key)) /\ Ages(over, key, sent[key])
          /\ revoked' = TRUE
       \/ /\ meta' = Remember(meta, key) /\ Ages(meta, key, sent[key])
          /\ UNCHANGED <<unsure, revoked>>
    /\ mutex' = "free"
    /\ Returns(s)
    /\ UNCHANGED <<chat, poll, revoking, dialogue, passed, dropped>>

\* Another exception (a connection that breaks, a time limit), after the message
\* was sent or before: nothing is remembered.
SendRaises(s) ==
    /\ sender[s].at = "sending"
    /\ \/ UNCHANGED <<chat, sent, behind>>
       \/ /\ Len(chat) < MaxMessages /\ chat' = Append(chat, "out")
          /\ sent' = [sent EXCEPT ![sender[s].key] = OnceMore(sender[s].key)]
          /\ behind' = [behind EXCEPT ![sender[s].key] = 0]
    /\ unsure' = unsure \cup {sender[s].key}
    /\ mutex' = "free"
    /\ Returns(s)
    /\ UNCHANGED <<meta, poll, revoking, dialogue, passed, dropped, revoked>>

-----------------------------------------------------------------------------
\* watch called by itself or at the end of history.
CallWatch(s) ==
    /\ sender[s] = NewCall
    /\ Goes(s, "watch")
    /\ UNCHANGED <<meta, mutex, chat, poll, revoking, dialogue, histories>>

LockWatch(s) ==
    /\ sender[s].at = "watch" /\ mutex = "free"
    /\ CASE meta.status # "active" -> Returns(s) /\ UNCHANGED <<meta, mutex>>
         [] meta.status = "active" /\ meta.begun ->
              meta' = [meta EXCEPT !.watched = TRUE] /\ Goes(s, "advance") /\ UNCHANGED mutex
         [] OTHER ->
              /\ sender' = [sender EXCEPT ![s].at = "latest", ![s].snap = meta]
              /\ mutex' = s
              /\ UNCHANGED meta
    /\ UNCHANGED <<chat, poll, revoking, dialogue, histories>>

\* The cursor starts at the last message of the chat, or at 0 if that fails.
WatchLatest(s) ==
    /\ sender[s].at = "latest"
    /\ \E c \in {0, Len(chat)} :
         /\ SaveMeta([sender[s].snap EXCEPT !.watched = TRUE, !.begun = TRUE, !.cursor = c])
         /\ passed' = passed \cup 1 .. c
    /\ mutex' = "free"
    /\ sender' = [sender EXCEPT ![s].at = "advance", ![s].snap = NewMeta]
    /\ UNCHANGED <<chat, poll, revoking, dialogue, dropped, sent, behind, revoked>>

\* _advance_cursor: past the message just sent, whatever lies before it.
AdvanceCursor(s) ==
    /\ sender[s].at = "advance" /\ mutex = "free"
    /\ IF sender[s].id > meta.cursor
       THEN meta' = [meta EXCEPT !.cursor = sender[s].id] /\ passed' = passed \cup 1 .. sender[s].id
       ELSE UNCHANGED <<meta, passed>>
    /\ Returns(s)
    /\ UNCHANGED <<mutex, chat, poll, revoking, dialogue, dropped, sent, behind, unsure, revoked>>

-----------------------------------------------------------------------------
\* poll_once: list_watched is read without the lock.
PollLists ==
    /\ poll.at = "idle" /\ meta.status = "active" /\ meta.watched
    /\ poll' = [Asleep EXCEPT !.at = "listed"]
    /\ UNCHANGED <<meta, mutex, chat, sender, revoking, dialogue, histories>>

LockPoll ==
    /\ poll.at = "listed" /\ mutex = "free"
    /\ IF meta.watched
       THEN /\ poll' = [poll EXCEPT !.at = "history", !.last = meta.cursor, !.snap = meta]
            /\ mutex' = "poll"
       ELSE poll' = Asleep /\ UNCHANGED mutex
    /\ UNCHANGED <<meta, chat, sender, revoking, dialogue, histories>>

\* The last Page messages after the cursor, in order; those between are never read.
Oldest == IF Len(chat) > poll.last + Page THEN Len(chat) - Page ELSE poll.last

PollReads ==
    /\ poll.at = "history"
    /\ poll' = [poll EXCEPT !.at = "post", !.left = [i \in 1 .. (Len(chat) - Oldest) |-> Oldest + i]]
    /\ passed' = IF Len(chat) > Oldest THEN passed \cup (poll.last + 1) .. Oldest ELSE passed
    /\ UNCHANGED <<meta, mutex, chat, sender, revoking, dialogue, dropped, sent, behind,
                   unsure, revoked>>

PollNext(n) == poll' = [poll EXCEPT !.left = Tail(@), !.last = n]

\* A message of our own is skipped; any answer below 500 but 401 counts as delivered:
\* 2xx, and as much a message that is turned down (4xx, or 204 as there is no URL).
PollPosts ==
    LET n == Head(poll.left) IN
    /\ poll.at = "post" /\ poll.left # << >>
    /\ \/ chat[n] = "out" /\ UNCHANGED <<passed, dropped>>
       \/ chat[n] = "in" /\ passed' = passed \cup {n} /\ UNCHANGED dropped
       \/ chat[n] = "in" /\ dropped' = dropped \cup {n} /\ UNCHANGED passed
    /\ PollNext(n)
    /\ UNCHANGED <<meta, mutex, chat, sender, revoking, dialogue, sent, behind, unsure, revoked>>

\* Bug: a message the webhook cannot take now is skipped.
SkipsIt(p) == [p EXCEPT !.left = Tail(@), !.last = Head(p.left)]
StopsAtIt(p) == [p EXCEPT !.left = << >>]

\* The webhook answers 5xx or 401: this message and those after it wait.
PollRefused ==
    /\ poll.at = "post" /\ poll.left # << >> /\ chat[Head(poll.left)] = "in"
    /\ poll' = StopsAtIt(poll)
    /\ UNCHANGED <<meta, mutex, chat, sender, revoking, dialogue, histories>>

\* The page is through, or the history could not be read: all of the meta that was
\* read under the lock is saved.
PollSaves ==
    /\ \/ poll.at = "post" /\ poll.left = << >>
       \/ poll.at = "history"
    /\ SaveMeta([poll.snap EXCEPT !.cursor = poll.last])
    /\ mutex' = "free" /\ poll' = Asleep
    /\ UNCHANGED <<chat, sender, revoking, dialogue, passed, dropped, sent, behind, revoked>>

\* The webhook cannot be reached, or another exception: nothing is saved.
PollRaises ==
    /\ poll.at \in {"history", "post"}
    /\ mutex' = "free" /\ poll' = Asleep
    /\ UNCHANGED <<meta, chat, sender, revoking, dialogue, histories>>

-----------------------------------------------------------------------------
\* revoke reads the meta before it waits for the lock.
CallRevoke ==
    /\ revoking.at = "idle"
    /\ revoking' = [at |-> "wait", snap |-> [meta EXCEPT !.status = "revoked", !.watched = FALSE]]
    /\ UNCHANGED <<meta, mutex, chat, sender, poll, dialogue, histories>>

\* Bug: the revocation does not wait for the lock.
RevokesAnyway == TRUE
RevokeEnters == mutex = "free"

LockRevoke ==
    /\ revoking.at = "wait" /\ RevokeEnters
    /\ mutex' = "revoke"
    /\ revoking' = [revoking EXCEPT !.at = "revoking"]
    /\ UNCHANGED <<meta, chat, sender, poll, dialogue, histories>>

Revoke ==
    /\ revoking.at = "revoking"
    /\ SaveMeta(revoking.snap)
    /\ mutex' = "free" /\ revoked' = TRUE
    /\ revoking' = Silent
    /\ UNCHANGED <<chat, sender, poll, dialogue, passed, dropped, sent, behind>>

\* open_qr, which takes no lock: before begin_qr and after it.
OpenQr ==
    /\ dialogue.at = "idle"
    /\ dialogue' = [at |-> "opening", snap |-> [meta EXCEPT !.status = "pending"]]
    /\ UNCHANGED <<meta, mutex, chat, sender, poll, revoking, histories>>

QrOpened ==
    /\ dialogue.at = "opening"
    /\ \/ /\ SaveMeta(dialogue.snap)
          /\ dialogue' = [Silent EXCEPT !.at = "open"]
       \/ UNCHANGED <<meta, unsure>> /\ dialogue' = Silent
    /\ UNCHANGED <<mutex, chat, sender, poll, revoking, passed, dropped, sent, behind, revoked>>

\* _activate, from await_qr, or from submit_password if await_qr asked for it.
Activate ==
    /\ dialogue.at = "open"
    /\ dialogue' = Silent
    /\ meta' = [meta EXCEPT !.status = "active"]
    /\ revoked' = FALSE
    /\ UNCHANGED <<mutex, chat, sender, poll, revoking, passed, dropped, sent, behind, unsure>>

\* The code expires, an error, or cancel_qr.
QrOver ==
    /\ dialogue.at = "open"
    /\ dialogue' = Silent
    /\ UNCHANGED <<meta, mutex, chat, sender, poll, revoking, histories>>

ClientsCrash ==
    /\ mutex' = "free"
    /\ sender' = [s \in Senders |-> IF sender[s] = NewCall THEN NewCall
                                   ELSE [NewCall EXCEPT !.at = "done"]]
    /\ poll' = Asleep /\ revoking' = Silent /\ dialogue' = Silent
    /\ UNCHANGED <<meta, chat, histories>>

ClientsNext ==
    \/ Answered
    \/ \E s \in Senders : \/ \E k \in DmKeys : CallSend(s, k)
                          \/ LockSend(s) \/ Sent(s) \/ SendRefused(s) \/ SendRaises(s)
                          \/ CallWatch(s) \/ LockWatch(s) \/ WatchLatest(s) \/ AdvanceCursor(s)
    \/ PollLists \/ LockPoll \/ PollReads \/ PollPosts \/ PollRefused \/ PollSaves \/ PollRaises
    \/ CallRevoke \/ LockRevoke \/ Revoke
    \/ OpenQr \/ QrOpened \/ Activate \/ QrOver
    \/ ClientsCrash

-----------------------------------------------------------------------------
\* While the client stays logged in, a message is sent once for a key, however
\* often and however concurrently it is asked for, unless an attempt of that key
\* ended in an exception nobody can tell the outcome of, or Kept other keys were
\* added to the file after it, which is when it is forgotten.
SentOnce == \A k \in DmKeys : sent[k] > 1 => k \in unsure

\* The cursor passes no message of the peer without an answer of the webhook that
\* it was taken or turned down for good (such a message is lost), except what was
\* there when the watch began, what lies before a message just sent
\* (_advance_cursor), and what a poll did not read because more than a page came.
PostedOrPassed ==
    \A n \in 1 .. meta.cursor : chat[n] = "in" => n \in passed \cup dropped

\* A revoked client is not active again without a new QR login, although five
\* calls write the meta they read earlier.
RevokedUntilLogin == meta.status = "active" => ~revoked
=============================================================================
