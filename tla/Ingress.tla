------------------------------- MODULE Ingress -------------------------------
(***************************************************************************)
(* What becomes of a Telegram message the listeners hear (discovery_api/    *)
(* parser_functions.py, redis_ingress.py): the handler puts it into a       *)
(* bounded queue, dispatch workers post it to the webhook, which stores it  *)
(* in source_messages once; or the handler publishes it to a Redis stream.  *)
(*                                                                         *)
(* A post or a publication that times out may have been carried out.        *)
(* Every listener of the channel hears the message.                         *)
(***************************************************************************)
EXTENDS Naturals, Sequences, FiniteSets, SequencesExt

CONSTANTS
    Messages,    \* messages, each with a webhook_url
    Hearers,     \* sessions that listen to the channel
    Dispatchers, \* _worker_tasks
    QueueMax,    \* maxsize of _message_queue
    Posts        \* _WEBHOOK_MAX_ATTEMPTS, and TELEGRAM_INGRESS_PUBLISH_ATTEMPTS

ASSUME IngressAssumption ==
    /\ "none" \notin Messages /\ IsFiniteSet(Dispatchers)
    /\ Posts \in Nat \ {0} /\ QueueMax \in Nat

VARIABLES
    redisMode,   \* TELEGRAM_INGRESS_MODE is "redis"
    heard,       \* [Messages -> SUBSET Hearers]
    inbox,       \* Seq(Messages): _message_queue
    dispatcher,  \* [Dispatchers -> Dispatcher]
    publishing,  \* [Messages \X Hearers -> 0 .. Posts]: attempts left of a handler
    kept,        \* source_messages, or the stream
    stats,       \* _stats
    forgotten    \* history: <<message, "dropped" | "failed" | "shutdown">>

ingressVars == <<redisMode, heard, inbox, dispatcher, publishing, kept, stats, forgotten>>

Counted == {"enqueued", "dropped", "delivered", "duplicates", "failed", "webhook_errors", "retried"}
Dispatcher == [msg : Messages \cup {"none"}, attempt : 0 .. Posts]
AtRest == [msg |-> "none", attempt |-> 0]

IngressTypeOK ==
    /\ redisMode \in BOOLEAN
    /\ heard \in [Messages -> SUBSET Hearers]
    /\ inbox \in Seq(Messages) /\ Len(inbox) <= QueueMax
    /\ dispatcher \in [Dispatchers -> Dispatcher]
    /\ publishing \in [Messages \X Hearers -> 0 .. Posts]
    /\ kept \subseteq Messages
    /\ stats \in [Counted -> Nat]

IngressInit ==
    /\ redisMode \in BOOLEAN
    /\ heard = [m \in Messages |-> {}]
    /\ inbox = << >>
    /\ dispatcher = [d \in Dispatchers |-> AtRest]
    /\ publishing = [p \in Messages \X Hearers |-> 0]
    /\ kept = {}
    /\ stats = [c \in Counted |-> 0]
    /\ forgotten = {}

-----------------------------------------------------------------------------
Count(S) == stats' = [c \in Counted |-> stats[c] + (IF c \in S THEN 1 ELSE 0)]
Forgets(m, how) == forgotten' = forgotten \cup {<<m, how>>}

\* Bug: one message more than the queue holds.
HasRoomForOneMore == Len(inbox) <= QueueMax
HasRoom == Len(inbox) < QueueMax

\* handle_new_message: put_nowait, or publish.
Hear(m, l) ==
    /\ l \notin heard[m]
    /\ heard' = [heard EXCEPT ![m] = @ \cup {l}]
    /\ IF redisMode
       THEN /\ publishing' = [publishing EXCEPT ![<<m, l>>] = Posts]
            /\ UNCHANGED <<inbox, stats, forgotten>>
       ELSE /\ IF HasRoom
               THEN inbox' = Append(inbox, m) /\ Count({"enqueued"}) /\ UNCHANGED forgotten
               ELSE UNCHANGED inbox /\ Count({"dropped"}) /\ Forgets(m, "dropped")
            /\ UNCHANGED publishing
    /\ UNCHANGED <<redisMode, dispatcher, kept>>

\* One attempt of publish: xadd is through, or raises or times out after 5 s.
Publish(m, l) ==
    LET left == publishing[<<m, l>>] IN
    /\ left > 0
    /\ \/ /\ kept' = kept \cup {m}
          /\ publishing' = [publishing EXCEPT ![<<m, l>>] = 0]
          /\ Count({"enqueued"})
          /\ UNCHANGED forgotten
       \/ /\ kept' \in {kept, kept \cup {m}}
          /\ publishing' = [publishing EXCEPT ![<<m, l>>] = left - 1]
          /\ IF left = 1 THEN Count({"dropped"}) /\ Forgets(m, "dropped")
                         ELSE UNCHANGED <<stats, forgotten>>
    /\ UNCHANGED <<redisMode, heard, inbox, dispatcher>>

-----------------------------------------------------------------------------
TakeMessage(d) ==
    /\ dispatcher[d] = AtRest /\ inbox # << >>
    /\ dispatcher' = [dispatcher EXCEPT ![d] = [msg |-> Head(inbox), attempt |-> 1]]
    /\ inbox' = Tail(inbox)
    /\ UNCHANGED <<redisMode, heard, publishing, kept, stats, forgotten>>

\* The webhook answers, and refuses what it has already stored.
PostAnswered(d) ==
    LET m == dispatcher[d].msg IN
    /\ m \in Messages
    /\ kept' = kept \cup {m}
    /\ Count({IF m \in kept THEN "duplicates" ELSE "delivered"})
    /\ dispatcher' = [dispatcher EXCEPT ![d] = AtRest]
    /\ UNCHANGED <<redisMode, heard, inbox, publishing, forgotten>>

\* What one failed attempt adds to the counters.
Tally(final) == {"webhook_errors", IF final THEN "failed" ELSE "retried"}

\* Bug: the worker takes the next message instead of posting this one again.
NoRepeat(w) == AtRest
Repeat(w) == [w EXCEPT !.attempt = @ + 1]

\* It answers with an error, or too late; the last attempt gives the message up.
PostFails(d) ==
    LET m == dispatcher[d].msg
        final == dispatcher[d].attempt = Posts
    IN  /\ m \in Messages
        /\ kept' \in {kept, kept \cup {m}}
        /\ Count(Tally(final))
        /\ dispatcher' = [dispatcher EXCEPT ![d] = IF final THEN AtRest ELSE Repeat(@)]
        /\ IF final THEN Forgets(m, "failed") ELSE UNCHANGED forgotten
        /\ UNCHANGED <<redisMode, heard, inbox, publishing>>

\* shutdown_webhook_dispatch, or the process dies: the queue and the posts under
\* way are gone (a post may have arrived), and the counters start again.
Shutdown ==
    /\ kept' \in {kept \cup S : S \in SUBSET ({dispatcher[d].msg : d \in Dispatchers} \cap Messages)}
    /\ forgotten' = forgotten \cup
          (({dispatcher[d].msg : d \in Dispatchers} \cap Messages) \cup ToSet(inbox)
             \cup {m \in Messages : \E l \in Hearers : publishing[<<m, l>>] > 0}) \X {"shutdown"}
    /\ inbox' = << >>
    /\ dispatcher' = [d \in Dispatchers |-> AtRest]
    /\ publishing' = [p \in Messages \X Hearers |-> 0]
    /\ stats' = [c \in Counted |-> 0]
    /\ UNCHANGED <<redisMode, heard>>

IngressNext ==
    \/ \E m \in Messages, l \in Hearers : Hear(m, l) \/ Publish(m, l)
    \/ \E d \in Dispatchers : TakeMessage(d) \/ PostAnswered(d) \/ PostFails(d)
    \/ Shutdown

-----------------------------------------------------------------------------
InFlight == {d \in Dispatchers : dispatcher[d] # AtRest}

\* What GET /parser/status counts adds up: every message enqueued waits, is being
\* posted, or was delivered, refused as a duplicate or given up; and every
\* failed attempt was retried, or was the last one.
IngressAddsUp ==
    /\ ~redisMode =>
         stats["enqueued"] = Len(inbox) + Cardinality(InFlight) + stats["delivered"]
                               + stats["duplicates"] + stats["failed"]
    /\ stats["webhook_errors"] = stats["retried"] + stats["failed"]

\* A message that was heard is stored, or on its way, or was counted as dropped
\* or failed, or died with the process: none is lost while it counts as
\* delivered, though attempts time out that were carried out, and two listeners
\* post the same message.
NoSilentLoss ==
    \A m \in Messages : heard[m] # {} =>
       \/ m \in kept
       \/ m \in ToSet(inbox)
       \/ \E d \in Dispatchers : dispatcher[d].msg = m
       \/ \E l \in Hearers : publishing[<<m, l>>] > 0
       \/ \E how \in {"dropped", "failed", "shutdown"} : <<m, how>> \in forgotten

\* Every message heard is accounted for, in the counters and in fact.
Accounted == IngressAddsUp /\ NoSilentLoss
=============================================================================
