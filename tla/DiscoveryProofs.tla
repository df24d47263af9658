---------------------------- MODULE DiscoveryProofs ----------------------------
(***************************************************************************)
(* Theorems about the components of the discovery API and the detector of   *)
(* recurring errors, each about the specification of the component by       *)
(* itself.  ServicesAreTheirs carries them over to DiscoverySpec.            *)
(***************************************************************************)
EXTENDS MCDiscovery, FiniteSetTheorems, TLAPS

-----------------------------------------------------------------------------
\* Client sessions.

ClientsSpec == ClientsInit /\ [][ClientsNext]_clientVars

MetaOK == meta \in Meta
SendersOK ==
    /\ sender \in [Senders -> Sender]
    /\ \A s \in Senders : sender[s].at \in {"wait", "sending"} => sender[s].key \in DmKeys
Listener == [at : {"idle", "listed", "history", "post"}, left : Seq(Numbers),
             last : Numbers, snap : Meta]
PollOK == poll \in Listener
RevokingOK == revoking \in [at : {"idle", "wait", "revoking"}, snap : Meta]
DialogueOK == dialogue \in [at : {"idle", "opening", "open"}, snap : Meta]
ChatOK == chat \in Seq({"in", "out"}) /\ Len(chat) <= MaxMessages
SentOK == /\ sent \in [DmKeys -> 0 .. 2] /\ behind \in [DmKeys -> 0 .. Kept - 1]
          /\ unsure \subseteq DmKeys
PassedOK == passed \subseteq Numbers /\ dropped \subseteq Numbers

Typed == MetaOK /\ SendersOK /\ PollOK /\ RevokingOK /\ DialogueOK /\ ChatOK /\ SentOK /\ PassedOK

LEMMA NewMetaIsMeta == NewMeta \in Meta /\ 0 \in Numbers
  <1>1. << >> \in KeyLists
    BY ClientSessionsAssumption DEF KeyLists
  <1>2. QED
    BY <1>1, ClientSessionsAssumption DEF NewMeta, Meta, Numbers

\* k is in q, with at most b keys after it.
Stands(q, k, b) == \E i \in 1 .. Len(q) : q[i] = k /\ Len(q) - i <= b

\* A key added to the list is the last, and no other goes that has fewer than Kept
\* after it.
LEMMA KeptsKeeps ==
    ASSUME NEW q \in KeyLists, NEW k \in DmKeys
    PROVE  /\ Kepts(Append(q, k)) \in KeyLists
           /\ \A b \in Nat : Stands(Kepts(Append(q, k)), k, b)
           /\ \A j \in DmKeys, b \in Nat :
                 Stands(q, j, b) /\ b + 1 < Kept => Stands(Kepts(Append(q, k)), j, b + 1)
  <1> PICK n \in Nat : n = Len(q)
    BY DEF KeyLists
  <1> PICK l : l = Append(q, k)
    OBVIOUS
  <1>1. /\ l \in Seq(DmKeys) /\ Len(l) = n + 1 /\ l[n + 1] = k /\ n <= Kept
        /\ \A i \in 1 .. n : l[i] = q[i]
    BY DEF KeyLists
  <1>2. CASE n < Kept
    <2>1. Kepts(l) = l
      BY <1>1, <1>2, ClientSessionsAssumption DEF Kepts
    <2>2. l \in KeyLists
      BY <1>1, <1>2, ClientSessionsAssumption DEF KeyLists
    <2>3. ASSUME NEW b \in Nat PROVE Stands(l, k, b)
      BY <1>1 DEF Stands
    <2>4. ASSUME NEW j \in DmKeys, NEW b \in Nat, Stands(q, j, b), b + 1 < Kept PROVE Stands(l, j, b + 1)
      <3>1. PICK i \in 1 .. n : q[i] = j /\ n - i <= b
        BY <2>4 DEF Stands
      <3>2. QED
        BY <1>1, <2>4, <3>1 DEF Stands
    <2>5. QED
      BY <2>1, <2>2, <2>3, <2>4
  <1>3. CASE n = Kept
    <2>1. PICK z : z = SubSeq(l, 2, n + 1)
      OBVIOUS
    <2>2. Kepts(l) = z
      BY <1>1, <1>3, <2>1, ClientSessionsAssumption DEF Kepts, LastOf
    <2>3. z \in Seq(DmKeys) /\ Len(z) = n /\ \A i \in 1 .. n : z[i] = l[i + 1]
      BY <1>1, <1>3, <2>1, ClientSessionsAssumption
    <2>4. z \in KeyLists
      BY <1>3, <2>3 DEF KeyLists
    <2>5. ASSUME NEW b \in Nat PROVE Stands(z, k, b)
      BY <1>1, <1>3, <2>3, ClientSessionsAssumption DEF Stands
    <2>6. ASSUME NEW j \in DmKeys, NEW b \in Nat, Stands(q, j, b), b + 1 < Kept PROVE Stands(z, j, b + 1)
      <3>1. PICK i \in 1 .. n : q[i] = j /\ n - i <= b
        BY <2>6 DEF Stands
      <3>2. i - 1 \in 1 .. n /\ z[i - 1] = j
        BY <1>1, <1>3, <2>3, <2>6, <3>1, ClientSessionsAssumption
      <3>3. QED
        BY <2>3, <3>1, <3>2 DEF Stands
    <2>7. QED
      BY <2>2, <2>4, <2>5, <2>6
  <1>4. QED
    BY <1>1, <1>2, <1>3, ClientSessionsAssumption

LEMMA RememberTyped ==
    ASSUME NEW m \in Meta, NEW k \in DmKeys
    PROVE  /\ Remember(m, k) \in Meta
           /\ Remember(m, k).status = m.status /\ Remember(m, k).cursor = m.cursor
           /\ Knows(m, k) => Remember(m, k).known = m.known
           /\ ~Knows(m, k) => Remember(m, k).known = Kepts(Append(m.known, k))
  <1>1. Kepts(Append(m.known, k)) \in KeyLists
    BY KeptsKeeps DEF Meta
  <1>2. CASE Knows(m, k)
    BY <1>2 DEF Remember
  <1>3. CASE ~Knows(m, k)
    BY <1>1, <1>3 DEF Remember, Meta
  <1>4. QED
    BY <1>2, <1>3

LEMMA AgesTyped ==
    ASSUME SentOK, NEW m \in Meta, NEW k \in DmKeys, NEW n \in 0 .. 2, Ages(m, k, n)
    PROVE  /\ sent' \in [DmKeys -> 0 .. 2] /\ behind' \in [DmKeys -> 0 .. Kept - 1]
  BY ClientSessionsAssumption DEF SentOK, Ages, Followed

LEMMA AsleepTyped == Asleep \in Listener /\ [Asleep EXCEPT !.at = "listed"] \in Listener
  <1>1. << >> \in Seq(Numbers)
    OBVIOUS
  <1>2. QED
    BY <1>1, NewMetaIsMeta DEF Asleep, Listener

LEMMA TypedStep ==
    ASSUME Typed, [ClientsNext]_clientVars
    PROVE  Typed'
  <1> USE NewMetaIsMeta, ClientSessionsAssumption DEF Typed
  <1>1. CASE UNCHANGED clientVars
    BY <1>1 DEF clientVars, calls, histories, MetaOK, SendersOK, PollOK, RevokingOK, DialogueOK, ChatOK, SentOK, PassedOK
  <1>2. ASSUME NEW s \in Senders, NEW k \in DmKeys, CallSend(s, k) PROVE Typed'
    <2>1. SendersOK'
      BY <1>2 DEF CallSend, MetaOK, SendersOK, Sender, NewCall
    <2>2. QED
      BY <1>2, <2>1 DEF CallSend, calls, histories, MetaOK, PollOK, RevokingOK, DialogueOK, ChatOK, SentOK, PassedOK
  <1>3. ASSUME NEW s \in Senders, LockSend(s) PROVE Typed'
    <2>1. SendersOK'
      BY <1>3 DEF LockSend, KnownByNow, Returns, Goes, ChatOK, MetaOK, SendersOK, Sender, NewCall
    <2>2. QED
      BY <1>3, <2>1 DEF LockSend, KnownByNow, Returns, Goes, calls, histories, MetaOK, PollOK, RevokingOK, DialogueOK, ChatOK, SentOK, PassedOK
  <1>4. ASSUME NEW s \in Senders, Sent(s) PROVE Typed'
    <2> DEFINE key == sender[s].key
    <2>0. key \in DmKeys /\ meta \in Meta /\ OnceMore(key) \in 0 .. 2
      BY <1>4 DEF Sent, SendersOK, MetaOK, SentOK, OnceMore
    <2>1. MetaOK'
      BY <1>4, <2>0, RememberTyped DEF Sent, MetaOK
    <2>2. SendersOK'
      <3>1. Len(chat) + 1 \in Numbers
        BY <1>4 DEF Sent, ChatOK, Numbers
      <3>2. [NewCall EXCEPT !.at = "watch", !.id = Len(chat) + 1] \in Sender
        BY <3>1 DEF NewCall, Sender
      <3>3. [NewCall EXCEPT !.at = "watch", !.id = Len(chat) + 1].at = "watch"
        BY DEF NewCall
      <3>4. QED
        BY <1>4, <3>2, <3>3 DEF Sent, SendersOK
    <2>3. SentOK'
      <3>1. Ages(meta, key, OnceMore(key)) /\ UNCHANGED unsure
        BY <1>4 DEF Sent
      <3>2. QED
        BY <2>0, <3>1, AgesTyped DEF SentOK
    <2>4. ChatOK'
      BY <1>4 DEF Sent, ChatOK
    <2>5. QED
      BY <1>4, <2>1, <2>2, <2>3, <2>4 DEF Sent, calls, histories, PollOK, RevokingOK, DialogueOK, PassedOK
  <1>5. ASSUME NEW s \in Senders, SendRefused(s) PROVE Typed'
    <2> DEFINE key == sender[s].key
               over == [sender[s].snap EXCEPT !.status = "revoked"]
    <2>0. /\ key \in DmKeys /\ meta \in Meta /\ over \in Meta
          /\ sent[key] \in 0 .. 2 /\ UNCHANGED <<poll, revoking, dialogue, chat, passed, dropped>>
      BY <1>5 DEF SendRefused, SendersOK, MetaOK, SentOK, Sender, Meta
    <2>1. PICK m \in {meta, over} : meta' = Remember(m, key) /\ Ages(m, key, sent[key])
      BY <1>5, Zenon DEF SendRefused, SaveMeta
    <2>2. MetaOK'
      BY <2>0, <2>1, RememberTyped DEF MetaOK
    <2>3. unsure' \subseteq DmKeys
      <3>1. /\ \/ unsure' = unsure
               \/ unsure' = unsure \cup {k \in DmKeys : sent[k] > 0}
                    \cup {sender[t].key : t \in {u \in Senders : sender[u].at = "sending"}}
        BY <1>5 DEF SendRefused, SaveMeta
      <3>2. QED
        BY <3>1 DEF SentOK, SendersOK
    <2>4. SentOK'
      BY <2>0, <2>1, <2>3, AgesTyped DEF SentOK
    <2>5. SendersOK'
      BY <1>5 DEF SendRefused, Returns, SendersOK, Sender, NewCall
    <2>6. QED
      BY <2>0, <2>2, <2>4, <2>5 DEF PollOK, RevokingOK, DialogueOK, ChatOK, PassedOK
  <1>6. ASSUME NEW s \in Senders, SendRaises(s) PROVE Typed'
    <2>1. SendersOK'
      BY <1>6 DEF SendRaises, Returns, SendersOK, Sender, NewCall
    <2>2. ChatOK'
      BY <1>6 DEF SendRaises, ChatOK
    <2>3. SentOK'
      <3>1. sender[s].key \in DmKeys /\ OnceMore(sender[s].key) \in 0 .. 2
        BY <1>6 DEF SendRaises, SendersOK, SentOK, OnceMore
      <3>2. QED
        BY <1>6, <3>1 DEF SendRaises, SentOK
    <2>4. QED
      BY <1>6, <2>1, <2>2, <2>3 DEF SendRaises, Returns, calls, histories, MetaOK, PollOK, RevokingOK, DialogueOK, PassedOK
  <1>7. ASSUME NEW s \in Senders, CallWatch(s) PROVE Typed'
    <2>1. SendersOK'
      BY <1>7 DEF CallWatch, Goes, ChatOK, MetaOK, SendersOK, Sender, NewCall
    <2>2. QED
      BY <1>7, <2>1 DEF CallWatch, Goes, calls, histories, MetaOK, PollOK, RevokingOK, DialogueOK, ChatOK, SentOK, PassedOK
  <1>8. ASSUME NEW s \in Senders, LockWatch(s) PROVE Typed'
    <2>1. MetaOK'
      BY <1>8 DEF LockWatch, Returns, Goes, MetaOK, SendersOK, Meta
    <2>2. SendersOK'
      BY <1>8 DEF LockWatch, Returns, Goes, ChatOK, MetaOK, SendersOK, Sender, NewCall
    <2>3. QED
      BY <1>8, <2>1, <2>2 DEF LockWatch, Returns, Goes, calls, histories, PollOK, RevokingOK, DialogueOK, ChatOK, SentOK, PassedOK
  <1>9. ASSUME NEW s \in Senders, WatchLatest(s) PROVE Typed'
    <2>1. MetaOK'
      <3>1. sender[s].snap \in Meta /\ {0, Len(chat)} \subseteq Numbers
        BY DEF SendersOK, Sender, ChatOK, Numbers
      <3>2. PICK c \in Numbers : meta' = [sender[s].snap EXCEPT !.watched = TRUE, !.begun = TRUE, !.cursor = c]
        BY <1>9, <3>1 DEF WatchLatest, SaveMeta
      <3>3. QED
        BY <3>1, <3>2 DEF MetaOK, Meta
    <2>2. SendersOK'
      BY <1>9 DEF WatchLatest, SaveMeta, ChatOK, MetaOK, PassedOK, SendersOK, Sender, NewCall
    <2>3. PassedOK'
      BY <1>9 DEF WatchLatest, SaveMeta, ChatOK, MetaOK, PassedOK, SendersOK, Numbers
    <2>4. SentOK'
      <3>1. PICK m : SaveMeta(m)
        BY <1>9, Zenon DEF WatchLatest
      <3>2. \/ unsure' = unsure
            \/ unsure' = unsure \cup {k \in DmKeys : sent[k] > 0}
                 \cup {sender[t].key : t \in {u \in Senders : sender[u].at = "sending"}}
        BY <3>1 DEF SaveMeta
      <3>3. UNCHANGED <<sent, behind>>
        BY <1>9 DEF WatchLatest
      <3>4. QED
        BY <3>2, <3>3 DEF SentOK, SendersOK
    <2>5. QED
      BY <1>9, <2>1, <2>2, <2>3, <2>4 DEF WatchLatest, calls, PollOK, RevokingOK, DialogueOK, ChatOK
  <1>10. ASSUME NEW s \in Senders, AdvanceCursor(s) PROVE Typed'
    <2>1. MetaOK'
      BY <1>10 DEF AdvanceCursor, MetaOK, SendersOK, Sender, Meta
    <2>2. SendersOK'
      BY <1>10 DEF AdvanceCursor, Returns, ChatOK, MetaOK, PassedOK, SendersOK, Sender, NewCall
    <2>3. PassedOK'
      BY <1>10 DEF AdvanceCursor, PassedOK, SendersOK, Sender, Numbers
    <2>4. QED
      BY <1>10, <2>1, <2>2, <2>3 DEF AdvanceCursor, Returns, calls, histories, PollOK, RevokingOK, DialogueOK, ChatOK, SentOK
  <1>11. CASE Answered
    <2>1. ChatOK'
      BY <1>11 DEF Answered, ChatOK, MetaOK
    <2>2. QED
      BY <1>11, <2>1 DEF Answered, calls, histories, MetaOK, SendersOK, PollOK, RevokingOK, DialogueOK, SentOK, PassedOK
  <1>12. CASE PollLists
    <2>1. PollOK'
      BY <1>12, AsleepTyped DEF PollLists, PollOK
    <2>2. QED
      BY <1>12, <2>1 DEF PollLists, calls, histories, MetaOK, SendersOK, RevokingOK, DialogueOK, ChatOK, SentOK, PassedOK
  <1>13. CASE LockPoll
    <2>1. PollOK'
      <3>1. CASE poll' = Asleep
        BY <3>1, AsleepTyped DEF PollOK
      <3>2. CASE poll' = [poll EXCEPT !.at = "history", !.last = meta.cursor, !.snap = meta]
        BY <3>2 DEF PollOK, Listener, MetaOK, Meta
      <3>3. QED
        BY <1>13, <3>1, <3>2 DEF LockPoll
    <2>2. QED
      BY <1>13, <2>1 DEF LockPoll, calls, histories, MetaOK, SendersOK, RevokingOK, DialogueOK, ChatOK, SentOK, PassedOK
  <1>14. CASE PollReads
    <2>1. PollOK'
      <3>1. Oldest \in Nat /\ Oldest + (Len(chat) - Oldest) = Len(chat)
        BY DEF Oldest, PollOK, Listener, Numbers, ChatOK
      <3> DEFINE page == [i \in 1 .. (Len(chat) - Oldest) |-> Oldest + i]
      <3>2. page \in Seq(Numbers)
        BY <3>1 DEF ChatOK, Numbers
      <3>3. poll' = [poll EXCEPT !.at = "post", !.left = page]
        BY <1>14 DEF PollReads
      <3> HIDE DEF page
      <3>4. QED
        BY <3>2, <3>3 DEF PollOK, Listener
    <2>2. PassedOK'
      <3>1. poll.last \in Nat /\ Oldest \in Nat
            /\ (Len(chat) > Oldest => Oldest \in Numbers)
        BY DEF Oldest, PollOK, Listener, Numbers, ChatOK
      <3>2. QED
        BY <1>14, <3>1 DEF PollReads, PassedOK, Numbers
    <2>3. QED
      BY <1>14, <2>1, <2>2 DEF PollReads, Oldest, calls, histories, MetaOK, SendersOK, RevokingOK, DialogueOK, ChatOK, SentOK
  <1>15. CASE PollPosts
    <2>1. PollOK'
      <3>1. Head(poll.left) \in Numbers /\ Tail(poll.left) \in Seq(Numbers)
        BY <1>15 DEF PollPosts, PollOK, Listener
      <3>2. QED
        BY <1>15, <3>1 DEF PollPosts, PollNext, PollOK, Listener
    <2>2. PassedOK'
      <3>1. Head(poll.left) \in Numbers
        BY <1>15 DEF PollPosts, PollOK, Listener
      <3>2. QED
        BY <1>15, <3>1 DEF PollPosts, PassedOK
    <2>3. QED
      BY <1>15, <2>1, <2>2 DEF PollPosts, PollNext, calls, histories, MetaOK, SendersOK, RevokingOK, DialogueOK, ChatOK, SentOK
  <1>16. CASE PollRefused
    <2>1. PollOK'
      <3>1. << >> \in Seq(Numbers)
        OBVIOUS
      <3>2. QED
        BY <1>16, <3>1 DEF PollRefused, StopsAtIt, PollOK, Listener
    <2>2. QED
      BY <1>16, <2>1 DEF PollRefused, StopsAtIt, calls, histories, MetaOK, SendersOK, RevokingOK, DialogueOK, ChatOK, SentOK, PassedOK
  <1>17. CASE PollSaves
    <2>1. PollOK'
      BY <1>17 DEF PollSaves, SaveMeta, MetaOK, PollOK, Listener, Asleep
    <2>2. MetaOK'
      BY <1>17 DEF PollSaves, SaveMeta, MetaOK, PollOK, Listener, Meta
    <2>3. QED
      BY <1>17, <2>1, <2>2 DEF PollSaves, SaveMeta, calls, histories, SendersOK, RevokingOK, DialogueOK, ChatOK, SentOK, PassedOK
  <1>18. CASE PollRaises
    <2>1. PollOK'
      BY <1>18 DEF PollRaises, MetaOK, PollOK, Listener, Asleep
    <2>2. QED
      BY <1>18, <2>1 DEF PollRaises, calls, histories, MetaOK, SendersOK, RevokingOK, DialogueOK, ChatOK, SentOK, PassedOK
  <1>19. CASE CallRevoke
    <2>1. RevokingOK'
      <3>1. [meta EXCEPT !.status = "revoked", !.watched = FALSE] \in Meta
        BY DEF MetaOK, Meta
      <3>2. QED
        BY <1>19, <3>1 DEF CallRevoke, RevokingOK
    <2>2. QED
      BY <1>19, <2>1 DEF CallRevoke, calls, histories, MetaOK, SendersOK, PollOK, DialogueOK, ChatOK, SentOK, PassedOK
  <1>20. CASE LockRevoke
    <2>1. RevokingOK'
      BY <1>20 DEF LockRevoke, RevokeEnters, MetaOK, RevokingOK, Silent
    <2>2. QED
      BY <1>20, <2>1 DEF LockRevoke, RevokeEnters, calls, histories, MetaOK, SendersOK, PollOK, DialogueOK, ChatOK, SentOK, PassedOK
  <1>21. CASE Revoke
    <2>1. RevokingOK'
      BY <1>21 DEF Revoke, SaveMeta, MetaOK, RevokingOK, Silent
    <2>2. MetaOK'
      BY <1>21 DEF Revoke, SaveMeta, MetaOK, RevokingOK, Meta
    <2>3. QED
      BY <1>21, <2>1, <2>2 DEF Revoke, SaveMeta, calls, histories, SendersOK, PollOK, DialogueOK, ChatOK, SentOK, PassedOK
  <1>22. CASE OpenQr
    <2>1. DialogueOK'
      <3>1. [meta EXCEPT !.status = "pending"] \in Meta
        BY DEF MetaOK, Meta
      <3>2. QED
        BY <1>22, <3>1 DEF OpenQr, DialogueOK
    <2>2. QED
      BY <1>22, <2>1 DEF OpenQr, calls, histories, MetaOK, SendersOK, PollOK, RevokingOK, ChatOK, SentOK, PassedOK
  <1>23. CASE QrOpened
    <2>1. DialogueOK'
      BY <1>23 DEF QrOpened, SaveMeta, DialogueOK, MetaOK, Silent
    <2>2. MetaOK'
      BY <1>23 DEF QrOpened, SaveMeta, DialogueOK, MetaOK, Meta
    <2>3. QED
      BY <1>23, <2>1, <2>2 DEF QrOpened, SaveMeta, calls, histories, SendersOK, PollOK, RevokingOK, ChatOK, SentOK, PassedOK
  <1>24. CASE Activate
    <2>1. DialogueOK'
      BY <1>24 DEF Activate, DialogueOK, MetaOK, Silent
    <2>2. MetaOK'
      BY <1>24 DEF Activate, DialogueOK, MetaOK, Meta
    <2>3. QED
      BY <1>24, <2>1, <2>2 DEF Activate, calls, histories, SendersOK, PollOK, RevokingOK, ChatOK, SentOK, PassedOK
  <1>25. CASE QrOver
    <2>1. DialogueOK'
      BY <1>25 DEF QrOver, DialogueOK, MetaOK, Silent
    <2>2. QED
      BY <1>25, <2>1 DEF QrOver, calls, histories, MetaOK, SendersOK, PollOK, RevokingOK, ChatOK, SentOK, PassedOK
  <1>26. CASE ClientsCrash
    <2>1. SendersOK'
      BY <1>26 DEF ClientsCrash, DialogueOK, MetaOK, PollOK, RevokingOK, SendersOK, Sender, NewCall
    <2>2. PollOK'
      BY <1>26 DEF ClientsCrash, DialogueOK, MetaOK, PollOK, RevokingOK, SendersOK, Listener, Asleep
    <2>3. RevokingOK'
      BY <1>26 DEF ClientsCrash, DialogueOK, MetaOK, PollOK, RevokingOK, SendersOK, Silent
    <2>4. DialogueOK'
      BY <1>26 DEF ClientsCrash, DialogueOK, MetaOK, PollOK, RevokingOK, SendersOK, Silent
    <2>5. QED
      BY <1>26, <2>1, <2>2, <2>3, <2>4 DEF ClientsCrash, calls, histories, MetaOK, ChatOK, SentOK, PassedOK
  <1>27. QED
    BY <1>1, <1>2, <1>3, <1>4, <1>5, <1>6, <1>7, <1>8, <1>9, <1>10, <1>11, <1>12, <1>13, <1>14, <1>15, <1>16, <1>17, <1>18, <1>19, <1>20, <1>21, <1>22, <1>23, <1>24, <1>25, <1>26 DEF ClientsNext

-----------------------------------------------------------------------------
\* Who holds the mutex is where it is needed, and alone there.
MutexHeld ==
    /\ \A s \in Senders : sender[s].at \in {"sending", "latest"} => mutex = s
    /\ poll.at \in {"history", "post"} => mutex = "poll"
    /\ revoking.at = "revoking" => mutex = "revoke"

\* A key that was sent is in the file, and in what the holder of the mutex has read,
\* with no more keys after it than were added since.
Recalls(m) == \A k \in DmKeys : sent[k] > 0 => k \in unsure \/ Stands(m.known, k, behind[k])

KeysRecalled ==
    /\ Recalls(meta)
    /\ \A s \in Senders :
          /\ sender[s].at = "latest" => Recalls(sender[s].snap)
          /\ sender[s].at = "sending"
                => \/ sender[s].key \in unsure
                   \/ sent[sender[s].key] = 0 /\ ~Knows(meta, sender[s].key)
    /\ poll.at \in {"history", "post"} => Recalls(poll.snap)

\* What may be written says "active" only of a client that is logged in.
Fresh(m) == m.status = "active" => ~revoked

LoginKnown ==
    /\ Fresh(meta)
    /\ \A s \in Senders : sender[s].at = "latest" => Fresh(sender[s].snap)
    /\ poll.at \in {"history", "post"} => Fresh(poll.snap)
    /\ revoking.at # "idle" => revoking.snap.status = "revoked"
    /\ dialogue.at = "opening" => dialogue.snap.status = "pending"

\* What the listener, or a watch, has read under the mutex is the file.
LEMMA PollLocks == ASSUME Typed, LockPoll PROVE poll'.at = "idle" \/ poll'.snap = meta
  <1>1. CASE poll' = Asleep
    BY <1>1 DEF Asleep
  <1>2. CASE poll' = [poll EXCEPT !.at = "history", !.last = meta.cursor, !.snap = meta]
    BY <1>2 DEF Typed, PollOK, Listener
  <1>3. QED
    BY <1>1, <1>2, Zenon DEF LockPoll

LEMMA WatchLocks ==
    ASSUME Typed, NEW s \in Senders, LockWatch(s)
    PROVE  \/ sender'[s].at \notin {"sending", "latest"}
           \/ sender'[s].at = "latest" /\ sender'[s].snap = meta
  <1>1. CASE sender' = [sender EXCEPT ![s].at = "latest", ![s].snap = meta]
    BY <1>1 DEF Typed, SendersOK, Sender
  <1>2. CASE Goes(s, "advance")
    BY <1>2 DEF Typed, SendersOK, Sender, Goes
  <1>3. CASE Returns(s)
    BY <1>3 DEF Typed, SendersOK, Sender, Returns, NewCall
  <1>4. QED
    BY <1>1, <1>2, <1>3, Zenon DEF LockWatch

LEMMA MutexStep ==
    ASSUME Typed, MutexHeld, [ClientsNext]_clientVars
    PROVE  MutexHeld'
  <1> USE DEF MutexHeld, Typed, SendersOK, PollOK, RevokingOK, Sender, Listener, NewCall, Asleep, Silent, calls, histories
  <1>1. CASE UNCHANGED clientVars
    BY <1>1 DEF clientVars, calls, histories
  <1>2. ASSUME NEW s \in Senders, NEW k \in DmKeys, CallSend(s, k) PROVE MutexHeld'
    BY <1>2, ClientSessionsAssumption DEF CallSend
  <1>3. ASSUME NEW s \in Senders, LockSend(s) PROVE MutexHeld'
    BY <1>3, ClientSessionsAssumption DEF LockSend, KnownByNow, Returns, Goes
  <1>4. ASSUME NEW s \in Senders, Sent(s) PROVE MutexHeld'
    BY <1>4, ClientSessionsAssumption DEF Sent
  <1>5. ASSUME NEW s \in Senders, SendRefused(s) PROVE MutexHeld'
    BY <1>5, ClientSessionsAssumption DEF SendRefused, SaveMeta, Returns
  <1>6. ASSUME NEW s \in Senders, SendRaises(s) PROVE MutexHeld'
    BY <1>6, ClientSessionsAssumption DEF SendRaises, Returns
  <1>7. ASSUME NEW s \in Senders, CallWatch(s) PROVE MutexHeld'
    BY <1>7, ClientSessionsAssumption DEF CallWatch, Goes
  <1>8. ASSUME NEW s \in Senders, LockWatch(s) PROVE MutexHeld'
    BY <1>8, ClientSessionsAssumption DEF LockWatch, Returns, Goes
  <1>9. ASSUME NEW s \in Senders, WatchLatest(s) PROVE MutexHeld'
    BY <1>9, ClientSessionsAssumption DEF WatchLatest, SaveMeta
  <1>10. ASSUME NEW s \in Senders, AdvanceCursor(s) PROVE MutexHeld'
    BY <1>10, ClientSessionsAssumption DEF AdvanceCursor, Returns
  <1>11. CASE Answered
    BY <1>11, ClientSessionsAssumption DEF Answered
  <1>12. CASE PollLists
    BY <1>12, ClientSessionsAssumption DEF PollLists
  <1>13. CASE LockPoll
    BY <1>13, ClientSessionsAssumption DEF LockPoll
  <1>14. CASE PollReads
    BY <1>14, ClientSessionsAssumption DEF PollReads, Oldest
  <1>15. CASE PollPosts
    BY <1>15, ClientSessionsAssumption DEF PollPosts, PollNext
  <1>16. CASE PollRefused
    BY <1>16, ClientSessionsAssumption DEF PollRefused, StopsAtIt
  <1>17. CASE PollSaves
    BY <1>17, ClientSessionsAssumption DEF PollSaves, SaveMeta
  <1>18. CASE PollRaises
    BY <1>18, ClientSessionsAssumption DEF PollRaises
  <1>19. CASE CallRevoke
    BY <1>19, ClientSessionsAssumption DEF CallRevoke
  <1>20. CASE LockRevoke
    BY <1>20, ClientSessionsAssumption DEF LockRevoke, RevokeEnters
  <1>21. CASE Revoke
    BY <1>21, ClientSessionsAssumption DEF Revoke, SaveMeta
  <1>22. CASE OpenQr
    BY <1>22, ClientSessionsAssumption DEF OpenQr
  <1>23. CASE QrOpened
    BY <1>23, ClientSessionsAssumption DEF QrOpened, SaveMeta
  <1>24. CASE Activate
    BY <1>24, ClientSessionsAssumption DEF Activate
  <1>25. CASE QrOver
    BY <1>25, ClientSessionsAssumption DEF QrOver
  <1>26. CASE ClientsCrash
    BY <1>26, ClientSessionsAssumption DEF ClientsCrash
  <1>27. QED
    BY <1>1, <1>2, <1>3, <1>4, <1>5, <1>6, <1>7, <1>8, <1>9, <1>10, <1>11, <1>12, <1>13, <1>14, <1>15, <1>16, <1>17, <1>18, <1>19, <1>20, <1>21, <1>22, <1>23, <1>24, <1>25, <1>26 DEF ClientsNext

\* Remembering a key leaves what was sent where it can be found.
LEMMA RecallsOn ==
    ASSUME SentOK, NEW m \in Meta, NEW key \in DmKeys, NEW n \in 0 .. 2,
           Recalls(m), Ages(m, key, n), meta' = Remember(m, key),
           unsure \subseteq unsure', key \in unsure' \/ n = 0 \/ ~Knows(m, key)
    PROVE  Recalls(meta)'
  <1> PICK q : q = meta'.known
    OBVIOUS
  <1> SUFFICES ASSUME NEW k \in DmKeys, sent'[k] > 0, k \notin unsure'
               PROVE  Stands(q, k, behind'[k])
    BY DEF Recalls
  <1>0. behind \in [DmKeys -> 0 .. Kept - 1] /\ sent \in [DmKeys -> 0 .. 2] /\ m.known \in KeyLists
    BY DEF SentOK, Meta
  <1>1. CASE k = key
    <2>1. ~Knows(m, key)
      BY <1>0, <1>1 DEF Ages, Outdone
    <2>2. q = Kepts(Append(m.known, key)) /\ behind'[k] = 0
      BY <1>0, <1>1, <2>1, RememberTyped DEF Ages
    <2>3. QED
      BY <1>0, <1>1, <2>2, KeptsKeeps
  <1>2. CASE k # key
    <2>1. k \notin Outdone(m, key) /\ sent[k] > 0
      BY <1>0, <1>2 DEF Ages
    <2>2. Stands(m.known, k, behind[k])
      BY <2>1 DEF Recalls
    <2>3. CASE Knows(m, key)
      BY <1>2, <2>1, <2>2, <2>3, RememberTyped DEF Ages, Followed
    <2>4. CASE ~Knows(m, key)
      <3>1. behind[k] \in Nat /\ behind[k] + 1 < Kept
        BY <1>0, <1>2, <2>1, <2>4, ClientSessionsAssumption DEF Outdone
      <3>2. behind'[k] = behind[k] + 1
        BY <1>2, <2>1, <2>4, <3>1 DEF Ages, Followed
      <3>3. q = Kepts(Append(m.known, key))
        BY <2>4, RememberTyped
      <3>4. QED
        BY <1>0, <2>2, <3>1, <3>2, <3>3, KeptsKeeps
    <2>5. QED
      BY <2>3, <2>4
  <1>3. QED
    BY <1>1, <1>2

LEMMA KeysStep ==
    ASSUME Typed, MutexHeld, LoginKnown, KeysRecalled, [ClientsNext]_clientVars
    PROVE  KeysRecalled'
  <1> USE DEF MutexHeld, KeysRecalled, Recalls, Typed, MetaOK, SendersOK, PollOK, RevokingOK, DialogueOK, SentOK, Sender, Listener, Meta, NewCall, Asleep, Silent, calls, histories
  <1>1. CASE UNCHANGED clientVars
    BY <1>1 DEF clientVars, calls, histories
  <1>2. ASSUME NEW s \in Senders, NEW k \in DmKeys, CallSend(s, k) PROVE KeysRecalled'
    BY <1>2, ClientSessionsAssumption DEF CallSend
  <1>3. ASSUME NEW s \in Senders, LockSend(s) PROVE KeysRecalled'
    <2>1. UNCHANGED <<meta, sent, behind, unsure, poll>>
      BY <1>3 DEF LockSend
    <2>2. \/ Returns(s)
          \/ Goes(s, "sending") /\ ~Knows(meta, sender[s].key) /\ sender[s].key \in DmKeys
      BY <1>3, Zenon DEF LockSend, KnownByNow
    <2>3. CASE Returns(s)
      BY <2>1, <2>3 DEF Returns, Knows
    <2>4. CASE Goes(s, "sending") /\ ~Knows(meta, sender[s].key) /\ sender[s].key \in DmKeys
      <3>1. sender[s].key \in unsure \/ sent[sender[s].key] = 0
        BY <2>4 DEF Stands, Knows
      <3>2. QED
        BY <2>1, <2>4, <3>1 DEF Goes, Knows
    <2>5. QED
      BY <2>2, <2>3, <2>4
  <1>4. ASSUME NEW s \in Senders, Sent(s) PROVE KeysRecalled'
    <2>0. sender[s].key \in DmKeys /\ OnceMore(sender[s].key) \in 0 .. 2
      <3>1. sender[s].key \in DmKeys
        BY <1>4 DEF Sent
      <3>2. sent[sender[s].key] \in 0 .. 2
        BY <3>1
      <3>3. QED
        BY <3>1, <3>2 DEF OnceMore
    <2>1. PICK key \in DmKeys, n \in 0 .. 2 : key = sender[s].key /\ n = OnceMore(key)
      BY <2>0
    <2>2. Ages(meta, key, n) /\ meta' = Remember(meta, key) /\ unsure' = unsure
      BY <1>4, <2>1 DEF Sent
    <2>3. key \in unsure \/ ~Knows(meta, key)
      BY <1>4, <2>1 DEF Sent
    <2>4. Recalls(meta)'
      BY <2>2, <2>3, RecallsOn
    <2>5. poll' = poll /\ poll.at \notin {"history", "post"}
      BY <1>4, ClientSessionsAssumption DEF Sent
    <2>6. \A t \in Senders : sender'[t].at \notin {"sending", "latest"}
      BY <1>4, ClientSessionsAssumption DEF Sent
    <2>7. QED
      BY <2>4, <2>5, <2>6
  <1>5. ASSUME NEW s \in Senders, SendRefused(s) PROVE KeysRecalled'
    <2>1. PICK key \in DmKeys, over \in Meta, n \in 0 .. 2 :
             /\ key = sender[s].key /\ n = sent[key]
             /\ over = [sender[s].snap EXCEPT !.status = "revoked"]
      BY <1>5 DEF SendRefused
    <2>2. \/ SaveMeta(Remember(over, key)) /\ Ages(over, key, n)
          \/ meta' = Remember(meta, key) /\ Ages(meta, key, n) /\ UNCHANGED unsure
      BY <1>5, <2>1, Zenon DEF SendRefused
    <2>3. ASSUME SaveMeta(Remember(over, key)) /\ Ages(over, key, n)
          PROVE  Recalls(meta)'
      <3>1. Remember(over, key).status = "revoked"
        BY <2>1, RememberTyped
      <3>2. \A k \in DmKeys : sent[k] > 0 => k \in unsure'
        BY <2>3, <3>1 DEF SaveMeta
      <3>3. \A k \in DmKeys : sent'[k] \in {0, sent[k]}
        BY <2>1, <2>3 DEF Ages
      <3>4. ASSUME NEW k \in DmKeys, sent'[k] > 0 PROVE k \in unsure'
        <4>1. sent'[k] = 0 \/ sent'[k] = sent[k]
          BY <3>3
        <4>2. sent[k] > 0
          BY <3>4, <4>1
        <4>3. QED
          BY <3>2, <4>2
      <3>5. QED
        BY <3>4 DEF Recalls
    <2>4. ASSUME meta' = Remember(meta, key) /\ Ages(meta, key, n) /\ UNCHANGED unsure
          PROVE  Recalls(meta)'
      <3>1. key \in unsure \/ n = 0
        BY <1>5, <2>1 DEF SendRefused
      <3>2. unsure' = unsure
        BY <2>4
      <3>3. QED
        BY <2>4, <3>1, <3>2, RecallsOn
    <2>5. Recalls(meta)'
      BY <2>2, <2>3, <2>4
    <2>6. poll' = poll /\ poll.at \notin {"history", "post"}
      BY <1>5, ClientSessionsAssumption DEF SendRefused
    <2>7. \A t \in Senders : sender'[t].at \notin {"sending", "latest"}
      BY <1>5, ClientSessionsAssumption DEF SendRefused, Returns
    <2>8. QED
      BY <2>5, <2>6, <2>7
  <1>6. ASSUME NEW s \in Senders, SendRaises(s) PROVE KeysRecalled'
    BY <1>6, ClientSessionsAssumption DEF SendRaises, Returns
  <1>7. ASSUME NEW s \in Senders, CallWatch(s) PROVE KeysRecalled'
    BY <1>7, ClientSessionsAssumption DEF CallWatch, Goes
  <1>8. ASSUME NEW s \in Senders, LockWatch(s) PROVE KeysRecalled'
    <2>1. UNCHANGED <<sent, behind, unsure, poll>> /\ mutex = "free" /\ meta'.known = meta.known
      BY <1>8 DEF LockWatch
    <2>2. \/ sender'[s].at \notin {"sending", "latest"}
          \/ sender'[s].at = "latest" /\ sender'[s].snap = meta
      BY <1>8, WatchLocks
    <2>3. \A t \in Senders \ {s} : sender'[t] = sender[t]
      BY <1>8 DEF LockWatch, Returns, Goes
    <2>4. QED
      BY <2>1, <2>2, <2>3, ClientSessionsAssumption
  <1>9. ASSUME NEW s \in Senders, WatchLatest(s) PROVE KeysRecalled'
    BY <1>9, ClientSessionsAssumption DEF WatchLatest, SaveMeta
  <1>10. ASSUME NEW s \in Senders, AdvanceCursor(s) PROVE KeysRecalled'
    <2>1. UNCHANGED <<sent, behind, unsure, poll>> /\ mutex = "free" /\ meta'.known = meta.known
      BY <1>10 DEF AdvanceCursor
    <2>2. \A t \in Senders : sender'[t].at \in {"sending", "latest"} => sender'[t] = sender[t]
      BY <1>10 DEF AdvanceCursor, Returns
    <2>3. QED
      BY <2>1, <2>2, ClientSessionsAssumption
  <1>11. CASE Answered
    BY <1>11, ClientSessionsAssumption DEF Answered
  <1>12. CASE PollLists
    BY <1>12, ClientSessionsAssumption DEF PollLists
  <1>13. CASE LockPoll
    <2>1. UNCHANGED <<sent, behind, unsure, sender, meta>>
      BY <1>13 DEF LockPoll
    <2>2. poll'.at = "idle" \/ poll'.snap = meta
      BY <1>13, PollLocks
    <2>3. QED
      BY <2>1, <2>2 DEF Knows
  <1>14. CASE PollReads
    BY <1>14, ClientSessionsAssumption DEF PollReads, Oldest
  <1>15. CASE PollPosts
    BY <1>15, ClientSessionsAssumption DEF PollPosts, PollNext
  <1>16. CASE PollRefused
    BY <1>16, ClientSessionsAssumption DEF PollRefused, StopsAtIt
  <1>17. CASE PollSaves
    BY <1>17, ClientSessionsAssumption DEF PollSaves, SaveMeta
  <1>18. CASE PollRaises
    BY <1>18, ClientSessionsAssumption DEF PollRaises
  <1>19. CASE CallRevoke
    BY <1>19, ClientSessionsAssumption DEF CallRevoke
  <1>20. CASE LockRevoke
    BY <1>20, ClientSessionsAssumption DEF LockRevoke, RevokeEnters
  <1>21. CASE Revoke
    <2>1. revoking.snap.status # "active" /\ meta' = revoking.snap
      BY <1>21 DEF Revoke, SaveMeta, LoginKnown
    <2>2. \A k \in DmKeys : sent'[k] > 0 => k \in unsure'
      BY <1>21, <2>1 DEF Revoke, SaveMeta
    <2>3. /\ UNCHANGED <<sender, poll, sent, behind>> /\ unsure \subseteq unsure'
          /\ mutex = "revoke"
      BY <1>21 DEF Revoke, SaveMeta
    <2>4. QED
      BY <2>2, <2>3, ClientSessionsAssumption
  <1>22. CASE OpenQr
    BY <1>22, ClientSessionsAssumption DEF OpenQr
  <1>23. CASE QrOpened
    <2>1. UNCHANGED <<sender, poll, sent, behind>> /\ unsure \subseteq unsure'
      BY <1>23 DEF QrOpened, SaveMeta
    <2>2. \/ UNCHANGED <<meta, unsure>>
          \/ /\ \A k \in DmKeys : sent[k] > 0 => k \in unsure'
             /\ \A s \in Senders : sender[s].at = "sending" => sender[s].key \in unsure'
      BY <1>23 DEF QrOpened, SaveMeta, LoginKnown
    <2>3. CASE UNCHANGED <<meta, unsure>>
      BY <2>1, <2>3 DEF Knows
    <2>4. CASE /\ \A k \in DmKeys : sent[k] > 0 => k \in unsure'
               /\ \A s \in Senders : sender[s].at = "sending" => sender[s].key \in unsure'
      BY <2>1, <2>4
    <2>5. QED
      BY <2>2, <2>3, <2>4
  <1>24. CASE Activate
    <2>1. UNCHANGED <<sender, poll, sent, behind, unsure>> /\ meta'.known = meta.known
      BY <1>24 DEF Activate
    <2>2. QED
      BY <2>1 DEF Knows
  <1>25. CASE QrOver
    BY <1>25, ClientSessionsAssumption DEF QrOver
  <1>26. CASE ClientsCrash
    BY <1>26, ClientSessionsAssumption DEF ClientsCrash
  <1>27. QED
    BY <1>1, <1>2, <1>3, <1>4, <1>5, <1>6, <1>7, <1>8, <1>9, <1>10, <1>11, <1>12, <1>13, <1>14, <1>15, <1>16, <1>17, <1>18, <1>19, <1>20, <1>21, <1>22, <1>23, <1>24, <1>25, <1>26 DEF ClientsNext

LEMMA LoginStep ==
    ASSUME Typed, MutexHeld, LoginKnown, [ClientsNext]_clientVars
    PROVE  LoginKnown'
  <1> USE DEF MutexHeld, LoginKnown, Fresh, Typed, MetaOK, SendersOK, PollOK, RevokingOK, DialogueOK, SentOK, Sender, Listener, Meta, NewCall, Asleep, Silent, calls, histories
  <1>1. CASE UNCHANGED clientVars
    BY <1>1 DEF clientVars, calls, histories
  <1>2. ASSUME NEW s \in Senders, NEW k \in DmKeys, CallSend(s, k) PROVE LoginKnown'
    BY <1>2, ClientSessionsAssumption DEF CallSend
  <1>3. ASSUME NEW s \in Senders, LockSend(s) PROVE LoginKnown'
    <2>0. Returns(s) \/ Goes(s, "sending")
      BY <1>3, Zenon DEF LockSend
    <2>1. UNCHANGED <<revoked, poll, meta, revoking, dialogue>>
      BY <1>3 DEF LockSend
    <2>2. \A t \in Senders : sender'[t].at = "latest" => sender[t].at = "latest" /\ sender'[t].snap = sender[t].snap
      <3>1. CASE Returns(s)
        BY <3>1 DEF Returns
      <3>2. CASE Goes(s, "sending")
        BY <3>2 DEF Goes
      <3>3. QED
        BY <2>0, <3>1, <3>2
    <2>3. QED
      BY <2>1, <2>2
  <1>4. ASSUME NEW s \in Senders, Sent(s) PROVE LoginKnown'
    <2>1. mutex = s /\ UNCHANGED <<poll, revoking, dialogue, revoked>> /\ poll.at \notin {"history", "post"}
      BY <1>4, ClientSessionsAssumption DEF Sent
    <2>2. \A t \in Senders : sender'[t].at # "latest"
      BY <1>4, <2>1 DEF Sent
    <2>3. Fresh(meta)'
      <3>1. sender[s].key \in DmKeys /\ meta' = Remember(meta, sender[s].key)
        BY <1>4 DEF Sent
      <3>2. meta'.status = meta.status
        BY <3>1, RememberTyped
      <3>3. QED
        BY <2>1, <3>2
    <2>4. QED
      BY <2>1, <2>2, <2>3
  <1>5. ASSUME NEW s \in Senders, SendRefused(s) PROVE LoginKnown'
    <2>1. mutex = s /\ UNCHANGED <<poll, revoking, dialogue>> /\ poll.at \notin {"history", "post"}
      BY <1>5, ClientSessionsAssumption DEF SendRefused
    <2>2. \A t \in Senders : sender'[t].at # "latest"
      BY <1>5, <2>1 DEF SendRefused, Returns
    <2>3. Fresh(meta)'
      <3>1. PICK key \in DmKeys, over \in Meta : key = sender[s].key /\ over = [sender[s].snap EXCEPT !.status = "revoked"]
        BY <1>5 DEF SendRefused
      <3>2. \/ meta' = Remember(over, key)
            \/ meta' = Remember(meta, key) /\ UNCHANGED revoked
        BY <1>5, <3>1, Zenon DEF SendRefused, SaveMeta
      <3>3. over.status = "revoked"
        BY <3>1
      <3>4. Remember(over, key).status = "revoked" /\ Remember(meta, key).status = meta.status
        BY <3>3, RememberTyped
      <3>5. QED
        BY <3>2, <3>4
    <2>4. QED
      BY <2>1, <2>2, <2>3
  <1>6. ASSUME NEW s \in Senders, SendRaises(s) PROVE LoginKnown'
    BY <1>6, ClientSessionsAssumption DEF SendRaises, Returns
  <1>7. ASSUME NEW s \in Senders, CallWatch(s) PROVE LoginKnown'
    BY <1>7, ClientSessionsAssumption DEF CallWatch, Goes
  <1>8. ASSUME NEW s \in Senders, LockWatch(s) PROVE LoginKnown'
    <2>1. UNCHANGED <<revoked, poll, revoking, dialogue>> /\ meta'.status = meta.status
      BY <1>8 DEF LockWatch
    <2>2. \/ sender'[s].at \notin {"sending", "latest"}
          \/ sender'[s].at = "latest" /\ sender'[s].snap = meta
      BY <1>8, WatchLocks
    <2>3. \A t \in Senders \ {s} : sender'[t] = sender[t]
      BY <1>8 DEF LockWatch, Returns, Goes
    <2>4. QED
      BY <2>1, <2>2, <2>3
  <1>9. ASSUME NEW s \in Senders, WatchLatest(s) PROVE LoginKnown'
    BY <1>9, ClientSessionsAssumption DEF WatchLatest, SaveMeta
  <1>10. ASSUME NEW s \in Senders, AdvanceCursor(s) PROVE LoginKnown'
    BY <1>10, ClientSessionsAssumption DEF AdvanceCursor, Returns
  <1>11. CASE Answered
    BY <1>11, ClientSessionsAssumption DEF Answered
  <1>12. CASE PollLists
    BY <1>12, ClientSessionsAssumption DEF PollLists
  <1>13. CASE LockPoll
    <2>1. UNCHANGED <<revoked, sender, meta, revoking, dialogue>>
      BY <1>13 DEF LockPoll
    <2>2. poll'.at = "idle" \/ poll'.snap = meta
      BY <1>13, PollLocks
    <2>3. QED
      BY <2>1, <2>2
  <1>14. CASE PollReads
    BY <1>14, ClientSessionsAssumption DEF PollReads, Oldest
  <1>15. CASE PollPosts
    BY <1>15, ClientSessionsAssumption DEF PollPosts, PollNext
  <1>16. CASE PollRefused
    BY <1>16, ClientSessionsAssumption DEF PollRefused, StopsAtIt
  <1>17. CASE PollSaves
    BY <1>17, ClientSessionsAssumption DEF PollSaves, SaveMeta
  <1>18. CASE PollRaises
    BY <1>18, ClientSessionsAssumption DEF PollRaises
  <1>19. CASE CallRevoke
    BY <1>19, ClientSessionsAssumption DEF CallRevoke
  <1>20. CASE LockRevoke
    BY <1>20, ClientSessionsAssumption DEF LockRevoke, RevokeEnters
  <1>21. CASE Revoke
    BY <1>21, ClientSessionsAssumption DEF Revoke, SaveMeta
  <1>22. CASE OpenQr
    BY <1>22, ClientSessionsAssumption DEF OpenQr
  <1>23. CASE QrOpened
    BY <1>23, ClientSessionsAssumption DEF QrOpened, SaveMeta
  <1>24. CASE Activate
    BY <1>24, ClientSessionsAssumption DEF Activate
  <1>25. CASE QrOver
    BY <1>25, ClientSessionsAssumption DEF QrOver
  <1>26. CASE ClientsCrash
    BY <1>26, ClientSessionsAssumption DEF ClientsCrash
  <1>27. QED
    BY <1>1, <1>2, <1>3, <1>4, <1>5, <1>6, <1>7, <1>8, <1>9, <1>10, <1>11, <1>12, <1>13, <1>14, <1>15, <1>16, <1>17, <1>18, <1>19, <1>20, <1>21, <1>22, <1>23, <1>24, <1>25, <1>26 DEF ClientsNext

-----------------------------------------------------------------------------
\* No message of the peer up to c is left to post.
Passes(c) == c <= Len(chat) /\ \A n \in 1 .. c : chat[n] = "in" => n \in passed \cup dropped

\* What a poll has still to post follows what is posted.
InOrder(l) ==
    /\ \A i \in 1 .. Len(l) : l[i] = l[1] + (i - 1) /\ l[i] \in 1 .. Len(chat)
    /\ l # << >> => Passes(l[1] - 1)

CursorsPass ==
    /\ Passes(meta.cursor)
    /\ \A s \in Senders : Passes(sender[s].snap.cursor) /\ sender[s].id <= Len(chat)
    /\ Passes(poll.snap.cursor) /\ Passes(poll.last)
    /\ poll.at = "post" => InOrder(poll.left)
    /\ Passes(revoking.snap.cursor) /\ Passes(dialogue.snap.cursor)

LEMMA ChatGrows ==
    ASSUME Typed, [ClientsNext]_clientVars
    PROVE  /\ chat' = chat \/ \E x \in {"in", "out"} : chat' = Append(chat, x)
           /\ passed \subseteq passed' /\ dropped \subseteq dropped'
  <1> DEFINE Grown == /\ chat' = chat \/ \E x \in {"in", "out"} : chat' = Append(chat, x)
                      /\ passed \subseteq passed' /\ dropped \subseteq dropped'
  <1>1. CASE UNCHANGED clientVars
    BY <1>1 DEF clientVars, histories
  <1>2. ASSUME NEW s \in Senders, NEW k \in DmKeys, CallSend(s, k) PROVE Grown
    BY <1>2 DEF CallSend, histories
  <1>3. ASSUME NEW s \in Senders, LockSend(s) PROVE Grown
    BY <1>3 DEF LockSend, histories
  <1>4. ASSUME NEW s \in Senders, Sent(s) PROVE Grown
    BY <1>4 DEF Sent, histories
  <1>5. ASSUME NEW s \in Senders, SendRefused(s) PROVE Grown
    BY <1>5 DEF SendRefused, histories
  <1>6. ASSUME NEW s \in Senders, SendRaises(s) PROVE Grown
    BY <1>6 DEF SendRaises, histories
  <1>7. ASSUME NEW s \in Senders, CallWatch(s) PROVE Grown
    BY <1>7 DEF CallWatch, histories
  <1>8. ASSUME NEW s \in Senders, LockWatch(s) PROVE Grown
    BY <1>8 DEF LockWatch, histories
  <1>9. ASSUME NEW s \in Senders, WatchLatest(s) PROVE Grown
    BY <1>9 DEF WatchLatest, histories
  <1>10. ASSUME NEW s \in Senders, AdvanceCursor(s) PROVE Grown
    BY <1>10 DEF AdvanceCursor, histories
  <1>11. CASE Answered
    BY <1>11 DEF Answered, histories
  <1>12. CASE PollLists
    BY <1>12 DEF PollLists, histories
  <1>13. CASE LockPoll
    BY <1>13 DEF LockPoll, histories
  <1>14. CASE PollReads
    BY <1>14 DEF PollReads, histories
  <1>15. CASE PollPosts
    BY <1>15 DEF PollPosts, histories
  <1>16. CASE PollRefused
    BY <1>16 DEF PollRefused, histories
  <1>17. CASE PollSaves
    BY <1>17 DEF PollSaves, histories
  <1>18. CASE PollRaises
    BY <1>18 DEF PollRaises, histories
  <1>19. CASE CallRevoke
    BY <1>19 DEF CallRevoke, histories
  <1>20. CASE LockRevoke
    BY <1>20 DEF LockRevoke, histories
  <1>21. CASE Revoke
    BY <1>21 DEF Revoke, histories
  <1>22. CASE OpenQr
    BY <1>22 DEF OpenQr, histories
  <1>23. CASE QrOpened
    BY <1>23 DEF QrOpened, histories
  <1>24. CASE Activate
    BY <1>24 DEF Activate, histories
  <1>25. CASE QrOver
    BY <1>25 DEF QrOver, histories
  <1>26. CASE ClientsCrash
    BY <1>26 DEF ClientsCrash, histories
  <1>27. QED
    BY <1>1, <1>2, <1>3, <1>4, <1>5, <1>6, <1>7, <1>8, <1>9, <1>10, <1>11, <1>12, <1>13, <1>14, <1>15, <1>16, <1>17, <1>18, <1>19, <1>20, <1>21, <1>22, <1>23, <1>24, <1>25, <1>26 DEF ClientsNext

\* What is passed stays passed.
LEMMA PassesOn ==
    ASSUME Typed, [ClientsNext]_clientVars
    PROVE  /\ \A c \in Int : Passes(c) => Passes(c)'
           /\ \A l \in Seq(Numbers) : InOrder(l) => InOrder(l)'
           /\ Len(chat) <= Len(chat')
  <1>1. /\ chat \in Seq({"in", "out"})
        /\ chat' = chat \/ \E x \in {"in", "out"} : chat' = Append(chat, x)
        /\ passed \subseteq passed' /\ dropped \subseteq dropped'
    BY ChatGrows DEF Typed, ChatOK
  <1>2. Len(chat) <= Len(chat') /\ chat' \in Seq({"in", "out"})
        /\ \A n \in 1 .. Len(chat) : chat'[n] = chat[n]
    BY <1>1
  <1>3. ASSUME NEW c \in Int, Passes(c) PROVE Passes(c)'
    BY <1>1, <1>2, <1>3 DEF Passes
  <1>4. ASSUME NEW l \in Seq(Numbers), InOrder(l) PROVE InOrder(l)'
    <2>1. l # << >> => l[1] - 1 \in Int
      BY ClientSessionsAssumption DEF Numbers
    <2>2. QED
      BY <1>1, <1>2, <1>3, <1>4, <2>1 DEF InOrder
  <1>5. QED
    BY <1>2, <1>3, <1>4

LEMMA PassesNone == ASSUME ChatOK PROVE Passes(0) /\ InOrder(<< >>)
  BY DEF ChatOK, Passes, InOrder

LEMMA PassesNoneNext == ASSUME ChatOK' PROVE Passes(0)' /\ InOrder(<< >>)'
  BY DEF ChatOK, Passes, InOrder

LEMMA CursorsStill ==
    ASSUME Typed, CursorsPass, [ClientsNext]_clientVars
    PROVE  /\ \A c \in Int : Passes(c) => Passes(c)'
           /\ \A l \in Seq(Numbers) : InOrder(l) => InOrder(l)'
           /\ Len(chat) <= Len(chat') /\ Len(chat) \in Nat /\ Len(chat') \in Nat
           /\ Passes(0)' /\ InOrder(<< >>)' /\ Numbers \subseteq Int /\ 0 <= Len(chat')
           /\ {meta.cursor, poll.snap.cursor, poll.last, revoking.snap.cursor,
               dialogue.snap.cursor} \subseteq Nat
           /\ \A s \in Senders : sender[s].snap.cursor \in Nat /\ sender[s].id \in Nat
           /\ poll.left \in Seq(Numbers)
  <1>1. MetaOK /\ SendersOK /\ PollOK /\ RevokingOK /\ DialogueOK
    BY DEF Typed
  <1>2. /\ {meta.cursor, poll.snap.cursor, poll.last, revoking.snap.cursor, dialogue.snap.cursor} \subseteq Nat
        /\ \A s \in Senders : sender[s].snap.cursor \in Nat /\ sender[s].id \in Nat
        /\ poll.left \in Seq(Numbers)
    BY <1>1 DEF MetaOK, SendersOK, PollOK, RevokingOK, DialogueOK, Sender, Listener, Meta, Numbers
  <1>3. QED
    BY <1>2, PassesOn, TypedStep, PassesNoneNext, ClientSessionsAssumption DEF Typed, ChatOK, Numbers

\* A step of senders takes no other cursor than the stored one.
LEMMA OnlySenders ==
    ASSUME Typed, CursorsPass, [ClientsNext]_clientVars,
           meta'.cursor = meta.cursor, UNCHANGED <<poll, revoking, dialogue>>,
           \A t \in Senders :
              /\ sender'[t].snap.cursor \in {0, meta.cursor, sender[t].snap.cursor}
              /\ sender'[t].id \in {0, sender[t].id}
    PROVE  CursorsPass'
  <1>1. /\ Passes(meta.cursor)' /\ Passes(poll.snap.cursor)' /\ Passes(poll.last)'
        /\ Passes(revoking.snap.cursor)' /\ Passes(dialogue.snap.cursor)'
    <2>1. \A c \in {meta.cursor, poll.snap.cursor, poll.last, revoking.snap.cursor,
                    dialogue.snap.cursor} : c \in Int /\ Passes(c)
      BY CursorsStill DEF CursorsPass
    <2>2. \A c \in {meta.cursor, poll.snap.cursor, poll.last, revoking.snap.cursor,
                    dialogue.snap.cursor} : Passes(c)'
      BY <2>1, CursorsStill
    <2>3. QED
      BY <2>2
  <1>2. poll'.at = "post" => InOrder(poll.left)'
    BY CursorsStill DEF CursorsPass
  <1>3. ASSUME NEW t \in Senders
        PROVE  Passes(sender[t].snap.cursor)' /\ sender'[t].id <= Len(chat')
    <2>1. /\ Passes(0)' /\ Passes(meta.cursor) /\ Passes(sender[t].snap.cursor)
          /\ meta.cursor \in Int /\ sender[t].snap.cursor \in Int
          /\ sender[t].id <= Len(chat) /\ sender[t].id \in Nat
      BY CursorsStill DEF CursorsPass
    <2>2. \A c \in {0, meta.cursor, sender[t].snap.cursor} : Passes(c)'
      BY <2>1, CursorsStill
    <2>3. Passes(sender[t].snap.cursor)'
      BY <2>2
    <2>4. sender'[t].id <= Len(chat')
      BY <2>1, CursorsStill
    <2>5. QED
      BY <2>3, <2>4
  <1>4. QED
    BY <1>1, <1>2, <1>3 DEF CursorsPass

LEMMA CursorsStep ==
    ASSUME Typed, CursorsPass, [ClientsNext]_clientVars
    PROVE  CursorsPass'
  <1>a. /\ \A c \in Int : Passes(c) => Passes(c)'
        /\ \A l \in Seq(Numbers) : InOrder(l) => InOrder(l)'
        /\ Len(chat) <= Len(chat') /\ Len(chat) \in Nat /\ Len(chat') \in Nat
        /\ Passes(0)' /\ InOrder(<< >>)' /\ Numbers \subseteq Int /\ 0 <= Len(chat')
    BY CursorsStill
  <1>b. MetaOK /\ SendersOK /\ PollOK /\ RevokingOK /\ DialogueOK
    BY DEF Typed
  <1>c. /\ {meta.cursor, poll.snap.cursor, poll.last, revoking.snap.cursor,
            dialogue.snap.cursor} \subseteq Nat
        /\ \A s \in Senders : sender[s].snap.cursor \in Nat /\ sender[s].id \in Nat
        /\ poll.left \in Seq(Numbers)
    BY CursorsStill
  <1> USE DEF CursorsPass, MetaOK, SendersOK, PollOK, RevokingOK, DialogueOK, Sender, Listener, Meta, NewMeta, NewCall, Asleep, Silent, calls, histories
  <1>1. CASE UNCHANGED clientVars
    BY <1>1, <1>a, <1>c DEF clientVars, calls, histories
  <1>2. ASSUME NEW s \in Senders, NEW k \in DmKeys, CallSend(s, k) PROVE CursorsPass'
    BY <1>2, <1>a, <1>b DEF CallSend
  <1>3. ASSUME NEW s \in Senders, LockSend(s) PROVE CursorsPass'
    <2>1. UNCHANGED <<meta, poll, revoking, dialogue>>
      BY <1>3 DEF LockSend
    <2>2. Returns(s) \/ Goes(s, "sending")
      BY <1>3, Zenon DEF LockSend
    <2>3. \A t \in Senders : /\ sender'[t].snap.cursor \in {0, sender[t].snap.cursor}
                            /\ sender'[t].id \in {0, sender[t].id}
      BY <2>2, <1>b DEF Returns, Goes
    <2>4. QED
      BY <2>1, <2>3, OnlySenders
  <1>4. ASSUME NEW s \in Senders, Sent(s) PROVE CursorsPass'
    <2>1. sender[s].key \in DmKeys /\ meta' = Remember(meta, sender[s].key)
      BY <1>4, <1>b DEF Sent
    <2>2. meta'.cursor = meta.cursor
      BY <2>1, <1>b, RememberTyped
    <2>3. UNCHANGED <<poll, revoking, dialogue>> /\ chat' = Append(chat, "out")
          /\ sender' = [sender EXCEPT ![s] = [NewCall EXCEPT !.at = "watch", !.id = Len(chat) + 1]]
      BY <1>4 DEF Sent
    <2>4. Len(chat') = Len(chat) + 1
      BY <2>3 DEF Typed, ChatOK
    <2>5. \A t \in Senders : /\ sender'[t].snap.cursor \in {0, sender[t].snap.cursor}
                            /\ sender'[t].id <= Len(chat')
      BY <2>3, <2>4, <1>a, <1>b, <1>c
    <2>6. QED
      BY <2>2, <2>3, <2>5, <1>a, <1>c
  <1>5. ASSUME NEW s \in Senders, SendRefused(s) PROVE CursorsPass'
    <2>1. PICK key \in DmKeys, over \in Meta : key = sender[s].key /\ over = [sender[s].snap EXCEPT !.status = "revoked"]
      BY <1>5, <1>b DEF SendRefused
    <2>2. meta' = Remember(over, key) \/ meta' = Remember(meta, key)
      BY <1>5, <2>1, Zenon DEF SendRefused, SaveMeta
    <2>3. over.cursor = sender[s].snap.cursor
      BY <2>1, <1>b
    <2>4. meta'.cursor \in {sender[s].snap.cursor, meta.cursor}
      BY <2>2, <2>3, <1>b, RememberTyped
    <2>5. UNCHANGED <<poll, revoking, dialogue>> /\ Returns(s)
      BY <1>5 DEF SendRefused
    <2>6. \A t \in Senders : /\ sender'[t].snap.cursor \in {0, sender[t].snap.cursor}
                            /\ sender'[t].id \in {0, sender[t].id}
      BY <2>5, <1>b DEF Returns
    <2>7. Passes(meta.cursor)'
      BY <2>4, <1>a, <1>c
    <2>8. \A t \in Senders : Passes(sender[t].snap.cursor)' /\ sender'[t].id <= Len(chat')
      BY <2>6, <1>a, <1>c
    <2>9. QED
      BY <2>5, <2>7, <2>8, <1>a, <1>c
  <1>6. ASSUME NEW s \in Senders, SendRaises(s) PROVE CursorsPass'
    BY <1>6, <1>a, <1>b DEF SendRaises, Returns
  <1>7. ASSUME NEW s \in Senders, CallWatch(s) PROVE CursorsPass'
    BY <1>7, <1>a, <1>b DEF CallWatch, Goes
  <1>8. ASSUME NEW s \in Senders, LockWatch(s) PROVE CursorsPass'
    <2>1. UNCHANGED <<poll, revoking, dialogue>>
      BY <1>8 DEF LockWatch
    <2>2. meta'.cursor = meta.cursor
      BY <1>8, <1>b DEF LockWatch
    <2>3. \/ sender' = [sender EXCEPT ![s].at = "latest", ![s].snap = meta]
          \/ Goes(s, "advance") \/ Returns(s)
      BY <1>8, Zenon DEF LockWatch
    <2>4. \A t \in Senders : /\ sender'[t].snap.cursor \in {0, meta.cursor, sender[t].snap.cursor}
                            /\ sender'[t].id \in {0, sender[t].id}
      <3>1. CASE sender' = [sender EXCEPT ![s].at = "latest", ![s].snap = meta]
        BY <3>1, <1>b
      <3>2. CASE Goes(s, "advance") \/ Returns(s)
        BY <3>2, <1>b DEF Returns, Goes
      <3>3. QED
        BY <2>3, <3>1, <3>2
    <2>5. QED
      BY <2>1, <2>2, <2>4, OnlySenders
  <1>9. ASSUME NEW s \in Senders, WatchLatest(s) PROVE CursorsPass'
    <2>1. UNCHANGED <<poll, revoking, dialogue, chat, dropped>>
      BY <1>9 DEF WatchLatest
    <2>2. PICK c \in {0, Len(chat)} :
             /\ meta' = [sender[s].snap EXCEPT !.watched = TRUE, !.begun = TRUE, !.cursor = c]
             /\ passed' = passed \cup 1 .. c
      BY <1>9 DEF WatchLatest, SaveMeta
    <2>3. meta'.cursor = c
      BY <2>2, <1>b
    <2>4. Passes(c)'
      BY <2>1, <2>2, <1>a DEF Passes
    <2>5. \A t \in Senders : /\ sender'[t].snap.cursor \in {0, sender[t].snap.cursor}
                            /\ sender'[t].id \in {0, sender[t].id}
      BY <1>9, <1>b DEF WatchLatest
    <2>6. QED
      BY <2>1, <2>3, <2>4, <2>5, <1>a, <1>b, <1>c
  <1>10. ASSUME NEW s \in Senders, AdvanceCursor(s) PROVE CursorsPass'
    <2>1. UNCHANGED <<poll, revoking, dialogue, chat, dropped>>
      BY <1>10 DEF AdvanceCursor
    <2>2. \/ UNCHANGED meta
          \/ /\ meta' = [meta EXCEPT !.cursor = sender[s].id]
             /\ passed' = passed \cup 1 .. sender[s].id
      BY <1>10 DEF AdvanceCursor
    <2>3. Passes(meta.cursor)'
      <3>1. CASE meta' = meta
        BY <3>1, <1>a, <1>c
      <3>2. CASE meta' = [meta EXCEPT !.cursor = sender[s].id] /\ passed' = passed \cup 1 .. sender[s].id
        <4>1. meta'.cursor = sender[s].id
          BY <3>2, <1>b
        <4>2. QED
          BY <4>1, <3>2, <2>1, <1>a, <1>c DEF Passes
      <3>3. QED
        BY <2>2, <3>1, <3>2
    <2>4. \A t \in Senders : /\ sender'[t].snap.cursor \in {0, sender[t].snap.cursor}
                            /\ sender'[t].id \in {0, sender[t].id}
      BY <1>10, <1>b DEF AdvanceCursor, Returns
    <2>5. QED
      BY <2>1, <2>3, <2>4, <1>a, <1>b, <1>c
  <1>11. CASE Answered
    BY <1>11, <1>a, <1>b, <1>c DEF Answered
  <1>12. CASE PollLists
    BY <1>12, <1>a, <1>b DEF PollLists
  <1>13. CASE LockPoll
    <2>1. UNCHANGED <<meta, sender, revoking, dialogue>>
      BY <1>13 DEF LockPoll
    <2>2. poll' = Asleep \/ poll' = [poll EXCEPT !.at = "history", !.last = meta.cursor, !.snap = meta]
      BY <1>13, Zenon DEF LockPoll
    <2>3. /\ poll'.snap.cursor \in {0, meta.cursor} /\ poll'.last \in {0, meta.cursor}
          /\ poll'.at # "post"
      <3>1. CASE poll' = Asleep
        BY <3>1
      <3>2. CASE poll' = [poll EXCEPT !.at = "history", !.last = meta.cursor, !.snap = meta]
        BY <3>2, <1>b
      <3>3. QED
        BY <2>2, <3>1, <3>2
    <2>4. QED
      BY <2>1, <2>3, <1>a, <1>b, <1>c
  <1>14. CASE PollReads
    <2>1. UNCHANGED <<meta, sender, revoking, dialogue, chat, dropped>>
      BY <1>14 DEF PollReads
    <2>2. PICK old \in Nat : old = Oldest
      <3>1. Len(chat) \in Nat /\ poll.last \in Nat /\ Page \in Nat
        BY <1>c, ClientSessionsAssumption, <1>a
      <3>2. Oldest \in Nat
        BY <3>1 DEF Oldest
      <3>3. QED
        BY <3>2
    <2>3. PICK page : page = [i \in 1 .. (Len(chat) - old) |-> old + i]
      OBVIOUS
    <2>4. poll' = [poll EXCEPT !.at = "post", !.left = page]
      BY <1>14, <2>2, <2>3 DEF PollReads
    <2>5. poll.last \in Nat /\ poll.last <= Len(chat) /\ poll.last <= old /\ old <= Len(chat)
      BY <2>2, <1>a, <1>c, ClientSessionsAssumption DEF Oldest, Passes
    <2>6. /\ page \in Seq(Nat) /\ Len(page) = Len(chat) - old
          /\ \A i \in 1 .. Len(page) : page[i] = old + i
      <3>1. PICK n \in Nat : n = Len(chat) - old
        <4>1. Len(chat) - old \in Nat
          BY <2>2, <2>5, <1>a
        <4>2. QED
          BY <4>1
      <3>2. page = [i \in 1 .. n |-> old + i]
        BY <2>3, <3>1
      <3>3. page \in Seq(Nat) /\ Len(page) = n
        BY <3>2, <2>2
      <3>4. QED
        BY <3>1, <3>2, <3>3
    <2>7. ASSUME Len(page) > 0 PROVE Passes(old)'
      <3>1. passed' = passed \cup (poll.last + 1) .. old
        BY <1>14, <2>2, <2>5, <2>6, <2>7, <1>a DEF PollReads
      <3>2. Passes(poll.last)
        OBVIOUS
      <3>3. QED
        BY <3>1, <3>2, <2>1, <2>5, <1>a DEF Passes
    <2>8. InOrder(page)'
      <3>1. ASSUME NEW i \in 1 .. Len(page)
            PROVE  page[i] = page[1] + (i - 1) /\ page[i] \in 1 .. Len(chat')
        <4>1. PICK n \in Nat : n = Len(chat)
          BY <1>a
        <4>2. i \in 1 .. (n - old) /\ 1 \in 1 .. (n - old)
          BY <2>2, <2>5, <2>6, <3>1, <4>1
        <4>3. page[i] = old + i /\ page[1] = old + 1
          BY <2>6, <4>1, <4>2
        <4>4. page[i] = page[1] + (i - 1) /\ page[i] \in 1 .. n
          BY <2>2, <4>2, <4>3
        <4>5. QED
          BY <2>1, <4>1, <4>4
      <3>2. page # << >> => page[1] - 1 = old /\ Len(page) > 0
        <4> SUFFICES ASSUME page # << >> PROVE page[1] - 1 = old /\ Len(page) > 0
          OBVIOUS
        <4>1. Len(page) > 0 /\ 1 \in 1 .. Len(page)
          BY <2>6
        <4>2. page[1] = old + 1
          BY <2>6, <4>1
        <4>3. QED
          BY <2>2, <4>1, <4>2
      <3>3. QED
        BY <3>1, <3>2, <2>7 DEF InOrder
    <2>9. poll'.left = page /\ poll'.snap = poll.snap /\ poll'.last = poll.last
      BY <2>4, <1>b
    <2>10. QED
      BY <2>1, <2>8, <2>9, <1>a, <1>b, <1>c
  <1>15. CASE PollPosts
    <2>1. UNCHANGED <<meta, sender, revoking, dialogue, chat>>
      BY <1>15 DEF PollPosts
    <2>2. PICK l \in Seq(Numbers) : l = poll.left
      BY <1>c
    <2>3. poll' = [poll EXCEPT !.left = Tail(l), !.last = Head(l)] /\ poll.at = "post" /\ l # << >>
      BY <1>15, <2>2, <1>b DEF PollPosts, PollNext
    <2>4. InOrder(l)
      BY <2>2, <2>3
    <2>5. PICK rest, h : rest = Tail(l) /\ h = Head(l)
      OBVIOUS
    <2>6. poll'.left = rest /\ poll'.snap = poll.snap /\ poll'.last = h
      BY <2>3, <2>5, <1>b
    <2>7. h = l[1] /\ h \in 1 .. Len(chat) /\ Passes(h - 1)
      BY <2>3, <2>4, <2>5 DEF InOrder
    <2>8. chat[h] = "in" => h \in passed' \cup dropped'
      BY <1>15, <2>2, <2>5 DEF PollPosts
    <2>9. Passes(h - 1)'
      BY <2>7, <1>a
    <2>10. Passes(h)'
      BY <2>1, <2>7, <2>8, <2>9, <1>a DEF Passes
    <2>11. InOrder(rest)'
      <3>1. /\ rest \in Seq(Numbers) /\ Len(rest) = Len(l) - 1
            /\ \A i \in 1 .. Len(rest) : rest[i] = l[i + 1] /\ i + 1 \in 1 .. Len(l)
        BY <2>3, <2>5
      <3>2. ASSUME NEW i \in 1 .. Len(rest)
            PROVE  rest[i] = rest[1] + (i - 1) /\ rest[i] \in 1 .. Len(chat')
        <4>1. /\ i \in Nat /\ i + 1 \in 1 .. Len(l) /\ 2 \in 1 .. Len(l)
              /\ rest[i] = l[i + 1] /\ rest[1] = l[2] /\ l[1] \in Nat
          BY <3>1, <2>7
        <4>2. l[i + 1] = l[1] + i /\ l[i + 1] \in 1 .. Len(chat) /\ l[2] = l[1] + 1
          <5>1. l[i + 1] = l[1] + ((i + 1) - 1) /\ l[i + 1] \in 1 .. Len(chat) /\ l[2] = l[1] + (2 - 1)
            BY <4>1, <2>4 DEF InOrder
          <5>2. QED
            BY <5>1, <4>1
        <4>3. QED
          BY <4>1, <4>2, <2>1
      <3>3. rest # << >> => rest[1] - 1 = h
        <4> SUFFICES ASSUME rest # << >> PROVE rest[1] - 1 = h
          OBVIOUS
        <4>1. 1 \in 1 .. Len(rest)
          BY <3>1
        <4>2. 2 \in 1 .. Len(l) /\ rest[1] = l[2] /\ l[1] \in Nat
          BY <3>1, <4>1, <2>7
        <4>3. l[2] = l[1] + (2 - 1)
          BY <2>4, <4>2 DEF InOrder
        <4>4. QED
          BY <4>2, <4>3, <2>7
      <3>4. QED
        BY <3>2, <3>3, <2>10 DEF InOrder
    <2>12. QED
      BY <2>1, <2>6, <2>10, <2>11, <1>a, <1>b, <1>c
  <1>16. CASE PollRefused
    BY <1>16, <1>a, <1>b DEF PollRefused, StopsAtIt
  <1>17. CASE PollSaves
    BY <1>17, <1>a, <1>b DEF PollSaves, SaveMeta
  <1>18. CASE PollRaises
    BY <1>18, <1>a, <1>b DEF PollRaises
  <1>19. CASE CallRevoke
    BY <1>19, <1>a, <1>b DEF CallRevoke
  <1>20. CASE LockRevoke
    BY <1>20, <1>a, <1>b DEF LockRevoke, RevokeEnters
  <1>21. CASE Revoke
    BY <1>21, <1>a, <1>b DEF Revoke, SaveMeta
  <1>22. CASE OpenQr
    BY <1>22, <1>a, <1>b DEF OpenQr
  <1>23. CASE QrOpened
    <2>1. UNCHANGED <<poll, sender, revoking>> /\ meta' \in {meta, dialogue.snap}
      BY <1>23 DEF QrOpened, SaveMeta
    <2>2. dialogue'.snap.cursor = 0
      BY <1>23 DEF QrOpened
    <2>3. QED
      BY <2>1, <2>2, <1>a, <1>b, <1>c
  <1>24. CASE Activate
    BY <1>24, <1>a, <1>b DEF Activate
  <1>25. CASE QrOver
    BY <1>25, <1>a, <1>b DEF QrOver
  <1>26. CASE ClientsCrash
    BY <1>26, <1>a, <1>b DEF ClientsCrash
  <1>27. QED
    BY <1>1, <1>2, <1>3, <1>4, <1>5, <1>6, <1>7, <1>8, <1>9, <1>10, <1>11, <1>12, <1>13, <1>14, <1>15, <1>16, <1>17, <1>18, <1>19, <1>20, <1>21, <1>22, <1>23, <1>24, <1>25, <1>26 DEF ClientsNext

LEMMA SentOnceStep ==
    ASSUME Typed, KeysRecalled, SentOnce, [ClientsNext]_clientVars
    PROVE  SentOnce'
  <1>a. /\ sent \in [DmKeys -> 0 .. 2]
        /\ \A s \in Senders :
              sender[s].at = "sending"
                => /\ sender[s].key \in DmKeys
                   /\ sender[s].key \in unsure \/ sent[sender[s].key] = 0
    BY DEF Typed, SentOK, SendersOK, KeysRecalled
  <1> USE DEF SentOnce, calls, histories
  <1>1. CASE UNCHANGED clientVars
    BY <1>1 DEF clientVars, calls, histories
  <1>2. ASSUME NEW s \in Senders, NEW k \in DmKeys, CallSend(s, k) PROVE SentOnce'
    BY <1>2, <1>a DEF CallSend
  <1>3. ASSUME NEW s \in Senders, LockSend(s) PROVE SentOnce'
    BY <1>3, <1>a DEF LockSend, KnownByNow, Returns, Goes
  <1>4. ASSUME NEW s \in Senders, Sent(s) PROVE SentOnce'
    <2>1. PICK key \in DmKeys : key = sender[s].key
      BY <1>4, <1>a DEF Sent
    <2>2. PICK n : n = OnceMore(key)
      OBVIOUS
    <2>3. key \in unsure \/ n = 1
      BY <1>4, <1>a, <2>1, <2>2 DEF Sent, OnceMore
    <2>4. Ages(meta, key, n) /\ unsure' = unsure
      BY <1>4, <2>1, <2>2 DEF Sent
    <2>5. \A k \in DmKeys : sent'[k] \in {0, sent[k]} \/ (k = key /\ sent'[k] = n)
      <3>1. sent' = [j \in DmKeys |-> IF j \in Outdone(meta, key) THEN 0 ELSE IF j = key THEN n ELSE sent[j]]
        BY <2>4 DEF Ages
      <3>2. QED
        BY <3>1
    <2>6. QED
      BY <1>a, <2>3, <2>4, <2>5
  <1>5. ASSUME NEW s \in Senders, SendRefused(s) PROVE SentOnce'
    <2>1. PICK key \in DmKeys : key = sender[s].key
      BY <1>5, <1>a DEF SendRefused
    <2>2. PICK m : Ages(m, key, sent[key])
      BY <1>5, <2>1, Zenon DEF SendRefused
    <2>3. \A k \in DmKeys : sent'[k] \in {0, sent[k]}
      BY <2>2 DEF Ages
    <2>4. unsure \subseteq unsure'
      BY <1>5 DEF SendRefused, SaveMeta
    <2>5. QED
      BY <1>a, <2>3, <2>4
  <1>6. ASSUME NEW s \in Senders, SendRaises(s) PROVE SentOnce'
    BY <1>6, <1>a DEF SendRaises, OnceMore
  <1>7. ASSUME NEW s \in Senders, CallWatch(s) PROVE SentOnce'
    BY <1>7, <1>a DEF CallWatch, Goes
  <1>8. ASSUME NEW s \in Senders, LockWatch(s) PROVE SentOnce'
    BY <1>8, <1>a DEF LockWatch, Returns, Goes
  <1>9. ASSUME NEW s \in Senders, WatchLatest(s) PROVE SentOnce'
    BY <1>9, <1>a DEF WatchLatest, SaveMeta
  <1>10. ASSUME NEW s \in Senders, AdvanceCursor(s) PROVE SentOnce'
    BY <1>10, <1>a DEF AdvanceCursor, Returns
  <1>11. CASE Answered
    BY <1>11, <1>a DEF Answered
  <1>12. CASE PollLists
    BY <1>12, <1>a DEF PollLists
  <1>13. CASE LockPoll
    BY <1>13, <1>a DEF LockPoll
  <1>14. CASE PollReads
    BY <1>14, <1>a DEF PollReads, Oldest
  <1>15. CASE PollPosts
    BY <1>15, <1>a DEF PollPosts, PollNext
  <1>16. CASE PollRefused
    BY <1>16, <1>a DEF PollRefused, StopsAtIt
  <1>17. CASE PollSaves
    BY <1>17, <1>a DEF PollSaves, SaveMeta
  <1>18. CASE PollRaises
    BY <1>18, <1>a DEF PollRaises
  <1>19. CASE CallRevoke
    BY <1>19, <1>a DEF CallRevoke
  <1>20. CASE LockRevoke
    BY <1>20, <1>a DEF LockRevoke, RevokeEnters
  <1>21. CASE Revoke
    BY <1>21, <1>a DEF Revoke, SaveMeta
  <1>22. CASE OpenQr
    BY <1>22, <1>a DEF OpenQr
  <1>23. CASE QrOpened
    BY <1>23, <1>a DEF QrOpened, SaveMeta
  <1>24. CASE Activate
    BY <1>24, <1>a DEF Activate
  <1>25. CASE QrOver
    BY <1>25, <1>a DEF QrOver
  <1>26. CASE ClientsCrash
    BY <1>26, <1>a DEF ClientsCrash
  <1>27. QED
    BY <1>1, <1>2, <1>3, <1>4, <1>5, <1>6, <1>7, <1>8, <1>9, <1>10, <1>11, <1>12, <1>13, <1>14, <1>15, <1>16, <1>17, <1>18, <1>19, <1>20, <1>21, <1>22, <1>23, <1>24, <1>25, <1>26 DEF ClientsNext

-----------------------------------------------------------------------------
ClientsInv == Typed /\ MutexHeld /\ LoginKnown /\ KeysRecalled /\ CursorsPass /\ SentOnce

LEMMA ClientsInitially == ASSUME ClientsInit PROVE ClientsInv
  <1> USE DEF ClientsInit, NewCall, Asleep, Silent
  <1>1. Typed
    BY NewMetaIsMeta, AsleepTyped, ClientSessionsAssumption
       DEF Typed, MetaOK, SendersOK, PollOK, RevokingOK, DialogueOK, ChatOK, SentOK, PassedOK, Sender, Listener
  <1>2. MutexHeld /\ LoginKnown /\ KeysRecalled /\ SentOnce
    BY DEF MutexHeld, LoginKnown, Fresh, KeysRecalled, Recalls, SentOnce, NewMeta
  <1>3. CursorsPass
    BY <1>1, PassesNone, ClientSessionsAssumption DEF CursorsPass, Typed, NewMeta
  <1>4. QED
    BY <1>1, <1>2, <1>3 DEF ClientsInv

\* The inductive invariant of the client sessions: who holds the mutex, and what is
\* true of the meta each of the calls has read.
THEOREM ClientsInvariant == ClientsSpec => []ClientsInv
  <1>1. ClientsInit => ClientsInv
    BY ClientsInitially
  <1>2. ClientsInv /\ [ClientsNext]_clientVars => ClientsInv'
    BY TypedStep, MutexStep, LoginStep, KeysStep, CursorsStep, SentOnceStep DEF ClientsInv
  <1>3. QED
    BY <1>1, <1>2, PTL DEF ClientsSpec

\* SentOnce: a message is sent once for an idempotency key, however many calls use
\* it, unless the outcome of one of them cannot be known (send_dm) or the file has
\* dropped the key for Kept newer ones (remember_idempotency).
THEOREM SentOnlyOnce == ClientsSpec => []SentOnce
  <1>1. ClientsInv => SentOnce
    BY DEF ClientsInv
  <1>2. QED
    BY <1>1, ClientsInvariant, PTL

\* RevokedUntilLogin: no call that writes an older meta makes a revoked client
\* active again; _activate alone does.
THEOREM RevokedStaysRevoked == ClientsSpec => []RevokedUntilLogin
  <1>1. ClientsInv => RevokedUntilLogin
    BY DEF ClientsInv, LoginKnown, Fresh, RevokedUntilLogin
  <1>2. QED
    BY <1>1, ClientsInvariant, PTL

\* PostedOrPassed: the cursor of the listener passes no message of the peer before the
\* webhook took it or turned it down for good (a status below 500 but 401, poll_once),
\* but for those the watch, a message sent, or a full page jumps over.
THEOREM CursorPassesPosted == ClientsSpec => []PostedOrPassed
  <1>1. ClientsInv => PostedOrPassed
    BY DEF ClientsInv, CursorsPass, Passes, PostedOrPassed
  <1>2. QED
    BY <1>1, ClientsInvariant, PTL

-----------------------------------------------------------------------------
\* Parser jobs and their handlers.

ParsersSpec == ParsersInit /\ [][ParsersNext]_parserVars

\* The types, and the parser of each handler at work and of each action queued.
HandlersTyped ==
    /\ handler \in [Handlers -> Handler]
    /\ \A h \in Handlers :
          /\ handler[h].kind = "none" <=> handler[h].parser = NoParser
          /\ handler[h].kind = "stop" <=> handler[h].at \in {"stopping", "removing"}

ActionsTyped ==
    /\ action \in [Actions -> Action] /\ executions \in [Actions -> Nat]
    /\ loop \in Loop /\ (loop.at \in {"batch", "start"} <=> loop.act # NoParser)
    /\ loop.act # NoParser => action[loop.act].status = "running"
    /\ \A a \in Actions : action[a].status # "new" => action[a].parser \in ParserIds

PlacesTyped ==
    /\ registry \subseteq ParserIds /\ jobs \subseteq ParserIds /\ listening \subseteq ParserIds
    /\ batches \in [ParserIds -> SUBSET Actions]
    /\ record \in [ParserIds -> (SUBSET Actions) \cup {NoParser}]
    /\ jobsFile \in {"ok", "zeroed"} /\ undone \in Undone

ParsersTyped == HandlersTyped /\ ActionsTyped /\ PlacesTyped

LEMMA HandlersTypedStep ==
    ASSUME ParsersTyped, [ParsersNext]_parserVars
    PROVE  HandlersTyped'
  <1> USE DEF ParsersTyped, HandlersTyped, Handler, IdleHandler, QueueUntouched
  <1>1. CASE UNCHANGED parserVars
    BY <1>1, ParsersAssumption DEF parserVars
  <1>2. ASSUME NEW h \in Handlers, NEW p \in ParserIds, StartParser(h, p) PROVE HandlersTyped'
    BY <1>2, ParsersAssumption DEF StartParser, Handles
  <1>3. ASSUME NEW h \in Handlers, NEW p \in ParserIds, StopParser(h, p) PROVE HandlersTyped'
    BY <1>3, ParsersAssumption DEF StopParser, Handles
  <1>4. ASSUME NEW h \in Handlers, NEW p \in ParserIds, AddChannels(h, p) PROVE HandlersTyped'
    BY <1>4, ParsersAssumption DEF AddChannels, Handles
  <1>5. ASSUME NEW h \in Handlers, StartChannelsAdded(h) PROVE HandlersTyped'
    BY <1>5, ParsersAssumption DEF StartChannelsAdded, Handles, Replies, RemovesClump
  <1>6. ASSUME NEW h \in Handlers, ParserStarted(h) PROVE HandlersTyped'
    BY <1>6, ParsersAssumption DEF ParserStarted, Upsert, Replies, RemovesClump
  <1>7. ASSUME NEW h \in Handlers, RemoveClump(h) PROVE HandlersTyped'
    BY <1>7, ParsersAssumption DEF RemoveClump, Handles
  <1>8. ASSUME NEW h \in Handlers, ParserStopped(h) PROVE HandlersTyped'
    BY <1>8, ParsersAssumption DEF ParserStopped, Delete, Replies, BusyWith
  <1>9. ASSUME NEW h \in Handlers, ChannelsAdded(h) PROVE HandlersTyped'
    BY <1>9, ParsersAssumption DEF ChannelsAdded, Handles, Replies
  <1>10. ASSUME NEW h \in Handlers, ClumpSaved(h) PROVE HandlersTyped'
    BY <1>10, ParsersAssumption DEF ClumpSaved, Upsert, Replies
  <1>11. ASSUME NEW a \in Actions, NEW p \in ParserIds, EnqueueAction(a, p) PROVE HandlersTyped'
    BY <1>11, ParsersAssumption DEF EnqueueAction
  <1>12. CASE RunAction
    BY <1>12, ParsersAssumption DEF RunAction, NextQueued, Sets, Runs
  <1>13. CASE BatchAdded
    BY <1>13, ParsersAssumption DEF BatchAdded, Sets
  <1>14. CASE ActionDone
    BY <1>14, ParsersAssumption DEF ActionDone, Upsert, Sets
  <1>15. CASE LoopDies
    BY <1>15, ParsersAssumption DEF LoopDies
  <1>16. CASE ProcessRestart
    BY <1>16, ParsersAssumption DEF ProcessRestart
  <1>17. CASE FileZeroed
    BY <1>17, ParsersAssumption DEF FileZeroed
  <1>18. QED
    BY <1>1, <1>2, <1>3, <1>4, <1>5, <1>6, <1>7, <1>8, <1>9, <1>10, <1>11, <1>12, <1>13, <1>14, <1>15, <1>16, <1>17 DEF ParsersNext

LEMMA ActionsTypedStep ==
    ASSUME ParsersTyped, [ParsersNext]_parserVars
    PROVE  ActionsTyped'
  <1> USE DEF ParsersTyped, ActionsTyped, Action, Loop, IdleLoop, QueueUntouched
  <1>1. CASE UNCHANGED parserVars
    BY <1>1, ParsersAssumption DEF parserVars
  <1>2. ASSUME NEW h \in Handlers, NEW p \in ParserIds, StartParser(h, p) PROVE ActionsTyped'
    BY <1>2, ParsersAssumption DEF StartParser, Handles
  <1>3. ASSUME NEW h \in Handlers, NEW p \in ParserIds, StopParser(h, p) PROVE ActionsTyped'
    BY <1>3, ParsersAssumption DEF StopParser, Handles
  <1>4. ASSUME NEW h \in Handlers, NEW p \in ParserIds, AddChannels(h, p) PROVE ActionsTyped'
    BY <1>4, ParsersAssumption DEF AddChannels, Handles
  <1>5. ASSUME NEW h \in Handlers, StartChannelsAdded(h) PROVE ActionsTyped'
    BY <1>5, ParsersAssumption DEF StartChannelsAdded, Handles, Replies, RemovesClump
  <1>6. ASSUME NEW h \in Handlers, ParserStarted(h) PROVE ActionsTyped'
    BY <1>6, ParsersAssumption DEF ParserStarted, Upsert, Replies, RemovesClump
  <1>7. ASSUME NEW h \in Handlers, RemoveClump(h) PROVE ActionsTyped'
    BY <1>7, ParsersAssumption DEF RemoveClump, Handles
  <1>8. ASSUME NEW h \in Handlers, ParserStopped(h) PROVE ActionsTyped'
    BY <1>8, ParsersAssumption DEF ParserStopped, Delete, Replies, BusyWith
  <1>9. ASSUME NEW h \in Handlers, ChannelsAdded(h) PROVE ActionsTyped'
    BY <1>9, ParsersAssumption DEF ChannelsAdded, Handles, Replies
  <1>10. ASSUME NEW h \in Handlers, ClumpSaved(h) PROVE ActionsTyped'
    BY <1>10, ParsersAssumption DEF ClumpSaved, Upsert, Replies
  <1>11. ASSUME NEW a \in Actions, NEW p \in ParserIds, EnqueueAction(a, p) PROVE ActionsTyped'
    BY <1>11, ParsersAssumption DEF EnqueueAction
  <1>12. CASE RunAction
    BY <1>12, ParsersAssumption DEF RunAction, NextQueued, Sets, Runs
  <1>13. CASE BatchAdded
    BY <1>13, ParsersAssumption DEF BatchAdded, Sets
  <1>14. CASE ActionDone
    BY <1>14, ParsersAssumption DEF ActionDone, Upsert, Sets
  <1>15. CASE LoopDies
    BY <1>15, ParsersAssumption DEF LoopDies
  <1>16. CASE ProcessRestart
    BY <1>16, ParsersAssumption DEF ProcessRestart
  <1>17. CASE FileZeroed
    BY <1>17, ParsersAssumption DEF FileZeroed
  <1>18. QED
    BY <1>1, <1>2, <1>3, <1>4, <1>5, <1>6, <1>7, <1>8, <1>9, <1>10, <1>11, <1>12, <1>13, <1>14, <1>15, <1>16, <1>17 DEF ParsersNext

LEMMA PlacesTypedStep ==
    ASSUME ParsersTyped, [ParsersNext]_parserVars
    PROVE  PlacesTyped'
  <1> USE DEF ParsersTyped, HandlersTyped, ActionsTyped, PlacesTyped, Handler, Undone, Loop, Action, QueueUntouched
  <1>1. CASE UNCHANGED parserVars
    BY <1>1, ParsersAssumption DEF parserVars
  <1>2. ASSUME NEW h \in Handlers, NEW p \in ParserIds, StartParser(h, p) PROVE PlacesTyped'
    BY <1>2, ParsersAssumption DEF StartParser, Handles
  <1>3. ASSUME NEW h \in Handlers, NEW p \in ParserIds, StopParser(h, p) PROVE PlacesTyped'
    BY <1>3, ParsersAssumption DEF StopParser, Handles
  <1>4. ASSUME NEW h \in Handlers, NEW p \in ParserIds, AddChannels(h, p) PROVE PlacesTyped'
    BY <1>4, ParsersAssumption DEF AddChannels, Handles
  <1>5. ASSUME NEW h \in Handlers, StartChannelsAdded(h) PROVE PlacesTyped'
    BY <1>5, ParsersAssumption DEF StartChannelsAdded, Handles, Replies, RemovesClump
  <1>6. ASSUME NEW h \in Handlers, ParserStarted(h) PROVE PlacesTyped'
    BY <1>6, ParsersAssumption DEF ParserStarted, Upsert, Replies, RemovesClump
  <1>7. ASSUME NEW h \in Handlers, RemoveClump(h) PROVE PlacesTyped'
    BY <1>7, ParsersAssumption DEF RemoveClump, Handles
  <1>8. ASSUME NEW h \in Handlers, ParserStopped(h) PROVE PlacesTyped'
    <2>1. /\ registry' \subseteq ParserIds /\ jobs' \subseteq ParserIds /\ listening' \subseteq ParserIds
          /\ batches' = batches /\ jobsFile' = jobsFile
      BY <1>8 DEF ParserStopped, Delete
    <2>2. handler[h].parser \in ParserIds
      BY <1>8, ParsersAssumption DEF ParserStopped
    <2>3. record' \in [ParserIds -> (SUBSET Actions) \cup {NoParser}]
      BY <1>8 DEF ParserStopped, Delete
    <2>4. undone' \in Undone
      <3>1. CASE BusyWith(handler[h].parser, h)
        BY <1>8, <2>2, <3>1 DEF ParserStopped
      <3>2. CASE ~BusyWith(handler[h].parser, h)
        BY <1>8, <2>2, <3>2 DEF ParserStopped
      <3>3. QED
        BY <3>1, <3>2
    <2>5. QED
      BY <2>1, <2>3, <2>4
  <1>9. ASSUME NEW h \in Handlers, ChannelsAdded(h) PROVE PlacesTyped'
    BY <1>9, ParsersAssumption DEF ChannelsAdded, Handles, Replies
  <1>10. ASSUME NEW h \in Handlers, ClumpSaved(h) PROVE PlacesTyped'
    BY <1>10, ParsersAssumption DEF ClumpSaved, Upsert, Replies
  <1>11. ASSUME NEW a \in Actions, NEW p \in ParserIds, EnqueueAction(a, p) PROVE PlacesTyped'
    BY <1>11, ParsersAssumption DEF EnqueueAction
  <1>12. CASE RunAction
    BY <1>12, ParsersAssumption DEF RunAction, NextQueued, Sets, Runs
  <1>13. CASE BatchAdded
    BY <1>13, ParsersAssumption DEF BatchAdded, Sets
  <1>14. CASE ActionDone
    BY <1>14, ParsersAssumption DEF ActionDone, Upsert, Sets
  <1>15. CASE LoopDies
    BY <1>15, ParsersAssumption DEF LoopDies
  <1>16. CASE ProcessRestart
    BY <1>16, ParsersAssumption DEF ProcessRestart
  <1>17. CASE FileZeroed
    BY <1>17, ParsersAssumption DEF FileZeroed
  <1>18. QED
    BY <1>1, <1>2, <1>3, <1>4, <1>5, <1>6, <1>7, <1>8, <1>9, <1>10, <1>11, <1>12, <1>13, <1>14, <1>15, <1>16, <1>17 DEF ParsersNext
-----------------------------------------------------------------------------
\* Who is at work on a parser that was stopped overtook the stop.
HandlersTrue ==
    \A h \in Handlers :
       /\ handler[h].parser \in undone.stopped => handler[h].parser \in undone.overtaken
       /\ handler[h].at = "removing" => handler[h].parser \notin registry
       /\ handler[h].kind = "add" => handler[h].parser \in jobs \cup undone.overtaken

LoopTrue ==
    loop.act # NoParser =>
       LET p == action[loop.act].parser IN
       /\ p \in undone.stopped => p \in undone.overtaken
       /\ loop.at = "start" => loop.act \in batches[p]

FileTrue == jobsFile = "zeroed" => \A p \in ParserIds : record[p] = NoParser

\* What the clump of a parser has is what its record is written from.
RowsTrue ==
    \A a \in Actions :
       /\ action[a].status \in {"new", "queued"} => executions[a] = 0
       /\ executions[a] <= 1
       /\ action[a].status = "done" =>
             LET p == action[a].parser IN
             \/ p \in undone.stopped \cup undone.lost
             \/ a \in batches[p] /\ record[p] # NoParser /\ a \in record[p]

ParsersTrue == ParsersTyped /\ HandlersTrue /\ LoopTrue /\ FileTrue /\ RowsTrue
                 /\ StoppedStaysStopped /\ RegistryHasJobs

LEMMA HandlersTrueStep ==
    ASSUME ParsersTrue, [ParsersNext]_parserVars
    PROVE  HandlersTrue'
  <1> USE DEF ParsersTrue, ParsersTyped, HandlersTyped, ActionsTyped, PlacesTyped, Handler, Action, Loop, Undone, IdleHandler, IdleLoop, HandlersTrue, StoppedStaysStopped, QueueUntouched
  <1>1. CASE UNCHANGED parserVars
    BY <1>1, ParsersAssumption DEF parserVars
  <1>2. ASSUME NEW h \in Handlers, NEW p \in ParserIds, StartParser(h, p) PROVE HandlersTrue'
    BY <1>2, ParsersAssumption DEF StartParser, Handles
  <1>3. ASSUME NEW h \in Handlers, NEW p \in ParserIds, StopParser(h, p) PROVE HandlersTrue'
    BY <1>3, ParsersAssumption DEF StopParser, Handles
  <1>4. ASSUME NEW h \in Handlers, NEW p \in ParserIds, AddChannels(h, p) PROVE HandlersTrue'
    BY <1>4, ParsersAssumption DEF AddChannels, Handles
  <1>5. ASSUME NEW h \in Handlers, StartChannelsAdded(h) PROVE HandlersTrue'
    <2>1. CASE Handles(h, "start", handler[h].parser, "start") /\ UNCHANGED <<registry, undone>>
      BY <1>5, <2>1, ParsersAssumption DEF StartChannelsAdded, Handles
    <2>2. CASE Replies(h) /\ RemovesClump(handler[h].parser) /\ UNCHANGED undone
      BY <1>5, <2>2, ParsersAssumption DEF StartChannelsAdded, Replies, RemovesClump
    <2>3. CASE /\ Replies(h) /\ UNCHANGED registry
               /\ undone' = [undone EXCEPT !.leaked = @ \cup {handler[h].parser}]
      BY <1>5, <2>3, ParsersAssumption DEF StartChannelsAdded, Replies
    <2>4. QED
      BY <1>5, <2>1, <2>2, <2>3 DEF StartChannelsAdded
  <1>6. ASSUME NEW h \in Handlers, ParserStarted(h) PROVE HandlersTrue'
    BY <1>6, ParsersAssumption DEF ParserStarted, Upsert, Replies, RemovesClump
  <1>7. ASSUME NEW h \in Handlers, RemoveClump(h) PROVE HandlersTrue'
    BY <1>7, ParsersAssumption DEF RemoveClump, Handles
  <1>8. ASSUME NEW h \in Handlers, ParserStopped(h) PROVE HandlersTrue'
    BY <1>8, ParsersAssumption DEF ParserStopped, Delete, Replies, BusyWith
  <1>9. ASSUME NEW h \in Handlers, ChannelsAdded(h) PROVE HandlersTrue'
    BY <1>9, ParsersAssumption DEF ChannelsAdded, Handles, Replies
  <1>10. ASSUME NEW h \in Handlers, ClumpSaved(h) PROVE HandlersTrue'
    BY <1>10, ParsersAssumption DEF ClumpSaved, Upsert, Replies
  <1>11. ASSUME NEW a \in Actions, NEW p \in ParserIds, EnqueueAction(a, p) PROVE HandlersTrue'
    BY <1>11, ParsersAssumption DEF EnqueueAction
  <1>12. CASE RunAction
    BY <1>12, ParsersAssumption DEF RunAction, NextQueued, Sets, Runs
  <1>13. CASE BatchAdded
    BY <1>13, ParsersAssumption DEF BatchAdded, Sets
  <1>14. CASE ActionDone
    BY <1>14, ParsersAssumption DEF ActionDone, Upsert, Sets
  <1>15. CASE LoopDies
    BY <1>15, ParsersAssumption DEF LoopDies
  <1>16. CASE ProcessRestart
    BY <1>16, ParsersAssumption DEF ProcessRestart
  <1>17. CASE FileZeroed
    BY <1>17, ParsersAssumption DEF FileZeroed
  <1>18. QED
    BY <1>1, <1>2, <1>3, <1>4, <1>5, <1>6, <1>7, <1>8, <1>9, <1>10, <1>11, <1>12, <1>13, <1>14, <1>15, <1>16, <1>17 DEF ParsersNext

LEMMA LoopTrueStep ==
    ASSUME ParsersTrue, [ParsersNext]_parserVars
    PROVE  LoopTrue'
  <1> USE DEF ParsersTrue, ParsersTyped, HandlersTyped, ActionsTyped, PlacesTyped, Handler, Action, Loop, Undone, IdleHandler, IdleLoop, LoopTrue, StoppedStaysStopped, QueueUntouched
  <1>1. CASE UNCHANGED parserVars
    BY <1>1, ParsersAssumption DEF parserVars
  <1>2. ASSUME NEW h \in Handlers, NEW p \in ParserIds, StartParser(h, p) PROVE LoopTrue'
    BY <1>2, ParsersAssumption DEF StartParser, Handles
  <1>3. ASSUME NEW h \in Handlers, NEW p \in ParserIds, StopParser(h, p) PROVE LoopTrue'
    BY <1>3, ParsersAssumption DEF StopParser, Handles
  <1>4. ASSUME NEW h \in Handlers, NEW p \in ParserIds, AddChannels(h, p) PROVE LoopTrue'
    BY <1>4, ParsersAssumption DEF AddChannels, Handles
  <1>5. ASSUME NEW h \in Handlers, StartChannelsAdded(h) PROVE LoopTrue'
    BY <1>5, ParsersAssumption DEF StartChannelsAdded, Handles, Replies, RemovesClump
  <1>6. ASSUME NEW h \in Handlers, ParserStarted(h) PROVE LoopTrue'
    BY <1>6, ParsersAssumption DEF ParserStarted, Upsert, Replies, RemovesClump
  <1>7. ASSUME NEW h \in Handlers, RemoveClump(h) PROVE LoopTrue'
    BY <1>7, ParsersAssumption DEF RemoveClump, Handles
  <1>8. ASSUME NEW h \in Handlers, ParserStopped(h) PROVE LoopTrue'
    BY <1>8, ParsersAssumption DEF ParserStopped, Delete, Replies, BusyWith
  <1>9. ASSUME NEW h \in Handlers, ChannelsAdded(h) PROVE LoopTrue'
    BY <1>9, ParsersAssumption DEF ChannelsAdded, Handles, Replies
  <1>10. ASSUME NEW h \in Handlers, ClumpSaved(h) PROVE LoopTrue'
    BY <1>10, ParsersAssumption DEF ClumpSaved, Upsert, Replies
  <1>11. ASSUME NEW a \in Actions, NEW p \in ParserIds, EnqueueAction(a, p) PROVE LoopTrue'
    BY <1>11, ParsersAssumption DEF EnqueueAction
  <1>12. CASE RunAction
    BY <1>12, ParsersAssumption DEF RunAction, NextQueued, Sets, Runs
  <1>13. CASE BatchAdded
    BY <1>13, ParsersAssumption DEF BatchAdded, Sets
  <1>14. CASE ActionDone
    BY <1>14, ParsersAssumption DEF ActionDone, Upsert, Sets
  <1>15. CASE LoopDies
    BY <1>15, ParsersAssumption DEF LoopDies
  <1>16. CASE ProcessRestart
    BY <1>16, ParsersAssumption DEF ProcessRestart
  <1>17. CASE FileZeroed
    BY <1>17, ParsersAssumption DEF FileZeroed
  <1>18. QED
    BY <1>1, <1>2, <1>3, <1>4, <1>5, <1>6, <1>7, <1>8, <1>9, <1>10, <1>11, <1>12, <1>13, <1>14, <1>15, <1>16, <1>17 DEF ParsersNext

LEMMA FileTrueStep ==
    ASSUME ParsersTrue, [ParsersNext]_parserVars
    PROVE  FileTrue'
  <1> USE DEF ParsersTrue, ParsersTyped, HandlersTyped, ActionsTyped, PlacesTyped, Handler, Action, Loop, Undone, IdleHandler, IdleLoop, FileTrue, QueueUntouched
  <1>1. CASE UNCHANGED parserVars
    BY <1>1, ParsersAssumption DEF parserVars
  <1>2. ASSUME NEW h \in Handlers, NEW p \in ParserIds, StartParser(h, p) PROVE FileTrue'
    BY <1>2, ParsersAssumption DEF StartParser, Handles
  <1>3. ASSUME NEW h \in Handlers, NEW p \in ParserIds, StopParser(h, p) PROVE FileTrue'
    BY <1>3, ParsersAssumption DEF StopParser, Handles
  <1>4. ASSUME NEW h \in Handlers, NEW p \in ParserIds, AddChannels(h, p) PROVE FileTrue'
    BY <1>4, ParsersAssumption DEF AddChannels, Handles
  <1>5. ASSUME NEW h \in Handlers, StartChannelsAdded(h) PROVE FileTrue'
    BY <1>5, ParsersAssumption DEF StartChannelsAdded, Handles, Replies, RemovesClump
  <1>6. ASSUME NEW h \in Handlers, ParserStarted(h) PROVE FileTrue'
    BY <1>6, ParsersAssumption DEF ParserStarted, Upsert, Replies, RemovesClump
  <1>7. ASSUME NEW h \in Handlers, RemoveClump(h) PROVE FileTrue'
    BY <1>7, ParsersAssumption DEF RemoveClump, Handles
  <1>8. ASSUME NEW h \in Handlers, ParserStopped(h) PROVE FileTrue'
    BY <1>8, ParsersAssumption DEF ParserStopped, Delete, Replies, BusyWith
  <1>9. ASSUME NEW h \in Handlers, ChannelsAdded(h) PROVE FileTrue'
    BY <1>9, ParsersAssumption DEF ChannelsAdded, Handles, Replies
  <1>10. ASSUME NEW h \in Handlers, ClumpSaved(h) PROVE FileTrue'
    BY <1>10, ParsersAssumption DEF ClumpSaved, Upsert, Replies
  <1>11. ASSUME NEW a \in Actions, NEW p \in ParserIds, EnqueueAction(a, p) PROVE FileTrue'
    BY <1>11, ParsersAssumption DEF EnqueueAction
  <1>12. CASE RunAction
    BY <1>12, ParsersAssumption DEF RunAction, NextQueued, Sets, Runs
  <1>13. CASE BatchAdded
    BY <1>13, ParsersAssumption DEF BatchAdded, Sets
  <1>14. CASE ActionDone
    BY <1>14, ParsersAssumption DEF ActionDone, Upsert, Sets
  <1>15. CASE LoopDies
    BY <1>15, ParsersAssumption DEF LoopDies
  <1>16. CASE ProcessRestart
    BY <1>16, ParsersAssumption DEF ProcessRestart
  <1>17. CASE FileZeroed
    BY <1>17, ParsersAssumption DEF FileZeroed
  <1>18. QED
    BY <1>1, <1>2, <1>3, <1>4, <1>5, <1>6, <1>7, <1>8, <1>9, <1>10, <1>11, <1>12, <1>13, <1>14, <1>15, <1>16, <1>17 DEF ParsersNext

LEMMA RowsTrueStep ==
    ASSUME ParsersTrue, [ParsersNext]_parserVars
    PROVE  RowsTrue'
  <1> USE DEF ParsersTrue, ParsersTyped, HandlersTyped, ActionsTyped, PlacesTyped, Handler, Action, Loop, Undone, IdleHandler, IdleLoop, LoopTrue, FileTrue, RowsTrue, QueueUntouched
  <1>1. CASE UNCHANGED parserVars
    BY <1>1, ParsersAssumption DEF parserVars
  <1>2. ASSUME NEW h \in Handlers, NEW p \in ParserIds, StartParser(h, p) PROVE RowsTrue'
    BY <1>2, ParsersAssumption DEF StartParser, Handles
  <1>3. ASSUME NEW h \in Handlers, NEW p \in ParserIds, StopParser(h, p) PROVE RowsTrue'
    BY <1>3, ParsersAssumption DEF StopParser, Handles
  <1>4. ASSUME NEW h \in Handlers, NEW p \in ParserIds, AddChannels(h, p) PROVE RowsTrue'
    BY <1>4, ParsersAssumption DEF AddChannels, Handles
  <1>5. ASSUME NEW h \in Handlers, StartChannelsAdded(h) PROVE RowsTrue'
    BY <1>5, ParsersAssumption DEF StartChannelsAdded, Handles, Replies, RemovesClump
  <1>6. ASSUME NEW h \in Handlers, ParserStarted(h) PROVE RowsTrue'
    BY <1>6, ParsersAssumption DEF ParserStarted, Upsert, Replies, RemovesClump
  <1>7. ASSUME NEW h \in Handlers, RemoveClump(h) PROVE RowsTrue'
    BY <1>7, ParsersAssumption DEF RemoveClump, Handles
  <1>8. ASSUME NEW h \in Handlers, ParserStopped(h) PROVE RowsTrue'
    BY <1>8, ParsersAssumption DEF ParserStopped, Delete, Replies, BusyWith
  <1>9. ASSUME NEW h \in Handlers, ChannelsAdded(h) PROVE RowsTrue'
    BY <1>9, ParsersAssumption DEF ChannelsAdded, Handles, Replies
  <1>10. ASSUME NEW h \in Handlers, ClumpSaved(h) PROVE RowsTrue'
    BY <1>10, ParsersAssumption DEF ClumpSaved, Upsert, Replies
  <1>11. ASSUME NEW a \in Actions, NEW p \in ParserIds, EnqueueAction(a, p) PROVE RowsTrue'
    BY <1>11, ParsersAssumption DEF EnqueueAction
  <1>12. CASE RunAction
    BY <1>12, ParsersAssumption DEF RunAction, NextQueued, Sets, Runs
  <1>13. CASE BatchAdded
    <2>1. loop.act \in Actions /\ action[loop.act].status = "running" /\ action[loop.act].parser \in ParserIds
      BY <1>13 DEF BatchAdded
    <2>2. UNCHANGED <<record, executions, undone>>
      BY <1>13 DEF BatchAdded
    <2>3. /\ \A p \in ParserIds : batches[p] \subseteq batches'[p]
          /\ \A a \in Actions : /\ action'[a].parser = action[a].parser
                               /\ \/ action'[a].status = action[a].status
                                  \/ action'[a].status = "failed"
      <3>1. CASE batches' = [batches EXCEPT ![action[loop.act].parser] = @ \cup {loop.act}] /\ UNCHANGED action
        <4>1. \A p \in ParserIds : batches[p] \subseteq batches'[p]
          <5>1. batches \in [ParserIds -> SUBSET Actions]
            OBVIOUS
          <5> HIDE DEF ParsersTrue
          <5>2. ASSUME NEW p \in ParserIds PROVE batches[p] \subseteq batches'[p]
            <6>1. CASE p = action[loop.act].parser
              BY <3>1, <5>1, <6>1
            <6>2. CASE p # action[loop.act].parser
              BY <3>1, <5>1, <6>2
            <6>3. QED
              BY <6>1, <6>2
          <5>3. QED
            BY <5>2
        <4>2. QED
          BY <3>1, <4>1
      <3>2. CASE Sets(loop.act, "failed") /\ UNCHANGED batches
        BY <2>1, <3>2 DEF Sets
      <3>3. QED
        BY <1>13, <3>1, <3>2 DEF BatchAdded
    <2>4. QED
      BY <2>2, <2>3
  <1>14. CASE ActionDone
    BY <1>14, ParsersAssumption DEF ActionDone, Upsert, Sets
  <1>15. CASE LoopDies
    BY <1>15, ParsersAssumption DEF LoopDies
  <1>16. CASE ProcessRestart
    BY <1>16, ParsersAssumption DEF ProcessRestart
  <1>17. CASE FileZeroed
    BY <1>17, ParsersAssumption DEF FileZeroed
  <1>18. QED
    BY <1>1, <1>2, <1>3, <1>4, <1>5, <1>6, <1>7, <1>8, <1>9, <1>10, <1>11, <1>12, <1>13, <1>14, <1>15, <1>16, <1>17 DEF ParsersNext

LEMMA StoppedStep ==
    ASSUME ParsersTrue, [ParsersNext]_parserVars
    PROVE  StoppedStaysStopped'
  <1> USE DEF ParsersTrue, ParsersTyped, HandlersTyped, ActionsTyped, PlacesTyped, Handler, Action, Loop, Undone, IdleHandler, IdleLoop, HandlersTrue, LoopTrue, FileTrue, StoppedStaysStopped, QueueUntouched
  <1>1. CASE UNCHANGED parserVars
    BY <1>1, ParsersAssumption DEF parserVars
  <1>2. ASSUME NEW h \in Handlers, NEW p \in ParserIds, StartParser(h, p) PROVE StoppedStaysStopped'
    BY <1>2, ParsersAssumption DEF StartParser, Handles
  <1>3. ASSUME NEW h \in Handlers, NEW p \in ParserIds, StopParser(h, p) PROVE StoppedStaysStopped'
    BY <1>3, ParsersAssumption DEF StopParser, Handles
  <1>4. ASSUME NEW h \in Handlers, NEW p \in ParserIds, AddChannels(h, p) PROVE StoppedStaysStopped'
    BY <1>4, ParsersAssumption DEF AddChannels, Handles
  <1>5. ASSUME NEW h \in Handlers, StartChannelsAdded(h) PROVE StoppedStaysStopped'
    BY <1>5, ParsersAssumption DEF StartChannelsAdded, Handles, Replies, RemovesClump
  <1>6. ASSUME NEW h \in Handlers, ParserStarted(h) PROVE StoppedStaysStopped'
    BY <1>6, ParsersAssumption DEF ParserStarted, Upsert, Replies, RemovesClump
  <1>7. ASSUME NEW h \in Handlers, RemoveClump(h) PROVE StoppedStaysStopped'
    BY <1>7, ParsersAssumption DEF RemoveClump, Handles
  <1>8. ASSUME NEW h \in Handlers, ParserStopped(h) PROVE StoppedStaysStopped'
    BY <1>8, ParsersAssumption DEF ParserStopped, Delete, Replies, BusyWith
  <1>9. ASSUME NEW h \in Handlers, ChannelsAdded(h) PROVE StoppedStaysStopped'
    BY <1>9, ParsersAssumption DEF ChannelsAdded, Handles, Replies
  <1>10. ASSUME NEW h \in Handlers, ClumpSaved(h) PROVE StoppedStaysStopped'
    BY <1>10, ParsersAssumption DEF ClumpSaved, Upsert, Replies
  <1>11. ASSUME NEW a \in Actions, NEW p \in ParserIds, EnqueueAction(a, p) PROVE StoppedStaysStopped'
    BY <1>11, ParsersAssumption DEF EnqueueAction
  <1>12. CASE RunAction
    BY <1>12, ParsersAssumption DEF RunAction, NextQueued, Sets, Runs
  <1>13. CASE BatchAdded
    BY <1>13, ParsersAssumption DEF BatchAdded, Sets
  <1>14. CASE ActionDone
    BY <1>14, ParsersAssumption DEF ActionDone, Upsert, Sets
  <1>15. CASE LoopDies
    BY <1>15, ParsersAssumption DEF LoopDies
  <1>16. CASE ProcessRestart
    BY <1>16, ParsersAssumption DEF ProcessRestart
  <1>17. CASE FileZeroed
    BY <1>17, ParsersAssumption DEF FileZeroed
  <1>18. QED
    BY <1>1, <1>2, <1>3, <1>4, <1>5, <1>6, <1>7, <1>8, <1>9, <1>10, <1>11, <1>12, <1>13, <1>14, <1>15, <1>16, <1>17 DEF ParsersNext

LEMMA RegistryStep ==
    ASSUME ParsersTrue, [ParsersNext]_parserVars
    PROVE  RegistryHasJobs'
  <1> USE DEF ParsersTrue, ParsersTyped, HandlersTyped, ActionsTyped, PlacesTyped, Handler, Action, Loop, Undone, IdleHandler, IdleLoop, HandlersTrue, RegistryHasJobs, QueueUntouched
  <1>1. CASE UNCHANGED parserVars
    BY <1>1, ParsersAssumption DEF parserVars
  <1>2. ASSUME NEW h \in Handlers, NEW p \in ParserIds, StartParser(h, p) PROVE RegistryHasJobs'
    BY <1>2, ParsersAssumption DEF StartParser, Handles
  <1>3. ASSUME NEW h \in Handlers, NEW p \in ParserIds, StopParser(h, p) PROVE RegistryHasJobs'
    BY <1>3, ParsersAssumption DEF StopParser, Handles
  <1>4. ASSUME NEW h \in Handlers, NEW p \in ParserIds, AddChannels(h, p) PROVE RegistryHasJobs'
    BY <1>4, ParsersAssumption DEF AddChannels, Handles
  <1>5. ASSUME NEW h \in Handlers, StartChannelsAdded(h) PROVE RegistryHasJobs'
    <2>1. handler[h].kind = "start" /\ UNCHANGED jobs /\ handler[h].parser \in ParserIds
      BY <1>5, ParsersAssumption DEF StartChannelsAdded
    <2>2. \A g \in Handlers \ {h} : handler'[g] = handler[g]
      BY <1>5 DEF StartChannelsAdded, Handles, Replies
    <2>3. CASE Handles(h, "start", handler[h].parser, "start") /\ UNCHANGED <<registry, undone>>
      BY <2>1, <2>2, <2>3 DEF Handles
    <2>4. CASE registry' = registry \ {handler[h].parser} /\ UNCHANGED undone
      BY <2>1, <2>2, <2>4
    <2>5. CASE undone' = [undone EXCEPT !.leaked = @ \cup {handler[h].parser}] /\ UNCHANGED registry
      <3>1. /\ undone'.leaked = undone.leaked \cup {handler[h].parser}
            /\ undone'.overtaken = undone.overtaken
        <4>1. undone \in Undone
          OBVIOUS
        <4> HIDE DEF ParsersTrue
        <4>2. QED
          BY <2>5, <4>1
      <3>2. QED
        BY <2>1, <2>2, <2>5, <3>1
    <2>6. QED
      BY <1>5, <2>3, <2>4, <2>5, Zenon DEF StartChannelsAdded, RemovesClump
  <1>6. ASSUME NEW h \in Handlers, ParserStarted(h) PROVE RegistryHasJobs'
    BY <1>6, ParsersAssumption DEF ParserStarted, Upsert, Replies, RemovesClump
  <1>7. ASSUME NEW h \in Handlers, RemoveClump(h) PROVE RegistryHasJobs'
    BY <1>7, ParsersAssumption DEF RemoveClump, Handles
  <1>8. ASSUME NEW h \in Handlers, ParserStopped(h) PROVE RegistryHasJobs'
    BY <1>8, ParsersAssumption DEF ParserStopped, Delete, Replies, BusyWith
  <1>9. ASSUME NEW h \in Handlers, ChannelsAdded(h) PROVE RegistryHasJobs'
    BY <1>9, ParsersAssumption DEF ChannelsAdded, Handles, Replies
  <1>10. ASSUME NEW h \in Handlers, ClumpSaved(h) PROVE RegistryHasJobs'
    BY <1>10, ParsersAssumption DEF ClumpSaved, Upsert, Replies
  <1>11. ASSUME NEW a \in Actions, NEW p \in ParserIds, EnqueueAction(a, p) PROVE RegistryHasJobs'
    BY <1>11, ParsersAssumption DEF EnqueueAction
  <1>12. CASE RunAction
    BY <1>12, ParsersAssumption DEF RunAction, NextQueued, Sets, Runs
  <1>13. CASE BatchAdded
    BY <1>13, ParsersAssumption DEF BatchAdded, Sets
  <1>14. CASE ActionDone
    BY <1>14, ParsersAssumption DEF ActionDone, Upsert, Sets
  <1>15. CASE LoopDies
    BY <1>15, ParsersAssumption DEF LoopDies
  <1>16. CASE ProcessRestart
    BY <1>16, ParsersAssumption DEF ProcessRestart
  <1>17. CASE FileZeroed
    BY <1>17, ParsersAssumption DEF FileZeroed
  <1>18. QED
    BY <1>1, <1>2, <1>3, <1>4, <1>5, <1>6, <1>7, <1>8, <1>9, <1>10, <1>11, <1>12, <1>13, <1>14, <1>15, <1>16, <1>17 DEF ParsersNext

LEMMA ParsersInitially == ASSUME ParsersInit PROVE ParsersTrue
  <1> USE ParsersAssumption DEF ParsersInit, IdleLoop, IdleHandler
  <1>1. HandlersTyped
    BY DEF HandlersTyped, Handler
  <1>2. ActionsTyped
    BY DEF ActionsTyped, Action, Loop
  <1>3. PlacesTyped
    BY DEF PlacesTyped, Undone
  <1>4. HandlersTrue /\ LoopTrue /\ FileTrue /\ RowsTrue
    BY DEF HandlersTrue, LoopTrue, FileTrue, RowsTrue
  <1>5. StoppedStaysStopped /\ RegistryHasJobs
    BY DEF StoppedStaysStopped, RegistryHasJobs
  <1>6. QED
    BY <1>1, <1>2, <1>3, <1>4, <1>5 DEF ParsersTrue, ParsersTyped

\* The inductive invariant of the parsers: who works on a parser knows of its stop,
\* and what a record is written from has what a finished action added.
THEOREM ParsersInvariant == ParsersSpec => []ParsersTrue
  <1>1. ParsersInit => ParsersTrue
    BY ParsersInitially
  <1>2. ParsersTrue /\ [ParsersNext]_parserVars => ParsersTrue'
    <2>1. SUFFICES ASSUME ParsersTrue, [ParsersNext]_parserVars PROVE ParsersTrue'
      OBVIOUS
    <2>2. ParsersTyped
      BY <2>1 DEF ParsersTrue
    <2>3. ParsersTyped'
      BY <2>1, <2>2, HandlersTypedStep, ActionsTypedStep, PlacesTypedStep DEF ParsersTyped
    <2>4. QED
      BY <2>1, <2>3, HandlersTrueStep, LoopTrueStep, FileTrueStep, RowsTrueStep, StoppedStep, RegistryStep
         DEF ParsersTrue
  <1>3. QED
    BY <1>1, <1>2, PTL DEF ParsersSpec

\* ParsersAgree: a parser that was stopped is in no place that brings it back, and
\* no clump is in the registry without a job, unless another operation overtook the
\* stop or a start raised.
THEOREM PlacesOfParsersAgree == ParsersSpec => []ParsersAgree
  <1>1. ParsersTrue => ParsersAgree
    BY DEF ParsersTrue, ParsersAgree
  <1>2. QED
    BY <1>1, ParsersInvariant, PTL

\* ActionsKept: an action of the queue is carried out at most once, and what a
\* finished one added is in the file after every restart.
THEOREM ActionsAreKept == ParsersSpec => []ActionsKept
  <1>1. ParsersTrue => ActionsKept
    BY DEF ParsersTrue, RowsTrue, ActionsKept, ActionAtMostOnce, DoneActionIsSaved
  <1>2. QED
    BY <1>1, ParsersInvariant, PTL

-----------------------------------------------------------------------------
\* Message ingress.

IngressSpec == IngressInit /\ [][IngressNext]_ingressVars

-----------------------------------------------------------------------------
\* A worker at work has a message; without Redis no handler publishes.
AtWork(d) == dispatcher[d].msg \in Messages

IngressInv ==
    /\ IngressTypeOK
    /\ \A d \in Dispatchers : dispatcher[d] = AtRest \/ AtWork(d)
    /\ ~redisMode => \A p \in Messages \X Hearers : publishing[p] = 0
    /\ Accounted

LEMMA DispatcherValues ==
    /\ AtRest \in Dispatcher /\ AtRest.msg \notin Messages
    /\ \A m \in Messages : [msg |-> m, attempt |-> 1] \in Dispatcher
    /\ \A w \in Dispatcher : w.attempt # Posts => Repeat(w) \in Dispatcher /\ Repeat(w).msg = w.msg
  <1>1. AtRest \in Dispatcher /\ AtRest.msg \notin Messages
    BY IngressAssumption DEF AtRest, Dispatcher
  <1>2. \A m \in Messages : [msg |-> m, attempt |-> 1] \in Dispatcher
    BY IngressAssumption DEF Dispatcher
  <1>3. ASSUME NEW w \in Dispatcher, w.attempt # Posts
        PROVE  Repeat(w) \in Dispatcher /\ Repeat(w).msg = w.msg
    BY <1>3, IngressAssumption DEF Repeat, Dispatcher
  <1>4. QED
    BY <1>1, <1>2, <1>3

LEMMA Counts == ASSUME NEW S, Count(S), stats \in [Counted -> Nat]
                PROVE  /\ stats' \in [Counted -> Nat]
                       /\ \A c \in Counted : /\ c \in S => stats'[c] = stats[c] + 1
                                            /\ c \notin S => stats'[c] = stats[c]
  BY DEF Count

LEMMA CountsOne == ASSUME NEW c \in Counted, Count({c}), stats \in [Counted -> Nat]
                   PROVE  /\ stats' \in [Counted -> Nat] /\ stats'[c] = stats[c] + 1
                          /\ \A e \in Counted \ {c} : stats'[e] = stats[e]
  BY DEF Count

LEMMA CountsTwo == ASSUME NEW c \in Counted, NEW e \in Counted, Count({c, e}), stats \in [Counted -> Nat]
                   PROVE  /\ stats'[c] = stats[c] + 1 /\ stats'[e] = stats[e] + 1
                          /\ \A x \in Counted \ {c, e} : stats'[x] = stats[x]
  BY DEF Count

\* What a step does to the number of posts under way.
LEMMA InFlightTakes ==
    ASSUME NEW d \in Dispatchers, dispatcher[d] = AtRest, dispatcher'[d] # AtRest,
           \A e \in Dispatchers \ {d} : dispatcher'[e] = dispatcher[e]
    PROVE  Cardinality(InFlight') = Cardinality(InFlight) + 1 /\ Cardinality(InFlight) \in Nat
  <1>1. IsFiniteSet(InFlight)
    BY IngressAssumption, FS_Subset DEF InFlight
  <1>2. InFlight' = InFlight \cup {d} /\ d \notin InFlight
    BY DEF InFlight
  <1>3. QED
    BY <1>1, <1>2, FS_AddElement, FS_CardinalityType

LEMMA InFlightEnds ==
    ASSUME NEW d \in Dispatchers, dispatcher[d] # AtRest, dispatcher'[d] = AtRest,
           \A e \in Dispatchers \ {d} : dispatcher'[e] = dispatcher[e]
    PROVE  Cardinality(InFlight') = Cardinality(InFlight) - 1 /\ Cardinality(InFlight) \in Nat
  <1>1. IsFiniteSet(InFlight)
    BY IngressAssumption, FS_Subset DEF InFlight
  <1>2. InFlight' = InFlight \ {d} /\ d \in InFlight
    BY DEF InFlight
  <1>3. QED
    BY <1>1, <1>2, FS_RemoveElement, FS_CardinalityType

WorkersSound ==
    /\ \A d \in Dispatchers : dispatcher[d] = AtRest \/ AtWork(d)
    /\ ~redisMode => \A p \in Messages \X Hearers : publishing[p] = 0

LEMMA HearStep ==
    ASSUME IngressInv, NEW m \in Messages, NEW l \in Hearers, Hear(m, l)
    PROVE  IngressInv'
  <1>1. UNCHANGED <<redisMode, dispatcher, kept>> /\ heard' = [heard EXCEPT ![m] = @ \cup {l}]
    BY DEF Hear
  <1>2. InFlight' = InFlight /\ Cardinality(InFlight) \in Nat
    BY <1>1, IngressAssumption, FS_Subset, FS_CardinalityType DEF InFlight
  <1>3. IngressTypeOK /\ WorkersSound /\ IngressAddsUp /\ NoSilentLoss
    BY DEF IngressInv, WorkersSound, Accounted
  <1>4. heard' \in [Messages -> SUBSET Hearers]
        /\ \A n \in Messages : heard'[n] # {} => heard[n] # {} \/ n = m
    BY <1>1, <1>3 DEF IngressTypeOK
  <1>5. CASE redisMode
    <2>1. publishing' = [publishing EXCEPT ![<<m, l>>] = Posts] /\ UNCHANGED <<inbox, stats, forgotten>>
      BY <1>5 DEF Hear
    <2>2. IngressTypeOK'
      BY <1>1, <1>3, <1>4, <2>1, IngressAssumption DEF IngressTypeOK
    <2>3. WorkersSound'
      BY <1>1, <1>3, <1>5 DEF WorkersSound, AtWork
    <2>4. IngressAddsUp'
      BY <1>1, <1>2, <1>3, <1>5, <2>1 DEF IngressAddsUp
    <2>5. NoSilentLoss'
      <3>1. publishing'[<<m, l>>] > 0 /\ \A p \in Messages \X Hearers : publishing[p] > 0 => publishing'[p] > 0
        BY <1>3, <2>1, IngressAssumption DEF IngressTypeOK
      <3>2. QED
        BY <1>1, <1>3, <1>4, <2>1, <3>1 DEF NoSilentLoss
    <2>6. QED
      BY <2>2, <2>3, <2>4, <2>5 DEF IngressInv, WorkersSound, Accounted
  <1>6. CASE ~redisMode /\ HasRoom
    <2>1. inbox' = Append(inbox, m) /\ Count({"enqueued"}) /\ UNCHANGED <<forgotten, publishing>>
      BY <1>6 DEF Hear
    <2>2. /\ inbox' \in Seq(Messages) /\ Len(inbox') = Len(inbox) + 1
          /\ ToSet(inbox) \cup {m} \subseteq ToSet(inbox')
      <3>1. /\ inbox' \in Seq(Messages) /\ Len(inbox') = Len(inbox) + 1 /\ Len(inbox) \in Nat
            /\ \A i \in 1 .. Len(inbox) : inbox'[i] = inbox[i]
            /\ inbox'[Len(inbox) + 1] = m
            /\ DOMAIN inbox = 1 .. Len(inbox) /\ DOMAIN inbox' = 1 .. Len(inbox')
        BY <1>3, <2>1 DEF IngressTypeOK
      <3>2. QED
        BY <3>1 DEF ToSet
    <2>3. /\ stats' \in [Counted -> Nat] /\ stats'["enqueued"] = stats["enqueued"] + 1
          /\ \A c \in Counted \ {"enqueued"} : stats'[c] = stats[c]
      <3>1. "enqueued" \in Counted
        BY DEF Counted
      <3>2. stats \in [Counted -> Nat]
        BY <1>3 DEF IngressTypeOK
      <3>3. QED
        BY <2>1, <3>1, <3>2, CountsOne
    <2>4. IngressTypeOK'
      BY <1>1, <1>3, <1>4, <1>6, <2>1, <2>2, <2>3, IngressAssumption DEF IngressTypeOK, HasRoom
    <2>5. WorkersSound'
      BY <1>1, <1>3, <2>1 DEF WorkersSound, AtWork
    <2>6. IngressAddsUp'
      <3>1. UNCHANGED redisMode /\ Cardinality(InFlight') = Cardinality(InFlight) /\ Len(inbox) \in Nat
        BY <1>1, <1>2, <1>3 DEF IngressTypeOK
      <3>2. stats \in [Counted -> Nat]
        BY <1>3 DEF IngressTypeOK
      <3>3. /\ {"enqueued", "delivered", "duplicates", "failed"} \subseteq Counted
            /\ \A c \in {"delivered", "duplicates", "failed", "webhook_errors", "retried"} : stats'[c] = stats[c]
        BY <2>3 DEF Counted
      <3>4. /\ stats["enqueued"] = Len(inbox) + Cardinality(InFlight) + stats["delivered"]
                                    + stats["duplicates"] + stats["failed"]
            /\ stats["webhook_errors"] = stats["retried"] + stats["failed"]
        BY <1>3, <1>6 DEF IngressAddsUp
      <3>5. {stats["delivered"], stats["duplicates"], stats["failed"]} \subseteq Nat
        BY <3>2, <3>3
      <3>6. /\ stats'["enqueued"] = Len(inbox') + Cardinality(InFlight') + stats'["delivered"]
                                     + stats'["duplicates"] + stats'["failed"]
            /\ stats'["webhook_errors"] = stats'["retried"] + stats'["failed"]
        <4>1. stats["enqueued"] + 1 = (Len(inbox) + 1) + Cardinality(InFlight) + stats["delivered"]
                                         + stats["duplicates"] + stats["failed"]
          BY <1>2, <3>1, <3>4, <3>5
        <4>2. QED
          BY <2>2, <2>3, <3>1, <3>3, <3>4, <4>1
      <3>7. QED
        BY <3>6 DEF IngressAddsUp
    <2>7. NoSilentLoss'
      BY <1>1, <1>3, <1>4, <2>1, <2>2 DEF NoSilentLoss
    <2>8. QED
      BY <2>4, <2>5, <2>6, <2>7 DEF IngressInv, WorkersSound, Accounted
  <1>7. CASE ~redisMode /\ ~HasRoom
    <2>1. UNCHANGED <<inbox, publishing>> /\ Count({"dropped"}) /\ forgotten' = forgotten \cup {<<m, "dropped">>}
      BY <1>7 DEF Hear, Forgets
    <2>2. stats' \in [Counted -> Nat] /\ \A c \in Counted \ {"dropped"} : stats'[c] = stats[c]
      BY <1>3, <2>1, Counts DEF IngressTypeOK
    <2>3. IngressTypeOK'
      BY <1>1, <1>3, <1>4, <2>1, <2>2 DEF IngressTypeOK
    <2>4. WorkersSound'
      BY <1>1, <1>3, <2>1 DEF WorkersSound, AtWork
    <2>5. IngressAddsUp'
      BY <1>1, <1>2, <1>3, <2>1, <2>2 DEF IngressAddsUp, Counted
    <2>6. NoSilentLoss'
      BY <1>1, <1>3, <1>4, <2>1 DEF NoSilentLoss
    <2>7. QED
      BY <2>3, <2>4, <2>5, <2>6 DEF IngressInv, WorkersSound, Accounted
  <1>8. QED
    BY <1>5, <1>6, <1>7

LEMMA PublishStep ==
    ASSUME IngressInv, NEW m \in Messages, NEW l \in Hearers, Publish(m, l)
    PROVE  IngressInv'
  <1>1. UNCHANGED <<redisMode, heard, inbox, dispatcher>> /\ publishing[<<m, l>>] > 0
    BY DEF Publish
  <1>2. InFlight' = InFlight
    BY <1>1 DEF InFlight
  <1>3. IngressTypeOK /\ WorkersSound /\ IngressAddsUp /\ NoSilentLoss
    BY DEF IngressInv, WorkersSound, Accounted
  <1>4. redisMode
    BY <1>1, <1>3 DEF WorkersSound, IngressTypeOK
  <1>5. PICK left \in 0 .. Posts : publishing' = [publishing EXCEPT ![<<m, l>>] = left]
    BY <1>1, <1>3, IngressAssumption DEF Publish, IngressTypeOK
  <1>6. kept' \in {kept, kept \cup {m}} /\ (UNCHANGED stats \/ \E c \in {"enqueued", "dropped"} : Count({c}))
    BY DEF Publish
  <1>7. /\ stats' \in [Counted -> Nat]
        /\ \A c \in Counted \ {"enqueued", "dropped"} : stats'[c] = stats[c]
    BY <1>3, <1>6, Counts DEF IngressTypeOK
  <1>8. IngressTypeOK'
    BY <1>1, <1>3, <1>5, <1>6, <1>7 DEF IngressTypeOK
  <1>9. WorkersSound'
    BY <1>1, <1>3, <1>4 DEF WorkersSound, AtWork
  <1>10. IngressAddsUp'
    BY <1>1, <1>3, <1>4, <1>7 DEF IngressAddsUp, Counted
  <1>11. NoSilentLoss'
    <2>1. /\ \A n \in Messages, k \in Hearers :
                <<n, k>> # <<m, l>> => publishing'[<<n, k>>] = publishing[<<n, k>>]
          /\ publishing'[<<m, l>>] = left
      BY <1>3, <1>5 DEF IngressTypeOK
    <2>2. m \in kept' \/ left > 0 \/ <<m, "dropped">> \in forgotten'
      BY <1>1, <1>3, <1>5, <2>1, IngressAssumption DEF Publish, Forgets, IngressTypeOK
    <2>3. forgotten \subseteq forgotten'
      BY DEF Publish, Forgets
    <2>4. ASSUME NEW n \in Messages, heard'[n] # {}, n # m
          PROVE  \/ n \in kept' \/ n \in ToSet(inbox') \/ \E d \in Dispatchers : dispatcher'[d].msg = n
                 \/ \E k \in Hearers : publishing'[<<n, k>>] > 0
                 \/ \E how \in {"dropped", "failed", "shutdown"} : <<n, how>> \in forgotten'
      BY <1>1, <1>3, <1>6, <2>1, <2>3, <2>4 DEF NoSilentLoss
    <2>5. QED
      BY <2>1, <2>2, <2>4 DEF NoSilentLoss
  <1>12. QED
    BY <1>8, <1>9, <1>10, <1>11 DEF IngressInv, WorkersSound, Accounted

\* The sums of the counters, in natural numbers.
LEMMA Sums ==
    ASSUME IngressTypeOK, IngressAddsUp
    PROVE  /\ stats \in [Counted -> Nat] /\ Len(inbox) \in Nat /\ Cardinality(InFlight) \in Nat
           /\ \A c \in {"enqueued", "delivered", "duplicates", "failed", "webhook_errors", "retried"} :
                 c \in Counted /\ stats[c] \in Nat
           /\ ~redisMode =>
                 stats["enqueued"] = Len(inbox) + Cardinality(InFlight) + stats["delivered"]
                                        + stats["duplicates"] + stats["failed"]
           /\ stats["webhook_errors"] = stats["retried"] + stats["failed"]
  <1>1. Cardinality(InFlight) \in Nat
    BY IngressAssumption, FS_Subset, FS_CardinalityType DEF InFlight
  <1>2. \A c \in {"enqueued", "delivered", "duplicates", "failed", "webhook_errors", "retried"} : c \in Counted
    BY DEF Counted
  <1>3. stats \in [Counted -> Nat] /\ Len(inbox) \in Nat
    BY DEF IngressTypeOK
  <1>4. QED
    BY <1>1, <1>2, <1>3 DEF IngressAddsUp

LEMMA TakeStep == ASSUME IngressInv, NEW d \in Dispatchers, TakeMessage(d) PROVE IngressInv'
  <1>1. IngressTypeOK /\ WorkersSound /\ IngressAddsUp /\ NoSilentLoss
    BY DEF IngressInv, WorkersSound, Accounted
  <1>2. /\ UNCHANGED <<redisMode, heard, publishing, kept, stats, forgotten>>
        /\ dispatcher[d] = AtRest /\ inbox # << >> /\ inbox' = Tail(inbox)
        /\ dispatcher' = [dispatcher EXCEPT ![d] = [msg |-> Head(inbox), attempt |-> 1]]
    BY DEF TakeMessage
  <1>3. /\ inbox' \in Seq(Messages) /\ Len(inbox') = Len(inbox) - 1 /\ Head(inbox) \in Messages
        /\ ToSet(inbox) \subseteq ToSet(inbox') \cup {Head(inbox)}
    <2>1. inbox \in Seq(Messages) /\ inbox # << >> /\ Head(inbox) = inbox[1]
      BY <1>1, <1>2 DEF IngressTypeOK
    <2>2. /\ inbox' \in Seq(Messages) /\ Len(inbox') = Len(inbox) - 1 /\ Head(inbox) \in Messages
          /\ \A i \in 1 .. Len(inbox') : inbox'[i] = inbox[i + 1]
          /\ DOMAIN inbox = 1 .. Len(inbox) /\ DOMAIN inbox' = 1 .. Len(inbox')
      BY <1>2, <2>1
    <2>3. ASSUME NEW i \in DOMAIN inbox, i # 1 PROVE inbox[i] \in ToSet(inbox')
      <3>1. i - 1 \in 1 .. Len(inbox') /\ (i - 1) + 1 = i
        BY <2>1, <2>2, <2>3
      <3>2. QED
        BY <2>2, <3>1 DEF ToSet
    <2>4. QED
      BY <2>1, <2>2, <2>3 DEF ToSet
  <1>4. /\ dispatcher'[d].msg = Head(inbox) /\ dispatcher'[d] \in Dispatcher
        /\ \A e \in Dispatchers \ {d} : dispatcher'[e] = dispatcher[e]
        /\ dispatcher' \in [Dispatchers -> Dispatcher] /\ dispatcher'[d] # AtRest
    BY <1>1, <1>2, <1>3, DispatcherValues DEF IngressTypeOK
  <1>5. IngressTypeOK'
    <2>1. Len(inbox') <= QueueMax
      BY <1>1, <1>3, IngressAssumption DEF IngressTypeOK
    <2>2. QED
      BY <1>1, <1>2, <1>3, <1>4, <2>1 DEF IngressTypeOK
  <1>6. WorkersSound'
    BY <1>1, <1>2, <1>3, <1>4 DEF WorkersSound, AtWork
  <1>7. IngressAddsUp'
    <2>1. Cardinality(InFlight') = Cardinality(InFlight) + 1
      BY <1>2, <1>4, InFlightTakes
    <2>2. QED
      BY <1>1, <1>2, <1>3, <2>1, Sums DEF IngressAddsUp
  <1>8. NoSilentLoss'
    <2>1. \A e \in Dispatchers, n \in Messages : dispatcher[e].msg = n => dispatcher'[e].msg = n
      BY <1>2, <1>4, DispatcherValues
    <2>2. QED
      BY <1>1, <1>2, <1>3, <1>4, <2>1 DEF NoSilentLoss
  <1>9. QED
    BY <1>5, <1>6, <1>7, <1>8 DEF IngressInv, WorkersSound, Accounted

\* What the end of a post has in common, however it ended.
LEMMA PostTypes ==
    ASSUME IngressInv, NEW d \in Dispatchers, AtWork(d), NEW S,
           dispatcher' \in [Dispatchers -> Dispatcher],
           dispatcher'[d] = AtRest \/ dispatcher'[d].msg = dispatcher[d].msg,
           \A e \in Dispatchers \ {d} : dispatcher'[e] = dispatcher[e],
           kept' \in {kept, kept \cup {dispatcher[d].msg}}, Count(S),
           UNCHANGED <<redisMode, heard, inbox, publishing>>,
           forgotten \subseteq forgotten',
           \/ dispatcher[d].msg \in kept' \/ dispatcher'[d] # AtRest
           \/ <<dispatcher[d].msg, "failed">> \in forgotten'
    PROVE  IngressTypeOK' /\ WorkersSound' /\ NoSilentLoss'
  <1>1. IngressTypeOK /\ WorkersSound /\ NoSilentLoss
    BY DEF IngressInv, WorkersSound, Accounted
  <1>2. stats' \in [Counted -> Nat]
    BY <1>1, Counts DEF IngressTypeOK
  <1>3. IngressTypeOK'
    BY <1>1, <1>2 DEF IngressTypeOK, AtWork
  <1>4. WorkersSound'
    BY <1>1, DispatcherValues DEF WorkersSound, AtWork
  <1>5. NoSilentLoss'
    <2>1. ASSUME NEW e \in Dispatchers, NEW n \in Messages, dispatcher[e].msg = n
          PROVE  \/ dispatcher'[e].msg = n \/ n \in kept' \/ <<n, "failed">> \in forgotten'
      BY <2>1
    <2>2. kept \subseteq kept'
      OBVIOUS
    <2>3. QED
      BY <1>1, <2>1, <2>2 DEF NoSilentLoss
  <1>6. QED
    BY <1>3, <1>4, <1>5

LEMMA AnsweredStep == ASSUME IngressInv, NEW d \in Dispatchers, PostAnswered(d) PROVE IngressInv'
  <1>1. IngressTypeOK /\ WorkersSound /\ IngressAddsUp /\ NoSilentLoss
    BY DEF IngressInv, WorkersSound, Accounted
  <1>2. PICK c \in {"duplicates", "delivered"} : Count({c})
    BY DEF PostAnswered
  <1>3. /\ AtWork(d) /\ kept' = kept \cup {dispatcher[d].msg}
        /\ UNCHANGED <<redisMode, heard, inbox, publishing, forgotten>>
        /\ dispatcher' = [dispatcher EXCEPT ![d] = AtRest]
    BY DEF PostAnswered, AtWork
  <1>4. /\ dispatcher' \in [Dispatchers -> Dispatcher] /\ dispatcher'[d] = AtRest /\ dispatcher[d] # AtRest
        /\ \A e \in Dispatchers \ {d} : dispatcher'[e] = dispatcher[e]
    BY <1>1, <1>3, DispatcherValues DEF IngressTypeOK, AtWork
  <1>5. IngressTypeOK' /\ WorkersSound' /\ NoSilentLoss'
    BY <1>2, <1>3, <1>4, PostTypes
  <1>6. IngressAddsUp'
    <2>1. Cardinality(InFlight') = Cardinality(InFlight) - 1
      BY <1>4, InFlightEnds
    <2>2. c \in Counted /\ stats \in [Counted -> Nat]
      BY <1>1, Sums
    <2>3. /\ stats'[c] = stats[c] + 1
          /\ \A e \in Counted \ {c} : stats'[e] = stats[e]
      BY <1>2, <2>2, CountsOne
    <2>4. CASE c = "duplicates"
      <3>1. /\ stats'["duplicates"] = stats["duplicates"] + 1
            /\ \A e \in {"enqueued", "delivered", "failed", "webhook_errors", "retried"} : stats'[e] = stats[e]
        BY <1>1, <2>3, <2>4, Sums
      <3>2. QED
        BY <1>1, <1>3, <2>1, <3>1, Sums DEF IngressAddsUp
    <2>5. CASE c = "delivered"
      <3>1. /\ stats'["delivered"] = stats["delivered"] + 1
            /\ \A e \in {"enqueued", "duplicates", "failed", "webhook_errors", "retried"} : stats'[e] = stats[e]
        BY <1>1, <2>3, <2>5, Sums
      <3>2. QED
        BY <1>1, <1>3, <2>1, <3>1, Sums DEF IngressAddsUp
    <2>6. QED
      BY <2>4, <2>5
  <1>7. QED
    BY <1>5, <1>6 DEF IngressInv, WorkersSound, Accounted

LEMMA FailsStep == ASSUME IngressInv, NEW d \in Dispatchers, PostFails(d) PROVE IngressInv'
  <1>1. IngressTypeOK /\ WorkersSound /\ IngressAddsUp /\ NoSilentLoss
    BY DEF IngressInv, WorkersSound, Accounted
  <1> DEFINE last == dispatcher[d].attempt = Posts
  <1>2. /\ AtWork(d) /\ kept' \in {kept, kept \cup {dispatcher[d].msg}} /\ Count(Tally(last))
        /\ UNCHANGED <<redisMode, heard, inbox, publishing>>
    BY DEF PostFails, AtWork
  <1>3. dispatcher[d] # AtRest /\ dispatcher[d] \in Dispatcher
    BY <1>1, <1>2, DispatcherValues DEF IngressTypeOK, AtWork
  <1>4. stats \in [Counted -> Nat]
    BY <1>1, Sums
  <1>5. CASE last
    <2>1. dispatcher' = [dispatcher EXCEPT ![d] = AtRest] /\ forgotten' = forgotten \cup {<<dispatcher[d].msg, "failed">>}
      BY <1>5 DEF PostFails, Forgets
    <2>2. /\ dispatcher' \in [Dispatchers -> Dispatcher] /\ dispatcher'[d] = AtRest
          /\ \A e \in Dispatchers \ {d} : dispatcher'[e] = dispatcher[e]
      BY <1>1, <2>1, DispatcherValues DEF IngressTypeOK
    <2>3. IngressTypeOK' /\ WorkersSound' /\ NoSilentLoss'
      BY <1>2, <2>1, <2>2, PostTypes
    <2>4. Cardinality(InFlight') = Cardinality(InFlight) - 1
      BY <1>3, <2>2, InFlightEnds
    <2>5. Count({"webhook_errors", "failed"})
      BY <1>5 DEF PostFails, Tally, Count
    <2>6. /\ stats'["webhook_errors"] = stats["webhook_errors"] + 1 /\ stats'["failed"] = stats["failed"] + 1
          /\ stats'["enqueued"] = stats["enqueued"] /\ stats'["delivered"] = stats["delivered"]
          /\ stats'["duplicates"] = stats["duplicates"] /\ stats'["retried"] = stats["retried"]
      <3>1. "webhook_errors" \in Counted /\ "failed" \in Counted
        BY <1>1, Sums
      <3>2. /\ stats'["webhook_errors"] = stats["webhook_errors"] + 1 /\ stats'["failed"] = stats["failed"] + 1
            /\ \A x \in Counted \ {"webhook_errors", "failed"} : stats'[x] = stats[x]
        BY <1>4, <2>5, <3>1, CountsTwo
      <3>3. QED
        BY <1>1, <3>2, Sums
    <2>7. IngressAddsUp'
      <3>1. /\ ~redisMode =>
                  stats["enqueued"] = Len(inbox) + (Cardinality(InFlight) - 1) + stats["delivered"]
                                         + stats["duplicates"] + (stats["failed"] + 1)
            /\ stats["webhook_errors"] + 1 = stats["retried"] + (stats["failed"] + 1)
        BY <1>1, Sums
      <3>2. QED
        BY <1>2, <2>4, <2>6, <3>1 DEF IngressAddsUp
    <2>8. QED
      BY <2>3, <2>7 DEF IngressInv, WorkersSound, Accounted
  <1>6. CASE ~last
    <2>1. dispatcher' = [dispatcher EXCEPT ![d] = Repeat(@)] /\ UNCHANGED forgotten
      BY <1>6 DEF PostFails
    <2>2. Repeat(dispatcher[d]) \in Dispatcher /\ Repeat(dispatcher[d]).msg = dispatcher[d].msg
      BY <1>3, <1>6, DispatcherValues
    <2>3. /\ dispatcher' \in [Dispatchers -> Dispatcher] /\ dispatcher'[d].msg = dispatcher[d].msg
          /\ \A e \in Dispatchers \ {d} : dispatcher'[e] = dispatcher[e]
      BY <1>1, <2>1, <2>2 DEF IngressTypeOK
    <2>4. dispatcher'[d] # AtRest
      BY <1>2, <2>3, DispatcherValues DEF AtWork
    <2>5. IngressTypeOK' /\ WorkersSound' /\ NoSilentLoss'
      BY <1>2, <2>1, <2>3, <2>4, PostTypes
    <2>6. InFlight' = InFlight
      BY <1>3, <2>3, <2>4 DEF InFlight
    <2>7. Count({"webhook_errors", "retried"})
      BY <1>6 DEF PostFails, Tally, Count
    <2>8. /\ stats'["webhook_errors"] = stats["webhook_errors"] + 1 /\ stats'["retried"] = stats["retried"] + 1
          /\ stats'["enqueued"] = stats["enqueued"] /\ stats'["delivered"] = stats["delivered"]
          /\ stats'["duplicates"] = stats["duplicates"] /\ stats'["failed"] = stats["failed"]
      <3>1. "webhook_errors" \in Counted /\ "retried" \in Counted
        BY <1>1, Sums
      <3>2. /\ stats'["webhook_errors"] = stats["webhook_errors"] + 1 /\ stats'["retried"] = stats["retried"] + 1
            /\ \A x \in Counted \ {"webhook_errors", "retried"} : stats'[x] = stats[x]
        BY <1>4, <2>7, <3>1, CountsTwo
      <3>3. QED
        BY <1>1, <3>2, Sums
    <2>9. IngressAddsUp'
      BY <1>1, <1>2, <2>6, <2>8, Sums DEF IngressAddsUp
    <2>10. QED
      BY <2>5, <2>9 DEF IngressInv, WorkersSound, Accounted
  <1>7. QED
    BY <1>5, <1>6

LEMMA ShutdownStep == ASSUME IngressInv, Shutdown PROVE IngressInv'
  <1>1. IngressTypeOK /\ WorkersSound /\ NoSilentLoss
    BY DEF IngressInv, WorkersSound, Accounted
  <1>2. /\ inbox' = << >> /\ dispatcher' = [d \in Dispatchers |-> AtRest]
        /\ publishing' = [p \in Messages \X Hearers |-> 0] /\ stats' = [c \in Counted |-> 0]
        /\ UNCHANGED <<redisMode, heard>>
    BY DEF Shutdown
  <1>3. kept \subseteq kept' /\ kept' \subseteq Messages
    BY <1>1 DEF Shutdown, IngressTypeOK
  <1>4. InFlight' = {} /\ Cardinality(InFlight') = 0
    BY <1>2, FS_EmptySet DEF InFlight
  <1>5. IngressTypeOK'
    BY <1>1, <1>2, <1>3, IngressAssumption, DispatcherValues DEF IngressTypeOK
  <1>6. WorkersSound'
    BY <1>2 DEF WorkersSound
  <1>7. IngressAddsUp'
    BY <1>2, <1>4 DEF IngressAddsUp, Counted
  <1>8. NoSilentLoss'
    <2>1. \A n \in Messages :
             \/ n \in ToSet(inbox) \/ \E d \in Dispatchers : dispatcher[d].msg = n
             \/ \E l \in Hearers : publishing[<<n, l>>] > 0
             => <<n, "shutdown">> \in forgotten'
      BY DEF Shutdown
    <2>2. forgotten \subseteq forgotten'
      BY DEF Shutdown
    <2>3. QED
      BY <1>1, <1>2, <1>3, <2>1, <2>2 DEF NoSilentLoss
  <1>9. QED
    BY <1>5, <1>6, <1>7, <1>8 DEF IngressInv, WorkersSound, Accounted

LEMMA IngressInitially == ASSUME IngressInit PROVE IngressInv
  <1>1. IngressTypeOK
    BY IngressAssumption, DispatcherValues DEF IngressInit, IngressTypeOK
  <1>2. WorkersSound
    BY DEF IngressInit, WorkersSound
  <1>3. InFlight = {} /\ Cardinality(InFlight) = 0
    BY FS_EmptySet DEF IngressInit, InFlight
  <1>4. IngressAddsUp
    BY <1>3 DEF IngressInit, IngressAddsUp, Counted
  <1>5. NoSilentLoss
    BY DEF IngressInit, NoSilentLoss
  <1>6. QED
    BY <1>1, <1>2, <1>4, <1>5 DEF IngressInv, WorkersSound, Accounted

\* The inductive invariant of the ingress: a worker at work has a message, and only
\* with Redis do handlers publish.
THEOREM IngressInvariant == IngressSpec => []IngressInv
  <1>1. IngressInit => IngressInv
    BY IngressInitially
  <1>2. IngressInv /\ [IngressNext]_ingressVars => IngressInv'
    <2>1. SUFFICES ASSUME IngressInv, [IngressNext]_ingressVars PROVE IngressInv'
      OBVIOUS
    <2>2. CASE UNCHANGED ingressVars
      BY <2>1, <2>2 DEF ingressVars, IngressInv, IngressTypeOK, AtWork, Accounted, IngressAddsUp, NoSilentLoss, InFlight
    <2>3. QED
      BY <2>1, <2>2, HearStep, PublishStep, TakeStep, AnsweredStep, FailsStep, ShutdownStep DEF IngressNext
  <1>3. QED
    BY <1>1, <1>2, PTL DEF IngressSpec

\* Accounted: every message heard is stored, on its way, or counted as lost, and the
\* counters of the status page add up, with any number of listeners and workers
\* (handle_new_message, the dispatch workers, publish).
THEOREM MessagesAreAccounted == IngressSpec => []Accounted
  <1>1. IngressInv => Accounted
    BY DEF IngressInv
  <1>2. QED
    BY <1>1, IngressInvariant, PTL

-----------------------------------------------------------------------------
\* Session files.

\* The specification of the session files by themselves.
FilesSpec == FilesInit /\ [][FilesNext]_filesVars

\* What a call that counts its channels has to put back is in the backups.
Restorable(u) ==
    /\ upload[u].moved <=> upload[u].found[1] # NoFile
    /\ upload[u].moved => backup = upload[u].found[1]
    /\ upload[u].movedIdentity <=> upload[u].moved /\ upload[u].found[2] # NoFile
    /\ upload[u].movedIdentity => sidecarBackup = upload[u].found[2]

\* A call that nothing disturbed, or any call while no exception of SidecarBelongs
\* occurred, is the only one waiting and can put back what it found.
RestorableInv ==
    \A u \in Uploads : upload[u].at = "count" /\ (upload[u].alone \/ ~unclean) =>
       /\ WaitingCalls = {u} /\ Restorable(u)
       /\ unclean \/ upload[u].found[2] \in {NoFile, upload[u].found[1]}

NotYetAlone == \A u \in Uploads : upload[u].at \in {"new", "probe"} => ~upload[u].alone

FilesInv == FilesTypeOK /\ FilesAgree /\ RestorableInv /\ NotYetAlone

LEMMA DisturbedCalls ==
    ASSUME NEW f \in [Uploads -> Upload], NEW u
    PROVE  /\ Disturbing(f, u) \in [Uploads -> Upload]
           /\ \A v \in Uploads : /\ v = u => Disturbing(f, u)[v] = f[v]
                                 /\ v # u => ~Disturbing(f, u)[v].alone
                                 /\ Disturbing(f, u)[v].at = f[v].at
  BY DEF Disturbing, Upload

LEMMA FilesTyped ==
    ASSUME FilesTypeOK, [FilesNext]_filesVars
    PROVE  FilesTypeOK'
  <1> USE DEF FilesTypeOK, onDisk
  <1>1. ASSUME NEW u \in Uploads, BeginUpload(u) \/ ProbeFails(u)
        PROVE  FilesTypeOK'
    BY <1>1 DEF BeginUpload, ProbeFails, Upload
  <1>2. ASSUME NEW u \in Uploads, InstallUpload(u)
        PROVE  FilesTypeOK'
    <2> DEFINE new == [at |-> "count", moved |-> file # NoFile,
                       movedIdentity |-> MovesIdentity(file # NoFile),
                       found |-> <<file, sidecar>>, alone |-> ~deleting /\ WaitingCalls = {}]
    <2>1. new \in Upload
      BY DEF Upload, MovesIdentity
    <2>2. upload' \in [Uploads -> Upload]
      <3>1. [upload EXCEPT ![u] = new] \in [Uploads -> Upload]
        BY <2>1
      <3>2. upload' = Disturbing([upload EXCEPT ![u] = new], u)
        BY <1>2 DEF InstallUpload
      <3>3. QED
        BY <3>1, <3>2, DisturbedCalls
    <2>3. {file, backup, sidecar, sidecarBackup}' \subseteq Logins
      BY <1>2 DEF InstallUpload, Logins
    <2>4. QED
      BY <1>2, <2>2, <2>3 DEF InstallUpload
  <1>3. ASSUME NEW u \in Uploads, InstallFails(u) \/ UploadFails(u)
        PROVE  FilesTypeOK'
    <2>1. [upload EXCEPT ![u].at = "failed"] \in [Uploads -> Upload]
      BY DEF Upload
    <2>2. upload' \in [Uploads -> Upload]
      <3>1. upload' = Disturbing([upload EXCEPT ![u].at = "failed"], u)
        BY <1>3 DEF InstallFails, UploadFails
      <3>2. QED
        BY <2>1, <3>1, DisturbedCalls
    <2>3. {file, backup, sidecar, sidecarBackup}' \subseteq Logins
      BY <1>3 DEF InstallFails, UploadFails, SidecarPutBack, Logins
    <2>4. QED
      BY <1>3, <2>2, <2>3 DEF InstallFails, UploadFails
  <1>4. ASSUME NEW u \in Uploads, UploadDone(u)
        PROVE  FilesTypeOK'
    BY <1>4 DEF UploadDone, Upload, Logins
  <1>5. ASSUME StartQr \/ QrScanned \/ QrEnds \/ QrCleanedUp \/ StartDelete
        PROVE  FilesTypeOK'
    BY <1>5 DEF StartQr, QrScanned, QrEnds, QrCleanedUp, StartDelete
  <1>6. ASSUME QrSaves \/ DeleteFile
        PROVE  FilesTypeOK'
    <2>1. upload' = Disturbing(upload, NoFile)
      BY <1>6 DEF QrSaves, DeleteFile
    <2>2. upload' \in [Uploads -> Upload]
      BY <2>1, DisturbedCalls
    <2>3. QED
      BY <1>6, <2>2 DEF QrSaves, DeleteFile, Logins
  <1>7. ASSUME FilesCrash
        PROVE  FilesTypeOK'
    <2>1. upload' \in [Uploads -> Upload]
      BY <1>7 DEF FilesCrash, Upload
    <2>2. QED
      BY <1>7, <2>1 DEF FilesCrash
  <1>8. CASE UNCHANGED filesVars
    BY <1>8 DEF filesVars
  <1>9. QED
    BY <1>1, <1>2, <1>3, <1>4, <1>5, <1>6, <1>7, <1>8 DEF FilesNext

\* An exception only makes the exceptions more; whoever writes the files beside
\* the calls clears what they could claim.
LEMMA Written ==
    ASSUME FilesInv, QrSaves \/ DeleteFile
    PROVE  FilesAgree' /\ RestorableInv' /\ NotYetAlone'
  <1>1. upload \in [Uploads -> Upload] /\ upload' = Disturbing(upload, NoFile)
    BY DEF FilesInv, FilesTypeOK, QrSaves, DeleteFile
  <1>2. \A v \in Uploads : ~upload'[v].alone /\ upload'[v].at = upload[v].at
    BY <1>1, DisturbedCalls, SessionFilesAssumption
  <1>3. unclean' = (unclean \/ sidecar # NoFile \/ WaitingCalls # {}) /\ sidecar' = sidecar
    BY DEF QrSaves, DeleteFile
  <1>4. FilesAgree'
    BY <1>2, <1>3 DEF FilesAgree, FailedEnrolRestores, SidecarBelongs
  <1>5. RestorableInv'
    BY <1>2, <1>3 DEF RestorableInv, WaitingCalls
  <1>6. QED
    BY <1>2, <1>4, <1>5 DEF NotYetAlone

LEMMA Installed ==
    ASSUME FilesInv, NEW u \in Uploads, InstallUpload(u)
    PROVE  FilesAgree' /\ RestorableInv' /\ NotYetAlone'
  <1> DEFINE new == [at |-> "count", moved |-> file # NoFile,
                     movedIdentity |-> MovesIdentity(file # NoFile),
                     found |-> <<file, sidecar>>, alone |-> ~deleting /\ WaitingCalls = {}]
             f == [upload EXCEPT ![u] = new]
  <1>0. upload \in [Uploads -> Upload]
    BY DEF FilesInv, FilesTypeOK
  <1>1. new \in Upload
    BY DEF Upload, MovesIdentity, FilesInv, FilesTypeOK
  <1>2. f \in [Uploads -> Upload] /\ f[u] = new /\ upload' = Disturbing(f, u)
    BY <1>0, <1>1 DEF InstallUpload
  <1>3. /\ upload'[u] = new
        /\ \A v \in Uploads \ {u} : ~upload'[v].alone /\ upload'[v].at = upload[v].at
    <2>1. \A v \in Uploads \ {u} : f[v] = upload[v]
      BY <1>0
    <2> HIDE DEF new, f
    <2>2. QED
      BY <1>2, <2>1, DisturbedCalls
  <1>n. /\ new.moved <=> file # NoFile
        /\ new.movedIdentity <=> file # NoFile /\ sidecar # NoFile
        /\ new.found[1] = file /\ new.found[2] = sidecar
        /\ new.alone => WaitingCalls = {}
        /\ new.at = "count"
    BY Zenon DEF MovesIdentity
  <1> HIDE DEF new, f
  <1>4. /\ unclean' = (unclean \/ WaitingCalls # {}) /\ file' = u /\ sidecar' \in {NoFile, u}
        /\ backup' = IF file # NoFile THEN file ELSE backup
        /\ sidecarBackup' = IF MovesIdentity(file # NoFile) THEN sidecar ELSE sidecarBackup
    BY DEF InstallUpload
  <1>5. WaitingCalls' = WaitingCalls \cup {u}
    BY <1>3, <1>n DEF WaitingCalls
  <1>6. FilesAgree'
    BY <1>3, <1>n, <1>4 DEF FilesAgree, FailedEnrolRestores, SidecarBelongs
  <1>7. ASSUME NEW v \in Uploads, upload'[v].at = "count", upload'[v].alone \/ ~unclean'
        PROVE  /\ WaitingCalls' = {v} /\ Restorable(v)'
               /\ unclean' \/ upload'[v].found[2] \in {NoFile, upload'[v].found[1]}
    <2>1. v = u /\ WaitingCalls = {}
      <3>1. CASE v # u
        <4>1. upload[v].at = "count" /\ ~unclean'
          BY <1>3, <1>7, <3>1
        <4>2. QED
          BY <1>4, <4>1 DEF WaitingCalls
      <3>2. CASE v = u
        BY <1>3, <1>n, <1>4, <1>7, <3>2
      <3>3. QED
        BY <3>1, <3>2
    <2>2. Restorable(v)'
      BY <1>3, <1>n, <1>4, <2>1 DEF Restorable, MovesIdentity
    <2>3. unclean' \/ upload'[v].found[2] \in {NoFile, upload'[v].found[1]}
      BY <1>3, <1>n, <1>4, <2>1 DEF FilesInv, FilesAgree, SidecarBelongs
    <2>4. QED
      BY <1>5, <2>1, <2>2, <2>3
  <1>8. NotYetAlone'
    BY <1>3, <1>n DEF NotYetAlone
  <1>9. QED
    BY <1>6, <1>7, <1>8 DEF RestorableInv

\* The call that fails puts back what it found; the one that ends leaves it.
LEMMA PutBack ==
    ASSUME FilesInv, NEW u \in Uploads, UploadFails(u)
    PROVE  FilesAgree' /\ RestorableInv' /\ NotYetAlone'
  <1> DEFINE f == [upload EXCEPT ![u].at = "failed"]
  <1>0. upload \in [Uploads -> Upload]
    BY DEF FilesInv, FilesTypeOK
  <1>1. f \in [Uploads -> Upload] /\ upload' = Disturbing(f, u) /\ f[u] = [upload[u] EXCEPT !.at = "failed"]
    BY <1>0 DEF UploadFails, Upload
  <1>2. /\ upload'[u] = [upload[u] EXCEPT !.at = "failed"]
        /\ \A v \in Uploads \ {u} : ~upload'[v].alone /\ upload'[v].at = upload[v].at
    <2>1. \A v \in Uploads \ {u} : f[v] = upload[v]
      BY <1>0
    <2> HIDE DEF f
    <2>2. QED
      BY <1>1, <2>1, DisturbedCalls
  <1>3. upload'[u].at = "failed" /\ upload'[u].alone = upload[u].alone
        /\ upload'[u].found = upload[u].found
    BY <1>0, <1>2 DEF Upload
  <1>4. upload[u].at = "count" /\ u \in WaitingCalls /\ unclean' = unclean
    BY DEF UploadFails, WaitingCalls
  <1>5. ASSUME upload[u].alone \/ ~unclean
        PROVE  /\ file' = upload[u].found[1]
               /\ file' # NoFile => sidecar' = upload[u].found[2]
               /\ file' = NoFile => sidecar' = NoFile
               /\ unclean \/ upload[u].found[2] \in {NoFile, upload[u].found[1]}
    BY <1>4, <1>5 DEF FilesInv, RestorableInv, Restorable, UploadFails, SidecarPutBack
  <1>6. FilesAgree'
    <2>1. FailedEnrolRestores'
      BY <1>2, <1>3, <1>5 DEF FailedEnrolRestores
    <2>2. SidecarBelongs'
      BY <1>4, <1>5 DEF SidecarBelongs
    <2>3. QED
      BY <2>1, <2>2 DEF FilesAgree
  <1>7. RestorableInv'
    <2>1. ASSUME NEW v \in Uploads, upload'[v].at = "count", ~unclean
          PROVE  FALSE
      <3>1. v # u /\ upload[v].at = "count"
        BY <1>2, <1>3, <2>1
      <3>2. WaitingCalls = {v}
        BY <2>1, <3>1 DEF FilesInv, RestorableInv
      <3>3. QED
        BY <1>4, <3>1, <3>2
    <2>2. QED
      BY <1>2, <1>3, <1>4, <2>1 DEF RestorableInv
  <1>8. NotYetAlone'
    BY <1>2, <1>3 DEF NotYetAlone
  <1>9. QED
    BY <1>6, <1>7, <1>8

LEMMA FilesKeptStep ==
    ASSUME FilesInv, [FilesNext]_filesVars
    PROVE  FilesAgree' /\ RestorableInv' /\ NotYetAlone'
  <1>0. upload \in [Uploads -> Upload]
    BY DEF FilesInv, FilesTypeOK
  <1> USE DEF onDisk, FilesAgree, FailedEnrolRestores, SidecarBelongs, NotYetAlone
  <1>1. ASSUME NEW u \in Uploads, BeginUpload(u) \/ ProbeFails(u)
        PROVE  FilesAgree' /\ RestorableInv' /\ NotYetAlone'
    <2>1. /\ \A v \in Uploads \ {u} : upload'[v] = upload[v]
          /\ upload[u].at \in {"new", "probe"} /\ upload'[u].at \in {"failed", "probe"}
          /\ upload'[u].alone = upload[u].alone /\ UNCHANGED <<onDisk, unclean>>
      BY <1>0, <1>1 DEF BeginUpload, ProbeFails, Upload
    <2>2. ~upload[u].alone
      BY <2>1 DEF FilesInv
    <2>3. FilesAgree' /\ NotYetAlone'
      BY <2>1, <2>2 DEF FilesInv
    <2>4. WaitingCalls' = WaitingCalls
      BY <2>1 DEF WaitingCalls
    <2>5. RestorableInv'
      <3>1. ASSUME NEW v \in Uploads, upload'[v].at = "count", upload'[v].alone \/ ~unclean'
            PROVE  /\ WaitingCalls' = {v} /\ Restorable(v)'
                   /\ unclean' \/ upload'[v].found[2] \in {NoFile, upload'[v].found[1]}
        <4>1. upload'[v] = upload[v] /\ v # u
          BY <2>1, <3>1
        <4>2. QED
          BY <2>1, <2>4, <3>1, <4>1 DEF FilesInv, RestorableInv, Restorable
      <3>2. QED
        BY <3>1 DEF RestorableInv
    <2>6. QED
      BY <2>3, <2>5
  <1>2. ASSUME NEW u \in Uploads, InstallFails(u)
        PROVE  FilesAgree' /\ RestorableInv' /\ NotYetAlone'
    <2> DEFINE f == [upload EXCEPT ![u].at = "failed"]
    <2>1. /\ f \in [Uploads -> Upload] /\ upload' = Disturbing(f, u)
          /\ f[u].at = "failed" /\ f[u].alone = upload[u].alone
          /\ \A v \in Uploads \ {u} : f[v] = upload[v]
      BY <1>0, <1>2 DEF InstallFails, Upload
    <2>2. upload[u].at = "probe" /\ unclean' = TRUE
      BY <1>2 DEF InstallFails
    <2>3. ~upload[u].alone
      BY <2>2 DEF FilesInv
    <2> HIDE DEF f
    <2>4. \A v \in Uploads : ~upload'[v].alone
      BY <2>1, <2>3, DisturbedCalls
    <2>5. QED
      BY <2>2, <2>4 DEF RestorableInv
  <1>3. ASSUME NEW u \in Uploads, UploadDone(u)
        PROVE  FilesAgree' /\ RestorableInv' /\ NotYetAlone'
    <2>1. /\ \A v \in Uploads \ {u} : upload'[v] = upload[v]
          /\ upload[u].at = "count" /\ upload'[u].at = "done" /\ UNCHANGED <<file, sidecar, unclean>>
      BY <1>0, <1>3 DEF UploadDone, Upload
    <2>2. FilesAgree' /\ NotYetAlone'
      BY <2>1 DEF FilesInv
    <2>3. ASSUME NEW v \in Uploads, upload'[v].at = "count", upload'[v].alone \/ ~unclean'
          PROVE  FALSE
      <3>1. upload'[v] = upload[v] /\ v # u
        BY <2>1, <2>3
      <3>2. WaitingCalls = {v} /\ u \in WaitingCalls
        BY <2>1, <2>3, <3>1 DEF FilesInv, RestorableInv, WaitingCalls
      <3>3. QED
        BY <3>1, <3>2
    <2>4. QED
      BY <2>2, <2>3 DEF RestorableInv
  <1>4. ASSUME UNCHANGED <<onDisk, upload, unclean>>
        PROVE  FilesAgree' /\ RestorableInv' /\ NotYetAlone'
    BY <1>4 DEF FilesInv, RestorableInv, Restorable, WaitingCalls
  <1>5. ASSUME FilesCrash
        PROVE  FilesAgree' /\ RestorableInv' /\ NotYetAlone'
    <2>1. /\ \A v \in Uploads : upload'[v].at \notin {"probe", "count"}
          /\ \A v \in Uploads : upload'[v].alone => upload'[v] = upload[v]
          /\ \A v \in Uploads : upload'[v].at = "new" => upload'[v] = upload[v]
      BY <1>0, <1>5 DEF FilesCrash, Upload
    <2>2. UNCHANGED <<onDisk, unclean>>
      BY <1>5 DEF FilesCrash
    <2>3. FilesAgree'
      BY <2>1, <2>2 DEF FilesInv
    <2>4. QED
      BY <2>1, <2>3 DEF FilesInv, RestorableInv
  <1>6. ASSUME StartQr \/ QrScanned \/ QrEnds \/ QrCleanedUp \/ StartDelete
        PROVE  UNCHANGED <<onDisk, upload, unclean>>
    BY <1>6 DEF StartQr, QrScanned, QrEnds, QrCleanedUp, StartDelete
  <1>7. CASE UNCHANGED filesVars
    BY <1>4, <1>7 DEF filesVars
  <1>8. ASSUME NEW u \in Uploads, InstallUpload(u)
        PROVE  FilesAgree' /\ RestorableInv' /\ NotYetAlone'
    BY <1>8, Installed
  <1>9. ASSUME NEW u \in Uploads, UploadFails(u)
        PROVE  FilesAgree' /\ RestorableInv' /\ NotYetAlone'
    BY <1>9, PutBack
  <1>10. ASSUME QrSaves \/ DeleteFile
         PROVE  FilesAgree' /\ RestorableInv' /\ NotYetAlone'
    BY <1>10, Written
  <1> HIDE DEF FilesAgree, NotYetAlone
  <1>11. QED
    BY <1>1, <1>2, <1>3, <1>4, <1>5, <1>6, <1>7, <1>8, <1>9, <1>10 DEF FilesNext

\* The inductive invariant of the session files: what a call has to put back is in
\* the backups, as long as nothing else wrote the files.
THEOREM FilesInvariant == FilesSpec => []FilesInv
  <1>1. ASSUME FilesInit
        PROVE  FilesInv
    <2>1. NewUpload \in Upload /\ NewUpload.at = "new" /\ ~NewUpload.alone
      BY DEF NewUpload, Upload, Logins
    <2>2. upload \in [Uploads -> Upload] /\ \A u \in Uploads : upload[u] = NewUpload
      BY <1>1, <2>1 DEF FilesInit
    <2>3. FilesTypeOK
      BY <1>1, <2>2 DEF FilesInit, FilesTypeOK, Logins
    <2>4. FilesAgree
      BY <1>1, <2>1, <2>2 DEF FilesInit, FilesAgree, FailedEnrolRestores, SidecarBelongs
    <2>5. RestorableInv /\ NotYetAlone
      BY <2>1, <2>2 DEF RestorableInv, NotYetAlone
    <2>6. QED
      BY <2>3, <2>4, <2>5 DEF FilesInv
  <1>2. FilesInv /\ [FilesNext]_filesVars => FilesInv'
    BY FilesTyped, FilesKeptStep DEF FilesInv
  <1>3. QED
    BY <1>1, <1>2, PTL DEF FilesSpec

\* FilesAgree: an enrolment that fails puts back the session and the sidecar it
\* found, and no session is opened with the device of another login, but for the
\* exceptions SidecarBelongs names (enroll-session-from-archive, _wait_for_scan).
THEOREM FilesChangeTogether == FilesSpec => []FilesAgree
  <1>1. FilesInv => FilesAgree
    BY DEF FilesInv
  <1>2. QED
    BY <1>1, FilesInvariant, PTL

-----------------------------------------------------------------------------
\* The detector of recurring errors.

\* The specification of the detector by itself.
DetectorSpec == DetectorInit /\ [][DetectorNext]_detectorVars

Tick == [pc : {"off", "count", "window", "apply"}, left : SUBSET FloodPairs,
         rows : SUBSET FloodPairs, old : [FloodOps -> Nat], repeated : SUBSET FloodPairs,
         debounced : SUBSET FloodPairs, pair : SUBSET FloodPairs]

CountedTyped == /\ young \in [FloodPairs -> Nat] /\ older \in [FloodPairs -> Nat]
                /\ outlived \subseteq FloodPairs

\* A pair a tick calls repeated has outlived a window, or its adjustment is in the
\* window still and the tick will pass it over.
SecondWave(m) ==
    LET t == tickOf[m] IN
    /\ t.pc \in {"count", "window"} =>
          \A p \in t.repeated : /\ p \in outlived \/ young[p] > 0
                                /\ p \in outlived \cup t.debounced \cup t.pair
    /\ t.pc = "count" => t.pair = {}
    /\ t.pc = "apply" => t.repeated \subseteq outlived

DetectorInv ==
    /\ CountedTyped /\ limitOf \in [FloodOps -> Nat] /\ tickOf \in [Monitors -> Tick]
    /\ \A p \in FloodPairs : older[p] > 0 => p \in outlived
    /\ \A m \in Monitors : SecondWave(m)
    /\ OffAfterSecondWave

LEMMA NoDetectionIsTick ==
    /\ NoDetection \in Tick /\ NoDetection.pc = "off" /\ NoDetection.repeated = {}
  BY DEF NoDetection, Tick

\* The ticks of the other monitors are as they were.
LEMMA OneTick ==
    ASSUME DetectorInv, NEW m \in Monitors, NEW t \in Tick,
           tickOf' = [tickOf EXCEPT ![m] = t],
           UNCHANGED <<young, older, outlived, off, limitOf>>, SecondWave(m)'
    PROVE  DetectorInv'
  <1>1. tickOf' \in [Monitors -> Tick]
    BY DEF DetectorInv
  <1>2. \A n \in Monitors : SecondWave(n)'
    <2>1. ASSUME NEW n \in Monitors \ {m}
          PROVE  SecondWave(n)'
      <3>1. tickOf'[n] = tickOf[n]
        BY DEF DetectorInv
      <3>2. QED
        BY <3>1 DEF SecondWave, DetectorInv
    <2>2. QED
      BY <2>1
  <1>3. /\ CountedTyped' /\ OffAfterSecondWave' /\ limitOf' \in [FloodOps -> Nat]
        /\ \A p \in FloodPairs : older'[p] > 0 => p \in outlived'
    BY DEF DetectorInv, CountedTyped, OffAfterSecondWave
  <1>4. QED
    BY <1>1, <1>2, <1>3 DEF DetectorInv

LEMMA TickEnds ==
    ASSUME DetectorInv, NEW m \in Monitors, tickOf' = [tickOf EXCEPT ![m] = NoDetection],
           UNCHANGED <<young, older, outlived, off, limitOf>>
    PROVE  DetectorInv'
  <1>1. tickOf'[m] = NoDetection
    BY DEF DetectorInv
  <1>2. SecondWave(m)'
    BY <1>1, NoDetectionIsTick DEF SecondWave
  <1>3. QED
    BY <1>2, NoDetectionIsTick, OneTick

LEMMA CutIsNat == ASSUME NEW n \in Nat
                  PROVE  Cut(n) \in Nat
  <1> DEFINE c == (n * 7) \div 10
             S == {c, MinRph}
  <1>1. c \in Nat /\ MinRph \in Nat
    BY DetectorAssumption
  <1>2. \E x \in S : \A y \in S : x >= y
    BY <1>1
  <1>3. Max(S) \in S
    BY <1>2 DEF Max
  <1>4. QED
    BY <1>1, <1>3 DEF Cut

LEMMA DetectorStep ==
    ASSUME DetectorInv, [DetectorNext]_detectorVars
    PROVE  DetectorInv'
  <1> USE DEF NothingAdjusted, NoneForgotten
  <1>0. /\ tickOf \in [Monitors -> Tick] /\ limitOf \in [FloodOps -> Nat]
        /\ young \in [FloodPairs -> Nat] /\ older \in [FloodPairs -> Nat]
    BY DEF DetectorInv, CountedTyped
  <1>1. ASSUME NEW m \in Monitors, FetchRecurring(m)
        PROVE  DetectorInv'
    <2>1. PICK R \in (SUBSET FloodPairs) \ {{}} :
             tickOf' = [tickOf EXCEPT ![m] = [NoDetection EXCEPT
                        !.pc = "count", !.left = R, !.rows = R, !.old = limitOf]]
      BY <1>1 DEF FetchRecurring
    <2> DEFINE t == [NoDetection EXCEPT !.pc = "count", !.left = R, !.rows = R, !.old = limitOf]
    <2>2. t \in Tick /\ t.repeated = {} /\ t.pair = {} /\ t.pc = "count"
      BY <1>0 DEF NoDetection, Tick
    <2>3. tickOf'[m] = t /\ tickOf' = [tickOf EXCEPT ![m] = t]
      BY <1>0, <2>1
    <2> HIDE DEF t
    <2>4. SecondWave(m)'
      BY <2>2, <2>3 DEF SecondWave
    <2>5. QED
      BY <1>1, <2>2, <2>3, <2>4, OneTick DEF FetchRecurring
  <1>2. ASSUME NEW m \in Monitors, CountAdjustments(m)
        PROVE  DetectorInv'
    <2>1. PICK p \in tickOf[m].left :
             tickOf' = [tickOf EXCEPT ![m].pc = "window", ![m].left = @ \ {p}, ![m].pair = {p},
                                      ![m].repeated = IF young[p] + older[p] > 0
                                                      THEN @ \cup {p} ELSE @]
      BY <1>2 DEF CountAdjustments
    <2> DEFINE again == IF young[p] + older[p] > 0 THEN tickOf[m].repeated \cup {p}
                                                   ELSE tickOf[m].repeated
               t == [tickOf[m] EXCEPT !.pc = "window", !.left = @ \ {p}, !.pair = {p},
                                      !.repeated = again]
    <2>2. /\ tickOf[m] \in Tick /\ tickOf[m].pc = "count" /\ p \in FloodPairs
          /\ tickOf[m].repeated \subseteq FloodPairs
      BY <1>0, <1>2 DEF CountAdjustments, Tick
    <2>3. again \subseteq FloodPairs /\ tickOf[m].repeated \subseteq again
          /\ \A q \in again : q \in tickOf[m].repeated \/ (q = p /\ young[p] + older[p] > 0)
      BY <2>2
    <2> HIDE DEF again
    <2>4. t \in Tick /\ t.pc = "window" /\ t.repeated = again /\ t.pair = {p}
          /\ t.debounced = tickOf[m].debounced
      BY <2>2, <2>3 DEF Tick
    <2>5. tickOf'[m] = t /\ tickOf' = [tickOf EXCEPT ![m] = t]
      BY <1>0, <2>1 DEF again
    <2> HIDE DEF t
    <2>6. SecondWave(m)'
      <3>1. ASSUME NEW q \in again
            PROVE  /\ q \in outlived \/ young[q] > 0
                   /\ q \in outlived \cup tickOf[m].debounced \cup {p}
        <4>1. CASE q \in tickOf[m].repeated
          <5>1. /\ q \in outlived \/ young[q] > 0
                /\ q \in outlived \cup tickOf[m].debounced \cup tickOf[m].pair
            BY <2>2, <4>1 DEF DetectorInv, SecondWave
          <5>2. tickOf[m].pair = {}
            BY <2>2 DEF DetectorInv, SecondWave
          <5>3. QED
            BY <5>1, <5>2
        <4>2. CASE q = p /\ young[p] + older[p] > 0
          <5>1. young[p] > 0 \/ older[p] > 0
            BY <1>0, <2>2, <4>2
          <5>2. QED
            BY <2>2, <4>2, <5>1 DEF DetectorInv
        <4>3. QED
          BY <2>3, <4>1, <4>2
      <3>2. QED
        BY <1>2, <2>4, <2>5, <3>1 DEF SecondWave, CountAdjustments
    <2>7. QED
      BY <1>2, <2>4, <2>5, <2>6, OneTick DEF CountAdjustments
  <1>3. ASSUME NEW m \in Monitors, LookInWindow(m)
        PROVE  DetectorInv'
    <2> DEFINE t == tickOf[m]
               quiet == t.debounced \cup {p \in t.pair : InWindow(p)}
               plans == t.rows \ quiet
               more == [t EXCEPT !.pc = "count", !.debounced = quiet, !.pair = {}]
               plan == [NoDetection EXCEPT !.pc = "apply", !.left = plans, !.old = t.old,
                                           !.repeated = t.repeated \cap plans]
    <2>1. /\ t \in Tick /\ t.pc = "window" /\ UNCHANGED <<young, older, outlived, off, limitOf>>
          /\ tickOf' = [tickOf EXCEPT ![m] = IF t.left # {} THEN more
                                             ELSE IF plans = {} THEN NoDetection ELSE plan]
      BY <1>0, <1>3 DEF LookInWindow
    <2>2. /\ t.repeated \subseteq FloodPairs /\ t.pair \subseteq FloodPairs
          /\ quiet \subseteq FloodPairs /\ plans \subseteq FloodPairs
          /\ t.old \in [FloodOps -> Nat]
      BY <2>1 DEF Tick
    <2>3. \A p \in t.repeated : p \in outlived \cup quiet /\ (p \in outlived \/ young[p] > 0)
      <3>1. ASSUME NEW p \in t.repeated
            PROVE  p \in outlived \cup quiet /\ (p \in outlived \/ young[p] > 0)
        <4>1. /\ p \in outlived \/ young[p] > 0
              /\ p \in outlived \cup t.debounced \cup t.pair
          BY <2>1 DEF DetectorInv, SecondWave
        <4>2. QED
          BY <4>1 DEF InWindow
      <3>2. QED
        BY <3>1
    <2> HIDE DEF quiet
    <2>4. /\ more \in Tick /\ more.pc = "count" /\ more.pair = {}
          /\ more.repeated = t.repeated /\ more.debounced = quiet
      BY <2>1, <2>2 DEF Tick
    <2>5. plan \in Tick /\ plan.pc = "apply" /\ plan.repeated = t.repeated \cap plans
      BY <2>2 DEF NoDetection, Tick
    <2>6. plan.repeated \subseteq outlived
      BY <2>3, <2>5
    <2> HIDE DEF t, plans, more, plan
    <2>7. CASE t.left # {}
      <3>1. tickOf' = [tickOf EXCEPT ![m] = more] /\ tickOf'[m] = more
        BY <1>0, <2>1, <2>7
      <3>2. SecondWave(m)'
        BY <2>1, <2>3, <2>4, <3>1 DEF SecondWave
      <3>3. QED
        BY <2>1, <2>4, <3>1, <3>2, OneTick
    <2>8. CASE t.left = {} /\ plans = {}
      <3>1. tickOf' = [tickOf EXCEPT ![m] = NoDetection]
        BY <2>1, <2>8
      <3>2. QED
        BY <2>1, <3>1, TickEnds
    <2>9. CASE t.left = {} /\ plans # {}
      <3>1. tickOf' = [tickOf EXCEPT ![m] = plan] /\ tickOf'[m] = plan
        BY <1>0, <2>1, <2>9
      <3>2. SecondWave(m)'
        BY <2>1, <2>5, <2>6, <3>1 DEF SecondWave
      <3>3. QED
        BY <2>1, <2>5, <3>1, <3>2, OneTick
    <2>10. QED
      BY <2>7, <2>8, <2>9
  <1>4. ASSUME NEW m \in Monitors, ApplyPlan(m)
        PROVE  DetectorInv'
    <2> DEFINE t == tickOf[m]
    <2>1. PICK p \in t.left :
            LET o == p[2] disables == p \in t.repeated IN
            /\ off' = IF disables THEN off \cup {o} ELSE off
            /\ limitOf' = IF disables \/ Cut(t.old[o]) = t.old[o] THEN limitOf
                          ELSE [limitOf EXCEPT ![o] = NewLimit(m, o)]
            /\ young' = [young EXCEPT ![p] = @ + 1]
            /\ LET cools == IF p[1] = PeerFlood /\ ~disables THEN {p} ELSE {} IN
               tickOf' = [tickOf EXCEPT ![m] =
                  IF cools = {} /\ @.left = {p} THEN NoDetection
                  ELSE [@ EXCEPT !.left = t.left \ {p}, !.pair = cools]]
      BY <1>4 DEF ApplyPlan
    <2> DEFINE cools == IF p[1] = PeerFlood /\ ~(p \in t.repeated) THEN {p} ELSE {}
               rest == [t EXCEPT !.left = t.left \ {p}, !.pair = cools]
    <2>2. t \in Tick /\ t.pc = "apply" /\ UNCHANGED <<older, outlived>>
      BY <1>0, <1>4 DEF ApplyPlan
    <2>3. /\ p \in FloodPairs /\ p[2] \in FloodOps /\ t.repeated \subseteq outlived
          /\ t.old \in [FloodOps -> Nat]
      BY <2>2 DEF Tick, FloodPairs, DetectorInv, SecondWave
    <2>4. OffAfterSecondWave'
      <3>1. off' = IF p \in t.repeated THEN off \cup {p[2]} ELSE off
        BY <2>1
      <3>2. ASSUME NEW o \in off'
            PROVE  \E q \in outlived : q[2] = o
        <4>1. CASE o \in off
          BY <4>1 DEF DetectorInv, OffAfterSecondWave
        <4>2. CASE p \in t.repeated /\ o = p[2]
          BY <2>3, <4>2
        <4>3. QED
          BY <3>1, <4>1, <4>2
      <3>3. QED
        BY <2>2, <3>2 DEF OffAfterSecondWave
    <2>5. limitOf' \in [FloodOps -> Nat]
      <3>1. limitOf' = limitOf \/ limitOf' = [limitOf EXCEPT ![p[2]] = Cut(t.old[p[2]])]
        BY <2>1 DEF NewLimit
      <3>2. Cut(t.old[p[2]]) \in Nat
        BY <2>3, CutIsNat
      <3>3. QED
        BY <1>0, <2>3, <3>1, <3>2
    <2>6. young' \in [FloodPairs -> Nat] /\ \A q \in FloodPairs : young[q] > 0 => young'[q] > 0
      <3>1. young' = [young EXCEPT ![p] = young[p] + 1]
        BY <2>1
      <3>2. QED
        BY <1>0, <2>3, <3>1
    <2>7. \/ tickOf' = [tickOf EXCEPT ![m] = NoDetection]
          \/ tickOf' = [tickOf EXCEPT ![m] = rest]
      <3>1. CASE cools = {} /\ t.left = {p}
        BY <2>1, <3>1
      <3>2. CASE ~(cools = {} /\ t.left = {p})
        BY <2>1, <3>2
      <3>3. QED
        BY <3>1, <3>2
    <2>8. rest \in Tick /\ rest.pc = "apply" /\ rest.repeated = t.repeated
      <3>1. cools \subseteq FloodPairs
        BY <2>3
      <3> HIDE DEF cools
      <3>2. QED
        BY <2>2, <3>1 DEF Tick
    <2> HIDE DEF rest, cools, t
    <2>9. /\ tickOf' \in [Monitors -> Tick]
          /\ tickOf'[m] = NoDetection \/ tickOf'[m] = rest
          /\ \A n \in Monitors \ {m} : tickOf'[n] = tickOf[n]
      BY <1>0, <2>7, <2>8, NoDetectionIsTick
    <2>10. \A n \in Monitors : SecondWave(n)'
      <3>1. ASSUME NEW n \in Monitors \ {m}
            PROVE  SecondWave(n)'
        <4>1. tickOf'[n] = tickOf[n] /\ SecondWave(n) /\ tickOf[n] \in Tick
          BY <1>0, <2>9 DEF DetectorInv
        <4>2. tickOf[n].repeated \subseteq FloodPairs
          BY <4>1 DEF Tick
        <4>3. QED
          BY <2>2, <2>6, <4>1, <4>2 DEF SecondWave
      <3>2. SecondWave(m)'
        <4>1. CASE tickOf'[m] = NoDetection
          BY <4>1, NoDetectionIsTick DEF SecondWave
        <4>2. CASE tickOf'[m] = rest
          BY <2>2, <2>3, <2>8, <4>2 DEF SecondWave
        <4>3. QED
          BY <2>9, <4>1, <4>2
      <3>3. QED
        BY <3>1, <3>2
    <2>11. QED
      BY <2>2, <2>4, <2>5, <2>6, <2>9, <2>10 DEF DetectorInv, CountedTyped
  <1>5. ASSUME NEW m \in Monitors, CoolAccount(m)
        PROVE  DetectorInv'
    <2> DEFINE t == tickOf[m]
               rest == [t EXCEPT !.pair = {}]
    <2>1. /\ t \in Tick /\ t.pc = "apply" /\ UNCHANGED <<young, older, outlived, off, limitOf>>
          /\ tickOf' = [tickOf EXCEPT ![m] = IF t.left = {} THEN NoDetection ELSE rest]
      BY <1>0, <1>5 DEF CoolAccount
    <2>2. rest \in Tick /\ rest.pc = "apply" /\ rest.repeated = t.repeated
      BY <2>1 DEF Tick
    <2>3. t.repeated \subseteq outlived
      BY <2>1 DEF DetectorInv, SecondWave
    <2> HIDE DEF t, rest
    <2>4. CASE t.left = {}
      BY <2>1, <2>4, TickEnds
    <2>5. CASE t.left # {}
      <3>1. tickOf' = [tickOf EXCEPT ![m] = rest] /\ tickOf'[m] = rest
        BY <1>0, <2>1, <2>5
      <3>2. SecondWave(m)'
        BY <2>1, <2>2, <2>3, <3>1 DEF SecondWave
      <3>3. QED
        BY <2>1, <2>2, <3>1, <3>2, OneTick
    <2>6. QED
      BY <2>4, <2>5
  <1>6. ASSUME NEW m \in Monitors, MonitorDies(m)
        PROVE  DetectorInv'
    BY <1>6, TickEnds DEF MonitorDies
  <1>7. ASSUME WindowPasses
        PROVE  DetectorInv'
    <2>1. PICK p \in FloodPairs : /\ young' = [young EXCEPT ![p] = 0]
                                  /\ older' = [older EXCEPT ![p] = @ + young[p]]
                                  /\ outlived' = outlived \cup {p}
      BY <1>7 DEF WindowPasses
    <2>2. UNCHANGED <<limitOf, off, tickOf>>
      BY <1>7 DEF WindowPasses
    <2>3. /\ young' \in [FloodPairs -> Nat] /\ older' \in [FloodPairs -> Nat]
          /\ \A q \in FloodPairs \ {p} : young'[q] = young[q] /\ older'[q] = older[q]
      <3>1. older' = [older EXCEPT ![p] = older[p] + young[p]] /\ older[p] + young[p] \in Nat
        BY <1>0, <2>1
      <3>2. QED
        BY <1>0, <2>1, <3>1
    <2>4. CountedTyped'
      BY <2>1, <2>3 DEF DetectorInv, CountedTyped
    <2>5. \A n \in Monitors : SecondWave(n)'
      <3>1. ASSUME NEW n \in Monitors
            PROVE  SecondWave(n)'
        <4>1. SecondWave(n) /\ tickOf[n].repeated \subseteq FloodPairs
          BY <1>0 DEF DetectorInv, Tick
        <4>2. QED
          BY <2>1, <2>2, <2>3, <4>1 DEF SecondWave
      <3>2. QED
        BY <3>1
    <2>6. \A q \in FloodPairs : older'[q] > 0 => q \in outlived'
      BY <2>1, <2>3 DEF DetectorInv
    <2>7. OffAfterSecondWave'
      BY <2>1, <2>2 DEF DetectorInv, OffAfterSecondWave
    <2>8. QED
      BY <1>0, <2>2, <2>4, <2>5, <2>6, <2>7 DEF DetectorInv
  <1>8. ASSUME DayPasses
        PROVE  DetectorInv'
    <2>1. PICK p \in FloodPairs : older' = [older EXCEPT ![p] = 0]
      BY <1>8 DEF DayPasses
    <2>2. older' \in [FloodPairs -> Nat] /\ \A q \in FloodPairs : older'[q] > 0 => older[q] > 0
      BY <1>0, <2>1
    <2>3. UNCHANGED <<young, limitOf, off, outlived, tickOf>>
      BY <1>8 DEF DayPasses
    <2>4. QED
      BY <2>2, <2>3 DEF DetectorInv, CountedTyped, SecondWave, OffAfterSecondWave
  <1>9. CASE UNCHANGED detectorVars
    BY <1>9 DEF detectorVars, DetectorInv, CountedTyped, SecondWave, OffAfterSecondWave
  <1>10. QED
    BY <1>1, <1>2, <1>3, <1>4, <1>5, <1>6, <1>7, <1>8, <1>9 DEF DetectorNext

\* The inductive invariant of the detector: what a tick holds for a repeated error
\* has outlived a window, or is passed over.
THEOREM DetectorInvariant == DetectorSpec => []DetectorInv
  <1>1. ASSUME DetectorInit
        PROVE  DetectorInv
    <2>1. /\ CountedTyped /\ limitOf \in [FloodOps -> Nat] /\ OffAfterSecondWave
          /\ \A p \in FloodPairs : older[p] = 0
      BY <1>1, DetectorAssumption DEF DetectorInit, CountedTyped, OffAfterSecondWave
    <2>2. tickOf \in [Monitors -> Tick] /\ \A m \in Monitors : tickOf[m] = NoDetection
      BY <1>1, NoDetectionIsTick DEF DetectorInit
    <2>3. \A m \in Monitors : SecondWave(m)
      BY <2>2, NoDetectionIsTick DEF SecondWave
    <2>4. QED
      BY <2>1, <2>2, <2>3 DEF DetectorInv
  <1>2. DetectorInv /\ [DetectorNext]_detectorVars => DetectorInv'
    BY DetectorStep
  <1>3. QED
    BY <1>1, <1>2, PTL DEF DetectorSpec

\* Induction over the numbers, with a set for the property.
LEMMA LeastNumber ==
    ASSUME NEW S \in SUBSET Nat, S # {}
    PROVE  \E a \in S : \A b \in S : a <= b
  <1>1. PICK d \in S : TRUE
    OBVIOUS
  <1> DEFINE F == 0 .. d
             Below(a) == {b \in S : b <= a}
             All == {Below(a) : a \in S \cap F}
  <1>0. d \in Nat /\ \A b \in S : b \in Nat
    BY <1>1
  <1>2. IsFiniteSet(F) /\ d \in S \cap F
    BY <1>1, FS_Interval
  <1>3. IsWellFoundedOn(StrictSubsetOrdering(F), FiniteSubsetsOf(F))
    BY <1>2, FS_StrictSubsetOrderingWellFounded
  <1>4. All \subseteq FiniteSubsetsOf(F) /\ All # {}
    <2>1. ASSUME NEW a \in S \cap F PROVE Below(a) \in FiniteSubsetsOf(F)
      <3>1. \A b \in Below(a) : b \in F
        BY <1>0
      <3>2. QED
        BY <1>2, <3>1, FS_Subset DEF FiniteSubsetsOf
    <2>2. QED
      BY <1>2, <2>1
  <1>5. PICK T \in All : \A U \in All : ~(<<U, T>> \in StrictSubsetOrdering(F))
    <2> HIDE DEF All
    <2>1. QED
      BY <1>3, <1>4, WFMin
  <1>6. PICK a \in S \cap F : T = Below(a)
    BY <1>5
  <1>7. ASSUME NEW b \in S, ~(a <= b) PROVE FALSE
    <2>0. a \in Nat /\ b \in Nat /\ b < a /\ a <= d /\ \A x \in S : x \in Nat
      BY <1>0, <1>7
    <2>1. \A x \in Below(b) : x \in Below(a)
      BY <2>0
    <2>2. a \in Below(a) /\ a \notin Below(b)
      BY <2>0
    <2>3. b \in S \cap F /\ \A x \in Below(a) : x \in F
      BY <2>0
    <2>4. <<Below(b), Below(a)>> \in StrictSubsetOrdering(F)
      <3> HIDE DEF Below, F
      <3>1. Below(b) \subseteq Below(a) /\ Below(a) \subseteq F /\ Below(b) # Below(a)
        BY <2>1, <2>2, <2>3
      <3>2. QED
        BY <3>1 DEF StrictSubsetOrdering
    <2>5. Below(b) \in All
      BY <2>3
    <2>6. QED
      BY <1>5, <1>6, <2>4, <2>5
  <1>8. QED
    BY <1>7

LEMMA ByNumbers ==
    ASSUME NEW S, 0 \in S, \A n \in Nat : n \in S => n + 1 \in S
    PROVE  Nat \subseteq S
  <1>1. SUFFICES ASSUME NEW d \in Nat, d \notin S PROVE FALSE
    OBVIOUS
  <1>2. PICK m \in Nat \ S : \A b \in Nat \ S : m <= b
    <2>1. Nat \ S \in SUBSET Nat /\ Nat \ S # {}
      BY <1>1
    <2>2. QED
      BY <2>1, LeastNumber
  <1>3. m - 1 \in Nat
    BY <1>2
  <1>4. m - 1 \in S
    BY <1>2, <1>3
  <1>5. QED
    BY <1>2, <1>3, <1>4

\* Cuts is the function its equation describes: there is one up to every n, and they
\* agree.
Unroll(f, n) == IF n = 0 THEN StartRph ELSE Cut(f[n - 1])
IsCuts(f, n) == f = [i \in 0 .. n |-> Unroll(f, i)]

LEMMA CutsAgree ==
    ASSUME NEW f, NEW g, NEW n \in Nat, NEW m \in Nat, IsCuts(f, n), IsCuts(g, m)
    PROVE  \A i \in Nat : i <= n /\ i <= m => f[i] = g[i]
  <1> DEFINE S == {i \in Nat : i <= n /\ i <= m => f[i] = g[i]}
  <1>1. 0 \in S
    BY DEF IsCuts, Unroll
  <1>2. ASSUME NEW i \in Nat, i \in S PROVE i + 1 \in S
    <2>1. SUFFICES ASSUME i + 1 <= n, i + 1 <= m PROVE f[i + 1] = g[i + 1]
      OBVIOUS
    <2>2. i + 1 \in 0 .. n /\ i + 1 \in 0 .. m /\ i + 1 # 0 /\ (i + 1) - 1 = i
      BY <2>1
    <2>3. f[i + 1] = Cut(f[i]) /\ g[i + 1] = Cut(g[i])
      BY <2>2 DEF IsCuts, Unroll
    <2>4. QED
      BY <1>2, <2>1, <2>3
  <1>3. QED
    <2> HIDE DEF S
    <2>1. Nat \subseteq S
      BY <1>1, <1>2, ByNumbers
    <2>2. QED
      BY <2>1 DEF S

LEMMA CutsUpTo == \A n \in Nat : \E f : IsCuts(f, n)
  <1> DEFINE S == {n \in Nat : \E f : IsCuts(f, n)}
  <1>1. 0 \in S
    <2> DEFINE f == [i \in 0 .. 0 |-> StartRph]
    <2>1. IsCuts(f, 0)
      BY DEF IsCuts, Unroll
    <2> QED
      BY <2>1
  <1>2. ASSUME NEW n \in Nat, n \in S PROVE n + 1 \in S
    <2>1. PICK f : IsCuts(f, n)
      BY <1>2
    <2> DEFINE g == [i \in 0 .. n + 1 |-> IF i = n + 1 THEN Cut(f[n]) ELSE f[i]]
    <2>2. ASSUME NEW i \in 0 .. n + 1 PROVE g[i] = Unroll(g, i)
      <3>1. CASE i = n + 1
        <4>1. i # 0 /\ i - 1 = n /\ n \in 0 .. n + 1 /\ n # n + 1
          BY <3>1
        <4>2. g[n] = f[n]
          BY <4>1
        <4>3. g[i] = Cut(f[n])
          BY <3>1
        <4>4. QED
          BY <4>1, <4>2, <4>3 DEF Unroll
      <3>2. CASE i # n + 1 /\ i # 0
        <4>1. i \in 0 .. n /\ i - 1 \in 0 .. n + 1 /\ i - 1 # n + 1
          BY <3>2
        <4>2. g[i] = f[i] /\ g[i - 1] = f[i - 1] /\ f[i] = Cut(f[i - 1])
          BY <2>1, <3>2, <4>1 DEF IsCuts, Unroll
        <4>3. QED
          BY <3>2, <4>2 DEF Unroll
      <3>3. CASE i = 0
        <4>1. 0 \in 0 .. n /\ 0 # n + 1
          OBVIOUS
        <4>2. g[0] = f[0] /\ f[0] = StartRph
          BY <2>1, <3>3, <4>1 DEF IsCuts, Unroll
        <4>3. QED
          BY <3>3, <4>2 DEF Unroll
      <3>4. QED
        BY <3>1, <3>2, <3>3
    <2>3. IsCuts(g, n + 1)
      <3>1. g = [i \in 0 .. n + 1 |-> g[i]]
        OBVIOUS
      <3> HIDE DEF g
      <3>2. QED
        BY <2>2, <3>1 DEF IsCuts
    <2>4. QED
      BY <2>3
  <1>3. QED
    <2> HIDE DEF S
    <2>1. Nat \subseteq S
      BY <1>1, <1>2, ByNumbers
    <2>2. QED
      BY <2>1 DEF S

LEMMA CutsUnroll == Cuts = [n \in Nat |-> Unroll(Cuts, n)]
  <1> DEFINE h == [n \in Nat |-> CHOOSE f : IsCuts(f, n)]
             G == [n \in Nat |-> h[n][n]]
  <1>1. \A n \in Nat : IsCuts(h[n], n)
    BY CutsUpTo
  <1> HIDE DEF h
  <1>2. ASSUME NEW n \in Nat PROVE G[n] = Unroll(G, n)
    <2>1. CASE n = 0
      <3>1. IsCuts(h[0], 0) /\ 0 \in 0 .. 0
        BY <1>1
      <3>2. h[0][0] = StartRph
        BY <3>1 DEF IsCuts, Unroll
      <3>3. QED
        BY <2>1, <3>2 DEF Unroll
    <2>2. CASE n # 0
      <3>1. n - 1 \in Nat /\ n \in 0 .. n /\ n - 1 <= n /\ n - 1 <= n - 1
        BY <2>2
      <3>2. h[n][n] = Cut(h[n][n - 1])
        BY <1>1, <2>2, <3>1 DEF IsCuts, Unroll
      <3>3. h[n][n - 1] = h[n - 1][n - 1]
        BY <1>1, <3>1, CutsAgree
      <3>4. QED
        BY <2>2, <3>1, <3>2, <3>3 DEF Unroll
    <2>3. QED
      BY <2>1, <2>2
  <1>3. G = [n \in Nat |-> Unroll(G, n)]
    <2>1. G = [n \in Nat |-> G[n]]
      OBVIOUS
    <2> HIDE DEF G
    <2>2. QED
      BY <1>2, <2>1
  <1> HIDE DEF G
  <1>4. \E f : f = [n \in Nat |-> IF n = 0 THEN StartRph ELSE Cut(f[n - 1])]
    BY <1>3 DEF Unroll
  <1>5. QED
    BY <1>4, Zenon DEF Cuts, Unroll

\* The sum of OneCutPerWave: the function f that MapThenSumSet chooses adds the terms
\* of a set of codes one by one.
AnyCode(s) == CHOOSE x \in s : TRUE
Added(f, w, o, s) == IF s = {} THEN 0 ELSE w[<<AnyCode(s), o>>] + f[s \ {AnyCode(s)}]
Adds(f, w, o) == f = [s \in SUBSET FloodCodes |-> Added(f, w, o, s)]
WavesOf(w, o) == MapThenSumSet(LAMBDA c : w[<<c, o>>], FloodCodes)

LEMMA Codes ==
    /\ IsFiniteSet(FloodCodes)
    /\ \A s \in SUBSET FloodCodes : IsFiniteSet(s) /\ Cardinality(s) \in Nat
    /\ \A s \in SUBSET FloodCodes : Cardinality(s) = 0 <=> s = {}
    /\ \A s \in SUBSET FloodCodes : s # {} =>
          /\ AnyCode(s) \in s /\ s \ {AnyCode(s)} \in SUBSET FloodCodes
          /\ Cardinality(s \ {AnyCode(s)}) = Cardinality(s) - 1
  <1>1. IsFiniteSet(FloodCodes)
    BY DetectorAssumption
  <1>2. ASSUME NEW s \in SUBSET FloodCodes
        PROVE  IsFiniteSet(s) /\ Cardinality(s) \in Nat /\ (Cardinality(s) = 0 <=> s = {})
    BY <1>1, FS_Subset, FS_CardinalityType, FS_EmptySet
  <1>3. ASSUME NEW s \in SUBSET FloodCodes, s # {}
        PROVE  /\ AnyCode(s) \in s /\ s \ {AnyCode(s)} \in SUBSET FloodCodes
               /\ Cardinality(s \ {AnyCode(s)}) = Cardinality(s) - 1
    <2>1. AnyCode(s) \in s
      BY <1>3 DEF AnyCode
    <2>2. QED
      BY <1>2, <2>1, FS_RemoveElement
  <1>4. QED
    BY <1>1, <1>2, <1>3

\* Sets of codes, by how many they are.
LEMMA ByCodes ==
    ASSUME NEW Q, {} \in Q,
           \A s \in SUBSET FloodCodes : s # {} /\ s \ {AnyCode(s)} \in Q => s \in Q
    PROVE  SUBSET FloodCodes \subseteq Q
  <1> DEFINE S == {n \in Nat : \A s \in SUBSET FloodCodes : Cardinality(s) = n => s \in Q}
  <1>1. 0 \in S
    BY Codes
  <1>2. ASSUME NEW n \in Nat, n \in S PROVE n + 1 \in S
    <2>1. SUFFICES ASSUME NEW s \in SUBSET FloodCodes, Cardinality(s) = n + 1 PROVE s \in Q
      OBVIOUS
    <2>2. s # {}
      BY <2>1, Codes
    <2>3. s \ {AnyCode(s)} \in SUBSET FloodCodes /\ Cardinality(s \ {AnyCode(s)}) = n
      BY <2>1, <2>2, Codes
    <2>4. QED
      BY <1>2, <2>2, <2>3
  <1> HIDE DEF S
  <1>3. Nat \subseteq S
    BY <1>1, <1>2, ByNumbers
  <1>4. QED
    BY <1>3, Codes DEF S

LEMMA AddedUp ==
    ASSUME NEW w, NEW o
    PROVE  \E f : Adds(f, w, o)
  <1> DEFINE Small(n) == {s \in SUBSET FloodCodes : Cardinality(s) <= n}
             S == {n \in Nat : \E f : f = [s \in Small(n) |-> Added(f, w, o, s)]}
  <1>1. 0 \in S
    <2> DEFINE f == [s \in Small(0) |-> 0]
    <2>1. \A s \in Small(0) : s = {} 
      BY Codes
    <2>2. f = [s \in Small(0) |-> Added(f, w, o, s)]
      BY <2>1 DEF Added
    <2>3. QED
      BY <2>2
  <1>2. ASSUME NEW n \in Nat, n \in S PROVE n + 1 \in S
    <2>1. PICK f : f = [s \in Small(n) |-> Added(f, w, o, s)]
      BY <1>2
    <2> DEFINE g == [s \in Small(n + 1) |-> IF s \in Small(n) THEN f[s] ELSE Added(f, w, o, s)]
    <2>2. ASSUME NEW s \in Small(n + 1), s # {}
          PROVE  s \ {AnyCode(s)} \in Small(n) /\ s \ {AnyCode(s)} \in Small(n + 1)
      <3>1. Cardinality(s) \in Nat /\ Cardinality(s) <= n + 1 /\ s \in SUBSET FloodCodes
        BY Codes
      <3>2. s \ {AnyCode(s)} \in SUBSET FloodCodes /\ Cardinality(s \ {AnyCode(s)}) = Cardinality(s) - 1
        BY <2>2, <3>1, Codes
      <3>3. QED
        BY <3>1, <3>2
    <2>3. ASSUME NEW s \in Small(n + 1) PROVE g[s] = Added(g, w, o, s)
      <3>1. g[s] = Added(f, w, o, s)
        <4>1. CASE s \in Small(n)
          BY <2>1, <4>1
        <4>2. CASE s \notin Small(n)
          BY <4>2
        <4>3. QED
          BY <4>1, <4>2
      <3>2. Added(f, w, o, s) = Added(g, w, o, s)
        <4>1. CASE s = {}
          BY <4>1 DEF Added
        <4>2. CASE s # {}
          <5>1. g[s \ {AnyCode(s)}] = f[s \ {AnyCode(s)}]
            BY <2>2, <4>2
          <5> HIDE DEF g
          <5>2. QED
            BY <4>2, <5>1 DEF Added
        <4>3. QED
          BY <4>1, <4>2
      <3>3. QED
        BY <3>1, <3>2
    <2>4. g = [s \in Small(n + 1) |-> Added(g, w, o, s)]
      <3>1. g = [s \in Small(n + 1) |-> g[s]]
        OBVIOUS
      <3> HIDE DEF g
      <3>2. QED
        BY <2>3, <3>1
    <2> HIDE DEF g, Small
    <2>5. QED
      BY <2>4
  <1>3. PICK f : f = [s \in Small(Cardinality(FloodCodes)) |-> Added(f, w, o, s)]
    <2> HIDE DEF Small
    <2>1. Cardinality(FloodCodes) \in Nat
      BY Codes
    <2>2. Nat \subseteq S
      <3> HIDE DEF S
      <3>1. QED
        BY <1>1, <1>2, ByNumbers
    <2>3. QED
      BY <2>1, <2>2
  <1>4. Small(Cardinality(FloodCodes)) = SUBSET FloodCodes
    <2>1. ASSUME NEW s \in SUBSET FloodCodes
          PROVE  Cardinality(s) <= Cardinality(FloodCodes)
      BY Codes, FS_Subset
    <2>2. QED
      BY <2>1
  <1> HIDE DEF Small
  <1>5. QED
    BY <1>3, <1>4 DEF Adds

LEMMA WavesAdd ==
    ASSUME NEW w, NEW o
    PROVE  \E f : Adds(f, w, o) /\ WavesOf(w, o) = f[FloodCodes]
  <1> DEFINE f == CHOOSE f : f = [s \in SUBSET FloodCodes |->
                                    IF s = {} THEN 0
                                    ELSE w[<<CHOOSE x \in s : TRUE, o>>]
                                           + f[s \ {CHOOSE x \in s : TRUE}]]
  <1>1. WavesOf(w, o) = f[FloodCodes]
    BY DEF WavesOf, MapThenSumSet, MapThenFoldSet
  <1>2. \E g : g = [s \in SUBSET FloodCodes |->
                        IF s = {} THEN 0
                        ELSE w[<<CHOOSE x \in s : TRUE, o>>] + g[s \ {CHOOSE x \in s : TRUE}]]
    <2> HIDE DEF f
    <2>1. PICK h : Adds(h, w, o)
      BY AddedUp
    <2>2. h = [s \in SUBSET FloodCodes |->
                  IF s = {} THEN 0
                  ELSE w[<<CHOOSE x \in s : TRUE, o>>] + h[s \ {CHOOSE x \in s : TRUE}]]
      BY <2>1, Zenon DEF Adds, Added, AnyCode
    <2>3. QED
      BY <2>2, Zenon
  <1>3. f = [s \in SUBSET FloodCodes |->
                                    IF s = {} THEN 0
                                    ELSE w[<<CHOOSE x \in s : TRUE, o>>]
                                           + f[s \ {CHOOSE x \in s : TRUE}]]
    BY <1>2, Zenon
  <1>4. Adds(f, w, o)
    <2> HIDE DEF f
    <2> QED
      BY <1>3, Zenon DEF Adds, Added, AnyCode
  <1>5. QED
    BY <1>1, <1>4

\* The term of a code goes up by one, or none does.
OneMore(w, v, o, c, e) ==
    \A x \in FloodCodes : /\ w[<<x, o>>] \in Nat
                          /\ x = c => v[<<x, o>>] = w[<<x, o>>] + e
                          /\ x # c => v[<<x, o>>] = w[<<x, o>>]

SumOneMore(f, g, c, e) ==
    \A s \in SUBSET FloodCodes : /\ f[s] \in Nat
                                 /\ c \in s => g[s] = f[s] + e
                                 /\ c \notin s => g[s] = f[s]

LEMMA SumGrows ==
    ASSUME NEW f, NEW g, NEW w, NEW v, NEW o, NEW c, NEW e \in {0, 1},
           Adds(f, w, o), Adds(g, v, o), OneMore(w, v, o, c, e)
    PROVE  SumOneMore(f, g, c, e)
  <1> DEFINE P(s) == /\ f[s] \in Nat
                     /\ c \in s => g[s] = f[s] + e
                     /\ c \notin s => g[s] = f[s]
             Q == {s \in SUBSET FloodCodes : P(s)}
  <1>1. {} \in Q
    <2>1. f[{}] = 0 /\ g[{}] = 0
      BY DEF Adds, Added
    <2>2. QED
      BY <2>1
  <1>2. ASSUME NEW s \in SUBSET FloodCodes, s # {}, s \ {AnyCode(s)} \in Q
        PROVE  s \in Q
    <2> DEFINE x == AnyCode(s)
               r == s \ {x}
    <2>1. x \in s /\ x \in FloodCodes /\ r \in SUBSET FloodCodes
      BY <1>2, Codes
    <2>2. f[s] = w[<<x, o>>] + f[r] /\ g[s] = v[<<x, o>>] + g[r]
      BY <1>2 DEF Adds, Added
    <2> HIDE DEF x
    <2>3. P(r)
      BY <1>2 DEF x
    <2> HIDE DEF r
    <2>4. CASE x = c
      <3>1. c \in s /\ c \notin r
        BY <2>1, <2>4 DEF r
      <3>2. v[<<x, o>>] = w[<<x, o>>] + e /\ w[<<x, o>>] \in Nat /\ g[r] = f[r] /\ f[r] \in Nat
        BY <2>1, <2>3, <2>4, <3>1 DEF OneMore
      <3>3. P(s)
        BY <2>2, <3>1, <3>2
      <3>4. QED
        BY <3>3
    <2>5. CASE x # c
      <3>1. c \in s <=> c \in r
        BY <2>5 DEF r
      <3>2. v[<<x, o>>] = w[<<x, o>>] /\ w[<<x, o>>] \in Nat
        BY <2>1, <2>5 DEF OneMore
      <3>3. P(s)
        BY <2>2, <2>3, <3>1, <3>2
      <3>4. QED
        BY <3>3
    <2>6. QED
      BY <2>4, <2>5
  <1>3. QED
    <2> HIDE DEF Q, P
    <2>1. SUBSET FloodCodes \subseteq Q
      BY <1>1, <1>2, ByCodes
    <2>2. QED
      BY <2>1 DEF Q, P, SumOneMore

\* A sum is zero when every term is, and is no less than any.
LEMMA SumBounds ==
    ASSUME NEW f, NEW w, NEW o, Adds(f, w, o), \A x \in FloodCodes : w[<<x, o>>] \in Nat
    PROVE  \A s \in SUBSET FloodCodes :
              /\ f[s] \in Nat
              /\ \A x \in s : w[<<x, o>>] <= f[s]
              /\ (\A x \in FloodCodes : w[<<x, o>>] = 0) => f[s] = 0
  <1> DEFINE P(s) == /\ f[s] \in Nat
                     /\ \A x \in s : w[<<x, o>>] <= f[s]
                     /\ (\A x \in FloodCodes : w[<<x, o>>] = 0) => f[s] = 0
             Q == {s \in SUBSET FloodCodes : P(s)}
  <1>1. {} \in Q
    <2>1. f[{}] = 0
      BY DEF Adds, Added
    <2>2. QED
      BY <2>1
  <1>2. ASSUME NEW s \in SUBSET FloodCodes, s # {}, s \ {AnyCode(s)} \in Q
        PROVE  s \in Q
    <2> DEFINE x == AnyCode(s)
               r == s \ {x}
    <2>1. x \in s /\ x \in FloodCodes /\ r \in SUBSET FloodCodes
      BY <1>2, Codes
    <2>2. f[s] = w[<<x, o>>] + f[r]
      BY <1>2 DEF Adds, Added
    <2> HIDE DEF x
    <2>3. P(r)
      BY <1>2 DEF x
    <2>4. f[s] \in Nat /\ w[<<x, o>>] <= f[s] /\ f[r] <= f[s] /\ f[r] \in Nat
      BY <2>1, <2>2, <2>3
    <2>5. ASSUME NEW y \in s PROVE w[<<y, o>>] <= f[s]
      <3>1. CASE y = x
        BY <2>4, <3>1
      <3>2. CASE y # x
        <4>1. w[<<y, o>>] <= f[r] /\ w[<<y, o>>] \in Nat
          BY <2>3, <3>2
        <4>2. QED
          BY <2>4, <4>1
      <3>3. QED
        BY <3>1, <3>2
    <2>6. (\A y \in FloodCodes : w[<<y, o>>] = 0) => f[s] = 0
      BY <2>1, <2>2, <2>3
    <2>7. QED
      BY <2>4, <2>5, <2>6
  <1>3. QED
    <2> HIDE DEF Q, P
    <2>1. SUBSET FloodCodes \subseteq Q
      BY <1>1, <1>2, ByCodes
    <2>2. QED
      BY <2>1 DEF Q, P

LEMMA WavesBounds ==
    ASSUME NEW w \in [FloodPairs -> Nat], NEW o \in FloodOps
    PROVE  /\ WavesOf(w, o) \in Nat
           /\ \A p \in FloodPairs : p[2] = o => w[p] <= WavesOf(w, o)
           /\ (\A p \in FloodPairs : w[p] = 0) => WavesOf(w, o) = 0
  <1>1. PICK f : Adds(f, w, o) /\ WavesOf(w, o) = f[FloodCodes]
    BY WavesAdd
  <1>2. \A x \in FloodCodes : <<x, o>> \in FloodPairs /\ w[<<x, o>>] \in Nat
    BY DEF FloodPairs
  <1>3. /\ f[FloodCodes] \in Nat /\ \A x \in FloodCodes : w[<<x, o>>] <= f[FloodCodes]
        /\ (\A x \in FloodCodes : w[<<x, o>>] = 0) => f[FloodCodes] = 0
    BY <1>1, <1>2, SumBounds
  <1>4. \A p \in FloodPairs : p[2] = o => p[1] \in FloodCodes /\ p = <<p[1], o>>
    BY DEF FloodPairs
  <1>5. QED
    BY <1>1, <1>2, <1>3, <1>4

AddsOne(w, v, p, e) == v = [w EXCEPT ![p] = w[p] + e]

\* One more wave of a pair is one more of its op, and of no other.
LEMMA WavesGrow ==
    ASSUME NEW w \in [FloodPairs -> Nat], NEW v, NEW p \in FloodPairs, NEW e \in {0, 1},
           AddsOne(w, v, p, e), NEW o \in FloodOps
    PROVE  /\ p[2] = o => WavesOf(v, o) = WavesOf(w, o) + e
           /\ p[2] # o => WavesOf(v, o) = WavesOf(w, o)
  <1>1. PICK f : Adds(f, w, o) /\ WavesOf(w, o) = f[FloodCodes]
    BY WavesAdd
  <1>2. PICK g : Adds(g, v, o) /\ WavesOf(v, o) = g[FloodCodes]
    BY WavesAdd
  <1>0. v = [w EXCEPT ![p] = w[p] + e]
    BY DEF AddsOne
  <1>3. /\ p[1] \in FloodCodes /\ p = <<p[1], p[2]>>
        /\ \A x \in FloodCodes : <<x, o>> \in FloodPairs
    BY DEF FloodPairs
  <1>4. CASE p[2] = o
    <2>1. OneMore(w, v, o, p[1], e)
      <3>1. ASSUME NEW x \in FloodCodes
            PROVE  /\ w[<<x, o>>] \in Nat
                   /\ x = p[1] => v[<<x, o>>] = w[<<x, o>>] + e
                   /\ x # p[1] => v[<<x, o>>] = w[<<x, o>>]
        <4>1. <<x, o>> \in FloodPairs /\ (<<x, o>> = p <=> x = p[1])
          BY <1>3, <1>4
        <4>2. v[<<x, o>>] = IF <<x, o>> = p THEN w[p] + e ELSE w[<<x, o>>]
          BY <1>0, <4>1
        <4>3. w[<<x, o>>] \in Nat
          BY <4>1
        <4>4. QED
          BY <4>1, <4>2, <4>3
      <3>2. QED
        BY <3>1 DEF OneMore
    <2>2. SumOneMore(f, g, p[1], e)
      BY <1>1, <1>2, <2>1, SumGrows
    <2>3. QED
      BY <1>1, <1>2, <1>3, <1>4, <2>2 DEF SumOneMore
  <1>5. CASE p[2] # o
    <2>1. OneMore(w, v, o, p[1], 0)
      <3>1. ASSUME NEW x \in FloodCodes
            PROVE  /\ w[<<x, o>>] \in Nat /\ v[<<x, o>>] = w[<<x, o>>]
        <4>1. <<x, o>> \in FloodPairs /\ <<x, o>> # p
          BY <1>3, <1>5
        <4>2. QED
          BY <1>0, <4>1
      <3>2. QED
        BY <3>1 DEF OneMore
    <2>2. 0 \in {0, 1}
      OBVIOUS
    <2>3. SumOneMore(f, g, p[1], 0)
      BY <1>1, <1>2, <2>1, <2>2, SumGrows
    <2>4. QED
      BY <1>1, <1>2, <1>5, <2>3 DEF SumOneMore
  <1>6. QED
    BY <1>4, <1>5

LEMMA CutFalls ==
    /\ \A a, b \in Nat : a <= b => Cut(a) <= Cut(b)
    /\ \A a \in Nat : MinRph <= Cut(a) /\ (MinRph <= a => Cut(a) <= a)
  <1>1. ASSUME NEW a \in Nat
        PROVE  Cut(a) = IF MinRph <= (a * 7) \div 10 THEN (a * 7) \div 10 ELSE MinRph
    <2> DEFINE c == (a * 7) \div 10
    <2>1. c \in Nat /\ MinRph \in Nat
      BY DetectorAssumption
    <2> HIDE DEF c
    <2> DEFINE m == CHOOSE x \in {c, MinRph} : \A y \in {c, MinRph} : x >= y
    <2>2. \E x \in {c, MinRph} : \A y \in {c, MinRph} : x >= y
      BY <2>1
    <2>3. m \in {c, MinRph} /\ \A y \in {c, MinRph} : m >= y
      BY <2>2
    <2>4. Cut(a) = m
      BY DEF Cut, Max, c
    <2> HIDE DEF m
    <2>5. Cut(a) = IF MinRph <= c THEN c ELSE MinRph
      BY <2>1, <2>3, <2>4
    <2>6. QED
      BY <2>5 DEF c
  <1>2. QED
    BY <1>1, DetectorAssumption

LEMMA CutsFall ==
    /\ \A n \in Nat : Cuts[n] \in Nat /\ Cuts[n + 1] = Cut(Cuts[n])
    /\ Cuts[0] = StartRph
    /\ \A i, j \in Nat : 1 <= i /\ i <= j => Cuts[j] <= Cuts[i]
  <1>1. Cuts[0] = StartRph
    BY CutsUnroll DEF Unroll
  <1>2. ASSUME NEW n \in Nat
        PROVE  Cuts[n + 1] = Cut(Cuts[n])
    <2>1. n + 1 \in Nat /\ n + 1 # 0 /\ (n + 1) - 1 = n
      OBVIOUS
    <2>2. Cuts[n + 1] = Unroll(Cuts, n + 1)
      <3> DEFINE F == [i \in Nat |-> Unroll(Cuts, i)]
      <3>1. F[n + 1] = Unroll(Cuts, n + 1)
        BY <2>1
      <3>2. Cuts = F
        BY CutsUnroll
      <3> HIDE DEF F
      <3>3. QED
        BY <3>1, <3>2
    <2>3. QED
      BY <2>1, <2>2 DEF Unroll
  <1>3. \A n \in Nat : Cuts[n] \in Nat
    <2> DEFINE S == {n \in Nat : Cuts[n] \in Nat}
    <2>1. 0 \in S
      BY <1>1, DetectorAssumption
    <2>2. \A n \in Nat : n \in S => n + 1 \in S
      BY <1>2, CutIsNat
    <2> HIDE DEF S
    <2>3. Nat \subseteq S
      BY <2>1, <2>2, ByNumbers
    <2>4. QED
      BY <2>3 DEF S
  <1>4. ASSUME NEW n \in Nat, 1 <= n
        PROVE  Cuts[n + 1] <= Cuts[n]
    <2>1. n - 1 \in Nat /\ (n - 1) + 1 = n
      BY <1>4
    <2>2. Cuts[n] = Cut(Cuts[n - 1]) /\ Cuts[n - 1] \in Nat
      BY <1>2, <1>3, <2>1
    <2>3. MinRph <= Cuts[n]
      BY <2>2, CutFalls
    <2>4. QED
      BY <1>2, <1>3, <2>3, CutFalls
  <1>5. ASSUME NEW i \in Nat, 1 <= i
        PROVE  \A j \in Nat : i <= j => Cuts[j] <= Cuts[i]
    <2> DEFINE S == {j \in Nat : i <= j => Cuts[j] <= Cuts[i]}
    <2>1. 0 \in S
      BY <1>5
    <2>2. ASSUME NEW j \in Nat, j \in S
          PROVE  j + 1 \in S
      <3>1. CASE i <= j
        <4>1. Cuts[j] <= Cuts[i] /\ Cuts[j + 1] <= Cuts[j]
          BY <1>4, <1>5, <2>2, <3>1
        <4>2. Cuts[j] \in Nat /\ Cuts[j + 1] \in Nat /\ Cuts[i] \in Nat
          BY <1>3
        <4>3. QED
          BY <4>1, <4>2
      <3>2. CASE i = j + 1
        BY <1>3, <3>2
      <3>3. CASE ~(i <= j + 1)
        BY <3>3
      <3>4. QED
        BY <3>1, <3>2, <3>3
    <2> HIDE DEF S
    <2>3. Nat \subseteq S
      BY <2>1, <2>2, ByNumbers
    <2>4. QED
      BY <2>3 DEF S
  <1>6. QED
    BY <1>1, <1>2, <1>3, <1>5

\* The pairs a tick has found outside the window and not adjusted yet.
Passed(t) == IF t.pc = "apply" THEN t.left ELSE t.rows \ (t.left \cup t.pair \cup t.debounced)

\* The limit of the tick's rows is of the time of k waves; a pair it has passed and
\* that is in the window by now began another wave since.
MadeAfter(t, o, k) ==
    /\ k <= WavesOf(waves, o) /\ Cuts[k] <= t.old[o]
    /\ \A p \in Passed(t) : p[2] = o /\ young[p] > 0 => k < WavesOf(waves, o)

Planned(t) ==
    t.pc # "off" => \A o \in FloodOps : /\ WavesOf(waves, o) = 0 => t.old[o] = StartRph
                                        /\ \E k \in Nat : MadeAfter(t, o, k)

LimitKept(o) == /\ Cuts[WavesOf(waves, o)] <= limitOf[o]
                /\ WavesOf(waves, o) = 0 => limitOf[o] = StartRph

WavesInv ==
    /\ waves \in [FloodPairs -> Nat]
    /\ \A p \in FloodPairs : young[p] > 0 \/ older[p] > 0 => waves[p] > 0
    /\ \A m \in Monitors : \A p \in tickOf[m].repeated : waves[p] > 0
    /\ \A o \in FloodOps : LimitKept(o)
    /\ \A m \in Monitors : Planned(tickOf[m])

LEMMA PlannedEnds == Planned(NoDetection)
  BY NoDetectionIsTick DEF Planned

\* A step of one monitor that adjusts nothing.
LEMMA TickKeepsWaves ==
    ASSUME DetectorInv, WavesInv, NEW m \in Monitors, NEW t \in Tick,
           tickOf' = [tickOf EXCEPT ![m] = t], UNCHANGED <<young, older, waves, limitOf>>,
           \A p \in t.repeated : waves[p] > 0, Planned(t)
    PROVE  WavesInv'
  <1>1. tickOf'[m] = t /\ \A n \in Monitors \ {m} : tickOf'[n] = tickOf[n]
    BY DEF DetectorInv
  <1>2. ASSUME NEW n \in Monitors
        PROVE  (\A p \in tickOf'[n].repeated : waves'[p] > 0) /\ Planned(tickOf[n])'
    <2>1. CASE n = m
      BY <1>1, <2>1 DEF Planned, MadeAfter
    <2>2. CASE n # m
      <3>1. Planned(tickOf[n]) /\ \A p \in tickOf[n].repeated : waves[p] > 0
        BY DEF WavesInv
      <3>2. QED
        BY <1>1, <2>2, <3>1 DEF Planned, MadeAfter
    <2>3. QED
      BY <2>1, <2>2
  <1>3. \A o \in FloodOps : LimitKept(o)'
    BY DEF WavesInv, LimitKept
  <1>4. /\ waves' \in [FloodPairs -> Nat]
        /\ \A p \in FloodPairs : young'[p] > 0 \/ older'[p] > 0 => waves'[p] > 0
    BY DEF WavesInv
  <1>5. QED
    BY <1>2, <1>3, <1>4 DEF WavesInv

\* What has been adjusted bounds the waves of its op from below.
LEMMA OnceAdjusted ==
    ASSUME DetectorInv, WavesInv, NEW p \in FloodPairs,
           young[p] > 0 \/ older[p] > 0 \/ \E m \in Monitors : p \in tickOf[m].repeated
    PROVE  p[2] \in FloodOps /\ WavesOf(waves, p[2]) > 0
  <1>1. p[2] \in FloodOps /\ waves \in [FloodPairs -> Nat] /\ waves[p] > 0
    BY DEF WavesInv, FloodPairs
  <1>2. WavesOf(waves, p[2]) \in Nat /\ waves[p] <= WavesOf(waves, p[2])
    BY <1>1, WavesBounds
  <1>3. QED
    BY <1>1, <1>2

LEMMA FetchKeepsWaves ==
    ASSUME DetectorInv, WavesInv, NEW m \in Monitors, FetchRecurring(m)
    PROVE  WavesInv'
  <1>1. PICK R \in (SUBSET FloodPairs) \ {{}} :
           tickOf' = [tickOf EXCEPT ![m] = [NoDetection EXCEPT
                        !.pc = "count", !.left = R, !.rows = R, !.old = limitOf]]
    BY DEF FetchRecurring
  <1> DEFINE t == [NoDetection EXCEPT !.pc = "count", !.left = R, !.rows = R, !.old = limitOf]
  <1>2. /\ t \in Tick /\ t.repeated = {} /\ t.pc = "count" /\ t.left = R /\ t.rows = R
        /\ t.old = limitOf
    BY DEF NoDetection, Tick, DetectorInv
  <1>3. tickOf' = [tickOf EXCEPT ![m] = t]
    BY <1>1
  <1> HIDE DEF t
  <1>4. Planned(t)
    <2>1. ASSUME NEW o \in FloodOps
          PROVE  /\ WavesOf(waves, o) = 0 => t.old[o] = StartRph
                 /\ \E k \in Nat : MadeAfter(t, o, k)
      <3>1. WavesOf(waves, o) \in Nat /\ LimitKept(o)
        BY WavesBounds DEF WavesInv
      <3>2. Passed(t) = {}
        BY <1>2 DEF Passed
      <3>3. MadeAfter(t, o, WavesOf(waves, o))
        BY <1>2, <3>1, <3>2 DEF MadeAfter, LimitKept
      <3>4. QED
        BY <1>2, <3>1, <3>3 DEF LimitKept
    <2>2. QED
      BY <2>1 DEF Planned
  <1>5. QED
    BY <1>2, <1>3, <1>4, TickKeepsWaves DEF FetchRecurring, NothingAdjusted, NoneForgotten

\* A tick whose rows are those of another and that has passed no more of them.
LEMMA PlannedStill ==
    ASSUME NEW t, NEW u, t.pc # "off", Planned(t), u.old = t.old, Passed(u) \subseteq Passed(t)
    PROVE  Planned(u)
  BY DEF Planned, MadeAfter

LEMMA CountKeepsWaves ==
    ASSUME DetectorInv, WavesInv, NEW m \in Monitors, CountAdjustments(m)
    PROVE  WavesInv'
  <1>1. PICK p \in tickOf[m].left :
           tickOf' = [tickOf EXCEPT ![m].pc = "window", ![m].left = @ \ {p}, ![m].pair = {p},
                                    ![m].repeated = IF young[p] + older[p] > 0
                                                    THEN @ \cup {p} ELSE @]
    BY DEF CountAdjustments
  <1> DEFINE again == IF young[p] + older[p] > 0 THEN tickOf[m].repeated \cup {p}
                                                 ELSE tickOf[m].repeated
             t == [tickOf[m] EXCEPT !.pc = "window", !.left = @ \ {p}, !.pair = {p},
                                    !.repeated = again]
  <1>2. /\ tickOf[m] \in Tick /\ tickOf[m].pc = "count" /\ p \in FloodPairs
        /\ young[p] \in Nat /\ older[p] \in Nat /\ tickOf \in [Monitors -> Tick]
        /\ tickOf[m].repeated \subseteq FloodPairs /\ tickOf[m].pair = {}
    BY DEF DetectorInv, CountAdjustments, Tick, CountedTyped, SecondWave
  <1>3. again \subseteq FloodPairs /\ \A q \in again : waves[q] > 0
    <2>1. \A q \in tickOf[m].repeated : waves[q] > 0
      BY DEF WavesInv
    <2>2. young[p] + older[p] > 0 => waves[p] > 0
      BY <1>2 DEF WavesInv
    <2>3. QED
      BY <1>2, <2>1, <2>2
  <1> HIDE DEF again
  <1>4. /\ t \in Tick /\ t.pc = "window" /\ t.repeated = again /\ t.pair = {p}
        /\ t.debounced = tickOf[m].debounced /\ t.old = tickOf[m].old
        /\ t.rows = tickOf[m].rows /\ t.left = tickOf[m].left \ {p}
    BY <1>2, <1>3 DEF Tick
  <1>5. tickOf' = [tickOf EXCEPT ![m] = t]
    BY <1>1, <1>2 DEF again
  <1> HIDE DEF t
  <1>6. Passed(t) \subseteq Passed(tickOf[m])
    BY <1>2, <1>4 DEF Passed
  <1>7. Planned(t)
    BY <1>2, <1>4, <1>6, PlannedStill DEF WavesInv
  <1>8. QED
    BY <1>3, <1>4, <1>5, <1>7, TickKeepsWaves DEF CountAdjustments, NothingAdjusted, NoneForgotten

LEMMA LookKeepsWaves ==
    ASSUME DetectorInv, WavesInv, NEW m \in Monitors, LookInWindow(m)
    PROVE  WavesInv'
  <1> DEFINE t == tickOf[m]
             quiet == t.debounced \cup {p \in t.pair : InWindow(p)}
             plans == t.rows \ quiet
             more == [t EXCEPT !.pc = "count", !.debounced = quiet, !.pair = {}]
             plan == [NoDetection EXCEPT !.pc = "apply", !.left = plans, !.old = t.old,
                                         !.repeated = t.repeated \cap plans]
  <1>1. /\ t.pc = "window" /\ UNCHANGED <<young, older, waves, limitOf>>
        /\ tickOf' = [tickOf EXCEPT ![m] = IF t.left # {} THEN more
                                           ELSE IF plans = {} THEN NoDetection ELSE plan]
    BY DEF LookInWindow, NothingAdjusted, NoneForgotten
  <1>2. /\ t \in Tick /\ t.repeated \subseteq FloodPairs /\ t.pair \subseteq FloodPairs
        /\ quiet \subseteq FloodPairs /\ plans \subseteq FloodPairs
        /\ t.old \in [FloodOps -> Nat] /\ Planned(t) /\ \A p \in t.repeated : waves[p] > 0
    BY DEF DetectorInv, WavesInv, Tick
  <1>3. \A p \in plans : p \in t.left \/ p \in Passed(t) \/ ~(young[p] > 0)
    BY <1>1 DEF Passed, InWindow
  <1> HIDE DEF quiet
  <1>4. /\ more \in Tick /\ more.pc = "count" /\ more.repeated = t.repeated
        /\ more.old = t.old /\ Passed(more) = plans \ t.left
    BY <1>2 DEF Tick, Passed
  <1>5. /\ plan \in Tick /\ plan.pc = "apply" /\ plan.repeated = t.repeated \cap plans
        /\ plan.old = t.old /\ Passed(plan) = plans
    BY <1>2 DEF NoDetection, Tick, Passed
  <1> HIDE DEF t, plans, more, plan
  <1>6. ASSUME NEW u, u.old = t.old, \A p \in Passed(u) : p \in plans /\ p \notin t.left
        PROVE  Planned(u)
    BY <1>1, <1>2, <1>3, <1>6 DEF Planned, MadeAfter
  <1>7. CASE t.left # {}
    <2>1. tickOf' = [tickOf EXCEPT ![m] = more]
      BY <1>1, <1>7
    <2>2. Planned(more)
      BY <1>4, <1>6
    <2>3. QED
      BY <1>1, <1>2, <1>4, <2>1, <2>2, TickKeepsWaves
  <1>8. CASE t.left = {} /\ plans = {}
    <2>1. tickOf' = [tickOf EXCEPT ![m] = NoDetection]
      BY <1>1, <1>8
    <2>2. QED
      BY <1>1, <2>1, NoDetectionIsTick, PlannedEnds, TickKeepsWaves
  <1>9. CASE t.left = {} /\ plans # {}
    <2>1. tickOf' = [tickOf EXCEPT ![m] = plan]
      BY <1>1, <1>9
    <2>2. Planned(plan)
      BY <1>5, <1>6, <1>9
    <2>3. QED
      BY <1>1, <1>2, <1>5, <2>1, <2>2, TickKeepsWaves
  <1>10. QED
    BY <1>7, <1>8, <1>9

LEMMA CoolKeepsWaves ==
    ASSUME DetectorInv, WavesInv, NEW m \in Monitors, CoolAccount(m)
    PROVE  WavesInv'
  <1> DEFINE t == tickOf[m]
             rest == [t EXCEPT !.pair = {}]
  <1>1. /\ t.pc = "apply" /\ UNCHANGED <<young, older, waves, limitOf>>
        /\ tickOf' = [tickOf EXCEPT ![m] = IF t.left = {} THEN NoDetection ELSE rest]
    BY DEF CoolAccount, NothingAdjusted, NoneForgotten
  <1>2. t \in Tick /\ Planned(t) /\ \A p \in t.repeated : waves[p] > 0
    BY DEF DetectorInv, WavesInv
  <1>3. /\ rest \in Tick /\ rest.repeated = t.repeated /\ rest.old = t.old
        /\ Passed(rest) = Passed(t)
    BY <1>1, <1>2 DEF Tick, Passed
  <1> HIDE DEF t, rest
  <1>4. Planned(rest)
    BY <1>1, <1>2, <1>3, PlannedStill
  <1>5. CASE t.left = {}
    BY <1>1, <1>5, NoDetectionIsTick, PlannedEnds, TickKeepsWaves
  <1>6. CASE t.left # {}
    <2>1. tickOf' = [tickOf EXCEPT ![m] = rest]
      BY <1>1, <1>6
    <2>2. QED
      BY <1>1, <1>2, <1>3, <1>4, <2>1, TickKeepsWaves
  <1>7. QED
    BY <1>5, <1>6

LEMMA TimeKeepsWaves ==
    ASSUME DetectorInv, WavesInv, WindowPasses \/ DayPasses
    PROVE  WavesInv'
  <1>1. /\ young \in [FloodPairs -> Nat] /\ older \in [FloodPairs -> Nat]
    BY DEF DetectorInv, CountedTyped
  <1>2. /\ UNCHANGED <<waves, limitOf, tickOf>>
        /\ \A p \in FloodPairs : /\ young'[p] > 0 => young[p] > 0
                                 /\ older'[p] > 0 => young[p] > 0 \/ older[p] > 0
    <2>1. CASE WindowPasses
      <3>1. PICK p \in FloodPairs : /\ young' = [young EXCEPT ![p] = 0]
                                    /\ older' = [older EXCEPT ![p] = @ + young[p]]
        BY <2>1 DEF WindowPasses
      <3>2. older' = [older EXCEPT ![p] = older[p] + young[p]]
        BY <3>1
      <3>3. QED
        BY <1>1, <2>1, <3>1, <3>2 DEF WindowPasses
    <2>2. CASE DayPasses
      <3>1. PICK p \in FloodPairs : older' = [older EXCEPT ![p] = 0]
        BY <2>2 DEF DayPasses
      <3>2. QED
        BY <1>1, <2>2, <3>1 DEF DayPasses, NothingAdjusted
    <2>3. QED
      BY <2>1, <2>2
  <1>3. ASSUME NEW m \in Monitors
        PROVE  Planned(tickOf[m])' /\ \A p \in tickOf'[m].repeated : waves'[p] > 0
    <2>1. Planned(tickOf[m]) /\ \A p \in tickOf[m].repeated : waves[p] > 0
      BY DEF WavesInv
    <2>2. \A p \in Passed(tickOf[m]) : p \in FloodPairs
      BY DEF DetectorInv, Tick, Passed
    <2>3. QED
      BY <1>2, <2>1, <2>2 DEF Planned, MadeAfter
  <1>4. \A o \in FloodOps : LimitKept(o)'
    BY <1>2 DEF WavesInv, LimitKept
  <1>5. QED
    BY <1>2, <1>3, <1>4 DEF WavesInv

\* The new limit is one cut below that of k waves, and there is another by then.
LEMMA OneCutMore ==
    ASSUME NEW old \in Nat, NEW k \in Nat, NEW w \in Nat, Cuts[k] <= old, k < w
    PROVE  Cuts[w] <= Cut(old)
  <1>1. /\ Cuts[k] \in Nat /\ Cuts[w] \in Nat /\ Cuts[k + 1] \in Nat /\ Cut(old) \in Nat
        /\ Cuts[k + 1] = Cut(Cuts[k])
    BY CutsFall, CutIsNat
  <1>2. Cut(Cuts[k]) <= Cut(old)
    BY <1>1, CutFalls
  <1>3. 1 <= k + 1 /\ k + 1 <= w /\ k + 1 \in Nat
    OBVIOUS
  <1>4. Cuts[w] <= Cuts[k + 1]
    BY <1>3, CutsFall
  <1>5. QED
    BY <1>1, <1>2, <1>4

LEMMA ApplyKeepsWaves ==
    ASSUME DetectorInv, WavesInv, NEW m \in Monitors, ApplyPlan(m)
    PROVE  WavesInv'
  <1> DEFINE t == tickOf[m]
  <1>1. PICK p \in t.left :
          /\ limitOf' = IF p \in t.repeated \/ Cut(t.old[p[2]]) = t.old[p[2]] THEN limitOf
                        ELSE [limitOf EXCEPT ![p[2]] = NewLimit(m, p[2])]
          /\ young' = [young EXCEPT ![p] = @ + 1]
          /\ waves' = [waves EXCEPT ![p] = IF young[p] = 0 THEN @ + 1 ELSE @]
          /\ LET cools == IF p[1] = PeerFlood /\ ~(p \in t.repeated) THEN {p} ELSE {} IN
             tickOf' = [tickOf EXCEPT ![m] =
                IF cools = {} /\ @.left = {p} THEN NoDetection
                ELSE [@ EXCEPT !.left = t.left \ {p}, !.pair = cools]]
    BY DEF ApplyPlan
  <1> DEFINE cools == IF p[1] = PeerFlood /\ ~(p \in t.repeated) THEN {p} ELSE {}
             rest == [t EXCEPT !.left = t.left \ {p}, !.pair = cools]
             op == p[2]
  <1>2. /\ t \in Tick /\ t.pc = "apply" /\ t.old \in [FloodOps -> Nat] /\ older' = older
        /\ p \in FloodPairs /\ op \in FloodOps /\ Planned(t)
        /\ \A q \in t.repeated : waves[q] > 0
        /\ young \in [FloodPairs -> Nat] /\ waves \in [FloodPairs -> Nat]
        /\ limitOf \in [FloodOps -> Nat] /\ tickOf \in [Monitors -> Tick]
    <2>1. /\ t \in Tick /\ t.pc = "apply" /\ older' = older
          /\ young \in [FloodPairs -> Nat] /\ waves \in [FloodPairs -> Nat]
          /\ limitOf \in [FloodOps -> Nat] /\ tickOf \in [Monitors -> Tick]
      BY DEF ApplyPlan, NoneForgotten, DetectorInv, CountedTyped, WavesInv
    <2>2. p \in FloodPairs /\ op \in FloodOps /\ t.old \in [FloodOps -> Nat]
      BY <2>1 DEF Tick, FloodPairs
    <2>3. Planned(t) /\ \A q \in t.repeated : waves[q] > 0
      BY DEF WavesInv
    <2>4. QED
      BY <2>1, <2>2, <2>3
  <1>3. /\ young' \in [FloodPairs -> Nat] /\ young'[p] > 0
        /\ \A q \in FloodPairs : q # p => young'[q] = young[q]
    <2>1. young' = [young EXCEPT ![p] = young[p] + 1]
      BY <1>1
    <2>2. QED
      BY <1>2, <2>1
  <1>4. PICK e \in {0, 1} : /\ waves' = [waves EXCEPT ![p] = waves[p] + e]
                            /\ young[p] = 0 <=> e = 1
    <2>1. CASE young[p] = 0
      <3>1. waves' = [waves EXCEPT ![p] = waves[p] + 1]
        BY <1>1, <2>1
      <3>2. QED
        BY <2>1, <3>1
    <2>2. CASE young[p] # 0
      <3>1. waves' = [waves EXCEPT ![p] = waves[p]]
        BY <1>1, <2>2
      <3>2. waves[p] + 0 = waves[p]
        BY <1>2
      <3>3. waves' = [waves EXCEPT ![p] = waves[p] + 0]
        BY <3>1, <3>2
      <3>4. QED
        BY <2>2, <3>3
    <2>3. QED
      BY <2>1, <2>2
  <1>5. /\ \A q \in FloodPairs : waves'[q] \in Nat /\ waves[q] <= waves'[q]
        /\ waves' \in [FloodPairs -> Nat] /\ waves'[p] = waves[p] + e
    BY <1>2, <1>4
  <1>6. waves'[p] > 0
    <2>1. CASE e = 1
      BY <1>2, <1>5, <2>1
    <2>2. CASE e # 1
      <3>1. young[p] > 0
        BY <1>2, <1>4, <2>2
      <3>2. waves[p] > 0
        BY <1>2, <3>1 DEF WavesInv
      <3>3. QED
        BY <1>2, <1>5, <3>2
    <2>3. QED
      BY <2>1, <2>2
  \* The waves of an op, before and after.
  <1>7. ASSUME NEW o \in FloodOps
        PROVE  /\ WavesOf(waves, o) \in Nat /\ WavesOf(waves', o) \in Nat
               /\ WavesOf(waves', o) = WavesOf(waves, o) + (IF op = o THEN e ELSE 0)
               /\ WavesOf(waves, o) <= WavesOf(waves', o)
    <2>1. WavesOf(waves, o) \in Nat
      BY <1>2, WavesBounds
    <2>2. PICK v : v = waves'
      OBVIOUS
    <2>3. v = [waves EXCEPT ![p] = waves[p] + e]
      BY <1>4, <2>2
    <2>4. waves \in [FloodPairs -> Nat] /\ p \in FloodPairs
      BY <1>2
    <2>5. /\ p[2] = o => WavesOf(v, o) = WavesOf(waves, o) + e
          /\ p[2] # o => WavesOf(v, o) = WavesOf(waves, o)
      <3>1. AddsOne(waves, v, p, e)
        BY <2>3 DEF AddsOne
      <3>2. QED
        BY <2>4, <3>1, WavesGrow
    <2>6. QED
      BY <2>1, <2>2, <2>5
  <1> DEFINE was == WavesOf(waves, op)
             now == WavesOf(waves', op)
  <1>8. /\ was \in Nat /\ now \in Nat /\ now = was + e /\ now > 0 /\ was <= now
    <2>1. now \in Nat /\ waves'[p] <= now
      BY <1>2, <1>5, WavesBounds
    <2>2. was \in Nat /\ now = was + e
      BY <1>2, <1>7
    <2>3. QED
      BY <1>2, <1>5, <1>6, <2>1, <2>2
  \* The tick's rows were of the time of k waves of the op, and p began another since.
  <1>9. PICK k \in Nat : MadeAfter(t, op, k)
    BY <1>2 DEF Planned
  <1>10. k < now
    <2>1. p \in Passed(t) /\ k <= was
      BY <1>1, <1>2, <1>9 DEF Passed, MadeAfter
    <2>2. CASE e = 1
      BY <1>8, <2>1, <2>2
    <2>3. CASE e # 1
      <3>1. young[p] > 0
        BY <1>2, <1>4, <2>3
      <3>2. k < was
        BY <1>9, <2>1, <3>1 DEF MadeAfter
      <3>3. QED
        BY <1>8, <3>2
    <2>4. QED
      BY <2>2, <2>3
  <1>11. /\ Cuts[now] <= limitOf'[op]
         /\ \A o \in FloodOps : o # op => limitOf'[o] = limitOf[o]
    <2>1. Cuts[now] <= Cut(t.old[op])
      BY <1>2, <1>8, <1>9, <1>10, OneCutMore DEF MadeAfter
    <2>2. CASE p \in t.repeated
      <3>1. was > 0
        BY <1>2, <2>2, OnceAdjusted
      <3>2. Cuts[was] <= limitOf[op] /\ Cuts[was] \in Nat /\ Cuts[now] \in Nat
        BY <1>2, <1>8, CutsFall DEF WavesInv, LimitKept
      <3>3. Cuts[now] <= Cuts[was]
        BY <1>8, <3>1, CutsFall
      <3>4. limitOf' = limitOf
        BY <1>1, <2>2
      <3>5. QED
        BY <1>2, <3>2, <3>3, <3>4
    <2>3. CASE Cut(t.old[op]) = t.old[op]
      <3>1. limitOf' = limitOf
        BY <1>1, <2>3
      <3>2. CASE was > 0
        <4>1. Cuts[was] <= limitOf[op] /\ Cuts[was] \in Nat /\ Cuts[now] \in Nat
          BY <1>2, <1>8, CutsFall DEF WavesInv, LimitKept
        <4>2. Cuts[now] <= Cuts[was]
          BY <1>8, <3>2, CutsFall
        <4>3. QED
          BY <1>2, <3>1, <4>1, <4>2
      <3>3. CASE was = 0
        <4>1. t.old[op] = StartRph
          BY <1>2, <3>3 DEF Planned
        <4>2. limitOf[op] = StartRph
          BY <1>2, <3>3 DEF WavesInv, LimitKept
        <4>3. QED
          BY <2>1, <2>3, <3>1, <4>1, <4>2
      <3>4. QED
        BY <1>8, <3>2, <3>3
    <2>4. CASE ~(p \in t.repeated) /\ Cut(t.old[op]) # t.old[op]
      <3>1. limitOf' = [limitOf EXCEPT ![op] = Cut(t.old[op])]
        BY <1>1, <2>4 DEF NewLimit
      <3>2. QED
        BY <1>2, <2>1, <3>1
    <2>5. QED
      BY <2>2, <2>3, <2>4
  <1>12. \A o \in FloodOps : LimitKept(o)'
    <2>1. LimitKept(op)'
      BY <1>8, <1>11 DEF LimitKept
    <2>2. ASSUME NEW o \in FloodOps, o # op
          PROVE  LimitKept(o)'
      <3>1. WavesOf(waves', o) = WavesOf(waves, o)
        BY <1>7, <2>2
      <3>2. LimitKept(o) /\ limitOf'[o] = limitOf[o]
        BY <1>11, <2>2 DEF WavesInv
      <3>3. QED
        BY <3>1, <3>2 DEF LimitKept
    <2>3. QED
      BY <2>1, <2>2
  \* A wave begun on an op is one more than those of the time any tick's rows are of.
  <1>13. ASSUME NEW u \in Tick, Planned(u)
         PROVE  Planned(u)'
    <2>1. ASSUME u.pc # "off", NEW o \in FloodOps
          PROVE  /\ WavesOf(waves', o) = 0 => u.old[o] = StartRph
                 /\ \E i \in Nat : MadeAfter(u, o, i)'
      <3>1. PICK i \in Nat : MadeAfter(u, o, i)
        BY <1>13, <2>1 DEF Planned
      <3>2. WavesOf(waves, o) = 0 => u.old[o] = StartRph
        BY <1>13, <2>1 DEF Planned
      <3>3. WavesOf(waves', o) = 0 => WavesOf(waves, o) = 0
        BY <1>7
      <3>4. i <= WavesOf(waves', o) /\ Cuts[i] <= u.old[o]
        BY <1>7, <3>1 DEF MadeAfter
      <3>5. ASSUME NEW q \in Passed(u), q[2] = o, young'[q] > 0
            PROVE  i < WavesOf(waves', o)
        <4>1. q \in FloodPairs
          BY DEF Passed, Tick
        <4>2. CASE young[q] > 0
          <5>1. i < WavesOf(waves, o)
            BY <3>1, <3>5, <4>2 DEF MadeAfter
          <5>2. QED
            BY <1>7, <5>1
        <4>3. CASE ~(young[q] > 0)
          <5>1. q = p
            BY <1>3, <3>5, <4>1, <4>3
          <5>2. young[p] = 0
            BY <1>2, <4>3, <5>1
          <5>3. e = 1 /\ op = o
            BY <1>4, <3>5, <5>1, <5>2
          <5>4. i <= WavesOf(waves, o) /\ WavesOf(waves', o) = WavesOf(waves, o) + 1
            BY <1>7, <3>1, <5>3 DEF MadeAfter
          <5>5. QED
            BY <1>7, <5>4
        <4>4. QED
          BY <4>2, <4>3
      <3>6. MadeAfter(u, o, i)'
        BY <3>4, <3>5 DEF MadeAfter, Passed
      <3>7. QED
        BY <3>2, <3>3, <3>6
    <2>2. QED
      BY <2>1 DEF Planned
  <1>14. /\ rest \in Tick /\ rest.repeated = t.repeated /\ rest.old = t.old
         /\ Passed(rest) \subseteq Passed(t)
    <2>1. cools \subseteq FloodPairs
      BY <1>2
    <2> HIDE DEF cools
    <2>2. rest \in Tick /\ rest.repeated = t.repeated /\ rest.old = t.old
          /\ rest.pc = "apply" /\ rest.left = t.left \ {p}
      BY <1>2, <2>1 DEF Tick
    <2> HIDE DEF rest
    <2>3. QED
      BY <1>2, <2>2 DEF Passed
  <1>15. /\ tickOf'[m] = NoDetection \/ tickOf'[m] = rest
         /\ \A n \in Monitors \ {m} : tickOf'[n] = tickOf[n]
    <2>1. CASE cools = {} /\ t.left = {p}
      <3>1. tickOf' = [tickOf EXCEPT ![m] = NoDetection]
        BY <1>1, <2>1
      <3>2. QED
        BY <1>2, <3>1
    <2>2. CASE ~(cools = {} /\ t.left = {p})
      <3>1. tickOf' = [tickOf EXCEPT ![m] = rest]
        BY <1>1, <2>2
      <3> HIDE DEF rest
      <3>2. QED
        BY <1>2, <3>1
    <2>3. QED
      BY <2>1, <2>2
  <1>16. ASSUME NEW n \in Monitors
         PROVE  Planned(tickOf[n])' /\ \A q \in tickOf'[n].repeated : waves'[q] > 0
    <2>1. ASSUME NEW u \in Tick, Planned(u), \A q \in u.repeated : waves[q] > 0,
                 tickOf'[n] = u
          PROVE  Planned(tickOf[n])' /\ \A q \in tickOf'[n].repeated : waves'[q] > 0
      <3>1. Planned(u)'
        BY <1>13, <2>1
      <3>2. Planned(tickOf[n])'
        BY <2>1, <3>1 DEF Planned, MadeAfter
      <3>3. ASSUME NEW q \in u.repeated PROVE waves'[q] > 0
        <4>1. q \in FloodPairs /\ waves[q] > 0
          BY <2>1 DEF Tick
        <4>2. QED
          BY <1>2, <1>5, <4>1
      <3>4. QED
        BY <2>1, <3>2, <3>3
    <2>2. CASE n = m /\ tickOf'[m] = NoDetection
      BY <2>1, <2>2, NoDetectionIsTick, PlannedEnds
    <2>3. CASE n = m /\ tickOf'[m] = rest
      <3> HIDE DEF rest
      <3>1. Planned(rest)
        BY <1>2, <1>14, PlannedStill
      <3>2. QED
        BY <1>2, <1>14, <2>1, <2>3, <3>1
    <2>4. CASE n # m
      <3>1. /\ tickOf'[n] = tickOf[n] /\ tickOf[n] \in Tick /\ Planned(tickOf[n])
            /\ \A q \in tickOf[n].repeated : waves[q] > 0
        BY <1>2, <1>15, <2>4 DEF WavesInv
      <3>2. QED
        BY <2>1, <3>1
    <2>5. QED
      BY <1>15, <2>2, <2>3, <2>4
  <1>17. \A q \in FloodPairs : young'[q] > 0 \/ older'[q] > 0 => waves'[q] > 0
    <2>1. ASSUME NEW q \in FloodPairs, q # p, young'[q] > 0 \/ older'[q] > 0
          PROVE  waves'[q] > 0
      <3>1. young[q] > 0 \/ older[q] > 0
        BY <1>2, <1>3, <2>1
      <3>2. waves[q] > 0 /\ waves[q] <= waves'[q] /\ waves[q] \in Nat /\ waves'[q] \in Nat
        BY <1>2, <1>5, <3>1 DEF WavesInv
      <3>3. QED
        BY <3>2
    <2>2. QED
      BY <1>6, <2>1
  <1>18. QED
    BY <1>5, <1>12, <1>16, <1>17 DEF WavesInv

\* The limits of the ops against the waves of their errors.
THEOREM WavesInvariant == DetectorSpec => []WavesInv
  <1>1. ASSUME DetectorInit
        PROVE  WavesInv
    <2>1. /\ waves \in [FloodPairs -> Nat] /\ \A p \in FloodPairs : waves[p] = 0
          /\ \A p \in FloodPairs : young[p] = 0 /\ older[p] = 0
      BY <1>1 DEF DetectorInit
    <2>2. \A m \in Monitors : /\ Planned(tickOf[m]) /\ tickOf[m].repeated = {}
      BY <1>1, PlannedEnds, NoDetectionIsTick DEF DetectorInit
    <2>3. ASSUME NEW o \in FloodOps
          PROVE  LimitKept(o)
      <3>1. WavesOf(waves, o) = 0 /\ limitOf[o] = StartRph
        BY <1>1, <2>1, WavesBounds DEF DetectorInit
      <3>2. QED
        BY <3>1, CutsFall, DetectorAssumption DEF LimitKept
    <2>4. QED
      BY <2>1, <2>2, <2>3 DEF WavesInv
  <1>2. DetectorInv /\ WavesInv /\ [DetectorNext]_detectorVars => WavesInv'
    <2> SUFFICES ASSUME DetectorInv, WavesInv, [DetectorNext]_detectorVars PROVE WavesInv'
      OBVIOUS
    <2>1. ASSUME NEW m \in Monitors, MonitorDies(m) PROVE WavesInv'
      BY <2>1, NoDetectionIsTick, PlannedEnds, TickKeepsWaves
         DEF MonitorDies, NothingAdjusted, NoneForgotten
    <2>2. CASE UNCHANGED detectorVars
      BY <2>2 DEF detectorVars, WavesInv, LimitKept, Planned, MadeAfter, Passed
    <2>3. QED
      BY <2>1, <2>2, FetchKeepsWaves, CountKeepsWaves, LookKeepsWaves, ApplyKeepsWaves,
         CoolKeepsWaves, TimeKeepsWaves DEF DetectorNext
  <1>3. QED
    BY <1>1, <1>2, DetectorInvariant, PTL DEF DetectorSpec

\* EachWaveCounts: however many monitors tick at once, and wherever they die, an op is
\* switched off only for an error of which an adjustment is older than the window, and
\* its limit is cut at most once for each wave of an error (run_detector_tick,
\* apply_plan, has_adjustment_in_window).
THEOREM WavesCountOnce == DetectorSpec => []EachWaveCounts
  <1>1. DetectorInv /\ WavesInv => EachWaveCounts
    <2> SUFFICES ASSUME DetectorInv, WavesInv PROVE EachWaveCounts
      OBVIOUS
    <2>1. OffAfterSecondWave
      BY DEF DetectorInv
    <2>2. OneCutPerWave
      <3>1. ASSUME NEW o \in FloodOps
            PROVE  limitOf[o] >= Cuts[WavesOf(waves, o)]
        <4>1. /\ Cuts[WavesOf(waves, o)] <= limitOf[o] /\ limitOf[o] \in Nat
              /\ WavesOf(waves, o) \in Nat
          BY WavesBounds DEF WavesInv, LimitKept, DetectorInv
        <4>2. Cuts[WavesOf(waves, o)] \in Nat
          BY <4>1, CutsFall
        <4>3. QED
          BY <4>1, <4>2
      <3>2. QED
        BY <3>1, Zenon DEF OneCutPerWave, WavesOf
    <2>3. QED
      BY <2>1, <2>2 DEF EachWaveCounts
  <1>2. QED
    BY <1>1, DetectorInvariant, WavesInvariant, PTL

-----------------------------------------------------------------------------
\* The components together.

ClientsRest == mutex \in Senders \cup {"free", "poll", "revoke"} /\ revoked \in BOOLEAN

LEMMA ClientsRestStep ==
    ASSUME ClientsRest, [ClientsNext]_clientVars
    PROVE  ClientsRest'
  <1> USE DEF ClientsRest, histories, Returns, Goes
  <1>1. ASSUME UNCHANGED clientVars \/ UNCHANGED <<mutex, histories>>
        PROVE  ClientsRest'
    BY <1>1 DEF clientVars
  <1>2. ASSUME NEW s \in Senders, NEW k \in DmKeys, CallSend(s, k)
        PROVE  ClientsRest'
    BY <1>2 DEF CallSend
  <1>3. ASSUME NEW s \in Senders, LockSend(s) \/ Sent(s) \/ SendRefused(s) \/ SendRaises(s)
        PROVE  ClientsRest'
    BY <1>3 DEF LockSend, Sent, SendRefused, SendRaises
  <1>4. ASSUME NEW s \in Senders, CallWatch(s) \/ WatchLatest(s) \/ AdvanceCursor(s)
        PROVE  ClientsRest'
    BY <1>4 DEF CallWatch, WatchLatest, AdvanceCursor
  <1>5. ASSUME NEW s \in Senders, LockWatch(s)
        PROVE  ClientsRest'
    <2>1. UNCHANGED histories /\ mutex' \in {mutex, s}
      BY <1>5, Zenon DEF LockWatch
    <2>2. QED
      BY <2>1
  <1>6. ASSUME PollLists \/ LockPoll \/ PollReads \/ PollPosts \/ PollRefused \/ PollSaves \/ PollRaises
        PROVE  ClientsRest'
    BY <1>6 DEF PollLists, LockPoll, PollReads, PollPosts, PollRefused, PollSaves, PollRaises
  <1>7. ASSUME Answered \/ CallRevoke \/ LockRevoke \/ Revoke \/ OpenQr \/ QrOpened
        PROVE  ClientsRest'
    BY <1>7 DEF Answered, CallRevoke, LockRevoke, Revoke, OpenQr, QrOpened
  <1>8. ASSUME Activate \/ QrOver \/ ClientsCrash
        PROVE  ClientsRest'
    BY <1>8 DEF Activate, QrOver, ClientsCrash
  <1> HIDE DEF ClientsRest
  <1>9. QED
    BY <1>1, <1>2, <1>3, <1>4, <1>5, <1>6, <1>7, <1>8 DEF ClientsNext

DetectorRest ==
    /\ waves \in [FloodPairs -> Nat] /\ off \subseteq FloodOps

LEMMA DetectorRestStep ==
    ASSUME DetectorRest, DetectorInv, [DetectorNext]_detectorVars
    PROVE  DetectorRest'
  <1>1. CASE UNCHANGED <<waves, off>>
    BY <1>1 DEF DetectorRest
  <1>2. ASSUME NEW m \in Monitors, ApplyPlan(m)
        PROVE  DetectorRest'
    <2>1. PICK p \in tickOf[m].left :
            /\ off' = IF p \in tickOf[m].repeated THEN off \cup {p[2]} ELSE off
            /\ waves' = [waves EXCEPT ![p] = IF young[p] = 0 THEN @ + 1 ELSE @]
      BY <1>2 DEF ApplyPlan
    <2>2. p \in FloodPairs /\ p[2] \in FloodOps
      BY DEF DetectorInv, Tick, FloodPairs
    <2>3. QED
      BY <2>1, <2>2 DEF DetectorRest
  <1>3. QED
    BY <1>1, <1>2 DEF DetectorNext, FetchRecurring, CountAdjustments, LookInWindow, CoolAccount,
       MonitorDies, WindowPasses, DayPasses, NothingAdjusted, detectorVars

\* Each step of the services is a step of one, or leaves it alone.
LEMMA ServicesSteps ==
    ASSUME [DiscoveryNext]_<<focus, parserVars, ingressVars, filesVars, clientVars, detectorVars>>
    PROVE  /\ [ParsersNext]_parserVars /\ [IngressNext]_ingressVars /\ [FilesNext]_filesVars
           /\ [ClientsNext]_clientVars /\ [DetectorNext]_detectorVars
  BY DEF DiscoveryNext, OthersStay, Stays

\* Every behaviour of the services together is one of each of them.
THEOREM ServicesAreTheirs ==
    DiscoverySpec => /\ ParsersSpec /\ IngressSpec /\ FilesSpec /\ ClientsSpec /\ DetectorSpec
  <1>1. DiscoveryInit => ParsersInit /\ IngressInit /\ FilesInit /\ ClientsInit /\ DetectorInit
    BY DEF DiscoveryInit
  <1>2. [DiscoveryNext]_<<focus, parserVars, ingressVars, filesVars, clientVars, detectorVars>>
        => /\ [ParsersNext]_parserVars /\ [IngressNext]_ingressVars /\ [FilesNext]_filesVars
           /\ [ClientsNext]_clientVars /\ [DetectorNext]_detectorVars
    BY ServicesSteps
  <1>3. QED
    BY <1>1, <1>2, PTL DEF DiscoverySpec, ParsersSpec, IngressSpec, FilesSpec, ClientsSpec, DetectorSpec

\* The state of every service is of its type, and no inbox passes QueueMax.
THEOREM DiscoveryTypeCorrect == DiscoverySpec => []DiscoveryTypeOK
  <1>1. ClientsSpec => []ClientsRest
    <2>1. ClientsInit => ClientsRest
      BY DEF ClientsInit, ClientsRest
    <2>2. ClientsRest /\ [ClientsNext]_clientVars => ClientsRest'
      BY ClientsRestStep
    <2>3. QED
      BY <2>1, <2>2, PTL DEF ClientsSpec
  <1>2. DetectorSpec => []DetectorRest
    <2>1. DetectorInit => DetectorRest
      BY DEF DetectorInit, DetectorRest
    <2>2. DetectorRest /\ DetectorInv /\ [DetectorNext]_detectorVars => DetectorRest'
      BY DetectorRestStep
    <2>3. QED
      BY <2>1, <2>2, DetectorInvariant, PTL DEF DetectorSpec
  <1>3. ParsersTrue => ParsersTypeOK
    BY DEF ParsersTrue, ParsersTyped, HandlersTyped, ActionsTyped, PlacesTyped, ParsersTypeOK
  <1>4. IngressInv => IngressTypeOK
    BY DEF IngressInv
  <1>5. FilesInv => FilesTypeOK
    BY DEF FilesInv
  <1>6. ClientsInv /\ ClientsRest => ClientsTypeOK
    BY DEF ClientsInv, Typed, MetaOK, SendersOK, PollOK, RevokingOK, DialogueOK, ChatOK, SentOK,
           PassedOK, Listener, ClientsRest, ClientsTypeOK
  <1>7. DetectorInv /\ DetectorRest => DetectorTypeOK
    BY DEF DetectorInv, CountedTyped, DetectorRest, Tick, DetectorTypeOK
  <1>8. ParsersTypeOK /\ IngressTypeOK /\ FilesTypeOK /\ ClientsTypeOK /\ DetectorTypeOK
        => DiscoveryTypeOK
    BY DEF DiscoveryTypeOK
  <1>9. QED
    BY <1>1, <1>2, <1>3, <1>4, <1>5, <1>6, <1>7, <1>8, ServicesAreTheirs, ParsersInvariant,
       IngressInvariant, FilesInvariant, ClientsInvariant, DetectorInvariant, PTL
=============================================================================
