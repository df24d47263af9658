-------------------------- MODULE ProducersProofs --------------------------
(***************************************************************************)
(* Theorems about Producers for every number of keys, channels and         *)
(* concurrent calls, every batch and every target_queue_size.              *)
(***************************************************************************)
EXTENDS Producers, FiniteSetTheorems, TLAPS

-----------------------------------------------------------------------------
(* The inductive invariant: ProducersTypeOK and OneActivePerKey are         *)
(* inductive as they stand, NoneLost needs what a call knows on its way.    *)

\* The answers that tell the caller no task is missing.
Good == RequestAnswers \ {"none", "asked", "queue_full"}

\* A call answers a key only once it was seen served; a call that looks up what it
\* conflicted with has seen it too; a call that is over answered every key.
CallKnows(r) ==
    /\ \A k \in Keys : req[r].out[k] \in Good => k \in seen[r]
    /\ req[r].pc = "lookup" => Asked(r) \subseteq seen[r]
    /\ req[r].pc = "idle" => Asked(r) = {}

CallsKnow == \A r \in Requests : CallKnows(r)

ProducersInv == ProducersTypeOK /\ OneActivePerKey /\ CallsKnow

LEMMA InitProducersInv == ProducersInit => ProducersInv
  <1> SUFFICES ASSUME ProducersInit PROVE ProducersInv
    OBVIOUS
  <1>1. ProducersTypeOK
    <2>1. Unasked \in [Keys -> RequestAnswers]
      BY DEF Unasked, RequestAnswers
    <2>2. rows \in [Keys -> Seq(KeyStatuses)]
      BY DEF ProducersInit
    <2>3. QED
      BY <2>1, <2>2 DEF ProducersTypeOK, ProducersInit, Request
  <1>2. OneActivePerKey
    BY DEF ProducersInit, OneActivePerKey, ActiveTasks
  <1>3. CallsKnow
    BY DEF ProducersInit, CallsKnow, CallKnows, Unasked, Good, Asked
  <1>4. QED
    BY <1>1, <1>2, <1>3 DEF ProducersInv

-----------------------------------------------------------------------------
(* The rows.                                                               *)

\* An insertion appends a task where none is active; a worker moves an active task.
RowsMove ==
    /\ rows' \in [Keys -> Seq(KeyStatuses)]
    /\ \A k \in Keys :
          \/ rows'[k] = rows[k]
          \/ ~Conflicts(k) /\ rows'[k] = Append(rows[k], "queued")
          \/ \E i \in ActiveTasks(k), s \in KeyStatuses : rows'[k] = [rows[k] EXCEPT ![i] = s]

LEMMA NextRows ==
    ASSUME ProducersTypeOK, [ProducersNext]_producersVars
    PROVE  RowsMove
  <1>0. rows \in [Keys -> Seq(KeyStatuses)]
    BY DEF ProducersTypeOK
  <1>1. CASE rows' = rows
    BY <1>0, <1>1 DEF RowsMove
  <1>2. ASSUME NEW r \in Requests, Insert(r) PROVE RowsMove
    <2>1. \A k \in Keys : Append(rows[k], "queued") \in Seq(KeyStatuses)
      BY <1>0 DEF KeyStatuses, ActiveStatuses
    <2>2. QED
      BY <1>0, <1>2, <2>1 DEF Insert, RowsMove
  <1>3. CASE TaskMoves
    <2>0. PICK k \in Keys :
             \E i \in ActiveTasks(k), s \in KeyStatuses :
                rows' = [rows EXCEPT ![k] = [rows[k] EXCEPT ![i] = s]]
      BY <1>3 DEF TaskMoves, KeyStatuses, ActiveStatuses
    <2>1. PICK i \in ActiveTasks(k), s \in KeyStatuses :
             rows' = [rows EXCEPT ![k] = [rows[k] EXCEPT ![i] = s]]
      BY <2>0
    <2>2. rows[k] \in Seq(KeyStatuses) /\ i \in DOMAIN rows[k]
      BY <1>0 DEF ActiveTasks
    <2>3. [rows[k] EXCEPT ![i] = s] \in Seq(KeyStatuses)
      BY <2>2
    <2>4. QED
      BY <1>0, <2>1, <2>3 DEF RowsMove
  <1>4. QED
    BY <1>1, <1>2, <1>3
       DEF ProducersNext, producersVars, RequestStep, AskAddChannels, AskIfRoom, Ask, FilterByChannel,
           CountRoom, ReadFatalHistory, LookUpExisting, RequestFails

\* Neither makes a second task of a key active.
LEMMA RowsKeepOneActive ==
    ASSUME ProducersTypeOK, OneActivePerKey, RowsMove
    PROVE  OneActivePerKey'
  <1> SUFFICES ASSUME NEW k \in Keys, NEW j \in ActiveTasks(k)'
               PROVE  j = Len(rows'[k])
    BY DEF OneActivePerKey
  <1>0. /\ rows[k] \in Seq(KeyStatuses) /\ rows'[k] \in Seq(KeyStatuses)
        /\ ActiveTasks(k) \subseteq {Len(rows[k])}
        /\ j \in DOMAIN rows'[k] /\ rows'[k][j] \in ActiveStatuses
    BY DEF ProducersTypeOK, OneActivePerKey, ActiveTasks, RowsMove
  <1>1. CASE rows'[k] = rows[k]
    BY <1>0, <1>1 DEF ActiveTasks
  <1>2. CASE ~Conflicts(k) /\ rows'[k] = Append(rows[k], "queued")
    <2>1. ActiveTasks(k) = {}
      BY <1>2 DEF Conflicts
    <2>2. ~(j \in DOMAIN rows[k])
      BY <1>0, <1>2, <2>1 DEF ActiveTasks
    <2>3. QED
      BY <1>0, <1>2, <2>2
  <1>3. ASSUME NEW i \in ActiveTasks(k), NEW s \in KeyStatuses,
               rows'[k] = [rows[k] EXCEPT ![i] = s]
        PROVE  j = Len(rows'[k])
    <2>1. DOMAIN rows'[k] = DOMAIN rows[k] /\ i = Len(rows[k]) /\ i \in DOMAIN rows[k]
      BY <1>0, <1>3 DEF ActiveTasks
    <2>2. Len(rows'[k]) = Len(rows[k])
      BY <1>0, <1>3
    <2>3. CASE j = i
      BY <2>1, <2>2, <2>3
    <2>4. CASE j # i
      BY <1>0, <1>3, <2>1, <2>2, <2>4 DEF ActiveTasks
    <2>5. QED
      BY <2>3, <2>4
  <1>4. QED
    BY <1>1, <1>2, <1>3 DEF RowsMove

-----------------------------------------------------------------------------
(* The calls.                                                              *)

\* A step of the call r to the state q, where what q knows of a key is either known
\* already or true after the step, keeps ProducersInv's part on calls.
LEMMA OneCall ==
    ASSUME ProducersTypeOK, CallsKnow, Watch, NEW r \in Requests, NEW q \in Request,
           req' = [req EXCEPT ![r] = q],
           req[r].pc # "idle" \/ q.pc # "idle",
           \A k \in Keys :
              \/ q.out[k] \in {"none", "queue_full"}
              \/ q.out[k] = "asked" /\ q.pc \notin {"idle", "lookup"}
              \/ q.out[k] # "none" /\ Served(k)'
              \/ req[r].pc # "idle" /\ k \in seen[r] /\ q.out[k] # "asked",
           q.pc = "idle" => \A k \in Keys : q.out[k] # "asked"
    PROVE  req' \in [Requests -> Request] /\ seen' \in [Requests -> SUBSET Keys] /\ CallsKnow'
  <1>0. /\ req \in [Requests -> Request] /\ seen \in [Requests -> SUBSET Keys]
        /\ req' \in [Requests -> Request] /\ req'[r] = q
        /\ q.out \in [Keys -> RequestAnswers]
        /\ \A v \in Requests \ {r} : req'[v] = req[v]
    BY DEF ProducersTypeOK, Request
  <1>1. seen' \in [Requests -> SUBSET Keys]
    BY <1>0 DEF Watch
  <1>2. /\ \A v \in Requests \ {r} : seen[v] \subseteq seen'[v]
        /\ req[r].pc # "idle" => seen[r] \subseteq seen'[r]
        /\ \A k \in Keys : q.out[k] # "none" /\ Served(k)' => k \in seen'[r]
    BY <1>0 DEF Watch
  <1>3. ASSUME NEW v \in Requests \ {r} PROVE CallKnows(v)'
    BY <1>0, <1>2 DEF CallsKnow, CallKnows, Asked
  <1>4. CallKnows(r)'
    <2>1. \A k \in Keys : q.out[k] \in Good => k \in seen'[r]
      BY <1>0, <1>2 DEF Good
    <2>2. q.pc = "lookup" => \A k \in Keys : q.out[k] = "asked" => k \in seen'[r]
      BY <1>0, <1>2
    <2>3. QED
      BY <1>0, <2>1, <2>2 DEF CallKnows, Asked
  <1>5. QED
    BY <1>0, <1>1, <1>3, <1>4 DEF CallsKnow

\* The state of a call after Answer.
LEMMA AnswerCall ==
    ASSUME ProducersTypeOK, CallsKnow, Watch, NEW r \in Requests, req[r].pc \notin {"idle", "lookup"},
           NEW pc \in {"history", "insert", "lookup"}, NEW K \in SUBSET Asked(r),
           NEW answer \in RequestAnswers \ {"none", "asked"},
           Answer(r, pc, K, answer),
           answer = "queue_full" \/ \A k \in K : Served(k)',
           pc = "lookup" => \A k \in Asked(r) \ K : Served(k)'
    PROVE  req' \in [Requests -> Request] /\ seen' \in [Requests -> SUBSET Keys] /\ CallsKnow'
  <1> DEFINE out == [k \in Keys |-> IF k \in K THEN answer ELSE req[r].out[k]]
             end == IF Asked(r) \subseteq K THEN "idle" ELSE pc
             q   == [req[r] EXCEPT !.out = out, !.pc = end]
  <1>0. req[r] \in Request /\ req[r].out \in [Keys -> RequestAnswers]
    BY DEF ProducersTypeOK, Request
  <1>1. req' = [req EXCEPT ![r] = q]
    BY DEF Answer
  <1>2. out \in [Keys -> RequestAnswers] /\ end \in {"idle", "history", "insert", "lookup"}
    BY <1>0
  <1> HIDE DEF out, end
  <1>3. q \in Request /\ q.out = out /\ q.pc = end
    BY <1>0, <1>2 DEF Request
  <1>4. end = "idle" => \A k \in Keys : out[k] # "asked"
    BY <1>0 DEF out, end, Asked
  <1>5. ASSUME NEW k \in Keys
        PROVE  \/ out[k] \in {"none", "queue_full"}
               \/ out[k] = "asked" /\ end \notin {"idle", "lookup"}
               \/ out[k] # "none" /\ Served(k)'
               \/ req[r].pc # "idle" /\ k \in seen[r] /\ out[k] # "asked"
    <2>1. CASE k \in K
      BY <2>1 DEF out
    <2>2. CASE k \in Asked(r) \ K
      BY <1>2, <1>4, <2>2 DEF out, end, Asked
    <2>3. CASE k \notin Asked(r)
      <3>1. out[k] = req[r].out[k] /\ out[k] # "asked"
        BY <2>3 DEF out, Asked
      <3>2. out[k] \in Good => k \in seen[r]
        BY <3>1 DEF CallsKnow, CallKnows
      <3>3. QED
        BY <1>0, <3>1, <3>2 DEF Good
    <2>4. QED
      BY <2>1, <2>2, <2>3
  <1> HIDE DEF q
  <1>6. /\ req[r].pc # "idle" \/ q.pc # "idle"
        /\ q.pc = "idle" => \A k \in Keys : q.out[k] # "asked"
    BY <1>3, <1>4
  <1>7. \A k \in Keys :
           \/ q.out[k] \in {"none", "queue_full"}
           \/ q.out[k] = "asked" /\ q.pc \notin {"idle", "lookup"}
           \/ q.out[k] # "none" /\ Served(k)'
           \/ req[r].pc # "idle" /\ k \in seen[r] /\ q.out[k] # "asked"
    BY <1>3, <1>5
  <1>8. QED
    BY <1>1, <1>3, <1>6, <1>7, OneCall

LEMMA CallKeepsCalls ==
    ASSUME ProducersTypeOK, CallsKnow, OneActivePerKey, RowsMove, Watch,
           NEW r \in Requests, RequestStep(r)
    PROVE  req' \in [Requests -> Request] /\ seen' \in [Requests -> SUBSET Keys] /\ CallsKnow'
  <1>0. /\ req[r] \in Request /\ req[r].out \in [Keys -> RequestAnswers]
        /\ rows \in [Keys -> Seq(KeyStatuses)]
        /\ Asked(r) \subseteq Keys
    BY DEF ProducersTypeOK, Request, Asked
  <1>a. ASSUME NEW k \in Keys, rows'[k] = rows[k], Conflicts(k) \/ FatalHistory(k)
        PROVE  Served(k)'
    BY <1>0, <1>a DEF Served, Conflicts, ActiveTasks, FatalHistory
  <1>1. ASSUME NEW pc \in {"channel", "room"}, NEW K \in SUBSET Keys, NEW force \in BOOLEAN,
               Ask(r, pc, K, force)
        PROVE  /\ req' \in [Requests -> Request]
               /\ seen' \in [Requests -> SUBSET Keys]
               /\ CallsKnow'
    <2> DEFINE q == [pc |-> pc, force |-> force,
                     out |-> [k \in Keys |-> IF k \in K THEN "asked" ELSE "none"]]
    <2>1. req' = [req EXCEPT ![r] = q]
      BY <1>1 DEF Ask
    <2>2. q \in Request
      BY DEF Request, RequestAnswers
    <2>3. \A k \in Keys : q.out[k] = "none" \/ q.out[k] = "asked"
      OBVIOUS
    <2>4. q.pc \notin {"idle", "lookup"}
      OBVIOUS
    <2> HIDE DEF q
    <2>5. QED
      BY <2>1, <2>2, <2>3, <2>4, OneCall
  <1>2. CASE AskAddChannels(r)
    BY <1>1, <1>2, ProducersAssumption DEF AskAddChannels
  <1>3. CASE AskIfRoom(r)
    BY <1>1, <1>3, ProducersAssumption DEF AskIfRoom
  <1>4. CASE FilterByChannel(r)
    <2> DEFINE K == {k \in Asked(r) : ChannelTaken(k)}
    <2>1. \A k \in K : Served(k)'
      <3> SUFFICES ASSUME NEW k \in K PROVE Served(k)'
        OBVIOUS
      <3>1. PICK j \in Keys : ChannelOf[j] = ChannelOf[k] /\ Conflicts(j)
        BY DEF ChannelTaken
      <3>2. rows' = rows
        BY <1>4 DEF FilterByChannel
      <3>3. QED
        BY <3>1, <3>2 DEF Served, Conflicts, ActiveTasks
    <2>2. req[r].pc = "channel" /\ {} \in SUBSET Asked(r)
      BY <1>4 DEF FilterByChannel
    <2>3. CASE Answer(r, "history", K, "already_queued")
      BY <2>1, <2>2, <2>3, AnswerCall DEF RequestAnswers
    <2>4. CASE Answer(r, "history", {}, "already_queued")
      BY <2>2, <2>4, AnswerCall DEF RequestAnswers
    <2>5. QED
      BY <1>4, <2>3, <2>4 DEF FilterByChannel
  <1>5. CASE CountRoom(r)
    <2>1. PICK K \in SUBSET Asked(r) : Answer(r, "history", K, "queue_full")
      BY <1>5 DEF CountRoom
    <2>2. req[r].pc = "room"
      BY <1>5 DEF CountRoom
    <2>3. QED
      BY <2>1, <2>2, AnswerCall DEF RequestAnswers
  <1>6. CASE ReadFatalHistory(r)
    <2> DEFINE K == IF req[r].force THEN {} ELSE {k \in Asked(r) : FatalHistory(k)}
    <2>1. /\ req[r].pc = "history" /\ rows' = rows
          /\ Answer(r, "insert", K, "fatal_history")
      BY <1>6 DEF ReadFatalHistory
    <2>2. K \in SUBSET Asked(r) /\ \A k \in K : FatalHistory(k)
      OBVIOUS
    <2> HIDE DEF K
    <2>3. \A k \in K : Served(k)'
      BY <1>0, <1>a, <2>1, <2>2
    <2>4. QED
      BY <2>1, <2>2, <2>3, AnswerCall DEF RequestAnswers
  <1>7. CASE Insert(r)
    <2> DEFINE K == {k \in Asked(r) : ~Conflicts(k)}
    <2>1. /\ req[r].pc = "insert"
          /\ rows' = [k \in Keys |-> IF k \in K THEN Append(rows[k], "queued") ELSE rows[k]]
          /\ Answer(r, "lookup", K, "created")
      BY <1>7 DEF Insert
    <2>2. \A k \in K : Served(k)'
      <3> SUFFICES ASSUME NEW k \in K PROVE Served(k)'
        OBVIOUS
      <3>1. rows[k] \in Seq(KeyStatuses) /\ rows'[k] = Append(rows[k], "queued")
        BY <1>0, <2>1
      <3>2. Len(rows[k]) + 1 \in DOMAIN rows'[k] /\ rows'[k][Len(rows[k]) + 1] = "queued"
        BY <3>1
      <3>3. ActiveTasks(k)' # {}
        BY <3>2 DEF ActiveTasks, ActiveStatuses
      <3>4. QED
        BY <1>0, <3>3 DEF Served
    <2>3. \A k \in Asked(r) \ K : Served(k)'
      BY <1>0, <1>a, <2>1
    <2> HIDE DEF K
    <2>4. K \in SUBSET Asked(r)
      BY DEF K
    <2>5. QED
      BY <2>1, <2>2, <2>3, <2>4, AnswerCall DEF RequestAnswers
  <1>8. CASE LookUpExisting(r)
    <2> DEFINE out == [k \in Keys |-> IF k \notin Asked(r) THEN req[r].out[k]
                                      ELSE IF Conflicts(k) THEN "exists" ELSE "nothing"]
               q   == [req[r] EXCEPT !.pc = "idle", !.out = out]
    <2>1. req' = [req EXCEPT ![r] = q] /\ req[r].pc = "lookup"
      BY <1>8 DEF LookUpExisting
    <2>2. \A k \in Keys : out[k] # "asked"
      BY DEF Asked
    <2>3. ASSUME NEW k \in Keys
          PROVE  out[k] \in {"none", "queue_full"} \/ k \in seen[r]
      <3>1. CASE k \in Asked(r)
        BY <2>1, <3>1 DEF CallsKnow, CallKnows
      <3>2. CASE k \notin Asked(r)
        BY <1>0, <3>2 DEF CallsKnow, CallKnows, Good, Asked
      <3>3. QED
        BY <3>1, <3>2
    <2>4. out \in [Keys -> RequestAnswers]
      BY <1>0 DEF RequestAnswers
    <2> HIDE DEF out
    <2>5. q \in Request /\ q.out = out /\ q.pc = "idle"
      BY <1>0, <2>4 DEF Request
    <2> HIDE DEF q
    <2>6. QED
      BY <2>1, <2>2, <2>3, <2>5, OneCall
  <1>9. CASE RequestFails(r)
    <2> DEFINE out == [k \in Keys |-> IF k \in Asked(r) THEN "none" ELSE req[r].out[k]]
               q   == [req[r] EXCEPT !.pc = "idle", !.out = out]
    <2>1. req' = [req EXCEPT ![r] = q] /\ req[r].pc # "idle"
      BY <1>9 DEF RequestFails
    <2>2. \A k \in Keys : out[k] # "asked"
      BY DEF Asked
    <2>3. ASSUME NEW k \in Keys
          PROVE  out[k] \in {"none", "queue_full"} \/ k \in seen[r]
      BY <1>0 DEF CallsKnow, CallKnows, Good, Asked
    <2>4. out \in [Keys -> RequestAnswers]
      BY <1>0 DEF RequestAnswers
    <2> HIDE DEF out
    <2>5. q \in Request /\ q.out = out /\ q.pc = "idle"
      BY <1>0, <2>4 DEF Request
    <2> HIDE DEF q
    <2>6. QED
      BY <2>1, <2>2, <2>3, <2>5, OneCall
  <1>10. QED
    BY <1>2, <1>3, <1>4, <1>5, <1>6, <1>7, <1>8, <1>9 DEF RequestStep

LEMMA NextProducersInv == ProducersInv /\ [ProducersNext]_producersVars => ProducersInv'
  <1> SUFFICES ASSUME ProducersInv, [ProducersNext]_producersVars PROVE ProducersInv'
    OBVIOUS
  <1>0. ProducersTypeOK /\ OneActivePerKey /\ CallsKnow
    BY DEF ProducersInv
  <1>1. RowsMove /\ OneActivePerKey'
    BY <1>0, NextRows, RowsKeepOneActive
  <1>2. rows' \in [Keys -> Seq(KeyStatuses)]
    BY <1>1 DEF RowsMove
  <1>3. ASSUME NEW r \in Requests, RequestStep(r), Watch
        PROVE  ProducersInv'
    BY <1>0, <1>1, <1>2, <1>3, CallKeepsCalls DEF ProducersInv, ProducersTypeOK
  <1>4. CASE TaskMoves /\ Watch
    <2>1. req' = req
      BY <1>4 DEF TaskMoves
    <2>2. \A r \in Requests : seen[r] \subseteq seen'[r]
      BY <2>1, <1>4, <1>0 DEF Watch, CallsKnow, CallKnows, ProducersTypeOK
    <2>3. QED
      BY <1>0, <1>1, <1>2, <1>4, <2>1, <2>2
         DEF ProducersInv, ProducersTypeOK, Watch, CallsKnow, CallKnows, Asked
  <1>5. CASE UNCHANGED producersVars
    BY <1>0, <1>1, <1>5 DEF producersVars, ProducersInv, ProducersTypeOK, CallsKnow, CallKnows, Asked
  <1>6. QED
    BY <1>3, <1>4, <1>5 DEF ProducersNext

THEOREM ProducersInvariant == ProducersSpec => []ProducersInv
  BY InitProducersInv, NextProducersInv, PTL DEF ProducersSpec

-----------------------------------------------------------------------------
(* What follows from it.                                                   *)

\* However many calls and workers there are, at most one task of a dedup_key is active.
THEOREM DedupHolds == ProducersSpec => []OneActivePerKey
  <1>1. ProducersInv => OneActivePerKey
    BY DEF ProducersInv
  <1>2. QED
    BY <1>1, ProducersInvariant, PTL

\* No key is lost by a call that answers without an error, though its fatal history,
\* its insertion and its second look are statements others run between.
THEOREM NoTaskIsLost == ProducersSpec => []NoneLost
  <1>1. ProducersInv => NoneLost
    <2> SUFFICES ASSUME ProducersInv, NEW r \in Requests, NEW k \in Keys,
                        req[r].pc = "idle", req[r].out[k] \notin {"none", "queue_full"}
                 PROVE  k \in seen[r]
      BY DEF NoneLost
    <2>1. req[r].out[k] \in RequestAnswers /\ CallKnows(r)
      BY DEF ProducersInv, ProducersTypeOK, Request, CallsKnow
    <2>2. QED
      BY <2>1 DEF CallKnows, Good, Asked
  <1>2. QED
    BY <1>1, ProducersInvariant, PTL

-----------------------------------------------------------------------------
(* The target: a call that counted before another inserted adds one to it.  *)

\* The calls that found room for a task of a capped key and will insert it.
Counted(r) == req[r].pc \in {"history", "insert"} /\ Asked(r) \cap Capped # {}
CountedCalls == {r \in Requests : Counted(r)}

\* A call asks for one capped key, and never at the channel filter of a batch.
OneCapped(r) == /\ req[r].pc = "channel" => Asked(r) \cap Capped = {}
                /\ \A j, k \in Asked(r) \cap Capped : j = k

OvershootInv ==
    /\ \A r \in Requests : OneCapped(r)
    /\ IsFiniteSet(ActiveCapped)
    /\ Cardinality(ActiveCapped) + Cardinality(CountedCalls)
          <= TargetSize + Cardinality(Requests) - 1

\* A step that makes no capped task active, and counts no other call.
LEMMA NoMoreActive ==
    ASSUME IsFiniteSet(Requests), OvershootInv,
           ActiveCapped' \subseteq ActiveCapped, CountedCalls' \subseteq CountedCalls,
           \A r \in Requests : OneCapped(r)'
    PROVE  OvershootInv'
  <1>1. IsFiniteSet(CountedCalls)
    BY FS_Subset DEF CountedCalls
  <1>2. /\ IsFiniteSet(ActiveCapped') /\ Cardinality(ActiveCapped') <= Cardinality(ActiveCapped)
        /\ Cardinality(CountedCalls') <= Cardinality(CountedCalls)
    BY <1>1, FS_Subset DEF OvershootInv
  <1>3. IsFiniteSet(CountedCalls')
    BY <1>1, FS_Subset
  <1>4. /\ Cardinality(ActiveCapped) \in Nat /\ Cardinality(ActiveCapped') \in Nat
        /\ Cardinality(CountedCalls) \in Nat /\ Cardinality(CountedCalls') \in Nat
        /\ Cardinality(Requests) \in Nat
    BY <1>1, <1>2, <1>3, FS_CardinalityType DEF OvershootInv
  <1>5. Cardinality(ActiveCapped') + Cardinality(CountedCalls')
          <= TargetSize + Cardinality(Requests) - 1
    BY <1>2, <1>4, ProducersAssumption DEF OvershootInv
  <1>6. QED
    BY <1>2, <1>5 DEF OvershootInv

\* A statement of the call r that changes no row.
LEMMA ReadingCall ==
    ASSUME IsFiniteSet(Requests), ProducersTypeOK, OvershootInv, NEW r \in Requests,
           rows' = rows, \A v \in Requests \ {r} : req'[v] = req[v],
           Asked(r)' \subseteq Asked(r), req'[r].pc # "channel", Counted(r)' => Counted(r)
    PROVE  OvershootInv'
  <1>1. ActiveCapped' = ActiveCapped
    BY DEF ActiveCapped, ActiveTasks
  <1>2. \A v \in Requests \ {r} : (Counted(v)' <=> Counted(v)) /\ (OneCapped(v)' <=> OneCapped(v))
    BY DEF Counted, OneCapped, Asked
  <1>3. CountedCalls' \subseteq CountedCalls
    BY <1>2 DEF CountedCalls
  <1>4. OneCapped(r)'
    BY DEF OvershootInv, OneCapped
  <1>5. QED
    BY <1>1, <1>2, <1>3, <1>4, NoMoreActive DEF OvershootInv

\* What Answer leaves of a call.
LEMMA AnswerLeaves ==
    ASSUME ProducersTypeOK, NEW r \in Requests, NEW pc, NEW K, NEW answer, answer # "asked",
           Answer(r, pc, K, answer)
    PROVE  /\ \A v \in Requests \ {r} : req'[v] = req[v]
           /\ Asked(r)' = Asked(r) \ K
           /\ req'[r].pc \in {"idle", pc}
  <1>0. req \in [Requests -> Request] /\ req[r].out \in [Keys -> RequestAnswers]
    BY DEF ProducersTypeOK, Request
  <1>1. /\ req'[r].out = [k \in Keys |-> IF k \in K THEN answer ELSE req[r].out[k]]
        /\ req'[r].pc = IF Asked(r) \subseteq K THEN "idle" ELSE pc
        /\ \A v \in Requests \ {r} : req'[v] = req[v]
    BY <1>0 DEF Answer, Request
  <1>2. QED
    BY <1>1 DEF Asked

\* The call that inserts is no longer counted, its task is.
LEMMA InsertCounts ==
    ASSUME IsFiniteSet(Requests), ProducersTypeOK, OvershootInv, NEW r \in Requests, Insert(r)
    PROVE  OvershootInv'
  <1> DEFINE K == {k \in Asked(r) : ~Conflicts(k)}
  <1>0. rows \in [Keys -> Seq(KeyStatuses)] /\ Asked(r) \subseteq Keys
    BY DEF ProducersTypeOK, Asked
  <1>1. /\ req[r].pc = "insert" /\ Answer(r, "lookup", K, "created")
        /\ rows' = [k \in Keys |-> IF k \in K THEN Append(rows[k], "queued") ELSE rows[k]]
    BY DEF Insert
  <1> HIDE DEF K
  <1>2. /\ \A v \in Requests \ {r} : req'[v] = req[v]
        /\ Asked(r)' = Asked(r) \ K
        /\ req'[r].pc \in {"idle", "lookup"}
    BY <1>1, AnswerLeaves
  <1>3. \A v \in Requests \ {r} : (Counted(v)' <=> Counted(v)) /\ (OneCapped(v)' <=> OneCapped(v))
    BY <1>2 DEF Counted, OneCapped, Asked
  <1>4. \A v \in Requests : OneCapped(v)'
    BY <1>2, <1>3 DEF OvershootInv, OneCapped
  <1>5. CountedCalls' = CountedCalls \ {r}
    BY <1>2, <1>3 DEF CountedCalls, Counted
  <1>6. ASSUME NEW k \in Keys
        PROVE  ActiveTasks(k)' \subseteq ActiveTasks(k)
                  \cup (IF k \in K THEN {Len(rows[k]) + 1} ELSE {})
    <2>1. rows[k] \in Seq(KeyStatuses)
      BY <1>0
    <2>2. CASE k \in K
      BY <1>1, <2>1, <2>2 DEF ActiveTasks
    <2>3. CASE k \notin K
      BY <1>1, <2>3 DEF ActiveTasks
    <2>4. QED
      BY <2>2, <2>3
  <1>7. K \subseteq Asked(r)
    BY DEF K
  <1>8. CASE K \cap Capped = {}
    <2>1. ActiveCapped' \subseteq ActiveCapped
      BY <1>6, <1>8, ProducersAssumption DEF ActiveCapped
    <2>2. QED
      BY <1>4, <1>5, <2>1, NoMoreActive
  <1>9. ASSUME NEW k \in K \cap Capped PROVE OvershootInv'
    <2>1. K \cap Capped = {k}
      BY <1>7 DEF OvershootInv, OneCapped
    <2> DEFINE new == <<k, Len(rows[k]) + 1>>
    <2>2. ActiveCapped' \subseteq ActiveCapped \cup {new}
      <3>1. ASSUME NEW j \in Capped, NEW i \in ActiveTasks(j)'
            PROVE  <<j, i>> \in ActiveCapped \cup {new}
        <4>1. j \in Keys
          BY ProducersAssumption
        <4>2. CASE i \in ActiveTasks(j)
          BY <4>2 DEF ActiveCapped
        <4>3. CASE i \notin ActiveTasks(j)
          <5>1. j \in K /\ i = Len(rows[j]) + 1
            BY <1>6, <4>1, <4>3
          <5>2. j = k
            BY <2>1, <5>1
          <5>3. QED
            BY <5>1, <5>2
        <4>4. QED
          BY <4>2, <4>3
      <3>2. ASSUME NEW p \in ActiveCapped' PROVE p \in ActiveCapped \cup {new}
        <4>1. PICK j \in Capped : p \in {j} \X ActiveTasks(j)'
          BY DEF ActiveCapped
        <4>2. PICK i \in ActiveTasks(j)' : p = <<j, i>>
          BY <4>1
        <4>3. QED
          BY <3>1, <4>2
      <3>3. QED
        BY <3>2
    <2> HIDE DEF new
    <2>3. r \in CountedCalls /\ IsFiniteSet(CountedCalls)
      BY <1>1, <1>7, FS_Subset DEF CountedCalls, Counted
    <2>4. Cardinality(CountedCalls') = Cardinality(CountedCalls) - 1
      BY <1>5, <2>3, FS_RemoveElement
    <2>5. IsFiniteSet(ActiveCapped \cup {new})
          /\ Cardinality(ActiveCapped \cup {new}) <= Cardinality(ActiveCapped) + 1
      <3>1. IsFiniteSet(ActiveCapped) /\ Cardinality(ActiveCapped) \in Nat
        BY FS_CardinalityType DEF OvershootInv
      <3>2. /\ IsFiniteSet(ActiveCapped \cup {new})
            /\ Cardinality(ActiveCapped \cup {new})
                 = IF new \in ActiveCapped THEN Cardinality(ActiveCapped)
                                            ELSE Cardinality(ActiveCapped) + 1
        BY <3>1, FS_AddElement, Zenon
      <3>3. QED
        BY <3>1, <3>2
    <2>6. IsFiniteSet(ActiveCapped')
          /\ Cardinality(ActiveCapped') <= Cardinality(ActiveCapped \cup {new})
      BY <2>2, <2>5, FS_Subset
    <2>7. /\ Cardinality(ActiveCapped) \in Nat /\ Cardinality(ActiveCapped') \in Nat
          /\ Cardinality(ActiveCapped \cup {new}) \in Nat
          /\ Cardinality(CountedCalls) \in Nat /\ Cardinality(Requests) \in Nat
      BY <2>3, <2>5, <2>6, FS_CardinalityType DEF OvershootInv
    <2>8. Cardinality(ActiveCapped') + Cardinality(CountedCalls')
            <= TargetSize + Cardinality(Requests) - 1
      BY <2>4, <2>5, <2>6, <2>7, ProducersAssumption DEF OvershootInv
    <2>9. QED
      BY <1>4, <2>6, <2>8 DEF OvershootInv
  <1>10. QED
    BY <1>8, <1>9

\* A call that counts finds room below the target, and is one of all calls.
LEMMA CountCounts ==
    ASSUME IsFiniteSet(Requests), ProducersTypeOK, OvershootInv, NEW r \in Requests, CountRoom(r)
    PROVE  OvershootInv'
  <1>1. /\ rows' = rows
        /\ Answer(r, "history", IF Room THEN {} ELSE Asked(r), "queue_full")
    BY DEF CountRoom
  <1>2. /\ \A v \in Requests \ {r} : req'[v] = req[v]
        /\ Asked(r)' = Asked(r) \ IF Room THEN {} ELSE Asked(r)
        /\ req'[r].pc \in {"idle", "history"}
    <2> DEFINE K == IF Room THEN {} ELSE Asked(r)
    <2> HIDE DEF K
    <2>1. Answer(r, "history", K, "queue_full")
      BY <1>1 DEF K
    <2>2. QED
      BY <2>1, AnswerLeaves DEF K
  <1>3. CASE ~Room
    BY <1>1, <1>2, <1>3, ReadingCall DEF Counted
  <1>4. CASE Room
    <2>1. ActiveCapped' = ActiveCapped
      BY <1>1 DEF ActiveCapped, ActiveTasks
    <2>2. \A v \in Requests : OneCapped(v)'
      BY <1>2 DEF OvershootInv, OneCapped, Asked
    <2>3. CountedCalls' \subseteq Requests
      BY DEF CountedCalls
    <2>4. IsFiniteSet(CountedCalls') /\ Cardinality(CountedCalls') <= Cardinality(Requests)
      BY <2>3, FS_Subset
    <2>5. Cardinality(CountedCalls') \in Nat /\ Cardinality(Requests) \in Nat
          /\ Cardinality(ActiveCapped) \in Nat
      BY <2>4, FS_CardinalityType DEF OvershootInv
    <2>6. Cardinality(ActiveCapped) + Cardinality(CountedCalls')
             <= TargetSize + Cardinality(Requests) - 1
      BY <1>4, <2>4, <2>5, ProducersAssumption DEF Room
    <2>7. QED
      BY <2>1, <2>2, <2>6 DEF OvershootInv
  <1>5. QED
    BY <1>3, <1>4

LEMMA OvershootStep ==
    ASSUME IsFiniteSet(Requests), ProducersTypeOK, OvershootInv, [ProducersNext]_producersVars
    PROVE  OvershootInv'
  <1>0. /\ rows \in [Keys -> Seq(KeyStatuses)] /\ req \in [Requests -> Request]
        /\ \A r \in Requests : req[r].out \in [Keys -> RequestAnswers]
    BY DEF ProducersTypeOK, Request
  <1>1. ASSUME NEW r \in Requests, RequestStep(r) PROVE OvershootInv'
    <2>1. ASSUME NEW pc \in {"channel", "room"}, NEW K \in SUBSET Keys, NEW force \in BOOLEAN,
                 Ask(r, pc, K, force), pc = "channel" => K \cap Capped = {},
                 \A j, k \in K \cap Capped : j = k
          PROVE  OvershootInv'
      <3>1. /\ rows' = rows /\ \A v \in Requests \ {r} : req'[v] = req[v]
            /\ req'[r].pc = pc /\ req'[r].out = [k \in Keys |-> IF k \in K THEN "asked" ELSE "none"]
        BY <1>0, <2>1 DEF Ask
      <3>2. Asked(r)' = K
        BY <3>1 DEF Asked
      <3>3. ActiveCapped' = ActiveCapped
        BY <3>1 DEF ActiveCapped, ActiveTasks
      <3>4. \A v \in Requests \ {r} : (Counted(v)' <=> Counted(v)) /\ (OneCapped(v)' <=> OneCapped(v))
        BY <3>1 DEF Counted, OneCapped, Asked
      <3>5. OneCapped(r)' /\ ~Counted(r)'
        BY <2>1, <3>1, <3>2 DEF OneCapped, Counted
      <3>6. CountedCalls' \subseteq CountedCalls
        BY <3>4, <3>5 DEF CountedCalls
      <3>7. QED
        BY <3>3, <3>4, <3>5, <3>6, NoMoreActive DEF OvershootInv
    <2>2. CASE AskAddChannels(r)
      <3>1. PICK K \in Batches \ {{}}, force \in BOOLEAN : Ask(r, "channel", K, force)
        BY <2>2 DEF AskAddChannels
      <3>2. K \in SUBSET Keys /\ K \cap Capped = {}
        BY ProducersAssumption
      <3>3. QED
        BY <2>1, <3>1, <3>2
    <2>3. CASE AskIfRoom(r)
      <3>1. PICK k \in Capped : Ask(r, "room", {k}, FALSE)
        BY <2>3 DEF AskIfRoom
      <3>2. {k} \in SUBSET Keys
        BY ProducersAssumption
      <3>3. QED
        BY <2>1, <3>1, <3>2
    <2>4. CASE FilterByChannel(r)
      <3>1. PICK K : Answer(r, "history", K, "already_queued")
        BY <2>4 DEF FilterByChannel
      <3>2. req[r].pc = "channel" /\ rows' = rows
        BY <2>4 DEF FilterByChannel
      <3>3. /\ \A v \in Requests \ {r} : req'[v] = req[v]
            /\ Asked(r)' = Asked(r) \ K /\ req'[r].pc \in {"idle", "history"}
        BY <3>1, AnswerLeaves
      <3>4. ~Counted(r)'
        BY <3>2, <3>3 DEF OvershootInv, OneCapped, Counted
      <3>5. QED
        BY <3>2, <3>3, <3>4, ReadingCall
    <2>5. CASE CountRoom(r)
      BY <2>5, CountCounts
    <2>6. CASE ReadFatalHistory(r)
      <3>1. PICK K : Answer(r, "insert", K, "fatal_history")
        BY <2>6 DEF ReadFatalHistory
      <3>2. req[r].pc = "history" /\ rows' = rows
        BY <2>6 DEF ReadFatalHistory
      <3>3. /\ \A v \in Requests \ {r} : req'[v] = req[v]
            /\ Asked(r)' = Asked(r) \ K /\ req'[r].pc \in {"idle", "insert"}
        BY <3>1, AnswerLeaves
      <3>4. Counted(r)' => Counted(r)
        BY <3>2, <3>3 DEF Counted
      <3>5. QED
        BY <3>2, <3>3, <3>4, ReadingCall
    <2>7. CASE Insert(r)
      BY <2>7, InsertCounts
    <2>8. CASE LookUpExisting(r)
      <3>1. /\ rows' = rows /\ \A v \in Requests \ {r} : req'[v] = req[v]
            /\ req'[r].pc = "idle" /\ \A k \in Keys : req'[r].out[k] # "asked"
        BY <1>0, <2>8 DEF LookUpExisting, Request, Asked
      <3>2. Asked(r)' = {} /\ ~Counted(r)'
        BY <3>1 DEF Asked, Counted
      <3>3. QED
        BY <3>1, <3>2, ReadingCall
    <2>9. CASE RequestFails(r)
      <3>1. /\ rows' = rows /\ \A v \in Requests \ {r} : req'[v] = req[v]
            /\ req'[r].pc = "idle" /\ \A k \in Keys : req'[r].out[k] # "asked"
        BY <1>0, <2>9 DEF RequestFails, Request, Asked
      <3>2. Asked(r)' = {} /\ ~Counted(r)'
        BY <3>1 DEF Asked, Counted
      <3>3. QED
        BY <3>1, <3>2, ReadingCall
    <2>10. QED
      BY <1>1, <2>2, <2>3, <2>4, <2>5, <2>6, <2>7, <2>8, <2>9 DEF RequestStep
  <1>2. CASE TaskMoves
    <2>1. PICK k \in Keys : \E i \in ActiveTasks(k), s \in KeyStatuses :
                 rows' = [rows EXCEPT ![k] = [rows[k] EXCEPT ![i] = s]]
      BY <1>2 DEF TaskMoves, KeyStatuses, ActiveStatuses
    <2>2. PICK i \in ActiveTasks(k), s \in KeyStatuses :
                 rows' = [rows EXCEPT ![k] = [rows[k] EXCEPT ![i] = s]]
      BY <2>1
    <2>3. \A j \in Keys : ActiveTasks(j)' \subseteq ActiveTasks(j)
      <3>1. ASSUME NEW j \in Keys PROVE ActiveTasks(j)' \subseteq ActiveTasks(j)
        <4>1. rows[j] \in Seq(KeyStatuses) /\ i \in DOMAIN rows[k]
          BY <1>0 DEF ActiveTasks
        <4>2. CASE j = k
          BY <1>0, <2>2, <4>1, <4>2 DEF ActiveTasks
        <4>3. CASE j # k
          BY <1>0, <2>2, <4>3 DEF ActiveTasks
        <4>4. QED
          BY <4>2, <4>3
      <3>2. QED
        BY <3>1
    <2>4. ActiveCapped' \subseteq ActiveCapped
      BY <2>3, ProducersAssumption DEF ActiveCapped
    <2>5. req' = req
      BY <1>2 DEF TaskMoves
    <2>6. CountedCalls' = CountedCalls /\ \A r \in Requests : OneCapped(r)' <=> OneCapped(r)
      BY <2>5 DEF CountedCalls, Counted, OneCapped, Asked
    <2>7. QED
      BY <2>4, <2>6, NoMoreActive DEF OvershootInv
  <1>3. CASE UNCHANGED producersVars
    BY <1>3 DEF producersVars, OvershootInv, OneCapped, Asked, CountedCalls, Counted, ActiveCapped,
                ActiveTasks
  <1>4. QED
    BY <1>1, <1>2, <1>3 DEF ProducersNext

\* For every number of producers at least one, every target and any number of
\* keys, the target is overshot by one task for each other call that counted
\* before an insertion, and no more.
THEOREM OvershootIsBounded ==
    ASSUME IsFiniteSet(Requests), Requests # {}
    PROVE  ProducersSpec => []OvershootBound
  <1>1. Cardinality(Requests) \in Nat /\ Cardinality(Requests) >= 1
    <2>1. Cardinality(Requests) \in Nat /\ Cardinality(Requests) # 0
      BY FS_CardinalityType, FS_EmptySet
    <2>2. QED
      BY <2>1
  <1>2. ProducersInit => OvershootInv
    <2> SUFFICES ASSUME ProducersInit PROVE OvershootInv
      OBVIOUS
    <2>1. \A k \in Keys : ActiveTasks(k) = {}
      BY DEF ProducersInit, ActiveTasks
    <2>2. ActiveCapped = {}
      BY <2>1, ProducersAssumption DEF ActiveCapped
    <2>3. \A r \in Requests : Asked(r) = {}
      BY DEF ProducersInit, Asked, Unasked
    <2>4. CountedCalls = {} /\ \A r \in Requests : OneCapped(r)
      BY <2>3 DEF CountedCalls, Counted, OneCapped
    <2>5. QED
      BY <1>1, <2>2, <2>4, FS_EmptySet, ProducersAssumption DEF OvershootInv
  <1>3. ProducersInv => ProducersTypeOK
    BY DEF ProducersInv
  <1>4. ProducersSpec => []OvershootInv
    BY <1>2, <1>3, OvershootStep, ProducersInvariant, PTL DEF ProducersSpec
  <1>5. OvershootInv => OvershootBound
    <2> SUFFICES ASSUME OvershootInv PROVE OvershootBound
      OBVIOUS
    <2>1. IsFiniteSet(CountedCalls)
      BY FS_Subset DEF CountedCalls
    <2>2. Cardinality(CountedCalls) \in Nat /\ Cardinality(ActiveCapped) \in Nat
      BY <2>1, FS_CardinalityType DEF OvershootInv
    <2>3. QED
      BY <1>1, <2>2, ProducersAssumption DEF OvershootInv, OvershootBound
  <1>6. QED
    BY <1>4, <1>5, PTL
=============================================================================
