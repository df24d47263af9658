------------------------------ MODULE ClumpProofs ------------------------------
(***************************************************************************)
(* Proofs about the clump, for every set of sessions, channels and tasks:   *)
(* what an operation holds across its awaits is a session of the clump or   *)
(* one it knows to have left, and what is listened to is in the file, or    *)
(* in the hands of an operation that will save it.                         *)
(***************************************************************************)
EXTENDS Clump, FiniteSetTheorems, TLAPS

\* An operation away from its channel has taken nothing off a session.
Shape(o) ==
    /\ o.stripped => o.at = "resolve" /\ o.kind \in {"move", "migrate", "drop", "rebalance"}
    /\ o.at = "resolve" => o.ref \in Refs /\ o.dst \in Sessions
    /\ o.at = "stop" => o.kind = "drop"
    /\ o.kind = "retry" => o.kept \subseteq Refs
    /\ o.kind = "rebalance" => o.todo \cup o.kept \subseteq Sessions
    /\ o.kind = "rebalance" /\ o.at = "resolve" => o.src \in Sessions

\* The objects it holds are of sessions in M, or of sessions it lost.
Located(o, M) ==
    /\ o.at = "resolve" => o.dst \in M \cup o.gone
    /\ o.kind = "rebalance" => o.todo \cup o.kept \subseteq M \cup o.gone
    /\ o.kind = "rebalance" /\ o.at = "resolve" => o.src \in M \cup o.gone

Sound(o, M) == o \in Op /\ Shape(o) /\ Located(o, M)

\* The operation ends in a save, whatever it does before.
Covers(o) ==
    \/ o.at = "write"
    \/ o.kind \in {"add", "migrate", "drop", "rebalance"} /\ o.at \in {"lock", "loop", "resolve"}
    \/ o.kind = "retry" /\ o.moved

CoverInv == \A r \in Refs : Listeners(r) # {} =>
                r \in saved.list \cup unsaved \/ \E t \in Tasks : Covers(op[t])

MemoryOK ==
    /\ members \subseteq Sessions
    /\ chans \in [Sessions -> SUBSET Refs]
    /\ assigned \in [Refs -> Sessions \cup {NoSession}]
    /\ pending \subseteq Refs /\ unsaved \subseteq Refs

SavedOK == saved \in [members : SUBSET Sessions, list : SUBSET Refs,
                      assigned : [Refs -> Sessions \cup {NoSession}]]

LockOK == lock = {} \/ \E t \in Tasks : lock = {t}

OpsSound == op \in [Tasks -> Op] /\ \A t \in Tasks : Sound(op[t], members)

TypeInv == MemoryOK /\ SavedOK /\ LockOK /\ OpsSound

-----------------------------------------------------------------------------
\* The operations an action puts in place of another are sound.
LEMMA IdleSound == ASSUME NEW M PROVE Sound(Idle, M) /\ Sound(Writing, M)
  <1>1. Idle \in Op /\ Writing \in Op
    BY DEF Idle, Writing, Op, Looping
  <1>2. QED
    BY <1>1 DEF Sound, Shape, Located, Idle, Writing

LEMMA TowardSound ==
    ASSUME NEW o \in Op, NEW r \in Refs, NEW M \in SUBSET Sessions, NEW s \in M,
           o.kind # "rebalance", o.kind = "retry" => o.kept \subseteq Refs,
           o.stripped => o.kind \in {"move", "migrate", "drop"}
    PROVE  /\ Sound(Toward(o, r, s), M)
           /\ \A b \in BOOLEAN : (b => o.kind \in {"move", "migrate", "drop"})
                                    => Sound([Toward(o, r, s) EXCEPT !.stripped = b], M)
           /\ \A x \in Sessions : Sound([Toward(o, r, s) EXCEPT !.src = x], M)
  <1> DEFINE n == Toward(o, r, s)
  <1>1. n \in Op
    BY DEF Toward, Op
  <1>2. /\ n.at = "resolve" /\ n.ref = r /\ n.dst = s /\ n.kind = o.kind
        /\ n.kept = o.kept /\ n.stripped = o.stripped
    BY DEF Toward, Op
  <1> HIDE DEF n
  <1>3. Sound(n, M)
    BY <1>1, <1>2 DEF Sound, Shape, Located
  <1>4. ASSUME NEW b \in BOOLEAN, b => o.kind \in {"move", "migrate", "drop"}
        PROVE  Sound([n EXCEPT !.stripped = b], M)
    <2>1. [n EXCEPT !.stripped = b] \in Op
      BY <1>1 DEF Op
    <2>2. QED
      BY <2>1, <1>1, <1>2, <1>4 DEF Sound, Shape, Located, Op
  <1>5. ASSUME NEW x \in Sessions PROVE Sound([n EXCEPT !.src = x], M)
    <2>1. [n EXCEPT !.src = x] \in Op
      BY <1>1 DEF Op
    <2>2. QED
      BY <2>1, <1>1, <1>2 DEF Sound, Shape, Located, Op
  <1>6. QED
    BY <1>3, <1>4, <1>5 DEF n

LEMMA ContinueSound ==
    ASSUME NEW M \in SUBSET Sessions, NEW o, Sound(o, M), o.kind \in Looping
    PROVE  /\ Sound(Continue(o), M)
           /\ Sound([Continue(o) EXCEPT !.moved = TRUE], M)
           /\ Sound([Continue(o) EXCEPT !.moved = FALSE], M)
           /\ \A R \in SUBSET Refs : o.kind = "retry"
                                        => Sound([Continue(o) EXCEPT !.kept = @ \cup R], M)
  <1> DEFINE n == [o EXCEPT !.at = "loop", !.ref = NoSession, !.dst = NoSession,
                            !.stripped = FALSE,
                            !.src = IF o.kind \in {"migrate", "drop"} THEN @ ELSE NoSession]
             c == Continue(o)
  <1>1. n \in Op /\ n.todo = o.todo /\ n.kept = o.kept /\ n.gone = o.gone /\ n.kind = o.kind
        /\ n.at = "loop" /\ n.stripped = FALSE
    BY DEF Sound, Op
  <1>2. c = [n EXCEPT !.gone = @ \cap Objects(n)]
    BY DEF Continue
  <1> HIDE DEF n, c
  <1>3. /\ c \in Op /\ c.todo = o.todo /\ c.kept = o.kept /\ c.kind = o.kind
        /\ c.at = "loop" /\ c.stripped = FALSE /\ c.gone = o.gone \cap Objects(n)
    BY <1>1, <1>2 DEF Op
  <1>4. o.kind = "rebalance" => o.todo \cup o.kept \subseteq Objects(n)
    BY <1>1 DEF Objects, Sound, Shape
  <1>5. Shape(c)
    BY <1>3 DEF Shape, Sound
  <1>6. Located(c, M)
    BY <1>3, <1>4 DEF Located, Sound
  <1>7. ASSUME NEW b \in BOOLEAN PROVE Sound([c EXCEPT !.moved = b], M)
    <2>1. [c EXCEPT !.moved = b] \in Op
      BY <1>3 DEF Op
    <2>2. QED
      BY <2>1, <1>3, <1>5, <1>6 DEF Sound, Shape, Located, Op
  <1>8. ASSUME NEW R \in SUBSET Refs, o.kind = "retry"
        PROVE  Sound([c EXCEPT !.kept = @ \cup R], M)
    <2>1. [c EXCEPT !.kept = @ \cup R] \in Op
      BY <1>3 DEF Op
    <2>2. QED
      BY <2>1, <1>3, <1>5, <1>6, <1>8 DEF Sound, Shape, Located, Op
  <1>9. QED
    BY <1>3, <1>5, <1>6, <1>7, <1>8 DEF Sound, c

LEMMA GoesOnSound ==
    ASSUME NEW M \in SUBSET Sessions, NEW o, Sound(o, M)
    PROVE  Sound(GoesOn(o), M) /\ Covers(GoesOn(o))
  <1>1. CASE o.kind \notin Looping
    BY <1>1, IdleSound DEF GoesOn, Covers, Writing, Idle
  <1>2. CASE o.kind \in Looping
    <2>1. Sound(GoesOn(o), M)
      <3>1. CASE o.kind \in {"retry", "rebalance"}
        <4>1. GoesOn(o) = [Continue(o) EXCEPT !.moved = TRUE]
          BY <1>2, <3>1 DEF GoesOn
        <4>2. Sound([Continue(o) EXCEPT !.moved = TRUE], M)
          BY <1>2, ContinueSound
        <4>3. QED
          BY <4>1, <4>2, Zenon
      <3>2. CASE o.kind \notin {"retry", "rebalance"}
        <4>0. (o.kind \in {"retry", "rebalance"}) = FALSE
          BY <3>2
        <4>1. GoesOn(o) = [Continue(o) EXCEPT !.moved = FALSE]
          BY <1>2, <4>0, Zenon DEF GoesOn
        <4>2. Sound([Continue(o) EXCEPT !.moved = FALSE], M)
          BY <1>2, ContinueSound
        <4>3. QED
          BY <4>1, <4>2, Zenon
      <3>3. QED
        BY <3>1, <3>2
    <2>2. o \in Op
      BY DEF Sound
    <2>3. /\ GoesOn(o).kind = o.kind /\ GoesOn(o).at = "loop"
          /\ GoesOn(o).moved = (o.kind \in {"retry", "rebalance"})
      BY <1>2, <2>2 DEF GoesOn, Continue, Op
    <2>4. QED
      BY <1>2, <2>1, <2>3 DEF Covers, Looping
  <1>3. QED
    BY <1>1, <1>2

\* A step of one task leaves the operations sound if it leaves its own so.
LEMMA GoSound ==
    ASSUME OpsSound, NEW t \in Tasks, NEW o, Sound(o, members), Go(t, o),
           UNCHANGED members
    PROVE  OpsSound'
  <1>1. o \in Op
    BY DEF Sound
  <1>2. op' \in [Tasks -> Op]
    BY <1>1 DEF Go, OpsSound
  <1>3. ASSUME NEW u \in Tasks PROVE Sound(op'[u], members')
    BY DEF Go, OpsSound
  <1>4. QED
    BY <1>2, <1>3 DEF OpsSound

-----------------------------------------------------------------------------
\* Every step but Restart leaves the operations sound.
LEMMA StartsSound ==
    ASSUME TypeInv, NEW t \in Tasks, UNCHANGED members,
           \/ \E s \in Sessions, r \in Refs : StartAddOn(t, s, r)
           \/ \E R \in (SUBSET Refs) \ {{}} : StartAdd(t, R)
           \/ \E r \in Refs, from, to \in Sessions : StartMove(t, r, from, to)
           \/ \E r \in Refs : Remove(t, r)
           \/ \E s \in Sessions, kind \in {"migrate", "drop"} : StartMigrate(t, s, kind)
           \/ StartRetry(t) \/ StartRebalance(t)
    PROVE  OpsSound'
  <1> USE DEF TypeInv
  <1>0. members \in SUBSET Sessions
    BY DEF MemoryOK
  <1>1. ASSUME NEW s \in Sessions, NEW r \in Refs, StartAddOn(t, s, r) PROVE OpsSound'
    <2>1. [Idle EXCEPT !.kind = "add_on"] \in Op /\ [Idle EXCEPT !.kind = "add_on"].kind = "add_on"
          /\ [Idle EXCEPT !.kind = "add_on"].stripped = FALSE
      BY IdleSound DEF Sound, Idle, Op
    <2>2. Sound(Toward([Idle EXCEPT !.kind = "add_on"], r, s), members)
      BY <1>0, <1>1, <2>1, TowardSound DEF StartAddOn
    <2>3. QED
      BY <1>1, <2>2, GoSound DEF StartAddOn
  <1>2. ASSUME NEW R \in SUBSET Refs, StartAdd(t, R) PROVE OpsSound'
    <2> DEFINE o == [Idle EXCEPT !.kind = "add", !.at = "loop", !.todo = R]
    <2>1. o \in Op
      BY DEF Idle, Op, Looping
    <2>2. Sound(o, members)
      BY <2>1 DEF Sound, Shape, Located, Idle
    <2>3. QED
      BY <1>2, <2>2, GoSound DEF StartAdd
  <1>3. ASSUME NEW r \in Refs, NEW from \in Sessions, NEW to \in Sessions,
               StartMove(t, r, from, to)
        PROVE OpsSound'
    <2> DEFINE i == [Idle EXCEPT !.kind = "move", !.stripped = r \in chans[from]]
    <2>1. i \in Op /\ i.kind = "move"
      <3>1. (r \in chans[from]) \in BOOLEAN
        OBVIOUS
      <3>2. QED
        BY <3>1 DEF Idle, Op, Looping
    <2> HIDE DEF i
    <2>2. to \in members
      BY <1>3 DEF StartMove
    <2>3. Sound(Toward(i, r, to), members)
      BY <1>0, <2>1, <2>2, TowardSound
    <2>4. QED
      BY <1>3, <2>3, GoSound DEF StartMove, i
  <1>4. ASSUME NEW r \in Refs, Remove(t, r) PROVE OpsSound'
    BY <1>4, IdleSound, GoSound DEF Remove
  <1>5. ASSUME NEW s \in Sessions, NEW kind \in {"migrate", "drop"}, StartMigrate(t, s, kind)
        PROVE OpsSound'
    <2> DEFINE o == [Idle EXCEPT !.kind = kind, !.src = s,
                     !.at = IF kind = "drop" /\ chans[s] = {} THEN "stop" ELSE "lock"]
    <2>1. o \in Op
      BY DEF Idle, Op, Looping
    <2>2. Sound(o, members)
      BY <2>1 DEF Sound, Shape, Located, Idle
    <2>3. QED
      BY <1>5, <2>2, GoSound DEF StartMigrate
  <1>6. CASE StartRetry(t)
    <2> DEFINE o == [Idle EXCEPT !.kind = "retry", !.at = "lock"]
    <2>1. o \in Op
      BY DEF Idle, Op, Looping
    <2>2. Sound(o, members)
      BY <2>1 DEF Sound, Shape, Located, Idle
    <2>3. QED
      BY <1>6, <2>2, GoSound DEF StartRetry
  <1>7. CASE StartRebalance(t)
    <2> DEFINE o == [Idle EXCEPT !.kind = "rebalance", !.at = "lock",
                                 !.todo = Overloaded, !.kept = Underloaded]
    <2>0. Overloaded \subseteq members /\ Underloaded \subseteq members
      BY DEF Overloaded, Underloaded
    <2>1. o \in Op
      BY <1>0, <2>0 DEF Idle, Op, Looping
    <2>2. Sound(o, members)
      BY <1>0, <2>0, <2>1 DEF Sound, Shape, Located, Idle
    <2>3. QED
      BY <1>7, <2>2, GoSound DEF StartRebalance
  <1>8. QED
    BY <1>1, <1>2, <1>3, <1>4, <1>5, <1>6, <1>7

LEMMA LoopsSound ==
    ASSUME TypeInv, NEW t \in Tasks, UNCHANGED members,
           \/ Acquire(t)
           \/ \E r \in Refs : AddNext(t, r) \/ MigrateNext(t, r) \/ RetryNext(t, r)
           \/ \E s \in Sessions : RebalanceNext(t, s)
    PROVE  OpsSound'
  <1> USE DEF TypeInv
  <1>0. members \in SUBSET Sessions /\ pending \in SUBSET Refs /\ chans \in [Sessions -> SUBSET Refs]
    BY DEF MemoryOK
  <1>a. Sound(op[t], members) /\ op[t] \in Op
    BY DEF OpsSound, Sound
  <1>1. CASE Acquire(t)
    <2> DEFINE T == CASE op[t].kind = "retry" -> pending
                      [] op[t].kind = "rebalance" -> op[t].todo
                      [] OTHER -> IF op[t].src \in members THEN chans[op[t].src] ELSE {}
               o == [op[t] EXCEPT !.at = "loop", !.todo = T]
    <2>1. T \in SUBSET (Refs \cup Sessions) /\ (op[t].kind = "rebalance" => T = op[t].todo)
      BY <1>0, <1>a DEF Op
    <2> HIDE DEF T
    <2>2. o \in Op /\ o.at = "loop" /\ o.todo = T /\ o.kind = op[t].kind /\ o.kept = op[t].kept
          /\ o.gone = op[t].gone /\ o.stripped = op[t].stripped
      BY <1>a, <2>1 DEF Op
    <2>3. op[t].stripped = FALSE
      BY <1>1, <1>a DEF Acquire, Sound, Shape, Op
    <2>4. Sound(o, members)
      BY <1>a, <2>1, <2>2, <2>3 DEF Sound, Shape, Located
    <2>5. QED
      BY <1>1, <2>4, GoSound DEF Acquire, T
  <1>2. ASSUME NEW x, op[t].at = "loop"
        PROVE  /\ Sound([op[t] EXCEPT !.todo = @ \ {x}], members)
               /\ [op[t] EXCEPT !.todo = @ \ {x}] \in Op
               /\ [op[t] EXCEPT !.todo = @ \ {x}].kind = op[t].kind
               /\ [op[t] EXCEPT !.todo = @ \ {x}].kept = op[t].kept
               /\ [op[t] EXCEPT !.todo = @ \ {x}].gone = op[t].gone
               /\ [op[t] EXCEPT !.todo = @ \ {x}].src = op[t].src
               /\ [op[t] EXCEPT !.todo = @ \ {x}].stripped = FALSE
    <2> DEFINE o == [op[t] EXCEPT !.todo = @ \ {x}]
    <2>1. /\ o \in Op /\ o.kind = op[t].kind /\ o.kept = op[t].kept /\ o.at = op[t].at
          /\ o.stripped = op[t].stripped /\ o.gone = op[t].gone /\ o.src = op[t].src
          /\ o.todo = op[t].todo \ {x} /\ o.ref = op[t].ref /\ o.dst = op[t].dst
      BY <1>a DEF Op
    <2>2. o.stripped = FALSE
      BY <1>2, <1>a, <2>1 DEF Sound, Shape, Op
    <2> HIDE DEF o
    <2>3. Sound(o, members)
      BY <1>a, <1>2, <2>1, <2>2 DEF Sound, Shape, Located
    <2>4. QED
      BY <2>1, <2>2, <2>3 DEF o
  <1>3. ASSUME NEW r \in Refs, AddNext(t, r) PROVE OpsSound'
    <2> DEFINE o == [op[t] EXCEPT !.todo = @ \ {r}]
    <2>1. Sound(o, members) /\ o \in Op /\ o.kind = "add" /\ o.stripped = FALSE
      BY <1>2, <1>3 DEF AddNext
    <2>2. ASSUME NEW s \in members
          PROVE  Sound(Toward(o, r, s), members) /\ Sound([Toward(o, r, s) EXCEPT !.src = s], members)
      BY <1>0, <2>1, TowardSound
    <2>3. Owners(r) \subseteq members /\ Targets({}) \subseteq members
      BY DEF Owners, Targets, Listeners
    <2>4. \/ Go(t, o)
          \/ \E s \in members : Go(t, Toward(o, r, s)) \/ Go(t, [Toward(o, r, s) EXCEPT !.src = s])
      BY <1>3, <2>3 DEF AddNext
    <2>5. QED
      BY <2>1, <2>2, <2>4, GoSound
  <1>4. ASSUME NEW r \in Refs, MigrateNext(t, r) PROVE OpsSound'
    <2> DEFINE o == [op[t] EXCEPT !.todo = @ \ {r}]
    <2>1. Sound(o, members) /\ o \in Op /\ o.kind \in {"migrate", "drop"} /\ o.stripped = FALSE
          /\ o.src = op[t].src
      BY <1>2, <1>4 DEF MigrateNext
    <2>2. ASSUME NEW s \in members PROVE Sound([Toward(o, r, s) EXCEPT !.stripped = TRUE], members)
      BY <1>0, <2>1, TowardSound
    <2>3. Targets({o.src}) \subseteq members
      BY DEF Targets
    <2>4. \/ Go(t, o)
          \/ \E s \in members : Go(t, [Toward(o, r, s) EXCEPT !.stripped = TRUE])
      BY <1>4, <2>3 DEF MigrateNext
    <2>5. QED
      BY <2>1, <2>2, <2>4, GoSound
  <1>5. ASSUME NEW r \in Refs, RetryNext(t, r) PROVE OpsSound'
    <2> DEFINE o == [op[t] EXCEPT !.todo = @ \ {r}]
               k == [o EXCEPT !.kept = @ \cup {r}]
    <2>1. Sound(o, members) /\ o \in Op /\ o.kind = "retry" /\ o.stripped = FALSE
      BY <1>2, <1>5 DEF RetryNext
    <2> HIDE DEF o
    <2>2. ASSUME NEW s \in members PROVE Sound(Toward(o, r, s), members)
      <3>1. o.kept \subseteq Refs
        BY <2>1 DEF Sound, Shape
      <3>2. QED
        BY <1>0, <2>1, <3>1, TowardSound
    <2>3. Sound(k, members)
      <3>1. k \in Op
        BY <2>1 DEF Op
      <3>2. QED
        BY <2>1, <3>1 DEF Sound, Shape, Located, Op
    <2>4. Go(t, k) \/ \E s \in members : Go(t, Toward(o, r, s))
      BY <1>5 DEF RetryNext, Targets, o
    <2>5. QED
      BY <2>2, <2>3, <2>4, GoSound
  <1>6. ASSUME NEW s \in Sessions, RebalanceNext(t, s) PROVE OpsSound'
    <2> DEFINE o == [op[t] EXCEPT !.todo = @ \ {s}]
               R(r, to) == [o EXCEPT !.at = "resolve", !.ref = r, !.src = s, !.dst = to,
                                     !.stripped = TRUE]
    <2>1. Sound(o, members) /\ o \in Op /\ o.kind = "rebalance" /\ o.stripped = FALSE
          /\ o.gone = op[t].gone /\ o.kept = op[t].kept
      BY <1>2, <1>6 DEF RebalanceNext
    <2>2. s \in members \cup o.gone
      BY <1>6, <1>a, <2>1 DEF RebalanceNext, Sound, Located
    <2> HIDE DEF o
    <2>3. ASSUME NEW r \in chans[s], NEW to \in o.kept PROVE Sound(R(r, to), members)
      <3>1. r \in Refs /\ to \in Sessions
        BY <1>0, <2>1 DEF Sound, Shape
      <3>2. R(r, to) \in Op
        BY <2>1, <3>1 DEF Op
      <3>3. /\ R(r, to).at = "resolve" /\ R(r, to).ref = r /\ R(r, to).src = s /\ R(r, to).dst = to
            /\ R(r, to).kind = "rebalance" /\ R(r, to).todo = o.todo /\ R(r, to).kept = o.kept
            /\ R(r, to).gone = o.gone
        BY <2>1 DEF Op
      <3> HIDE DEF R
      <3>4. QED
        BY <2>1, <2>2, <3>1, <3>2, <3>3 DEF Sound, Shape, Located
    <2>4. Go(t, o) \/ \E r \in chans[s], to \in o.kept : Go(t, R(r, to))
      BY <1>6, Zenon DEF RebalanceNext, o
    <2>5. QED
      BY <2>1, <2>3, <2>4, GoSound
  <1>7. QED
    BY <1>1, <1>3, <1>4, <1>5, <1>6

LEMMA EndsSound ==
    ASSUME TypeInv, NEW t \in Tasks, UNCHANGED members,
           \/ Joined(t) \/ Refused(t, TRUE) \/ Refused(t, FALSE) \/ Raised(t)
           \/ LoopEnds(t) \/ Persist(t)
    PROVE  OpsSound'
  <1> USE DEF TypeInv
  <1>0. members \in SUBSET Sessions
    BY DEF MemoryOK
  <1>a. Sound(op[t], members) /\ op[t] \in Op
    BY DEF OpsSound, Sound
  <1>1. CASE Joined(t)
    BY <1>0, <1>a, <1>1, GoesOnSound, GoSound DEF Joined
  <1>2. ASSUME NEW b \in BOOLEAN, Refused(t, b) PROVE OpsSound'
    <2>0. op[t].at = "resolve" => {op[t].ref} \in SUBSET Refs
      BY <1>a DEF Sound, Shape
    <2>1. \/ Go(t, Idle)
          \/ op[t].kind = "retry" /\ Go(t, [Continue(op[t]) EXCEPT !.kept = @ \cup {op[t].ref}])
          \/ op[t].kind \in Looping /\ Go(t, Continue(op[t]))
      BY <1>2 DEF Refused
    <2>2. op[t].kind = "retry" => op[t].kind \in Looping
      BY DEF Looping
    <2>3. CASE op[t].kind = "retry" /\ Go(t, [Continue(op[t]) EXCEPT !.kept = @ \cup {op[t].ref}])
      <3>1. Sound([Continue(op[t]) EXCEPT !.kept = @ \cup {op[t].ref}], members)
        BY <1>0, <1>a, <1>2, <2>0, <2>2, <2>3, ContinueSound DEF Refused
      <3>2. QED
        BY <2>3, <3>1, GoSound
    <2>4. CASE op[t].kind \in Looping /\ Go(t, Continue(op[t]))
      BY <1>0, <1>a, <2>4, ContinueSound, GoSound
    <2>5. QED
      BY <2>1, <2>3, <2>4, IdleSound, GoSound
  <1>3. CASE Raised(t)
    <2>1. CASE op[t].kind = "rebalance"
      BY <1>0, <1>3, <1>a, <2>1, ContinueSound, GoSound DEF Raised, Looping
    <2>2. CASE op[t].kind # "rebalance"
      BY <1>3, <2>2, IdleSound, GoSound DEF Raised
    <2>3. QED
      BY <2>1, <2>2
  <1>4. CASE LoopEnds(t)
    <2> DEFINE o == [Idle EXCEPT !.kind = "drop", !.at = "stop", !.src = op[t].src]
    <2>1. o \in Op
      BY <1>a DEF Idle, Op, Looping
    <2>2. Sound(o, members)
      BY <2>1 DEF Sound, Shape, Located, Idle
    <2>3. Go(t, o) \/ Go(t, Idle)
      BY <1>4 DEF LoopEnds
    <2> HIDE DEF o
    <2>4. QED
      BY <2>2, <2>3, IdleSound, GoSound
  <1>5. CASE Persist(t)
    BY <1>5, IdleSound, GoSound DEF Persist
  <1>6. QED
    BY <1>1, <1>2, <1>3, <1>4, <1>5

\* A session that leaves is lost to the operations that hold its object.
LEMMA DropSound ==
    ASSUME TypeInv, NEW t \in Tasks, DropSession(t) PROVE OpsSound'
  <1> USE DEF TypeInv
  <1>0. members \in SUBSET Sessions
    BY DEF MemoryOK
  <1>1. CASE op[t].src \notin members
    BY <1>1, IdleSound, GoSound DEF DropSession
  <1>2. CASE op[t].src \in members
    <2> DEFINE s == op[t].src
               g(o) == [o EXCEPT !.gone = @ \cup ({s} \cap Objects(o))]
    <2>1. members' = members \ {s} /\ op' = [u \in Tasks |-> IF u = t THEN Writing ELSE g(op[u])]
      BY <1>2, Zenon DEF DropSession
    <2>2. ASSUME NEW u \in Tasks PROVE Sound(g(op[u]), members')
      <3> DEFINE o == op[u]
      <3>1. Sound(o, members) /\ o \in Op
        BY DEF OpsSound, Sound
      <3>2. g(o) \in Op
        BY <3>1 DEF Op, Objects
      <3>3. /\ g(o).at = o.at /\ g(o).kind = o.kind /\ g(o).ref = o.ref /\ g(o).src = o.src
            /\ g(o).dst = o.dst /\ g(o).todo = o.todo /\ g(o).kept = o.kept
            /\ g(o).stripped = o.stripped /\ g(o).gone = o.gone \cup ({s} \cap Objects(o))
        BY <3>1 DEF Op
      <3> HIDE DEF g
      <3>4. Shape(g(o))
        BY <3>1, <3>3 DEF Shape, Sound
      <3>5. Located(g(o), members')
        BY <1>0, <1>2, <2>1, <3>1, <3>3 DEF Shape, Sound, Located, Objects
      <3>6. QED
        BY <3>2, <3>4, <3>5 DEF Sound
    <2>3. Sound(Writing, members')
      BY IdleSound
    <2> HIDE DEF g, s
    <2>4. ASSUME NEW u \in Tasks PROVE Sound(op'[u], members') /\ op'[u] \in Op
      BY <2>1, <2>2, <2>3 DEF Sound
    <2>5. QED
      BY <2>1, <2>4 DEF OpsSound
  <1>3. QED
    BY <1>1, <1>2

-----------------------------------------------------------------------------
LEMMA OpsStaySound == ASSUME TypeInv, NEW t \in Tasks, Step(t) PROVE OpsSound'
  <1>1. CASE DropSession(t)
    BY <1>1, DropSound
  <1>2. CASE \/ \E s \in Sessions, r \in Refs : StartAddOn(t, s, r)
             \/ \E R \in (SUBSET Refs) \ {{}} : StartAdd(t, R)
             \/ \E r \in Refs, from, to \in Sessions : StartMove(t, r, from, to)
             \/ \E r \in Refs : Remove(t, r)
             \/ \E s \in Sessions, kind \in {"migrate", "drop"} : StartMigrate(t, s, kind)
             \/ StartRetry(t) \/ StartRebalance(t)
    <2>1. UNCHANGED members
      BY <1>2 DEF StartAddOn, StartAdd, StartMove, Remove, StartMigrate, StartRetry,
                  StartRebalance, memory
    <2>2. QED
      BY <1>2, <2>1, StartsSound
  <1>3. CASE \/ Acquire(t)
             \/ \E r \in Refs : AddNext(t, r) \/ MigrateNext(t, r) \/ RetryNext(t, r)
             \/ \E s \in Sessions : RebalanceNext(t, s)
    <2>1. UNCHANGED members
      BY <1>3 DEF Acquire, AddNext, MigrateNext, RetryNext, RebalanceNext, memory
    <2>2. QED
      BY <1>3, <2>1, LoopsSound
  <1>4. CASE \/ Joined(t) \/ Refused(t, TRUE) \/ Refused(t, FALSE) \/ Raised(t)
             \/ LoopEnds(t) \/ Persist(t)
    <2>1. UNCHANGED members
      BY <1>4 DEF Joined, Refused, Raised, LoopEnds, Persist, memory
    <2>2. QED
      BY <1>4, <2>1, EndsSound
  <1>5. QED
    BY <1>1, <1>2, <1>3, <1>4 DEF Step

LEMMA LockStays == ASSUME TypeInv, NEW t \in Tasks, Step(t) PROVE LockOK'
  <1>1. CASE Acquire(t)
    BY <1>1 DEF Acquire, Enters, LockOK
  <1>2. CASE Raised(t) \/ LoopEnds(t)
    <2>1. lock' = lock \/ lock' = lock \ {t}
      BY <1>2 DEF Raised, LoopEnds
    <2>2. QED
      BY <2>1 DEF TypeInv, LockOK
  <1>3. CASE UNCHANGED lock
    BY <1>3 DEF TypeInv, LockOK
  <1>4. QED
    BY <1>1, <1>2, <1>3
    DEF Step, StartAddOn, StartAdd, AddNext, StartMove, Remove, StartMigrate, StartRetry,
        StartRebalance, MigrateNext, RetryNext, RebalanceNext, Joined, Refused, DropSession,
        Persist

LEMMA PlaceTypes ==
    ASSUME MemoryOK, NEW o, NEW s \in Sessions, o.ref \in Refs, Place(o, s)
    PROVE  /\ chans' \in [Sessions -> SUBSET Refs]
           /\ assigned' \in [Refs -> Sessions \cup {NoSession}]
  BY DEF MemoryOK, Place

LEMMA MemoryStays == ASSUME TypeInv, NEW t \in Tasks, Step(t) PROVE (MemoryOK /\ SavedOK)'
  <1> USE DEF TypeInv
  <1>a. Sound(op[t], members)
    BY DEF OpsSound
  <1>b. ASSUME Save, members' \in SUBSET Sessions, chans' \in [Sessions -> SUBSET Refs],
               assigned' \in [Refs -> Sessions \cup {NoSession}], pending' \in SUBSET Refs
        PROVE  (MemoryOK /\ SavedOK)'
    BY <1>b DEF Save, MemoryOK, SavedOK
  <1>c. NoSave => unsaved' \in SUBSET Refs
    BY DEF NoSave
  <1>1. CASE UNCHANGED <<memory, saved, unsaved>>
    BY <1>1 DEF memory, MemoryOK, SavedOK
  <1>2. ASSUME NEW r \in Refs, NEW from \in Sessions, NEW to \in Sessions,
               StartMove(t, r, from, to)
        PROVE (MemoryOK /\ SavedOK)'
    <2>1. chans' \in [Sessions -> SUBSET Refs] /\ assigned' \in [Refs -> Sessions \cup {NoSession}]
      BY <1>2 DEF StartMove, MemoryOK
    <2>2. QED
      BY <1>2, <2>1 DEF StartMove, MemoryOK, SavedOK
  <1>3. ASSUME NEW r \in Refs, Remove(t, r) PROVE (MemoryOK /\ SavedOK)'
    <2>1. chans' \in [Sessions -> SUBSET Refs] /\ assigned' \in [Refs -> Sessions \cup {NoSession}]
      BY <1>3 DEF Remove, Unassigns, MemoryOK
    <2>2. QED
      BY <1>3, <2>1 DEF Remove, MemoryOK, SavedOK
  <1>4. ASSUME NEW r \in Refs, AddNext(t, r) PROVE (MemoryOK /\ SavedOK)'
    BY <1>4 DEF AddNext, Defers, MemoryOK, SavedOK
  <1>5. ASSUME NEW r \in Refs, MigrateNext(t, r) PROVE (MemoryOK /\ SavedOK)'
    <2>1. chans' \in [Sessions -> SUBSET Refs] /\ assigned' \in [Refs -> Sessions \cup {NoSession}]
      BY <1>5 DEF MigrateNext, Unassigns, MemoryOK
    <2>2. pending' \in SUBSET Refs /\ UNCHANGED <<members, saved, unsaved>>
      BY <1>5 DEF MigrateNext, Defers, MemoryOK
    <2>3. QED
      BY <2>1, <2>2 DEF MemoryOK, SavedOK
  <1>6. ASSUME NEW s \in Sessions, RebalanceNext(t, s) PROVE (MemoryOK /\ SavedOK)'
    <2>1. chans' \in [Sessions -> SUBSET Refs] /\ assigned' \in [Refs -> Sessions \cup {NoSession}]
      BY <1>6 DEF RebalanceNext, Unassigns, MemoryOK
    <2>2. UNCHANGED <<members, pending, saved, unsaved>>
      BY <1>6 DEF RebalanceNext
    <2>3. QED
      BY <2>1, <2>2 DEF MemoryOK, SavedOK
  <1>7. CASE Joined(t)
    <2>1. op[t].ref \in Refs /\ op[t].dst \in Sessions /\ Place(op[t], op[t].dst)
      BY <1>7, <1>a DEF Joined, Sound, Shape
    <2>2. QED
      BY <1>7, <2>1, PlaceTypes DEF Joined, MemoryOK, SavedOK
  <1>8. ASSUME NEW b \in BOOLEAN, Refused(t, b) PROVE (MemoryOK /\ SavedOK)'
    <2>1. op[t].ref \in Refs /\ (op[t].kind = "rebalance" => op[t].src \in Sessions)
      BY <1>8, <1>a DEF Refused, Sound, Shape
    <2>2. /\ chans' \in [Sessions -> SUBSET Refs]
          /\ assigned' \in [Refs -> Sessions \cup {NoSession}]
      <3>1. CASE op[t].kind = "rebalance"
        BY <1>8, <2>1, <3>1, PlaceTypes DEF Refused
      <3>2. CASE op[t].kind # "rebalance"
        BY <1>8, <3>2 DEF Refused, MemoryOK
      <3>3. QED
        BY <3>1, <3>2
    <2>3. pending' \in SUBSET Refs /\ UNCHANGED <<members, saved, unsaved>>
      BY <1>8, <2>1 DEF Refused, MemoryOK
    <2>4. QED
      BY <2>2, <2>3 DEF MemoryOK, SavedOK
  <1>9. CASE Raised(t)
    BY <1>9, <1>c DEF Raised, memory, MemoryOK, SavedOK
  <1>10. CASE LoopEnds(t)
    <2>1. /\ members' \in SUBSET Sessions /\ chans' \in [Sessions -> SUBSET Refs]
          /\ assigned' \in [Refs -> Sessions \cup {NoSession}]
      BY <1>10 DEF LoopEnds, MemoryOK
    <2>2. pending' \in SUBSET Refs
      BY <1>10, <1>a DEF LoopEnds, MemoryOK, Sound, Shape
    <2>3. Save \/ (UNCHANGED saved /\ NoSave) \/ UNCHANGED <<saved, unsaved>>
      <3>1. CASE op[t].kind = "rebalance" /\ ~op[t].moved
        BY <1>10, <3>1 DEF LoopEnds
      <3>2. CASE op[t].kind = "retry" /\ ~op[t].moved
        BY <1>10, <3>2 DEF LoopEnds
      <3>3. CASE /\ ~(op[t].kind = "rebalance" /\ ~op[t].moved)
                 /\ ~(op[t].kind = "retry" /\ ~op[t].moved)
        BY <1>10, <3>3 DEF LoopEnds
      <3>4. QED
        BY <3>1, <3>2, <3>3
    <2>4. QED
      BY <1>b, <1>c, <2>1, <2>2, <2>3 DEF MemoryOK, SavedOK
  <1>11. CASE DropSession(t)
    <2>1. UNCHANGED <<pending, saved, unsaved>>
      BY <1>11 DEF DropSession
    <2>2. CASE op[t].src \notin members
      BY <1>11, <2>1, <2>2 DEF DropSession, MemoryOK, SavedOK
    <2>3. CASE op[t].src \in members
      <3> DEFINE s == op[t].src
      <3>1. /\ members' = members \ {s} /\ chans' = [chans EXCEPT ![s] = {}]
            /\ assigned' = [r \in Refs |-> IF assigned[r] = s THEN NoSession ELSE assigned[r]]
        BY <1>11, <2>3, Zenon DEF DropSession
      <3>2. chans' \in [Sessions -> SUBSET Refs]
        BY <3>1 DEF MemoryOK
      <3>3. assigned' \in [Refs -> Sessions \cup {NoSession}]
        BY <3>1 DEF MemoryOK
      <3>4. QED
        BY <2>1, <3>1, <3>2, <3>3 DEF MemoryOK, SavedOK
    <2>4. QED
      BY <2>2, <2>3
  <1>12. CASE Persist(t)
    BY <1>12, <1>b DEF Persist, memory, MemoryOK
  <1>13. QED
    BY <1>1, <1>2, <1>3, <1>4, <1>5, <1>6, <1>7, <1>8, <1>9, <1>10, <1>11, <1>12
    DEF Step, StartAddOn, StartAdd, StartMigrate, StartRetry, StartRebalance, Acquire, RetryNext

LEMMA TypeStep == ASSUME TypeInv, [Next]_vars PROVE TypeInv'
  <1>1. ASSUME NEW t \in Tasks, Step(t) PROVE TypeInv'
    BY <1>1, OpsStaySound, LockStays, MemoryStays DEF TypeInv
  <1>2. ASSUME NEW s \in Sessions, AddSession(s) PROVE TypeInv'
    <2>1. members' \in SUBSET Sessions /\ members \subseteq members'
      BY <1>2 DEF AddSession, TypeInv, MemoryOK
    <2>2. (MemoryOK /\ SavedOK)'
      BY <1>2, <2>1 DEF AddSession, TypeInv, MemoryOK, SavedOK, Save
    <2>3. ASSUME NEW u \in Tasks PROVE Sound(op'[u], members')
      BY <1>2, <2>1 DEF AddSession, TypeInv, OpsSound, Sound, Located
    <2>4. QED
      BY <1>2, <2>2, <2>3 DEF AddSession, TypeInv, OpsSound, LockOK
  <1>3. CASE Restart
    <2>1. PICK first \in saved.members : Restart!(first)
      BY <1>3 DEF Restart
    <2>2. first \in Sessions /\ saved.members \in SUBSET Sessions /\ saved.list \in SUBSET Refs
          /\ saved.assigned \in [Refs -> Sessions \cup {NoSession}]
      BY DEF TypeInv, SavedOK
    <2>3. chans' \in [Sessions -> SUBSET Refs]
      BY <2>1, <2>2
    <2>4. assigned' \in [Refs -> Sessions \cup {NoSession}]
      BY <2>1, <2>2
    <2>5. (MemoryOK /\ SavedOK)'
      BY <2>1, <2>2, <2>3, <2>4 DEF TypeInv, MemoryOK, SavedOK
    <2>6. OpsSound'
      <3>1. ASSUME NEW t \in Tasks PROVE Sound(op'[t], members') /\ op'[t] \in Op
        BY <2>1, IdleSound DEF Sound
      <3>2. op' = [t \in Tasks |-> Idle]
        BY <2>1
      <3>3. QED
        BY <3>1, <3>2 DEF OpsSound
    <2>7. LockOK'
      BY <2>1 DEF LockOK
    <2>8. QED
      BY <2>5, <2>6, <2>7 DEF TypeInv
  <1>4. CASE UNCHANGED vars
    BY <1>4 DEF vars, memory, TypeInv, MemoryOK, SavedOK, LockOK, OpsSound
  <1>5. QED
    BY <1>1, <1>2, <1>3, <1>4 DEF Next

LEMMA TypeStart == Init => TypeInv
  <1> SUFFICES ASSUME Init PROVE TypeInv
    OBVIOUS
  <1> USE DEF Init
  <1>1. MemoryOK /\ SavedOK
    BY DEF MemoryOK, SavedOK
  <1>2. LockOK
    BY DEF LockOK
  <1>3. OpsSound
    BY IdleSound DEF OpsSound, Sound
  <1>4. QED
    BY <1>1, <1>2, <1>3 DEF TypeInv

LEMMA TypeFollows == TypeInv => TypeOK
  <1> SUFFICES ASSUME TypeInv PROVE TypeOK
    OBVIOUS
  <1>1. lock \subseteq Tasks /\ Cardinality(lock) <= 1
    <2>1. Cardinality({}) = 0 /\ \A t : Cardinality({t}) = 1
      BY FS_EmptySet, FS_Singleton
    <2>2. QED
      BY <2>1 DEF TypeInv, LockOK
  <1>2. QED
    BY <1>1 DEF TypeInv, TypeOK, MemoryOK, SavedOK, OpsSound

\* For every set of sessions, channels and tasks the clump keeps its type, and
\* what an operation holds across an await is a session of the clump or one it
\* knows to have left (OpsSound).
THEOREM ClumpTypeCorrect == Spec => []TypeInv /\ []TypeOK
  <1>1. Spec => []TypeInv
    BY TypeStart, TypeStep, PTL DEF Spec
  <1>2. QED
    BY <1>1, TypeFollows, PTL

-----------------------------------------------------------------------------
\* What is listened to is covered after a step that saves, or notes what it
\* does not save, or leaves an operation that will.
LEMMA SaveCovers == ASSUME Save PROVE CoverInv'
  BY DEF Save, CoverInv, Listeners

LEMMA NoSaveCovers == ASSUME NoSave, UNCHANGED <<members, chans, saved>> PROVE CoverInv'
  BY DEF NoSave, CoverInv, Listeners

LEMMA OpCovers == ASSUME NEW t \in Tasks, Covers(op'[t]) PROVE CoverInv'
  <1>1. Covers(op[t])'
    BY DEF Covers
  <1>2. QED
    BY <1>1 DEF CoverInv

\* No more is listened to, and who was to save still is.
LEMMA StillCovers ==
    ASSUME CoverInv, UNCHANGED <<saved, unsaved>>,
           \A u \in Tasks : Covers(op[u]) => Covers(op'[u]),
           \A r \in Refs : Listeners(r)' \subseteq Listeners(r)
    PROVE  CoverInv'
  <1>1. ASSUME NEW r \in Refs, Listeners(r)' # {}
        PROVE  r \in saved'.list \cup unsaved' \/ \E t \in Tasks : Covers(op'[t])
    <2>1. Listeners(r) # {}
      BY <1>1
    <2>2. QED
      BY <2>1 DEF CoverInv
  <1>2. QED
    BY <1>1 DEF CoverInv, Covers

LEMMA StillCoversGo ==
    ASSUME TypeInv, CoverInv, UNCHANGED <<saved, unsaved>>, NEW t \in Tasks, NEW o, Go(t, o),
           Covers(op[t]) => Covers(o),
           \A r \in Refs : Listeners(r)' \subseteq Listeners(r)
    PROVE  CoverInv'
  <1>1. ASSUME NEW u \in Tasks, Covers(op[u]) PROVE Covers(op'[u])
    BY <1>1 DEF TypeInv, OpsSound, Go
  <1>2. QED
    BY <1>1, StillCovers

LEMMA ListenersStay ==
    ASSUME UNCHANGED <<members, chans>> PROVE \A r \in Refs : Listeners(r)' \subseteq Listeners(r)
  BY DEF Listeners

LEMMA LoopEndsSaves ==
    ASSUME NEW t \in Tasks, LoopEnds(t)
    PROVE  \/ Save
           \/ UNCHANGED saved /\ NoSave
           \/ op[t].kind = "retry" /\ ~op[t].moved /\ UNCHANGED <<saved, unsaved>>
  <1>1. CASE op[t].kind = "rebalance" /\ ~op[t].moved
    BY <1>1 DEF LoopEnds
  <1>2. CASE op[t].kind = "retry" /\ ~op[t].moved
    BY <1>2 DEF LoopEnds
  <1>3. CASE /\ ~(op[t].kind = "rebalance" /\ ~op[t].moved)
             /\ ~(op[t].kind = "retry" /\ ~op[t].moved)
    BY <1>3 DEF LoopEnds
  <1>4. QED
    BY <1>1, <1>2, <1>3

\* Toward changes neither the kind nor what moved.
LEMMA TowardKeeps ==
    ASSUME NEW o \in Op, NEW r, NEW s, NEW n,
           \/ n = Toward(o, r, s)
           \/ n = [Toward(o, r, s) EXCEPT !.src = s]
           \/ n = [Toward(o, r, s) EXCEPT !.stripped = TRUE]
    PROVE  n.kind = o.kind /\ n.at = "resolve" /\ n.moved = o.moved
  BY DEF Toward, Op

LEMMA CoverStep == ASSUME TypeInv, CoverInv, [Next]_vars PROVE CoverInv'
  <1>a. TypeInv'
    BY TypeStep
  <1>b. \A u \in Tasks : op[u] \in Op /\ op'[u] \in Op /\ Sound(op[u], members)
    BY <1>a DEF TypeInv, OpsSound
  <1>c. ~Covers(Idle)
    BY DEF Covers, Idle
  <1>d. chans \in [Sessions -> SUBSET Refs] /\ members \in SUBSET Sessions
    BY DEF TypeInv, MemoryOK
  <1>1. ASSUME NEW t \in Tasks, Step(t) PROVE CoverInv'
    <2>1. CASE /\ op[t] = Idle /\ UNCHANGED <<saved, unsaved>> /\ \E o : Go(t, o)
               /\ \A r \in Refs : Listeners(r)' \subseteq Listeners(r)
      BY <1>c, <2>1, StillCoversGo
    <2>2. CASE \E s \in Sessions, r \in Refs : StartAddOn(t, s, r)
      BY <2>1, <2>2, ListenersStay DEF StartAddOn, memory
    <2>3. CASE \E R \in (SUBSET Refs) \ {{}} : StartAdd(t, R)
      BY <2>1, <2>3, ListenersStay DEF StartAdd, memory
    <2>4. ASSUME NEW r \in Refs, NEW from \in Sessions, NEW to \in Sessions,
                 StartMove(t, r, from, to)
          PROVE CoverInv'
      <3>1. \A q \in Refs : Listeners(q)' \subseteq Listeners(q)
        BY <1>d, <2>4 DEF StartMove, Listeners
      <3>2. QED
        BY <2>1, <2>4, <3>1 DEF StartMove
    <2>5. ASSUME NEW r \in Refs, Remove(t, r) PROVE CoverInv'
      <3>1. \A q \in Refs : Listeners(q)' \subseteq Listeners(q)
        BY <1>d, <2>5 DEF Remove, Listeners
      <3>2. QED
        BY <2>1, <2>5, <3>1 DEF Remove
    <2>6. CASE \E s \in Sessions, kind \in {"migrate", "drop"} : StartMigrate(t, s, kind)
      BY <2>1, <2>6, ListenersStay DEF StartMigrate, memory
    <2>7. CASE StartRetry(t) \/ StartRebalance(t)
      BY <2>1, <2>7, ListenersStay DEF StartRetry, StartRebalance, memory
    <2>8. CASE Acquire(t)
      <3>1. UNCHANGED <<members, chans, saved, unsaved>> /\ op[t].at = "lock"
        BY <2>8 DEF Acquire, memory
      <3>2. PICK T : Go(t, [op[t] EXCEPT !.at = "loop", !.todo = T])
        BY <2>8 DEF Acquire
      <3>3. Covers(op[t]) => Covers([op[t] EXCEPT !.at = "loop", !.todo = T])
        BY <1>b, <3>1 DEF Covers, Op
      <3>4. QED
        BY <3>1, <3>2, <3>3, StillCoversGo, ListenersStay
    <2>9. ASSUME NEW r \in Refs, AddNext(t, r) PROVE CoverInv'
      <3>1. op'[t].kind = "add" /\ op'[t].at \in {"loop", "resolve"}
        <4> DEFINE o == [op[t] EXCEPT !.todo = @ \ {r}]
        <4>1. /\ op[t].kind = "add" /\ op[t].at = "loop"
              /\ \/ Go(t, o)
                 \/ \E s : Go(t, Toward(o, r, s)) \/ Go(t, [Toward(o, r, s) EXCEPT !.src = s])
          BY <2>9 DEF AddNext
        <4>2. \/ op'[t] = o
              \/ \E s : op'[t] = Toward(o, r, s) \/ op'[t] = [Toward(o, r, s) EXCEPT !.src = s]
          <5> HIDE DEF o
          <5>1. QED
            BY <4>1 DEF Go, TypeInv, OpsSound
        <4>3. o \in Op /\ o.kind = op[t].kind /\ o.at = op[t].at
          BY <1>b DEF Op
        <4> HIDE DEF o
        <4>4. /\ op'[t] = o => op'[t].kind = "add" /\ op'[t].at \in {"loop", "resolve"}
              /\ \A s : op'[t] = Toward(o, r, s) \/ op'[t] = [Toward(o, r, s) EXCEPT !.src = s]
                       => op'[t].kind = "add" /\ op'[t].at \in {"loop", "resolve"}
          BY <4>1, <4>3, TowardKeeps
        <4>5. QED
          BY <4>2, <4>4
      <3>2. QED
        BY <3>1, OpCovers DEF Covers
    <2>10. ASSUME NEW r \in Refs, MigrateNext(t, r) PROVE CoverInv'
      <3>1. op'[t].kind \in {"migrate", "drop"} /\ op'[t].at \in {"loop", "resolve"}
        <4> DEFINE o == [op[t] EXCEPT !.todo = @ \ {r}]
        <4>1. /\ op[t].kind \in {"migrate", "drop"} /\ op[t].at = "loop"
              /\ Go(t, o) \/ \E s : Go(t, [Toward(o, r, s) EXCEPT !.stripped = TRUE])
          BY <2>10 DEF MigrateNext
        <4>2. op'[t] = o \/ \E s : op'[t] = [Toward(o, r, s) EXCEPT !.stripped = TRUE]
          <5> HIDE DEF o
          <5>1. QED
            BY <4>1 DEF Go, TypeInv, OpsSound
        <4>3. o \in Op /\ o.kind = op[t].kind /\ o.at = op[t].at
          BY <1>b DEF Op
        <4> HIDE DEF o
        <4>4. /\ op'[t] = o => op'[t].kind \in {"migrate", "drop"} /\ op'[t].at \in {"loop", "resolve"}
              /\ \A s : op'[t] = Toward(o, r, s) \/ op'[t] = [Toward(o, r, s) EXCEPT !.stripped = TRUE]
                       => op'[t].kind \in {"migrate", "drop"} /\ op'[t].at \in {"loop", "resolve"}
          BY <4>1, <4>3, TowardKeeps
        <4>5. QED
          BY <4>2, <4>4
      <3>2. QED
        BY <3>1, OpCovers DEF Covers
    <2>11. ASSUME NEW r \in Refs, RetryNext(t, r) PROVE CoverInv'
      <3>1. op[t].kind = "retry" /\ op[t].at = "loop" /\ op'[t].kind = op[t].kind
            /\ op'[t].moved = op[t].moved
        <4> DEFINE o == [op[t] EXCEPT !.todo = @ \ {r}]
        <4>1. /\ op[t].kind = "retry" /\ op[t].at = "loop"
              /\ Go(t, [o EXCEPT !.kept = @ \cup {r}]) \/ \E s : Go(t, Toward(o, r, s))
          BY <2>11 DEF RetryNext
        <4>2. op'[t] = [o EXCEPT !.kept = @ \cup {r}] \/ \E s : op'[t] = Toward(o, r, s)
          <5> HIDE DEF o
          <5>1. QED
            BY <4>1 DEF Go, TypeInv, OpsSound
        <4>3. [o EXCEPT !.kept = @ \cup {r}].kind = op[t].kind
              /\ [o EXCEPT !.kept = @ \cup {r}].moved = op[t].moved
          BY <1>b DEF Op
        <4>4. o \in Op /\ o.kind = op[t].kind /\ o.moved = op[t].moved
          BY <1>b DEF Op
        <4> HIDE DEF o
        <4>5. \A s : op'[t] = Toward(o, r, s)
                        => op'[t].kind = op[t].kind /\ op'[t].moved = op[t].moved
          BY <4>4, TowardKeeps
        <4>6. QED
          BY <4>1, <4>2, <4>3, <4>5
      <3>2. Covers(op[t]) => Covers(op'[t])
        BY <3>1 DEF Covers
      <3>3. \A u \in Tasks : Covers(op[u]) => Covers(op'[u])
        BY <2>11, <3>2 DEF RetryNext, Go, TypeInv, OpsSound
      <3>4. QED
        BY <2>11, <3>3, StillCovers, ListenersStay DEF RetryNext, memory
    <2>12. ASSUME NEW s \in Sessions, RebalanceNext(t, s) PROVE CoverInv'
      <3>1. op'[t].kind = "rebalance" /\ op'[t].at \in {"loop", "resolve"}
        <4> DEFINE o == [op[t] EXCEPT !.todo = @ \ {s}]
                   R(r, to) == [o EXCEPT !.at = "resolve", !.ref = r, !.src = s, !.dst = to,
                                         !.stripped = TRUE]
        <4>1. /\ op[t].kind = "rebalance" /\ op[t].at = "loop"
              /\ Go(t, o) \/ \E r, to : Go(t, R(r, to))
          BY <2>12, Zenon DEF RebalanceNext
        <4>2. op'[t] = o \/ \E r, to : op'[t] = R(r, to)
          <5> HIDE DEF o, R
          <5>1. QED
            BY <4>1 DEF Go, TypeInv, OpsSound
        <4>3. o.kind = op[t].kind /\ o.at = op[t].at
              /\ \A r, to : R(r, to).kind = op[t].kind /\ R(r, to).at = "resolve"
          BY <1>b DEF Op
        <4> HIDE DEF o, R
        <4>4. QED
          BY <4>1, <4>2, <4>3
      <3>2. QED
        BY <3>1, OpCovers DEF Covers
    <2>13. CASE Joined(t)
      <3>1. Covers(GoesOn(op[t]))
        BY <1>b, <1>d, GoesOnSound
      <3>2. op'[t] = GoesOn(op[t])
        BY <2>13 DEF Joined, Go, TypeInv, OpsSound
      <3>3. QED
        BY <3>1, <3>2, OpCovers
    <2>14. ASSUME NEW b \in BOOLEAN, Refused(t, b) PROVE CoverInv'
      <3>0. op[t].at = "resolve" /\ UNCHANGED <<members, saved, unsaved>>
        BY <2>14 DEF Refused
      <3>1. CASE op[t].kind \in {"add", "migrate", "drop", "rebalance"}
        <4>1. op'[t] = Continue(op[t])
          BY <2>14, <3>1 DEF Refused, Go, TypeInv, OpsSound, Looping
        <4>2. op'[t].kind = op[t].kind /\ op'[t].at = "loop"
          BY <1>b, <4>1 DEF Continue, Op
        <4>3. QED
          BY <3>1, <4>2, OpCovers DEF Covers
      <3>2. CASE op[t].kind = "retry"
        <4>1. op' = [op EXCEPT ![t] = [Continue(op[t]) EXCEPT !.kept = @ \cup {op[t].ref}]]
          BY <2>14, <3>2 DEF Refused, Go, Looping
        <4>2. op'[t].kind = op[t].kind /\ op'[t].moved = op[t].moved
          BY <1>b, <4>1 DEF Continue, Op, TypeInv, OpsSound
        <4>3. \A u \in Tasks : Covers(op[u]) => Covers(op'[u])
          BY <3>0, <3>2, <4>1, <4>2 DEF TypeInv, OpsSound, Covers
        <4>4. QED
          BY <2>14, <3>0, <3>2, <4>3, StillCovers, ListenersStay DEF Refused
      <3>3. CASE op[t].kind \notin {"add", "migrate", "drop", "rebalance", "retry"}
        <4>1. ~Covers(op[t])
          BY <3>0, <3>3 DEF Covers
        <4>2. Go(t, Idle) /\ UNCHANGED <<chans, assigned>>
          BY <2>14, <3>3 DEF Refused, Looping
        <4>3. QED
          BY <3>0, <4>1, <4>2, StillCoversGo, ListenersStay
      <3>4. QED
        BY <3>1, <3>2, <3>3
    <2>15. CASE Raised(t)
      <3>1. CASE op[t].kind = "rebalance"
        <4>1. op'[t] = Continue(op[t])
          BY <2>15, <3>1 DEF Raised, Go, TypeInv, OpsSound
        <4>2. op'[t].kind = op[t].kind /\ op'[t].at = "loop"
          BY <1>b, <4>1 DEF Continue, Op
        <4>3. QED
          BY <3>1, <4>2, OpCovers DEF Covers
      <3>2. CASE op[t].kind # "rebalance"
        BY <2>15, <3>2, NoSaveCovers DEF Raised, memory
      <3>3. QED
        BY <3>1, <3>2
    <2>16. CASE LoopEnds(t)
      <3>1. UNCHANGED <<members, chans>> /\ op[t].at = "loop" /\ \E o : Go(t, o)
        BY <2>16 DEF LoopEnds
      <3>2. op[t].kind = "retry" /\ ~op[t].moved => ~Covers(op[t])
        BY <3>1 DEF Covers
      <3>3. QED
        BY <2>16, <3>1, <3>2, LoopEndsSaves, SaveCovers, NoSaveCovers, StillCoversGo, ListenersStay
    <2>17. CASE DropSession(t)
      <3>1. ~Covers(op[t]) /\ UNCHANGED <<saved, unsaved>>
        <4>1. op[t].at = "stop" /\ op[t].kind = "drop" /\ UNCHANGED <<saved, unsaved>>
          BY <1>b, <2>17 DEF DropSession, Sound, Shape
        <4>2. QED
          BY <4>1 DEF Covers
      <3>2. CASE op[t].src \notin members
        BY <2>17, <3>1, <3>2, StillCoversGo, ListenersStay DEF DropSession
      <3>3. CASE op[t].src \in members
        <4>1. op'[t] = Writing
          BY <2>17, <3>3 DEF DropSession
        <4>2. QED
          BY <4>1, OpCovers DEF Covers, Writing, Idle
      <3>4. QED
        BY <3>2, <3>3
    <2>18. CASE Persist(t)
      BY <2>18, SaveCovers DEF Persist
    <2>19. QED
      BY <1>1, <2>2, <2>3, <2>4, <2>5, <2>6, <2>7, <2>8, <2>9, <2>10, <2>11, <2>12, <2>13,
         <2>14, <2>15, <2>16, <2>17, <2>18 DEF Step
  <1>2. CASE \E s \in Sessions : AddSession(s)
    BY <1>2, SaveCovers DEF AddSession
  <1>3. CASE Restart
    <2>1. \A s \in Sessions : chans'[s] \subseteq saved.list
      BY <1>3 DEF Restart
    <2>2. members' \subseteq Sessions /\ UNCHANGED saved
      BY <1>3 DEF Restart, TypeInv, SavedOK
    <2>3. QED
      BY <2>1, <2>2 DEF CoverInv, Listeners
  <1>4. CASE UNCHANGED vars
    BY <1>4 DEF vars, memory, CoverInv, Listeners, Covers
  <1>5. QED
    BY <1>1, <1>2, <1>3, <1>4 DEF Next

\* For every number of operations under way, what is listened to is in
\* parser_jobs.json, noted as unsaved, or in a clump an operation will save.
THEOREM WhatIsHeardIsSaved == Spec => []SavedAtRest
  <1>1. Init => CoverInv
    BY DEF Init, CoverInv, Listeners
  <1>2. Spec => []CoverInv
    BY <1>1, TypeStart, TypeStep, CoverStep, PTL DEF Spec
  <1>3. CoverInv => SavedAtRest
    BY DEF CoverInv, SavedAtRest, Covers, Idle
  <1>4. QED
    BY <1>2, <1>3, PTL

-----------------------------------------------------------------------------
\* Only the step's own task can let a channel out of its hands.
LEMMA HeldKept ==
    ASSUME TypeInv, NEW t \in Tasks, NEW o, Go(t, o), NEW q \in Refs, Held(q),
           q \in pending => Held(q)', Listeners(q) # {} => Held(q)',
           op[t].stripped /\ op[t].ref = q => Held(q)'
    PROVE  Held(q)'
  <1>1. CASE InHand(q)
    <2>1. PICK u \in Tasks : op[u].ref = q /\ op[u].stripped
      BY <1>1 DEF InHand
    <2>2. CASE u # t
      <3>1. op'[u] = op[u]
        BY <2>2 DEF Go, TypeInv, OpsSound
      <3>2. QED
        BY <2>1, <3>1 DEF Held, InHand
    <2>3. QED
      BY <2>1, <2>2
  <1>2. QED
    BY <1>1 DEF Held

LEMMA TakenInHand ==
    ASSUME TypeInv, NEW t \in Tasks, NEW o, Go(t, o), NEW q \in Refs, o.ref = q, o.stripped
    PROVE  Held(q)'
  <1>1. op'[t] = o
    BY DEF Go, TypeInv, OpsSound
  <1>2. QED
    BY <1>1 DEF Held, InHand

LEMMA StillHeard ==
    ASSUME NEW q, \A s \in members : s \in members' /\ (q \in chans[s] => q \in chans'[s])
    PROVE  Listeners(q) # {} => Held(q)'
  BY DEF Listeners, Held

\* A step that takes nothing off a session and has nothing in its hands.
LEMMA HeldAlong ==
    ASSUME TypeInv, NEW t \in Tasks, NEW o, Go(t, o), NEW q \in Refs, Held(q),
           op[t].at # "resolve", pending \subseteq pending', UNCHANGED <<members, chans>>
    PROVE  Held(q)'
  <1>1. ~(op[t].stripped /\ op[t].ref = q)
    BY DEF TypeInv, OpsSound, Sound, Shape
  <1>2. q \in pending => Held(q)'
    BY DEF Held
  <1>3. Listeners(q) # {} => Held(q)'
    BY StillHeard
  <1>4. QED
    BY <1>1, <1>2, <1>3, HeldKept

\* A step that takes r off a session, and holds it then.
LEMMA HeldStripped ==
    ASSUME TypeInv, NEW t \in Tasks, NEW o, Go(t, o), NEW q \in Refs, Held(q), NEW r \in Refs,
           op[t].at # "resolve", pending \subseteq pending', UNCHANGED members,
           \A s \in members : chans[s] \ {r} \subseteq chans'[s],
           \/ o.ref = r /\ o.stripped
           \/ r \in pending'
           \/ \A s \in members : chans[s] \subseteq chans'[s]
    PROVE  Held(q)'
  <1>1. ~(op[t].stripped /\ op[t].ref = q)
    BY DEF TypeInv, OpsSound, Sound, Shape
  <1>2. q \in pending => Held(q)'
    BY DEF Held
  <1>3. Listeners(q) # {} => Held(q)'
    <2>1. CASE q = r /\ o.ref = r /\ o.stripped
      BY <2>1, TakenInHand
    <2>2. CASE q = r /\ r \in pending'
      BY <2>2 DEF Held
    <2>3. CASE q # r \/ \A s \in members : chans[s] \subseteq chans'[s]
      BY <2>3, StillHeard
    <2>4. QED
      BY <2>1, <2>2, <2>3
  <1>4. QED
    BY <1>1, <1>2, <1>3, HeldKept

\* What a join or a restore places is heard, if the session is still there.
LEMMA PlacedIsHeard ==
    ASSUME TypeInv, NEW o, NEW s \in Sessions, o.ref \in Refs, Place(o, s), UNCHANGED members
    PROVE  /\ \A u \in members : chans[u] \subseteq chans'[u]
           /\ s \in members /\ s \notin o.gone => Held(o.ref)'
  <1>1. chans \in [Sessions -> SUBSET Refs] /\ members \in SUBSET Sessions
    BY DEF TypeInv, MemoryOK
  <1>2. \A u \in members : chans[u] \subseteq chans'[u]
    BY <1>1 DEF Place
  <1>3. s \notin o.gone => o.ref \in chans'[s]
    BY <1>1 DEF Place
  <1>4. QED
    BY <1>1, <1>2, <1>3 DEF Held, Listeners

LEMMA HeldStep ==
    ASSUME TypeInv, [Next]_vars, NEW q \in Refs, Held(q), ~Restart
    PROVE  Held(q)' \/ \E t \in Tasks : LetsGo(t, q)
  <1>a. chans \in [Sessions -> SUBSET Refs] /\ members \in SUBSET Sessions
    BY DEF TypeInv, MemoryOK
  <1>1. ASSUME NEW t \in Tasks, Step(t) PROVE Held(q)' \/ LetsGo(t, q)
    <2>a. Sound(op[t], members) /\ op[t] \in Op
      BY DEF TypeInv, OpsSound, Sound
    <2>b. Idle.at # "resolve"
      BY DEF Idle
    <2>1. CASE \E s \in Sessions, r \in Refs : StartAddOn(t, s, r)
      BY <2>1, <2>b, HeldAlong DEF StartAddOn, memory
    <2>2. CASE \E R \in (SUBSET Refs) \ {{}} : StartAdd(t, R)
      BY <2>2, <2>b, HeldAlong DEF StartAdd, memory
    <2>3. ASSUME NEW r \in Refs, NEW from \in Sessions, NEW to \in Sessions,
                 StartMove(t, r, from, to)
          PROVE Held(q)'
      <3> DEFINE i == [Idle EXCEPT !.kind = "move", !.stripped = r \in chans[from]]
                 o == Toward(i, r, to)
      <3>1. o.ref = r
        BY DEF Toward, Idle
      <3>2. o.stripped = (r \in chans[from])
        BY DEF Toward, Idle
      <3>3. /\ Go(t, o) /\ chans' = [chans EXCEPT ![from] = @ \ {r}] /\ op[t] = Idle
            /\ UNCHANGED <<members, pending>>
        BY <2>3 DEF StartMove
      <3> HIDE DEF o
      <3>4. \A s \in members : chans[s] \ {r} \subseteq chans'[s]
        BY <1>a, <3>3
      <3>5. CASE r \in chans[from]
        BY <2>b, <3>1, <3>2, <3>3, <3>4, <3>5, HeldStripped
      <3>6. CASE r \notin chans[from]
        <4>1. \A s \in members : chans[s] \subseteq chans'[s]
          BY <1>a, <3>3, <3>6
        <4>2. QED
          BY <2>b, <3>3, <3>4, <4>1, HeldStripped
      <3>7. QED
        BY <3>5, <3>6
    <2>4. ASSUME NEW r \in Refs, Remove(t, r) PROVE Held(q)' \/ LetsGo(t, q)
      <3>1. CASE r = q
        BY <2>4, <3>1 DEF LetsGo
      <3>2. CASE r # q
        <4>1. PICK s \in Owners(r) : chans' = [chans EXCEPT ![s] = @ \ {r}]
          BY <2>4 DEF Remove
        <4>2. \A u \in members : q \in chans[u] => q \in chans'[u]
          BY <1>a, <3>2, <4>1
        <4>3. op[t] = Idle /\ Go(t, Writing) /\ UNCHANGED <<members, pending>>
          BY <2>4 DEF Remove
        <4>4. q \in pending => Held(q)'
          BY <4>3 DEF Held
        <4>5. Listeners(q) # {} => Held(q)'
          BY <4>2, <4>3, StillHeard
        <4>6. ~op[t].stripped
          BY <4>3 DEF Idle
        <4>7. QED
          BY <4>3, <4>4, <4>5, <4>6, HeldKept
      <3>3. QED
        BY <3>1, <3>2
    <2>5. CASE \E s \in Sessions, kind \in {"migrate", "drop"} : StartMigrate(t, s, kind)
      BY <2>5, <2>b, HeldAlong DEF StartMigrate, memory
    <2>6. CASE StartRetry(t) \/ StartRebalance(t)
      BY <2>6, <2>b, HeldAlong DEF StartRetry, StartRebalance, memory
    <2>7. CASE Acquire(t)
      BY <2>7, HeldAlong DEF Acquire, memory
    <2>8. ASSUME NEW r \in Refs, AddNext(t, r) PROVE Held(q)'
      <3>1. /\ \E o : Go(t, o)
            /\ op[t].at = "loop" /\ pending \subseteq pending' /\ UNCHANGED <<members, chans>>
        BY <2>8 DEF AddNext, Defers
      <3>2. QED
        BY <3>1, HeldAlong
    <2>9. ASSUME NEW r \in Refs, MigrateNext(t, r) PROVE Held(q)'
      <3> DEFINE o == [op[t] EXCEPT !.todo = @ \ {r}]
      <3>1. /\ \/ \E s : Go(t, [Toward(o, r, s) EXCEPT !.stripped = TRUE]) /\ pending' = pending
               \/ Go(t, o) /\ pending' = pending \cup {r}
            /\ op[t].at = "loop" /\ UNCHANGED members
        BY <2>9 DEF MigrateNext, Defers
      <3>2. o \in Op
        BY <2>a DEF Op
      <3>3. \A s \in members : chans[s] \ {r} \subseteq chans'[s]
        BY <1>a, <2>9 DEF MigrateNext
      <3> HIDE DEF o
      <3>4. ASSUME NEW s PROVE /\ [Toward(o, r, s) EXCEPT !.stripped = TRUE].ref = r
                               /\ [Toward(o, r, s) EXCEPT !.stripped = TRUE].stripped
        BY <3>2 DEF Toward, Op
      <3>5. CASE Go(t, o) /\ pending' = pending \cup {r}
        BY <3>1, <3>3, <3>5, HeldStripped
      <3>6. ASSUME NEW s, Go(t, [Toward(o, r, s) EXCEPT !.stripped = TRUE]), pending' = pending
            PROVE Held(q)'
        BY <3>1, <3>3, <3>4, <3>6, HeldStripped
      <3>7. QED
        BY <3>1, <3>5, <3>6
    <2>10. ASSUME NEW r \in Refs, RetryNext(t, r) PROVE Held(q)'
      <3>1. /\ \E o : Go(t, o)
            /\ op[t].at = "loop" /\ pending \subseteq pending' /\ UNCHANGED <<members, chans>>
        BY <2>10 DEF RetryNext, memory
      <3>2. QED
        BY <3>1, HeldAlong
    <2>11. ASSUME NEW s \in Sessions, RebalanceNext(t, s) PROVE Held(q)'
      <3> DEFINE o == [op[t] EXCEPT !.todo = @ \ {s}]
                 R(r, to) == [o EXCEPT !.at = "resolve", !.ref = r, !.src = s, !.dst = to,
                                       !.stripped = TRUE]
      <3>1. /\ \/ \E r \in chans[s] : \E to :
                     Go(t, R(r, to)) /\ chans' = [chans EXCEPT ![s] = @ \ {r}]
               \/ Go(t, o) /\ UNCHANGED chans
            /\ op[t].at = "loop" /\ UNCHANGED <<members, pending>>
        BY <2>11, Zenon DEF RebalanceNext
      <3>2. \A r, to : R(r, to).ref = r /\ R(r, to).stripped
        BY <2>a DEF Op
      <3> HIDE DEF o, R
      <3>3. ASSUME NEW r \in chans[s], NEW to, Go(t, R(r, to)), chans' = [chans EXCEPT ![s] = @ \ {r}]
            PROVE Held(q)'
        <4>1. r \in Refs /\ \A u \in members : chans[u] \ {r} \subseteq chans'[u]
          BY <1>a, <3>3
        <4>2. R(r, to).ref = r /\ R(r, to).stripped
          BY <3>2
        <4>3. QED
          BY <3>1, <3>3, <4>1, <4>2, HeldStripped
      <3>4. QED
        BY <3>1, <3>3, HeldAlong
    <2>12. CASE Joined(t)
      <3>1. /\ op[t].at = "resolve" /\ op[t].ref \in Refs /\ op[t].dst \in Sessions
            /\ op[t].dst \in members \cup op[t].gone
        BY <2>12, <2>a DEF Joined, Sound, Shape, Located
      <3>2. CASE op[t].ref = q /\ op[t].gone # {}
        BY <2>12, <3>2 DEF LetsGo
      <3>3. CASE op[t].ref # q \/ op[t].gone = {}
        <4>1. Place(op[t], op[t].dst) /\ Go(t, GoesOn(op[t])) /\ UNCHANGED <<members, pending>>
          BY <2>12 DEF Joined
        <4>2. op[t].ref = q => Held(q)'
          BY <3>1, <3>3, <4>1, PlacedIsHeard
        <4>3. Listeners(q) # {} => Held(q)'
          BY <3>1, <4>1, PlacedIsHeard, StillHeard
        <4>4. q \in pending => Held(q)'
          BY <4>1 DEF Held
        <4>5. QED
          BY <4>1, <4>2, <4>3, <4>4, HeldKept
      <3>4. QED
        BY <3>2, <3>3
    <2>13. ASSUME NEW b \in BOOLEAN, Refused(t, b) PROVE Held(q)' \/ LetsGo(t, q)
      <3>1. /\ op[t].at = "resolve" /\ op[t].ref \in Refs /\ pending \subseteq pending'
            /\ \E o : Go(t, o)
            /\ UNCHANGED members
        BY <2>13, <2>a DEF Refused, Sound, Shape
      <3>2. \A s \in members : chans[s] \subseteq chans'[s]
        <4>1. CASE op[t].kind = "rebalance"
          BY <2>13, <2>a, <3>1, <4>1, PlacedIsHeard DEF Refused, Sound, Shape
        <4>2. CASE op[t].kind # "rebalance"
          BY <2>13, <4>2 DEF Refused
        <4>3. QED
          BY <4>1, <4>2
      <3>3. ASSUME op[t].stripped, op[t].ref = q PROVE Held(q)' \/ LetsGo(t, q)
        <4>0. op[t].kind \in {"move", "migrate", "drop", "rebalance"}
          BY <2>a, <3>3 DEF Sound, Shape
        <4>1. op[t].kind \in {"move", "rebalance"} => Refused(t, TRUE)
          BY <2>13 DEF Refused
        <4>2. CASE op[t].kind = "move"
          BY <3>3, <4>1, <4>2 DEF LetsGo
        <4>3. CASE op[t].kind \in {"migrate", "drop"}
          BY <2>13, <3>3, <4>3 DEF Refused, Held
        <4>4. CASE op[t].kind = "rebalance"
          <5>1. CASE op[t].gone # {}
            BY <3>3, <4>1, <4>4, <5>1 DEF LetsGo
          <5>2. CASE op[t].gone = {}
            <6>1. op[t].src \in Sessions /\ op[t].src \in members /\ Place(op[t], op[t].src)
              BY <2>13, <2>a, <3>1, <4>4, <5>2 DEF Refused, Sound, Shape, Located
            <6>2. QED
              BY <3>1, <3>3, <5>2, <6>1, PlacedIsHeard
          <5>3. QED
            BY <5>1, <5>2
        <4>5. QED
          BY <4>0, <4>2, <4>3, <4>4
      <3>4. Listeners(q) # {} => Held(q)'
        BY <3>1, <3>2, StillHeard
      <3>5. q \in pending => Held(q)'
        BY <3>1 DEF Held
      <3>6. QED
        BY <3>1, <3>3, <3>4, <3>5, HeldKept
    <2>14. CASE Raised(t)
      <3>1. CASE op[t].ref = q /\ op[t].stripped
        BY <2>14, <3>1 DEF LetsGo
      <3>2. CASE ~(op[t].ref = q /\ op[t].stripped)
        <4>1. (\E o : Go(t, o)) /\ UNCHANGED <<members, chans, pending>>
          BY <2>14 DEF Raised, memory
        <4>2. Listeners(q) # {} => Held(q)'
          BY <4>1, StillHeard
        <4>3. q \in pending => Held(q)'
          BY <4>1 DEF Held
        <4>4. QED
          BY <3>2, <4>1, <4>2, <4>3, HeldKept
      <3>3. QED
        BY <3>1, <3>2
    <2>15. CASE LoopEnds(t)
      <3>1. CASE op[t].kind = "retry"
        BY <2>15, <3>1 DEF LetsGo
      <3>2. CASE op[t].kind # "retry"
        <4>1. /\ \E o : Go(t, o)
              /\ op[t].at = "loop" /\ UNCHANGED <<members, chans, pending>>
          BY <2>15, <3>2 DEF LoopEnds
        <4>2. QED
          BY <4>1, HeldAlong
      <3>3. QED
        BY <3>1, <3>2
    <2>16. CASE DropSession(t)
      BY <2>16 DEF LetsGo, DropSession
    <2>17. CASE Persist(t)
      BY <2>17, HeldAlong DEF Persist, memory
    <2>18. QED
      BY <1>1, <2>1, <2>2, <2>3, <2>4, <2>5, <2>6, <2>7, <2>8, <2>9, <2>10, <2>11, <2>12, <2>13,
         <2>14, <2>15, <2>16, <2>17 DEF Step
  <1>2. ASSUME NEW s \in Sessions, AddSession(s) PROVE Held(q)'
    <2>1. members \subseteq members' /\ UNCHANGED <<chans, pending, op>>
      BY <1>2 DEF AddSession
    <2>2. QED
      BY <2>1 DEF Held, InHand, Listeners
  <1>3. CASE UNCHANGED vars
    BY <1>3 DEF vars, memory, Held, InHand, Listeners
  <1>4. QED
    BY <1>1, <1>2, <1>3 DEF Next

\* For any number of operations at once, no channel listened to, deferred or
\* in the hands of a move gets lost but by the steps that LetsGo names.
THEOREM ChannelsAreHeld == Spec => HeldStays
  <1>1. TypeInv /\ [Next]_vars
           => [\A r \in Refs : Held(r) /\ ~Restart => Held(r)' \/ \E t \in Tasks : LetsGo(t, r)]_vars
    BY HeldStep
  <1>2. QED
    BY <1>1, ClumpTypeCorrect, PTL DEF Spec, HeldStays

-----------------------------------------------------------------------------
\* A step that takes r off a session and out of `assignments`.
LEMMA TruthfulUnassigned ==
    ASSUME TypeInv, Truthful, NEW r \in Refs, UNCHANGED members, Unassigns(r),
           \A s \in members : chans[s] \ {r} \subseteq chans'[s]
    PROVE  Truthful'
  <1>1. assigned \in [Refs -> Sessions \cup {NoSession}]
    BY DEF TypeInv, MemoryOK
  <1>2. QED
    BY <1>1 DEF Truthful, Unassigns

LEMMA TruthfulPlaced ==
    ASSUME TypeInv, Truthful, NEW o, NEW s \in members, s \notin o.gone, o.ref \in Refs,
           Place(o, s), UNCHANGED members
    PROVE  Truthful'
  <1>1. assigned \in [Refs -> Sessions \cup {NoSession}] /\ chans \in [Sessions -> SUBSET Refs]
        /\ members \in SUBSET Sessions
    BY DEF TypeInv, MemoryOK
  <1>2. \A u \in members : chans[u] \subseteq chans'[u]
    BY <1>1 DEF Place
  <1>3. o.ref \in chans'[s]
    BY <1>1 DEF Place
  <1>4. \A q \in Refs : assigned'[q] = assigned[q] \/ (q = o.ref /\ assigned'[q] = s)
    BY <1>1 DEF Place
  <1>5. QED
    BY <1>1, <1>2, <1>3, <1>4 DEF Truthful

LEMMA TruthfulStep ==
    ASSUME TypeInv, [Next]_vars, Truthful, ~Restart
    PROVE  Truthful' \/ \E t \in Tasks : {op[t].dst, op[t].src} \cap op[t].gone # {}
  <1>a. chans \in [Sessions -> SUBSET Refs] /\ members \in SUBSET Sessions
        /\ assigned \in [Refs -> Sessions \cup {NoSession}]
    BY DEF TypeInv, MemoryOK
  <1>b. ASSUME UNCHANGED <<members, chans, assigned>> PROVE Truthful'
    BY <1>b DEF Truthful
  <1>1. ASSUME NEW t \in Tasks, Step(t)
        PROVE  Truthful' \/ {op[t].dst, op[t].src} \cap op[t].gone # {}
    <2>a. Sound(op[t], members) /\ op[t] \in Op
      BY DEF TypeInv, OpsSound, Sound
    <2>1. ASSUME NEW r \in Refs, NEW from \in Sessions, NEW to \in Sessions,
                 StartMove(t, r, from, to)
          PROVE Truthful'
      BY <1>a, <2>1 DEF StartMove, Truthful
    <2>2. ASSUME NEW r \in Refs, Remove(t, r) PROVE Truthful'
      <3>1. UNCHANGED members /\ Unassigns(r) /\ \A s \in members : chans[s] \ {r} \subseteq chans'[s]
        BY <1>a, <2>2 DEF Remove
      <3>2. QED
        BY <3>1, TruthfulUnassigned
    <2>3. ASSUME NEW r \in Refs, MigrateNext(t, r) PROVE Truthful'
      <3>1. UNCHANGED members /\ Unassigns(r) /\ \A s \in members : chans[s] \ {r} \subseteq chans'[s]
        BY <1>a, <2>3 DEF MigrateNext
      <3>2. QED
        BY <3>1, TruthfulUnassigned
    <2>4. ASSUME NEW s \in Sessions, RebalanceNext(t, s) PROVE Truthful'
      <3>1. /\ \/ \E r \in chans[s] : Unassigns(r) /\ chans' = [chans EXCEPT ![s] = @ \ {r}]
               \/ UNCHANGED <<chans, assigned>>
            /\ UNCHANGED members
        BY <2>4, Zenon DEF RebalanceNext
      <3>2. ASSUME NEW r \in chans[s], Unassigns(r), chans' = [chans EXCEPT ![s] = @ \ {r}]
            PROVE Truthful'
        <4>1. r \in Refs /\ \A u \in members : chans[u] \ {r} \subseteq chans'[u]
          BY <1>a, <3>2
        <4>2. QED
          BY <3>1, <3>2, <4>1, TruthfulUnassigned
      <3>3. QED
        BY <1>b, <3>1, <3>2
    <2>5. CASE Joined(t)
      <3>1. op[t].ref \in Refs /\ op[t].dst \in members \cup op[t].gone
        BY <2>5, <2>a DEF Joined, Sound, Shape, Located
      <3>2. CASE op[t].dst \in members /\ op[t].dst \notin op[t].gone
        BY <2>5, <3>1, <3>2, TruthfulPlaced DEF Joined
      <3>3. QED
        BY <3>1, <3>2
    <2>6. ASSUME NEW b \in BOOLEAN, Refused(t, b)
          PROVE  Truthful' \/ {op[t].dst, op[t].src} \cap op[t].gone # {}
      <3>1. CASE op[t].kind = "rebalance"
        <4>1. op[t].ref \in Refs /\ op[t].src \in members \cup op[t].gone
          BY <2>6, <2>a, <3>1 DEF Refused, Sound, Shape, Located
        <4>2. CASE op[t].src \in members /\ op[t].src \notin op[t].gone
          BY <2>6, <3>1, <4>1, <4>2, TruthfulPlaced DEF Refused
        <4>3. QED
          BY <4>1, <4>2
      <3>2. CASE op[t].kind # "rebalance"
        BY <1>b, <2>6, <3>2 DEF Refused
      <3>3. QED
        BY <3>1, <3>2
    <2>7. CASE DropSession(t)
      <3>1. CASE op[t].src \notin members
        BY <1>b, <2>7, <3>1 DEF DropSession
      <3>2. CASE op[t].src \in members
        <4> DEFINE s == op[t].src
        <4>1. /\ members' = members \ {s} /\ chans' = [chans EXCEPT ![s] = {}]
              /\ assigned' = [r \in Refs |-> IF assigned[r] = s THEN NoSession ELSE assigned[r]]
          BY <2>7, <3>2, Zenon DEF DropSession
        <4>2. QED
          BY <1>a, <4>1 DEF Truthful
      <3>3. QED
        BY <3>1, <3>2
    <2>8. QED
      BY <1>1, <1>b, <2>1, <2>2, <2>3, <2>4, <2>5, <2>6, <2>7
      DEF Step, StartAddOn, StartAdd, AddNext, StartMigrate, StartRetry, StartRebalance, Acquire,
          RetryNext, Raised, LoopEnds, Persist, memory
  <1>2. ASSUME NEW s \in Sessions, AddSession(s) PROVE Truthful'
    BY <1>2 DEF AddSession, Truthful
  <1>3. QED
    BY <1>1, <1>2, <1>b DEF Next, vars, memory

\* `assignments` stays true through every interleaving, until a join or a
\* restore lands on the object of a session that has left the clump.
THEOREM AssignmentsStayTrue == Spec => AssignmentsTruthful
  <1>1. TypeInv /\ [Next]_vars
           => [Truthful /\ ~Restart
                 => Truthful' \/ \E t \in Tasks : {op[t].dst, op[t].src} \cap op[t].gone # {}]_vars
    BY TruthfulStep
  <1>2. QED
    BY <1>1, ClumpTypeCorrect, PTL DEF Spec, AssignmentsTruthful
=============================================================================
