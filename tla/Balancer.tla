------------------------------- MODULE Balancer -------------------------------
(***************************************************************************)
(* ChannelBalancerProducer (app_balance/queue/producers/                    *)
(* channel_balancer.py): a tick classifies the accounts of the fleet,       *)
(* counts their channels, then plans moves one by one on these counts,      *)
(* which nobody else updates, while the queue carries out the moves of      *)
(* this tick and of earlier ones, accounts die and recover.                 *)
(*                                                                         *)
(* Channels are numbered in the order they were created; max() and min()    *)
(* take any of the best; the 5 % band is compared in integers.              *)
(***************************************************************************)
EXTENDS Integers, FiniteSets, FiniteSetsExt

CONSTANTS
    Movables,     \* channels, a set of numbers
    Fleetmen,     \* accounts of the fleet
    BucketLimit,  \* limit of list_channels_for_account (100)
    QueueRoom,    \* target_queue_size of move_channel
    MaxChanges    \* bound of the model: what happens beside the balancer

ASSUME BalancerAssumption ==
    /\ Movables \subseteq Int /\ IsFiniteSet(Movables) /\ IsFiniteSet(Fleetmen)
    /\ BucketLimit \in Nat /\ MaxChanges \in Nat

VARIABLES
    home,     \* [Movables -> Fleetmen]: assigned_account_id
    dead,     \* accounts banned, disabled or in error
    moves,    \* active move_channel tasks, by dedup key
    tick,     \* the tick under way or over
    changes   \* counter of what happened beside the balancer

balancerVars == <<home, dead, moves, tick, changes>>

Moves == [ch : Movables, from : Fleetmen, to : Fleetmen]
Zero == [a \in Fleetmen |-> 0]

\* left: what is left of the list of a, once it has been read; plan: history,
\* the moves the tick counted as planned; calm: history, nothing else happened.
NoTick == [at |-> "off", dead |-> {}, counts |-> Zero, total |-> 0, read |-> {},
           left |-> [a \in Fleetmen |-> {}], plan |-> {}, calm |-> TRUE, full |-> FALSE]

Owned(a) == {c \in Movables : home[c] = a}

BalancerTypeOK ==
    /\ home \in [Movables -> Fleetmen]
    /\ dead \subseteq Fleetmen /\ moves \subseteq Moves
    /\ tick.at \in {"off", "count", "plan", "over"} /\ tick.dead \subseteq Fleetmen
    /\ tick.counts \in [Fleetmen -> 0 .. Cardinality(Movables)]
    /\ tick.read \subseteq Fleetmen /\ tick.left \in [Fleetmen -> SUBSET Movables]
    /\ tick.plan \subseteq Moves /\ {tick.calm, tick.full} \subseteq BOOLEAN
    /\ changes \in 0 .. MaxChanges

BalancerInit ==
    /\ home \in [Movables -> Fleetmen]
    /\ dead \in SUBSET Fleetmen
    /\ moves = {} /\ tick = NoTick /\ changes = 0

-----------------------------------------------------------------------------
LiveAccounts == Fleetmen \ tick.dead
Over(a)  == 100 * Cardinality(LiveAccounts) * tick.counts[a] > 105 * tick.total
Under(a) == 100 * Cardinality(LiveAccounts) * tick.counts[a] < 95 * tick.total
Low == (95 * tick.total) \div (100 * Cardinality(LiveAccounts))

Heaviest(S) == {a \in S : \A b \in S : tick.counts[a] >= tick.counts[b]}
Lightest(S) == {a \in S : \A b \in S : tick.counts[a] <= tick.counts[b]}

ToDrain == {a \in tick.dead : tick.counts[a] > 0}

\* The pairs the loop may choose from; none ends the tick.
\* Bug: dead accounts are drained only as far as the 5 % band asks for.
PairsByBand == Heaviest({a \in Fleetmen : Over(a)}) \X Lightest({a \in LiveAccounts : Under(a)})
Pairs == IF ToDrain # {} THEN Heaviest(ToDrain) \X Lightest(LiveAccounts)
         ELSE Heaviest({a \in LiveAccounts : Over(a)}) \X Lightest({a \in LiveAccounts : Under(a)})

\* list_channels_for_account: the oldest ones.
FirstOf(a) == {c \in Owned(a) : Cardinality({d \in Owned(a) : d <= c}) <= BucketLimit}

\* What is left of the list of a.
Bucket(a) == IF a \in tick.read THEN tick.left[a] ELSE FirstOf(a)

\* _build_fleet: the accounts as they are now, then count_channels_by_accounts.
StartTick ==
    /\ tick.at = "off"
    /\ tick' = [NoTick EXCEPT !.at = "count", !.dead = dead]
    /\ UNCHANGED <<home, dead, moves, changes>>

CountLoads ==
    /\ tick.at = "count"
    /\ tick' = IF LiveAccounts = {} THEN [tick EXCEPT !.at = "over"]
               ELSE [tick EXCEPT !.at = "plan", !.total = Cardinality(Movables),
                                 !.counts = [a \in Fleetmen |-> Cardinality(Owned(a))]]
    /\ UNCHANGED <<home, dead, moves, changes>>

\* The counts with one more move planned.
Shifted(s, t) == [tick.counts EXCEPT ![s] = @ - 1, ![t] = @ + 1]

\* One round of the loop.  A duplicate, and a key whose last task failed with a
\* fatal code, count as planned; any key may have such a history.
PlanMove(s, t) ==
    /\ tick.at = "plan" /\ <<s, t>> \in Pairs
    /\ IF Bucket(s) = {}
       THEN /\ tick' = [tick EXCEPT !.read = @ \cup {s}, !.left[s] = {},
                                    !.counts[s] = IF s \in tick.dead THEN 0 ELSE Low]
            /\ UNCHANGED moves
       ELSE LET m == [ch |-> Min(Bucket(s)), from |-> s, to |-> t] IN
            IF Cardinality(moves) >= QueueRoom
            THEN tick' = [tick EXCEPT !.at = "over", !.full = TRUE] /\ UNCHANGED moves
            ELSE /\ tick' = [tick EXCEPT !.read = @ \cup {s}, !.left[s] = Bucket(s) \ {m.ch},
                                         !.counts = Shifted(s, t),
                                         !.plan = @ \cup {m}]
                 /\ moves' \in {moves, moves \cup {m}}
    /\ UNCHANGED <<home, dead, changes>>

PlanEnds ==
    /\ tick.at = "plan" /\ Pairs = {}
    /\ tick' = [tick EXCEPT !.at = "over"]
    /\ UNCHANGED <<home, dead, moves, changes>>

NextTick == /\ tick.at = "over" /\ tick' = NoTick
            /\ UNCHANGED <<home, dead, moves, changes>>

-----------------------------------------------------------------------------
Disturbed == /\ changes < MaxChanges /\ changes' = changes + 1
             /\ tick' = [tick EXCEPT !.calm = tick.at = "off"]

\* The queue carries a move out (Fleet), or gives it up.
MoveEnds(m) ==
    /\ m \in moves
    /\ home' \in {home, [home EXCEPT ![m.ch] = m.to]}
    /\ moves' = moves \ {m}
    /\ Disturbed
    /\ UNCHANGED dead

\* An account is banned, disabled, enabled again.
StatusChanges(a) ==
    /\ dead' = (dead \ {a}) \cup ({a} \ dead)
    /\ Disturbed
    /\ UNCHANGED <<home, moves>>

BalancerNext ==
    \/ StartTick \/ CountLoads \/ PlanEnds \/ NextTick
    \/ \E s, t \in Fleetmen : PlanMove(s, t)
    \/ \E m \in Moves : MoveEnds(m)
    \/ \E a \in Fleetmen : StatusChanges(a)

-----------------------------------------------------------------------------
\* The tick has planned to its end, with room in the queue, and neither the queue
\* nor the accounts have changed anything since it began.
Planned == tick.at = "over" /\ tick.calm /\ ~tick.full /\ LiveAccounts # {}

\* The channels of a once the plan is carried out.
After(a) == {c \in Movables : \/ home[c] = a /\ \A m \in tick.plan : m.ch # c
                              \/ \E m \in tick.plan : m.ch = c /\ m.to = a}

\* A tick moves a channel once at most, though its plan moves channels to
\* accounts from which it then takes others.
OneMovePerTick == tick.calm => \A m, n \in tick.plan : m.ch = n.ch => m = n

\* "the channels of dead accounts must go to live ones completely, whatever the
\* 5 % threshold says" (channel_balancer.py, module docstring).
DeadDrained == Planned => \A a \in tick.dead : Cardinality(Owned(a)) <= BucketLimit => After(a) = {}

\* A plan made of counts and of lists that are read late and cut short is one that
\* can be carried out.
PlanIsSound == OneMovePerTick /\ DeadDrained
=============================================================================
