----------------------------- MODULE MCServices -----------------------------
(***************************************************************************)
(* The services around the queue in one instance.  They share no variable,  *)
(* so a behaviour of all of them is any interleaving of one behaviour of    *)
(* each, and a property of one service depends on its own steps only:       *)
(* `focus` picks the service that moves, the others stay in one of their    *)
(* initial states.  The services use the same model values x1 .. y2 for      *)
(* what is symmetric in each of them, which keeps the symmetry group small. *)
(*                                                                         *)
(* Producers: k1 is a parser_add_channel key of the channel u1, u1, y1 and  *)
(* y2 are collect_extra_data keys of three channels.  Pipeline: a1 follows  *)
(* the channel, a2 does not.  Fleet: x1 and x2 are accounts of the clump p, *)
(* l3 is one of the clump q.  Resources: a1 and a2 are the ops, a1 one that   *)
(* only collect tasks use.                                                  *)
(***************************************************************************)
EXTENDS Producers, Pipeline, Fleet, Balancer, Health, Resources, TLC

CONSTANTS k1, u1, a1, a2, ch1, l3, p, q, f3, x1, x2, y1, y2

VARIABLE focus

ChannelsOfKeys == [k \in Keys |-> IF k = k1 THEN u1 ELSE k]
AllCalls == SUBSET (Keys \ Capped)
TaskBounds == [k \in Keys |-> IF k \in Capped THEN 1 ELSE 2]
CollectOps == <<"get_entity", "join", "get_full", "iter_messages",
                "get_participants", "leave">>
UnitsOfOps == [k \in Kinds |-> [o \in UsageOps |-> IF o = a1 \/ k = "collect" THEN 1 ELSE 2]]
MostOfOps == [o \in UsageOps |-> IF o = a1 THEN 1 ELSE 2]
UsageOpsOf == [k \in Kinds |-> IF k = "collect" THEN {a1, a2} ELSE {a2}]
ThresholdsOf == [k \in Kinds |-> IF k = "add" THEN 0 ELSE 20]
RphOfOps == [o \in UsageOps |-> IF o = a1 THEN 4 ELSE 6]
ClumpsOf == [a \in FleetAccounts |-> IF a = l3 THEN q ELSE p]

ServicesInit ==
    /\ ProducersInit /\ Init /\ FleetInit /\ BalancerInit /\ HealthInit /\ ResourcesInit
    /\ focus \in {"producers", "pipeline", "fleet", "balancer", "health", "resources"}
    /\ focus # "pipeline" => row.acc = None
    /\ focus # "balancer" => dead = {} /\ \A c \in Movables : home[c] = f3

\* Only the service in focus moves.
Stays(service, v) == IF focus = service THEN TRUE ELSE UNCHANGED v
OthersStay ==
    /\ Stays("producers", producersVars)
    /\ Stays("pipeline", vars)
    /\ Stays("fleet", fleetVars)
    /\ Stays("balancer", balancerVars)
    /\ Stays("health", healthVars)
    /\ Stays("resources", resourceVars)
    /\ UNCHANGED focus

ServicesNext ==
    /\ \/ focus = "producers" /\ ProducersNext
       \/ focus = "pipeline" /\ Next
       \/ focus = "fleet" /\ FleetNext
       \/ focus = "balancer" /\ BalancerNext
       \/ focus = "health" /\ HealthNext
       \/ focus = "resources" /\ ResourcesNext
    /\ OthersStay

ServicesSpec ==
    ServicesInit /\ [][ServicesNext]_<<focus, producersVars, vars, fleetVars, balancerVars,
                                       healthVars, resourceVars>>

\* Every variable of every service is of its type.
ServicesTypeOK == /\ ProducersTypeOK /\ TypeOK /\ FleetTypeOK /\ BalancerTypeOK
                  /\ HealthTypeOK /\ ResourcesTypeOK

\* Bounds.  Producers: three tasks in all, one of them finished, and not both calls
\* over.  Health: of the four tasks and the resync two are busy at a time, and one
\* once two things have happened from outside.  Fleet: up to the first incident.
\* Resources: the error detector turns to one of the ops.
TasksSoFar == UNION {{k} \X DOMAIN rows[k] : k \in Keys}
Finished == {t \in TasksSoFar : rows[t[1]][t[2]] \notin ActiveStatuses}
CallsRemain == \E r \in Requests : req[r].pc # "idle" \/ req[r].out = Unasked
BusyWithSession ==
    Cardinality({t \in Workings : doing[t] # Rest}) + (IF resync = NoResync THEN 0 ELSE 1)
Adjusted == {o \in UsageOps : rph[o] # RphOf[o]} \cup disabledOps
ServicesBound ==
    /\ Cardinality(TasksSoFar) <= 3 /\ Cardinality(Finished) <= 1 /\ CallsRemain
    /\ BusyWithSession <= 2 /\ BusyWithSession + happened <= 3
    /\ incident # Channels
    /\ Cardinality(Adjusted) <= 1

ServicesSymmetry == Permutations({x1, x2}) \cup Permutations({y1, y2})
=============================================================================
