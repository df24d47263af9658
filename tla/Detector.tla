------------------------------- MODULE Detector -------------------------------
(***************************************************************************)
(* The detector of recurring errors (app_balance/queue/monitoring/          *)
(* error_detector.py, error_detector_repo.py): a tick reads the pairs of    *)
(* error code and op that recur, then how often each was adjusted, then     *)
(* applies its plans one transaction at a time.  Several monitors may tick  *)
(* at once, the service and `queue_monitor --once` of a cron, and a monitor *)
(* dies of any failing query and begins anew.                              *)
(***************************************************************************)
EXTENDS Integers, FiniteSets, FiniteSetsExt

CONSTANTS
    FloodCodes,  \* _TARGET_ERROR_CODES
    PeerFlood,   \* the one of them that puts the last account in cooldown
    FloodOps,    \* resource_op_types
    StartRph,    \* their rph_limit at the beginning
    MinRph,      \* ERROR_DETECTOR_MIN_RPH
    Monitors,    \* processes that run run_detector_tick
    MaxWaves     \* bound of the model: waves of errors of a pair

ASSUME DetectorAssumption ==
    StartRph \in Nat /\ MinRph \in Nat /\ IsFiniteSet(FloodCodes)

FloodPairs == FloodCodes \X FloodOps

VARIABLES
    young,      \* [FloodPairs -> Nat]: resource_limit_adjustments in the window
    older,      \* [FloodPairs -> Nat]: those before the window, of the last 24 hours
    limitOf,    \* [FloodOps -> Nat]: rph_limit
    off,        \* ops whose is_enabled is false
    tickOf,     \* [Monitors -> the tick]
    waves,      \* history, [FloodPairs -> Nat]: adjustments, the first of each window
    outlived    \* history: pairs of which an adjustment has left the window

detectorVars == <<young, older, limitOf, off, tickOf, waves, outlived>>

\* left: pairs still to look up, then to adjust; old: the rph_limit of the rows;
\* repeated, debounced: what the tick has found of its pairs; pair: the one looked
\* up, then the one adjusted, if its last account is to be cooled.
NoDetection == [pc |-> "off", left |-> {}, rows |-> {}, old |-> [o \in FloodOps |-> 0],
                repeated |-> {}, debounced |-> {}, pair |-> {}]

DetectorInit ==
    /\ limitOf = [o \in FloodOps |-> StartRph]
    /\ young = [p \in FloodPairs |-> 0] /\ older = young /\ waves = young
    /\ off = {} /\ outlived = {}
    /\ tickOf = [m \in Monitors |-> NoDetection]

-----------------------------------------------------------------------------
Cut(limit) == Max({(limit * 7) \div 10, MinRph})
Cuts[n \in Nat] == IF n = 0 THEN StartRph ELSE Cut(Cuts[n - 1])

\* _UPDATE_RPH_SQL writes the number the plan was made with.
\* Bug: rph_limit = rph_limit * factor.
CutOfNow(m, o) == Cut(limitOf[o])
NewLimit(m, o) == Cut(tickOf[m].old[o])

\* has_adjustment_in_window.
InWindow(p) == young[p] > 0

NoneForgotten == UNCHANGED <<older, outlived>>
NothingAdjusted == UNCHANGED <<young, limitOf, off, waves>>

\* fetch_recurring_errors: any pairs may have had min_count errors in the window.
FetchRecurring(m) ==
    /\ tickOf[m].pc = "off"
    /\ \E R \in (SUBSET FloodPairs) \ {{}} :
          tickOf' = [tickOf EXCEPT ![m] = [NoDetection EXCEPT
                        !.pc = "count", !.left = R, !.rows = R, !.old = limitOf]]
    /\ NothingAdjusted /\ NoneForgotten

\* count_adjustments of a pair, over 24 hours.
CountAdjustments(m) ==
    /\ tickOf[m].pc = "count"
    /\ \E p \in tickOf[m].left :
          tickOf' = [tickOf EXCEPT ![m].pc = "window", ![m].left = @ \ {p}, ![m].pair = {p},
                                   ![m].repeated = IF young[p] + older[p] > 0
                                                   THEN @ \cup {p} ELSE @]
    /\ NothingAdjusted /\ NoneForgotten

\* has_adjustment_in_window of the same pair; after the last one, the plans.
LookInWindow(m) ==
    /\ tickOf[m].pc = "window"
    /\ LET t == tickOf[m]
           quiet == t.debounced \cup {p \in t.pair : InWindow(p)}
           plans == t.rows \ quiet
       IN tickOf' = [tickOf EXCEPT ![m] =
            IF t.left # {} THEN [t EXCEPT !.pc = "count", !.debounced = quiet, !.pair = {}]
            ELSE IF plans = {} THEN NoDetection
            ELSE [NoDetection EXCEPT !.pc = "apply", !.left = plans, !.old = t.old,
                                     !.repeated = t.repeated \cap plans]]
    /\ NothingAdjusted /\ NoneForgotten

\* apply_plan, its transaction: the op and the row of the audit.
ApplyPlan(m) ==
    /\ tickOf[m].pc = "apply" /\ tickOf[m].pair = {}
    /\ \E p \in tickOf[m].left :
          LET o == p[2] disables == p \in tickOf[m].repeated IN
          /\ off' = IF disables THEN off \cup {o} ELSE off
          /\ limitOf' = IF disables \/ Cut(tickOf[m].old[o]) = tickOf[m].old[o] THEN limitOf
                        ELSE [limitOf EXCEPT ![o] = NewLimit(m, o)]
          /\ young' = [young EXCEPT ![p] = @ + 1]
          /\ waves' = [waves EXCEPT ![p] = IF young[p] = 0 THEN @ + 1 ELSE @]
          /\ LET cools == IF p[1] = PeerFlood /\ ~disables THEN {p} ELSE {} IN
             tickOf' = [tickOf EXCEPT ![m] =
                IF cools = {} /\ @.left = {p} THEN NoDetection
                ELSE [@ EXCEPT !.left = tickOf[m].left \ {p}, !.pair = cools]]
    /\ NoneForgotten

\* After it, on other connections, set_cooldown of the account of the last error
\* (CooledDown of AccountsTable).
CoolAccount(m) ==
    /\ tickOf[m].pc = "apply" /\ tickOf[m].pair # {}
    /\ tickOf' = [tickOf EXCEPT ![m] =
          IF @.left = {} THEN NoDetection ELSE [@ EXCEPT !.pair = {}]]
    /\ NothingAdjusted /\ NoneForgotten

\* A query fails or the process is killed; the tick is not resumed.
MonitorDies(m) ==
    /\ tickOf[m].pc # "off"
    /\ tickOf' = [tickOf EXCEPT ![m] = NoDetection]
    /\ NothingAdjusted /\ NoneForgotten

\* An hour passes, a day passes.
WindowPasses ==
    /\ \E p \in FloodPairs :
          /\ young[p] > 0 /\ waves[p] < MaxWaves
          /\ young' = [young EXCEPT ![p] = 0]
          /\ older' = [older EXCEPT ![p] = @ + young[p]]
          /\ outlived' = outlived \cup {p}
    /\ UNCHANGED <<limitOf, off, tickOf, waves>>

DayPasses ==
    /\ \E p \in FloodPairs : older[p] > 0 /\ older' = [older EXCEPT ![p] = 0]
    /\ NothingAdjusted /\ UNCHANGED <<outlived, tickOf>>

DetectorNext ==
    \/ \E m \in Monitors : \/ FetchRecurring(m) \/ CountAdjustments(m) \/ LookInWindow(m)
                           \/ ApplyPlan(m) \/ CoolAccount(m) \/ MonitorDies(m)
    \/ WindowPasses \/ DayPasses

-----------------------------------------------------------------------------
DetectorTypeOK ==
    /\ outlived \subseteq FloodPairs
    /\ {young, older, waves} \subseteq [FloodPairs -> Nat]
    /\ limitOf \in [FloodOps -> Nat] /\ off \subseteq FloodOps
    /\ \A m \in Monitors :
          LET t == tickOf[m] IN
          /\ t.pc \in {"off", "count", "window", "apply"} /\ t.old \in [FloodOps -> Nat]
          /\ UNION {t.left, t.rows, t.repeated, t.debounced, t.pair} \subseteq FloodPairs

\* An op is switched off only by a second wave of an error, one window after an
\* adjustment for it at least, also when two monitors tick at once or one dies
\* between its transactions.
OffAfterSecondWave == \A o \in off : \E p \in outlived : p[2] = o

\* Monitors that act on the same wave cut a limit once: it is never lower than the
\* waves of its errors account for.
OneCutPerWave ==
    \A o \in FloodOps :
       limitOf[o] >= Cuts[MapThenSumSet(LAMBDA c : waves[<<c, o>>], FloodCodes)]

\* However many monitors tick at once, a wave of errors counts as one: the first
\* cuts the limit once, and only a later one switches the op off.
EachWaveCounts == OffAfterSecondWave /\ OneCutPerWave
=============================================================================
