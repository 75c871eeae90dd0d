------------------------------- MODULE Scoring -------------------------------
(***************************************************************************)
(* From the items to the ranking, for all stocks of one run: the gate and  *)
(* the load of nodes.py with gate_counts, aux_counts and load_snapshot of  *)
(* scoring/sources/upstream.py, gate_bars, gate_aux and publish_decision   *)
(* of scoring/checks.py, classify of scoring/domain/universe.py, aggregate *)
(* of scoring/domain/aggregate.py, compute_scores and validate of          *)
(* scoring/compute.py.                                                     *)
(*                                                                         *)
(* The collector keeps writing to the tables: what the gate counted may be *)
(* gone when the bars are loaded.  How the items come to their states is   *)
(* the matter of the axes' modules; here, any of Outcomes that the loaded  *)
(* bar allows.  Shares are in percent.                                     *)
(***************************************************************************)
EXTENDS Parts

CONSTANTS
    Listing,           \* stock -> [market, kind, sector]: ksc_tickers
    MARKETS,
    SpecialSectors,    \* special_sectors, REITs among them
    Model,             \* item -> [axis, max], of the profile
    TechItems,         \* the items of the technical axis
    BarItems,          \* those of other axes that need the close of the day
    EquityItems,       \* adverse only without equity: capital_impairment
    Outcomes,          \* item -> Part, as the axes may give them for a stock with a bar
    ProducesTotal,     \* does the profile have a total?
    Experimental, GradeCuts,
    CoverageTotalMin, CoverageAxisMin,
    D_COVERAGE_MIN, AUX_COVERAGE_MIN,
    AuxCounts,         \* rows of an auxiliary table on the day
    DriftReports       \* what the collector may say of drift: [failed, drifted]

Listed == DOMAIN Listing
ModelItems == DOMAIN Model
Axes == {Model[i].axis : i \in ModelItems}
OfAxis(axis) == {i \in ModelItems : Model[i].axis = axis}

ASSUME ScoringAssumption ==
    /\ IsFiniteSet(Listed) /\ Cardinality(MARKETS) = 2
    /\ \A s \in Listed : Listing[s].kind \in {"ordinary", "spac", "preferred"}
    /\ Outcomes \subseteq [ModelItems -> PartType]
    /\ IsFiniteSet(ModelItems) /\ \A i \in ModelItems : Model[i].max \in Nat \ {0}
    /\ TechItems \cup BarItems \cup EquityItems \subseteq ModelItems
    /\ {CoverageTotalMin, CoverageAxisMin, D_COVERAGE_MIN, AUX_COVERAGE_MIN} \subseteq 0..100
    /\ AuxCounts \subseteq Nat
    /\ DriftReports \subseteq [failed : BOOLEAN, drifted : SUBSET Listed]

VARIABLES
    scoringPc,         \* "gate", "load", "compute", "validate" or "end"
    dayBar,            \* stock -> bar of T in ksc_bars: "none", "halted" (v = 0) or "traded"
    drift,             \* ksc_meta.drift: [failed, drifted]
    decision,          \* publish_decision
    snapBar,           \* the bars loaded
    held,              \* the stocks held back for drift
    itemParts,         \* stock -> item -> Part
    outcome            \* "none", "waiting_upstream", "published", "published_degraded", "failed"

scoringVars == <<scoringPc, dayBar, drift, decision, snapBar, held, itemParts, outcome>>

-----------------------------------------------------------------------------
(* The gate.                                                               *)

OfMarket(market) == {s \in Listed : Listing[s].market = market}

BarsOk(market) ==
    LET expected == OfMarket(market)
        stored == {s \in expected : dayBar[s] # "none"}
    IN  /\ expected # {}
        /\ 100 * Cardinality(stored) >= D_COVERAGE_MIN * Cardinality(expected)

\* Rows of other days' stocks count too: only their number is compared.
AuxOk(count) == Listed # {} /\ 100 * count >= AUX_COVERAGE_MIN * Cardinality(Listed)

PublishDecision(bars_ok, aux_ok) ==
    IF ~bars_ok THEN "wait" ELSE IF aux_ok THEN "publish" ELSE "publish_degraded"

-----------------------------------------------------------------------------
(* One stock: classification, aggregation.                                 *)

ExcludedReason(s) == IF Listing[s].kind \in {"spac", "preferred"} THEN Listing[s].kind ELSE "none"

Classification(s) ==
    (IF Listing[s].sector \in SpecialSectors THEN {"special_sector"} ELSE {})
        \cup (IF Listing[s].market \in MARKETS THEN {} ELSE {"classification_unknown"})

\* Faulty: any bar will do.
RisksOf_AnyBar(s) ==
    (IF snapBar[s] = "none" THEN {"no_bar_on_t"} ELSE {})
        \cup (IF s \in held THEN {"price_drift"} ELSE {})

RisksOf(s) ==
    (IF snapBar[s] = "none" THEN {"no_bar_on_t"}
     ELSE IF snapBar[s] = "halted" THEN {"suspected_suspension"} ELSE {})
        \cup (IF s \in held THEN {"price_drift"} ELSE {})

Impairment(parts) ==
    IF \E i \in EquityItems : parts[i].state = "adverse_defined" THEN {"capital_impairment"} ELSE {}

Available(parts) == {i \in ModelItems : parts[i].state \in AVAILABLE}
MaxOf(items) == SumFunctionOnSet([i \in ModelItems |-> Model[i].max], items)
PointsOf(parts, items) == SumFunctionOnSet([i \in ModelItems |-> parts[i].points], items)

Complete(parts) == MaxOf(Available(parts)) = MaxOf(ModelItems)

\* At least `least` percent of the points of the items are available.
Covered(parts, items, least) ==
    100 * MaxOf(Available(parts) \cap items) >= least * MaxOf(items)

\* Faulty: an axis of which nothing is known is left out.
ProvisionalOk_Seen(parts) ==
    /\ Covered(parts, ModelItems, CoverageTotalMin)
    /\ \A axis \in Axes : Available(parts) \cap OfAxis(axis) # {} =>
          Covered(parts, OfAxis(axis), CoverageAxisMin)

ProvisionalOk(parts) ==
    /\ Covered(parts, ModelItems, CoverageTotalMin)
    /\ \A axis \in Axes : Covered(parts, OfAxis(axis), CoverageAxisMin)

StatusOf(s, parts) ==
    IF ExcludedReason(s) # "none" THEN "excluded"
    ELSE IF Complete(parts) THEN "scored"
    ELSE IF ProvisionalOk(parts) THEN "provisional" ELSE "insufficient_data"

RowOf(s, parts) ==
    LET status == StatusOf(s, parts)
        raw == PointsOf(parts, Available(parts))
        risk_flags == RisksOf(s) \cup Impairment(parts)
        total == status = "scored" /\ ProducesTotal
    IN  [status |-> status,
         raw_total |-> IF Available(parts) = {} THEN {} ELSE {raw},
         total |-> IF total THEN {raw} ELSE {},
         has_estimate |-> /\ status # "scored"
                          /\ \A axis \in Axes : Available(parts) \cap OfAxis(axis) # {},
         grade |-> IF ~total \/ Experimental THEN "none"
                   ELSE LET met == {g \in DOMAIN GradeCuts : raw >= GradeCuts[g]}
                        IN  IF met = {} THEN "D" ELSE <<"A", "B", "C">>[Min(met)],
         risk_flags |-> risk_flags,
         rank_eligible |-> /\ status = "scored" /\ risk_flags = {}
                           /\ Classification(s) = {}]

\* Points outside -max..max stop the run.
InRange(parts) ==
    \A i \in Available(parts) : parts[i].points \in -Model[i].max..Model[i].max

\* Invariants of validate that depend on the rows.
Valid(s) ==
    LET row == RowOf(s, itemParts[s])
    IN  /\ row.status = "scored" => Complete(itemParts[s])
        /\ row.rank_eligible => row.status = "scored"

-----------------------------------------------------------------------------
(* The collector and the run.                                              *)

NoParts == [i \in ModelItems |-> Missing("unavailable")]

ScoringInit ==
    /\ scoringPc = "gate"
    /\ dayBar \in [Listed -> {"none", "halted", "traded"}]
    /\ drift = [failed |-> FALSE, drifted |-> {}]
    /\ decision = "wait" /\ outcome = "none"
    /\ snapBar = [s \in Listed |-> "none"] /\ held = {}
    /\ itemParts = [s \in Listed |-> NoParts]

\* The collector stores a bar, or takes one away to fetch it again.
ReplaceBar(s) ==
    /\ scoringPc \in {"gate", "load"}
    /\ \E bar \in {"none", "halted", "traded"} : dayBar' = [dayBar EXCEPT ![s] = bar]
    /\ UNCHANGED <<scoringPc, drift, decision, snapBar, held, itemParts, outcome>>

\* It fetches the prices of stocks anew; if some fail, it is not known which.
CheckDrift ==
    /\ scoringPc \in {"gate", "load"}
    /\ drift' \in DriftReports
    /\ UNCHANGED <<scoringPc, dayBar, decision, snapBar, held, itemParts, outcome>>

Gate ==
    /\ scoringPc = "gate"
    /\ LET bars_ok == \A market \in MARKETS : BarsOk(market)
       IN  \E flows, shorting \in AuxCounts :
              /\ decision' = PublishDecision(bars_ok, AuxOk(flows) /\ AuxOk(shorting))
              /\ IF bars_ok THEN scoringPc' = "load" /\ outcome' = "none"
                 ELSE scoringPc' = "end" /\ outcome' = "waiting_upstream"
    /\ UNCHANGED <<dayBar, drift, snapBar, held, itemParts>>

\* Which of the stocks drifted matters only if the collector failed for some.
Load ==
    /\ scoringPc = "load"
    /\ scoringPc' = "compute"
    /\ snapBar' = dayBar
    /\ held' = IF drift.failed THEN drift.drifted ELSE {}
    /\ UNCHANGED <<dayBar, drift, decision, itemParts, outcome>>

\* Without a bar of the day, or held back, a stock has no technical item; without a bar, nothing
\* that is measured by its price.
Allowed(s, parts) ==
    [i \in ModelItems |->
       IF i \in TechItems /\ s \in held THEN Missing("stale")
       ELSE IF i \in TechItems \cup BarItems /\ snapBar[s] = "none" THEN Missing("unavailable")
       ELSE parts[i]]

Compute ==
    /\ scoringPc = "compute"
    /\ \E parts \in [Listed -> Outcomes] :
          LET allowed == [s \in Listed |-> Allowed(s, parts[s])]
          IN  /\ itemParts' = allowed
              /\ IF \A s \in Listed : InRange(allowed[s])
                 THEN scoringPc' = "validate" /\ outcome' = "none"
                 ELSE scoringPc' = "end" /\ outcome' = "failed"
    /\ UNCHANGED <<dayBar, drift, decision, snapBar, held>>

ValidateAndPublish ==
    /\ scoringPc = "validate"
    /\ scoringPc' = "end"
    /\ outcome' = IF \E s \in Listed : ~Valid(s) THEN "failed"
                  ELSE IF decision = "publish_degraded" THEN "published_degraded" ELSE "published"
    /\ UNCHANGED <<dayBar, drift, decision, snapBar, held, itemParts>>

ScoringNext ==
    \/ \E s \in Listed : ReplaceBar(s)
    \/ CheckDrift \/ Gate \/ Load \/ Compute \/ ValidateAndPublish

ScoringSpec == ScoringInit /\ [][ScoringNext]_scoringVars

-----------------------------------------------------------------------------
(* Properties.                                                             *)

ScoringTypeOK ==
    /\ scoringPc \in {"gate", "load", "compute", "validate", "end"}
    /\ dayBar \in [Listed -> {"none", "halted", "traded"}]
    /\ drift \in [failed : BOOLEAN, drifted : SUBSET Listed]
    /\ decision \in {"wait", "publish", "publish_degraded"}
    /\ snapBar \in [Listed -> {"none", "halted", "traded"}]
    /\ held \subseteq Listed
    /\ itemParts \in [Listed -> [ModelItems -> PartType]]
    /\ outcome \in {"none", "waiting_upstream", "published", "published_degraded", "failed"}

\* Whatever the collector does between the gate and the load: who is ranked is an ordinary stock of
\* a known market and a general sector, was traded on the day by the bar that was loaded, was not
\* held back, has equity, and has every item.
RankedMeansClean ==
    outcome \in {"published", "published_degraded"} =>
        \A s \in Listed : RowOf(s, itemParts[s]).rank_eligible =>
            /\ Listing[s].kind = "ordinary" /\ Listing[s].market \in MARKETS
            /\ Listing[s].sector \notin SpecialSectors
            /\ snapBar[s] = "traded" /\ s \notin held
            /\ \A i \in ModelItems : itemParts[s][i].state \in AVAILABLE
            /\ \A i \in EquityItems : itemParts[s][i].state # "adverse_defined"

Worth == [insufficient_data |-> 0, provisional |-> 1, scored |-> 2, excluded |-> 3]

\* To know more is never worse: had one more item been available, the status would be as good or
\* better, and a stock would have an estimate, or a total, where it has one now.
MoreIsBetter ==
    scoringPc = "validate" =>
        \A s \in Listed : \A i \in ModelItems \ Available(itemParts[s]) :
            LET old == RowOf(s, itemParts[s])
                new == RowOf(s, [itemParts[s] EXCEPT ![i] = Observed(0)])
            IN  /\ Worth[new.status] >= Worth[old.status]
                /\ old.has_estimate => new.has_estimate \/ new.status = "scored"
==============================================================================
