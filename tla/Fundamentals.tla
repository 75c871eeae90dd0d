---------------------------- MODULE Fundamentals ----------------------------
(***************************************************************************)
(* The fundamental axis of one stock: what read_statement takes from a     *)
(* report (scoring/domain/financial.py), the profit of the last twelve     *)
(* months, the medians of the sector and the seven items                   *)
(* (scoring/domain/fundamental.py).                                        *)
(*                                                                         *)
(* The company's accounts are known by the quarter, consolidated and on    *)
(* their own; `history` is how they really were.  A report shows them in   *)
(* one of the Forms DART has.  Which reports a run has is the matter of    *)
(* Reports; here, any that were filed.  Time is in quarters, a quotient is *)
(* a pair <<numerator, denominator>> with a denominator above 0.           *)
(***************************************************************************)
EXTENDS Parts

CONSTANTS
    FirstQuarter, LastQuarter,  \* the quarters in which runs take place
    Histories,         \* quarter -> basis -> account -> amount
    Forms,             \* what reports show: [statements, accounts, added, comparable]
    Markets,           \* what the market says: [cap, div_yield], or NoAmount
    PeerGroups,        \* others of the market: sets of [name, near, per, pbr], named by
                       \* numbers; near: of the same sector
    MaxAge,            \* interim_max_age_days, in quarters
    MinSamples,        \* sector_min_samples
    FundTiers,         \* item -> tiers, of growth for revenue and operating profit
    Turnaround,        \* op_turnaround
    NoAmount           \* None

Accounts == {"revenue", "operating", "net", "liabilities", "equity"}
Quarters == 1..LastQuarter
FundItems == {"per", "pbr", "op_margin", "growth", "roe", "debt_ratio", "div"}
TierNames == (FundItems \ {"growth"}) \cup {"revenue_growth", "op_growth"}

\* How the steps of a rules file are written: all compared one way, the better ones first.
StepsOf(item, cmps) ==
    \A i, j \in DOMAIN FundTiers[item] :
        /\ FundTiers[item][i].cmp \in cmps
        /\ i <= j => FundTiers[item][i].points >= FundTiers[item][j].points

ASSUME FundamentalsAssumption ==
    /\ FirstQuarter \in Quarters /\ LastQuarter \in Nat /\ MaxAge \in Nat /\ MinSamples \in Nat
    /\ Histories \subseteq [Quarters -> [{"CFS", "OFS"} -> [Accounts -> Int]]]
    /\ Forms \subseteq [statements : SUBSET {"CFS", "OFS"}, accounts : SUBSET Accounts,
                        added : {"both", "now", "neither"}, comparable : BOOLEAN]
    /\ FundTiers \in [TierNames -> Tiers] /\ Turnaround \in Nat
    /\ \A name \in TierNames : \A i \in DOMAIN FundTiers[name] : FundTiers[name][i].points >= 0
    /\ StepsOf("per", {"le", "lt"})
    /\ \A item \in {"op_margin", "roe", "op_growth"} : StepsOf(item, {"ge", "gt"})
    /\ NoAmount \notin Int /\ NoAmount \notin Int \X Int
    /\ \A listed \in Markets \ {NoAmount} : listed.cap \in Nat \ {0}
    /\ \A group \in PeerGroups :
          /\ IsFiniteSet(group)
          /\ \A p, q \in group :
                p.name \in Nat \ {0} /\ p.per \in Int /\ (p.name = q.name => p = q)

VARIABLES
    quarter,           \* quarters that are over
    history,
    periodic, annual,  \* reports: [end, form], or NoReport
    market, peers,
    special            \* special_sector

fundVars == <<quarter, history, periodic, annual, market, peers, special>>

NoReport ==
    [end |-> 0,
     form |-> [statements |-> {}, accounts |-> {}, added |-> "neither", comparable |-> FALSE]]
Reported == [end : 1..quarter, form : Forms]

\* The quarter of its year a report ends with: 4 is the annual report.
OfYear(end) == ((end - 1) % 4) + 1
IsAnnual(report) == OfYear(report.end) = 4

FundamentalsTypeOK ==
    /\ quarter \in FirstQuarter..LastQuarter
    /\ history \in Histories
    /\ periodic \in Reported \cup {NoReport} /\ annual \in Reported \cup {NoReport}
    /\ annual # NoReport => IsAnnual(annual)
    /\ market \in Markets /\ peers \in PeerGroups /\ special \in BOOLEAN

-----------------------------------------------------------------------------
(* What is read from a report, if the accounts are h.                      *)

\* Consolidated figures alone, if there are any.
Basis(form) == IF "CFS" \in form.statements THEN "CFS" ELSE "OFS"
Shown(form, account) == form.statements # {} /\ account \in form.accounts

Total(h, form, account, first, last) ==
    IF first < 1 THEN NoAmount
    ELSE SumFunctionOnSet([q \in first..last |-> h[q][Basis(form)][account]], first..last)

\* What an interim report gives is the last quarter, and the sum since the start of the year only
\* if it is added.
Since(report, added) == IF IsAnnual(report) \/ added THEN report.end - OfYear(report.end) + 1
                                                    ELSE report.end

\* Faulty: a sum since the start of the year is compared with a quarter.
FlowOf_Mixed(h, report, account) ==
    LET form == report.form
        now == Since(report, form.added \in {"both", "now"})
        prev == Since(report, form.added = "both")
    IN  IF ~Shown(form, account)
        THEN [now |-> NoAmount, prev |-> NoAmount, periods_match |-> FALSE]
        ELSE [now |-> Total(h, form, account, now, report.end),
              prev |-> Total(h, form, account, prev - 4, report.end - 4),
              periods_match |-> form.comparable /\ prev > 4]

FlowOf(h, report, account) ==
    LET form == report.form
        now == Since(report, form.added \in {"both", "now"})
        prev == Since(report, form.added = "both")
        mixed == ~IsAnnual(report) /\ form.added = "now"
    IN  IF ~Shown(form, account)
        THEN [now |-> NoAmount, prev |-> NoAmount, periods_match |-> FALSE]
        ELSE [now |-> Total(h, form, account, now, report.end),
              prev |-> Total(h, form, account, prev - 4, report.end - 4),
              periods_match |-> form.comparable /\ ~mixed /\ prev > 4]

BalanceOf(h, report, account) ==
    IF ~Shown(report.form, account) THEN NoAmount
    ELSE h[report.end][Basis(report.form)][account]

\* Equity at the end of the year before.
EquityBefore(h, report) ==
    LET end == report.end - OfYear(report.end)
    IN  IF ~Shown(report.form, "equity") \/ end < 1 THEN NoAmount
        ELSE h[end][Basis(report.form)]["equity"]

\* The end of the period is read beside an amount: without any, the report is as good as stale.
FreshReport(report) ==
    /\ report.form.statements # {} /\ report.form.accounts # {}
    /\ report.end >= quarter - MaxAge

-----------------------------------------------------------------------------
(* The profit of twelve months, and what the stock costs by it.            *)

NoProfit == [net |-> <<NoAmount, 1>>, basis |-> "none"]

TtmNet(h) ==
    LET net == FlowOf(h, periodic, "net")
        year == FlowOf(h, annual, "net").now
        months == 3 * OfYear(periodic.end)
    IN  IF periodic = NoReport \/ net.now = NoAmount THEN NoProfit
        ELSE IF IsAnnual(periodic) THEN [net |-> <<net.now, 1>>, basis |-> "annual"]
        ELSE IF annual # NoReport /\ year # NoAmount /\ net.prev # NoAmount /\ net.periods_match
             THEN [net |-> <<year + net.now - net.prev, 1>>, basis |-> "ttm"]
        ELSE [net |-> <<net.now * 12, months>>, basis |-> "annualized"]

EquityOf(h) == IF periodic = NoReport THEN NoAmount ELSE BalanceOf(h, periodic, "equity")

\* How often an amount <<n, m>> is in the market value, if it is known and above 0.
Multiple(amount) ==
    IF market = NoAmount \/ amount[1] = NoAmount THEN NoAmount
    ELSE IF amount[1] > 0 THEN <<market.cap * amount[2], amount[1]>> ELSE NoAmount

Per(h) == Multiple(TtmNet(h).net)
Pbr(h) == Multiple(<<EquityOf(h), 1>>)

\* The stock is among its own peers.
Samples(own, metric) ==
    {[name |-> p.name, near |-> p.near, value |-> <<p[metric], 1>>] :
        p \in {q \in peers : q[metric] > 0}}
    \cup {[name |-> 0, near |-> TRUE, value |-> v] : v \in {own} \ {NoAmount}}

Below(p, q) == p[1] * q[2] < q[1] * p[2]

\* The values below a sample's, equal ones by name.
Rank(S, s) ==
    Cardinality({r \in S : \/ Below(r.value, s.value)
                           \/ ~Below(s.value, r.value) /\ r.name < s.name})

\* The middle one, or half the sum of the two in the middle.
MedianOf(S) ==
    LET n == Cardinality(S)
        at(i) == {s.value : s \in {r \in S : Rank(S, r) = i}}
        half(p, q) == <<p[1] * q[2] + q[1] * p[2], 2 * p[2] * q[2]>>
    IN  CHOOSE m \in {half(p, q) : p \in at((n - 1) \div 2), q \in at(n \div 2)} : TRUE

\* The sector's, or the market's if the sector has too few.
Lookup(all) ==
    LET sector == {s \in all : s.near}
    IN  MedianOf(IF Cardinality(sector) >= MinSamples THEN sector ELSE all)

-----------------------------------------------------------------------------
(* The items.  A loss, or no equity left, is known to be bad: no points.   *)

Points(item, n, m) == TierPoints(100 * n, Times(FundTiers[item], m))

\* What keeps every item from a report that is not there or too old.
WithReport(part) ==
    IF periodic = NoReport THEN Missing("unavailable")
    ELSE IF ~FreshReport(periodic) THEN Missing("stale")
    ELSE part

\* Against the median; a value above 0 has one, its own if no other.
Against(median, item, value) ==
    Observed(Points(item, value[1] * median[2], value[2] * median[1]))
Relative(item, value) == Against(Lookup(Samples(value, item)), item, value)

PerPart(h) ==
    WithReport(
        IF market = NoAmount \/ TtmNet(h) = NoProfit THEN Missing("unavailable")
        ELSE IF TtmNet(h).net[1] <= 0 THEN Adverse(0)
        ELSE Relative("per", Per(h)))

PbrPart(h) ==
    WithReport(
        IF market = NoAmount \/ EquityOf(h) = NoAmount THEN Missing("unavailable")
        ELSE IF EquityOf(h) <= 0 THEN Adverse(0)
        ELSE Relative("pbr", Pbr(h)))

OpMarginPart(h) ==
    LET revenue == FlowOf(h, periodic, "revenue").now
        operating == FlowOf(h, periodic, "operating").now
    IN  IF special THEN NotApplicable
        ELSE WithReport(
            IF NoAmount \in {revenue, operating} THEN Missing("unavailable")
            ELSE IF revenue <= 0 THEN Missing("invalid_value")
            ELSE Observed(Points("op_margin", operating, revenue)))

\* Faulty: a smaller loss counts as growth.
OpGrowthPoints_Sign(op) ==
    IF op.prev # 0 THEN Points("op_growth", (op.now - op.prev) * op.prev, op.prev * op.prev)
    ELSE IF op.now > 0 THEN Turnaround ELSE 0

\* From a loss the growth of the operating profit cannot be told: out of it there are points.
OpGrowthPoints(op) ==
    IF op.prev > 0 THEN Points("op_growth", op.now - op.prev, op.prev)
    ELSE IF op.now > 0 THEN Turnaround ELSE 0

GrowthPart(h) ==
    LET revenue == FlowOf(h, periodic, "revenue")
        op == FlowOf(h, periodic, "operating")
        known(flow) == flow.periods_match /\ NoAmount \notin {flow.now, flow.prev}
    IN  IF special THEN NotApplicable
        ELSE WithReport(
            IF ~known(revenue) \/ ~known(op) THEN Missing("invalid_value")
            ELSE IF revenue.prev <= 0 THEN Missing("invalid_value")
            ELSE Observed(Points("revenue_growth", revenue.now - revenue.prev, revenue.prev)
                          + OpGrowthPoints(op)))

\* Twice the average equity.
RoePart(h) ==
    WithReport(
        IF TtmNet(h) = NoProfit \/ NoAmount \in {EquityOf(h), EquityBefore(h, periodic)}
        THEN Missing("unavailable")
        ELSE LET equity == EquityOf(h) + EquityBefore(h, periodic)
                 net == TtmNet(h).net
             IN  IF equity <= 0 THEN Adverse(0)
                 ELSE Observed(Points("roe", 2 * net[1], net[2] * equity)))

DebtPart(h) ==
    LET liabilities == BalanceOf(h, periodic, "liabilities")
    IN  IF special THEN NotApplicable
        ELSE WithReport(
            IF NoAmount \in {liabilities, EquityOf(h)} THEN Missing("unavailable")
            ELSE IF EquityOf(h) <= 0 THEN Adverse(0)
            ELSE Observed(Points("debt_ratio", liabilities, EquityOf(h))))

DivPart ==
    IF market = NoAmount THEN Missing("unavailable")
    ELSE IF market.div_yield = NoAmount THEN Missing("unavailable")
    ELSE Observed(Points("div", market.div_yield, 100))

FundParts(h) ==
    [per |-> PerPart(h), pbr |-> PbrPart(h), op_margin |-> OpMarginPart(h),
     growth |-> GrowthPart(h), roe |-> RoePart(h), debt_ratio |-> DebtPart(h), div |-> DivPart]

\* capital_impairment
Impaired(parts) == \E item \in {"pbr", "roe", "debt_ratio"} : parts[item].state = "adverse_defined"

-----------------------------------------------------------------------------
(* Time, and what the runs get.                                            *)

FundamentalsInit ==
    /\ quarter = FirstQuarter
    /\ history \in Histories /\ market \in Markets /\ peers \in PeerGroups /\ special \in BOOLEAN
    /\ periodic = NoReport /\ annual = NoReport

QuarterEnds ==
    /\ quarter < LastQuarter
    /\ quarter' = quarter + 1
    /\ UNCHANGED <<history, periodic, annual, market, peers, special>>

\* A run gets its reports once; it is scored again whenever the quarter changes.  The periodic
\* report is the newest there is, the annual one among those up to it.
GetReports ==
    /\ periodic = NoReport
    /\ \E p \in Reported :
          /\ periodic' = p
          /\ annual' \in {NoReport} \cup {a \in Reported : IsAnnual(a) /\ a.end <= p.end}
          /\ IsAnnual(p) => annual' = p
    /\ UNCHANGED <<quarter, history, market, peers, special>>

FundamentalsNext == QuarterEnds \/ GetReports

FundamentalsSpec == FundamentalsInit /\ [][FundamentalsNext]_fundVars

-----------------------------------------------------------------------------
(* Properties.                                                             *)

\* TTM is the year before plus this year so far minus the year before so far (fundamental.py:11):
\* the profit of the last four quarters, if both reports are of the same basis, the annual one is
\* of the year before, and the other gives sums since the start of the year.
TtmIsLastFour ==
    /\ TtmNet(history).basis = "ttm"
    /\ Basis(annual.form) = Basis(periodic.form)
    /\ annual.end = periodic.end - OfYear(periodic.end)
    /\ periodic.form.added = "neither" => OfYear(periodic.end) = 1
    => TtmNet(history).net = <<Total(history, periodic.form, "net", periodic.end - 3, periodic.end), 1>>

\* The same accounts but for more profit in the year of the report.
MoreProfit(better) ==
    \A q \in Quarters, b \in {"CFS", "OFS"}, account \in Accounts :
        \/ better[q][b][account] = history[q][b][account]
        \/ /\ account \in {"operating", "net"} /\ better[q][b][account] > history[q][b][account]
           /\ q > periodic.end - OfYear(periodic.end)

NotWorse(new, old) ==
    new.points >= old.points /\ (new.state = "missing" => old.state = "missing")

\* Profit never hurts: with more of it no item has fewer points or is missing, though the stock
\* itself is in the median it is compared with, and though a loss may turn into a profit.
ProfitNeverHurts ==
    \A better \in {h \in Histories : periodic # NoReport /\ MoreProfit(h)} :
        \A item \in FundItems : NotWorse(FundParts(better)[item], FundParts(history)[item])
=============================================================================
