-------------------------------- MODULE Flows --------------------------------
(***************************************************************************)
(* The flow axis of one stock: resolve_day, _investor_part, _shorting_part *)
(* and score_flow of scoring/domain/flow.py, over the rows that            *)
(* load_flows and load_shorting read.                                      *)
(*                                                                         *)
(* Somebody else collects the rows: a session's row comes late or never,   *)
(* an amount in it is NULL because nobody of that kind traded, or because  *)
(* it was lost.  What was really traded is in `traded`; the program sees   *)
(* only `flowRow`.  Sessions are numbers; every formula is about the       *)
(* evaluation session t it is given.                                       *)
(***************************************************************************)
EXTENDS Parts, FiniteSets

CONSTANTS
    Horizon,       \* bound on the sessions the model goes through
    LongWindow,    \* window_long
    ShortWindow,   \* window_short
    MinValid,      \* min_valid_ratio, in percent
    Trades,        \* what the five kinds of investors may have bought net in a session
    StreakTiers,   \* streak_tiers of the two investor items
    CumPoints,     \* cum_points
    Cap,           \* item -> cap (of the institutions' item), or the item's maximum
    Losable,       \* the investors whose amount may get lost
    Ratios,        \* shares of short sales
    ShortTiers,    \* tiers of the stock's market
    None           \* NULL, or no row

Investors == {"inst", "foreign", "foreign_etc", "indiv", "corp_etc"}
Items == {"foreign", "inst"}

Amount(row, i) == IF row[i] = None THEN 0 ELSE row[i]
Balance(row) ==
    Amount(row, "inst") + Amount(row, "foreign") + Amount(row, "foreign_etc")
        + Amount(row, "indiv") + Amount(row, "corp_etc")

Rows == [Investors -> Int \cup {None}]

\* Whatever one buys another sells.
ASSUME FlowsAssumption ==
    /\ Horizon \in Nat \ {0} /\ LongWindow \in Nat \ {0} /\ ShortWindow \in Nat
    /\ MinValid \in Nat
    /\ None \notin Int \cup Rows /\ Losable \subseteq Investors
    /\ Trades \subseteq [Investors -> Int]
    /\ \A trade \in Trades : Balance(trade) = 0
    /\ CumPoints \in Int /\ Cap \in [Items -> Int] /\ Ratios \subseteq Int
    /\ StreakTiers \in Tiers /\ ShortTiers \in Tiers

VARIABLES
    session,       \* the sessions so far are 1..session
    traded,        \* session -> net purchases, as they were
    flowRow,       \* session -> row of ksc_investor_flows, or None
    shortRow       \* session -> ratio of ksc_shorting, or None

flowVars == <<session, traded, flowRow, shortRow>>

FlowsTypeOK ==
    /\ session \in 1..Horizon
    /\ traded \in [1..Horizon -> Trades]
    /\ flowRow \in [1..Horizon -> Rows \cup {None}]
    /\ shortRow \in [1..Horizon -> Ratios \cup {None}]

-----------------------------------------------------------------------------
(* One day's row.  A NULL is 0 if the other amounts leave nothing for it.  *)

\* Faulty: a NULL is always 0.
Settled_Always(row) == TRUE

Settled(row) == (\A i \in Investors : row[i] # None) \/ Balance(row) = 0

Net(item, row) ==
    IF item = "foreign" THEN Amount(row, "foreign") + Amount(row, "foreign_etc")
                        ELSE Amount(row, "inst")

\* What the program takes the item's net purchases of session d to be.
Value(item, d) ==
    IF flowRow[d] = None \/ ~Settled(flowRow[d]) THEN None ELSE Net(item, flowRow[d])

-----------------------------------------------------------------------------
(* The items.  The windows go by the calendar, not by the rows there are.  *)

LastSessions(t, n) == {d \in 1..t : t - n < d}
Enough(present, window) == 100 * Cardinality(present) >= MinValid * Cardinality(window)
Present(item, t) == {d \in LastSessions(t, LongWindow) : Value(item, d) # None}

\* Faulty: a session without a value does not end the streak.
Bought_Bridged(item, t, k) ==
    \A d \in LastSessions(t, k) : Value(item, d) # None => Value(item, d) > 0

\* The last k sessions were all bought, without a gap.
Bought(item, t, k) == \A d \in LastSessions(t, k) : Value(item, d) # None /\ Value(item, d) > 0

Streak(item, t) == Max({k \in 0..Cardinality(LastSessions(t, LongWindow)) : Bought(item, t, k)})

Cumulated(item, t, n) ==
    MapThenSumSet(LAMBDA d : Value(item, d), LastSessions(t, n) \cap Present(item, t))

InvestorPoints(item, t) ==
    LET cum == IF Cumulated(item, t, LongWindow) > 0 /\ Cumulated(item, t, ShortWindow) > 0
               THEN CumPoints ELSE 0
    IN  Min({TierPoints(Streak(item, t), StreakTiers) + cum, Cap[item]})

InvestorPart(item, t) ==
    IF Value(item, t) = None
    THEN Missing("unavailable")
    ELSE IF ~Enough(Present(item, t), LastSessions(t, LongWindow))
         THEN Missing("insufficient_history")
         ELSE Observed(InvestorPoints(item, t))

\* The mean of the ratios there are, against the steps of the stock's market.
ShortingPart(t) ==
    LET window == LastSessions(t, LongWindow)
        present == {d \in window : shortRow[d] # None}
    IN  IF ~Enough(present, window) THEN Missing("insufficient_history")
        ELSE Observed(TierPoints(MapThenSumSet(LAMBDA d : shortRow[d], present),
                                 Times(ShortTiers, Cardinality(present))))

-----------------------------------------------------------------------------
(* The market and the collector.                                           *)

FlowsInit ==
    /\ session = 1
    /\ traded \in [1..Horizon -> Trades]
    /\ flowRow = [d \in 1..Horizon |-> None]
    /\ shortRow = [d \in 1..Horizon |-> None]

NextSession ==
    /\ session < Horizon
    /\ session' = session + 1
    /\ UNCHANGED <<traded, flowRow, shortRow>>

\* A day's row is stored for the first time, or again with more in it: NULL for some who
\* traded nothing, and for at most one whose amount was lost.
CollectFlow(d) ==
    /\ \E lost \in Losable \cup {None}, nulls \in SUBSET {i \in Investors : traded[d][i] = 0} :
          LET row == [i \in Investors |-> IF i = lost \/ i \in nulls THEN None
                                                                     ELSE traded[d][i]]
          IN  /\ flowRow[d] # None => \A i \in Investors : flowRow[d][i] \in {None, row[i]}
              /\ flowRow' = [flowRow EXCEPT ![d] = row]
    /\ UNCHANGED <<session, traded, shortRow>>

CollectShorting(d) ==
    /\ shortRow[d] = None
    /\ \E ratio \in Ratios : shortRow' = [shortRow EXCEPT ![d] = ratio]
    /\ UNCHANGED <<session, traded, flowRow>>

FlowsNext ==
    \/ NextSession
    \/ \E d \in 1..session : CollectFlow(d) \/ CollectShorting(d)

FlowsSpec == FlowsInit /\ [][FlowsNext]_flowVars

-----------------------------------------------------------------------------
(* Properties.                                                             *)

\* "NULL is 0 only where it is proved" (flow.py:4): what the program takes for a session's net
\* purchases is what was traded, also where it filled in a NULL.
DerivedIsTrue ==
    \A d \in 1..session, item \in Items :
        Value(item, d) # None => Value(item, d) = Net(item, traded[d])

\* A row that comes late, or comes again with more in it, only ever adds: seen from the same
\* session the streak does not get shorter, and an observed item does not become missing.
LateRowsOnlyAdd ==
    [][\A t \in 1..session, item \in Items :
          /\ Streak(item, t)' >= Streak(item, t)
          /\ InvestorPart(item, t).state = "observed" => InvestorPart(item, t)'.state = "observed"
          /\ ShortingPart(t).state = "observed" => ShortingPart(t)'.state = "observed"]_flowVars
==============================================================================
