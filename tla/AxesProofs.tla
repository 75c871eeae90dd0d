------------------------------ MODULE AxesProofs ------------------------------
(***************************************************************************)
(* Theorems about what is made of the tables of the market and about the   *)
(* ranking: Flows, Technical with Rescoring, and Scoring, each for any     *)
(* values of its constants; and the types of all axes together.            *)
(***************************************************************************)
EXTENDS MCAxes, CompanyProofs

-----------------------------------------------------------------------------
(***************************************************************************)
(* Flows: for any trades that cancel out, any windows and any rules: what  *)
(* is derived for a NULL is true as long as at most one amount of a        *)
(* session has been lost.                                                  *)
(***************************************************************************)
USE FlowsAssumption

\* A stored row says what was traded, or NULL; but for one at most, who is NULL traded nothing.
Truthful(row, trade) ==
    /\ \A i \in Investors : row[i] \in {None, trade[i]}
    /\ \A i, j \in Investors :
          row[i] = None /\ row[j] = None /\ trade[i] # 0 /\ trade[j] # 0 => i = j

RowsTruthful == \A d \in 1..Horizon : flowRow[d] # None => Truthful(flowRow[d], traded[d])

FlowsInv == FlowsTypeOK /\ RowsTruthful

\* Whatever is lost, two amounts cannot be told from each other: but one can.
LEMMA SettledIsTrue ==
    ASSUME NEW row \in Rows, NEW trade \in [Investors -> Int], Balance(trade) = 0,
           Truthful(row, trade), Settled(row)
    PROVE  \A i \in Investors : Amount(row, i) = trade[i]
<1> DEFINE lost(i) == row[i] = None /\ trade[i] # 0
<1>1. \A i \in Investors : trade[i] \in Int /\ trade[i] # None
    OBVIOUS
<1>2. \A i \in Investors : ~lost(i) => Amount(row, i) = trade[i]
    BY <1>1 DEF Truthful, Amount
<1>3. ASSUME NEW i \in Investors, lost(i) PROVE FALSE
  <2>1. Amount(row, i) = 0
      BY <1>3 DEF Amount
  <2>2. \A j \in Investors : j # i => Amount(row, j) = trade[j]
      BY <1>2, <1>3 DEF Truthful
  <2>3. Balance(row) = 0
      BY <1>3 DEF Settled
  <2>4. \A j \in Investors : Amount(trade, j) = trade[j]
      BY <1>1 DEF Amount
  <2>5. trade["inst"] + trade["foreign"] + trade["foreign_etc"] + trade["indiv"] + trade["corp_etc"] = 0
      BY <2>4 DEF Balance, Investors
  <2>6. Amount(row, "inst") + Amount(row, "foreign") + Amount(row, "foreign_etc")
          + Amount(row, "indiv") + Amount(row, "corp_etc") = 0
      BY <2>3 DEF Balance
  <2>7. trade[i] # 0
      BY <1>3
  <2> DEFINE still(j) == IF j = i THEN 0 ELSE trade[j]
  <2>8. \A j \in Investors : Amount(row, j) = still(j)
      BY <2>1, <2>2
  <2>9. still("inst") + still("foreign") + still("foreign_etc") + still("indiv") + still("corp_etc") = 0
      BY <2>6, <2>8 DEF Investors
  <2> QED
      BY <1>1, <2>5, <2>7, <2>9 DEF Investors
<1> QED
    BY <1>2, <1>3

LEMMA NetIsTrue ==
    ASSUME NEW row \in Rows, NEW trade \in Trades, Truthful(row, trade), Settled(row),
           NEW item \in Items
    PROVE  Net(item, row) = Net(item, trade)
<1>1. trade \in [Investors -> Int] /\ Balance(trade) = 0
    OBVIOUS
<1>2. \A i \in Investors : Amount(row, i) = trade[i] /\ Amount(trade, i) = trade[i]
    BY <1>1, SettledIsTrue DEF Amount
<1> QED
    BY <1>2 DEF Net, Investors

-----------------------------------------------------------------------------
LEMMA FlowsStart == FlowsInit => FlowsInv
BY DEF FlowsInit, FlowsInv, FlowsTypeOK, RowsTruthful

LEMMA FlowsStep == FlowsInv /\ [FlowsNext]_flowVars => FlowsInv'
<1> SUFFICES ASSUME FlowsTypeOK, RowsTruthful, [FlowsNext]_flowVars PROVE FlowsInv'
    BY DEF FlowsInv
<1>1. CASE NextSession
    BY <1>1 DEF NextSession, FlowsInv, FlowsTypeOK, RowsTruthful
<1>2. ASSUME NEW d \in 1..session, CollectFlow(d) PROVE FlowsInv'
  <2>1. d \in 1..Horizon /\ traded[d] \in Trades /\ traded[d] \in [Investors -> Int]
      BY DEF FlowsTypeOK
  <2>2. PICK lost \in Losable \cup {None}, nulls \in SUBSET {i \in Investors : traded[d][i] = 0} :
           flowRow' = [flowRow EXCEPT ![d] = [i \in Investors |->
                          IF i = lost \/ i \in nulls THEN None ELSE traded[d][i]]]
      BY <1>2 DEF CollectFlow
  <2> DEFINE row == [i \in Investors |-> IF i = lost \/ i \in nulls THEN None ELSE traded[d][i]]
  <2>3. row \in Rows
      BY <2>1 DEF Rows
  <2>4. Truthful(row, traded[d])
      BY <2>1 DEF Truthful
  <2>5. UNCHANGED <<session, traded, shortRow>>
      BY <1>2 DEF CollectFlow
  <2> HIDE DEF row
  <2>6. flowRow' = [flowRow EXCEPT ![d] = row]
      BY <2>2 DEF row
  <2>7. FlowsTypeOK'
      BY <2>1, <2>3, <2>5, <2>6 DEF FlowsTypeOK
  <2>8. RowsTruthful'
      BY <2>1, <2>4, <2>5, <2>6 DEF RowsTruthful, FlowsTypeOK
  <2> QED
      BY <2>7, <2>8 DEF FlowsInv
<1>3. ASSUME NEW d \in 1..session, CollectShorting(d) PROVE FlowsInv'
    BY <1>3 DEF CollectShorting, FlowsInv, FlowsTypeOK, RowsTruthful
<1>4. CASE UNCHANGED flowVars
    BY <1>4 DEF flowVars, FlowsInv, FlowsTypeOK, RowsTruthful
<1> QED
    BY <1>1, <1>2, <1>3, <1>4 DEF FlowsNext

THEOREM FlowsInvariance == FlowsSpec => []FlowsInv
BY FlowsStart, FlowsStep, PTL DEF FlowsSpec

-----------------------------------------------------------------------------
\* The rows keep their form, whatever is collected and in whatever order.
THEOREM FlowsTyped == FlowsSpec => []FlowsTypeOK
<1>1. FlowsInv => FlowsTypeOK
    BY DEF FlowsInv
<1> QED
    BY <1>1, FlowsInvariance, PTL

\* What the program takes for a session's net purchases is what was traded, also where it put 0
\* for a NULL: for any amounts, since what the others leave is the amount that was lost.
THEOREM DerivedAreTrue == FlowsSpec => []DerivedIsTrue
<1>1. FlowsInv => DerivedIsTrue
  <2> SUFFICES ASSUME FlowsInv, NEW d \in 1..session, NEW item \in Items, Value(item, d) # None
               PROVE  Value(item, d) = Net(item, traded[d])
      BY DEF DerivedIsTrue
  <2>1. d \in 1..Horizon /\ flowRow[d] # None /\ Settled(flowRow[d])
      BY DEF FlowsInv, FlowsTypeOK, Value
  <2>2. flowRow[d] \in Rows /\ traded[d] \in Trades /\ Truthful(flowRow[d], traded[d])
      BY <2>1 DEF FlowsInv, FlowsTypeOK, RowsTruthful
  <2>3. Value(item, d) = Net(item, flowRow[d])
      BY <2>1 DEF Value
  <2> QED
      BY <2>1, <2>2, <2>3, NetIsTrue
<1> QED
    BY <1>1, FlowsInvariance, PTL

-----------------------------------------------------------------------------
\* A window is finite, so what there is of it can be counted.
LEMMA Windows ==
    ASSUME NEW t \in Nat, NEW n, NEW S \in SUBSET LastSessions(t, n)
    PROVE  IsFiniteSet(S) /\ Cardinality(S) \in Nat
<1>1. IsFiniteSet(1..t)
    BY FS_Interval
<1>2. S \subseteq 1..t
    BY DEF LastSessions
<1> QED
    BY <1>1, <1>2, FS_Subset, FS_CardinalityType

LEMMA MoreIsEnough ==
    ASSUME NEW t \in Nat, NEW n, NEW S \in SUBSET LastSessions(t, n), NEW R \in SUBSET S,
           Enough(R, LastSessions(t, n))
    PROVE  Enough(S, LastSessions(t, n))
<1>1. IsFiniteSet(S) /\ Cardinality(S) \in Nat /\ Cardinality(LastSessions(t, n)) \in Nat
    BY Windows
<1>2. Cardinality(R) <= Cardinality(S) /\ Cardinality(R) \in Nat
    BY <1>1, FS_Subset, FS_CardinalityType
<1>3. MinValid * Cardinality(LastSessions(t, n)) \in Int
    BY <1>1
<1> HIDE FlowsAssumption
<1> QED
    BY <1>1, <1>2, <1>3 DEF Enough

\* What has once been found out about a session stays.
LEMMA ValueStays ==
    ASSUME FlowsInv, FlowsInv', [FlowsNext]_flowVars, NEW d \in 1..session, NEW item \in Items,
           Value(item, d) # None
    PROVE  Value(item, d)' = Value(item, d)
<1>1. d \in 1..Horizon /\ flowRow[d] # None /\ Settled(flowRow[d])
    BY DEF FlowsInv, FlowsTypeOK, Value
<1>2. flowRow[d] \in Rows /\ traded[d] \in Trades /\ Truthful(flowRow[d], traded[d])
    BY <1>1 DEF FlowsInv, FlowsTypeOK, RowsTruthful
<1>3. CASE flowRow'[d] = flowRow[d]
    BY <1>3 DEF Value
<1>4. ASSUME NEW e \in 1..session, CollectFlow(e) PROVE Value(item, d)' = Value(item, d)
  <2>1. CASE e # d
    <3>1. e \in 1..Horizon
        BY DEF FlowsInv, FlowsTypeOK
    <3>2. flowRow'[d] = flowRow[d]
        BY <1>1, <1>4, <2>1, <3>1 DEF CollectFlow, FlowsInv, FlowsTypeOK
    <3> QED
        BY <1>3, <3>2
  <2>2. CASE e = d
    <3>1. /\ \A i \in Investors : flowRow[d][i] \in {None, flowRow'[d][i]}
          /\ traded' = traded /\ flowRow'[d] # None
      <4>1. PICK lost \in Losable \cup {None}, nulls \in SUBSET {i \in Investors : traded[d][i] = 0} :
               LET row == [i \in Investors |-> IF i = lost \/ i \in nulls THEN None ELSE traded[d][i]]
               IN  /\ \A i \in Investors : flowRow[d][i] \in {None, row[i]}
                   /\ flowRow' = [flowRow EXCEPT ![d] = row]
        <5>1. CollectFlow(d)
            BY <1>4, <2>2
        <5> QED
            BY <1>1, <5>1, Zenon DEF CollectFlow
      <4> DEFINE row == [i \in Investors |-> IF i = lost \/ i \in nulls THEN None ELSE traded[d][i]]
      <4>2. flowRow'[d] = row
          BY <1>1, <4>1 DEF FlowsInv, FlowsTypeOK
      <4>4. \A i \in Investors : flowRow[d][i] \in {None, flowRow'[d][i]}
          BY <4>1, <4>2
      <4>5. traded' = traded
          BY <1>4 DEF CollectFlow
      <4>6. flowRow'[d] # None
        <5>1. row \in Rows
            BY <1>2 DEF Rows
        <5> QED
            BY <4>2, <5>1
      <4> QED
          BY <4>4, <4>5, <4>6
    <3>2. flowRow'[d] \in Rows /\ Truthful(flowRow'[d], traded[d])
        BY <1>1, <3>1 DEF FlowsInv, FlowsTypeOK, RowsTruthful
    <3>3. \A i \in Investors : Amount(flowRow[d], i) = traded[d][i]
        BY <1>1, <1>2, SettledIsTrue
    <3>4. Settled(flowRow'[d])
      <4>1. \A i \in Investors : Amount(flowRow'[d], i) = traded[d][i]
          BY <3>1, <3>2, <3>3 DEF Amount, Truthful
      <4>2. Balance(flowRow'[d]) = Balance(flowRow[d])
          BY <3>3, <4>1 DEF Balance, Investors
      <4>3. CASE \A i \in Investors : flowRow[d][i] # None
        <5>1. \A i \in Investors : flowRow'[d][i] # None
            BY <3>1, <4>3
        <5> QED
            BY <5>1 DEF Settled
      <4> QED
          BY <1>1, <4>2, <4>3 DEF Settled
    <3>5. Net(item, flowRow'[d]) = Net(item, flowRow[d])
        BY <1>1, <1>2, <3>2, <3>4, NetIsTrue
    <3> QED
        BY <1>1, <3>1, <3>4, <3>5 DEF Value
  <2> QED
      BY <2>1, <2>2
<1>5. CASE NextSession \/ UNCHANGED flowVars
    BY <1>3, <1>5 DEF NextSession, flowVars
<1>6. ASSUME NEW e \in 1..session, CollectShorting(e) PROVE flowRow' = flowRow
    BY <1>6 DEF CollectShorting
<1> QED
    BY <1>3, <1>4, <1>5, <1>6 DEF FlowsNext

\* ... and so does a share of short sales.
LEMMA RatioStays ==
    ASSUME FlowsInv, [FlowsNext]_flowVars, NEW d \in 1..session, shortRow[d] # None
    PROVE  shortRow'[d] # None
<1>1. CASE shortRow' = shortRow
    BY <1>1
<1>2. ASSUME NEW e \in 1..session, CollectShorting(e) PROVE shortRow'[d] # None
    BY <1>2 DEF CollectShorting, FlowsInv, FlowsTypeOK
<1> QED
    BY <1>1, <1>2 DEF FlowsNext, NextSession, CollectFlow, flowVars

\* A row that comes late only ever adds, for any windows, steps and shares.
THEOREM LateRowsAdd == FlowsSpec => LateRowsOnlyAdd
<1> DEFINE Adds == \A t \in 1..session, item \in Items :
              /\ Streak(item, t)' >= Streak(item, t)
              /\ InvestorPart(item, t).state = "observed" => InvestorPart(item, t)'.state = "observed"
              /\ ShortingPart(t).state = "observed" => ShortingPart(t)'.state = "observed"
<1>1. FlowsInv /\ FlowsInv' /\ [FlowsNext]_flowVars => Adds
  <2> SUFFICES ASSUME FlowsInv, FlowsInv', [FlowsNext]_flowVars, NEW t \in 1..session, NEW item \in Items
               PROVE  /\ Streak(item, t)' >= Streak(item, t)
                      /\ InvestorPart(item, t).state = "observed" => InvestorPart(item, t)'.state = "observed"
                      /\ ShortingPart(t).state = "observed" => ShortingPart(t)'.state = "observed"
      OBVIOUS
  <2>1. t \in Nat /\ 1..t \subseteq 1..session
      BY DEF FlowsInv, FlowsTypeOK
  <2>2. \A d \in 1..t : Value(item, d) # None => Value(item, d)' = Value(item, d)
      BY <2>1, ValueStays
  <2>3. Streak(item, t)' >= Streak(item, t)
    <3> DEFINE N == Cardinality(LastSessions(t, LongWindow))
               R == {k \in 0..N : Bought(item, t, k)}
               S == {k \in 0..N : Bought(item, t, k)'}
    <3>1. N \in Nat
        BY <2>1, Windows
    <3>2. Bought(item, t, 0)
        BY <2>1 DEF Bought, LastSessions
    <3>3. \A k : Bought(item, t, k) => Bought(item, t, k)'
        BY <2>2 DEF Bought, LastSessions
    <3> HIDE DEF N
    <3>4. R \subseteq S /\ S \subseteq 0..N /\ R # {}
        BY <3>1, <3>2, <3>3
    <3>5. Streak(item, t) = Max(R) /\ Streak(item, t)' = Max(S)
        BY DEF Streak, N
    <3> HIDE DEF R, S
    <3> QED
        BY <3>1, <3>4, <3>5, GreatestOfMore
  <2>4. ASSUME InvestorPart(item, t).state = "observed" PROVE InvestorPart(item, t)'.state = "observed"
    <3>1. Value(item, t) # None /\ Enough(Present(item, t), LastSessions(t, LongWindow))
        BY <2>4 DEF InvestorPart, Missing
    <3>2. Present(item, t) \subseteq Present(item, t)' /\ Present(item, t)' \subseteq LastSessions(t, LongWindow)
        BY <2>2 DEF Present, LastSessions
    <3>3. Enough(Present(item, t)', LastSessions(t, LongWindow))
        BY <2>1, <3>1, <3>2, MoreIsEnough
    <3>4. Value(item, t)' # None
        BY <2>1, <2>2, <3>1
    <3> QED
        BY <3>3, <3>4 DEF InvestorPart, Observed, Enough
  <2>5. ASSUME ShortingPart(t).state = "observed" PROVE ShortingPart(t)'.state = "observed"
    <3> DEFINE present == {d \in LastSessions(t, LongWindow) : shortRow[d] # None}
    <3>1. Enough(present, LastSessions(t, LongWindow))
        BY <2>5 DEF ShortingPart, Missing
    <3>2. present \subseteq present' /\ present' \subseteq LastSessions(t, LongWindow)
        BY <2>1, RatioStays DEF LastSessions
    <3>3. Enough(present', LastSessions(t, LongWindow))
        BY <2>1, <3>1, <3>2, MoreIsEnough
    <3> QED
        BY <3>3 DEF ShortingPart, Observed, Enough
  <2> QED
      BY <2>3, <2>4, <2>5
<1> QED
    BY <1>1, FlowsInvariance, PTL DEF FlowsSpec, LateRowsOnlyAdd

HIDE FlowsAssumption

-----------------------------------------------------------------------------
(***************************************************************************)
(* Technical: for any calendar, windows, bars and order of collection.     *)
(***************************************************************************)
USE TechnicalAssumption

\* Bars and indices come only from dates on which there may be trade.
OnSchedule ==
    /\ \A d \in indexed : MayTrade(d)
    /\ \A d \in Dates : stored[d] # NoRows => MayTrade(d)

TechnicalInv == TechnicalTypeOK /\ OnSchedule

LEMMA TechnicalStart == TechnicalInit => TechnicalInv
BY DEF TechnicalInit, TechnicalInv, TechnicalTypeOK, OnSchedule, Dates

LEMMA TechnicalStep == TechnicalInv /\ [TechnicalNext]_techVars => TechnicalInv'
<1> SUFFICES ASSUME TechnicalInv, [TechnicalNext]_techVars PROVE TechnicalInv'
    OBVIOUS
<1> USE DEF TechnicalInv, TechnicalTypeOK, OnSchedule, Dates
<1>1. CASE DatePasses
    BY <1>1 DEF DatePasses
<1>2. ASSUME NEW d \in 0..today, StoreBars(d) PROVE TechnicalInv'
    BY <1>2 DEF StoreBars
<1>3. ASSUME NEW d \in 0..today, StoreIndex(d) PROVE TechnicalInv'
    BY <1>3 DEF StoreIndex
<1>4. CASE UNCHANGED techVars
    BY <1>4 DEF techVars
<1> QED
    BY <1>1, <1>2, <1>3, <1>4 DEF TechnicalNext

THEOREM TechnicalInvariance == TechnicalSpec => []TechnicalInv
BY TechnicalStart, TechnicalStep, PTL DEF TechnicalSpec

\* Nothing is stored of a date that is not over, nor of one without trade.
THEOREM TechnicalTyped == TechnicalSpec => []TechnicalTypeOK
<1>1. TechnicalInv => TechnicalTypeOK
    BY DEF TechnicalInv
<1> QED
    BY <1>1, TechnicalInvariance, PTL

-----------------------------------------------------------------------------
(* Periods.                                                                *)

\* Every date is in the period that it starts.
LEMMA InPeriod ==
    ASSUME NEW d \in Dates, NEW len \in {WeekLen, MonthLen}
    PROVE  /\ PeriodStart(d, len) \in 0..d
           /\ d \in PeriodStart(d, len)..PeriodEnd(PeriodStart(d, len), len)
<1>1. d \in Nat /\ len \in Nat /\ len > 0
    BY DEF Dates
<1> HIDE TechnicalAssumption
<1>2. d % len \in 0..len - 1 /\ d % len <= d
    BY <1>1
<1> DEFINE r == d % len
<1> HIDE DEF r
<1> QED
    BY <1>1, <1>2 DEF PeriodStart, PeriodEnd, r

\* A schedule has no date after its last.
LEMMA NoneAfterLast ==
    ASSUME NEW start \in Nat, NEW len \in {WeekLen, MonthLen},
           NEW d \in start..PeriodEnd(start, len), MayTrade(d)
    PROVE  LastScheduled(start, len) \in Nat /\ d <= LastScheduled(start, len)
<1> DEFINE open == {x \in start..PeriodEnd(start, len) : MayTrade(x)}
           N == start + len
<1>1. N \in Nat /\ open \in SUBSET (0..N) /\ d \in open
    BY DEF PeriodEnd
<1> HIDE DEF open, N
<1>2. Max(open) \in 0..N /\ d <= Max(open) /\ open # {}
    BY <1>1, Greatest
<1>3. Max(open) \in Nat
    BY <1>1, <1>2
<1> QED
    BY <1>2, <1>3 DEF LastScheduled, open

\* A window begins at its first session, if there is one.
LEMMA WindowHasStart ==
    ASSUME TechnicalAssumption, NEW db, NEW on, NEW t \in Nat,
           NEW S, S = SessionsUpTo(db, on, t), S \subseteq 0..t, S # {}
    PROVE  LET W == WindowTo(db, on, t)
               m == WindowStart(db, on, t)
           IN  m \in W /\ \A s \in W : m <= s /\ s \in S
<1> DEFINE W == WindowTo(db, on, t)
<1>1. TechRules.window_sessions \in Nat \ {0}
    OBVIOUS
<1>2. W # {} /\ W \subseteq S
    BY <1>1, SomeNewest DEF WindowTo, NewestOf
<1>3. W \in SUBSET Nat
    BY <1>2
<1>4. Min(W) \in W /\ \A s \in W : Min(W) <= s
    BY <1>2, <1>3, Least
<1> QED
    BY <1>2, <1>4 DEF WindowStart

\* There is one as soon as t is a session.
LEMMA WindowBegins ==
    ASSUME TechnicalInv, NEW t \in Sessions(Tables, today)
    PROVE  LET W == WindowTo(Tables, today, t)
               m == WindowStart(Tables, today, t)
           IN  /\ SessionsUpTo(Tables, today, t) \subseteq 0..t /\ t \in Dates
               /\ m \in W /\ \A s \in W : m <= s /\ s \in SessionsUpTo(Tables, today, t)
<1>1. /\ t \in Dates /\ t \in Nat /\ SessionsUpTo(Tables, today, t) \subseteq 0..t
      /\ t \in SessionsUpTo(Tables, today, t)
    BY DEF SessionsUpTo, Sessions, Tables, TechnicalInv, TechnicalTypeOK, Dates
<1> QED
    BY <1>1, WindowHasStart, TechnicalAssumption

\* A period that is complete on t has no date with trade after t.
LEMMA CompleteIsOver ==
    ASSUME TechnicalInv, NEW t \in Sessions(Tables, today), NEW len \in {WeekLen, MonthLen},
           NEW d \in Dates, t < d, MayTrade(d), IsComplete(Tables, today, len, PeriodStart(d, len), t)
    PROVE  FALSE
<1> DEFINE start == PeriodStart(d, len)
<1>1. /\ start \in Nat /\ d \in Nat /\ d \in start..PeriodEnd(start, len)
      /\ t \in Nat /\ SessionsUpTo(Tables, today, t) \subseteq 0..t
    BY InPeriod, WindowBegins DEF Dates
<1>2. LastScheduled(start, len) \in Nat /\ d <= LastScheduled(start, len) /\ PeriodEnd(start, len) \in Int
    BY <1>1, NoneAfterLast DEF PeriodEnd
<1> HIDE DEF start
<1>3. CASE \E s \in SessionsUpTo(Tables, today, t) : s > PeriodEnd(start, len)
    BY <1>1, <1>2, <1>3
<1>4. CASE t >= LastScheduled(start, len)
    BY <1>1, <1>2, <1>4
<1> QED
    BY <1>3, <1>4 DEF IsComplete, start

\* The dates of the stock's bars in a period, as a set of numbers.
LEMMA DatesAreDates ==
    ASSUME TechnicalInv, NEW t \in Sessions(Tables, today), NEW len, NEW start
    PROVE  /\ DatesOf(Tables, today, t, len, start) \in SUBSET (0..t) /\ t \in Nat
           /\ \A d \in DatesOf(Tables, today, t, len, start) :
                 d \in Dates /\ MayTrade(d) /\ PeriodStart(d, len) = start
<1>1. WindowStart(Tables, today, t) \in 0..t /\ t \in Dates
    BY WindowBegins
<1>2. \A d \in BarDates(Tables, today, t) : d \in 0..t /\ d \in Dates /\ stored[d] \in DailyBars
    BY <1>1 DEF BarDates, Tables, Dates
<1> QED
    BY <1>1, <1>2 DEF DatesOf, TechnicalInv, OnSchedule, Dates

\* Of a period that is complete on t, a later session sees the same last date as t.
LEMMA SameLastDate ==
    ASSUME TechnicalInv, NEW t \in Sessions(Tables, today), NEW u \in Sessions(Tables, today), t < u,
           NEW len \in {WeekLen, MonthLen}, NEW start,
           DatesOf(Tables, today, t, len, start) # {}, DatesOf(Tables, today, u, len, start) # {},
           IsComplete(Tables, today, len, start, t)
    PROVE  Max(DatesOf(Tables, today, t, len, start)) = Max(DatesOf(Tables, today, u, len, start))
<1> DEFINE Dt == DatesOf(Tables, today, t, len, start)
           Du == DatesOf(Tables, today, u, len, start)
           m == WindowStart(Tables, today, u)
<1>1. Dt \in SUBSET (0..t) /\ Du \in SUBSET (0..u) /\ t \in Nat /\ u \in Nat
    BY DatesAreDates
<1>2. \A d \in Du : d <= t
  <2> SUFFICES ASSUME NEW d \in Du, t < d PROVE FALSE
      BY <1>1
  <2>1. d \in Dates /\ MayTrade(d) /\ PeriodStart(d, len) = start
      BY DatesAreDates
  <2> QED
      BY <2>1, CompleteIsOver
<1>3. \A d \in Du : WindowStart(Tables, today, t) <= d
  <2> SUFFICES ASSUME NEW d \in Du PROVE WindowStart(Tables, today, t) <= d
      OBVIOUS
  <2> DEFINE R == SessionsUpTo(Tables, today, u)
             S == SessionsUpTo(Tables, today, t)
  <2>1. /\ R \subseteq 0..u /\ S \subseteq 0..t /\ m \in WindowTo(Tables, today, u) /\ m \in R
        /\ WindowStart(Tables, today, t) \in S
      BY WindowBegins
  <2>2. d \in 0..t /\ m <= d /\ m \in Nat
      BY <1>1, <1>2, <2>1 DEF DatesOf, BarDates
  <2>3. m \in S /\ S \in SUBSET R
      BY <1>1, <2>1, <2>2 DEF SessionsUpTo, Sessions
  <2>4. IsFiniteSet(R) /\ R \in SUBSET Nat
    <3> HIDE DEF R
    <3>1. R \in SUBSET (0..u) /\ IsFiniteSet(0..u)
        BY <1>1, <2>1, FS_Interval
    <3>2. IsFiniteSet(R)
        BY <3>1, FS_Subset, Zenon
    <3> QED
        BY <1>1, <3>1, <3>2
  <2>5. m \in WindowTo(Tables, today, t)
    <3> HIDE DEF R, S, m
    <3>1. TechRules.window_sessions \in Nat
        OBVIOUS
    <3>2. m \in NewestOf(R, TechRules.window_sessions)
        BY <2>1 DEF WindowTo, R
    <3>3. m \in NewestOf(S, TechRules.window_sessions)
        BY <2>3, <2>4, <3>1, <3>2, NewestReach
    <3> QED
        BY <3>3 DEF WindowTo, S
  <2>6. WindowStart(Tables, today, t) <= m
      BY <2>5, WindowBegins
  <2> QED
      BY <1>1, <2>1, <2>2, <2>6
<1>4. Du \in SUBSET Dt
  <2>1. \A d \in Du : d \in WindowStart(Tables, today, t)..t
    <3>1. WindowStart(Tables, today, t) \in 0..t
        BY WindowBegins
    <3> QED
        BY <1>1, <1>2, <1>3, <3>1
  <2> QED
      BY <2>1 DEF DatesOf, BarDates
<1>5. Max(Dt) \in Du
  <2>1. Max(Dt) \in Dt /\ Max(Du) \in Du /\ Max(Dt) >= Max(Du)
    <3> HIDE DEF Dt, Du
    <3> QED
        BY <1>1, <1>4, Greatest, GreatestOfMore DEF Dt, Du
  <2>2. m \in 0..u /\ m <= Max(Du)
      BY <2>1, <1>1, WindowBegins DEF DatesOf, BarDates
  <2>3. Max(Dt) \in m..u
      BY <1>1, <2>1, <2>2
  <2> QED
      BY <2>1, <2>3 DEF DatesOf, BarDates
<1> HIDE DEF Dt, Du
<1>6. Max(Dt) <= Max(Du) /\ Max(Dt) >= Max(Du) /\ Max(Dt) \in 0..t /\ Max(Du) \in 0..u
    BY <1>1, <1>4, <1>5, Greatest, GreatestOfMore
<1> QED
    BY <1>1, <1>6 DEF Dt, Du

\* A bar of a period.
LEMMA BarOfPeriod ==
    ASSUME NEW db, NEW on, NEW t, NEW len, NEW p \in PeriodBars(db, on, t, len)
    PROVE  /\ p = [start |-> p.start,
                   close |-> db.bars[Max(DatesOf(db, on, t, len, p.start))].c,
                   complete |-> p.complete]
           /\ DatesOf(db, on, t, len, p.start) # {}
           /\ p.complete <=> IsComplete(db, on, len, p.start, t)
           /\ p.complete \in BOOLEAN
<1> DEFINE close(start) == db.bars[Max(DatesOf(db, on, t, len, start))].c
           complete(start) == IsComplete(db, on, len, start, t)
<1>1. PICK d \in BarDates(db, on, t) :
          p = [start |-> PeriodStart(d, len), close |-> close(PeriodStart(d, len)),
               complete |-> complete(PeriodStart(d, len))]
    BY Zenon DEF PeriodBars
<1>2. d \in DatesOf(db, on, t, len, PeriodStart(d, len))
    BY DEF DatesOf
<1>3. complete(PeriodStart(d, len)) \in BOOLEAN
    BY DEF IsComplete
<1> HIDE DEF close, complete
<1>4. /\ p.start = PeriodStart(d, len) /\ p.close = close(PeriodStart(d, len))
      /\ p.complete = complete(PeriodStart(d, len))
    BY <1>1
<1> QED
    BY <1>1, <1>2, <1>3, <1>4 DEF close, complete

\* A week or a month that is complete on a session is over: no later session belongs to it, and
\* from every later session it is complete with the same close (calendar.py:6).
THEOREM CompleteStays == TechnicalSpec => []CompleteIsFinal
<1>1. TechnicalInv => CompleteIsFinal
  <2> SUFFICES ASSUME TechnicalInv,
                      NEW t \in Sessions(Tables, today), NEW u \in Sessions(Tables, today), t < u,
                      NEW len \in {WeekLen, MonthLen},
                      NEW p \in PeriodBars(Tables, today, t, len), p.complete
               PROVE  /\ PeriodStart(u, len) # p.start
                      /\ \A q \in PeriodBars(Tables, today, u, len) : q.start = p.start => q = p
      BY DEF CompleteIsFinal
  <2>1. IsComplete(Tables, today, len, p.start, t)
      BY BarOfPeriod, Zenon
  <2>2. PeriodStart(u, len) # p.start
    <3>1. u \in Dates /\ MayTrade(u)
        BY DEF Sessions, Tables, TechnicalInv, TechnicalTypeOK, OnSchedule, Dates
    <3> QED
        BY <2>1, <3>1, CompleteIsOver
  <2>3. ASSUME NEW q \in PeriodBars(Tables, today, u, len), q.start = p.start
        PROVE  q = p
    <3> DEFINE start == p.start
    <3>1. DatesOf(Tables, today, t, len, start) # {} /\ DatesOf(Tables, today, u, len, start) # {}
      <4>1. DatesOf(Tables, today, t, len, p.start) # {}
          BY BarOfPeriod
      <4>2. DatesOf(Tables, today, u, len, q.start) # {}
          BY <2>3, BarOfPeriod
      <4> QED
          BY <4>1, <4>2, <2>3
    <3>2. Max(DatesOf(Tables, today, t, len, start)) = Max(DatesOf(Tables, today, u, len, start))
        BY <2>1, <3>1, SameLastDate
    <3>3. IsComplete(Tables, today, len, start, u)
      <4> HIDE DEF start
      <4>1. t \in Nat /\ u \in Nat /\ SessionsUpTo(Tables, today, t) \subseteq 0..t
          BY WindowBegins DEF Dates
      <4>2. \A s \in SessionsUpTo(Tables, today, t) : s \in SessionsUpTo(Tables, today, u)
          BY <4>1 DEF SessionsUpTo
      <4>3. CASE \E s \in SessionsUpTo(Tables, today, t) : s > PeriodEnd(start, len)
          BY <4>2, <4>3 DEF IsComplete
      <4>4. CASE t >= LastScheduled(start, len)
        <5>1. PICK d \in DatesOf(Tables, today, t, len, start) : TRUE
            BY <3>1
        <5>2. d \in Dates /\ MayTrade(d) /\ PeriodStart(d, len) = start
            BY DatesAreDates
        <5>3. start \in Nat /\ d \in start..PeriodEnd(start, len)
            BY <5>2, InPeriod DEF Dates
        <5>4. LastScheduled(start, len) \in Nat
            BY <5>2, <5>3, NoneAfterLast
        <5> QED
            BY <4>1, <4>4, <5>4 DEF IsComplete
      <4> QED
          BY <2>1, <4>3, <4>4 DEF IsComplete, start
    <3>4. p.complete = TRUE /\ q.complete = TRUE
        BY <2>1, <2>3, <3>3, BarOfPeriod, Zenon
    <3> DEFINE close(x) == Tables.bars[Max(DatesOf(Tables, today, x, len, start))].c
    <3>5. p = [start |-> start, close |-> close(t), complete |-> p.complete]
        BY BarOfPeriod
    <3>6. q = [start |-> q.start,
               close |-> Tables.bars[Max(DatesOf(Tables, today, u, len, q.start))].c,
               complete |-> q.complete]
        BY <2>3, BarOfPeriod
    <3>7. q = [start |-> start, close |-> close(u), complete |-> TRUE]
        BY <3>4, <3>6, <2>3, Zenon
    <3>8. close(t) = close(u)
        BY <3>2, Zenon
    <3> QED
        BY <3>4, <3>5, <3>7, <3>8, Zenon
  <2> QED
      BY <2>2, <2>3
<1> QED
    BY <1>1, TechnicalInvariance, PTL

-----------------------------------------------------------------------------
(* A run for an earlier session.                                           *)

\* The calendar still reaches the window of the evening of t.
StillReached(t) == today - Lookback <= WindowStart(Evening(t), t, t)

\* Then the sessions the run of today leaves out are none of that window.
LEMMA SameWindow ==
    ASSUME TechnicalInv, NEW t \in Sessions(Tables, today), StillReached(t)
    PROVE  /\ WindowTo(Tables, today, t) = WindowTo(Evening(t), t, t)
           /\ SessionsUpTo(Tables, today, t) =
                 {s \in SessionsUpTo(Evening(t), t, t) : today - Lookback <= s}
           /\ SessionsUpTo(Evening(t), t, t) \subseteq 0..t
<1> DEFINE S == SessionsUpTo(Tables, today, t)
           Eve == SessionsUpTo(Evening(t), t, t)
           n == TechRules.window_sessions
           least == today - Lookback
<1>1. /\ t \in Dates /\ t \in Nat /\ t <= today /\ today \in Nat /\ Lookback \in Nat
      /\ indexed \subseteq Dates /\ \A d \in Dates : d \in Nat
    BY DEF Sessions, Tables, TechnicalInv, TechnicalTypeOK, Dates
<1>2. /\ Eve = {d \in indexed : d <= t /\ t - Lookback <= d /\ stored[d] # NoRows}
      /\ S = {d \in indexed : d <= t /\ least <= d /\ stored[d] # NoRows}
    BY <1>1 DEF SessionsUpTo, Sessions, Evening, Tables
<1>3. t \in Eve /\ Eve \subseteq 0..t /\ least \in Int /\ S = {s \in Eve : least <= s}
  <2>1. t \in indexed /\ stored[t] # NoRows
      BY DEF Sessions, Tables
  <2>2. least \in Int /\ t - Lookback <= least /\ t - Lookback <= t
      BY <1>1
  <2>3. \A d \in indexed : least <= d => t - Lookback <= d
      BY <1>1, <2>2
  <2> HIDE DEF S, Eve, least
  <2>4. t \in Eve /\ Eve \subseteq 0..t
    <3> HIDE TechnicalAssumption
    <3>1. t \in Eve
        BY <1>1, <1>2, <2>1, <2>2
    <3>2. ASSUME NEW d \in Eve PROVE d \in 0..t
      <4>1. d \in indexed /\ d <= t
          BY <1>2
      <4> QED
          BY <1>1, <4>1
    <3> QED
        BY <3>1, <3>2
  <2>5. S = {s \in Eve : least <= s}
      BY <1>2, <2>3
  <2> QED
      BY <2>2, <2>4, <2>5
<1> DEFINE W == WindowTo(Evening(t), t, t)
           m == WindowStart(Evening(t), t, t)
<1> HIDE DEF S, Eve, n, least, W, m
<1>4. m \in W /\ \A s \in W : m <= s /\ s \in Eve
    BY <1>1, <1>3, WindowHasStart, TechnicalAssumption DEF W, m, Eve
<1>5. least <= m
    BY DEF StillReached, least, m
<1>6. W = NewestOf(Eve, n) /\ WindowTo(Tables, today, t) = NewestOf(S, n)
    BY DEF WindowTo, W, Eve, S, n
<1>7. W \subseteq S
  <2>1. m \in Nat /\ \A s \in W : s \in Nat
    <3>1. \A x \in Eve : x \in Nat
        BY <1>1, <1>3
    <3> QED
        BY <3>1, <1>4
  <2>2. \A s \in W : least <= s
      BY <1>3, <1>4, <1>5, <2>1
  <2> QED
      BY <1>3, <1>4, <2>2
<1>8. ASSUME NEW a \in S PROVE {b \in S : b > a} = {b \in Eve : b > a}
  <2>1. a \in Int /\ least <= a /\ \A b \in Eve : b \in Int
      BY <1>1, <1>3
  <2>2. \A b \in Eve : b > a => least <= b
      BY <1>3, <2>1
  <2> QED
      BY <1>3, <2>2
<1>9. NewestOf(Eve, n) = NewestOf(S, n)
  <2>1. \A a \in S : a \in NewestOf(S, n) <=> a \in NewestOf(Eve, n)
      BY <1>3, <1>8 DEF NewestOf
  <2>2. NewestOf(S, n) \subseteq S /\ NewestOf(Eve, n) \subseteq S
      BY <1>6, <1>7 DEF NewestOf
  <2> QED
      BY <2>1, <2>2
<1> QED
    BY <1>3, <1>6, <1>9 DEF S, Eve, W, least

\* Its bars are the same, and so are those of its weeks and months.
LEMMA SameBars ==
    ASSUME TechnicalInv, NEW t \in Sessions(Tables, today), StillReached(t)
    PROVE  /\ WindowStart(Tables, today, t) = WindowStart(Evening(t), t, t)
           /\ BarDates(Tables, today, t) = BarDates(Evening(t), t, t)
           /\ \A d \in BarDates(Tables, today, t) :
                 /\ Tables.bars[d] = Evening(t).bars[d]
                 /\ d \in WindowStart(Tables, today, t)..t /\ d \in Dates
<1>1. WindowStart(Tables, today, t) = WindowStart(Evening(t), t, t)
    BY SameWindow DEF WindowStart
<1>2. WindowStart(Tables, today, t) \in 0..t /\ t \in Dates
    BY WindowBegins
<1> DEFINE m == WindowStart(Tables, today, t)
<1> HIDE DEF m
<1>3. \A d \in m..t : d \in Dates /\ Tables.bars[d] = Evening(t).bars[d]
    BY <1>2 DEF Tables, Evening, Dates, m
<1> QED
    BY <1>1, <1>3 DEF BarDates, m

LEMMA SameComplete ==
    ASSUME TechnicalInv, NEW t \in Sessions(Tables, today), StillReached(t),
           NEW len \in {WeekLen, MonthLen}, NEW d \in BarDates(Tables, today, t)
    PROVE  IsComplete(Tables, today, len, PeriodStart(d, len), t)
               <=> IsComplete(Evening(t), t, len, PeriodStart(d, len), t)
<1> DEFINE start == PeriodStart(d, len)
           S == SessionsUpTo(Tables, today, t)
           Eve == SessionsUpTo(Evening(t), t, t)
           m == WindowStart(Tables, today, t)
           least == today - Lookback
<1>1. /\ d \in Dates /\ d \in m..t /\ m \in 0..t /\ t \in Nat
      /\ today \in Nat /\ Lookback \in Nat
    BY SameBars, WindowBegins DEF TechnicalInv, TechnicalTypeOK, Dates
<1>2. S = {s \in Eve : least <= s} /\ Eve \subseteq 0..t
    BY SameWindow
<1>3. least <= m
    BY SameBars DEF StillReached
<1>4. start \in Nat /\ PeriodEnd(start, len) \in Int /\ d <= PeriodEnd(start, len)
  <2>1. start \in 0..d /\ d \in start..PeriodEnd(start, len) /\ d \in Nat
      BY <1>1, InPeriod DEF Dates
  <2> HIDE DEF start
  <2>2. PeriodEnd(start, len) \in Int
      BY <2>1 DEF PeriodEnd
  <2> QED
      BY <2>1, <2>2
<1>5. (\E s \in S : s > PeriodEnd(start, len)) <=> (\E s \in Eve : s > PeriodEnd(start, len))
  <2> HIDE DEF start, S, Eve, m, least
  <2>1. least \in Int
      BY <1>1 DEF least
  <2> QED
      BY <1>1, <1>2, <1>3, <1>4, <2>1
<1> QED
    BY <1>5 DEF IsComplete

LEMMA SamePeriods ==
    ASSUME TechnicalInv, NEW t \in Sessions(Tables, today), StillReached(t),
           NEW len \in {WeekLen, MonthLen}
    PROVE  PeriodBars(Tables, today, t, len) = PeriodBars(Evening(t), t, t, len)
<1> DEFINE D == BarDates(Tables, today, t)
<1>1. D = BarDates(Evening(t), t, t)
    BY SameBars
<1>2. \A start : DatesOf(Tables, today, t, len, start) = DatesOf(Evening(t), t, t, len, start)
    BY <1>1 DEF DatesOf
<1> DEFINE close(db, on, start) == db.bars[Max(DatesOf(db, on, t, len, start))].c
           complete(db, on, start) == IsComplete(db, on, len, start, t)
<1>3. ASSUME NEW d \in D
      PROVE  close(Tables, today, PeriodStart(d, len)) = close(Evening(t), t, PeriodStart(d, len))
  <2> DEFINE X == DatesOf(Tables, today, t, len, PeriodStart(d, len))
  <2>1. X \in SUBSET (0..t) /\ t \in Nat /\ d \in X /\ X \subseteq D
      BY DatesAreDates DEF DatesOf
  <2>2. Max(X) \in X
    <3> HIDE DEF X
    <3> QED
        BY <2>1, Greatest
  <2>3. Tables.bars[Max(X)] = Evening(t).bars[Max(X)]
    <3> HIDE DEF X
    <3> QED
        BY <2>1, <2>2, SameBars
  <2> QED
      BY <1>2, <2>3
<1>4. ASSUME NEW d \in D
      PROVE  complete(Tables, today, PeriodStart(d, len)) = complete(Evening(t), t, PeriodStart(d, len))
  <2> DEFINE late == complete(Tables, today, PeriodStart(d, len))
             then == complete(Evening(t), t, PeriodStart(d, len))
  <2>1. late <=> then
      BY SameComplete
  <2>2. late \in BOOLEAN /\ then \in BOOLEAN
      BY DEF IsComplete
  <2>3. late = then
    <3> HIDE DEF late, then
    <3> QED
        BY <2>1, <2>2
  <2> QED
      BY <2>3
<1> DEFINE bar(db, on, start) ==
               [start |-> start, close |-> close(db, on, start), complete |-> complete(db, on, start)]
<1>5. \A d \in D : bar(Tables, today, PeriodStart(d, len)) = bar(Evening(t), t, PeriodStart(d, len))
    BY <1>3, <1>4, Zenon
<1>6. /\ PeriodBars(Tables, today, t, len) =
            {bar(Tables, today, start) : start \in {PeriodStart(d, len) : d \in D}}
      /\ PeriodBars(Evening(t), t, t, len) =
            {bar(Evening(t), t, start) : start \in {PeriodStart(d, len) : d \in BarDates(Evening(t), t, t)}}
    BY Zenon DEF PeriodBars
<1> HIDE DEF bar, D
<1> QED
    BY <1>1, <1>5, <1>6

\* Nothing after T changes the score of T (resample.py:7): a run for an earlier session gives what
\* the run of its evening gave from the same bars, as long as the calendar, which is read
\* backwards from today, still reaches the first session of the window.
THEOREM LaterChangesNothing == TechnicalSpec => []RescoreSame
<1>1. TechnicalInv => RescoreSame
  <2> SUFFICES ASSUME TechnicalInv, NEW t \in Sessions(Tables, today), StillReached(t)
               PROVE  TechResult(Tables, today, t, FALSE) = TechResult(Evening(t), t, t, FALSE)
      BY DEF RescoreSame, StillReached
  <2>1. WindowTo(Tables, today, t) = WindowTo(Evening(t), t, t)
      BY SameWindow
  <2>2. [d \in BarDates(Tables, today, t) |-> Tables.bars[d]]
            = [d \in BarDates(Evening(t), t, t) |-> Evening(t).bars[d]]
      BY SameBars
  <2>3. \A len \in {WeekLen, MonthLen} :
            CompleteCloses(Tables, today, t, len) = CompleteCloses(Evening(t), t, t, len)
    <3> SUFFICES ASSUME NEW len \in {WeekLen, MonthLen}
                 PROVE  CompleteCloses(Tables, today, t, len) = CompleteCloses(Evening(t), t, t, len)
        OBVIOUS
    <3>1. PeriodBars(Tables, today, t, len) = PeriodBars(Evening(t), t, t, len)
        BY SamePeriods
    <3> QED
        BY <3>1 DEF CompleteCloses
  <2>4. Ctx(Tables, today, t) = Ctx(Evening(t), t, t)
      BY <2>1, <2>2, <2>3, Zenon DEF Ctx
  <2> QED
      BY <2>4, Zenon DEF TechResult
<1> QED
    BY <1>1, TechnicalInvariance, PTL

HIDE TechnicalAssumption

-----------------------------------------------------------------------------
(***************************************************************************)
(* Scoring: for any listing, model, shares and outcomes.                   *)
(***************************************************************************)
USE ScoringAssumption

LEMMA MissingIsPart == ASSUME NEW why \in MissingReasons PROVE Missing(why) \in PartType
BY DEF Missing, PartType

LEMMA ScoringStart == ScoringInit => ScoringTypeOK
<1>1. NoParts \in [ModelItems -> PartType]
    BY MissingIsPart DEF NoParts, MissingReasons
<1> QED
    BY <1>1 DEF ScoringInit, ScoringTypeOK

LEMMA AllowedIsTyped ==
    ASSUME NEW s \in Listed, NEW parts \in [ModelItems -> PartType]
    PROVE  Allowed(s, parts) \in [ModelItems -> PartType]
<1>1. Missing("stale") \in PartType /\ Missing("unavailable") \in PartType
    BY MissingIsPart DEF MissingReasons
<1> QED
    BY <1>1 DEF Allowed

LEMMA ScoringStep == ScoringTypeOK /\ [ScoringNext]_scoringVars => ScoringTypeOK'
<1> SUFFICES ASSUME ScoringTypeOK, [ScoringNext]_scoringVars PROVE ScoringTypeOK'
    OBVIOUS
<1> USE DEF ScoringTypeOK
<1>1. ASSUME NEW s \in Listed, ReplaceBar(s) PROVE ScoringTypeOK'
    BY <1>1 DEF ReplaceBar
<1>2. CASE CheckDrift
    BY <1>2 DEF CheckDrift
<1>3. CASE Gate
    BY <1>3 DEF Gate, PublishDecision
<1>4. CASE Load
    BY <1>4 DEF Load
<1>5. CASE Compute
  <2>1. PICK parts \in [Listed -> Outcomes] :
           /\ itemParts' = [s \in Listed |-> Allowed(s, parts[s])]
           /\ <<scoringPc, outcome>>' \in {<<"validate", "none">>, <<"end", "failed">>}
      BY <1>5 DEF Compute
  <2>2. \A s \in Listed : Allowed(s, parts[s]) \in [ModelItems -> PartType]
      BY AllowedIsTyped
  <2> QED
      BY <1>5, <2>1, <2>2 DEF Compute
<1>6. CASE ValidateAndPublish
    BY <1>6 DEF ValidateAndPublish
<1>7. CASE UNCHANGED scoringVars
    BY <1>7 DEF scoringVars
<1> QED
    BY <1>1, <1>2, <1>3, <1>4, <1>5, <1>6, <1>7 DEF ScoringNext

\* The variables keep their types, whatever the collector does meanwhile.
THEOREM ScoringTyped == ScoringSpec => []ScoringTypeOK
BY ScoringStart, ScoringStep, PTL DEF ScoringSpec

-----------------------------------------------------------------------------
(* How much is known of a stock.                                           *)

LEMMA MaxOfMore ==
    ASSUME NEW S \in SUBSET ModelItems, NEW R \in SUBSET S
    PROVE  MaxOf(R) \in Int /\ MaxOf(S) \in Int /\ MaxOf(R) <= MaxOf(S)
<1> DEFINE w == [i \in ModelItems |-> Model[i].max]
<1>1. IsFiniteSet(S) /\ IsFiniteSet(R) /\ R \subseteq ModelItems
    BY FS_Subset
<1>2. \A i \in ModelItems : w[i] \in Int /\ w[i] >= 0
    OBVIOUS
<1> HIDE DEF w
<1>3. SumFunctionOnSet(w, R) \in Int /\ SumFunctionOnSet(w, S) \in Int
    BY <1>1, <1>2, SumInt
<1>4. SumFunctionOnSet(w, R) <= SumFunctionOnSet(w, S)
    BY <1>1, <1>2, SumOfMore
<1> QED
    BY <1>3, <1>4 DEF MaxOf, w

\* The points there are to be had are all there only if every item is.
LEMMA CompleteHasAll ==
    ASSUME NEW parts, Complete(parts)
    PROVE  Available(parts) = ModelItems
<1> DEFINE w == [i \in ModelItems |-> Model[i].max]
<1>1. \A i \in ModelItems : w[i] \in Int /\ w[i] > 0
    OBVIOUS
<1>2. SumFunctionOnSet(w, Available(parts)) = SumFunctionOnSet(w, ModelItems)
    BY DEF Complete, MaxOf
<1>3. Available(parts) \in SUBSET ModelItems
    BY DEF Available
<1> HIDE DEF w
<1> QED
    BY <1>1, <1>2, <1>3, SumOfAll

LEMMA MoreCovered ==
    ASSUME NEW old, NEW new, Available(old) \subseteq Available(new), NEW items \in SUBSET ModelItems,
           NEW least \in 0..100, Covered(old, items, least)
    PROVE  Covered(new, items, least)
<1>1. /\ MaxOf(Available(old) \cap items) <= MaxOf(Available(new) \cap items)
      /\ MaxOf(Available(old) \cap items) \in Int /\ MaxOf(Available(new) \cap items) \in Int
    BY MaxOfMore
<1>2. MaxOf(items) \in Int
    BY MaxOfMore
<1>3. least * MaxOf(items) \in Int
    BY <1>2
<1> HIDE ScoringAssumption
<1> QED
    BY <1>1, <1>3 DEF Covered

\* Whoever gets a rank has every item observed, traded on the day the run loaded, is an ordinary
\* share of no special sector, is not withheld for a price that drifted and has its equity
\* (aggregate.py), for any listing, model, shares and outcomes and however the bars change between
\* the gate and the load.  With the shares of the points of one axis and of all it takes that the
\* points there are to be had are all there only if every item is.
THEOREM RankedAreClean == ScoringSpec => []RankedMeansClean
<1>1. ScoringTypeOK => RankedMeansClean
  <2> SUFFICES ASSUME ScoringTypeOK, NEW s \in Listed, RowOf(s, itemParts[s]).rank_eligible
               PROVE  /\ Listing[s].kind = "ordinary" /\ Listing[s].market \in MARKETS
                      /\ Listing[s].sector \notin SpecialSectors
                      /\ snapBar[s] = "traded" /\ s \notin held
                      /\ \A i \in ModelItems : itemParts[s][i].state \in AVAILABLE
                      /\ \A i \in EquityItems : itemParts[s][i].state # "adverse_defined"
      BY DEF RankedMeansClean
  <2> DEFINE parts == itemParts[s]
  <2>1. /\ StatusOf(s, parts) = "scored" /\ RisksOf(s) \cup Impairment(parts) = {}
        /\ Classification(s) = {}
      BY DEF RowOf
  <2>2. ExcludedReason(s) = "none" /\ Complete(parts)
      BY <2>1 DEF StatusOf
  <2>3. Listing[s].kind = "ordinary"
      BY <2>2 DEF ExcludedReason
  <2>4. Listing[s].market \in MARKETS /\ Listing[s].sector \notin SpecialSectors
      BY <2>1, Zenon DEF Classification
  <2>5. snapBar[s] = "traded" /\ s \notin held
    <3>1. snapBar[s] \in {"none", "halted", "traded"}
        BY DEF ScoringTypeOK
    <3> QED
        BY <2>1, <3>1 DEF RisksOf
  <2>6. \A i \in ModelItems : itemParts[s][i].state \in AVAILABLE
      BY <2>2, CompleteHasAll DEF Available
  <2>7. \A i \in EquityItems : itemParts[s][i].state # "adverse_defined"
      BY <2>1 DEF Impairment
  <2> QED
      BY <2>3, <2>4, <2>5, <2>6, <2>7
<1> QED
    BY <1>1, ScoringTyped, PTL

\* One more item is never worse, for any model and any shares.
THEOREM MoreNeverHurts == ScoringSpec => []MoreIsBetter
<1>1. ScoringTypeOK => MoreIsBetter
  <2> SUFFICES ASSUME ScoringTypeOK, NEW s \in Listed, NEW i \in ModelItems \ Available(itemParts[s])
               PROVE  LET old == RowOf(s, itemParts[s])
                          new == RowOf(s, [itemParts[s] EXCEPT ![i] = Observed(0)])
                      IN  /\ Worth[new.status] >= Worth[old.status]
                          /\ old.has_estimate => new.has_estimate \/ new.status = "scored"
      BY DEF MoreIsBetter
  <2> DEFINE before == itemParts[s]
             after == [itemParts[s] EXCEPT ![i] = Observed(0)]
  <2>1. before \in [ModelItems -> PartType]
      BY DEF ScoringTypeOK
  <2>2. Available(before) \subseteq Available(after)
      BY <2>1 DEF Available, Observed, AVAILABLE
  <2> HIDE DEF before, after
  <2>3. ~Complete(before)
      BY CompleteHasAll DEF before
  <2>4. ProvisionalOk(before) => ProvisionalOk(after)
    <3>1. Covered(before, ModelItems, CoverageTotalMin) => Covered(after, ModelItems, CoverageTotalMin)
        BY <2>2, MoreCovered
    <3>2. \A a \in Axes : Covered(before, OfAxis(a), CoverageAxisMin) =>
                             Covered(after, OfAxis(a), CoverageAxisMin)
      <4>1. \A a \in Axes : OfAxis(a) \in SUBSET ModelItems
          BY DEF OfAxis
      <4> QED
          BY <2>2, <4>1, MoreCovered
    <3> QED
        BY <3>1, <3>2 DEF ProvisionalOk
  <2>5. Worth[StatusOf(s, after)] >= Worth[StatusOf(s, before)]
      BY <2>3, <2>4 DEF StatusOf, Worth
  <2>6. \A a \in Axes : Available(before) \cap OfAxis(a) # {} => Available(after) \cap OfAxis(a) # {}
      BY <2>2
  <2> QED
      BY <2>5, <2>6, Zenon DEF RowOf, before, after
<1> QED
    BY <1>1, ScoringTyped, PTL

HIDE ScoringAssumption

-----------------------------------------------------------------------------
(***************************************************************************)
(* All axes.                                                               *)
(***************************************************************************)

\* However the axes are interleaved, each behaves as it does by itself: what is proved of one of
\* them holds here, too.
THEOREM EachByItself ==
    AxesSpec => /\ FlowsSpec /\ DisclosuresSpec /\ NewsSpec /\ TechnicalSpec /\ FundamentalsSpec
                /\ ScoringSpec
<1> DEFINE vars == <<flowVars, discVars, newsVars, techVars, fundVars, scoringVars, axis>>
<1>1. AxesInit => /\ FlowsInit /\ DisclosuresInit /\ NewsInit /\ TechnicalInit
                  /\ FundamentalsInit /\ ScoringInit
    BY DEF AxesInit
<1>2. [AxesNext]_vars => /\ [FlowsNext]_flowVars /\ [DisclosuresNext]_discVars
                         /\ [NewsNext]_newsVars /\ [TechnicalNext]_techVars
                         /\ [FundamentalsNext]_fundVars /\ [ScoringNext]_scoringVars
    BY Zenon DEF AxesNext, OfFlow, OfDisclosure, OfNews, OfTechnical, OfFundamental, OfRanking
<1> QED
    BY <1>1, <1>2, PTL DEF AxesSpec, FlowsSpec, DisclosuresSpec, NewsSpec, TechnicalSpec,
                           FundamentalsSpec, ScoringSpec

\* Every variable of every axis keeps its type.
THEOREM AxesTyped == AxesSpec => []AxesTypeOK
<1>1. /\ FlowsTypeOK /\ DisclosuresTypeOK /\ NewsTypeOK /\ TechnicalTypeOK /\ FundamentalsTypeOK
      /\ ScoringTypeOK
      => AxesTypeOK
    BY DEF AxesTypeOK
<1> QED
    BY <1>1, EachByItself, FlowsTyped, DisclosuresTyped, NewsTyped, TechnicalTyped,
       FundamentalsTyped, ScoringTyped, PTL
=============================================================================
