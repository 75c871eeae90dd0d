------------------------------ MODULE Technical ------------------------------
(***************************************************************************)
(* The technical axis of one stock: scoring/calendar.py and load_calendar  *)
(* of scoring/sources/upstream.py, scoring/domain/resample.py and          *)
(* scoring/domain/technical.py.                                            *)
(*                                                                         *)
(* Dates are numbers; a period (week or month) is known by its length.     *)
(* Somebody else stores the bars of a date and its index, in any order and *)
(* sometimes late; the program reads them on date `on` for a session t.    *)
(* A moving average of n values is kept as their sum.  RSI and MACD are a  *)
(* function of the closes which the model does not look into.              *)
(***************************************************************************)
EXTENDS Parts

CONSTANTS
    LastDate,          \* bound on the dates
    WeekLen, MonthLen,
    Weekdays,          \* the dates of a week on which there may be trade
    Holidays,          \* known holidays; load_calendar knows none
    Lookback,          \* CALENDAR_LOOKBACK_DAYS
    DailyBars,         \* bars: high, low, close, volume
    NoRows,            \* no bar of any stock is stored
    NoBar,             \* bars are stored, none of this stock
    TechRules,         \* the values of the rules file for this axis
    RsiMacdPoints(_)   \* closes -> points

Dates == 0..LastDate

\* Rules of the five items and of the screen; shares are in percent.
ASSUME TechnicalAssumption ==
    /\ {LastDate, WeekLen, MonthLen, Lookback} \subseteq Nat /\ 0 \notin {WeekLen, MonthLen}
    /\ Weekdays \subseteq 0..WeekLen - 1 /\ Holidays \subseteq Dates
    /\ \A b \in DailyBars : b.l <= b.h /\ b.v >= 0
    /\ {NoRows, NoBar} \cap DailyBars = {} /\ NoRows # NoBar
    /\ TechRules.window_sessions \in Nat \ {0} /\ TechRules.min_valid_ratio > 0
    /\ TechRules.ratio[1] <= TechRules.ratio[2] /\ TechRules.bins > 0

VARIABLES
    today,
    stored,            \* date -> NoRows, NoBar or the bar of this stock
    indexed            \* the dates with both index bars

techVars == <<today, stored, indexed>>

TechnicalTypeOK ==
    /\ today \in Dates
    /\ stored \in [Dates -> DailyBars \cup {NoRows, NoBar}]
    /\ indexed \subseteq 0..today
    /\ \A d \in Dates : stored[d] # NoRows => d <= today

-----------------------------------------------------------------------------
(* Calendar, and bars of a period.                                         *)

\* What a run may read: as the tables are now.
Tables == [bars |-> stored, index |-> indexed]

\* A session needs both: bars and index.
Sessions(db, on) == {d \in db.index : on - Lookback <= d /\ db.bars[d] # NoRows}
SessionsUpTo(db, on, t) == {s \in Sessions(db, on) : s <= t}
WindowTo(db, on, t) == NewestOf(SessionsUpTo(db, on, t), TechRules.window_sessions)

PeriodStart(d, len) == d - (d % len)
PeriodEnd(start, len) == start + len - 1
MayTrade(d) == d % WeekLen \in Weekdays /\ d \notin Holidays

\* Faulty: the last session there is, instead of the last there may be.
LastScheduled_Seen(start, len) ==
    LET open == {d \in start..PeriodEnd(start, len) : d \in indexed}
    IN  IF open = {} THEN start ELSE Max(open)

LastScheduled(start, len) ==
    LET open == {d \in start..PeriodEnd(start, len) : MayTrade(d)}
    IN  IF open = {} THEN start ELSE Max(open)

\* Faulty: sessions after t count.
IsComplete_Future(db, on, len, start, t) ==
    \/ \E s \in Sessions(db, on) : s > PeriodEnd(start, len)
    \/ t >= LastScheduled(start, len)

IsComplete(db, on, len, start, t) ==
    \/ \E s \in SessionsUpTo(db, on, t) : s > PeriodEnd(start, len)
    \/ t >= LastScheduled(start, len)

\* The dates of the stock's bars from the first session of the window; not all are sessions.
WindowStart(db, on, t) == IF WindowTo(db, on, t) = {} THEN t ELSE Min(WindowTo(db, on, t))
BarDates(db, on, t) == {d \in WindowStart(db, on, t)..t : db.bars[d] \in DailyBars}

\* One bar per period: its close is the close of its last date.
DatesOf(db, on, t, len, start) == {d \in BarDates(db, on, t) : PeriodStart(d, len) = start}
PeriodBars(db, on, t, len) ==
    {[start |-> start,
      close |-> db.bars[Max(DatesOf(db, on, t, len, start))].c,
      complete |-> IsComplete(db, on, len, start, t)] :
        start \in {PeriodStart(d, len) : d \in BarDates(db, on, t)}}

CompleteCloses(db, on, t, len) ==
    LET bars == {p \in PeriodBars(db, on, t, len) : p.complete}
        starts == Ascending({p.start : p \in bars})
    IN  [i \in DOMAIN starts |-> (CHOOSE p \in bars : p.start = starts[i]).close]

\* What the items are made from.
Ctx(db, on, t) ==
    [t |-> t, window |-> WindowTo(db, on, t),
     bars |-> [d \in BarDates(db, on, t) |-> db.bars[d]],
     weekly |-> CompleteCloses(db, on, t, WeekLen),
     monthly |-> CompleteCloses(db, on, t, MonthLen)]

Closes(ctx) ==
    LET dates == Ascending(DOMAIN ctx.bars)
    IN  [i \in DOMAIN dates |-> ctx.bars[dates[i]].c]

-----------------------------------------------------------------------------
(* The items.                                                              *)

\* n times the average of the n values of xs that end `back` before its end, if it has them.
Defined(xs, n, back) == Len(xs) >= n + back
Average(xs, n, back) == SumFunctionOnSet(xs, Len(xs) - back - n + 1..Len(xs) - back)
AverageAbove(xs, short, long, back) ==
    Average(xs, short, back) * long > Average(xs, long, back) * short

If(condition, points) == IF condition THEN points ELSE 0

AlignmentPart(ctx) ==
    LET daily == Closes(ctx)
        week == TechRules.weekly_pair
        month == TechRules.monthly_close_above
    IN  IF /\ \A pair \in TechRules.daily_pairs :
                 Defined(daily, pair[1], 0) /\ Defined(daily, pair[2], 0)
           /\ Defined(ctx.weekly, week[1], 0) /\ Defined(ctx.weekly, week[2], 0)
           /\ Defined(ctx.monthly, 1, 0) /\ Defined(ctx.monthly, month[1], 0)
        THEN Observed(MapThenSumSet(LAMBDA pair : If(AverageAbove(daily, pair[1], pair[2], 0), pair[3]),
                                    TechRules.daily_pairs)
                      + If(AverageAbove(ctx.weekly, week[1], week[2], 0), week[3])
                      + If(AverageAbove(ctx.monthly, 1, month[1], 0), month[2]))
        ELSE Missing("insufficient_history")

\* The short average crosses the long one from below, `back` bars before the last.
Crosses(xs, cross, back) ==
    ~AverageAbove(xs, cross[1], cross[2], back + 1) /\ AverageAbove(xs, cross[1], cross[2], back)

TrendPart(ctx) ==
    LET daily == Closes(ctx)
        slope == TechRules.slope_sma
        cross == TechRules.golden_cross
    IN  IF /\ Len(daily) >= cross[2] + TechRules.golden_window
           /\ Defined(daily, slope, TechRules.slope_lookback)
           /\ Defined(daily, TechRules.close_above_sma, 0)
        THEN Observed(
               If(Average(daily, slope, 0) > Average(daily, slope, TechRules.slope_lookback),
                  TechRules.slope_points)
               + If(\E back \in 0..TechRules.golden_window - 1 : Crosses(daily, cross, back),
                    TechRules.golden_points)
               + If(AverageAbove(daily, 1, TechRules.close_above_sma, 0), TechRules.close_points))
        ELSE Missing("insufficient_history")

\* The last n sessions of the calendar, and those of them on which the stock was traded.
LastOf(ctx, n) == NewestOf(ctx.window, n)
TradedOn(ctx, n) == {d \in LastOf(ctx, n) : d \in DOMAIN ctx.bars /\ ctx.bars[d].v > 0}
EnoughTraded(ctx, n) ==
    100 * Cardinality(TradedOn(ctx, n)) >= TechRules.min_valid_ratio * Cardinality(LastOf(ctx, n))
Usable(ctx, n) == Cardinality(ctx.window) >= n /\ EnoughTraded(ctx, n)

Volume(ctx, S) == MapThenSumSet(LAMBDA d : ctx.bars[d].v, S)

\* The stock's close before d, from its own bar; its first bar has none, and counts as unmoved.
CloseBefore(ctx, d) ==
    LET before == {b \in DOMAIN ctx.bars : b < d}
    IN  ctx.bars[IF before = {} THEN d ELSE Max(before)].c

VolumePart(ctx) ==
    LET short == TradedOn(ctx, TechRules.ratio[1])
        long == TradedOn(ctx, TechRules.ratio[2])
        moves == TradedOn(ctx, TechRules.updown_window)
        ups == {d \in moves : ctx.bars[d].c > CloseBefore(ctx, d)}
        downs == {d \in moves : ctx.bars[d].c < CloseBefore(ctx, d)}
    IN  IF /\ Usable(ctx, TechRules.ratio[2]) /\ Usable(ctx, TechRules.updown_window)
           /\ EnoughTraded(ctx, TechRules.ratio[1])
        THEN Observed(
               TierPoints(100 * Volume(ctx, short) * Cardinality(long),
                          Times(TechRules.ratio_tiers, Cardinality(short) * Volume(ctx, long)))
               + If(/\ ups # {}
                    /\ downs # {} =>
                          Volume(ctx, ups) * Cardinality(downs) > Volume(ctx, downs) * Cardinality(ups),
                    TechRules.updown_points))
        ELSE Missing("insufficient_history")

\* Volume by price: typical prices (h + l + c) / 3, kept as their triple, in bins; what is traded
\* most, the lowest of equals, and what is above the close.
Bin(price, low, high) ==
    Max({0, Min({TechRules.bins - 1, ((price - low) * TechRules.bins) \div (high - low)})})

ProfilePoints(ctx, days, low, high, close) ==
    LET bins == 0..TechRules.bins - 1
        typical(d) == ctx.bars[d].h + ctx.bars[d].l + ctx.bars[d].c
        volume == [k \in bins |-> Volume(ctx, {d \in days : Bin(typical(d), low, high) = k})]
        poc == Min({k \in bins : \A j \in bins : volume[k] >= volume[j]})
        above == SumFunctionOnSet(volume, {k \in bins : k > Bin(close, low, high)})
    IN  If(2 * TechRules.bins * (close - low) > (2 * poc + 1) * (high - low), TechRules.poc_points)
            + TierPoints(100 * above, Times(TechRules.overhead_tiers, Volume(ctx, days)))

ProfilePart(ctx) ==
    LET days == TradedOn(ctx, TechRules.profile_window)
        low == 3 * Min({ctx.bars[d].l : d \in days})
        high == 3 * Max({ctx.bars[d].h : d \in days})
    IN  IF ~Usable(ctx, TechRules.profile_window) THEN Missing("insufficient_history")
        ELSE IF high <= low THEN Missing("invalid_value")
        ELSE Observed(ProfilePoints(ctx, days, low, high, 3 * ctx.bars[ctx.t].c))

\* After bars that all close the same there is no RSI.
RsiMacdPart(ctx) ==
    LET daily == Closes(ctx)
    IN  IF Len(daily) < TechRules.min_bars \/ \A i \in DOMAIN daily : daily[i] = daily[1]
        THEN Missing("insufficient_history")
        ELSE Observed(RsiMacdPoints(daily))

TechParts(ctx, drifted) ==
    IF drifted THEN [i \in 1..5 |-> Missing("stale")]
    ELSE IF ctx.t \notin DOMAIN ctx.bars THEN [i \in 1..5 |-> Missing("unavailable")]
    ELSE <<AlignmentPart(ctx), TrendPart(ctx), VolumePart(ctx), ProfilePart(ctx), RsiMacdPart(ctx)>>

\* Nothing is said of a stock with an item missing.
PassesScreen(ctx, parts) ==
    LET order == TechRules.sma_order
        daily == Closes(ctx)
    IN  IF (\A i \in 1..5 : parts[i].state = "observed") /\ \A i \in 1..3 : Defined(daily, order[i], 0)
        THEN IF /\ MapThenSumSet(LAMBDA i : parts[i].points, 1..5) >= TechRules.tech_min
                /\ AverageAbove(daily, order[1], order[2], 0)
                /\ AverageAbove(daily, order[2], order[3], 0)
             THEN "yes" ELSE "no"
        ELSE "unknown"

TechResult(db, on, t, drifted) ==
    LET ctx == Ctx(db, on, t)
        parts == TechParts(ctx, drifted)
    IN  [parts |-> parts, passes_screen |-> PassesScreen(ctx, parts)]

-----------------------------------------------------------------------------
(* Time, and the collector.                                                *)

TechnicalInit ==
    /\ today = 0 /\ stored = [d \in Dates |-> NoRows] /\ indexed = {}

DatePasses ==
    /\ today < LastDate
    /\ today' = today + 1
    /\ UNCHANGED <<stored, indexed>>

\* The bars of a date; the bar of this stock may come after those of the others.
StoreBars(d) ==
    /\ MayTrade(d) /\ stored[d] \notin DailyBars
    /\ \E bar \in (DailyBars \cup {NoBar}) \ {stored[d]} : stored' = [stored EXCEPT ![d] = bar]
    /\ UNCHANGED <<today, indexed>>

StoreIndex(d) ==
    /\ MayTrade(d) /\ d \notin indexed
    /\ indexed' = indexed \cup {d}
    /\ UNCHANGED <<today, stored>>

TechnicalNext == DatePasses \/ \E d \in 0..today : StoreBars(d) \/ StoreIndex(d)

TechnicalSpec == TechnicalInit /\ [][TechnicalNext]_techVars

-----------------------------------------------------------------------------
(* Properties.                                                             *)

\* A week or a month that is complete on a session is over (calendar.py:6): no later session
\* belongs to it, and from every later session it is complete with the same close.
CompleteIsFinal ==
    \A t, u \in Sessions(Tables, today), len \in {WeekLen, MonthLen} :
        t < u =>
            \A p \in PeriodBars(Tables, today, t, len) : p.complete =>
                /\ PeriodStart(u, len) # p.start
                /\ \A q \in PeriodBars(Tables, today, u, len) : q.start = p.start => q = p
==============================================================================
