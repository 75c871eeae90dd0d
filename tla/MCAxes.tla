-------------------------------- MODULE MCAxes --------------------------------
\* Values for Axes_apart.cfg: from the rows to the ranking.  In the code no axis reads what another
\* one has made, and the ranking reads only the parts; so each is looked at by itself: `axis` says
\* which, and the others stay as they begin.
EXTENDS Flows, Disclosures, News, Rescoring, Fundamentals, Scoring

VARIABLE axis

\* Flow: two stocks' worth of investors, one of them buying and selling foreign accounts.
MCTrades ==
    {[inst |-> 1, foreign |-> 1, foreign_etc |-> -1, indiv |-> -2, corp_etc |-> 1],
     [inst |-> -1, foreign |-> 2, foreign_etc |-> 0, indiv |-> -2, corp_etc |-> 1]}
Step(b, c, p) == [bound |-> b, cmp |-> c, points |-> p]
MCStreakTiers == <<Step(2, "ge", 3), Step(1, "ge", 1)>>
MCShortTiers == <<Step(8, "lt", 2)>>
MCCap == [inst |-> 5, foreign |-> 6]

\* Disclosures: two editions of the rules that differ in a level, in fatality and in the note, and
\* one with the same rule twice, which stops the run.
RuleAs(id, level, keywords, exclude, on_note, fatal) ==
    [id |-> id, level |-> level, keywords |-> keywords, exclude |-> exclude,
     on_note |-> on_note, fatal |-> fatal]
MCContract == RuleAs("contract", "positive", {"contract"}, {}, FALSE, FALSE)
MCRuleBooks ==
    {<<RuleAs("delisting", "red", {"delist"}, {"lifted"}, FALSE, TRUE), MCContract>>,
     <<RuleAs("opinion", "red", {"delist", "adverse"}, {}, TRUE, FALSE),
       RuleAs("contract", "positive", {"contract"}, {"adverse"}, FALSE, FALSE)>>,
     <<MCContract, MCContract>>}
MCTitles ==
    {[name |-> {"delist"}, note |-> {}], [name |-> {"delist", "sub"}, note |-> {}],
     [name |-> {"contract"}, note |-> {}], [name |-> {"notice"}, note |-> {}]}
MCNegative == -4

\* News: B is a name of two letters; a rumour is no delisting.
MCTickers == <<"A", "B">>
MCHeadlines == {{"A", "B", "order"}, {"A", "B", "delist", "order", "share"}}
MCTerms ==
    <<[norm |-> "delist", exclude |-> {"rumour"}, polarity |-> "fatal"],
      [norm |-> "order", exclude |-> {}, polarity |-> "positive"]>>

\* Technical: the stock closes high or low, or has no bar.
BarAs(h, l, c, v) == [h |-> h, l |-> l, c |-> c, v |-> v]
MCDailyBars == {BarAs(3, 1, 3, 2), BarAs(2, 1, 1, 1)}
MCTechRules ==
    [window_sessions |-> 3, min_valid_ratio |-> 60,
     daily_pairs |-> {<<1, 2, 2>>}, weekly_pair |-> <<1, 2, 2>>, monthly_close_above |-> <<1, 3>>,
     slope_sma |-> 1, slope_lookback |-> 1, slope_points |-> 2,
     golden_cross |-> <<1, 2>>, golden_window |-> 1, golden_points |-> 2,
     close_above_sma |-> 2, close_points |-> 2,
     ratio |-> <<1, 2>>, ratio_tiers |-> <<Step(120, "ge", 3), Step(100, "ge", 1)>>,
     updown_window |-> 2, updown_points |-> 3,
     profile_window |-> 2, bins |-> 2, poc_points |-> 4,
     overhead_tiers |-> <<Step(25, "lt", 3), Step(50, "lt", 1)>>,
     min_bars |-> 3, tech_min |-> 10, sma_order |-> <<1, 2, 3>>]
MCRsiMacd(closes) == closes[Len(closes)]

\* Fundamentals: a company that loses money in its first year, and what may follow; equity may be
\* gone.
Books(revenue, profit, equity) ==
    [CFS |-> [revenue |-> revenue + 2, operating |-> profit + 1, net |-> profit,
              liabilities |-> 20, equity |-> equity],
     OFS |-> [revenue |-> revenue, operating |-> profit, net |-> profit - 1,
              liabilities |-> 10, equity |-> equity]]
HistoryOf(second, third, equity) ==
    [q \in 1..9 |-> Books(8 + q, IF q <= 4 THEN -1 ELSE IF q <= 8 THEN second ELSE third, equity)]
MCHistories ==
    {HistoryOf(1, 1, 4), HistoryOf(2, 1, 4), HistoryOf(-3, 1, 4), HistoryOf(-1, -1, -2),
     HistoryOf(-1, 3, -2)}
FormAs(statements, accounts, added, comparable) ==
    [statements |-> statements, accounts |-> accounts, added |-> added, comparable |-> comparable]
MCForms ==
    {FormAs({"CFS", "OFS"}, Accounts, "both", TRUE), FormAs({"OFS"}, Accounts, "now", TRUE),
     FormAs({"OFS"}, Accounts, "both", TRUE), FormAs({"CFS"}, Accounts, "neither", TRUE),
     FormAs({"CFS"}, {"net", "operating"}, "both", FALSE)}
MCMarkets ==
    {NoAmount, [cap |-> 30, div_yield |-> 2], [cap |-> 60, div_yield |-> NoAmount]}
Peer(name, near, per, pbr) == [name |-> name, near |-> near, per |-> per, pbr |-> pbr]
MCPeerGroups == {{}, {Peer(1, TRUE, 5, 0), Peer(2, FALSE, 20, 1), Peer(3, TRUE, 7, 3)}}
MCFundTiers ==
    [per |-> <<Step(70, "le", 6), Step(130, "le", 3)>>,
     pbr |-> <<Step(80, "le", 5), Step(200, "le", 2)>>,
     op_margin |-> <<Step(10, "ge", 4), Step(0, "gt", 1)>>,
     roe |-> <<Step(10, "ge", 3), Step(0, "gt", 1)>>,
     debt_ratio |-> <<Step(100, "le", 3), Step(300, "le", 1)>>, div |-> <<Step(2, "ge", 2)>>,
     revenue_growth |-> <<Step(30, "ge", 3), Step(5, "ge", 1)>>,
     op_growth |-> <<Step(30, "ge", 3), Step(5, "ge", 1)>>]

\* Ranking: an ordinary stock and a preferred one on one market, a bank on the other.
StockAs(m, kind, sector) == [market |-> m, kind |-> kind, sector |-> sector]
MCListing ==
    [A |-> StockAs("KOSPI", "ordinary", "steel"), B |-> StockAs("KOSPI", "preferred", "steel"),
     C |-> StockAs("KOSDAQ", "ordinary", "bank")]
ItemAs(a, m) == [axis |-> a, max |-> m]
MCModel ==
    [alignment |-> ItemAs("technical", 6), volume |-> ItemAs("technical", 4),
     per |-> ItemAs("fundamental", 4), pbr |-> ItemAs("fundamental", 6),
     foreign |-> ItemAs("flow", 2), inst |-> ItemAs("flow", 3)]
PartsAs(a, v, per, pbr, f, i) ==
    [alignment |-> a, volume |-> v, per |-> per, pbr |-> pbr, foreign |-> f, inst |-> i]
MCOutcomes ==
    {PartsAs(Observed(6), Observed(2), Observed(4), Observed(3), Observed(0), Observed(1)),
     PartsAs(Observed(6), Observed(2), Adverse(0), Adverse(0), Observed(0), Observed(3)),
     PartsAs(Observed(6), Missing("insufficient_history"), Observed(1), Observed(3), Observed(2),
             Observed(2)),
     PartsAs(Observed(6), Observed(2), Observed(4), Observed(3), Missing("unavailable"),
             Missing("unavailable")),
     PartsAs(Observed(6), Observed(2), Missing("stale"), Observed(3), Observed(9),
             Missing("unavailable"))}
MCCuts == <<12, 8, 4>>
MCDrift == {[failed |-> FALSE, drifted |-> {"A"}], [failed |-> TRUE, drifted |-> {"A"}]}

-----------------------------------------------------------------------------
AxisNames == {"flow", "disclosure", "news", "technical", "fundamental", "ranking"}

\* What begins in several ways does so only when its turn has come.
AxesInit ==
    /\ axis \in AxisNames
    /\ FlowsInit /\ DisclosuresInit /\ NewsInit /\ TechnicalInit /\ FundamentalsInit /\ ScoringInit
    /\ axis # "flow" => traded = [d \in 1..Horizon |-> CHOOSE trade \in Trades : TRUE]
    /\ axis # "disclosure" => rules = CHOOSE book \in RuleBooks : TRUE
    /\ axis # "fundamental" =>
          /\ history = (CHOOSE h \in Histories : TRUE) /\ market = NoAmount /\ peers = {}
          /\ ~special
    /\ axis # "ranking" => dayBar = [s \in Listed |-> "traded"]

OfFlow == axis = "flow" /\ FlowsNext
          /\ UNCHANGED <<discVars, newsVars, techVars, fundVars, scoringVars, axis>>
OfDisclosure == axis = "disclosure" /\ DisclosuresNext
                /\ UNCHANGED <<flowVars, newsVars, techVars, fundVars, scoringVars, axis>>
OfNews == axis = "news" /\ NewsNext
          /\ UNCHANGED <<flowVars, discVars, techVars, fundVars, scoringVars, axis>>
OfTechnical == axis = "technical" /\ TechnicalNext
               /\ UNCHANGED <<flowVars, discVars, newsVars, fundVars, scoringVars, axis>>
OfFundamental == axis = "fundamental" /\ FundamentalsNext
                 /\ UNCHANGED <<flowVars, discVars, newsVars, techVars, scoringVars, axis>>
OfRanking == axis = "ranking" /\ ScoringNext
             /\ UNCHANGED <<flowVars, discVars, newsVars, techVars, fundVars, axis>>

AxesNext ==
    OfFlow \/ OfDisclosure \/ OfNews \/ OfTechnical \/ OfFundamental \/ OfRanking

AxesSpec ==
    AxesInit /\ [][AxesNext]_<<flowVars, discVars, newsVars, techVars, fundVars, scoringVars, axis>>

\* Every variable keeps its type.
AxesTypeOK ==
    /\ FlowsTypeOK /\ DisclosuresTypeOK /\ NewsTypeOK /\ TechnicalTypeOK /\ FundamentalsTypeOK
    /\ ScoringTypeOK
==============================================================================
