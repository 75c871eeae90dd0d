\* From the rows to the ranking, axis by axis.
SPECIFICATION AxesSpec
CONSTANTS
    None = None
    Horizon = 3
    LongWindow = 3
    ShortWindow = 2
    MinValid = 60
    Trades <- MCTrades
    StreakTiers <- MCStreakTiers
    CumPoints = 3
    Cap <- MCCap
    Losable = {"inst", "foreign_etc"}
    Ratios = {5}
    ShortTiers <- MCShortTiers
    LastDay = 2
    MaxFilings = 3
    WindowDays = 1
    Base = 8
    Positive = 3
    Negative <- MCNegative
    Floor = 0
    MaxPoints = 14
    FatalPoints = 0
    RuleBooks <- MCRuleBooks
    Titles <- MCTitles
    CorrectionMarks = {"corrected"}
    OtherMarks = {"none"}
    SubsidiaryMarkers = {"sub"}
    Reit = FALSE
    Tickers <- MCTickers
    LastTick = 4
    MaxPress = 3
    DayLen = 2
    NewsDays = {0, 2}
    ClockLag = 0
    WindowLen = 2
    MaxLagDays = 1
    MaxArticles = 1
    DISPLAY = 2
    RETRIES = 1
    PerArticle = 3
    Headlines <- MCHeadlines
    ShortNames = {"B"}
    ContextTerms = {"share"}
    Terms <- MCTerms
    LastDate = 6
    WeekLen = 3
    MonthLen = 4
    Weekdays = {0, 1}
    Holidays = {}
    Lookback = 6
    DailyBars <- MCDailyBars
    NoRows = NoRows
    NoBar = NoBar
    TechRules <- MCTechRules
    RsiMacdPoints <- MCRsiMacd
    FirstQuarter = 7
    LastQuarter = 9
    Histories <- MCHistories
    Forms <- MCForms
    Markets <- MCMarkets
    PeerGroups <- MCPeerGroups
    MaxAge = 2
    MinSamples = 3
    FundTiers <- MCFundTiers
    Turnaround = 3
    NoAmount = NoAmount
    Listing <- MCListing
    MARKETS = {"KOSPI", "KOSDAQ"}
    SpecialSectors = {"bank"}
    Model <- MCModel
    TechItems = {"alignment", "volume"}
    BarItems = {"per", "pbr"}
    EquityItems = {"pbr"}
    Outcomes <- MCOutcomes
    ProducesTotal = TRUE
    Experimental = FALSE
    GradeCuts <- MCCuts
    CoverageTotalMin = 80
    CoverageAxisMin = 60
    D_COVERAGE_MIN = 50
    AUX_COVERAGE_MIN = 75
    AuxCounts = {0, 3}
    DriftReports <- MCDrift
INVARIANTS
    AxesTypeOK
    DerivedIsTrue
    CountedOnce
    VerdictsReplay
    CountsNewestOfWeek
    SilenceIsKnown
    CompleteIsFinal
    RescoreSame
    TtmIsLastFour
    ProfitNeverHurts
    RankedMeansClean
    MoreIsBetter
PROPERTIES
    LateRowsOnlyAdd
    FilingsPull
\* Every axis may come to its end.
CHECK_DEADLOCK FALSE
