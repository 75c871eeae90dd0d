\* The runner's clock is behind Korean time; the cutoff is taken from it as it is.
SPECIFICATION NewsSpec
CONSTANTS
    Tickers <- MCTickers
    LastTick = 5
    MaxPress = 2
    DayLen = 3
    NewsDays = {0, 1}
    ClockLag = 2
    WindowLen = 6
    MaxLagDays = 1
    MaxArticles = 1
    DISPLAY = 2
    RETRIES = 1
    PerArticle = 3
    Headlines <- MCHeadlines
    ShortNames = {}
    ContextTerms = {}
    Terms <- MCTerms
INVARIANT CountsNewestOfWeek
CHECK_DEADLOCK FALSE
