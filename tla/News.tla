-------------------------------- MODULE News --------------------------------
(***************************************************************************)
(* The news axis: _fetch_news and the cutoff of _load_events (nodes.py),   *)
(* the search of scoring/sources/naver.py with its retries, and is_related,*)
(* judge and score_news of scoring/domain/news.py.                         *)
(*                                                                         *)
(* Articles are numbered as they appear; a title is the set of the words   *)
(* in it that the program looks for, companies' names among them.  The     *)
(* search gives the newest articles of a company only, whatever their age. *)
(* Article times are Korean; the cutoff is what the runner's clock says,   *)
(* which is ClockLag behind it.                                            *)
(***************************************************************************)
EXTENDS Parts, SequencesExt

CONSTANTS
    Tickers,           \* the stocks, in the order of ksc_tickers
    LastTick,          \* bounds on the ticks of the clock and on the articles; no two events
                       \* fall on one tick
    MaxPress,
    DayLen,            \* ticks in a day
    NewsDays,          \* days a run may be for
    ClockLag,          \* Korean time minus the time of the runner
    WindowLen,         \* window_days, in ticks
    MaxLagDays,        \* max_lag_days
    MaxArticles,       \* max_articles
    DISPLAY,           \* articles in an answer
    RETRIES,           \* how often a request is sent again
    PerArticle,        \* per_article
    Headlines,         \* titles the press may give
    ShortNames,        \* the stocks whose name has two letters at most
    ContextTerms,      \* CONTEXT_TERMS
    Terms              \* the lexicon by priority: [norm, exclude, polarity]

Stocks == ToSet(Tickers)

\* ksc_tickers has every stock once; with none the gate stops the run.
ASSUME NewsAssumption ==
    /\ Tickers \in Seq(Stocks) /\ Tickers # <<>>
    /\ \A i, j \in DOMAIN Tickers : Tickers[i] = Tickers[j] => i = j
    /\ LastTick \in Nat /\ MaxPress \in Nat /\ DayLen \in Nat \ {0} /\ ClockLag \in Nat
    /\ WindowLen \in Nat /\ MaxLagDays \in Nat /\ MaxArticles \in Nat /\ DISPLAY \in Nat
    /\ RETRIES \in Nat /\ PerArticle \in Nat
    /\ ShortNames \subseteq Stocks

VARIABLES
    now,               \* Korean time
    press,             \* all articles: [of, at, title, dated]
    newsPc,            \* "idle", "search" or "scored"
    cutoff,            \* the cutoff of the run
    left,              \* stocks still to be searched
    calls,             \* stock -> requests sent for it
    found,             \* stock -> articles of the answer
    answered,          \* stocks that had an answer (not in the code)
    status             \* stock -> news_status

newsVars == <<now, press, newsPc, cutoff, left, calls, found, answered, status>>

DayOf(tick) == tick \div DayLen
PressOf(s) == {a \in DOMAIN press : press[a].of = s}

-----------------------------------------------------------------------------
(* Articles, verdicts, points.                                             *)

\* A short name counts only beside a word that says it is about shares.
IsRelated(a, s) ==
    /\ s \in press[a].title
    /\ s \in ShortNames => press[a].title \cap ContextTerms # {}

Applies(term, title) == term.norm \in title /\ term.exclude \cap title = {}

\* The first term by priority decides.
Judged(title) ==
    LET terms == {i \in DOMAIN Terms : Applies(Terms[i], title)}
    IN  IF terms = {} THEN 0
        ELSE IF Terms[Min(terms)].polarity = "positive" THEN PerArticle ELSE -PerArticle

InWindow(s) ==
    {a \in found[s] : cutoff - WindowLen <= press[a].at /\ press[a].at <= cutoff}

\* Faulty: the newest are taken first, and those not related are dropped from them.
Picked_FilterLast(s) == {a \in NewestOf(InWindow(s), MaxArticles) : IsRelated(a, s)}

Picked(s) == NewestOf({a \in InWindow(s) : IsRelated(a, s)}, MaxArticles)

NewsPart(s) ==
    IF status[s] \in {"not_queried", "source_error"} THEN Missing(status[s])
    ELSE IF Picked(s) = {} THEN NoEvent(0)
    ELSE Observed(MapThenSumSet(LAMBDA a : Judged(press[a].title), Picked(s)))

\* The status stored with the observation.
StoredStatus(s) ==
    IF NewsPart(s).reason \in {"not_queried", "source_error"} THEN NewsPart(s).reason
    ELSE IF NewsPart(s).state = "no_event" THEN "no_event" ELSE "observed"

-----------------------------------------------------------------------------
(* The press and a run.                                                    *)

Unasked == [s \in Stocks |-> "none"]

NewsInit ==
    /\ now = 0 /\ press = <<>> /\ answered = {}
    /\ newsPc = "idle" /\ cutoff = 0 /\ left = <<>>
    /\ calls = [s \in Stocks |-> 0]
    /\ found = [s \in Stocks |-> {}]
    /\ status = Unasked

Tick ==
    /\ now < LastTick
    /\ now' = now + 1
    /\ UNCHANGED <<press, newsPc, cutoff, left, calls, found, answered, status>>

\* Now and then a date cannot be read.
Publish ==
    /\ Len(press) < MaxPress
    /\ now < LastTick /\ now' = now + 1
    /\ \E s \in Stocks, title \in Headlines, dated \in BOOLEAN :
          press' = Append(press, [of |-> s, at |-> now, title |-> title, dated |-> dated])
    /\ UNCHANGED <<newsPc, cutoff, left, calls, found, answered, status>>

\* The cutoff is taken first.  For a day too long ago nothing is searched: the articles of
\* then cannot be had.
TakeCutoff(t) ==
    /\ newsPc = "idle"
    /\ t <= DayOf(now)
    /\ now < LastTick /\ now' = now + 1
    /\ cutoff' = now - ClockLag
    /\ answered' = {}
    /\ calls' = [s \in Stocks |-> 0]
    /\ found' = [s \in Stocks |-> {}]
    /\ IF DayOf(now - ClockLag) - t > MaxLagDays
       THEN newsPc' = "scored" /\ left' = <<>> /\ status' = [s \in Stocks |-> "not_queried"]
       ELSE newsPc' = "search" /\ left' = Tickers /\ status' = Unasked
    /\ UNCHANGED press

Searched(s, outcome) ==
    /\ status' = [status EXCEPT ![s] = outcome]
    /\ left' = Tail(left)
    /\ newsPc' = IF Len(left) = 1 THEN "scored" ELSE newsPc

Ask(s) ==
    /\ newsPc = "search" /\ s = Head(left)
    /\ calls' = [calls EXCEPT ![s] = @ + 1]
    /\ UNCHANGED <<now, press, cutoff>>

\* Articles whose date cannot be read are dropped from the answer.
Answered(s) ==
    /\ Ask(s)
    /\ found' = [found EXCEPT ![s] = {a \in NewestOf(PressOf(s), DISPLAY) : press[a].dated}]
    /\ answered' = answered \cup {s}
    /\ Searched(s, "observed")

\* Faulty: after the last failure the stock counts as searched.
FailsForNow_Quiet(s) ==
    /\ Ask(s)
    /\ UNCHANGED <<found, answered>>
    /\ IF calls[s] < RETRIES THEN UNCHANGED <<left, status, newsPc>>
                             ELSE Searched(s, "observed")

\* Faulty: one time too many.
FailsForNow_Again(s) ==
    /\ Ask(s)
    /\ UNCHANGED <<found, answered>>
    /\ IF calls[s] <= RETRIES THEN UNCHANGED <<left, status, newsPc>>
                              ELSE Searched(s, "source_error")

\* A failure in passing: the request is sent again, up to RETRIES times.
FailsForNow(s) ==
    /\ Ask(s)
    /\ UNCHANGED <<found, answered>>
    /\ IF calls[s] < RETRIES THEN UNCHANGED <<left, status, newsPc>>
                             ELSE Searched(s, "source_error")

\* Any other failure is final, for this stock.
Refused(s) ==
    /\ Ask(s)
    /\ UNCHANGED <<found, answered>>
    /\ Searched(s, "source_error")

Leave ==
    /\ newsPc = "scored"
    /\ newsPc' = "idle"
    /\ UNCHANGED <<now, press, cutoff, left, calls, found, answered, status>>

NewsNext ==
    \/ Tick \/ Publish \/ Leave
    \/ \E t \in NewsDays : TakeCutoff(t)
    \/ \E s \in Stocks : Answered(s) \/ FailsForNow(s) \/ Refused(s)

NewsSpec == NewsInit /\ [][NewsNext]_newsVars

-----------------------------------------------------------------------------
(* Properties.                                                             *)

NewsTypeOK ==
    /\ now \in 0..LastTick /\ cutoff \in -ClockLag..LastTick
    /\ newsPc \in {"idle", "search", "scored"}
    /\ press \in Seq([of : Stocks, at : 0..LastTick, title : Headlines, dated : BOOLEAN])
    /\ left \in Seq(Stocks) /\ Len(left) <= Len(Tickers)
    /\ \A i \in DOMAIN left : left[i] = Tickers[Len(Tickers) - Len(left) + i]
    /\ answered \subseteq Stocks \ ToSet(left)
    /\ calls \in [Stocks -> 0..RETRIES + 1]
    /\ DOMAIN found = Stocks /\ \A s \in Stocks : found[s] \subseteq PressOf(s)
    /\ status \in [Stocks -> {"none", "observed", "not_queried", "source_error"}]

\* "The newest three of the last seven days that pass the filter" (news.py:4), the last seven days
\* being those before the run (nodes.py:314): what a stock that was searched is scored with, unless
\* more of its articles have come out since than one answer holds.
CountsNewestOfWeek ==
    newsPc = "scored" =>
        \A s \in answered :
            LET began == cutoff + ClockLag
                since == {a \in PressOf(s) : began - WindowLen <= press[a].at}
                week == {a \in since : press[a].at <= began /\ press[a].dated}
            IN  Cardinality(since) <= DISPLAY =>
                   Picked(s) = NewestOf({a \in week : IsRelated(a, s)}, MaxArticles)

\* The three kinds of silence are not mixed (news.py:6), and what happens to one stock is not put
\* down to another: what is stored as not asked was never asked, what is stored as failed was asked
\* and never answered, and only what was answered is stored as quiet, or is given points.
SilenceIsKnown ==
    newsPc = "scored" =>
        \A s \in Stocks :
            /\ StoredStatus(s) = "not_queried" <=> calls[s] = 0
            /\ StoredStatus(s) = "source_error" <=> calls[s] > 0 /\ s \notin answered
==============================================================================
