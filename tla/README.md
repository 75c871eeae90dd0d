# krx-stock-scoring: verification project

TLA+ models of the scoring program, the TLC configurations that check them on
small instances, and proofs checked by TLAPS. Paths below are relative to the
repository (`src/` here).

1. The system
2. Modules, and how they correspond to the code
3. What the runs check, with which bounds and which fairness
4. What is proved
5. Where the code and its documentation disagree
6. What is not modelled
7. What is left

## 1. The system

Once a day a scheduled job scores every listed stock for one trading day `T` and
one *profile* (a set of axes), stores the rows in PostgreSQL and moves a pointer
that readers follow. Several jobs and people's shells do this on the same
database; the program itself is single-threaded, and processes meet in the tables
only.

| Component | State | Operations | Hard behaviour | What makes it correct |
| --- | --- | --- | --- | --- |
| Run lifecycle (`graph.py`, `nodes.py`, `run.py`, `store/writer.py`) | `kss_runs` (status, heartbeat), result tables, `kss_publications`, `kss_publication_history`, the advisory lock `kss:<T>:<profile>` | nodes calendar, create_run, gate, wait, load, validate, persist, publish, cross; the exception handler of `main`; `sweep_stale_runs` | many small commits per run; death between any two; two runs of one day; a sweep that takes a slow run for a dead one; an exception after the commit that published | readers are only sent to a complete run that passed the gate; the history is a gapless chain; a row's status is true; every row is closed in the end |
| Publication board (the two publication tables) | pointer and history per day | replace the pointer | read in one statement, used in a later one | atomic: as if each publication were one step |
| Recovery job (`run.py` `_recover`, `checks.py`) | the target list, the exit code | list targets, score one by one | the list is stale while it is worked through; one day raises; a day still waits | exit code 0 means the window is published; every day gets its chances before it leaves the window |
| Archive job (`run.py` `_archive`, `archive.py`, `store/writer.py`) | files on disk, `kss_input_snapshots`, result tables | list, export, verify, record, prune, for three tables in turn | files torn or spoiled; aborts; cascading deletes; runs at work on old days | nothing is deleted that is not in an intact file; nothing under a publication; old rows do go in the end |
| Disclosure collection (`nodes.py`, `sources/disclosure.py`, `store/writer.py`) | `kss_disclosures`, shared by all runs | find where to go on, fetch, store by chunks, read the window | filings that appear late; death between chunks; runs for earlier days; runs at once | a run scores with everything DART had of its window |
| Fundamentals loading (`nodes.py`, `sources/dart_fin.py`, `sources/corp.py`) | none but what a run holds; `kss_corp_map`, `kss_financial_versions` are records | rounds of requests for ever older reports | fallback to earlier reports; filing and correction meanwhile; one retry | the newest report before `T`, and never a later one |
| Quality gates (`checks.py`) | none | `gate_bars`, `gate_aux`, `publish_decision`, `recovery_targets` | thresholds; rows that change after they were counted | a market below its threshold always blocks; who is ranked has what the run loaded |
| Technical axis (`calendar.py`, `domain/resample.py`, `domain/technical.py`) | none | sessions, weeks and months, five items, the screen | bars and index stored apart and late; a session scored again later | what is complete is final; nothing after `T` counts |
| Fundamental axis (`domain/financial.py`, `domain/fundamental.py`) | none | read a report, profit of twelve months, medians, seven items | reports in many forms; amounts that cross 0; a median with the stock in it | twelve months are the last four quarters; more profit never costs points |
| Flow axis (`domain/flow.py`) | none | resolve NULLs, streaks, sums, short sales | NULL for "nothing" and for "lost"; rows that come late | a NULL filled in is true; late rows only add |
| Disclosure axis (`domain/disclosure.py`, `domain/flags.py`, `domain/lexicon.py`) | `kss_lexicon_versions`, `kss_risk_events` | match, count events, store verdicts with their rules | corrections whose originals leave the window; rules edited | a case counts once; old verdicts can be repeated |
| News axis (`nodes.py`, `sources/naver.py`, `domain/news.py`) | none but what a run holds | search stock by stock, pick, judge | retries; clocks; an answer with a limit | the three kinds of silence are told apart; the newest related articles of the week count |
| Ranking (`compute.py`, `domain/aggregate.py`, `domain/universe.py`) | none | aggregate, classify, validate | thresholds on coverage, missing items | who is ranked is clean; knowing more is never worse |
| Rules, configuration, database access | none (read only) | | | |
| Workflow (`.github/workflows/score.yml`) | concurrency groups, time limits | starts runs and recoveries | group named by the request, not by `T` | |

Interactions: a run writes the tables the recovery job reads (`kss_publications`),
the sweep repairs (`kss_runs`), and the archive job deletes from (the result
tables). Runs of all days share `kss_disclosures`. There are no messages; every
interaction is a committed transaction, or a lock held within one.

## 2. Modules, and how they correspond to the code

    ResultTables            the tables of a run, the order they are written in
      |-- ScoreRuns         the program `score`, in full
      |     |-- Publication     (refined)  what the publication tables promise
      |     `-- RunLife         (refined)  a run as others see it
      `-- RunLife
            `-- Archive     the program `archive` beside the runs of RunLife
                  `-- Publication   (refined again, now with deletions)
    Recovery                the program `recover`
    DisclosureSync          collection of disclosures by the runs
    Reports                 selection of financial reports by a run
    Parts                   items of a score, steps of points
      |-- Flows, Disclosures, News, Fundamentals      an axis each
      |-- Technical
      |     `-- Rescoring     what Technical gives for a session, evening after evening
      |-- Scoring           from the items of all stocks to the ranking
      `-- MCAxes            the six above beside each other
    MC*                     values for TLC
    ScoreRunsProofs, ArchiveProofs, RecoveryProofs, DisclosureSyncProofs, ReportsProofs
                            theorems about the module of that name
    PartsProofs             sums, ranks, the greatest and the least: lemmas for the axes
      |-- CompanyProofs     theorems about Disclosures, News and Fundamentals
      `-- AxesProofs        theorems about Flows, Technical, Rescoring, Scoring and MCAxes

**One action is one committed transaction** (or, in the publishing transaction,
one statement), because that is what another process can see and where a process
may die. What a process knows (`pc`, `decision`, `cursor`, ...) is lost with it; what
the database holds is not.

**ScoreRuns.** Each element of `Runs` is one invocation. `Start` is the beginning of `main` and
node calendar, and models the concurrency group of the workflow, or a shell. Then one
action per node; node create_run is two transactions (`CreateRun`,
`MarkChecking`), persist is `PersistChunk` per commit and `CountRows`, publish is
`BeginPublish` (`update_run`), `AcquireLock`, `ReadPrevious`, `CommitPublish`.
`WritePlan` says which table each chunk goes to; foreign keys are a guard. `RaiseEarly`
and `Raise` are an exception before and after the row exists, `HandleFailure` what
`main` does then, `Crash` a kill at any point, `Expire` the heartbeat
growing older than the sweep's ninety minutes, `Sweep` the sweep of any process that starts. A
scheduled run cannot expire while it lives: the job's time limit is
shorter (`score.yml:47`); a shell has no limit. The mismatch branch of `CountRows` is in
the model and cannot fire in ScoreRuns alone, where nobody deletes rows; in Archive it can.
The decision of the gate is any of the three.

**Publication** is the abstract specification: pointer, list of past
publications, and which runs are whole. Posting is one step and needs a whole run that was
never posted; a published run's rows are never discarded.

**RunLife** is a run in four phases, the least the archive job has to know. ScoreRuns
implements it, so what Archive shows about RunLife holds for the real runs.

**Archive.** `job` is the place in `_archive`, `pass` the table of the outer
loop, `disk` the files (their rows, or `None` if missing, torn or spoiled), `manifest`
what the export read. Order of exports, order of deletions and the cascade from
scores to parts are the code's. `age` stands for `retention_cutoffs`: how many of the three retention
periods a day has passed; it is fixed while a job is under way, since the job computes the cutoffs
once. `Overlap` says whether a run may be at work on an old day while
a job is under way. Nothing in the code prevents it; the job is run by hand.

**Recovery.** Sessions are numbers. The window slice, the query of publications since
the window's first day, the list taken once, oldest first, and the exit code are
the code's. Scoring one day is one step with the outcomes ScoreRuns gives it. `Punctual` says that
a job lists its targets between any two sessions, which is what the schedule intends.

**DisclosureSync.** `FindSince`, `Fetch`, `Write` (chunk by chunk), `Read`. DART is external:
a filing appears up to `MaxLag` days after its receipt date. `MayDie`, `MayGoBack` and
`MayOverlap` switch on the three things the code does not exclude.

**The axes.** In the code an axis is a function of rows. What makes it hard is where the rows come from, so each module has
the tables, whoever fills them (the collector, the press, the company, the editor of the rules) as actions, and the function as operators
with the code's guards. Runs are the evaluation of these operators for any session at any moment (Flows, Technical, Fundamentals), or actions
where a run takes several steps or stores something (`Judge` of Disclosures, `TakeCutoff`, `Answered`, `FailsForNow`, `Refused` of News, `Gate`, `Load`, `Compute`,
`ValidateAndPublish` of Scoring). Points and amounts are whole numbers; a quotient is compared by cross multiplication, an average is kept as its
sum, and so thresholds are met exactly as by the exact quotient.

* **Flows.** `traded` is what happened, `flowRow` what the collector stored of it. `Settled` and `Value` are `resolve_day`, `Bought` and `Streak` the
  loop that stops at the first gap, `InvestorPart` and `ShortingPart` the items. `CollectFlow` stores a row with NULLs for who traded nothing and
  for at most one amount that was lost, or stores it again with more in it.
* **Disclosures.** `Match`, `Level` are `flags.py`; `FromRules`, `ToRules`, `Version` are `lexicon.py`, a version being the
  contents it is a hash of; `Events` is the counting of corrections, by the key the code has (rule and name); `DisclosurePart` the points. `case` says which
  filings belong together in truth; the code does not see it.
* **News.** Korean time ticks; the runner's clock is `ClockLag` behind. `Answered` is an answer of the search, which holds the newest `DISPLAY` articles and none
  without a date; `FailsForNow` and `Refused` are the two kinds of failure of `_fetch`. `Picked` is window, filter and choice. No two events fall on one tick.
* **Technical.** `stored` and `indexed` are the bars and the index of a date, which come apart. `Sessions`, `IsComplete` are `calendar.py`, `PeriodBars` is
  `resample.py`, `AlignmentPart` to `RsiMacdPart` the five items, `TechResult` the items with the screen. All of them take the tables `db` as a parameter, and those of
  the items the context `Ctx` of the code (`_Ctx`). **Rescoring** compares what they give for the tables as they are with what they give for `Evening(t)`, the tables with
  nothing after `t`.
* **Fundamentals.** `history` is the company's books by quarter, a report shows them in one of `Forms`: which statements, which accounts, with which sums added. `FlowOf` is
  `_flow` and `_span`, `TtmNet` the profit of twelve months, `MedianOf` and `Lookup` the comparison, with the stock among its own
  peers as `sector_stats` has it; then one operator per item.
* **Scoring.** `BarsOk`, `AuxOk`, `PublishDecision` are the gate, `RowOf` is `aggregate`, `Valid` is `validate`. The collector may replace bars and report drift until
  they are loaded (`ReplaceBar`, `CheckDrift`). What the axes give is any of `Outcomes` that the loaded bar allows (`Allowed`).

**Reports.** One run of `fetch_reports`: `BeginRound`, `SkipRound`, `Stop` and `EndRound` are its loop, `Ask` one request of `_round`, `AskFails` and
`AskRaises` the client's retry and exceptions. The sets `want_p` and `want_a` are the companies without an entry in `periodic` and
`annual`. Reports are numbered by quarter, dates are day numbers. DART is external: `File` and `Correct` happen at any
time and take the day's date, and DART shows the latest version only (the code relies on `rcept_no` to tell versions apart,
`schema.sql:191`). `ReportsAssumption` and `File` say that nobody files sooner than `filing_lag_days` after the quarter;
the code saves the requests on this ground (`dart_fin.py:12`).

## 3. What the runs check

Every property was also tried on faulty versions of the definitions (the operators commented *Faulty*);
each property fails for at least one of them.

| Run | Shows | Bounds, and why they are enough |
| --- | --- | --- |
| `lifecycle` | `TypeOK`, `PublishedComplete`, `StatusTellsTruth`, `HistoryChain`, `IndInv`, `OnlyOwnHandlerUnpublishes`, `ScheduledRunsStayClosed`, `ImplementsPublication`, `ImplementsRunLife`, `EventuallyClosed` | two runs, two days, all four groups, one chunk of each of the four tables, no symmetry: a sweep, a kill or an exception at every point, two runs racing for one publication, and one publishing over the other |
| `archive_apart` | `ArchiveTypeOK`, `PublishedWhole`, `ArchiveInv`, `DeletedAreOnDisk`, `ImplementsPublication`, `OnlyPublishedRemain` | two runs of one day (one published, one to archive), one chunk of each of the two tables a foreign key joins, all three passes, spoiled files, aborts, jobs without number |
| `recovery_window` | `TypeOK`, `WindowChances`, `RecoveryInv`, `ExitTellsTruth`, `WindowEventuallyPublished` | window 3, five sessions: days enter, wait and leave the window; a job that ends at its first target leaves two untried |
| `reports` | `TypeOK`, `NewestBeforeT`, `AnnualNotNewer` | two companies in two requests; a quarter has one day; two interim reports and an annual one, so that rounds are skipped; runs of an earlier day, for which the newest report is too young, and of today; a day passes meanwhile |
| `sync_orderly` | `TypeOK`, `WindowComplete` | window 3, refetch 1, lag 1, five days, two runs: the window moves past what is stored |
| `axes_apart` | `AxesTypeOK` and, of the axes in turn, `DerivedIsTrue`, `LateRowsOnlyAdd`; `CountedOnce`, `FilingsPull`, `VerdictsReplay`; `CountsNewestOfWeek`, `SilenceIsKnown`; `CompleteIsFinal`, `RescoreSame`; `TtmIsLastFour`, `ProfitNeverHurts`; `RankedMeansClean`, `MoreIsBetter` | see below |

In `axes_apart` one axis at a time moves, chosen at the beginning: no axis reads what another has made, so nothing is lost by looking at them
one by one, and the product of all would be out of reach. Its bounds:

* flow: three sessions, a long window of all three and a short one of two, so that a gap may be before, in and after the short window; two kinds
  of trading days that sum to 0, one with a 0 in it that is stored as NULL.
* disclosures: two days with a window of one, so that originals leave it; three filings, which make a case with two corrections, or two cases; three rule books, one of them malformed.
* news: two stocks, one with a short name, three articles, answers of two, one article counted, a window of one day, runs for today and for a day too long ago, two tries a stock.
* technical: seven dates in weeks of three with two weekdays, months of four that cross weeks; a low and a high bar; items over two or three bars.
* fundamentals: quarters 7 to 9, that is reports of the third and the annual quarter of one year and the first of the next, with the year before behind them; five histories with losses,
  profits, growth and lost equity; five forms, among them consolidated only, sums for this year only, and accounts missing.
* ranking: three stocks, two of one market; five outcomes per stock, one with points out of range; coverage at, below and above its thresholds; drift
  with and without a failed check.

Runs expected to find a violation: `cross_fails`, `two_jobs`,
`archive_overlap`, `archive_restore`, `sync_dies`, `utc_cutoff` (section 5).

Bounds are all in the configurations: `Runs`, `Days`, `Groups`, `WritePlan`, `Window`,
`LastDay`, `WindowDays`, `Refetch`, `MaxLag`, `Ids`, `Corps`, `Filed`, `Quarter`, `Years`, `FilingLag`,
`Sessions`, `FirstDay`, `CHUNK`, and the values of MCAxes. Bounds in guards are those of time (`LastDay`, `Horizon`, `LastTick`, `LastDate`,
`LastQuarter`), of the filings and articles there are (`MaxFilings`, `MaxPress`), and the counter `listed`, which counts up to `Window`. Deadlock is
checked in every run but `axes_apart` and `utc_cutoff`: each model can always go on, since
another sweep, recovery job, archive job or run of today can always start. An axis may come to its end, when its time is up and all is stored.

Fairness:

* `EventuallyClosed` assumes that heartbeats grow old and that the sweep is run again and again (it runs
  at the start of every program, and one starts every morning). It does not
  assume that a run goes on: a killed one does not.
* `OnlyPublishedRemain` assumes that somebody starts the archive job with `--prune` again and again. This is
  an assumption on the operator, since no workflow runs it; and it is about executions in which
  from some time on the job does not fail.
* `WindowEventuallyPublished` assumes that the scheduler starts job after job, which
  `score.yml` does, and is about executions in which from some time on the job does not fail.

## 4. What is proved

For every value of the constants (any number of runs, days and chunks), from the
named assumptions of the modules:

* `ScoreRunsProofs`. `IndInv` is inductive. `PublishedComplete` is not: that the pointer leads to a complete run follows
  from what the publishing process knows at its program point (`PhaseInv`:
  stored rows are exactly those of the loop so far, and the loop is over), carried past
  its end by what the history remembers (`PostInv`). `HistoryChain` needs that the pointer read in
  one statement is still the pointer in a later one, and that needs that only the
  owner of the lock is between the two (`LockInv`). `JobInv` is for scheduled runs: nobody
  closes the row of one that is at work. From it: type correctness, the three invariants, the two
  action properties, and the refinements of Publication and RunLife.
* `ArchiveProofs`. Type correctness without a hypothesis; the rest under `Overlap = FALSE`. `ArchiveInv`
  is inductive: runs of a pass have ended unpublished for good (`QuietInv`), so what was exported and verified
  is what is there when it is deleted (`DiskInv`), and what a run stored is intact while
  it is at work and while it is published (`WorkInv`).
* `RecoveryProofs`. Type correctness, and `RecoveryInv`, which is inductive: what is neither a target nor published
  failed (`TargetsInv`), and an unpublished day was a target once per session
  since it appeared (`ChancesInv`).
* `DisclosureSyncProofs`. Type correctness without a hypothesis. `WindowComplete` under
  `Orderly`: a filing is at most `Refetch` days late, and no run dies, goes back in time
  or overlaps another (`DisclosureSync_dies.cfg` shows that the hypothesis is needed). A filing a run did not ask
  for is older than the newest stored one by more than `Refetch`, so it was
  there when that newest one was stored, and was in the same batch or an earlier one (`OldIsStored`); the rest it
  holds in its batch until it has written it (`RunKnows`).
* `ReportsProofs`. `ReportsInv` is inductive: what a company has is right among the candidates whose round is over, and those are newer than all
  to come (`RoundInv`); within a round, who was asked and not found has no usable report (`AskInv`). What is filed or corrected meanwhile
  is dated on or after the evaluation day, so it cannot become usable. `NewestBeforeT` follows at the end,
  since what was received before the day is a candidate.

* `PartsProofs`. What the axes need of finite sets. The sums of the models are folds of the library; what a fold is on a set of any size is proved without induction over an
  operator: among the subsets for which a claim fails one would be smallest (`SmallestSet`, by the well-foundedness of `\subset` on finite sets), and it cannot be, since
  a sum is one member and the sum of the rest (`SumStep`). So sums are whole numbers, split over disjoint sets, and do not become less when a
  summand becomes more. In a finite set in order each rank belongs to exactly one (`EachRankOnce`), and if one member is exchanged and none becomes
  less, then the one at each rank is not less (`RanksGrow`).
* `CompanyProofs`, disclosures. `ToRules` gives back the rules `FromRules` was made of, and a version is its contents; a verdict is what some edition of the rules said, and that edition is
  stored (`VerdictsRecorded`): so `VerdictsReplay`, for any rules. `CountedOnce`: filings of one case have one title (`CasesKept`) and
  so one key; of the filings with one key either the originals count, and a case has one, or the first correction alone. `FilingsPull`: a new filing adds one event or puts one in the
  place of another that the same rule judged (`EventsAfter`), so one summand of the points changes at most, and the limits keep the order. The rules must
  be well formed (`WellFormed`): with two rules of one id a filing may take the place of one that was judged otherwise, and the code refuses such rules.
* `CompanyProofs`, news. Type correctness with the place in the list of stocks. `Progress` is what is known of a stock that is through, at work or
  still to come, and gives `SilenceIsKnown`. `CountsNewestOfWeek` is proved under `ClockLag = 0` (`News_utc.cfg` shows that this is needed): articles are numbered
  in time (`InTime`), so an article from before the cutoff is in the answer or `DISPLAY` newer ones are (`Seen`).
* `CompanyProofs`, fundamentals. Type correctness: a run's reports are over. `TtmIsLastFour`: the year before and this year so far overlap in the four quarters asked for, and what is in both is
  what is taken away (`TotalsAdd`). `ProfitNeverHurts`: totals of a profit are not less and what came before the year of the report, and all other accounts, stay
  (`TotalsMore`, `TotalsSame`), so the profit of twelve months is not less and of the same kind (`TtmMore`). The hard item is the PER, where a
  greater profit lowers the median too. Multiplied by the stock's own profit every PER of the sample becomes a weight that does not shrink when the profit grows, the stock's own
  staying its market value (`Weights`); so the two in the middle weigh no less (`RanksGrow`), and the ratio that is compared with the steps is twice the market value over
  their sum (`MedianIs`, `MedianDown`). That sector or market is chosen by their numbers alone makes it one choice (`PriceDown`).
  Assumed of the constants: steps as the rules file has them, compared one way with the better ones first (`StepsOf`, `v0.toml:112`), a market value above 0 (`nodes.py:177`), finitely many peers.
* `AxesProofs`, flow. Type correctness. The inductive invariant of `DerivedIsTrue` says that a stored row is the day's trades, up to NULLs for those who traded nothing and for one
  whose amount was lost: then the sum of what is left is the lost amount with its sign changed, so it is 0 only if nothing was lost. That at most one amount of a row is lost is
  how `CollectFlow` is written, and is needed (section 5). `LateRowsOnlyAdd` follows from it: a row stored
  again has the same value, so each `k` that was a streak is one after it, and the sets of present sessions grow.
* `AxesProofs`, technical. Inductive: the types, and that rows come only from dates on which there may be trade (`OnSchedule`). `CompleteIsFinal`: no date with
  trade of a complete week or month is after the session (`CompleteIsOver`), so a later session sees the same last bar (`SameLastDate`) and finds it complete as well.
  `RescoreSame`: if the calendar of today still reaches the window of that evening, the window is the same (`SameWindow`), with it the bars
  (`SameBars`), what is complete (`SameComplete`) and the periods (`SamePeriods`), and the items are made of nothing else.
* `AxesProofs`, ranking. Type correctness, and sums of points over items. `RankedMeansClean`: the points there are to be had are all available only if every item is, since each has some
  (`CompleteHasAll`); the rest is read off the classification. `MoreIsBetter`: with one more item every share is at least what it was (`MoreCovered`), and who had it all
  had no item left to gain.
* `AxesProofs`, all axes. A step of MCAxes is a step of one axis or stutters (`EachByItself`: AxesSpec implies each axis' own specification), so all of
  the above holds in the module the run checks, and `AxesTypeOK` is the conjunction of the types.

`SyncInv` and `ReportsInv`, the strengthenings two of the proofs go through, are stated with the modules; they are proved and not run.

Only model-checked: liveness (`EventuallyClosed`, `OnlyPublishedRemain`, `WindowEventuallyPublished`), which needs fairness and ENABLED and is out of the prover's
reach. Every invariant and every action property of a passing run is a theorem.

## 5. Where the code and its documentation disagree

Each is a run that ends in the violation of one property; PROJECT.json quotes the
lines.

* `cross_fails`: an exception in node cross marks a published run `failed`; the pointer stays.
* `two_jobs`: a job given the date and a job given none are in different concurrency groups, and work on the same day at once.
* `archive_overlap`: a run of an old day is at work while the archive job prunes its rows; it publishes without them.
* `archive_restore`: the pass for the next table exports a run again and replaces the file of the table already pruned by an empty one.
* `sync_dies`: the newest stored receipt date does not tell that what is older is stored. The same property fails when, in that
  configuration, `MayGoBack` (a recovery run of an earlier day) or `MayOverlap` (two runs at once) is on instead of `MayDie`.
* `utc_cutoff`: the end of the news window is the runner's clock as it is; articles have Korean time. On a runner at UTC the articles of the nine hours before the run are left out.

Seen while modelling, where no text of the repository says otherwise, so that there is no run:

* A day that raises in the recovery job ends the job (`run.py:130`); newer targets wait for the next job, which lists them again.
* The rule for NULLs (`flow.py:67`) errs when two lost amounts of a row cancel out; it cannot know.
* A correction does not count when another case with the same rule and name has its original in the window (`disclosure.py:80`); `CountedOnce` says so in
  its last conjunct. Prefixes other than those of corrections count as originals.
* `ttm_net` does not ask whether the annual report is of the year before, nor whether it is of the same basis; `TtmIsLastFour` has both as conditions.
  An interim report without any sum since the start of the year passes one quarter for it, also when annualized.
* The calendar is read from 800 days before today (`CALENDAR_LOOKBACK_DAYS`), not before `T`: for a session long past the window is
  cut off at its beginning, hence the condition of `RescoreSame`. Bars of dates that are no sessions are used in averages.
* Companies of special sectors have items that do not apply, so that they are never complete.
* Articles published after the cutoff take places of the answer from those before it, hence the condition of `CountsNewestOfWeek`.

## 6. What is not modelled, and why

* The formulas of RSI and MACD: floating point recursions over closes; Technical takes their points for any function of the closes. Rounding of quotients at
  the thresholds: the models compare exactly.
* The count of shares (`share_counts`), the display of sectors (`SectorStats.rows`), the share of the turnover, the label of new listings: computed or shown, but nothing
  is decided by them that the models tell apart. Market value is an input of Fundamentals.
* SQL and the labels of `load_signals`; the texts behind words (normalising names, spaces and letters): a text is the set of the words the program looks for in it.
* The upstream tables, DART, Naver and KRX: external; what they answer is an input, and a
  failure is an exception at the node that asks, or for Naver the stock's status.
* `kss_corp_map`, `kss_financial_versions`, source checks: a run writes them and none reads them back. A corp map version whose first write died stays partial
  (`writer.py:169`); no score depends on it.
* Row level security and the readers' views; loading of the rules; scripts.
* Profiles: they share no lock and no key.

## 7. What is left

* `share_counts` with preferred stock, once it is clear how codes pair up.
* The composition of Scoring's gate with ScoreRuns, whose node gate takes any decision now: it would add no behaviour, only remove some.
