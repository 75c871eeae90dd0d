------------------------------- MODULE Reports -------------------------------
(***************************************************************************)
(* Which reports of a company a run scores with: candidates, _round and    *)
(* fetch_reports of scoring/sources/dart_fin.py, over _fetch and get_json  *)
(* of scoring/sources/dart.py.  A run for day t wants, for every company,  *)
(* the newest report and the newest annual report received before t.  It   *)
(* asks DART round by round, newest period first, only for the companies   *)
(* that still lack one.  Meanwhile companies file and correct reports: DART *)
(* answers with the latest version of a report and its receipt date, and   *)
(* an earlier version cannot be had any more.                              *)
(*                                                                         *)
(* Report n covers the n-th quarter; a quarter has Quarter days.           *)
(***************************************************************************)
EXTENDS Integers, FiniteSetsExt

CONSTANTS
    Corps,         \* the companies of the run
    Filed,         \* the quarters of which somebody may file a report
    Quarter,       \* days in a quarter
    Years,         \* parameter years of candidates
    FilingLag,     \* filing_lag_days
    Sessions,      \* days runs may be for
    FirstDay,      \* bounds on the days the model goes through
    LastDay,
    CHUNK          \* companies in one request

\* Nobody files sooner than FilingLag days after the end of the quarter.
ASSUME ReportsAssumption ==
    /\ Filed \subseteq Nat \ {0} /\ Quarter \in Nat \ {0}
    /\ FirstDay \in Nat \ {0} /\ LastDay \in Nat /\ FirstDay <= LastDay
    /\ Sessions \subseteq 1..LastDay
    /\ FilingLag \in Nat /\ Years \in Nat /\ CHUNK \in Nat \ {0}

VARIABLES
    today,
    received,      \* company -> quarter -> receipt date of the report, 0 if not filed
    shown,         \* company -> quarter -> receipt date of the version DART shows
    pc,            \* "idle", "round", "ask" or "done"
    t,             \* evaluation day of the run
    todo,          \* candidates whose round is still to come
    quarter,       \* the report this round asks for
    left,          \* companies this round has not asked for yet
    found,         \* companies whose report this round found
    retried,       \* has this request failed before?
    periodic,      \* company -> its newest report, 0 while wanted
    annual         \* company -> its newest annual report, 0 while wanted

dart == <<today, received, shown>>
run == <<pc, t, todo, quarter, left, found, retried, periodic, annual>>
vars == <<dart, run>>

Days == 1..LastDay
Annual(n) == n % 4 = 0
PeriodEnd(n) == n * Quarter
Year(d) == (d - 1) \div (4 * Quarter)

\* Reports of the year of day d and of the years before, as far as one looks back.
Recent(d) == {n \in Filed : Year(d) - Years < Year(PeriodEnd(n)) /\ Year(PeriodEnd(n)) <= Year(d)}

\* Those not too young to have been filed.
Candidates(d) == {n \in Recent(d) : PeriodEnd(n) + FilingLag <= d}

\* Received, and before the evaluation day.
Usable(c, n) == 0 < shown[c][n] /\ shown[c][n] < t

WantPeriodic == {c \in Corps : periodic[c] = 0}
WantAnnual == {c \in Corps : annual[c] = 0}
Need(n) == WantPeriodic \cup IF Annual(n) THEN WantAnnual ELSE {}

IsNewest(n, S) == n \in S /\ \A m \in S : m <= n

\* A report is filed when the model begins, or not yet.
Init ==
    /\ today = FirstDay
    /\ received \in [Corps -> {f \in [Filed -> {0} \cup 1..FirstDay] :
                                 \A n \in Filed : f[n] \in {0, PeriodEnd(n) + FilingLag}}]
    /\ shown = received
    /\ pc = "idle" /\ t = FirstDay
    /\ todo = {} /\ quarter = 0 /\ left = {} /\ found = {} /\ retried = FALSE
    /\ periodic = [c \in Corps |-> 0]
    /\ annual = [c \in Corps |-> 0]

----------------------------------------------------------------------------
NextDay ==
    /\ today < LastDay
    /\ today' = today + 1
    /\ UNCHANGED <<received, shown, run>>

\* Company c files its report for quarter n, late or not.
File(c, n) ==
    /\ received[c][n] = 0
    /\ PeriodEnd(n) + FilingLag <= today
    /\ received' = [received EXCEPT ![c][n] = today]
    /\ shown' = [shown EXCEPT ![c][n] = today]
    /\ UNCHANGED <<today, run>>

\* It corrects it: the correction has a receipt number, and so a date, of its own.
Correct(c, n) ==
    /\ received[c][n] # 0 /\ shown[c][n] # today
    /\ shown' = [shown EXCEPT ![c][n] = today]
    /\ UNCHANGED <<today, received, run>>

----------------------------------------------------------------------------
\* Faulty: reports that are too young to have been filed are asked for.
StartYoung(d) ==
    /\ pc \in {"idle", "done"}
    /\ d <= today
    /\ pc' = "round" /\ t' = d
    /\ todo' = Recent(d)
    /\ periodic' = [c \in Corps |-> 0]
    /\ annual' = [c \in Corps |-> 0]
    /\ UNCHANGED <<dart, quarter, left, found, retried>>

\* A run, perhaps of an earlier day, begins.
Start(d) ==
    /\ pc \in {"idle", "done"}
    /\ d <= today
    /\ pc' = "round" /\ t' = d
    /\ todo' = Candidates(d)
    /\ periodic' = [c \in Corps |-> 0]
    /\ annual' = [c \in Corps |-> 0]
    /\ UNCHANGED <<dart, quarter, left, found, retried>>

\* A round for the newest candidate left; who has what it wants is not asked for.
BeginRound ==
    /\ pc = "round"
    /\ \E n \in todo :
         /\ IsNewest(n, todo)
         /\ Need(n) # {}
         /\ quarter' = n
         /\ left' = Need(n)
    /\ found' = {} /\ retried' = FALSE
    /\ pc' = "ask"
    /\ UNCHANGED <<dart, t, todo, periodic, annual>>

\* No company needs this candidate, but some lacks an annual report.
SkipRound ==
    /\ pc = "round"
    /\ \E n \in todo : IsNewest(n, todo) /\ Need(n) = {} /\ todo' = todo \ {n}
    /\ WantPeriodic \cup WantAnnual # {}
    /\ UNCHANGED <<dart, pc, t, quarter, left, found, retried, periodic, annual>>

Stop ==
    /\ pc = "round"
    /\ todo = {} \/ WantPeriodic \cup WantAnnual = {}
    /\ pc' = "done"
    /\ UNCHANGED <<dart, t, todo, quarter, left, found, retried, periodic, annual>>

\* Faulty: what was received on the evaluation day itself counts.
AskSameDay ==
    /\ pc = "ask" /\ left # {}
    /\ \E S \in kSubset(Min({CHUNK, Cardinality(left)}), left) :
         /\ found' = found \cup {c \in S : Usable(c, quarter) \/ shown[c][quarter] = t}
         /\ left' = left \ S
    /\ retried' = FALSE
    /\ UNCHANGED <<dart, pc, t, todo, quarter, periodic, annual>>

\* One request for a chunk of the companies left, in any order.
Ask ==
    /\ pc = "ask" /\ left # {}
    /\ \E S \in kSubset(Min({CHUNK, Cardinality(left)}), left) :
         /\ found' = found \cup {c \in S : Usable(c, quarter)}
         /\ left' = left \ S
    /\ retried' = FALSE
    /\ UNCHANGED <<dart, pc, t, todo, quarter, periodic, annual>>

\* A request that fails in passing (network, rate limit, maintenance) is sent once more.
AskFails ==
    /\ pc = "ask" /\ left # {} /\ ~retried
    /\ retried' = TRUE
    /\ UNCHANGED <<dart, pc, t, todo, quarter, left, found, periodic, annual>>

\* The second time, or for any other reason, the exception ends the run and what it
\* had found is lost.
AskRaises ==
    /\ pc = "ask" /\ left # {}
    /\ pc' = "idle"
    /\ todo' = {} /\ quarter' = 0 /\ left' = {} /\ found' = {} /\ retried' = FALSE
    /\ periodic' = [c \in Corps |-> 0]
    /\ annual' = [c \in Corps |-> 0]
    /\ UNCHANGED <<dart, t>>

\* Faulty: an annual report is not taken for the newest report.
EndRoundApart ==
    /\ pc = "ask" /\ left = {}
    /\ periodic' = [c \in Corps |->
         IF c \in found \cap WantPeriodic /\ ~Annual(quarter) THEN quarter ELSE periodic[c]]
    /\ annual' = [c \in Corps |->
         IF c \in found \cap WantAnnual /\ Annual(quarter) THEN quarter ELSE annual[c]]
    /\ todo' = todo \ {quarter}
    /\ pc' = "round" /\ quarter' = 0 /\ found' = {}
    /\ UNCHANGED <<dart, t, left, retried>>

\* What the round found is the newest report of those that wanted one.
EndRound ==
    /\ pc = "ask" /\ left = {}
    /\ periodic' = [c \in Corps |-> IF c \in found \cap WantPeriodic THEN quarter ELSE periodic[c]]
    /\ annual' = [c \in Corps |->
         IF c \in found \cap WantAnnual /\ Annual(quarter) THEN quarter ELSE annual[c]]
    /\ todo' = todo \ {quarter}
    /\ pc' = "round" /\ quarter' = 0 /\ found' = {}
    /\ UNCHANGED <<dart, t, left, retried>>

Next ==
    \/ NextDay
    \/ \E c \in Corps, n \in Filed : File(c, n) \/ Correct(c, n)
    \/ \E d \in Sessions : Start(d)
    \/ BeginRound \/ SkipRound \/ Stop
    \/ Ask \/ AskFails \/ AskRaises \/ EndRound

Spec == Init /\ [][Next]_vars

----------------------------------------------------------------------------
\* Types of the variables.  The version shown is never older than the report,
\* and no report comes sooner than FilingLag days after its quarter, or is asked for
\* sooner.
TypeOK ==
    /\ today \in Days
    /\ received \in [Corps -> [Filed -> 0..today]]
    /\ shown \in [Corps -> [Filed -> 0..today]]
    /\ \A c \in Corps, n \in Filed :
         /\ received[c][n] <= shown[c][n]
         /\ received[c][n] = 0 => shown[c][n] = 0
         /\ received[c][n] # 0 => PeriodEnd(n) + FilingLag <= received[c][n]
    /\ pc \in {"idle", "round", "ask", "done"}
    /\ t \in 1..today
    /\ todo \subseteq IF pc = "idle" THEN {} ELSE Candidates(t)
    /\ quarter \in Filed \cup {0}
    /\ left \subseteq Corps /\ found \subseteq Corps
    /\ retried \in BOOLEAN
    /\ periodic \in [Corps -> Filed \cup {0}]
    /\ annual \in [Corps -> Filed \cup {0}]

\* n is the report to use among S: it was received before the evaluation day, and
\* every newer one either was not or has been corrected since; 0 if there is none.
Newest(n, c, S) ==
    /\ n # 0 => n \in S /\ 0 < received[c][n] /\ received[c][n] < t
    /\ \A m \in S : Usable(c, m) => m <= n

\* A run scores with the newest report and the newest annual report received
\* before its evaluation day, whatever is filed or corrected while it asks, and whoever
\* drops out of which round.  Nothing from the future is used.
NewestBeforeT ==
    pc = "done" => \A c \in Corps :
        /\ Newest(periodic[c], c, Recent(t))
        /\ Newest(annual[c], c, {n \in Recent(t) : Annual(n)})

\* The annual report a run compares with is never newer than the report it takes
\* for the newest.
AnnualNotNewer == \A c \in Corps : annual[c] <= periodic[c]

\* Why.  Rounds go from the newest candidate to the oldest; what a company has is
\* right among the candidates whose round is over, and newer than all to come.
Over == Candidates(t) \ todo

RoundInv ==
    pc # "idle" =>
        /\ \A n \in Over, m \in todo : m < n
        /\ \A c \in Corps :
             /\ Newest(periodic[c], c, Over)
             /\ Newest(annual[c], c, {n \in Over : Annual(n)})
        /\ pc = "done" => \/ todo = {}
                          \/ \A c \in Corps : periodic[c] # 0 /\ annual[c] # 0

AskInv ==
    pc = "ask" =>
        /\ IsNewest(quarter, todo)
        /\ left \subseteq Need(quarter) /\ found \subseteq Need(quarter) \ left
        /\ \A c \in found : 0 < received[c][quarter] /\ received[c][quarter] < t
        /\ \A c \in Need(quarter) \ (left \cup found) : ~Usable(c, quarter)

ReportsInv == TypeOK /\ AnnualNotNewer /\ RoundInv /\ AskInv

============================================================================
