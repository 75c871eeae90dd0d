------------------------------ MODULE Recovery ------------------------------
(***************************************************************************)
(* The recovery job (`python -m scoring.run recover`, every morning):      *)
(* scoring/run.py _recover, recovery_targets of scoring/checks.py and      *)
(* published_dates of scoring/store/writer.py.  The job finds the sessions *)
(* among the last Window that have no publication and scores them one by   *)
(* one, oldest first.  Scoring one day is one step here, with the outcomes *)
(* that ScoreRuns gives it; its sweep of stale runs is there too.  Trading *)
(* sessions are numbered in order, starting with the first one scored.     *)
(***************************************************************************)
EXTENDS Naturals

CONSTANTS
    Window,     \* --window: how many sessions back the job looks
    LastDay,    \* bound on the sessions
    Punctual    \* does a job list its targets between any two sessions?

ASSUME WindowAssumption == Window \in Nat \ {0}
ASSUME LastDayAssumption == LastDay \in Nat \ {0}
ASSUME PunctualAssumption == Punctual \in BOOLEAN

Days == 1..LastDay
Outcomes == {"published", "published_degraded", "waiting_upstream"}

VARIABLES
    today,      \* the last session the upstream calendar has
    published,  \* days with a row in kss_publications
    job,        \* "off", "listing" or "scoring"
    seen,       \* the last session the job read
    targets,    \* the days the job has still to score
    failed,     \* some day of the job returned a code other than 0
    exit,       \* how the last job ended: "ok", "failed", "raised" or "killed"
    listed,     \* history: day -> how many jobs had it among their targets, up to Window
    due         \* no job has listed its targets since the last session

historyVars == <<listed, due>>
jobVars == <<job, seen, targets, failed, exit>>
vars == <<today, published, jobVars, historyVars>>

\* Faulty: the slice forgets the last session.
WindowExclusive(n) == {d \in 1..n : d < n /\ d + Window >= n}

\* sessions[-window:]
InWindow(n) == {d \in 1..n : d + Window > n}

\* since: the first session of the window, or the first there is.
Since(n) == IF n >= Window THEN n - Window + 1 ELSE 1

\* published_dates: publications from a day on.
PublishedSince(d) == {e \in published : e >= d}

\* Faulty: the slice is forgotten.
RecoveryTargetsUnbounded(n, done) == (1..n) \ done

\* recovery_targets
RecoveryTargets(n, done) == InWindow(n) \ done

Init ==
    /\ today = 1
    /\ published = {}
    /\ job = "off" /\ seen = 0 /\ targets = {} /\ failed = FALSE /\ exit = "ok"
    /\ listed = [d \in Days |-> 0]
    /\ due = TRUE

----------------------------------------------------------------------------
\* A session closes, and upstream has collected it.
NextSession ==
    /\ today < LastDay
    /\ Punctual => ~due /\ job = "off"
    /\ today' = today + 1
    /\ due' = TRUE
    /\ UNCHANGED <<published, jobVars, listed>>

\* A scheduled or event run, of another concurrency group, publishes a day.
ScoreElsewhere(d) ==
    /\ d <= today
    /\ published' = published \cup {d}
    /\ UNCHANGED <<today, jobVars, historyVars>>

\* The job reads the calendar.
StartJob ==
    /\ job = "off"
    /\ job' = "listing"
    /\ seen' = today
    /\ UNCHANGED <<today, published, targets, failed, exit, historyVars>>

\* The job ends this way; the targets it still had are not tried.
End(how) ==
    /\ job' = "off" /\ seen' = 0 /\ targets' = {} /\ failed' = FALSE
    /\ exit' = how

\* The targets are listed once, and decide what the job will do.
ListTargets ==
    /\ job = "listing"
    /\ LET found == RecoveryTargets(seen, PublishedSince(Since(seen)))
       IN  /\ listed' = [d \in Days |-> listed[d] + IF d \in found /\ listed[d] < Window THEN 1 ELSE 0]
           /\ \/ found = {} /\ End("ok")
              \/ found # {} /\ job' = "scoring" /\ targets' = found
                 /\ UNCHANGED <<seen, failed, exit>>
    /\ due' = FALSE
    /\ UNCHANGED <<today, published>>

\* The day the job scores now: the oldest.
Current(d) ==
    /\ job = "scoring"
    /\ d \in targets
    /\ \A e \in targets : d <= e

\* Faulty: only the last day decides the exit code.
ScoreDayLastCode(d, outcome) ==
    /\ Current(d)
    /\ published' = IF outcome = "waiting_upstream" THEN published ELSE published \cup {d}
    /\ LET bad == outcome # "published"
       IN  \/ targets = {d} /\ End(IF bad THEN "failed" ELSE "ok")
           \/ targets # {d} /\ targets' = targets \ {d} /\ failed' = bad
              /\ UNCHANGED <<job, seen, exit>>
    /\ UNCHANGED <<today, listed, due>>

\* Faulty: a run that waits for upstream did not fail.
ScoreDayIgnoresWaiting(d, outcome) ==
    /\ Current(d)
    /\ published' = IF outcome = "waiting_upstream" THEN published ELSE published \cup {d}
    /\ LET bad == failed \/ outcome = "published_degraded"
       IN  \/ targets = {d} /\ End(IF bad THEN "failed" ELSE "ok")
           \/ targets # {d} /\ targets' = targets \ {d} /\ failed' = bad
              /\ UNCHANGED <<job, seen, exit>>
    /\ UNCHANGED <<today, listed, due>>

\* The day is scored.  Only a full publication counts as success; a degraded one
\* is a publication all the same.
ScoreDay(d, outcome) ==
    /\ Current(d)
    /\ published' = IF outcome = "waiting_upstream" THEN published ELSE published \cup {d}
    /\ LET bad == failed \/ outcome # "published"
       IN  \/ targets = {d} /\ End(IF bad THEN "failed" ELSE "ok")
           \/ targets # {d} /\ targets' = targets \ {d} /\ failed' = bad
              /\ UNCHANGED <<job, seen, exit>>
    /\ UNCHANGED <<today, listed, due>>

\* Scoring the day raises, after publishing or before: nobody catches it, and the
\* remaining days are not tried.
ScoreDayRaises(d) ==
    /\ Current(d)
    /\ published' \in {published, published \cup {d}}
    /\ End("raised")
    /\ UNCHANGED <<today, listed, due>>

\* The runner kills the job, or reading the calendar or the publications fails.
JobDies ==
    /\ job # "off"
    /\ End("killed")
    /\ UNCHANGED <<today, published, listed, due>>

Next ==
    \/ NextSession
    \/ StartJob
    \/ ListTargets
    \/ \E d \in Days :
         \/ ScoreElsewhere(d)
         \/ \E outcome \in Outcomes : ScoreDay(d, outcome)
         \/ ScoreDayRaises(d)
    \/ JobDies

Spec == Init /\ [][Next]_vars

\* What the job does when upstream is in order and nothing fails.
GoodJobStep ==
    \/ StartJob
    \/ ListTargets
    \/ \E d \in Days : ScoreDay(d, "published")

\* The scheduler starts job after job, and a job goes on once started.
FairSpec == Spec /\ WF_vars(GoodJobStep)

----------------------------------------------------------------------------
\* Types of the variables, and what the job knows while it is under way.
TypeOK ==
    /\ today \in Days
    /\ published \subseteq 1..today
    /\ job \in {"off", "listing", "scoring"}
    /\ seen \in 0..today /\ (job # "off" => seen # 0)
    /\ targets \subseteq InWindow(seen)
    /\ job = "scoring" <=> targets # {}
    /\ failed \in BOOLEAN
    /\ exit \in {"ok", "failed", "raised", "killed"}
    /\ listed \in [Days -> 0..Window]
    /\ due \in BOOLEAN

\* A job reports success only if the whole window it looked at is published then,
\* whatever order the days were scored in and whoever published them.
ExitTellsTruth ==
    [][job # "off" /\ job' = "off" /\ exit' = "ok" => InWindow(seen) \subseteq published']_vars

\* If a job lists its targets between any two sessions, a day that leaves the
\* window unpublished was a target Window times: no session gets fewer chances.
WindowChances ==
    Punctual => \A d \in 1..today :
        d + Window <= today /\ d \notin published => listed[d] >= Window

\* Why both hold.  What is neither a target any more nor published failed; an
\* unpublished day was a target once per session since, save perhaps the last.
TargetsInv ==
    /\ job = "scoring" => failed \/ InWindow(seen) \subseteq published \cup targets
    /\ Punctual /\ job = "listing" => seen = today

ChancesInv ==
    Punctual => \A d \in 1..today :
        \/ d \in published
        \/ listed[d] >= Window
        \/ listed[d] + d > today
        \/ due /\ listed[d] + d = today

RecoveryInv == TypeOK /\ TargetsInv /\ ChancesInv

\* If from some time on nothing fails, every session still in the window then is
\* published, with no other run's help.
WindowEventuallyPublished ==
    <>[][job # "off" => GoodJobStep \/ UNCHANGED jobVars]_vars =>
        \A d \in Days : d <= today ~> d \in published \/ d + Window <= today

=============================================================================
