--------------------------- MODULE RecoveryProofs ---------------------------
(***************************************************************************)
(* Machine-checked proofs about Recovery, for every window, every number   *)
(* of sessions and every history of outcomes.                              *)
(***************************************************************************)
EXTENDS Recovery, TLAPS

LEMMA Constants == Window \in Nat \ {0} /\ LastDay \in Nat \ {0} /\ Punctual \in BOOLEAN
BY WindowAssumption, LastDayAssumption, PunctualAssumption

\* What recovery_targets lists is what is unpublished in the window: published_dates
\* looks back far enough.
LEMMA TargetsAreUnpublished ==
    ASSUME NEW n \in Nat \ {0}
    PROVE  RecoveryTargets(n, PublishedSince(Since(n))) = InWindow(n) \ published
BY Constants DEF RecoveryTargets, PublishedSince, Since, InWindow

LEMMA Starts == Init => RecoveryInv
<1> SUFFICES ASSUME Init PROVE RecoveryInv
    OBVIOUS
<1> USE DEF Init
<1>1. TypeOK
  <2>1. today \in Days /\ seen \in 0..today /\ published \subseteq 1..today
      BY Constants DEF Days
  <2>2. listed \in [Days -> 0..Window]
      BY Constants
  <2>3. job # "scoring" /\ due \in BOOLEAN /\ failed \in BOOLEAN
      OBVIOUS
  <2> QED
      BY <2>1, <2>2, <2>3 DEF TypeOK
<1>2. TargetsInv
    BY DEF TargetsInv
<1>3. ChancesInv
  <2>1. 1 \in Days
      BY Constants DEF Days
  <2>2. \A d \in 1..today : d = 1
      OBVIOUS
  <2>3. listed[1] + 1 = today
      BY <2>1
  <2> QED
      BY <2>2, <2>3 DEF ChancesInv
<1> QED
    BY <1>1, <1>2, <1>3 DEF RecoveryInv

\* The end of a job.
LEMMA EndStep ==
    ASSUME TypeOK, NEW how \in {"ok", "failed", "raised", "killed"},
           End(how), UNCHANGED today, published' \subseteq 1..today,
           listed' \in [Days -> 0..Window], due' \in BOOLEAN
    PROVE  TypeOK'
<1>1. /\ job' = "off" /\ seen' = 0 /\ targets' = {} /\ failed' = FALSE /\ exit' = how
    BY DEF End
<1>2. job' # "scoring" /\ seen' \in 0..today'
    BY <1>1, Constants DEF TypeOK, Days
<1> QED
    BY <1>1, <1>2 DEF TypeOK

\* Every step keeps every variable within its type.
LEMMA TypeStep == TypeOK /\ [Next]_vars => TypeOK'
<1> SUFFICES ASSUME TypeOK, [Next]_vars PROVE TypeOK'
    OBVIOUS
<1> USE Constants DEF TypeOK, Days
<1>0. targets \subseteq Days
    BY DEF InWindow
<1>1. CASE NextSession
    BY <1>1 DEF NextSession, jobVars
<1>2. CASE StartJob
  <2>1. targets = {}
      BY <1>2 DEF StartJob
  <2> QED
      BY <1>2, <2>1 DEF StartJob, historyVars
<1>3. CASE ListTargets
  <2> DEFINE found == RecoveryTargets(seen, PublishedSince(Since(seen)))
  <2>1. seen \in Nat \ {0} /\ found = InWindow(seen) \ published
      BY <1>3, TargetsAreUnpublished DEF ListTargets
  <2>2. listed' = [d \in Days |-> listed[d] + IF d \in found /\ listed[d] < Window THEN 1 ELSE 0]
      BY <1>3 DEF ListTargets
  <2>3. listed' \in [Days -> 0..Window]
      BY <2>2
  <2>4. due' = FALSE /\ UNCHANGED <<today, published>>
      BY <1>3 DEF ListTargets
  <2>5. CASE End("ok")
      BY <2>3, <2>4, <2>5, EndStep
  <2>6. CASE found # {} /\ job' = "scoring" /\ targets' = found /\ UNCHANGED <<seen, failed, exit>>
      BY <2>1, <2>3, <2>4, <2>6 DEF InWindow
  <2> QED
      BY <1>3, <2>5, <2>6 DEF ListTargets
<1>4. ASSUME NEW d \in Days, ScoreElsewhere(d) PROVE TypeOK'
    BY <1>4 DEF ScoreElsewhere, jobVars, historyVars
<1>5. ASSUME NEW d \in Days, NEW outcome \in Outcomes, ScoreDay(d, outcome) PROVE TypeOK'
  <2> DEFINE bad == failed \/ outcome # "published"
  <2>1. d <= today /\ d \in targets /\ job = "scoring"
      BY <1>5 DEF ScoreDay, Current, InWindow
  <2>2. published' \subseteq 1..today /\ UNCHANGED <<today, listed, due>>
      BY <1>5, <2>1 DEF ScoreDay
  <2>3. CASE End(IF bad THEN "failed" ELSE "ok")
    <3>1. (IF bad THEN "failed" ELSE "ok") \in {"ok", "failed", "raised", "killed"}
        OBVIOUS
    <3> QED
        BY <2>2, <2>3, <3>1, EndStep
  <2>4. CASE targets # {d} /\ targets' = targets \ {d} /\ failed' = bad /\ UNCHANGED <<job, seen, exit>>
    <3>1. targets' # {} /\ failed' \in BOOLEAN
        BY <2>1, <2>4
    <3> QED
        BY <2>1, <2>2, <2>4, <3>1
  <2> QED
      BY <1>5, <2>3, <2>4 DEF ScoreDay
<1>6. ASSUME NEW d \in Days, ScoreDayRaises(d) PROVE TypeOK'
  <2>1. d <= today
      BY <1>6 DEF ScoreDayRaises, Current, InWindow
  <2>2. published' \subseteq 1..today /\ UNCHANGED <<today, listed, due>> /\ End("raised")
      BY <1>6, <2>1 DEF ScoreDayRaises
  <2> QED
      BY <1>0, <2>2, EndStep
<1>7. CASE JobDies
    BY <1>0, <1>7, EndStep DEF JobDies
<1>8. CASE UNCHANGED vars
    BY <1>8 DEF vars, jobVars, historyVars
<1> QED
    BY <1>1, <1>2, <1>3, <1>4, <1>5, <1>6, <1>7, <1>8 DEF Next

\* What is neither a target nor published failed.
LEMMA TargetsStep == TypeOK /\ TargetsInv /\ [Next]_vars => TargetsInv'
<1> SUFFICES ASSUME TypeOK, TargetsInv, [Next]_vars PROVE TargetsInv'
    OBVIOUS
<1> USE DEF TargetsInv
<1>1. ASSUME NEW how, End(how) PROVE TargetsInv'
    BY <1>1 DEF End
<1>2. CASE NextSession
    BY <1>2 DEF NextSession, jobVars, TypeOK
<1>3. CASE StartJob
    BY <1>3 DEF StartJob
<1>4. CASE ListTargets
  <2>1. seen \in Nat \ {0}
      BY <1>4, Constants DEF ListTargets, TypeOK, Days
  <2> QED
      BY <1>1, <1>4, <2>1, TargetsAreUnpublished DEF ListTargets
<1>5. ASSUME NEW d \in Days, ScoreElsewhere(d) PROVE TargetsInv'
    BY <1>5 DEF ScoreElsewhere, jobVars
<1>6. ASSUME NEW d \in Days, NEW outcome \in Outcomes, ScoreDay(d, outcome) PROVE TargetsInv'
    BY <1>1, <1>6 DEF ScoreDay, Current, Outcomes, TypeOK
<1>7. ASSUME NEW d \in Days, ScoreDayRaises(d) PROVE TargetsInv'
    BY <1>1, <1>7 DEF ScoreDayRaises
<1>8. CASE JobDies
    BY <1>1, <1>8 DEF JobDies
<1>9. CASE UNCHANGED vars
    BY <1>9 DEF vars, jobVars
<1> QED
    BY <1>2, <1>3, <1>4, <1>5, <1>6, <1>7, <1>8, <1>9 DEF Next

\* One more job per session lists what is unpublished.
LEMMA ChancesStep == TypeOK /\ TargetsInv /\ ChancesInv /\ [Next]_vars => ChancesInv'
<1> SUFFICES ASSUME TypeOK, TargetsInv, ChancesInv, [Next]_vars, Punctual,
                    NEW d \in 1..today'
             PROVE  \/ d \in published'
                    \/ listed'[d] >= Window
                    \/ listed'[d] + d > today'
                    \/ due' /\ listed'[d] + d = today'
    BY DEF ChancesInv
<1> USE Constants
<1>0. /\ today \in Nat /\ d \in Nat
      /\ d \in 1..today => /\ listed[d] \in 0..Window /\ d \in Days
                           /\ \/ d \in published
                              \/ listed[d] >= Window
                              \/ listed[d] + d > today
                              \/ due /\ listed[d] + d = today
  <2>1. today \in Nat /\ today' \in Nat
      BY TypeStep DEF TypeOK, Days
  <2> QED
      BY <2>1 DEF TypeOK, ChancesInv, Days
<1>1. CASE NextSession
  <2>1. ~due /\ due' /\ today' = today + 1 /\ UNCHANGED <<published, listed>> /\ today' \in Days
      BY <1>1 DEF NextSession, Days, TypeOK
  <2>2. CASE d \in 1..today
      BY <1>0, <2>1, <2>2
  <2>3. CASE d = today'
    <3>1. listed'[d] \in Nat
        BY <2>1, <2>3 DEF TypeOK
    <3> QED
        BY <2>1, <2>3, <3>1
  <2> QED
      BY <1>0, <2>1, <2>2, <2>3
<1>2. CASE ListTargets
  <2>1. seen = today /\ seen \in Nat \ {0} /\ today' = today /\ published' = published /\ d \in Days
      BY <1>0, <1>2 DEF ListTargets, TargetsInv, TypeOK, Days
  <2>2. listed'[d] = listed[d] + IF d \in InWindow(today) \ published /\ listed[d] < Window THEN 1 ELSE 0
      BY <1>2, <2>1, TargetsAreUnpublished DEF ListTargets
  <2> QED
      BY <1>0, <2>1, <2>2 DEF InWindow
<1>3. CASE UNCHANGED <<today, listed, due>> /\ published \subseteq published'
    BY <1>0, <1>3
<1>4. NextSession \/ ListTargets \/ (UNCHANGED <<today, listed, due>> /\ published \subseteq published')
    BY DEF Next, StartJob, ScoreElsewhere, ScoreDay, ScoreDayRaises, JobDies, vars, jobVars, historyVars
<1> QED
    BY <1>1, <1>2, <1>3, <1>4

----------------------------------------------------------------------------
\* Everything below follows from this invariant.
THEOREM RecoveryInvariance == Spec => []RecoveryInv
<1>1. RecoveryInv /\ [Next]_vars => RecoveryInv'
    BY TypeStep, TargetsStep, ChancesStep DEF RecoveryInv
<1> QED
    BY <1>1, Starts, PTL DEF Spec

\* A job never has a target outside its window, and scores only while it has one.
THEOREM RecoveryTypeCorrect == Spec => []TypeOK
<1>1. RecoveryInv => TypeOK
    BY DEF RecoveryInv
<1> QED
    BY <1>1, RecoveryInvariance, PTL

\* However many sessions the window covers: if no session passes without a recovery
\* job, a day leaves the window published, or after Window jobs had it to score.
THEOREM EveryDayHasItsChances == Spec => []WindowChances
<1>1. RecoveryInv => WindowChances
    BY Constants DEF RecoveryInv, ChancesInv, WindowChances, TypeOK, Days
<1> QED
    BY <1>1, RecoveryInvariance, PTL

\* Exit code 0 of a recovery job can be believed.
THEOREM SuccessIsTrue == Spec => ExitTellsTruth
<1> DEFINE Told == job # "off" /\ job' = "off" /\ exit' = "ok" => InWindow(seen) \subseteq published'
<1>1. RecoveryInv /\ [Next]_vars => [Told]_vars
  <2> SUFFICES ASSUME TypeOK, TargetsInv, Next, job # "off", job' = "off", exit' = "ok"
               PROVE  InWindow(seen) \subseteq published'
      BY DEF RecoveryInv
  <2>1. CASE ListTargets
    <3>1. seen \in Nat \ {0}
        BY <2>1, Constants DEF ListTargets, TypeOK, Days
    <3> QED
        BY <2>1, <3>1, TargetsAreUnpublished DEF ListTargets
  <2>2. ASSUME NEW d \in Days, NEW outcome \in Outcomes, ScoreDay(d, outcome)
        PROVE  InWindow(seen) \subseteq published'
    <3>1. targets = {d} /\ End(IF failed \/ outcome # "published" THEN "failed" ELSE "ok")
        BY <2>2 DEF ScoreDay, Current
    <3>2. ~failed /\ outcome = "published" /\ published' = published \cup {d} /\ job = "scoring"
        BY <2>2, <3>1 DEF End, ScoreDay, Current
    <3> QED
        BY <3>1, <3>2 DEF TargetsInv
  <2>3. ASSUME NEW d \in Days, ScoreElsewhere(d) \/ ScoreDayRaises(d) PROVE FALSE
      BY <2>3 DEF ScoreElsewhere, ScoreDayRaises, End, jobVars
  <2>4. ~NextSession /\ ~StartJob /\ ~JobDies
      BY DEF NextSession, StartJob, JobDies, End, jobVars
  <2> QED
      BY <2>1, <2>2, <2>3, <2>4 DEF Next
<1> QED
    BY <1>1, RecoveryInvariance, PTL DEF Spec, ExitTellsTruth

=============================================================================
