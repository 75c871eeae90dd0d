---------------------------- MODULE ReportsProofs ----------------------------
(***************************************************************************)
(* Theorems about Reports, for any companies, quarters, lags and days.     *)
(***************************************************************************)
EXTENDS Reports, TLAPS

USE ReportsAssumption

\* Quarters end on days.
LEMMA PeriodEnds == \A n \in Filed : n \in Nat \ {0} /\ PeriodEnd(n) \in Int
BY DEF PeriodEnd

LEMMA CandidatesFiled == \A d : Candidates(d) \subseteq Recent(d) /\ Recent(d) \subseteq Filed
BY DEF Candidates, Recent

\* What was received before the evaluation day is a candidate: it cannot be too young.
LEMMA ReceivedIsCandidate ==
    ASSUME TypeOK, NEW c \in Corps, NEW n \in Recent(t), Usable(c, n)
    PROVE  n \in Candidates(t) /\ 0 < received[c][n] /\ received[c][n] < t
<1>1. n \in Filed /\ PeriodEnd(n) \in Int
    BY CandidatesFiled, PeriodEnds
<1>2. /\ received[c][n] \in 0..today /\ shown[c][n] \in 0..today /\ t \in 1..today
      /\ today \in Nat
    BY <1>1 DEF TypeOK, Days
<1>3. /\ received[c][n] <= shown[c][n]
      /\ received[c][n] = 0 => shown[c][n] = 0
      /\ received[c][n] # 0 => PeriodEnd(n) + FilingLag <= received[c][n]
    BY <1>1 DEF TypeOK
<1>4. 0 < received[c][n] /\ received[c][n] < t
    BY <1>2, <1>3 DEF Usable
<1>5. PeriodEnd(n) + FilingLag <= t
    BY <1>1, <1>2, <1>3, <1>4
<1> QED
    BY <1>4, <1>5 DEF Candidates

----------------------------------------------------------------------------
LEMMA InitReports ==
    ASSUME Init PROVE ReportsInv
<1>1. TypeOK
  <2>1. received \in [Corps -> [Filed -> 0..today]]
      BY DEF Init
  <2>2. \A c \in Corps, n \in Filed : received[c][n] \in {0, PeriodEnd(n) + FilingLag}
      BY DEF Init
  <2>3. \A c \in Corps, n \in Filed : received[c][n] \in 0..today
      BY <2>1
  <2>4. \A c \in Corps, n \in Filed :
            received[c][n] # 0 => PeriodEnd(n) + FilingLag <= received[c][n]
    <3> SUFFICES ASSUME NEW c \in Corps, NEW n \in Filed, received[c][n] # 0
                 PROVE  PeriodEnd(n) + FilingLag <= received[c][n]
        OBVIOUS
    <3>1. received[c][n] = PeriodEnd(n) + FilingLag
        BY <2>2
    <3>2. PeriodEnd(n) + FilingLag \in Int
        BY PeriodEnds
    <3> QED
        BY <3>1, <3>2
  <2>5. today \in 1..LastDay /\ t \in 1..today /\ todo = {} /\ shown = received /\ pc = "idle"
      BY DEF Init
  <2>6. /\ quarter = 0 /\ left = {} /\ found = {} /\ retried = FALSE
        /\ periodic = [c \in Corps |-> 0] /\ annual = [c \in Corps |-> 0]
      BY DEF Init
  <2>7. \A c \in Corps, n \in Filed : received[c][n] <= shown[c][n]
      BY <2>3, <2>5
  <2>8. periodic \in [Corps -> Filed \cup {0}] /\ annual \in [Corps -> Filed \cup {0}]
      BY <2>6
  <2> QED
      BY <2>1, <2>4, <2>5, <2>6, <2>7, <2>8 DEF TypeOK, Days
<1> QED
    BY <1>1 DEF Init, ReportsInv, AnnualNotNewer, RoundInv, AskInv

LEMMA TypeStep ==
    ASSUME TypeOK, [Next]_vars PROVE TypeOK'
<1> USE DEF TypeOK, Days, dart, run
<1>1. CASE NextDay
    BY <1>1 DEF NextDay, Candidates, Recent
<1>2. ASSUME NEW c \in Corps, NEW n \in Filed, File(c, n) PROVE TypeOK'
    BY <1>2, PeriodEnds DEF File
<1>3. ASSUME NEW c \in Corps, NEW n \in Filed, Correct(c, n) PROVE TypeOK'
    BY <1>3, PeriodEnds DEF Correct
<1>4. ASSUME NEW d \in Sessions, Start(d) PROVE TypeOK'
    BY <1>4, CandidatesFiled DEF Start
<1>5. CASE BeginRound
    BY <1>5, CandidatesFiled DEF BeginRound, Need, WantPeriodic, WantAnnual
<1>6. CASE SkipRound \/ Stop
    BY <1>6 DEF SkipRound, Stop
<1>7. CASE Ask
    BY <1>7 DEF Ask, kSubset
<1>8. CASE AskFails \/ AskRaises
    BY <1>8 DEF AskFails, AskRaises
<1>9. CASE EndRound
    BY <1>9 DEF EndRound
<1>10. CASE UNCHANGED vars
    BY <1>10 DEF vars
<1> QED
    BY <1>1, <1>2, <1>3, <1>4, <1>5, <1>6, <1>7, <1>8, <1>9, <1>10 DEF Next

\* All variables keep their types; no report is asked for before it can have been filed.
THEOREM ReportsTypeCorrect == Spec => []TypeOK
<1>1. Init => TypeOK
    BY InitReports DEF ReportsInv
<1> QED
    BY <1>1, TypeStep, PTL DEF Spec

----------------------------------------------------------------------------
\* What a company has stays right while reports come in and are corrected: they are
\* received on or after the evaluation day.
LEMMA DartStep ==
    ASSUME ReportsInv, UNCHANGED run, NextDay \/ \E c \in Corps, n \in Filed : File(c, n) \/ Correct(c, n)
    PROVE  ReportsInv'
<1> USE DEF run
<1>1. TypeOK /\ TypeOK'
    BY TypeStep DEF ReportsInv, Next
<1>2. /\ \A c \in Corps, n \in Filed : Usable(c, n)' => Usable(c, n)
      /\ \A c \in Corps, n \in Filed : received[c][n] # 0 => received'[c][n] = received[c][n]
  <2>1. CASE NextDay
      BY <2>1 DEF NextDay, Usable
  <2>2. ASSUME NEW b \in Corps, NEW k \in Filed, File(b, k) \/ Correct(b, k),
               NEW c \in Corps, NEW n \in Filed
        PROVE  /\ Usable(c, n)' => Usable(c, n)
               /\ received[c][n] # 0 => received'[c][n] = received[c][n]
    <3>1. CASE c = b /\ n = k
      <4>1. shown'[c][n] = today /\ t <= today /\ t' = t
          BY <1>1, <2>2, <3>1 DEF TypeOK, Days, File, Correct
      <4>2. today \in Int /\ t \in Int
          BY <1>1 DEF TypeOK, Days
      <4>3. received[c][n] # 0 => received'[c][n] = received[c][n]
          BY <1>1, <2>2, <3>1 DEF TypeOK, File, Correct
      <4> QED
          BY <4>1, <4>2, <4>3 DEF Usable
    <3>2. CASE c # b \/ n # k
        BY <1>1, <2>2, <3>2 DEF TypeOK, File, Correct, Usable
    <3> QED
        BY <3>1, <3>2
  <2> QED
      BY <2>1, <2>2
<1>3. Over \subseteq Filed /\ Over' = Over /\ quarter' = quarter
    BY CandidatesFiled DEF Over, Candidates, Recent
<1>4. \A c \in Corps, n \in Filed, S \in SUBSET Over :
          Newest(n, c, S) => Newest(n, c, S)'
  <2> SUFFICES ASSUME NEW c \in Corps, NEW n \in Filed, NEW S \in SUBSET Over, Newest(n, c, S)
               PROVE  Newest(n, c, S)'
      BY <1>3, PeriodEnds
  <2>1. received[c][n] # 0
      BY <1>1, PeriodEnds DEF Newest, TypeOK
  <2> QED
      BY <1>2, <1>3, <2>1 DEF Newest
<1>5. \A c \in Corps, S \in SUBSET Over : Newest(0, c, S) => Newest(0, c, S)'
    BY <1>2, <1>3 DEF Newest
<1>6. RoundInv'
  <2> SUFFICES ASSUME pc # "idle"
               PROVE  RoundInv'
      BY DEF RoundInv
  <2>1. \A c \in Corps : periodic[c] \in Filed \cup {0} /\ annual[c] \in Filed \cup {0}
      BY <1>1 DEF TypeOK
  <2>2. \A c \in Corps : Newest(periodic[c], c, Over)' /\ Newest(annual[c], c, {n \in Over : Annual(n)})'
      BY <1>3, <1>4, <1>5, <2>1 DEF ReportsInv, RoundInv, Annual
  <2> QED
      BY <1>3, <2>2 DEF ReportsInv, RoundInv
<1>7. AskInv'
  <2>1. /\ todo \subseteq Filed
        /\ \A c \in Corps : pc = "ask" => c \in Need(quarter)' <=> c \in Need(quarter)
        /\ Need(quarter) \subseteq Corps /\ Need(quarter)' = Need(quarter)
      BY <1>1, CandidatesFiled DEF TypeOK, Need, WantPeriodic, WantAnnual, Annual
  <2>2. pc = "ask" => quarter \in Filed
      BY <2>1 DEF ReportsInv, AskInv, IsNewest
  <2>3. pc = "ask" => \A c \in found : received[c][quarter] # 0
      BY <1>1, <2>2 DEF ReportsInv, AskInv, TypeOK
  <2> QED
      BY <1>1, <1>2, <2>1, <2>2, <2>3 DEF ReportsInv, AskInv, IsNewest, TypeOK
<1> QED
    BY <1>1, <1>6, <1>7 DEF ReportsInv, AnnualNotNewer

----------------------------------------------------------------------------
\* The newest candidate left, once its round is over.
LEMMA NextOver ==
    ASSUME ReportsInv, pc # "idle", UNCHANGED t, NEW n \in todo, IsNewest(n, todo), todo' = todo \ {n}
    PROVE  /\ Over' = Over \cup {n}
           /\ \A m \in Over', k \in todo' : k < m
           /\ \A m \in Over : n < m
           /\ todo' \subseteq Candidates(t)' /\ Candidates(t)' = Candidates(t)
<1>1. todo \subseteq Candidates(t) /\ Candidates(t)' = Candidates(t)
    BY DEF ReportsInv, TypeOK, Candidates, Recent
<1>2. \A m \in Candidates(t) : m \in Nat
    BY CandidatesFiled, PeriodEnds
<1>3. \A m \in Over, k \in todo : k < m
    BY DEF ReportsInv, RoundInv
<1>4. \A k \in todo' : k < n
    BY <1>1, <1>2 DEF IsNewest
<1> QED
    BY <1>1, <1>3, <1>4 DEF Over

LEMMA RunStep ==
    ASSUME ReportsInv, UNCHANGED dart,
           \/ \E d \in Sessions : Start(d)
           \/ BeginRound \/ SkipRound \/ Stop \/ Ask \/ AskFails \/ AskRaises \/ EndRound
    PROVE  ReportsInv'
<1> USE DEF dart
<1>1. TypeOK /\ TypeOK' /\ AnnualNotNewer /\ RoundInv /\ AskInv
    BY TypeStep DEF ReportsInv, Next
<1>2. /\ todo \subseteq Filed /\ Filed \subseteq Nat \ {0}
      /\ \A c \in Corps : periodic[c] \in Filed \cup {0} /\ annual[c] \in Filed \cup {0}
      /\ Over \subseteq Filed
    BY <1>1, CandidatesFiled DEF TypeOK, Over
<1>numbers. /\ \A c \in Corps : periodic[c] \in Nat /\ annual[c] \in Nat
             /\ \A m \in Over \cup todo : m \in Nat \ {0}
  <2>1. /\ \A x \in Filed \cup {0} : x \in Nat
        /\ \A x \in Filed : x \in Nat \ {0}
      OBVIOUS
  <2> QED
      BY <1>2, <2>1
<1>3. ASSUME NEW d \in Sessions, Start(d) PROVE ReportsInv'
  <2>1. /\ pc' = "round" /\ Over' = {}
        /\ \A c \in Corps : periodic'[c] = 0 /\ annual'[c] = 0
      BY <1>3 DEF Start, Over, Candidates, Recent
  <2> QED
      BY <1>1, <2>1 DEF ReportsInv, AnnualNotNewer, RoundInv, AskInv, Newest
<1>4. CASE BeginRound
  <2>1. UNCHANGED <<t, todo, periodic, annual>> /\ pc = "round" /\ pc' = "ask" /\ found' = {}
      BY <1>4 DEF BeginRound
  <2>2. PICK n \in todo : IsNewest(n, todo) /\ quarter' = n /\ left' = Need(n)
      BY <1>4 DEF BeginRound
  <2>3. Need(quarter)' = Need(n) /\ Over' = Over
      BY <2>1, <2>2 DEF Need, WantPeriodic, WantAnnual, Over, Candidates, Recent
  <2>4. RoundInv' /\ AnnualNotNewer'
      BY <1>1, <2>1, <2>3 DEF RoundInv, AnnualNotNewer, Newest, Usable
  <2> QED
      BY <1>1, <2>1, <2>2, <2>3, <2>4 DEF ReportsInv, AskInv, IsNewest
<1>5. CASE SkipRound
  <2>1. UNCHANGED <<t, pc, periodic, annual>> /\ pc = "round"
      BY <1>5 DEF SkipRound
  <2>2. PICK n \in todo : IsNewest(n, todo) /\ Need(n) = {} /\ todo' = todo \ {n}
      BY <1>5 DEF SkipRound
  <2>3. /\ Over' = Over \cup {n}
        /\ \A m \in Over', k \in todo' : k < m
        /\ \A m \in Over : n < m
      BY <2>1, <2>2, NextOver
  <2>4. ASSUME NEW c \in Corps
        PROVE  Newest(periodic[c], c, Over)' /\ Newest(annual[c], c, {m \in Over : Annual(m)})'
    <3>1. periodic[c] # 0 /\ (Annual(n) => annual[c] # 0)
        BY <2>2 DEF Need, WantPeriodic, WantAnnual
    <3>2. Newest(periodic[c], c, Over) /\ Newest(annual[c], c, {m \in Over : Annual(m)})
        BY <1>1, <2>1 DEF RoundInv
    <3>3. n < periodic[c] /\ (Annual(n) => n < annual[c])
        BY <2>3, <3>1, <3>2 DEF Newest
    <3>4. n \in Nat /\ periodic[c] \in Nat /\ annual[c] \in Nat
        BY <1>numbers
    <3> QED
        BY <2>1, <2>3, <3>2, <3>3, <3>4 DEF Newest, Usable
  <2> QED
      BY <1>1, <2>1, <2>3, <2>4 DEF ReportsInv, AnnualNotNewer, RoundInv, AskInv
<1>6. CASE Stop
  <2>1. UNCHANGED <<t, todo, periodic, annual>> /\ pc = "round" /\ pc' = "done" /\ Over' = Over
      BY <1>6 DEF Stop, Over, Candidates, Recent
  <2>2. todo = {} \/ \A c \in Corps : periodic[c] # 0 /\ annual[c] # 0
      BY <1>6 DEF Stop, WantPeriodic, WantAnnual
  <2> QED
      BY <1>1, <2>1, <2>2 DEF ReportsInv, AnnualNotNewer, RoundInv, AskInv, Newest, Usable
<1>7. CASE Ask \/ AskFails
  <2>1. UNCHANGED <<t, pc, todo, quarter, periodic, annual>> /\ pc = "ask"
      BY <1>7 DEF Ask, AskFails
  <2>2. Over' = Over /\ Need(quarter)' = Need(quarter)
      BY <2>1 DEF Over, Candidates, Recent, Need, WantPeriodic, WantAnnual
  <2>3. RoundInv' /\ AnnualNotNewer'
      BY <1>1, <2>1, <2>2 DEF RoundInv, AnnualNotNewer, Newest, Usable
  <2>4. AskInv'
    <3>1. CASE AskFails
        BY <1>1, <2>1, <2>2, <3>1 DEF AskInv, AskFails, IsNewest, Usable
    <3>2. CASE Ask
      <4>1. PICK S \in SUBSET left : /\ found' = found \cup {c \in S : Usable(c, quarter)}
                                     /\ left' = left \ S
          BY <3>2 DEF Ask, kSubset
      <4>2. quarter \in Recent(t) /\ left \subseteq Corps
          BY <1>1, <2>1, CandidatesFiled DEF AskInv, IsNewest, TypeOK
      <4>3. \A c \in S : Usable(c, quarter) => 0 < received[c][quarter] /\ received[c][quarter] < t
          BY <1>1, <4>1, <4>2, ReceivedIsCandidate
      <4> QED
          BY <1>1, <2>1, <2>2, <4>1, <4>3 DEF AskInv, IsNewest, Usable
    <3> QED
        BY <1>7, <3>1, <3>2
  <2> QED
      BY <1>1, <2>3, <2>4 DEF ReportsInv
<1>8. CASE AskRaises
    BY <1>1, <1>8 DEF AskRaises, ReportsInv, AnnualNotNewer, RoundInv, AskInv
<1>9. CASE EndRound
  <2> DEFINE n == quarter
  <2>1. /\ UNCHANGED t /\ pc = "ask" /\ pc' = "round" /\ left = {}
        /\ todo' = todo \ {n}
        /\ periodic' = [c \in Corps |-> IF c \in found \cap WantPeriodic THEN n ELSE periodic[c]]
        /\ annual' = [c \in Corps |->
             IF c \in found \cap WantAnnual /\ Annual(n) THEN n ELSE annual[c]]
      BY <1>9 DEF EndRound
  <2>2. n \in todo /\ IsNewest(n, todo)
      BY <1>1, <2>1 DEF AskInv, IsNewest
  <2>3. /\ Over' = Over \cup {n}
        /\ \A m \in Over', k \in todo' : k < m
        /\ \A m \in Over : n < m
      BY <2>1, <2>2, NextOver
  <2>4. ASSUME NEW c \in Corps
        PROVE  /\ Newest(periodic[c], c, Over)' /\ Newest(annual[c], c, {m \in Over : Annual(m)})'
               /\ annual'[c] <= periodic'[c]
    <3>1. Newest(periodic[c], c, Over) /\ Newest(annual[c], c, {m \in Over : Annual(m)})
        BY <1>1, <2>1 DEF RoundInv
    <3>2. /\ n \in Nat \ {0} /\ periodic[c] \in Nat /\ annual[c] \in Nat
          /\ \A m \in Over : m \in Nat \ {0}
          /\ annual[c] <= periodic[c]
        BY <1>1, <1>numbers, <2>2 DEF AnnualNotNewer
    <3>3. /\ c \in found => 0 < received[c][n] /\ received[c][n] < t
          /\ c \in Need(n) /\ c \notin found => ~Usable(c, n)
        BY <1>1, <2>1 DEF AskInv
    <3>4. /\ c \in WantPeriodic <=> periodic[c] = 0
          /\ c \in WantAnnual <=> annual[c] = 0
          /\ periodic[c] = 0 \/ (Annual(n) /\ annual[c] = 0) => c \in Need(n)
        BY DEF WantPeriodic, WantAnnual, Need
    <3>5. Newest(periodic[c], c, Over)'
      <4>1. CASE c \in found /\ periodic[c] = 0
          BY <2>1, <2>3, <3>1, <3>2, <3>3, <3>4, <4>1 DEF Newest, Usable
      <4>2. CASE periodic[c] # 0
        <5>1. n < periodic[c]
            BY <2>3, <3>1, <4>2 DEF Newest
        <5> QED
            BY <2>1, <2>3, <3>1, <3>2, <3>4, <4>2, <5>1 DEF Newest, Usable
      <4>3. CASE c \notin found /\ periodic[c] = 0
          BY <2>1, <2>3, <3>1, <3>3, <3>4, <4>3 DEF Newest, Usable
      <4> QED
          BY <4>1, <4>2, <4>3
    <3>6. Newest(annual[c], c, {m \in Over : Annual(m)})'
      <4>1. CASE ~Annual(n)
        <5>1. {m \in Over : Annual(m)}' = {m \in Over : Annual(m)} /\ annual'[c] = annual[c]
            BY <2>1, <2>3, <4>1 DEF Annual
        <5> QED
            BY <2>1, <3>1, <5>1 DEF Newest, Usable
      <4>2. CASE Annual(n) /\ c \in found /\ annual[c] = 0
          BY <2>1, <2>3, <3>1, <3>2, <3>3, <3>4, <4>2 DEF Newest, Usable, Annual
      <4>3. CASE Annual(n) /\ annual[c] # 0
        <5>1. n < annual[c]
            BY <2>3, <3>1, <4>3 DEF Newest
        <5> QED
            BY <2>1, <2>3, <3>1, <3>2, <3>4, <4>3, <5>1 DEF Newest, Usable, Annual
      <4>4. CASE Annual(n) /\ c \notin found /\ annual[c] = 0
          BY <2>1, <2>3, <3>1, <3>3, <3>4, <4>4 DEF Newest, Usable, Annual
      <4> QED
          BY <4>1, <4>2, <4>3, <4>4
    <3>7. annual'[c] <= periodic'[c]
      <4>1. CASE periodic[c] = 0
          BY <2>1, <3>2, <3>4, <4>1
      <4>2. CASE periodic[c] # 0
        <5>1. n < periodic[c] /\ periodic'[c] = periodic[c]
            BY <2>1, <2>3, <3>1, <3>4, <4>2 DEF Newest
        <5> QED
            BY <2>1, <3>2, <5>1
      <4> QED
          BY <4>1, <4>2
    <3> QED
        BY <3>5, <3>6, <3>7
  <2> QED
      BY <1>1, <2>1, <2>3, <2>4 DEF ReportsInv, AnnualNotNewer, RoundInv, AskInv
<1> QED
    BY <1>3, <1>4, <1>5, <1>6, <1>7, <1>8, <1>9

\* The rounds keep what they have found right: the inductive invariant.
THEOREM ReportsInvariance == Spec => []ReportsInv
<1>1. ReportsInv /\ [Next]_vars => ReportsInv'
  <2>1. ASSUME ReportsInv, UNCHANGED vars PROVE ReportsInv'
      BY <2>1 DEF vars, dart, run, ReportsInv, TypeOK, AnnualNotNewer, RoundInv, AskInv, Over, Candidates,
                  Recent, Newest, Usable, IsNewest, Need, WantPeriodic, WantAnnual, Days, Annual
  <2>2. ASSUME ReportsInv, Next PROVE ReportsInv'
    <3>1. CASE NextDay \/ \E c \in Corps, n \in Filed : File(c, n) \/ Correct(c, n)
        BY <2>2, <3>1, DartStep DEF NextDay, File, Correct
    <3>2. CASE \/ \E d \in Sessions : Start(d)
               \/ BeginRound \/ SkipRound \/ Stop \/ Ask \/ AskFails \/ AskRaises \/ EndRound
        BY <2>2, <3>2, RunStep DEF Start, BeginRound, SkipRound, Stop, Ask, AskFails, AskRaises, EndRound
    <3> QED
        BY <2>2, <3>1, <3>2 DEF Next
  <2> QED
      BY <2>1, <2>2
<1> QED
    BY <1>1, InitReports, PTL DEF Spec

\* A run scores with the newest report and the newest annual report received before
\* its evaluation day, whatever is filed or corrected meanwhile.
THEOREM NewestReports == Spec => []NewestBeforeT
<1>1. ReportsInv => NewestBeforeT
  <2> SUFFICES ASSUME ReportsInv, pc = "done", NEW c \in Corps
               PROVE  /\ Newest(periodic[c], c, Recent(t))
                      /\ Newest(annual[c], c, {n \in Recent(t) : Annual(n)})
      BY DEF NewestBeforeT
  <2>1. /\ \A n \in Over, m \in todo : m < n
        /\ Newest(periodic[c], c, Over) /\ Newest(annual[c], c, {n \in Over : Annual(n)})
        /\ todo = {} \/ (periodic[c] # 0 /\ annual[c] # 0)
      BY DEF ReportsInv, RoundInv
  <2>2. Over \subseteq Recent(t) /\ Recent(t) \subseteq Nat
      BY CandidatesFiled, PeriodEnds DEF Over
  <2>3. \A m \in Recent(t) : Usable(c, m) => m \in Over \/ m \in todo
      BY ReceivedIsCandidate DEF ReportsInv, Over
  <2>4. \A m \in todo : m <= periodic[c] /\ m <= annual[c]
    <3> SUFFICES ASSUME NEW m \in todo PROVE m <= periodic[c] /\ m <= annual[c]
        OBVIOUS
    <3>1. periodic[c] \in Over /\ annual[c] \in Over
        BY <2>1 DEF Newest
    <3>2. m < periodic[c] /\ m < annual[c]
        BY <2>1, <3>1
    <3>3. m \in Nat /\ periodic[c] \in Nat /\ annual[c] \in Nat
        BY <2>2, <3>1, PeriodEnds, CandidatesFiled DEF ReportsInv, TypeOK
    <3> QED
        BY <3>2, <3>3
  <2> QED
      BY <2>1, <2>2, <2>3, <2>4 DEF Newest
<1> QED
    BY <1>1, ReportsInvariance, PTL

\* The annual report is never newer than the newest report.
THEOREM AnnualIsNotNewer == Spec => []AnnualNotNewer
BY ReportsInvariance, PTL DEF ReportsInv

============================================================================
