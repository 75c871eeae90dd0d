------------------------ MODULE DisclosureSyncProofs ------------------------
(***************************************************************************)
(* Machine-checked proofs about DisclosureSync, for any window, any number *)
(* of days, of runs and of filings, provided that filings are not later    *)
(* than what is fetched again (MaxLag <= Refetch) and that runs do not die *)
(* while they store, do not go back and do not overlap.                    *)
(***************************************************************************)
EXTENDS DisclosureSync, WellFoundedInduction, TLAPS

\* The hypothesis of the theorems: what the code relies on and does not check.
Orderly == MaxLag <= Refetch /\ ~MayDie /\ ~MayGoBack /\ ~MayOverlap

\* A nonempty set of days has a greatest element, so max(rcept_dt) is the day of
\* a stored filing.
LEMMA MaxOfDays ==
    ASSUME NEW S \in SUBSET Days, S # {}
    PROVE  Max(S) \in S /\ \A d \in S : d <= Max(S)
<1> DEFINE T == {n \in Nat : \E d \in S : n = LastDay - d}
<1>1. T \subseteq Nat /\ T # {}
  <2>1. PICK d \in S : d \in 1..LastDay
      BY DEF Days
  <2>2. LastDay - d \in T
      BY <2>1, DaysAssumption
  <2> QED
      BY <2>2
<1> HIDE DEF T
<1>2. PICK n \in T : \A m \in T : <<m, n>> \notin OpToRel(<, Nat)
    BY <1>1, WFMin, NatLessThanWellFounded, Zenon
<1>3. \A m \in T : ~ (m < n)
    BY <1>1, <1>2, Zenon DEF OpToRel
<1>4. PICK d \in S : n = LastDay - d
    BY DEF T
<1>5. \A e \in S : d >= e
  <2> TAKE e \in S
  <2>1. LastDay - e \in T
      BY DaysAssumption DEF T, Days
  <2> QED
      BY <1>3, <1>4, <2>1, DaysAssumption DEF Days
<1> QED
    BY <1>5, DaysAssumption DEF Max, Days

\* The newest stored receipt date is that of some filing.
LEMMA LastStoredIsOne ==
    ASSUME stored \subseteq Filings, stored # {}
    PROVE  \E g \in stored : g.day = LastStored
<1>1. {f.day : f \in stored} \in SUBSET Days /\ {f.day : f \in stored} # {}
    BY DEF Filings
<1>2. LastStored \in {f.day : f \in stored}
    BY <1>1, MaxOfDays DEF LastStored
<1> QED
    BY <1>2

----------------------------------------------------------------------------
\* Everything is right before the first filing.
LEMMA InitSync ==
    ASSUME Init PROVE SyncInv
<1>1. TypeOK
    BY DaysAssumption DEF Init, TypeOK, Days
<1>2. OldIsStored /\ RunKnows /\ WindowComplete
    BY DEF Init, OldIsStored, RunKnows, WindowComplete, AtWork
<1> QED
    BY <1>1, <1>2 DEF SyncInv

\* The steps keep the types, whether runs are orderly or not.
LEMMA TypeStep ==
    ASSUME TypeOK, [Next]_vars PROVE TypeOK'
<1> USE DaysAssumption, ModeAssumption DEF TypeOK, Days, Filings, runVars, Goto, Between, WindowStart
<1>1. CASE NextDay
    BY <1>1 DEF NextDay
<1>2. ASSUME NEW f \in Filings, File(f) PROVE TypeOK'
    BY <1>2 DEF File
<1>3. ASSUME NEW r \in Runs, NEW d \in Days, Start(r, d) PROVE TypeOK'
  <2>1. newest' \in 1..today /\ newest <= newest' /\ d \in 1..newest'
      BY <1>3 DEF Start
  <2>2. t' \in [Runs -> 1..newest']
      BY <1>3, <2>1 DEF Start
  <2> QED
      BY <1>3, <2>1, <2>2 DEF Start
<1>4. ASSUME NEW r \in Runs, FindSince(r) PROVE TypeOK'
  <2>1. stored # {} => LastStored \in Int
      BY LastStoredIsOne
  <2>2. since' \in [Runs -> Int] /\ WindowStart(t[r]) <= since'[r]
      BY <1>4, <2>1 DEF FindSince
  <2>3. \A q \in Runs \ {r} : since'[q] = since[q] /\ pc'[q] = pc[q]
      BY <1>4 DEF FindSince
  <2> QED
      BY <1>4, <2>2, <2>3 DEF FindSince
<1>5. ASSUME NEW r \in Runs, Fetch(r) PROVE TypeOK'
    BY <1>5 DEF Fetch
<1>6. ASSUME NEW r \in Runs, Write(r) PROVE TypeOK'
    BY <1>6 DEF Write
<1>7. ASSUME NEW r \in Runs, Read(r) PROVE TypeOK'
    BY <1>7 DEF Read
<1>8. ASSUME NEW r \in Runs, Die(r) PROVE TypeOK'
    BY <1>8 DEF Die
<1>9. CASE UNCHANGED vars
    BY <1>9 DEF vars
<1> QED
    BY <1>1, <1>2, <1>3, <1>4, <1>5, <1>6, <1>7, <1>8, <1>9 DEF Next

\* All variables keep their types, and nothing from before the window is fetched,
\* however runs die, go back or overlap.
THEOREM SyncTypeCorrect == Spec => []TypeOK
<1>1. Init => TypeOK
    BY InitSync DEF SyncInv
<1> QED
    BY <1>1, TypeStep, PTL DEF Spec

----------------------------------------------------------------------------
\* Orderly runs keep the invariant.
LEMMA SyncStep ==
    ASSUME Orderly, SyncInv, [Next]_vars PROVE SyncInv'
<1> USE DaysAssumption DEF Filings, Days, WindowStart
<1>1. TypeOK /\ TypeOK' /\ OldIsStored /\ RunKnows /\ WindowComplete
    BY TypeStep DEF SyncInv
<1>2. CASE NextDay
    BY <1>1, <1>2 DEF NextDay, runVars, SyncInv, OldIsStored, RunKnows, WindowComplete, AtWork
<1>3. ASSUME NEW f \in Filings, File(f) PROVE SyncInv'
  <2>1. UNCHANGED <<stored, pc, t, since, batch, known, got, newest>> /\ filed' = filed \cup {f}
      BY <1>3 DEF File, runVars
  <2>2. today <= f.day + Refetch
    <3>1. f.day \in Nat /\ today \in Nat
        BY <1>1 DEF TypeOK
    <3> QED
        BY <1>3, <3>1 DEF File, Orderly
  <2>3. OldIsStored'
    <3> SUFFICES ASSUME NEW e \in filed', NEW g \in stored,
                        WindowStart(newest) <= e.day, e.day < g.day - Refetch
                 PROVE  e \in stored \cup UNION {batch[r] : r \in Runs}
        BY <2>1 DEF OldIsStored
    <3>1. g.day <= today /\ g.day \in Nat /\ today \in Nat
        BY <1>1 DEF TypeOK
    <3>2. e # f
        BY <2>2, <3>1
    <3> QED
        BY <1>1, <2>1, <3>2 DEF OldIsStored
  <2>4. RunKnows'
    <3>1. \A r \in Runs : t[r] <= f.day + Refetch
        BY <1>1, <2>2 DEF TypeOK
    <3> QED
        BY <1>1, <2>1, <3>1 DEF RunKnows, AtWork, Between
  <2> QED
      BY <1>1, <2>1, <2>3, <2>4 DEF SyncInv, WindowComplete
<1>4. ASSUME NEW r \in Runs, NEW d \in Days, Start(r, d) PROVE SyncInv'
  <2>1. UNCHANGED <<filed, stored, since, batch, known, got>> /\ newest' = d /\ newest <= d
    <3>1. newest \in Nat
        BY <1>1 DEF TypeOK
    <3> QED
        BY <1>4, <3>1 DEF Start, Orderly
  <2>2. \A q \in Runs : ~AtWork(q)
      BY <1>4 DEF Start, Orderly
  <2>3. /\ \A q \in Runs \ {r} : pc'[q] = pc[q] /\ t'[q] = t[q]
        /\ pc'[r] = "since" /\ t'[r] = d
      BY <1>1, <1>4 DEF Start, Goto, TypeOK
  <2>4. \A q \in Runs : batch[q] = {}
      BY <1>1, <2>2 DEF AtWork, RunKnows
  <2>5. \A q \in Runs \ {r} : ~AtWork(q)' /\ pc'[q] \notin {"fetch", "write"}
      BY <2>2, <2>3 DEF AtWork
  <2>6. OldIsStored'
      BY <1>1, <2>1 DEF OldIsStored, TypeOK
  <2>7. \A g \in stored : g.day <= newest'
    <3>1. \A g \in stored : g.day \in Nat /\ g.day <= newest
      <4>1. \A g \in stored : g.day \in Nat
          BY <1>1 DEF TypeOK
      <4> QED
          BY <1>1, <4>1 DEF RunKnows
    <3>2. newest \in Nat
        BY <1>1 DEF TypeOK
    <3> QED
        BY <2>1, <3>1, <3>2
  <2>8. RunKnows'
      BY <2>1, <2>3, <2>4, <2>5, <2>7 DEF RunKnows
  <2>9. WindowComplete'
      BY <1>1, <2>1, <2>3 DEF WindowComplete
  <2> QED
      BY <1>1, <2>6, <2>8, <2>9 DEF SyncInv
<1>5. ASSUME NEW r \in Runs, FindSince(r) PROVE SyncInv'
  <2>1. UNCHANGED <<filed, stored, t, batch, known, got, newest>>
      BY <1>5 DEF FindSince
  <2>2. /\ \A q \in Runs \ {r} : pc'[q] = pc[q] /\ since'[q] = since[q]
        /\ pc[r] = "since" /\ pc'[r] = "fetch"
      BY <1>1, <1>5 DEF FindSince, Goto, TypeOK
  <2>3. \/ since'[r] = WindowStart(t[r])
        \/ \E g \in stored : since'[r] = g.day - Refetch
    <3>1. \/ since'[r] = WindowStart(t[r])
          \/ stored # {} /\ since'[r] = LastStored - Refetch
        BY <1>1, <1>5 DEF FindSince, TypeOK
    <3>2. stored \subseteq Filings
        BY <1>1 DEF TypeOK
    <3> QED
        BY <3>1, <3>2, LastStoredIsOne
  <2>4. OldIsStored'
      BY <1>1, <2>1 DEF OldIsStored
  <2>5. RunKnows'
      BY <1>1, <2>1, <2>2, <2>3 DEF RunKnows, AtWork
  <2>6. WindowComplete'
      BY <1>1, <2>1, <2>2 DEF WindowComplete
  <2> QED
      BY <1>1, <2>4, <2>5, <2>6 DEF SyncInv
<1>6. ASSUME NEW r \in Runs, Fetch(r) PROVE SyncInv'
  <2>1. UNCHANGED <<filed, stored, t, since, got, newest>>
      BY <1>6 DEF Fetch
  <2>2. /\ \A q \in Runs \ {r} : pc'[q] = pc[q] /\ batch'[q] = batch[q] /\ known'[q] = known[q]
        /\ pc[r] = "fetch" /\ pc'[r] = "write"
        /\ batch'[r] = Between(filed, since[r], t[r])
        /\ known'[r] = Between(filed, WindowStart(t[r]), t[r])
      BY <1>1, <1>6 DEF Fetch, Goto, TypeOK
  <2>3. \A q \in Runs : batch[q] = {}
      BY <1>1, <2>2 DEF RunKnows, AtWork
  <2>4. OldIsStored'
      BY <1>1, <2>1, <2>3 DEF OldIsStored
  <2>5. known'[r] \subseteq Between(stored \cup batch'[r], WindowStart(t[r]), t[r])
    <3> SUFFICES ASSUME NEW f \in known'[r] PROVE f \in stored \cup batch'[r]
        BY <2>2 DEF Between
    <3>1. f \in filed /\ WindowStart(t[r]) <= f.day /\ f.day <= t[r] /\ t[r] = newest
        BY <1>1, <2>2 DEF Between, RunKnows, AtWork
    <3>2. CASE since[r] <= f.day
        BY <2>2, <3>1, <3>2 DEF Between
    <3>3. CASE f.day < since[r]
      <4>1. PICK g \in stored : since[r] = g.day - Refetch
        <5>1. since[r] \in Int /\ t[r] \in Int /\ f.day \in Int
            BY <1>1, <3>1 DEF TypeOK
        <5>2. since[r] # WindowStart(t[r])
            BY <3>1, <3>3, <5>1
        <5> QED
            BY <1>1, <2>2, <5>2 DEF RunKnows
      <4> QED
          BY <1>1, <2>3, <3>1, <3>3, <4>1 DEF OldIsStored
    <3> QED
        BY <1>1, <3>1, <3>2, <3>3 DEF TypeOK
  <2>6. \A f \in Between(filed, WindowStart(t[r]), t[r]) : f \in stored \cup batch'[r]
      BY <2>2, <2>5 DEF Between
  <2>7. \A f \in batch'[r] : f.day <= newest
      BY <1>1, <2>2 DEF Between, RunKnows, AtWork
  <2>8. RunKnows'
      BY <1>1, <2>1, <2>2, <2>5, <2>6, <2>7 DEF RunKnows, AtWork
  <2>9. WindowComplete'
      BY <1>1, <2>1, <2>2 DEF WindowComplete
  <2> QED
      BY <1>1, <2>4, <2>8, <2>9 DEF SyncInv
<1>7. ASSUME NEW r \in Runs, Write(r) PROVE SyncInv'
  <2>1. PICK f \in batch[r] : /\ stored' = stored \cup {f}
                              /\ batch' = [batch EXCEPT ![r] = @ \ {f}]
      BY <1>7 DEF Write
  <2>2. UNCHANGED <<filed, pc, t, since, known, got, newest>> /\ pc[r] = "write"
      BY <1>7 DEF Write
  <2>3. /\ \A q \in Runs \ {r} : batch'[q] = batch[q]
        /\ batch'[r] = batch[r] \ {f}
        /\ stored' \cup batch'[r] = stored \cup batch[r]
      BY <1>1, <2>1 DEF TypeOK
  <2>4. f.day <= newest /\ t[r] = newest
      BY <1>1, <2>2 DEF RunKnows, AtWork
  <2>5. OldIsStored'
    <3> SUFFICES ASSUME NEW e \in filed, NEW g \in stored',
                        WindowStart(newest) <= e.day, e.day < g.day - Refetch
                 PROVE  e \in stored' \cup UNION {batch'[q] : q \in Runs}
        BY <2>2 DEF OldIsStored
    <3>1. CASE g \in stored
      <4>1. e \in stored \cup UNION {batch[q] : q \in Runs}
          BY <1>1, <3>1 DEF OldIsStored
      <4> QED
          BY <2>1, <2>3, <4>1
    <3>2. CASE g = f
      <4>1. e.day <= newest /\ ~ (newest <= e.day + Refetch)
          BY <1>1, <2>4, <3>2 DEF TypeOK
      <4>2. e \in Between(filed, WindowStart(t[r]), t[r])
          BY <2>4, <4>1 DEF Between
      <4>3. e \in stored \cup batch[r]
          BY <1>1, <2>2, <2>4, <4>1, <4>2 DEF RunKnows
      <4> QED
          BY <2>3, <4>3
    <3> QED
        BY <2>1, <3>1, <3>2
  <2>6. \A g \in stored' : g.day <= newest
      BY <1>1, <2>1, <2>4 DEF RunKnows
  <2>7. \A q \in Runs \ {r} : pc[q] \notin {"since", "fetch", "write"}
      BY <1>1, <2>2 DEF RunKnows, AtWork
  <2>8. RunKnows'
      BY <1>1, <2>2, <2>3, <2>6, <2>7 DEF RunKnows, AtWork
  <2> QED
      BY <1>1, <2>2, <2>5, <2>8 DEF SyncInv, WindowComplete
<1>8. ASSUME NEW r \in Runs, Read(r) PROVE SyncInv'
  <2>1. UNCHANGED <<filed, stored, t, since, batch, known, newest>>
      BY <1>8 DEF Read
  <2>2. /\ \A q \in Runs \ {r} : pc'[q] = pc[q] /\ got'[q] = got[q]
        /\ pc[r] = "write" /\ pc'[r] = "done" /\ batch[r] = {}
        /\ got'[r] = Between(stored, WindowStart(t[r]), t[r])
      BY <1>1, <1>8 DEF Read, Goto, TypeOK
  <2>3. OldIsStored'
      BY <1>1, <2>1 DEF OldIsStored
  <2>4. RunKnows'
      BY <1>1, <2>1, <2>2 DEF RunKnows, AtWork
  <2>5. known[r] \subseteq got'[r]
      BY <1>1, <2>2 DEF RunKnows, Between
  <2>6. WindowComplete'
      BY <1>1, <2>1, <2>2, <2>5 DEF WindowComplete
  <2> QED
      BY <1>1, <2>3, <2>4, <2>6 DEF SyncInv
<1>9. ASSUME NEW r \in Runs, Die(r) PROVE SyncInv'
  <2>1. UNCHANGED <<filed, stored, t, since, known, got, newest>>
      BY <1>9 DEF Die
  <2>2. /\ \A q \in Runs \ {r} : pc'[q] = pc[q]
        /\ pc'[r] = "idle" /\ pc[r] # "write"
        /\ \A q \in Runs : batch'[q] = batch[q]
      BY <1>1, <1>9 DEF Die, Goto, TypeOK, Orderly, RunKnows
  <2>3. OldIsStored'
      BY <1>1, <2>1, <2>2 DEF OldIsStored
  <2>4. RunKnows'
      BY <1>1, <2>1, <2>2 DEF RunKnows, AtWork
  <2> QED
      BY <1>1, <2>1, <2>2, <2>3, <2>4 DEF SyncInv, WindowComplete
<1>10. CASE UNCHANGED vars
    BY <1>1, <1>10 DEF vars, runVars, SyncInv, OldIsStored, RunKnows, WindowComplete, AtWork
<1> QED
    BY <1>2, <1>3, <1>4, <1>5, <1>6, <1>7, <1>8, <1>9, <1>10 DEF Next

\* What orderly runs keep true at every step.
THEOREM SyncInvariance == ASSUME Orderly PROVE Spec => []SyncInv
<1>1. Init => SyncInv
    BY InitSync
<1> QED
    BY <1>1, SyncStep, PTL DEF Spec

\* Orderly runs score with every filing DART had of their window, though each
\* fetches only from shortly before the newest filing stored.
THEOREM WindowsAreComplete == ASSUME Orderly PROVE Spec => []WindowComplete
<1>1. SyncInv => WindowComplete
    BY DEF SyncInv
<1> QED
    BY <1>1, SyncInvariance, PTL

=============================================================================
