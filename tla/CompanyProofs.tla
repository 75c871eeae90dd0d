----------------------------- MODULE CompanyProofs -----------------------------
(***************************************************************************)
(* Theorems about what is known of a company from its filings, the press   *)
(* and its reports: Disclosures, News and Fundamentals, each for any       *)
(* values of its constants.                                                *)
(***************************************************************************)
EXTENDS Disclosures, News, Fundamentals, PartsProofs, SequenceTheorems, TLAPS

-----------------------------------------------------------------------------
(***************************************************************************)
(* Disclosures: a snapshot of the rules says what the rules said, and      *)
(* however a case is corrected it counts once.                             *)
(***************************************************************************)
USE DisclosuresAssumption

\* Every case has the number of its original, and its corrections have the original's title.
CasesKept ==
    \A n \in DOMAIN filings :
        /\ filings[n].case \in 1..n
        /\ filings[n].title = filings[filings[n].case].title
        /\ ~Corrected(filings[n]) => filings[n].case = n

\* A verdict is what some edition of the rules said, and that edition is stored.
VerdictsRecorded ==
    \A v \in verdicts :
        /\ \E l \in lexicons : l.version = v.version
        /\ \E book \in RuleBooks :
              /\ v.version = FromRules(book)
              /\ Match(book, filings[v.no].title) = [rule |-> v.rule, level |-> v.level, fatal |-> v.fatal]

DisclosuresInv == DisclosuresTypeOK /\ CasesKept /\ VerdictsRecorded

-----------------------------------------------------------------------------
(* Snapshots.                                                              *)

RuleType ==
    [id : STRING, level : Levels, keywords : SUBSET STRING, exclude : SUBSET STRING,
     on_note : BOOLEAN, fatal : BOOLEAN]

\* Nothing that decides a match is lost on the way into the snapshot and back.
LEMMA RuleComesBack ==
    ASSUME NEW book \in Seq(RuleType), NEW i \in DOMAIN book
    PROVE  ToRules(FromRules(book))[i] = book[i]
<1>1. book[i] \in RuleType /\ DOMAIN FromRules(book) = DOMAIN book
    BY DEF FromRules
<1> DEFINE entry == FromRules(book)[i]
<1>2. /\ entry.term = book[i].id /\ entry.norm = book[i].keywords
      /\ entry.exclude = book[i].exclude /\ entry.on_note = book[i].on_note
      /\ entry.note = book[i].level
    BY DEF FromRules
<1>3. (entry.polarity = "fatal") = book[i].fatal
    BY <1>1 DEF FromRules, RuleType
<1> HIDE DEF entry
<1>4. ToRules(FromRules(book))[i] =
        [id |-> entry.term,
         level |-> IF entry.note \in Levels THEN entry.note
                   ELSE IF entry.polarity = "positive" THEN "positive" ELSE "amber",
         keywords |-> entry.norm, exclude |-> entry.exclude,
         on_note |-> entry.on_note, fatal |-> entry.polarity = "fatal"]
    BY <1>1 DEF ToRules, entry
<1>5. ToRules(FromRules(book))[i] =
        [id |-> book[i].id, level |-> book[i].level, keywords |-> book[i].keywords,
         exclude |-> book[i].exclude, on_note |-> book[i].on_note, fatal |-> book[i].fatal]
    BY <1>1, <1>2, <1>3, <1>4 DEF RuleType
<1> QED
    BY <1>1, <1>5 DEF RuleType

LEMMA SnapshotTellsRules ==
    ASSUME NEW book \in RuleBooks
    PROVE  ToRules(FromRules(book)) = book
<1>1. book \in Seq(RuleType)
    BY DEF RuleType
<1>2. DOMAIN ToRules(FromRules(book)) = DOMAIN book
    BY DEF ToRules, FromRules
<1>3. ToRules(FromRules(book)) = [i \in DOMAIN book |-> ToRules(FromRules(book))[i]]
    BY <1>2 DEF ToRules
<1>4. book = [i \in DOMAIN book |-> book[i]]
    BY <1>1
<1>5. \A i \in DOMAIN book : ToRules(FromRules(book))[i] = book[i]
    BY <1>1, RuleComesBack
<1> QED
    BY <1>3, <1>4, <1>5

-----------------------------------------------------------------------------
LEMMA DisclosuresStart == DisclosuresInit => DisclosuresInv
BY DEF DisclosuresInit, DisclosuresInv, DisclosuresTypeOK, CasesKept, VerdictsRecorded

\* What is appended disturbs nothing that was filed before.
LEMMA FilingStep ==
    ASSUME DisclosuresInv, NEW f \in Filings, Len(filings) < MaxFilings,
           filings' = Append(filings, f), UNCHANGED <<day, rules, lexicons, verdicts>>
    PROVE  /\ DisclosuresTypeOK' /\ VerdictsRecorded'
           /\ DOMAIN filings' = 1..Len(filings) + 1
           /\ filings'[Len(filings) + 1] = f
           /\ \A n \in DOMAIN filings : n \in 1..Len(filings) /\ filings'[n] = filings[n]
<1>1. filings \in Seq(Filings) /\ Len(filings) \in Nat
    BY DEF DisclosuresInv, DisclosuresTypeOK
<1>2. /\ filings' \in Seq(Filings) /\ Len(filings') = Len(filings) + 1
      /\ DOMAIN filings' = 1..Len(filings) + 1 /\ filings'[Len(filings) + 1] = f
      /\ DOMAIN filings = 1..Len(filings)
      /\ \A n \in 1..Len(filings) : filings'[n] = filings[n]
    BY <1>1
<1>3. DisclosuresTypeOK'
    BY <1>1, <1>2 DEF DisclosuresInv, DisclosuresTypeOK, Version
<1>4. VerdictsRecorded'
    BY <1>2 DEF DisclosuresInv, DisclosuresTypeOK, VerdictsRecorded
<1> QED
    BY <1>2, <1>3, <1>4

LEMMA DisclosuresStep == DisclosuresInv /\ [DisclosuresNext]_discVars => DisclosuresInv'
<1> SUFFICES ASSUME DisclosuresInv, [DisclosuresNext]_discVars PROVE DisclosuresInv'
    OBVIOUS
<1> USE DEF DisclosuresInv
<1>1. CASE NextDay
    BY <1>1 DEF NextDay, DisclosuresTypeOK, CasesKept, VerdictsRecorded
<1>2. CASE FileOriginal
  <2>1. PICK title \in Titles, mark \in OtherMarks :
           filings' = Append(filings, [day |-> day, title |-> title, mark |-> mark,
                                       case |-> Len(filings) + 1])
      BY <1>2 DEF FileOriginal
  <2> DEFINE f == [day |-> day, title |-> title, mark |-> mark, case |-> Len(filings) + 1]
  <2>2. f \in Filings /\ Len(filings) \in Nat
      BY <1>2 DEF FileOriginal, DisclosuresTypeOK, Filings
  <2>3. f.case = Len(filings) + 1 /\ ~Corrected(f)
      BY DEF Corrected
  <2> HIDE DEF f
  <2>4. /\ DisclosuresTypeOK' /\ VerdictsRecorded'
        /\ DOMAIN filings' = 1..Len(filings) + 1
        /\ filings'[Len(filings) + 1] = f
        /\ \A n \in DOMAIN filings : n \in 1..Len(filings) /\ filings'[n] = filings[n]
      BY <1>2, <2>1, <2>2, FilingStep DEF FileOriginal, f
  <2>5. CasesKept'
      BY <2>2, <2>3, <2>4 DEF CasesKept
  <2> QED
      BY <2>4, <2>5
<1>3. CASE FileCorrection
  <2>1. PICK no \in DOMAIN filings, mark \in CorrectionMarks :
           filings' = Append(filings, [filings[no] EXCEPT !.day = day, !.mark = mark])
      BY <1>3 DEF FileCorrection
  <2> DEFINE f == [filings[no] EXCEPT !.day = day, !.mark = mark]
  <2>2. filings[no] \in Filings /\ Len(filings) \in Nat /\ no \in 1..Len(filings)
      BY DEF DisclosuresTypeOK
  <2>3. /\ f \in Filings /\ f.title = filings[no].title /\ f.case = filings[no].case
        /\ Corrected(f)
      BY <2>2 DEF DisclosuresTypeOK, Filings, Corrected
  <2> HIDE DEF f
  <2>4. /\ DisclosuresTypeOK' /\ VerdictsRecorded'
        /\ DOMAIN filings' = 1..Len(filings) + 1
        /\ filings'[Len(filings) + 1] = f
        /\ \A n \in DOMAIN filings : n \in 1..Len(filings) /\ filings'[n] = filings[n]
      BY <1>3, <2>1, <2>3, FilingStep DEF FileCorrection, f
  <2>5. CasesKept'
      BY <2>2, <2>3, <2>4 DEF CasesKept
  <2> QED
      BY <2>4, <2>5
<1>4. CASE EditRules
    BY <1>4 DEF EditRules, DisclosuresTypeOK, CasesKept, VerdictsRecorded
<1>5. ASSUME NEW t \in 1..day, Judge(t) PROVE DisclosuresInv'
  <2> DEFINE entries == FromRules(rules)
             new == [version |-> entries, entries |-> entries]
  <2>1. /\ UNCHANGED <<day, filings, rules>>
        /\ lexicons \subseteq lexicons' /\ lexicons' \subseteq lexicons \cup {new}
        /\ \E l \in lexicons' : l.version = entries
    <3>1. /\ UNCHANGED <<day, filings, rules>>
          /\ lexicons' = IF \E l \in lexicons : l.version = entries THEN lexicons
                         ELSE lexicons \cup {new}
        BY <1>5, Zenon DEF Judge, Version
    <3>2. new.version = entries
        OBVIOUS
    <3> HIDE DEF new, entries
    <3> QED
        BY <3>1, <3>2
  <2>2. \A v \in verdicts' \ verdicts :
           \E no \in DOMAIN filings :
              v = [no |-> no, rule |-> Verdict(no).rule, version |-> entries,
                   level |-> Verdict(no).level, fatal |-> Verdict(no).fatal]
      BY <1>5 DEF Judge, Version, Events, Hit, Window
  <2>3. DisclosuresTypeOK'
      BY <2>1, <2>2 DEF DisclosuresTypeOK, Version
  <2>4. CasesKept'
      BY <2>1 DEF CasesKept
  <2>5. ASSUME NEW v \in verdicts', v \notin verdicts
        PROVE  /\ \E l \in lexicons' : l.version = v.version
               /\ \E book \in RuleBooks :
                     /\ v.version = FromRules(book)
                     /\ Match(book, filings[v.no].title)
                           = [rule |-> v.rule, level |-> v.level, fatal |-> v.fatal]
    <3>1. PICK no \in DOMAIN filings :
             v = [no |-> no, rule |-> Verdict(no).rule, version |-> entries,
                  level |-> Verdict(no).level, fatal |-> Verdict(no).fatal]
        BY <2>2, <2>5
    <3>2. Verdict(no) = [rule |-> Verdict(no).rule, level |-> Verdict(no).level,
                         fatal |-> Verdict(no).fatal]
        BY DEF Verdict, Match, NoMatch
    <3>3. rules \in RuleBooks
        BY DEF DisclosuresTypeOK
    <3> QED
        BY <2>1, <3>1, <3>2, <3>3 DEF Verdict
  <2>6. VerdictsRecorded'
      BY <2>1, <2>5 DEF VerdictsRecorded
  <2> QED
      BY <2>3, <2>4, <2>6
<1>6. CASE UNCHANGED discVars
    BY <1>6 DEF discVars, DisclosuresTypeOK, CasesKept, VerdictsRecorded
<1> QED
    BY <1>1, <1>2, <1>3, <1>4, <1>5, <1>6 DEF DisclosuresNext

THEOREM DisclosuresInvariance == DisclosuresSpec => []DisclosuresInv
BY DisclosuresStart, DisclosuresStep, PTL DEF DisclosuresSpec

-----------------------------------------------------------------------------
\* Filings, snapshots and verdicts keep their form.
THEOREM DisclosuresTyped == DisclosuresSpec => []DisclosuresTypeOK
<1>1. DisclosuresInv => DisclosuresTypeOK
    BY DEF DisclosuresInv
<1> QED
    BY <1>1, DisclosuresInvariance, PTL

\* For any rules that are edited in any way: a verdict can be had again from the snapshot its
\* version names.
THEOREM VerdictsAreReplayed == DisclosuresSpec => []VerdictsReplay
<1>1. DisclosuresInv => VerdictsReplay
  <2> SUFFICES ASSUME DisclosuresInv, NEW v \in verdicts
               PROVE  /\ \E l \in lexicons : l.version = v.version
                      /\ \A l \in lexicons : l.version = v.version =>
                            Match(ToRules(l.entries), filings[v.no].title)
                              = [rule |-> v.rule, level |-> v.level, fatal |-> v.fatal]
      BY DEF VerdictsReplay
  <2>1. \E l \in lexicons : l.version = v.version
      BY DEF DisclosuresInv, VerdictsRecorded
  <2>2. PICK book \in RuleBooks :
           /\ v.version = FromRules(book)
           /\ Match(book, filings[v.no].title) = [rule |-> v.rule, level |-> v.level, fatal |-> v.fatal]
      BY DEF DisclosuresInv, VerdictsRecorded
  <2>3. \A l \in lexicons : l.entries = l.version
      BY DEF DisclosuresInv, DisclosuresTypeOK, Version
  <2>4. ToRules(FromRules(book)) = book
      BY SnapshotTellsRules
  <2> QED
      BY <2>1, <2>2, <2>3, <2>4
<1> QED
    BY <1>1, DisclosuresInvariance, PTL

-----------------------------------------------------------------------------
(* Corrections.                                                            *)

\* Two filings of one case have the same key, whatever the rules say.
LEMMA SameKey ==
    ASSUME DisclosuresInv, NEW m \in DOMAIN filings, NEW n \in DOMAIN filings,
           filings[m].case = filings[n].case
    PROVE  filings[m].title = filings[n].title /\ Key(m) = Key(n)
<1>1. filings[m].title = filings[n].title
    BY DEF DisclosuresInv, CasesKept
<1> QED
    BY <1>1 DEF Key, Verdict

\* However often a case is corrected, and whatever is still in the window, it counts once at most;
\* and once it does, unless another case has the same title.
THEOREM CasesCountOnce == DisclosuresSpec => []CountedOnce
<1>1. DisclosuresInv => CountedOnce
  <2> SUFFICES ASSUME DisclosuresInv, NEW t \in 1..day, NEW case \in 1..MaxFilings
               PROVE  /\ Cardinality({no \in Events(t) : filings[no].case = case}) <= 1
                      /\ {no \in Hit(t) : filings[no].case = case} # {} /\ ~SameTitleElsewhere(case)
                            => {no \in Events(t) : filings[no].case = case} # {}
      BY DEF CountedOnce
  <2> DEFINE counted == {no \in Events(t) : filings[no].case = case}
             hit == {no \in Hit(t) : filings[no].case = case}
  <2>1. Hit(t) \subseteq DOMAIN filings /\ DOMAIN filings \subseteq Nat
      BY DEF Hit, Window, DisclosuresInv, DisclosuresTypeOK
  <2>2. ASSUME NEW m \in counted, NEW n \in counted, m # n PROVE FALSE
    <3>1. m \in Hit(t) /\ n \in Hit(t) /\ Key(m) = Key(n)
        BY <2>1, <2>2, SameKey DEF Events
    <3>2. Corrected(filings[m]) \/ Corrected(filings[n])
        BY <2>1, <2>2, <3>1 DEF DisclosuresInv, CasesKept
    <3>3. Corrected(filings[m]) /\ Corrected(filings[n])
        BY <2>2, <3>1, <3>2 DEF Events, Originals
    <3> QED
        BY <2>1, <2>2, <3>1, <3>3 DEF Events
  <2>3. ASSUME hit # {}, ~SameTitleElsewhere(case) PROVE counted # {}
    <3>1. CASE \E n \in hit : ~Corrected(filings[n])
        BY <3>1 DEF Events
    <3>2. CASE \A n \in hit : Corrected(filings[n])
      <4>1. PICK n \in hit : \A m \in hit : n <= m
        <5>1. hit \in SUBSET Nat
            BY <2>1
        <5> QED
            BY <2>3, <5>1, First
      <4>2. ASSUME NEW m \in Hit(t), Key(m) = Key(n) PROVE m \in hit
        <5>1. filings[m].title.name = filings[n].title.name
            BY <4>2 DEF Key
        <5> QED
            BY <2>1, <2>3, <5>1 DEF SameTitleElsewhere
      <4>3. Key(n) \notin Originals(t)
          BY <3>2, <4>2 DEF Originals
      <4>4. \A m \in Hit(t) : m < n => Key(m) # Key(n)
          BY <2>1, <4>1, <4>2
      <4> QED
          BY <4>1, <4>3, <4>4 DEF Events
    <3> QED
        BY <3>1, <3>2
  <2> QED
      BY <2>2, <2>3, AllTheSame
<1> QED
    BY <1>1, DisclosuresInvariance, PTL

-----------------------------------------------------------------------------
(* A filing and the points.                                                *)

\* One for at most one: there are no fewer than before.
LEMMA OneReplaced ==
    ASSUME NEW S, IsFiniteSet(S), NEW D \in SUBSET S, \A a, b \in D : a = b, NEW x, x \notin S
    PROVE  /\ Cardinality(S) \in Nat /\ Cardinality((S \ D) \cup {x}) \in Nat
           /\ Cardinality((S \ D) \cup {x}) >= Cardinality(S)
<1> DEFINE T == (S \ D) \cup {x}
<1>1. Cardinality(S) \in Nat
    BY FS_CardinalityType
<1>2. CASE D = {}
  <2>1. T = S \cup {x}
      BY <1>2
  <2>2. Cardinality(S \cup {x}) = Cardinality(S) + 1
      BY FS_AddElement
  <2> HIDE DEF T
  <2>3. Cardinality(T) = Cardinality(S) + 1
      BY <2>1, <2>2
  <2> QED
      BY <1>1, <2>3 DEF T
<1>3. ASSUME NEW d \in D PROVE Cardinality(T) = Cardinality(S)
  <2> DEFINE R == S \ {d}
  <2>1. T = R \cup {x} /\ d \in S /\ x \notin R
      OBVIOUS
  <2>2. IsFiniteSet(R) /\ Cardinality(R) = Cardinality(S) - 1
      BY <2>1, FS_RemoveElement
  <2> HIDE DEF R, T
  <2>3. Cardinality(T) = Cardinality(R) + 1
      BY <2>1, <2>2, FS_AddElement
  <2> QED
      BY <1>1, <2>2, <2>3
<1> HIDE DEF T
<1> QED
    BY <1>1, <1>2, <1>3 DEF T

\* Points are kept between the floor and the most there is.
Clamp(raw) == Min({Max({raw, Floor}), MaxPoints})

LEMMA Clamped ==
    ASSUME NEW a \in Int, NEW b \in Int, a <= b
    PROVE  /\ Clamp(a) \in Int /\ Clamp(b) \in Int
           /\ Floor <= Clamp(a) /\ Clamp(a) <= Clamp(b)
<1>1. \A x \in Int : Max({x, Floor}) = IF x >= Floor THEN x ELSE Floor
    BY DEF Max
<1>2. \A x \in Int : Min({x, MaxPoints}) = IF x <= MaxPoints THEN x ELSE MaxPoints
    BY DEF Min
<1>3. \A x \in Int : Clamp(x) = IF x <= Floor THEN Floor ELSE IF x <= MaxPoints THEN x ELSE MaxPoints
    BY <1>1, <1>2 DEF Clamp
<1> QED
    BY <1>3

\* A title that a rule hits has the level of a rule, and only what is red is fatal.
LEMMA HitHasLevel ==
    ASSUME NEW book \in RuleBooks, NEW title, Hitting(book, title) # {}
    PROVE  /\ Min(Hitting(book, title)) \in Hitting(book, title)
           /\ Match(book, title).level \in Levels
           /\ Match(book, title).fatal => Match(book, title).level = "red"
<1>1. /\ DOMAIN book \subseteq Nat
      /\ \A i \in DOMAIN book : book[i].level \in Levels
  <2>1. book \in Seq(RuleType)
      BY DEF RuleType
  <2>2. DOMAIN book \subseteq Nat /\ \A i \in DOMAIN book : book[i] \in RuleType
      BY <2>1
  <2> QED
      BY <2>2 DEF RuleType
<1>2. Min(Hitting(book, title)) \in Hitting(book, title)
  <2>1. Hitting(book, title) \in SUBSET Nat
      BY <1>1 DEF Hitting
  <2> QED
      BY <2>1, Least
<1>3. Min(Hitting(book, title)) \in DOMAIN book
    BY <1>2 DEF Hitting
<1> QED
    BY <1>1, <1>2, <1>3 DEF Match, Level, Levels

\* Two titles of one name that are judged by the same rule are judged alike.
LEMMA SameRule ==
    ASSUME NEW book \in RuleBooks, WellFormed(book), NEW a, NEW b, a.name = b.name,
           Hitting(book, a) # {}, Hitting(book, b) # {}, Match(book, a).rule = Match(book, b).rule
    PROVE  Match(book, a) = Match(book, b)
<1> DEFINE i == Min(Hitting(book, a))
           j == Min(Hitting(book, b))
<1>1. i \in DOMAIN book /\ j \in DOMAIN book
    BY HitHasLevel DEF Hitting
<1>2. book[i].id = book[j].id
    BY DEF Match
<1>3. i = j
    BY <1>1, <1>2 DEF WellFormed
<1>4. Level(book[i], a) = Level(book[i], b)
    BY DEF Level, Subsidiary
<1> QED
    BY <1>3, <1>4 DEF Match

\* What is filed is a filing of today, at the end.
LEMMA FiledToday ==
    ASSUME DisclosuresInv, [DisclosuresNext]_discVars, filings' # filings
    PROVE  /\ UNCHANGED <<day, rules, lexicons, verdicts>>
           /\ Len(filings) < MaxFilings
           /\ \E f \in Filings : f.day = day /\ filings' = Append(filings, f)
<1> USE DEF DisclosuresInv, DisclosuresTypeOK
<1>1. CASE FileOriginal
  <2>1. PICK title \in Titles, mark \in OtherMarks :
           filings' = Append(filings, [day |-> day, title |-> title, mark |-> mark,
                                       case |-> Len(filings) + 1])
      BY <1>1 DEF FileOriginal
  <2>2. Len(filings) + 1 \in 1..MaxFilings
      BY <1>1 DEF FileOriginal
  <2>3. [day |-> day, title |-> title, mark |-> mark, case |-> Len(filings) + 1] \in Filings
      BY <2>2 DEF Filings
  <2> QED
      BY <1>1, <2>1, <2>3 DEF FileOriginal
<1>2. CASE FileCorrection
  <2>1. PICK no \in DOMAIN filings, mark \in CorrectionMarks :
           filings' = Append(filings, [filings[no] EXCEPT !.day = day, !.mark = mark])
      BY <1>2 DEF FileCorrection
  <2>2. filings[no] \in Filings
      OBVIOUS
  <2>3. /\ [filings[no] EXCEPT !.day = day, !.mark = mark] \in Filings
        /\ [filings[no] EXCEPT !.day = day, !.mark = mark].day = day
      BY <2>2 DEF Filings
  <2> QED
      BY <1>2, <2>1, <2>3 DEF FileCorrection
<1> QED
    BY <1>1, <1>2 DEF DisclosuresNext, discVars, NextDay, EditRules, Judge

\* How the events change: not at all, or the filing is one more, or takes the place of one that is
\* judged alike.
LEMMA EventsAfter ==
    ASSUME DisclosuresInv, WellFormed(rules), NEW f \in Filings, f.day = day,
           Len(filings) < MaxFilings, filings' = Append(filings, f),
           UNCHANGED <<day, rules, lexicons, verdicts>>,
           NEW N, N = Len(filings) + 1, NEW t \in 1..day
    PROVE  /\ \A n \in DOMAIN filings : Verdict(n)' = Verdict(n)
           /\ \/ Events(t)' = Events(t)
              \/ /\ Hitting(rules, f.title) # {}
                 /\ \E D \in SUBSET Events(t) :
                       /\ \A a, b \in D : a = b
                       /\ \A n \in D : Verdict(n) = Verdict(N)'
                       /\ Events(t)' = (Events(t) \ D) \cup {N}
<1> DEFINE old == DOMAIN filings
<1>1. /\ N \in Nat /\ N \notin old /\ DOMAIN filings' = old \cup {N} /\ filings'[N] = f
      /\ \A n \in old : n \in Nat /\ n < N /\ filings'[n] = filings[n]
  <2>1. /\ DOMAIN filings' = 1..Len(filings) + 1 /\ filings'[Len(filings) + 1] = f
        /\ \A n \in DOMAIN filings : n \in 1..Len(filings) /\ filings'[n] = filings[n]
      BY FilingStep
  <2>2. Len(filings) \in Nat /\ DOMAIN filings = 1..Len(filings)
      BY DEF DisclosuresInv, DisclosuresTypeOK
  <2> QED
      BY <2>1, <2>2
<1>2. rules' = rules /\ day' = day
    OBVIOUS
<1>3. /\ \A n \in old : Verdict(n)' = Verdict(n) /\ Corrected(filings[n])' = Corrected(filings[n])
      /\ \A n \in old : Key(n)' = Key(n)
    BY <1>1, <1>2 DEF Verdict, Key
<1>4. /\ Window(t) \subseteq Window(t)'
      /\ Window(t)' \subseteq Window(t) \cup {N} /\ Window(t) \subseteq old
    BY <1>1, <1>2 DEF Window
<1>5. Hit(t) \subseteq Hit(t)' /\ Hit(t)' \subseteq Hit(t) \cup {N} /\ Hit(t) \subseteq old
    BY <1>3, <1>4 DEF Hit
<1> HIDE DEF old
<1>6. CASE N \notin Hit(t)'
  <2>1. Hit(t)' = Hit(t)
      BY <1>5, <1>6
  <2>2. Originals(t)' = Originals(t)
      BY <1>3, <1>5, <2>1 DEF Originals
  <2>3. Events(t)' = Events(t)
      BY <1>3, <1>5, <2>1, <2>2 DEF Events
  <2> QED
      BY <1>3, <2>3 DEF old
<1>7. CASE N \in Hit(t)' /\ Corrected(f)
  <2>1. Hit(t)' = Hit(t) \cup {N} /\ N \notin Hit(t)
      BY <1>1, <1>5, <1>7
  <2>2. Originals(t)' = Originals(t)
      BY <1>1, <1>3, <1>5, <1>7, <2>1 DEF Originals
  <2>3. \A n \in Hit(t) : n \in Events(t)' <=> n \in Events(t)
      BY <1>1, <1>3, <1>5, <2>1, <2>2 DEF Events
  <2>4. Events(t)' \subseteq Hit(t)' /\ Events(t) \subseteq Hit(t)
      BY DEF Events
  <2>5. Events(t)' = Events(t) \/ Events(t)' = (Events(t) \ {}) \cup {N}
      BY <2>1, <2>3, <2>4
  <2>6. Hitting(rules, f.title) # {}
      BY <1>1, <1>2, <1>7 DEF Hit, Verdict, Match
  <2> QED
      BY <1>3, <2>5, <2>6 DEF old
<1>8. CASE N \in Hit(t)' /\ ~Corrected(f)
  <2> DEFINE D == {n \in Events(t) : Corrected(filings[n]) /\ Key(n) = Key(N)'}
  <2>1. Hit(t)' = Hit(t) \cup {N} /\ N \notin Hit(t)
      BY <1>1, <1>5, <1>8
  <2>2. Originals(t)' = Originals(t) \cup {Key(N)'}
      BY <1>1, <1>3, <1>5, <1>8, <2>1 DEF Originals
  <2>3. N \in Events(t)'
      BY <1>1, <1>8 DEF Events
  <2>4. \A n \in Hit(t) : n \in Events(t)' <=> n \in Events(t) \ D
      BY <1>1, <1>3, <1>5, <2>1, <2>2 DEF Events
  <2>5. Events(t)' \subseteq Hit(t)' /\ Events(t) \subseteq Hit(t)
      BY DEF Events
  <2>6. Events(t)' = (Events(t) \ D) \cup {N}
      BY <2>1, <2>3, <2>4, <2>5
  <2>7. \A a, b \in D : a = b
    <3> SUFFICES ASSUME NEW a \in D, NEW b \in D, a < b PROVE FALSE
        BY <1>1, <1>5, <2>5
    <3> QED
        BY <2>5 DEF Events
  <2>8. Hitting(rules, f.title) # {}
      BY <1>1, <1>2, <1>8 DEF Hit, Verdict, Match
  <2>9. ASSUME NEW n \in D PROVE Verdict(n) = Verdict(N)'
    <3>1. /\ Verdict(n).rule = Verdict(N)'.rule
          /\ filings[n].title.name = f.title.name
          /\ Verdict(N)' = Match(rules, f.title) /\ Verdict(n) = Match(rules, filings[n].title)
        BY <1>1, <1>2 DEF Key, Verdict
    <3>2. Hitting(rules, filings[n].title) # {}
        BY <2>5 DEF Hit, Verdict, Match
    <3>3. rules \in RuleBooks
        BY DEF DisclosuresInv, DisclosuresTypeOK
    <3> QED
        BY <2>8, <3>1, <3>2, <3>3, SameRule
  <2> QED
      BY <1>3, <2>6, <2>7, <2>8, <2>9 DEF old
<1> QED
    BY <1>6, <1>7, <1>8

\* The points of a queried day.
RawPoints(pos, neg) == Base + Positive * pos + Negative * neg

LEMMA RawOrder ==
    ASSUME NEW p \in Nat, NEW q \in Nat, NEW m \in Nat, NEW n \in Nat
    PROVE  /\ RawPoints(p, m) \in Int
           /\ p <= q => RawPoints(p, m) <= RawPoints(q, m)
           /\ m <= n => RawPoints(p, n) <= RawPoints(p, m)
<1> DEFINE pp == Positive * p
           pq == Positive * q
           nm == Negative * m
           nn == Negative * n
<1>1. pp \in Int /\ pq \in Int /\ nm \in Int /\ nn \in Int /\ Base \in Int
    OBVIOUS
<1>2. p <= q => pp <= pq
  <2>1. Positive \in Int /\ Positive >= 0
      OBVIOUS
  <2> HIDE DisclosuresAssumption
  <2> QED
      BY <2>1
<1>3. m <= n => nn <= nm
  <2>1. Negative \in Int /\ Negative <= 0
      OBVIOUS
  <2> HIDE DisclosuresAssumption
  <2> QED
      BY <2>1
<1>4. /\ RawPoints(p, m) = Base + pp + nm /\ RawPoints(q, m) = Base + pq + nm
      /\ RawPoints(p, n) = Base + pp + nn
    BY DEF RawPoints
<1> HIDE DEF pp, pq, nm, nn
<1> QED
    BY <1>1, <1>2, <1>3, <1>4

\* A filing pulls the points its own way: bad news never helps, also when it is a correction or
\* comes after something fatal; good news never hurts; any other filing changes nothing.
THEOREM FilingsPullTheirWay == DisclosuresSpec => FilingsPull
<1>1. ASSUME DisclosuresInv, [DisclosuresNext]_discVars, filings' # filings, WellFormed(rules),
             NEW t \in 1..day
      PROVE  LET points == DisclosurePart(t, TRUE).points
                 level == Verdict(Len(filings))'.level
             IN  /\ level \in {"red", "amber"} => DisclosurePart(t, TRUE)'.points <= points
                 /\ level = "positive" => DisclosurePart(t, TRUE)'.points >= points
                 /\ level = "none" => DisclosurePart(t, TRUE)' = DisclosurePart(t, TRUE)
  <2>1. PICK f \in Filings : f.day = day /\ filings' = Append(filings, f)
      BY <1>1, FiledToday
  <2>2. Len(filings) < MaxFilings /\ UNCHANGED <<day, rules, lexicons, verdicts>>
      BY <1>1, FiledToday
  <2>3. PICK N \in Nat : N = Len(filings) + 1
      BY <1>1 DEF DisclosuresInv, DisclosuresTypeOK
  <2>4. /\ Len(filings') = N /\ filings'[N] = f /\ DOMAIN filings' = 1..N
        /\ N \notin DOMAIN filings /\ IsFiniteSet(DOMAIN filings)
    <3>1. Len(filings) \in Nat /\ DOMAIN filings = 1..Len(filings) /\ filings \in Seq(Filings)
        BY <1>1 DEF DisclosuresInv, DisclosuresTypeOK
    <3>2. IsFiniteSet(1..Len(filings))
        BY <3>1, FS_Interval
    <3> QED
        BY <2>1, <2>3, <3>1, <3>2
  <2> DEFINE part == DisclosurePart(t, TRUE)
             level == Verdict(N)'.level
             points == part.points
             pos == Cardinality(OfLevel(t, {"positive"}))
             neg == Cardinality(OfLevel(t, {"red", "amber"}))
             fatal == FatalEvents(t) # {}
             clamped == Clamp(RawPoints(pos, neg))
  <2> SUFFICES /\ level \in {"red", "amber"} => points' <= points
               /\ level = "positive" => points' >= points
               /\ level = "none" => part' = part
    <3>1. Verdict(Len(filings))' = Verdict(N)'
        BY <2>4 DEF Verdict
    <3> QED
        BY <3>1
  <2>5. /\ points = IF fatal THEN FatalPoints ELSE clamped
        /\ points' = IF fatal' THEN FatalPoints ELSE clamped'
      BY DEF DisclosurePart, Clamp, RawPoints, Adverse, NoEvent, Observed
  <2>6. Events(t) \subseteq DOMAIN filings
      BY DEF Events, Hit, Window
  <2>7. \A levels : IsFiniteSet(OfLevel(t, levels)) /\ OfLevel(t, levels) \subseteq DOMAIN filings
    <3>1. \A levels : OfLevel(t, levels) \subseteq DOMAIN filings
        BY <2>6 DEF OfLevel
    <3> QED
        BY <2>4, <3>1, FS_Subset
  <2>8. pos \in Nat /\ neg \in Nat
      BY <2>7, FS_CardinalityType
  <2>9. \A n \in DOMAIN filings : Verdict(n)' = Verdict(n)
      BY <1>1, <2>1, <2>2, <2>3, EventsAfter
  <2>10. CASE Events(t)' = Events(t)
    <3>1. \A levels : OfLevel(t, levels)' = OfLevel(t, levels)
        BY <2>6, <2>9, <2>10 DEF OfLevel
    <3>2. FatalEvents(t)' = FatalEvents(t)
        BY <2>6, <2>9, <2>10 DEF FatalEvents
    <3>3. /\ OfLevel(t, {"positive"})' = OfLevel(t, {"positive"})
          /\ OfLevel(t, {"red", "amber"})' = OfLevel(t, {"red", "amber"})
        BY <3>1
    <3>4. part' = part
        BY <2>10, <3>2, <3>3, Zenon DEF DisclosurePart
    <3>5. clamped \in Int
      <4>1. RawPoints(pos, neg) \in Int
          BY <2>8, RawOrder
      <4> QED
          BY <4>1, Clamped
    <3>6. points \in Int /\ points' = points
      <4>1. points' = points
          BY <3>4
      <4> HIDE DEF points, clamped, fatal
      <4> QED
          BY <2>5, <3>5, <4>1
    <3> HIDE DEF points, part, level
    <3> QED
        BY <3>4, <3>6
  <2>11. ASSUME Hitting(rules, f.title) # {},
                NEW D \in SUBSET Events(t), \A a, b \in D : a = b,
                \A n \in D : Verdict(n) = Verdict(N)', Events(t)' = (Events(t) \ D) \cup {N}
         PROVE  /\ level \in {"red", "amber"} => points' <= points
                /\ level = "positive" => points' >= points
                /\ level \in Levels
    <3>1. Verdict(N)' = Match(rules, f.title) /\ rules \in RuleBooks
        BY <1>1, <2>2, <2>4 DEF Verdict, DisclosuresInv, DisclosuresTypeOK
    <3>2. level \in Levels /\ (Verdict(N)'.fatal => level = "red")
        BY <2>11, <3>1, HitHasLevel
    <3>3. ASSUME NEW levels
          PROVE  OfLevel(t, levels)' = IF level \in levels THEN (OfLevel(t, levels) \ D) \cup {N}
                                       ELSE OfLevel(t, levels)
        BY <2>6, <2>9, <2>11 DEF OfLevel
    <3>4. ASSUME NEW levels, level \in levels
          PROVE  /\ Cardinality(OfLevel(t, levels)') \in Nat
                 /\ Cardinality(OfLevel(t, levels)') >= Cardinality(OfLevel(t, levels))
      <4>1. D \in SUBSET OfLevel(t, levels)
          BY <2>11, <3>4 DEF OfLevel
      <4>2. N \notin OfLevel(t, levels) /\ IsFiniteSet(OfLevel(t, levels))
          BY <2>4, <2>7
      <4> DEFINE S == OfLevel(t, levels)
      <4>3. S' = (S \ D) \cup {N}
          BY <3>3, <3>4
      <4> HIDE DEF S
      <4>4. /\ Cardinality(S) \in Nat /\ Cardinality((S \ D) \cup {N}) \in Nat
            /\ Cardinality((S \ D) \cup {N}) >= Cardinality(S)
          BY <2>11, <4>1, <4>2, OneReplaced DEF S
      <4> QED
          BY <4>3, <4>4 DEF S
    <3>5. fatal => fatal'
        BY <2>6, <2>9, <2>11 DEF FatalEvents
    <3>6. level = "positive" /\ fatal' => fatal
        BY <2>6, <2>9, <2>11, <3>2 DEF FatalEvents
    <3>7. CASE level = "positive"
      <4>1. pos' \in Nat /\ pos' >= pos /\ neg' = neg
          BY <3>3, <3>4, <3>7
      <4>2. /\ RawPoints(pos, neg) \in Int /\ RawPoints(pos', neg) \in Int
            /\ RawPoints(pos, neg) <= RawPoints(pos', neg)
          BY <2>8, <4>1, RawOrder
      <4>3. clamped <= clamped' /\ clamped \in Int /\ clamped' \in Int
          BY <4>1, <4>2, Clamped
      <4> HIDE DEF points, fatal, clamped, level
      <4> QED
          BY <2>5, <3>2, <3>5, <3>6, <3>7, <4>3
    <3>8. CASE level \in {"red", "amber"}
      <4>1. neg' \in Nat /\ neg' >= neg /\ pos' = pos
          BY <3>3, <3>4, <3>8
      <4>2. /\ RawPoints(pos, neg) \in Int /\ RawPoints(pos, neg') \in Int
            /\ RawPoints(pos, neg') <= RawPoints(pos, neg)
          BY <2>8, <4>1, RawOrder
      <4>3. clamped' <= clamped /\ clamped \in Int /\ clamped' \in Int /\ Floor <= clamped
          BY <4>1, <4>2, Clamped
      <4> HIDE DEF points, fatal, clamped, level
      <4> QED
          BY <2>5, <3>2, <3>5, <3>8, <4>3
    <3> QED
        BY <3>2, <3>7, <3>8 DEF Levels
  <2>12. \/ Events(t)' = Events(t)
         \/ /\ Hitting(rules, f.title) # {}
            /\ \E D \in SUBSET Events(t) :
                  /\ \A a, b \in D : a = b
                  /\ \A n \in D : Verdict(n) = Verdict(N)'
                  /\ Events(t)' = (Events(t) \ D) \cup {N}
    <3> HIDE DisclosuresAssumption
    <3> QED
        BY <1>1, <2>1, <2>2, <2>3, EventsAfter, Zenon
  <2> HIDE DEF part, points, level
  <2> QED
      BY <2>10, <2>11, <2>12 DEF Levels
<1>2. DisclosuresInv /\ [DisclosuresNext]_discVars =>
         [filings' # filings /\ WellFormed(rules) =>
            \A t \in 1..day :
              LET points == DisclosurePart(t, TRUE).points
                  level == Verdict(Len(filings))'.level
              IN  /\ level \in {"red", "amber"} => DisclosurePart(t, TRUE)'.points <= points
                  /\ level = "positive" => DisclosurePart(t, TRUE)'.points >= points
                  /\ level = "none" => DisclosurePart(t, TRUE)' = DisclosurePart(t, TRUE)]_discVars
    BY <1>1
<1> QED
    BY <1>2, DisclosuresInvariance, PTL DEF FilingsPull, DisclosuresSpec

HIDE DisclosuresAssumption

-----------------------------------------------------------------------------
(***************************************************************************)
(* News: for any stocks, windows, numbers of articles and of retries.      *)
(***************************************************************************)
USE NewsAssumption

\* The stocks that have been searched are those before `left`.
Past == {i \in DOMAIN Tickers : i <= Len(Tickers) - Len(left)}

DealtWith(s) ==
    /\ calls[s] > 0
    /\ status[s] = IF s \in answered THEN "observed" ELSE "source_error"

\* A run that searches has dealt with some stocks, is at one, and has not begun with the others; a
\* run that has ended has dealt with all, or never asked.
Progress ==
    /\ newsPc = "search" => left # <<>>
    /\ newsPc = "search" =>
          \A i \in DOMAIN Tickers :
             /\ i \in Past => DealtWith(Tickers[i])
             /\ i \notin Past => status[Tickers[i]] = "none" /\ calls[Tickers[i]] <= RETRIES
             /\ i > Len(Tickers) - Len(left) + 1 => calls[Tickers[i]] = 0
    /\ newsPc = "scored" =>
          \/ \A s \in Stocks : DealtWith(s)
          \/ answered = {} /\ \A s \in Stocks : calls[s] = 0 /\ status[s] = "not_queried"

\* Articles are numbered as they appear.
InTime ==
    /\ \A a \in DOMAIN press : press[a].at < now
    /\ \A a, b \in DOMAIN press : a < b => press[a].at < press[b].at
    /\ newsPc # "idle" => cutoff + ClockLag < now

\* An article of a stock that was answered is in the answer, unless too many newer ones are.
Seen ==
    newsPc # "idle" =>
        \A s \in answered :
            /\ \A a \in found[s] : press[a].dated
            /\ \A a \in PressOf(s) :
                  press[a].at <= cutoff + ClockLag /\ press[a].dated =>
                     a \in found[s] \/ DISPLAY <= Cardinality({b \in PressOf(s) : b > a})

NewsInv == NewsTypeOK /\ Progress /\ InTime /\ Seen

-----------------------------------------------------------------------------
Press == [of : Stocks, at : 0..LastTick, title : Headlines, dated : BOOLEAN]

\* The stock searched now is the first that is not done.
LEMMA AtHead ==
    ASSUME NewsInv, NEW s \in Stocks, Ask(s)
    PROVE  LET k == Len(Tickers) - Len(left) + 1
           IN  /\ Len(left) \in Nat \ {0} /\ k \in DOMAIN Tickers /\ Tickers[k] = s
               /\ s \notin answered /\ k \notin Past
               /\ \A i \in DOMAIN Tickers : i # k => Tickers[i] # s
<1>1. /\ left \in Seq(Stocks) /\ left # <<>> /\ s = left[1] /\ Len(left) <= Len(Tickers)
      /\ Tickers \in Seq(Stocks)
    BY DEF NewsInv, NewsTypeOK, Progress, Ask
<1>2. 1 \in DOMAIN left /\ Len(left) \in Nat \ {0} /\ Len(Tickers) \in Nat
      /\ DOMAIN Tickers = 1..Len(Tickers)
    BY <1>1
<1>3. left[1] = Tickers[Len(Tickers) - Len(left) + 1]
    BY <1>2 DEF NewsInv, NewsTypeOK
<1>4. s \notin answered
    BY <1>1, <1>2 DEF NewsInv, NewsTypeOK, ToSet
<1> QED
    BY <1>1, <1>2, <1>3, <1>4 DEF Past

\* A stock is through: the next one, if there is one, has not been asked for.
LEMMA SearchedStep ==
    ASSUME NewsInv, NEW s \in Stocks, Ask(s), NEW outcome, Searched(s, outcome),
           \/ outcome = "observed" /\ answered' = answered \cup {s}
           \/ outcome = "source_error" /\ answered' = answered,
           DOMAIN found' = Stocks, \A q \in Stocks : found'[q] \subseteq PressOf(q)
    PROVE  NewsTypeOK' /\ Progress' /\ InTime'
<1> DEFINE k == Len(Tickers) - Len(left) + 1
<1>1. /\ Len(left) \in Nat \ {0} /\ k \in DOMAIN Tickers /\ Tickers[k] = s
      /\ s \notin answered /\ k \notin Past
      /\ \A i \in DOMAIN Tickers : i # k => Tickers[i] # s
    BY AtHead
<1>2. /\ left \in Seq(Stocks) /\ Len(left) <= Len(Tickers) /\ Len(Tickers) \in Nat
      /\ DOMAIN Tickers = 1..Len(Tickers) /\ left' = Tail(left)
    BY DEF NewsInv, NewsTypeOK, Searched
<1>3. /\ left' \in Seq(Stocks) /\ Len(left') = Len(left) - 1
      /\ \A i \in DOMAIN left' : i \in Nat /\ i + 1 \in DOMAIN left /\ left'[i] = left[i + 1]
    BY <1>1, <1>2
<1>4. /\ newsPc = "search" /\ UNCHANGED <<now, press, cutoff>>
      /\ calls' = [calls EXCEPT ![s] = @ + 1]
      /\ status' = [status EXCEPT ![s] = outcome]
      /\ newsPc' = IF Len(left) = 1 THEN "scored" ELSE newsPc
    BY DEF Ask, Searched
<1>5. calls[s] \in Nat /\ calls[s] <= RETRIES
    BY <1>1, <1>4 DEF NewsInv, NewsTypeOK, Progress
<1>6. NewsTypeOK'
  <2>1. \A i \in DOMAIN left' : left'[i] = Tickers[Len(Tickers) - Len(left') + i]
    <3> TAKE i \in DOMAIN left'
    <3>1. left'[i] = Tickers[Len(Tickers) - Len(left) + (i + 1)] /\ i \in Nat
        BY <1>3 DEF NewsInv, NewsTypeOK
    <3>2. Len(Tickers) - Len(left) + (i + 1) = Len(Tickers) - Len(left') + i
        BY <1>1, <1>2, <1>3, <3>1
    <3> QED
        BY <3>1, <3>2
  <2>2. ASSUME NEW i \in DOMAIN left' PROVE left'[i] \notin answered'
    <3>1. left'[i] = left[i + 1] /\ i + 1 \in DOMAIN left /\ i \in Nat \ {0}
        BY <1>3
    <3>2. left[i + 1] \notin answered
        BY <3>1 DEF NewsInv, NewsTypeOK, ToSet
    <3>3. left[i + 1] = Tickers[k + i] /\ k + i \in DOMAIN Tickers /\ k + i # k
      <4>1. left[i + 1] = Tickers[Len(Tickers) - Len(left) + (i + 1)] /\ i + 1 \in 1..Len(left)
          BY <1>2, <3>1 DEF NewsInv, NewsTypeOK
      <4> QED
          BY <1>1, <1>2, <3>1, <4>1
    <3> QED
        BY <1>1, <3>1, <3>2, <3>3
  <2>3. answered' \subseteq Stocks \ ToSet(left')
      BY <2>2 DEF NewsInv, NewsTypeOK, ToSet
  <2>4. /\ calls' \in [Stocks -> 0..RETRIES + 1]
        /\ status' \in [Stocks -> {"none", "observed", "not_queried", "source_error"}]
      BY <1>4, <1>5 DEF NewsInv, NewsTypeOK
  <2>5. /\ now' \in 0..LastTick /\ cutoff' \in -ClockLag..LastTick
        /\ newsPc' \in {"idle", "search", "scored"} /\ press' \in Seq(Press)
      BY <1>4 DEF NewsInv, NewsTypeOK, Press
  <2>6. \A q \in Stocks : found'[q] \subseteq PressOf(q)'
      BY <1>4 DEF PressOf
  <2> QED
      BY <1>1, <1>2, <1>3, <2>1, <2>3, <2>4, <2>5, <2>6 DEF NewsTypeOK, Press
<1>7. Progress'
  <2>1. Past' = Past \cup {k} /\ (Len(left) = 1 => Past' = DOMAIN Tickers)
      BY <1>1, <1>2, <1>3 DEF Past
  <2>2. DealtWith(s)'
      BY <1>1, <1>4, <1>5 DEF DealtWith, NewsInv, NewsTypeOK
  <2>3. \A i \in DOMAIN Tickers :
           i # k => /\ calls'[Tickers[i]] = calls[Tickers[i]] /\ status'[Tickers[i]] = status[Tickers[i]]
                    /\ Tickers[i] \in answered' <=> Tickers[i] \in answered
      BY <1>1, <1>4 DEF NewsInv, NewsTypeOK
  <2>4. \A i \in Past' : DealtWith(Tickers[i])'
      BY <1>1, <1>4, <2>1, <2>2, <2>3 DEF NewsInv, Progress, DealtWith, Past
  <2>5. CASE Len(left) = 1
    <3>1. \A q \in Stocks : DealtWith(q)'
        BY <2>1, <2>4, <2>5 DEF Stocks, ToSet
    <3> QED
        BY <1>4, <2>5, <3>1 DEF Progress
  <2>6. CASE Len(left) # 1
    <3>1. newsPc' = "search" /\ left' # <<>>
        BY <1>1, <1>3, <1>4, <2>6
    <3>2. ASSUME NEW i \in DOMAIN Tickers, i \notin Past'
          PROVE  status'[Tickers[i]] = "none" /\ calls'[Tickers[i]] = 0
      <4>1. i > k /\ i # k /\ i \notin Past
          BY <1>1, <1>2, <2>1, <3>2 DEF Past
      <4> QED
          BY <1>4, <2>3, <4>1 DEF NewsInv, Progress
    <3>3. \A i \in DOMAIN Tickers : i > Len(Tickers) - Len(left') + 1 => i \notin Past'
        BY <1>1, <1>2, <1>3 DEF Past
    <3> QED
        BY <2>4, <3>1, <3>2, <3>3 DEF Progress
  <2> QED
      BY <2>5, <2>6
<1>8. InTime'
    BY <1>4 DEF NewsInv, InTime
<1> QED
    BY <1>6, <1>7, <1>8

LEMMA NewsStart == NewsInit => NewsInv
<1> SUFFICES ASSUME NewsInit PROVE NewsInv
    OBVIOUS
<1>1. NewsTypeOK
    BY DEF NewsInit, NewsTypeOK, Unasked, ToSet
<1> QED
    BY <1>1 DEF NewsInit, NewsInv, Progress, InTime, Seen

\* The articles of a stock are some of the articles, and can be counted.
LEMMA Articles ==
    ASSUME NewsTypeOK, NEW s
    PROVE  /\ PressOf(s) \subseteq 1..Len(press) /\ Len(press) \in Nat
           /\ \A S : S \subseteq PressOf(s) => IsFiniteSet(S) /\ Cardinality(S) \in Nat
<1>1. PressOf(s) \subseteq 1..Len(press) /\ Len(press) \in Nat
    BY DEF NewsTypeOK, PressOf
<1>2. IsFiniteSet(1..Len(press))
    BY <1>1, FS_Interval
<1>3. ASSUME NEW S, S \subseteq PressOf(s) PROVE IsFiniteSet(S) /\ Cardinality(S) \in Nat
  <2>1. S \subseteq 1..Len(press)
      BY <1>1, <1>3
  <2> QED
      BY <1>2, <2>1, FS_Subset, FS_CardinalityType
<1> QED
    BY <1>1, <1>3

LEMMA TimesOfPress ==
    ASSUME NewsTypeOK
    PROVE  /\ now \in Nat /\ cutoff \in Int
           /\ \A a \in DOMAIN press : a \in Nat /\ press[a] \in Press /\ press[a].at \in 0..LastTick
<1>1. press \in Seq(Press)
    BY DEF NewsTypeOK, Press
<1>2. \A a \in DOMAIN press : a \in Nat /\ press[a] \in Press
    BY <1>1
<1>3. \A f \in Press : f.at \in 0..LastTick
    BY DEF Press
<1> QED
    BY <1>2, <1>3 DEF NewsTypeOK

\* A new article is newer than all, and comes after the cutoff of the run at work.
LEMMA PublishStep == NewsInv /\ Publish => NewsInv'
<1> SUFFICES ASSUME NewsInv, Publish PROVE NewsInv'
    OBVIOUS
<1>1. PICK s \in Stocks, title \in Headlines, dated \in BOOLEAN :
         press' = Append(press, [of |-> s, at |-> now, title |-> title, dated |-> dated])
    BY DEF Publish
<1> DEFINE f == [of |-> s, at |-> now, title |-> title, dated |-> dated]
           last == Len(press) + 1
<1>2. /\ now \in 0..LastTick /\ now' = now + 1 /\ now' \in 0..LastTick
      /\ UNCHANGED <<newsPc, cutoff, left, calls, found, answered, status>>
      /\ cutoff \in -ClockLag..LastTick
    BY DEF Publish, NewsInv, NewsTypeOK
<1>3. press \in Seq(Press) /\ f \in Press /\ f.at = now
    BY <1>2 DEF NewsInv, NewsTypeOK, Press
<1> HIDE DEF f
<1>4. /\ press' \in Seq(Press) /\ DOMAIN press' = 1..last /\ press'[last] = f
      /\ DOMAIN press = 1..Len(press) /\ Len(press) \in Nat
      /\ \A a \in DOMAIN press : a \in DOMAIN press' /\ a # last /\ press'[a] = press[a]
    BY <1>1, <1>3 DEF f
<1>5. \A q : PressOf(q) \subseteq PressOf(q)'
    BY <1>4 DEF PressOf
<1>6. NewsTypeOK'
    BY <1>2, <1>4, <1>5 DEF NewsInv, NewsTypeOK, Press
<1>7. Progress'
    BY <1>2 DEF NewsInv, Progress, Past, DealtWith
<1>8. InTime'
  <2>1. \A a \in DOMAIN press : press[a].at \in 0..LastTick
      BY TimesOfPress DEF NewsInv
  <2>2. \A a \in DOMAIN press' : a = last \/ a \in DOMAIN press
      BY <1>4
  <2>3. \A a \in DOMAIN press' : press'[a].at < now'
      BY <1>2, <1>3, <1>4, <2>1, <2>2 DEF NewsInv, InTime
  <2>4. ASSUME NEW a \in DOMAIN press', NEW b \in DOMAIN press', a < b
        PROVE  press'[a].at < press'[b].at
    <3>1. a \in DOMAIN press /\ press[a].at < now
        BY <1>4, <2>2, <2>4 DEF NewsInv, InTime
    <3>2. CASE b = last
        BY <1>3, <1>4, <3>1, <3>2
    <3>3. CASE b \in DOMAIN press
        BY <1>4, <2>4, <3>1, <3>3 DEF NewsInv, InTime
    <3> QED
        BY <2>2, <3>2, <3>3
  <2>5. newsPc' # "idle" => cutoff' + ClockLag < now'
      BY <1>2 DEF NewsInv, InTime
  <2> QED
      BY <2>3, <2>4, <2>5 DEF InTime
<1>9. Seen'
  <2> SUFFICES ASSUME newsPc # "idle", NEW q \in answered
               PROVE  /\ \A a \in found[q] : press'[a].dated
                      /\ \A a \in PressOf(q)' :
                            press'[a].at <= cutoff + ClockLag /\ press'[a].dated =>
                               a \in found[q] \/ DISPLAY <= Cardinality({b \in PressOf(q)' : b > a})
      BY <1>2 DEF Seen
  <2>1. q \in Stocks /\ found[q] \subseteq PressOf(q)
      BY DEF NewsInv, NewsTypeOK
  <2>2. \A a \in found[q] : press'[a].dated
      BY <1>4, <2>1 DEF NewsInv, Seen, PressOf
  <2>3. ASSUME NEW a \in PressOf(q)', press'[a].at <= cutoff + ClockLag, press'[a].dated
        PROVE  a \in found[q] \/ DISPLAY <= Cardinality({b \in PressOf(q)' : b > a})
    <3>1. a \in PressOf(q) /\ press'[a] = press[a]
      <4>1. a # last
          BY <1>2, <1>3, <1>4, <2>3 DEF NewsInv, InTime
      <4> QED
          BY <1>4, <4>1 DEF PressOf
    <3>2. a \in found[q] \/ DISPLAY <= Cardinality({b \in PressOf(q) : b > a})
        BY <2>3, <3>1 DEF NewsInv, Seen
    <3> DEFINE old == {b \in PressOf(q) : b > a}
               new == {b \in PressOf(q)' : b > a}
    <3>3. IsFiniteSet(new) /\ Cardinality(new) \in Nat /\ Cardinality(old) \in Nat
      <4>1. \A S : S \subseteq PressOf(q) => Cardinality(S) \in Nat
          BY Articles DEF NewsInv
      <4>2. \A S : S \subseteq PressOf(q)' => IsFiniteSet(S) /\ Cardinality(S) \in Nat
        <5>1. PressOf(q)' \subseteq 1..last /\ last \in Nat
            BY <1>4 DEF PressOf
        <5>2. IsFiniteSet(1..last)
            BY <5>1, FS_Interval
        <5> QED
            BY <5>1, <5>2, FS_Subset, FS_CardinalityType
      <4>3. old \subseteq PressOf(q) /\ new \subseteq PressOf(q)'
          OBVIOUS
      <4> QED
          BY <4>1, <4>2, <4>3
    <3>4. old \subseteq new
        BY <1>5
    <3>5. Cardinality(old) <= Cardinality(new)
        BY <3>3, <3>4, FS_Subset
    <3> QED
        BY <3>2, <3>3, <3>5
  <2> QED
      BY <2>2, <2>3
<1> QED
    BY <1>6, <1>7, <1>8, <1>9 DEF NewsInv

LEMMA TakeCutoffStep ==
    ASSUME NewsInv, NEW t \in NewsDays, TakeCutoff(t) PROVE NewsInv'
<1>1. /\ now \in 0..LastTick /\ now' = now + 1 /\ now' \in 0..LastTick
      /\ cutoff' = now - ClockLag /\ answered' = {} /\ press' = press
      /\ calls' = [s \in Stocks |-> 0] /\ found' = [s \in Stocks |-> {}]
    BY DEF TakeCutoff, NewsInv, NewsTypeOK
<1>2. \/ /\ newsPc' = "scored" /\ left' = <<>> /\ status' = [s \in Stocks |-> "not_queried"]
      \/ /\ newsPc' = "search" /\ left' = Tickers /\ status' = [s \in Stocks |-> "none"]
    BY DEF TakeCutoff, Unasked
<1>3. /\ left' \in Seq(Stocks) /\ Len(left') <= Len(Tickers)
      /\ \A i \in DOMAIN left' : left'[i] = Tickers[Len(Tickers) - Len(left') + i]
      /\ newsPc' = "search" => left' = Tickers
  <2>1. CASE left' = <<>>
      BY <1>2, <2>1
  <2>2. CASE left' = Tickers
    <3>1. \A i \in DOMAIN Tickers : Len(Tickers) - Len(Tickers) + i = i
        OBVIOUS
    <3> QED
        BY <2>2, <3>1
  <2> QED
      BY <1>2, <2>1, <2>2
<1>4. NewsTypeOK'
    BY <1>1, <1>2, <1>3 DEF NewsInv, NewsTypeOK, PressOf
<1>5. Progress'
  <2>1. newsPc' = "search" => Past' = {}
      BY <1>3 DEF Past
  <2>2. \A i \in DOMAIN Tickers : Tickers[i] \in Stocks
      BY DEF Stocks, ToSet
  <2> QED
      BY <1>1, <1>2, <2>1, <2>2 DEF Progress
<1>6. InTime'
    BY <1>1, TimesOfPress DEF NewsInv, InTime
<1>7. Seen'
    BY <1>1 DEF Seen
<1> QED
    BY <1>4, <1>5, <1>6, <1>7 DEF NewsInv

\* The answer has the newest articles, as many as it holds.
LEMMA AnsweredStep ==
    ASSUME NewsInv, NEW s \in Stocks, Answered(s) PROVE NewsInv'
<1> DEFINE answer == {a \in NewestOf(PressOf(s), DISPLAY) : press[a].dated}
<1>1. /\ Ask(s) /\ Searched(s, "observed") /\ answered' = answered \cup {s}
      /\ found' = [found EXCEPT ![s] = answer]
    BY DEF Answered
<1>2. answer \subseteq PressOf(s) /\ DOMAIN found' = Stocks
      /\ \A q \in Stocks : found'[q] = IF q = s THEN answer ELSE found[q]
    BY <1>1 DEF NewestOf, NewsInv, NewsTypeOK
<1>3. \A q \in Stocks : found'[q] \subseteq PressOf(q)
    BY <1>2 DEF NewsInv, NewsTypeOK
<1>4. NewsTypeOK' /\ Progress' /\ InTime'
    BY <1>1, <1>2, <1>3, SearchedStep
<1>5. UNCHANGED <<press, cutoff>> /\ newsPc = "search"
    BY <1>1 DEF Ask
<1>6. \A a \in PressOf(s) :
         press[a].dated => a \in answer \/ DISPLAY <= Cardinality({b \in PressOf(s) : b > a})
  <2> TAKE a \in PressOf(s)
  <2>1. Cardinality({b \in PressOf(s) : b > a}) \in Nat
      BY Articles DEF NewsInv
  <2> QED
      BY <2>1 DEF NewestOf
<1>7. \A q : PressOf(q)' = PressOf(q)
    BY <1>5 DEF PressOf
<1>8. Seen'
  <2> SUFFICES ASSUME NEW q \in answered \cup {s}
               PROVE  /\ \A a \in found'[q] : press[a].dated
                      /\ \A a \in PressOf(q) :
                            press[a].at <= cutoff + ClockLag /\ press[a].dated =>
                               a \in found'[q] \/ DISPLAY <= Cardinality({b \in PressOf(q) : b > a})
      BY <1>1, <1>5, <1>7 DEF Seen
  <2>1. CASE q = s
      BY <1>2, <1>6, <2>1
  <2>2. CASE q # s
    <3>1. q \in answered /\ q \in Stocks /\ found'[q] = found[q] /\ newsPc # "idle"
        BY <1>2, <1>5, <2>2 DEF NewsInv, NewsTypeOK
    <3> QED
        BY <3>1 DEF NewsInv, Seen
  <2> QED
      BY <2>1, <2>2
<1> QED
    BY <1>4, <1>8 DEF NewsInv

LEMMA FailureStep ==
    ASSUME NewsInv, NEW s \in Stocks, FailsForNow(s) \/ Refused(s) PROVE NewsInv'
<1>1. Ask(s) /\ UNCHANGED <<found, answered, press, cutoff, now>> /\ newsPc = "search"
    BY DEF FailsForNow, Refused, Ask
<1>2. Seen'
    BY <1>1 DEF NewsInv, Seen, PressOf
<1>3. CASE Searched(s, "source_error")
  <2>1. DOMAIN found' = Stocks /\ \A q \in Stocks : found'[q] \subseteq PressOf(q)
      BY <1>1 DEF NewsInv, NewsTypeOK
  <2>2. NewsTypeOK' /\ Progress' /\ InTime'
      BY <1>1, <1>3, <2>1, SearchedStep
  <2> QED
      BY <1>2, <2>2 DEF NewsInv
<1>4. CASE calls[s] < RETRIES /\ UNCHANGED <<left, status, newsPc>>
  <2> DEFINE k == Len(Tickers) - Len(left) + 1
  <2>1. /\ k \in DOMAIN Tickers /\ Tickers[k] = s /\ k \notin Past /\ s \notin answered
        /\ \A i \in DOMAIN Tickers : i # k => Tickers[i] # s
      BY <1>1, AtHead
  <2>2. calls' = [calls EXCEPT ![s] = @ + 1] /\ calls[s] \in Nat /\ calls \in [Stocks -> 0..RETRIES + 1]
      BY <1>1 DEF Ask, NewsInv, NewsTypeOK
  <2>3. NewsTypeOK'
      BY <1>1, <1>4, <2>2 DEF NewsInv, NewsTypeOK, PressOf
  <2>4. \A i \in DOMAIN Tickers :
           calls'[Tickers[i]] = IF i = k THEN calls[s] + 1 ELSE calls[Tickers[i]]
    <3>1. \A i \in DOMAIN Tickers : Tickers[i] \in Stocks
        BY DEF Stocks, ToSet
    <3> QED
        BY <2>1, <2>2, <3>1
  <2>5. Progress'
    <3>1. Past' = Past /\ left' = left /\ newsPc' = "search"
        BY <1>1, <1>4 DEF Past
    <3>2. left # <<>>
        BY <1>1 DEF NewsInv, Progress
    <3>3. ASSUME NEW i \in DOMAIN Tickers
          PROVE  /\ i \in Past => DealtWith(Tickers[i])'
                 /\ i \notin Past => status'[Tickers[i]] = "none" /\ calls'[Tickers[i]] <= RETRIES
                 /\ i > k => calls'[Tickers[i]] = 0
      <4>1. CASE i = k
          BY <1>1, <1>4, <2>1, <2>2, <2>4, <4>1 DEF NewsInv, Progress
      <4>2. CASE i # k
          BY <1>1, <1>4, <2>1, <2>4, <4>2 DEF NewsInv, Progress, DealtWith
      <4> QED
          BY <4>1, <4>2
    <3> QED
        BY <3>1, <3>2, <3>3 DEF Progress
  <2>6. InTime'
      BY <1>1, <1>4 DEF NewsInv, InTime
  <2> QED
      BY <1>2, <2>3, <2>5, <2>6 DEF NewsInv
<1> QED
    BY <1>3, <1>4 DEF FailsForNow, Refused

LEMMA NewsStep == NewsInv /\ [NewsNext]_newsVars => NewsInv'
<1> SUFFICES ASSUME NewsInv, [NewsNext]_newsVars PROVE NewsInv'
    OBVIOUS
<1>1. CASE Tick
  <2>1. /\ now \in 0..LastTick /\ now' = now + 1 /\ now' \in 0..LastTick
        /\ UNCHANGED <<press, newsPc, cutoff, left, calls, found, answered, status>>
      BY <1>1 DEF Tick, NewsInv, NewsTypeOK
  <2>2. NewsTypeOK' /\ Progress' /\ Seen'
      BY <2>1 DEF NewsInv, NewsTypeOK, PressOf, Progress, Past, DealtWith, Seen
  <2>3. InTime'
      BY <2>1, TimesOfPress DEF NewsInv, InTime
  <2> QED
      BY <2>2, <2>3 DEF NewsInv
<1>2. CASE Publish
    BY <1>2, PublishStep
<1>3. CASE Leave
  <2>1. newsPc' = "idle" /\ UNCHANGED <<now, press, cutoff, left, calls, found, answered, status>>
      BY <1>3 DEF Leave
  <2> QED
      BY <2>1 DEF NewsInv, NewsTypeOK, PressOf, Progress, InTime, Seen
<1>4. ASSUME NEW t \in NewsDays, TakeCutoff(t) PROVE NewsInv'
    BY <1>4, TakeCutoffStep
<1>5. ASSUME NEW s \in Stocks, Answered(s) PROVE NewsInv'
    BY <1>5, AnsweredStep
<1>6. ASSUME NEW s \in Stocks, FailsForNow(s) \/ Refused(s) PROVE NewsInv'
    BY <1>6, FailureStep
<1>7. CASE UNCHANGED newsVars
    BY <1>7 DEF newsVars, NewsInv, NewsTypeOK, PressOf, Progress, Past, DealtWith, InTime, Seen
<1> QED
    BY <1>1, <1>2, <1>3, <1>4, <1>5, <1>6, <1>7 DEF NewsNext

THEOREM NewsInvariance == NewsSpec => []NewsInv
BY NewsStart, NewsStep, PTL DEF NewsSpec

-----------------------------------------------------------------------------
\* The run's bookkeeping keeps its form; no stock is asked for more than RETRIES + 1 times.
THEOREM NewsTyped == NewsSpec => []NewsTypeOK
<1>1. NewsInv => NewsTypeOK
    BY DEF NewsInv
<1> QED
    BY <1>1, NewsInvariance, PTL

\* For any stocks and retries: not asked, failed and quiet are told apart, stock by stock.
THEOREM SilenceIsTold == NewsSpec => []SilenceIsKnown
<1>1. NewsInv => SilenceIsKnown
  <2> SUFFICES ASSUME NewsInv, newsPc = "scored", NEW s \in Stocks
               PROVE  /\ StoredStatus(s) = "not_queried" <=> calls[s] = 0
                      /\ StoredStatus(s) = "source_error" <=> calls[s] > 0 /\ s \notin answered
      BY DEF SilenceIsKnown
  <2>1. \/ calls[s] > 0 /\ status[s] = IF s \in answered THEN "observed" ELSE "source_error"
        \/ calls[s] = 0 /\ status[s] = "not_queried"
      BY DEF NewsInv, Progress, DealtWith
  <2>2. calls[s] \in Nat
      BY DEF NewsInv, NewsTypeOK
  <2>3. NewsPart(s).reason = IF status[s] \in {"not_queried", "source_error"} THEN status[s] ELSE "none"
      BY DEF NewsPart, Missing, NoEvent, Observed
  <2>4. StoredStatus(s) = IF status[s] \in {"not_queried", "source_error"} THEN status[s]
                          ELSE IF NewsPart(s).state = "no_event" THEN "no_event" ELSE "observed"
      BY <2>3 DEF StoredStatus
  <2> QED
      BY <2>1, <2>2, <2>4
<1> QED
    BY <1>1, NewsInvariance, PTL

\* If the runner's clock were the one of the articles, a stock that was searched would be scored
\* with its newest related articles of the week, whatever appears during the search.
THEOREM NewestAreCounted == ASSUME ClockLag = 0 PROVE NewsSpec => []CountsNewestOfWeek
<1>1. NewsInv => CountsNewestOfWeek
  <2> SUFFICES ASSUME NewsInv, newsPc = "scored", NEW s \in answered
               PROVE  LET began == cutoff + ClockLag
                          since == {a \in PressOf(s) : began - WindowLen <= press[a].at}
                          week == {a \in since : press[a].at <= began /\ press[a].dated}
                      IN  Cardinality(since) <= DISPLAY =>
                             Picked(s) = NewestOf({a \in week : IsRelated(a, s)}, MaxArticles)
      BY DEF CountsNewestOfWeek
  <2> DEFINE began == cutoff + ClockLag
             since == {a \in PressOf(s) : began - WindowLen <= press[a].at}
             week == {a \in since : press[a].at <= began /\ press[a].dated}
  <2>1. /\ s \in Stocks /\ cutoff \in Int /\ began = cutoff /\ found[s] \subseteq PressOf(s)
        /\ \A a \in PressOf(s) : a \in Int /\ a \in DOMAIN press /\ press[a].at \in Int
    <3>1. s \in Stocks /\ found[s] \subseteq PressOf(s)
        BY DEF NewsInv, NewsTypeOK
    <3> QED
        BY <3>1, TimesOfPress DEF NewsInv, PressOf
  <2>2. /\ \A a \in found[s] : press[a].dated
        /\ \A a \in PressOf(s) :
              press[a].at <= began /\ press[a].dated =>
                 a \in found[s] \/ DISPLAY <= Cardinality({b \in PressOf(s) : b > a})
      BY DEF NewsInv, Seen
  <2>3. ASSUME Cardinality(since) <= DISPLAY, NEW a \in week PROVE a \in found[s]
    <3> DEFINE newer == {b \in PressOf(s) : b > a}
    <3>1. newer \subseteq since /\ a \in since /\ a \notin newer
        BY <2>1 DEF NewsInv, InTime
    <3>2. IsFiniteSet(since) /\ IsFiniteSet(newer) /\ Cardinality(newer) \in Nat
          /\ Cardinality(since) \in Nat
      <4>1. since \subseteq PressOf(s) /\ newer \subseteq PressOf(s)
          OBVIOUS
      <4> QED
          BY <4>1, Articles DEF NewsInv
    <3>3. Cardinality(newer \cup {a}) = Cardinality(newer) + 1
        BY <3>1, <3>2, FS_AddElement
    <3>4. Cardinality(newer \cup {a}) <= Cardinality(since)
        BY <3>1, <3>2, FS_Subset
    <3>5. ~(DISPLAY <= Cardinality(newer))
        BY <2>3, <3>2, <3>3, <3>4
    <3> QED
        BY <2>2, <3>5
  <2>4. ASSUME Cardinality(since) <= DISPLAY PROVE InWindow(s) = week
      BY <2>1, <2>2, <2>3, <2>4 DEF InWindow
  <2> QED
      BY <2>4 DEF Picked
<1> QED
    BY <1>1, NewsInvariance, PTL

HIDE NewsAssumption

-----------------------------------------------------------------------------
(***************************************************************************)
(* Fundamentals: for any accounts, forms of report and peers.              *)
(***************************************************************************)
USE FundamentalsAssumption

LEMMA FundamentalsStart == FundamentalsInit => FundamentalsTypeOK
<1>1. FirstQuarter \in FirstQuarter..LastQuarter
    BY DEF Quarters
<1> QED
    BY <1>1 DEF FundamentalsInit, FundamentalsTypeOK

LEMMA FundamentalsStep ==
    FundamentalsTypeOK /\ [FundamentalsNext]_fundVars => FundamentalsTypeOK'
<1> SUFFICES ASSUME FundamentalsTypeOK, [FundamentalsNext]_fundVars PROVE FundamentalsTypeOK'
    OBVIOUS
<1>1. CASE QuarterEnds
  <2>1. quarter' \in FirstQuarter..LastQuarter /\ Reported \subseteq Reported'
      BY <1>1 DEF QuarterEnds, FundamentalsTypeOK, Reported, Quarters
  <2> QED
      BY <1>1, <2>1 DEF QuarterEnds, FundamentalsTypeOK
<1>2. CASE GetReports
  <2>1. PICK p \in Reported :
           /\ periodic' = p
           /\ annual' \in {NoReport} \cup {a \in Reported : IsAnnual(a) /\ a.end <= p.end}
      BY <1>2 DEF GetReports
  <2>2. Reported' = Reported
      BY <1>2 DEF GetReports, Reported
  <2> QED
      BY <1>2, <2>1, <2>2 DEF GetReports, FundamentalsTypeOK
<1>3. CASE UNCHANGED fundVars
    BY <1>3 DEF fundVars, FundamentalsTypeOK, Reported
<1> QED
    BY <1>1, <1>2, <1>3 DEF FundamentalsNext

\* A run's reports are over when it gets them, and stay what they are.
THEOREM FundamentalsTyped == FundamentalsSpec => []FundamentalsTypeOK
BY FundamentalsStart, FundamentalsStep, PTL DEF FundamentalsSpec

-----------------------------------------------------------------------------
(* Twelve months.                                                          *)

\* A total of adjoining quarters is the total of the first and that of the others.
LEMMA TotalsAdd ==
    ASSUME NEW h \in Histories, NEW form, NEW account \in Accounts,
           NEW a \in Quarters, NEW b \in Quarters, NEW c \in Quarters, a <= b, b < c
    PROVE  /\ Total(h, form, account, a, b) \in Int
           /\ Total(h, form, account, b + 1, c) \in Int
           /\ Total(h, form, account, a, c) =
                 Total(h, form, account, a, b) + Total(h, form, account, b + 1, c)
<1> DEFINE v(q) == h[q][Basis(form)][account]
           all == [q \in a..c |-> v(q)]
           first == [q \in a..b |-> v(q)]
           others == [q \in b + 1..c |-> v(q)]
           A == a..b
           B == b + 1..c
<1>1. A \cup B = a..c /\ A \cap B = {} /\ A \cup B \subseteq Quarters /\ 1 <= a /\ 1 <= b + 1
    BY DEF Quarters
<1>2. \A q \in Quarters : v(q) \in Int
    BY DEF Basis
<1>3. IsFiniteSet(A) /\ IsFiniteSet(B)
  <2>1. a \in Int /\ b \in Int /\ b + 1 \in Int /\ c \in Int
      BY DEF Quarters
  <2> QED
      BY <2>1, FS_Interval
<1>4. /\ Total(h, form, account, a, b) = SumFunctionOnSet(first, A)
      /\ Total(h, form, account, b + 1, c) = SumFunctionOnSet(others, B)
      /\ Total(h, form, account, a, c) = SumFunctionOnSet(all, A \cup B)
  <2>1. ~(a < 1) /\ ~(b + 1 < 1)
      BY <1>1 DEF Quarters
  <2>2. Total(h, form, account, a, c) = SumFunctionOnSet(all, a..c)
      BY <2>1, Zenon DEF Total
  <2> QED
      BY <1>1, <2>1, <2>2, Zenon DEF Total
<1>5. /\ \A q \in A : first[q] = all[q]
      /\ \A q \in B : others[q] = all[q]
      /\ \A q \in A \cup B : all[q] \in Int
    BY <1>1, <1>2
<1> HIDE DEF first, others, all, A, B
<1>6. /\ SumFunctionOnSet(first, A) = SumFunctionOnSet(all, A)
      /\ SumFunctionOnSet(others, B) = SumFunctionOnSet(all, B)
  <2>1. SumFunctionOnSet(first, A) = SumFunctionOnSet(all, A)
      BY <1>3, <1>5, SumOfSame
  <2>2. SumFunctionOnSet(others, B) = SumFunctionOnSet(all, B)
      BY <1>3, <1>5, SumOfSame
  <2> QED
      BY <2>1, <2>2
<1>7. SumFunctionOnSet(all, A \cup B) = SumFunctionOnSet(all, A) + SumFunctionOnSet(all, B)
    BY <1>1, <1>3, <1>5, SumUnion
<1>8. SumFunctionOnSet(all, A) \in Int /\ SumFunctionOnSet(all, B) \in Int
    BY <1>3, <1>5, SumInt
<1> QED
    BY <1>4, <1>6, <1>7, <1>8

\* A fiscal year has four quarters.
LEMMA YearOf ==
    ASSUME NEW end \in Nat \ {0}
    PROVE  OfYear(end) \in 1..4 /\ OfYear(end) <= end
BY DEF OfYear

\* What TTM is said to be, for any accounts and any reports of the right form: two sums that
\* overlap, less what is in both of them.
THEOREM TtmIsTwelveMonths == FundamentalsSpec => []TtmIsLastFour
<1>1. FundamentalsTypeOK => TtmIsLastFour
  <2> DEFINE y == annual.end
             e == periodic.end
             total(first, last) == Total(history, periodic.form, "net", first, last)
  <2> SUFFICES ASSUME FundamentalsTypeOK, TtmNet(history).basis = "ttm",
                      Basis(annual.form) = Basis(periodic.form), y = e - OfYear(e),
                      periodic.form.added = "neither" => OfYear(e) = 1
               PROVE  TtmNet(history).net = <<total(e - 3, e), 1>>
      BY DEF TtmIsLastFour
  <2> DEFINE net == FlowOf(history, periodic, "net")
             year == FlowOf(history, annual, "net").now
  <2>1. /\ periodic # NoReport /\ annual # NoReport /\ ~IsAnnual(periodic)
        /\ net.now # NoAmount /\ year # NoAmount /\ net.prev # NoAmount /\ net.periods_match
        /\ TtmNet(history).net = <<year + net.now - net.prev, 1>>
      BY DEF TtmNet, NoProfit
  <2>2. /\ e \in Quarters /\ y \in Quarters /\ IsAnnual(annual)
        /\ history \in Histories /\ periodic.form \in Forms
      BY <2>1 DEF FundamentalsTypeOK, Reported, Quarters
  <2>3. /\ OfYear(e) \in 1..3 /\ OfYear(y) = 4 /\ e > y
      BY <2>1, <2>2, YearOf DEF Quarters, IsAnnual
  <2>4. y >= 4
      BY <2>2, <2>3, YearOf DEF Quarters
  <2>5. year = total(y - 3, y)
    <3>1. Since(annual, annual.form.added \in {"both", "now"}) = y - 3
        BY <2>2, <2>3 DEF Since, Quarters
    <3>2. year = Total(history, annual.form, "net", y - 3, y)
        BY <2>1, <3>1 DEF FlowOf
    <3> QED
        BY <3>2 DEF Total
  <2>6. net.now = total(y + 1, e) /\ net.prev = total(y - 3, e - 4)
    <3>1. periodic.form.added \in {"both", "neither"}
        BY <2>1, <2>2 DEF FlowOf
    <3> DEFINE since == Since(periodic, periodic.form.added \in {"both", "now"})
               prev == Since(periodic, periodic.form.added = "both")
    <3>2. since = y + 1 /\ prev = y + 1 /\ prev - 4 = y - 3
        BY <2>1, <2>2, <2>3, <3>1 DEF Since, Quarters
    <3>3. Shown(periodic.form, "net")
        BY <2>1 DEF FlowOf
    <3>4. net.now = total(since, e) /\ net.prev = total(prev - 4, e - 4)
        BY <3>3 DEF FlowOf
    <3> HIDE DEF net, since, prev, total
    <3> QED
        BY <3>2, <3>4
  <2>7. /\ total(y - 3, y) = total(y - 3, e - 4) + total(e - 3, y)
        /\ total(e - 3, e) = total(e - 3, y) + total(y + 1, e)
        /\ {total(y - 3, e - 4), total(e - 3, y), total(y + 1, e)} \subseteq Int
    <3>1. /\ y - 3 \in Quarters /\ e - 4 \in Quarters /\ e - 3 \in Quarters
          /\ y - 3 <= e - 4 /\ e - 4 < y /\ e - 3 <= y /\ y < e /\ e - 4 + 1 = e - 3
        BY <2>2, <2>3, <2>4 DEF Quarters
    <3>2. "net" \in Accounts
        BY DEF Accounts
    <3>3. \A a, b, c \in Quarters : a <= b /\ b < c =>
             /\ total(a, b) \in Int /\ total(b + 1, c) \in Int
             /\ total(a, c) = total(a, b) + total(b + 1, c)
        BY <2>2, <3>2, TotalsAdd
    <3> HIDE FundamentalsAssumption
    <3> HIDE DEF e, y, total
    <3>4. /\ total(y - 3, e - 4) \in Int
          /\ total(y - 3, y) = total(y - 3, e - 4) + total(e - 3, y)
        BY <2>2, <3>1, <3>3
    <3>5. /\ total(e - 3, y) \in Int /\ total(y + 1, e) \in Int
          /\ total(e - 3, e) = total(e - 3, y) + total(y + 1, e)
        BY <2>2, <3>1, <3>3
    <3> QED
        BY <3>4, <3>5
  <2> HIDE DEF total
  <2> QED
      BY <2>1, <2>5, <2>6, <2>7
<1> QED
    BY <1>1, FundamentalsTyped, PTL

-----------------------------------------------------------------------------
(* Points for quotients.                                                   *)

StepType == [bound : Int, cmp : {"ge", "le", "lt", "gt"}, points : Int]

LEMMA StepIs ==
    ASSUME NEW item \in TierNames, NEW m
    PROVE  /\ DOMAIN Times(FundTiers[item], m) = DOMAIN FundTiers[item]
           /\ DOMAIN FundTiers[item] \in SUBSET Nat
           /\ \A i \in DOMAIN FundTiers[item] :
                 /\ Times(FundTiers[item], m)[i].points = FundTiers[item][i].points
                 /\ Times(FundTiers[item], m)[i].cmp = FundTiers[item][i].cmp
                 /\ Times(FundTiers[item], m)[i].bound = FundTiers[item][i].bound * m
                 /\ FundTiers[item][i].points \in Nat /\ FundTiers[item][i].bound \in Int
                 /\ FundTiers[item][i].cmp \in {"ge", "le", "lt", "gt"}
<1> DEFINE steps == FundTiers[item]
<1>1. FundTiers \in [TierNames -> Seq(StepType)]
    BY DEF Tiers, StepType
<1>2. steps \in Seq(StepType)
    BY <1>1
<1>3. \A i \in DOMAIN steps : steps[i].points >= 0
    OBVIOUS
<1> HIDE FundamentalsAssumption
<1> HIDE DEF steps
<1>4. DOMAIN steps \in SUBSET Nat
    BY <1>2
<1>5. ASSUME NEW i \in DOMAIN steps
      PROVE  /\ Times(steps, m)[i] = [steps[i] EXCEPT !.bound = @ * m]
             /\ steps[i] \in StepType /\ steps[i].points >= 0
    BY <1>2, <1>3, <1>5 DEF Times
<1>6. DOMAIN Times(steps, m) = DOMAIN steps
    BY DEF Times
<1>7. ASSUME NEW i \in DOMAIN steps
      PROVE  /\ Times(steps, m)[i].points = steps[i].points
             /\ Times(steps, m)[i].cmp = steps[i].cmp
             /\ Times(steps, m)[i].bound = steps[i].bound * m
             /\ steps[i].points \in Nat /\ steps[i].bound \in Int
             /\ steps[i].cmp \in {"ge", "le", "lt", "gt"}
  <2> DEFINE step == steps[i]
             mine == Times(steps, m)[i]
  <2>1. mine = [step EXCEPT !.bound = @ * m] /\ step \in StepType /\ step.points >= 0
      BY <1>5
  <2> HIDE DEF step, mine
  <2>2. mine.points = step.points /\ mine.cmp = step.cmp /\ mine.bound = step.bound * m
      BY <2>1 DEF StepType
  <2>3. step.points \in Nat /\ step.bound \in Int /\ step.cmp \in {"ge", "le", "lt", "gt"}
      BY <2>1 DEF StepType
  <2> QED
      BY <2>2, <2>3 DEF step, mine
<1> QED
    BY <1>4, <1>6, <1>7 DEF steps

\* Points are whole numbers not below 0, whatever they are for.
LEMMA PointsAreNat ==
    ASSUME NEW item \in TierNames, NEW n, NEW m
    PROVE  Points(item, n, m) \in Nat
<1> DEFINE t == Times(FundTiers[item], m)
           met == {i \in DOMAIN t : Meets(100 * n, t[i])}
<1>1. DOMAIN t \in SUBSET Nat /\ \A i \in DOMAIN t : t[i].points \in Nat
    BY StepIs
<1>2. met \in SUBSET Nat /\ met \subseteq DOMAIN t
    BY <1>1
<1>3. Points(item, n, m) = IF met = {} THEN 0 ELSE t[Min(met)].points
    BY DEF Points, TierPoints
<1> HIDE FundamentalsAssumption
<1> HIDE DEF met, t
<1>4. met # {} => Min(met) \in DOMAIN t
    BY <1>2, Least
<1>5. met # {} => t[Min(met)].points \in Nat
    BY <1>1, <1>4
<1> QED
    BY <1>3, <1>5

\* More of the same base has no fewer points.
LEMMA PointsUp ==
    ASSUME NEW item \in {"op_margin", "roe", "op_growth"},
           NEW m \in Int, NEW n \in Int, NEW k \in Int, n <= k
    PROVE  Points(item, n, m) <= Points(item, k, m)
<1> DEFINE t == Times(FundTiers[item], m)
<1>1. item \in TierNames
    BY DEF TierNames, FundItems
<1>2. /\ DOMAIN t \in SUBSET Nat
      /\ \A i \in DOMAIN t : t[i].points \in Nat /\ t[i].bound \in Int /\ t[i].cmp \in {"ge", "gt"}
      /\ \A i, j \in DOMAIN t : i <= j => t[i].points >= t[j].points
  <2>1. StepsOf(item, {"ge", "gt"})
      OBVIOUS
  <2> HIDE FundamentalsAssumption
  <2> DEFINE steps == FundTiers[item]
  <2>2. /\ DOMAIN t = DOMAIN steps /\ DOMAIN steps \in SUBSET Nat
        /\ \A i \in DOMAIN steps :
              /\ t[i].points = steps[i].points /\ t[i].cmp = steps[i].cmp
              /\ t[i].bound = steps[i].bound * m
              /\ steps[i].points \in Nat /\ steps[i].bound \in Int
      BY <1>1, StepIs
  <2>3. \A i \in DOMAIN steps : steps[i].cmp \in {"ge", "gt"}
      BY <2>1 DEF StepsOf
  <2>4. \A i, j \in DOMAIN steps : i <= j => steps[i].points >= steps[j].points
      BY <2>1 DEF StepsOf
  <2> HIDE DEF t, steps
  <2>5. \A i \in DOMAIN steps : t[i].bound \in Int
      BY <2>2
  <2> QED
      BY <2>2, <2>3, <2>4, <2>5
<1> HIDE DEF t
<1>3. \A i \in DOMAIN t : Meets(100 * n, t[i]) => Meets(100 * k, t[i])
    BY <1>2 DEF Meets
<1>4. TierPoints(100 * k, t) >= TierPoints(100 * n, t)
    BY <1>2, <1>3, MoreMet
<1>5. TierPoints(100 * k, t) \in Nat /\ TierPoints(100 * n, t) \in Nat
    BY <1>2, <1>3, MoreMet
<1> QED
    BY <1>4, <1>5 DEF Points, t

\* What is cancelled from a product of two above 0.
LEMMA Cancel ==
    ASSUME NEW a \in Int, NEW b \in Int, NEW g \in Nat \ {0}
    PROVE  (g * a < g * b <=> a < b) /\ (g * a <= g * b <=> a <= b)
OBVIOUS

\* A price over a base that is not less, both up to a factor, has no fewer points.
LEMMA PointsDown ==
    ASSUME NEW c \in Nat \ {0}, NEW a \in Nat \ {0}, NEW b \in Nat \ {0}, a <= b,
           NEW g \in Nat \ {0}, NEW h \in Nat \ {0}
    PROVE  Points("per", g * c, g * a) <= Points("per", h * c, h * b)
<1> DEFINE t == Times(FundTiers["per"], g * a)
           u == Times(FundTiers["per"], h * b)
           steps == FundTiers["per"]
<1>1. "per" \in TierNames
    BY DEF TierNames, FundItems
<1>2. /\ DOMAIN t = DOMAIN steps /\ DOMAIN u = DOMAIN steps /\ DOMAIN steps \in SUBSET Nat
      /\ \A i \in DOMAIN steps :
            /\ t[i].points \in Nat /\ u[i].points = t[i].points /\ t[i].points = steps[i].points
            /\ steps[i].bound \in Int /\ steps[i].cmp \in {"le", "lt"}
            /\ t[i].cmp = steps[i].cmp /\ u[i].cmp = steps[i].cmp
            /\ t[i].bound = steps[i].bound * (g * a) /\ u[i].bound = steps[i].bound * (h * b)
      /\ \A i, j \in DOMAIN steps : i <= j => t[i].points >= t[j].points
  <2>1. StepsOf("per", {"le", "lt"})
      OBVIOUS
  <2> HIDE FundamentalsAssumption
  <2>2. /\ DOMAIN t = DOMAIN steps /\ DOMAIN u = DOMAIN steps /\ DOMAIN steps \in SUBSET Nat
        /\ \A i \in DOMAIN steps :
              /\ t[i].points = steps[i].points /\ t[i].cmp = steps[i].cmp
              /\ t[i].bound = steps[i].bound * (g * a)
              /\ steps[i].points \in Nat /\ steps[i].bound \in Int
      BY <1>1, StepIs
  <2>3. \A i \in DOMAIN steps :
              /\ u[i].points = steps[i].points /\ u[i].cmp = steps[i].cmp
              /\ u[i].bound = steps[i].bound * (h * b)
      BY <1>1, StepIs
  <2>4. \A i \in DOMAIN steps : steps[i].cmp \in {"le", "lt"}
      BY <2>1 DEF StepsOf
  <2>5. \A i, j \in DOMAIN steps : i <= j => steps[i].points >= steps[j].points
      BY <2>1 DEF StepsOf
  <2> HIDE DEF t, u, steps
  <2> QED
      BY <2>2, <2>3, <2>4, <2>5
<1> HIDE FundamentalsAssumption
<1>3. ASSUME NEW i \in DOMAIN steps, Meets(100 * (g * c), t[i]) PROVE Meets(100 * (h * c), u[i])
  <2> DEFINE x == steps[i].bound
             p == 100 * c
  <2>1. x \in Int /\ p \in Nat \ {0}
      BY <1>2
  <2>2. /\ 100 * (g * c) = g * p /\ 100 * (h * c) = h * p
        /\ x * (g * a) = g * (x * a) /\ x * (h * b) = h * (x * b)
        /\ x * a \in Int /\ x * b \in Int
      BY <2>1
  <2>3. p <= x * a => x > 0
    <3> HIDE DEF x, p
    <3> QED
        BY <2>1
  <2>4. x > 0 => x * a <= x * b
    <3> HIDE DEF x
    <3> SUFFICES ASSUME x \in Nat \ {0} PROVE x * a <= x * b
        BY <2>1
    <3> QED
        BY Cancel
  <2> DEFINE xa == x * a
             xb == x * b
  <2>5. /\ t[i].bound = g * xa /\ u[i].bound = h * xb
        /\ t[i].cmp \in {"le", "lt"} /\ u[i].cmp = t[i].cmp
      BY <1>2, <2>2
  <2> HIDE DEF x, p, xa, xb
  <2>6. xa \in Int /\ xb \in Int /\ (p <= xa => xa <= xb)
      BY <2>2, <2>3, <2>4 DEF xa, xb
  <2>7. CASE t[i].cmp = "le"
    <3>1. g * p <= g * xa
        BY <1>3, <2>2, <2>5, <2>7 DEF Meets
    <3>2. p <= xb
        BY <2>1, <2>6, <3>1, Cancel
    <3>3. h * p <= h * xb
        BY <2>1, <2>6, <3>2, Cancel
    <3> QED
        BY <2>2, <2>5, <2>7, <3>3 DEF Meets
  <2>8. CASE t[i].cmp = "lt"
    <3>1. g * p < g * xa
        BY <1>3, <2>2, <2>5, <2>8 DEF Meets
    <3>2. p < xb
        BY <2>1, <2>6, <3>1, Cancel
    <3>3. h * p < h * xb
        BY <2>1, <2>6, <3>2, Cancel
    <3> QED
        BY <2>2, <2>5, <2>8, <3>3 DEF Meets
  <2> QED
      BY <2>5, <2>7, <2>8
<1> HIDE DEF t, u, steps
<1>4. /\ TierPoints(100 * (h * c), u) >= TierPoints(100 * (g * c), t)
      /\ TierPoints(100 * (h * c), u) \in Nat /\ TierPoints(100 * (g * c), t) \in Nat
    BY <1>2, <1>3, MoreMet
<1> QED
    BY <1>4 DEF Points, t, u, steps

HIDE FundamentalsAssumption

-----------------------------------------------------------------------------
(* The median of a stock and others.                                       *)

Own(c, n) == [name |-> 0, near |-> TRUE, value |-> <<c, n>>]

Others(O) ==
    /\ IsFiniteSet(O)
    /\ \A o \in O :
          /\ o.name \in Nat \ {0} /\ o.value[1] \in Nat \ {0} /\ o.value[2] = 1
          /\ \A p \in O : o.name = p.name => o = p

\* The values by a common denominator, the stock's own.
Weight(O, c, n) ==
    [s \in O \cup {Own(c, n)} |-> IF s = Own(c, n) THEN c ELSE s.value[1] * n]

Lower(S, s) ==
    {r \in S : \/ Below(r.value, s.value)
               \/ ~Below(s.value, r.value) /\ r.name < s.name}

LEMMA Weights ==
    ASSUME NEW O, Others(O), NEW c \in Nat \ {0}, NEW n \in Nat \ {0}
    PROVE  LET S == O \cup {Own(c, n)}
               w == Weight(O, c, n)
           IN  /\ Own(c, n) \notin O
               /\ w \in [S -> Nat \ {0}]
               /\ \A s \in S :
                     /\ s.name \in Nat /\ s.value[1] \in Nat \ {0} /\ s.value[2] \in Nat \ {0}
                     /\ s.value[1] * n = w[s] * s.value[2]
               /\ \A r, s \in S : Below(r.value, s.value) <=> w[r] < w[s]
               /\ \A r, s \in S : r.name = s.name => r = s
<1> DEFINE own == Own(c, n)
           S == O \cup {own}
           w == Weight(O, c, n)
<1>1. own.name = 0 /\ own.value[1] = c /\ own.value[2] = n
    BY DEF Own
<1>2. \A o \in O :
          /\ o.name \in Nat \ {0} /\ o.value[1] \in Nat \ {0} /\ o.value[2] = 1
          /\ \A p \in O : o.name = p.name => o = p
    BY DEF Others
<1>3. own \notin O
    BY <1>1, <1>2
<1>4. DOMAIN w = S /\ w = [s \in S |-> w[s]]
    BY DEF Weight
<1>5. w[own] = c /\ \A o \in O : w[o] = o.value[1] * n
    BY <1>3 DEF Weight
<1> HIDE DEF own, w
<1>6. ASSUME NEW o \in O PROVE w[o] \in Nat \ {0}
  <2> DEFINE a == o.value[1]
  <2>1. a \in Nat \ {0} /\ w[o] = a * n
      BY <1>2, <1>5
  <2> HIDE DEF a
  <2> QED
      BY <2>1
<1>7. w \in [S -> Nat \ {0}]
    BY <1>4, <1>5, <1>6
<1>8. ASSUME NEW s \in S
      PROVE  /\ s.name \in Nat /\ s.value[1] \in Nat \ {0} /\ s.value[2] \in Nat \ {0}
             /\ s.value[1] * n = w[s] * s.value[2]
  <2>1. CASE s = own
      BY <2>1, <1>1, <1>5
  <2>2. CASE s \in O
      BY <2>2, <1>2, <1>5, <1>6
  <2> QED
      BY <2>1, <2>2
<1>9. ASSUME NEW r \in S, NEW s \in S PROVE Below(r.value, s.value) <=> w[r] < w[s]
  <2>1. CASE r = own /\ s = own
      BY <2>1, <1>1, <1>5 DEF Below
  <2>2. CASE r = own /\ s \in O
      BY <2>2, <1>1, <1>2, <1>5 DEF Below
  <2>3. CASE r \in O /\ s = own
      BY <2>3, <1>1, <1>2, <1>5 DEF Below
  <2>4. CASE r \in O /\ s \in O
    <3> DEFINE a == r.value[1]
               b == s.value[1]
    <3>1. /\ a \in Nat /\ b \in Nat /\ w[r] = n * a /\ w[s] = n * b
          /\ Below(r.value, s.value) <=> a < b
        BY <2>4, <1>2, <1>5 DEF Below
    <3> HIDE DEF a, b
    <3> QED
        BY <3>1, Cancel
  <2> QED
      BY <2>1, <2>2, <2>3, <2>4
<1>10. \A r, s \in S : r.name = s.name => r = s
    BY <1>1, <1>2
<1> QED
    BY <1>3, <1>7, <1>8, <1>9, <1>10 DEF own, w

\* Lower is an order by weight and name.
LEMMA Ordered ==
    ASSUME NEW S, NEW w \in [S -> Nat], \A s \in S : s.name \in Nat,
           \A r, s \in S : Below(r.value, s.value) <=> w[r] < w[s],
           \A r, s \in S : r.name = s.name => r = s
    PROVE  /\ \A s \in S : Lower(S, s) \in SUBSET S /\ s \notin Lower(S, s)
           /\ \A r, s \in S : w[r] < w[s] => r \in Lower(S, s)
           /\ \A r, s \in S : r \in Lower(S, s) => w[r] <= w[s] /\ Lower(S, r) \subseteq Lower(S, s)
           /\ \A r, s \in S : r # s => r \in Lower(S, s) \/ s \in Lower(S, r)
<1>1. ASSUME NEW r \in S, NEW s \in S
      PROVE r \in Lower(S, s) <=> (w[r] < w[s] \/ (w[r] = w[s] /\ r.name < s.name))
    BY DEF Lower
<1>2. \A s \in S : Lower(S, s) \in SUBSET S
    BY DEF Lower
<1>3. \A s \in S : w[s] \in Nat
    OBVIOUS
<1>4. ASSUME NEW r \in S, NEW s \in S, r \in Lower(S, s) PROVE Lower(S, r) \subseteq Lower(S, s)
  <2> SUFFICES ASSUME NEW q \in Lower(S, r) PROVE q \in Lower(S, s)
      OBVIOUS
  <2>1. q \in S
      BY <1>2
  <2> QED
      BY <1>1, <1>3, <1>4, <2>1
<1>5. ASSUME NEW r \in S, NEW s \in S, r # s PROVE r \in Lower(S, s) \/ s \in Lower(S, r)
  <2>1. r.name \in Nat /\ s.name \in Nat /\ r.name # s.name /\ w[r] \in Nat /\ w[s] \in Nat
      BY <1>3, <1>5
  <2>2. \/ w[r] < w[s] \/ (w[r] = w[s] /\ r.name < s.name)
        \/ w[s] < w[r] \/ (w[s] = w[r] /\ s.name < r.name)
      BY <2>1
  <2> QED
      BY <1>1, <2>2
<1> QED
    BY <1>1, <1>2, <1>3, <1>4, <1>5

\* The stock's value over the median is twice its weight over the sum of the two in the middle.
Middle(O, c, n) ==
    LET S == O \cup {Own(c, n)}
        N == Cardinality(O) + 1
        m == MedianOf(S)
        w == Weight(O, c, n)
    IN  \E j, k \in S, g \in Nat \ {0} :
           /\ Cardinality(Lower(S, j)) = (N - 1) \div 2
           /\ Cardinality(Lower(S, k)) = N \div 2
           /\ c * m[2] = g * (2 * c) /\ n * m[1] = g * (w[j] + w[k])

LEMMA MedianIs ==
    ASSUME NEW O, Others(O), NEW c \in Nat \ {0}, NEW n \in Nat \ {0}
    PROVE  Middle(O, c, n)
<1> DEFINE S == O \cup {Own(c, n)}
           N == Cardinality(S)
           w == Weight(O, c, n)
           low == [s \in S |-> Lower(S, s)]
           half(p, q) == <<p[1] * q[2] + q[1] * p[2], 2 * p[2] * q[2]>>
<1>1. /\ IsFiniteSet(S) /\ N = Cardinality(O) + 1 /\ Cardinality(O) \in Nat
  <2>1. IsFiniteSet(O) /\ Own(c, n) \notin O
      BY Weights DEF Others
  <2> QED
      BY <2>1, FS_AddElement, FS_CardinalityType
<1>2. /\ w \in [S -> Nat \ {0}]
      /\ \A s \in S :
            /\ s.name \in Nat /\ s.value[1] \in Nat \ {0} /\ s.value[2] \in Nat \ {0}
            /\ s.value[1] * n = w[s] * s.value[2]
      /\ \A r, s \in S : Below(r.value, s.value) <=> w[r] < w[s]
      /\ \A r, s \in S : r.name = s.name => r = s
    BY Weights
<1> HIDE DEF S, w
<1>3. /\ \A s \in S : Lower(S, s) \in SUBSET S /\ s \notin Lower(S, s)
      /\ \A r, s \in S : r \in Lower(S, s) => Lower(S, r) \subseteq Lower(S, s)
      /\ \A r, s \in S : r # s => r \in Lower(S, s) \/ s \in Lower(S, r)
    BY <1>2, Ordered
<1>4. /\ low \in [S -> SUBSET S] /\ \A s \in S : s \notin low[s] /\ low[s] = Lower(S, s)
      /\ \A r, s \in S : r \in low[s] => low[r] \subseteq low[s]
      /\ \A r, s \in S : r # s => r \in low[s] \/ s \in low[r]
    BY <1>3
<1> HIDE DEF low
<1>5. (N - 1) \div 2 \in 0..N - 1 /\ N \div 2 \in 0..N - 1
  <2> HIDE DEF N
  <2> QED
      BY <1>1
<1>6. ASSUME NEW i \in 0..N - 1
      PROVE  \E s \in S : Rank(S, s) = i /\ \A r \in S : Rank(S, r) = i => r = s
  <2>1. \E s \in S : /\ Cardinality(low[s]) = i
                     /\ \A r \in S : Cardinality(low[r]) = i => r = s
      BY <1>1, <1>4, EachRankOnce
  <2>2. \A s \in S : Cardinality(low[s]) = Rank(S, s)
      BY <1>4, Zenon DEF Rank, Lower
  <2> QED
      BY <2>1, <2>2, Zenon
<1>7. PICK j \in S : Rank(S, j) = (N - 1) \div 2 /\ \A r \in S : Rank(S, r) = (N - 1) \div 2 => r = j
    BY <1>5, <1>6
<1>8. PICK k \in S : Rank(S, k) = N \div 2 /\ \A r \in S : Rank(S, r) = N \div 2 => r = k
    BY <1>5, <1>6
<1>9. MedianOf(S) = half(j.value, k.value)
  <2> DEFINE at(i) == {s.value : s \in {r \in S : Rank(S, r) = i}}
  <2>1. at((N - 1) \div 2) = {j.value} /\ at(N \div 2) = {k.value}
      BY <1>7, <1>8
  <2>2. MedianOf(S) = CHOOSE m \in {half(p, q) : p \in at((N - 1) \div 2), q \in at(N \div 2)} : TRUE
      BY DEF MedianOf
  <2> HIDE DEF at
  <2>3. {half(p, q) : p \in at((N - 1) \div 2), q \in at(N \div 2)} = {half(j.value, k.value)}
      BY <2>1
  <2> HIDE DEF half
  <2> QED
      BY <2>2, <2>3
<1> DEFINE a == j.value[1]
           b == j.value[2]
           d == k.value[1]
           e == k.value[2]
           m == MedianOf(S)
           g == b * e
<1>10. /\ a \in Nat /\ b \in Nat \ {0} /\ d \in Nat /\ e \in Nat \ {0}
       /\ w[j] \in Nat /\ w[k] \in Nat
       /\ a * n = w[j] * b /\ d * n = w[k] * e
    BY <1>2
<1>11. m[1] = a * e + d * b /\ m[2] = 2 * b * e
    BY <1>9
<1> HIDE DEF a, b, d, e, m
<1>12. g \in Nat \ {0} /\ c * m[2] = g * (2 * c)
    BY <1>10, <1>11
<1>13. n * m[1] = g * (w[j] + w[k])
  <2> DEFINE wj == w[j]
             wk == w[k]
  <2>1. wj \in Nat /\ wk \in Nat /\ a * n = wj * b /\ d * n = wk * e
      BY <1>10
  <2> HIDE DEF wj, wk
  <2>2. n * (a * e + d * b) = (a * n) * e + (d * n) * b
      BY <1>10
  <2>3. (a * n) * e + (d * n) * b = (wj * b) * e + (wk * e) * b
      BY <2>1
  <2>4. (wj * b) * e + (wk * e) * b = (b * e) * (wj + wk)
      BY <2>1, <1>10
  <2> QED
      BY <2>2, <2>3, <2>4, <1>11 DEF wj, wk
<1>14. Cardinality(Lower(S, j)) = Rank(S, j) /\ Cardinality(Lower(S, k)) = Rank(S, k)
    BY DEF Lower, Rank
<1>15. /\ Cardinality(Lower(S, j)) = (N - 1) \div 2
       /\ Cardinality(Lower(S, k)) = N \div 2
    BY <1>7, <1>8, <1>14
<1> HIDE DEF g
<1> QED
    BY <1>1, <1>12, <1>13, <1>15 DEF Middle, S, w, m

\* Against a median it is part of, a price has no fewer points the more is earned for it.
LEMMA MedianDown ==
    ASSUME NEW O, Others(O), NEW c \in Nat \ {0}, NEW n \in Nat \ {0}, NEW n2 \in Nat \ {0}, n <= n2
    PROVE  LET m == MedianOf(O \cup {Own(c, n)})
               m2 == MedianOf(O \cup {Own(c, n2)})
           IN  Points("per", c * m[2], n * m[1]) <= Points("per", c * m2[2], n2 * m2[1])
<1> DEFINE x == Own(c, n)
           y == Own(c, n2)
           S == O \cup {x}
           T == O \cup {y}
           N == Cardinality(O) + 1
           m == MedianOf(S)
           m2 == MedianOf(T)
           w == Weight(O, c, n)
           v == Weight(O, c, n2)
<1>1. PICK j \in S, k \in S, g \in Nat \ {0} :
           /\ Cardinality(Lower(S, j)) = (N - 1) \div 2
           /\ Cardinality(Lower(S, k)) = N \div 2
           /\ c * m[2] = g * (2 * c) /\ n * m[1] = g * (w[j] + w[k])
  <2>1. Middle(O, c, n)
      BY MedianIs
  <2> QED
      BY <2>1, Zenon DEF Middle
<1>2. PICK j2 \in T, k2 \in T, h \in Nat \ {0} :
           /\ Cardinality(Lower(T, j2)) = (N - 1) \div 2
           /\ Cardinality(Lower(T, k2)) = N \div 2
           /\ c * m2[2] = h * (2 * c) /\ n2 * m2[1] = h * (v[j2] + v[k2])
  <2>1. Middle(O, c, n2)
      BY MedianIs
  <2> QED
      BY <2>1, Zenon DEF Middle
<1>3. /\ x \notin O /\ w \in [S -> Nat \ {0}]
      /\ \A s \in S : s.name \in Nat
      /\ \A r, s \in S : Below(r.value, s.value) <=> w[r] < w[s]
      /\ \A r, s \in S : r.name = s.name => r = s
    BY Weights
<1>4. /\ y \notin O /\ v \in [T -> Nat \ {0}]
      /\ \A s \in T : s.name \in Nat
      /\ \A r, s \in T : Below(r.value, s.value) <=> v[r] < v[s]
      /\ \A r, s \in T : r.name = s.name => r = s
    BY Weights
<1>5. w[x] = c /\ v[y] = c
    BY DEF Weight
<1>6. ASSUME NEW o \in O PROVE w[o] <= v[o]
  <2> DEFINE a == o.value[1]
  <2>1. a \in Nat \ {0}
      BY DEF Others
  <2>2. w[o] = a * n /\ v[o] = a * n2
      BY <1>3, <1>4 DEF Weight
  <2>3. a * n <= a * n2
    <3> HIDE DEF a
    <3> QED
        BY <2>1, Cancel
  <2> QED
      BY <2>2, <2>3
<1> HIDE DEF x, y, w, v
<1>7. /\ w \in [S -> Nat] /\ v \in [T -> Nat]
      /\ w \in [S -> Int] /\ v \in [T -> Int]
    BY <1>3, <1>4
<1>8. ASSUME NEW s \in S, NEW t \in T, Cardinality(Lower(S, s)) = Cardinality(Lower(T, t))
      PROVE  w[s] <= v[t]
  <2> DEFINE B == Lower(S, s)
             C == Lower(T, t)
  <2>1. B \in SUBSET S /\ \A r \in S : w[r] < w[s] => r \in B
      BY <1>3, <1>7, Ordered
  <2> HIDE DEF S, T
  <2>2. C \in SUBSET T /\ t \notin C /\ \A r \in C : v[r] <= v[t]
      BY <1>4, <1>7, Ordered
  <2>3. Cardinality(B) = Cardinality(C) /\ IsFiniteSet(O)
      BY <1>8 DEF Others
  <2>5. S = O \cup {x} /\ T = O \cup {y}
      BY DEF S, T
  <2>6. w[x] <= v[y]
      BY <1>5
  <2>4. /\ x \notin O /\ y \notin O /\ w[x] <= v[y]
        /\ w \in [O \cup {x} -> Int] /\ v \in [O \cup {y} -> Int]
        /\ s \in O \cup {x} /\ t \in O \cup {y}
        /\ B \in SUBSET (O \cup {x}) /\ C \in SUBSET (O \cup {y})
        /\ \A r \in O \cup {x} : w[r] < w[s] => r \in B
      BY <1>3, <1>4, <1>7, <2>1, <2>2, <2>5, <2>6, Zenon
  <2> HIDE DEF B, C
  <2>7. Exchanged(O, x, y, w, v)
      BY <1>6, <2>3, <2>4 DEF Exchanged
  <2> QED
      BY <2>2, <2>3, <2>4, <2>7, RanksGrow
<1>9. w[j] <= v[j2] /\ w[k] <= v[k2]
    BY <1>1, <1>2, <1>8
<1>10. /\ w[j] \in Nat \ {0} /\ w[k] \in Nat \ {0} /\ v[j2] \in Nat \ {0} /\ v[k2] \in Nat \ {0}
    BY <1>3, <1>4
<1> DEFINE a == w[j] + w[k]
           b == v[j2] + v[k2]
<1>11. a \in Nat \ {0} /\ b \in Nat \ {0} /\ a <= b /\ 2 * c \in Nat \ {0}
    BY <1>9, <1>10
<1> HIDE DEF a, b, m, m2
<1>12. Points("per", g * (2 * c), g * a) <= Points("per", h * (2 * c), h * b)
    BY <1>11, PointsDown
<1>13. Points("per", c * m[2], n * m[1]) = Points("per", g * (2 * c), g * a)
    BY <1>1 DEF a
<1>14. Points("per", c * m2[2], n2 * m2[1]) = Points("per", h * (2 * c), h * b)
    BY <1>2 DEF b
<1>15. Points("per", c * m[2], n * m[1]) <= Points("per", c * m2[2], n2 * m2[1])
    BY <1>12, <1>13, <1>14
<1> QED
    BY <1>15 DEF m, m2, x, y

\* The peers that are sampled, with the stock and without.
PeersSampled(metric) ==
    {[name |-> p.name, near |-> p.near, value |-> <<p[metric], 1>>] :
        p \in {q \in peers : q[metric] > 0}}

LEMMA SampledAreOthers ==
    ASSUME peers \in PeerGroups
    PROVE  LET O == PeersSampled("per")
           IN  Others(O) /\ Others({o \in O : o.near})
<1> DEFINE O == PeersSampled("per")
           P == {q \in peers : q["per"] > 0}
           f == [p \in P |-> [name |-> p.name, near |-> p.near, value |-> <<p["per"], 1>>]]
<1>1. /\ IsFiniteSet(peers)
      /\ \A p, q \in peers : p.name \in Nat \ {0} /\ p.per \in Int /\ (p.name = q.name => p = q)
    BY FundamentalsAssumption
<1>2. IsFiniteSet(P)
    BY <1>1, FS_Subset
<1>3. O = {f[p] : p \in P}
    BY DEF PeersSampled
<1>4. IsFiniteSet(O)
  <2> HIDE DEF f, P
  <2>1. O = {f[p] : p \in DOMAIN f} /\ DOMAIN f = P
      BY <1>3 DEF f
  <2>2. f \in Surjection(P, O)
      BY <2>1 DEF Surjection, f
  <2> QED
      BY <1>2, <2>2, FS_Surjection
<1>5. ASSUME NEW o \in O, NEW r \in O
      PROVE  /\ o.name \in Nat \ {0} /\ o.value[1] \in Nat \ {0} /\ o.value[2] = 1
             /\ o.name = r.name => o = r
  <2>1. PICK p \in P, q \in P : o = f[p] /\ r = f[q]
      BY <1>3
  <2>2. p.per \in Nat \ {0} /\ p.name \in Nat \ {0} /\ (p.name = q.name => p = q)
      BY <1>1
  <2> QED
      BY <2>1, <2>2
<1> HIDE DEF O
<1>6. IsFiniteSet({o \in O : o.near})
    BY <1>4, FS_Subset
<1> QED
    BY <1>4, <1>5, <1>6 DEF Others, O

LEMMA PriceDown ==
    ASSUME peers \in PeerGroups,
           NEW c \in Nat \ {0}, NEW n \in Nat \ {0}, NEW n2 \in Nat \ {0}, n <= n2
    PROVE  Relative("per", <<c, n>>).points <= Relative("per", <<c, n2>>).points
<1> DEFINE O == PeersSampled("per")
           near(U) == {o \in U : o.near}
           chosen(k) == IF Cardinality(near(O \cup {Own(c, k)})) >= MinSamples
                        THEN near(O) \cup {Own(c, k)} ELSE O \cup {Own(c, k)}
<1>1. Others(O) /\ Others(near(O))
    BY SampledAreOthers
<1>2. ASSUME NEW k \in Nat \ {0}
      PROVE  /\ near(O \cup {Own(c, k)}) = near(O) \cup {Own(c, k)}
             /\ Cardinality(near(O \cup {Own(c, k)})) = Cardinality(near(O)) + 1
             /\ Samples(<<c, k>>, "per") = O \cup {Own(c, k)}
  <2>1. Own(c, k).near
      BY DEF Own
  <2>2. near(O \cup {Own(c, k)}) = near(O) \cup {Own(c, k)}
      BY <2>1
  <2>3. Own(c, k) \notin near(O) /\ IsFiniteSet(near(O))
      BY <1>1, Weights DEF Others
  <2>4. Cardinality(near(O) \cup {Own(c, k)}) = Cardinality(near(O)) + 1
    <3> HIDE DEF near, O
    <3> QED
        BY <2>3, FS_AddElement
  <2>5. {<<c, k>>} \ {NoAmount} = {<<c, k>>}
    <3>1. NoAmount \notin Int \X Int
        BY FundamentalsAssumption
    <3> QED
        BY <3>1
  <2> QED
      BY <2>2, <2>4, <2>5 DEF Samples, Own, PeersSampled
<1>3. ASSUME NEW k \in Nat \ {0}
      PROVE  Relative("per", <<c, k>>).points =
                Points("per", c * MedianOf(chosen(k))[2], k * MedianOf(chosen(k))[1])
    BY <1>2 DEF Relative, Against, Observed, Lookup
<1> HIDE DEF near, O
<1>4. Points("per", c * MedianOf(chosen(n))[2], n * MedianOf(chosen(n))[1])
        <= Points("per", c * MedianOf(chosen(n2))[2], n2 * MedianOf(chosen(n2))[1])
  <2>1. CASE Cardinality(near(O)) + 1 >= MinSamples
    <3>1. /\ chosen(n) = near(O) \cup {Own(c, n)}
          /\ chosen(n2) = near(O) \cup {Own(c, n2)}
        BY <1>2, <2>1
    <3> HIDE DEF chosen
    <3> QED
        BY <1>1, <3>1, MedianDown
  <2>2. CASE ~(Cardinality(near(O)) + 1 >= MinSamples)
    <3>1. chosen(n) = O \cup {Own(c, n)} /\ chosen(n2) = O \cup {Own(c, n2)}
        BY <1>2, <2>2
    <3> HIDE DEF chosen
    <3> QED
        BY <1>1, <3>1, MedianDown
  <2> QED
      BY <2>1, <2>2
<1> QED
    BY <1>3, <1>4

-----------------------------------------------------------------------------
(* More profit.                                                            *)

MoreEarned(h) == FundamentalsTypeOK /\ h \in Histories /\ periodic # NoReport /\ MoreProfit(h)

Known(x) == x \in Int \cup {NoAmount}
NotLess(x, y) == Known(x) /\ Known(y) /\ (x = NoAmount <=> y = NoAmount) /\ (x \in Int => x >= y)

LEMMA AmountsKnown ==
    ASSUME NEW h \in Histories, NEW q \in Quarters, NEW b \in {"CFS", "OFS"}, NEW account \in Accounts
    PROVE  h[q][b][account] \in Int
BY FundamentalsAssumption

LEMMA NoAmountIsNone == NoAmount \notin Int /\ NoAmount \notin Int \X Int
BY FundamentalsAssumption

LEMMA PeriodicIs ==
    ASSUME FundamentalsTypeOK, periodic # NoReport
    PROVE  /\ periodic.end \in Quarters /\ OfYear(periodic.end) \in 1..4
           /\ OfYear(periodic.end) <= periodic.end
<1>1. periodic.end \in Nat \ {0} /\ periodic.end <= LastQuarter /\ LastQuarter \in Nat
    BY FundamentalsAssumption DEF FundamentalsTypeOK, Reported, Quarters
<1> QED
    BY <1>1, YearOf DEF Quarters

\* Totals of the accounts that may be more.
LEMMA TotalsMore ==
    ASSUME NEW h, MoreEarned(h), NEW form, NEW account \in {"operating", "net"},
           NEW first \in Int, NEW last \in Quarters
    PROVE  NotLess(Total(h, form, account, first, last), Total(history, form, account, first, last))
<1> DEFINE S == first..last
           b == Basis(form)
           v == [q \in S |-> history[q][b][account]]
           w == [q \in S |-> h[q][b][account]]
<1>1. CASE first < 1
    BY <1>1, NoAmountIsNone DEF Total, NotLess, Known
<1>2. CASE ~(first < 1)
  <2>1. /\ Total(history, form, account, first, last) = SumFunctionOnSet(v, S)
        /\ Total(h, form, account, first, last) = SumFunctionOnSet(w, S)
      BY <1>2, Zenon DEF Total
  <2>2. S \subseteq Quarters /\ last \in Int /\ b \in {"CFS", "OFS"}
      BY <1>2, FundamentalsAssumption DEF Quarters, Basis
  <2>3. IsFiniteSet(S)
      BY <2>2, FS_Interval
  <2>4. ASSUME NEW q \in S PROVE v[q] \in Int /\ w[q] \in Int /\ v[q] <= w[q]
    <3>1. q \in Quarters /\ account \in Accounts /\ h \in Histories /\ history \in Histories
        BY <2>2 DEF Accounts, MoreEarned, FundamentalsTypeOK
    <3>2. history[q][b][account] \in Int /\ h[q][b][account] \in Int
        BY <2>2, <3>1, AmountsKnown
    <3>3. h[q][b][account] = history[q][b][account] \/ h[q][b][account] > history[q][b][account]
        BY <2>2, <3>1 DEF MoreEarned, MoreProfit
    <3> QED
        BY <3>2, <3>3
  <2> HIDE DEF S, v, w
  <2>5. SumFunctionOnSet(v, S) \in Int /\ SumFunctionOnSet(w, S) \in Int
      BY <2>3, <2>4, SumInt
  <2>6. SumFunctionOnSet(v, S) <= SumFunctionOnSet(w, S)
      BY <2>3, <2>4, SumOfGreater
  <2> QED
      BY <2>1, <2>5, <2>6, NoAmountIsNone DEF NotLess, Known
<1> QED
    BY <1>1, <1>2

\* What there is of a quarter is the same before the year of the report, and in other accounts.
LEMMA AmountSame ==
    ASSUME NEW h, MoreEarned(h), NEW q \in Quarters, NEW b \in {"CFS", "OFS"},
           NEW account \in Accounts,
           account \notin {"operating", "net"} \/ q <= periodic.end - OfYear(periodic.end)
    PROVE  h[q][b][account] = history[q][b][account] /\ history[q][b][account] \in Int
<1>1. periodic.end - OfYear(periodic.end) \in Int /\ q \in Int
    BY PeriodicIs DEF MoreEarned, Quarters
<1>2. history[q][b][account] \in Int
    BY AmountsKnown DEF MoreEarned, FundamentalsTypeOK
<1>3. h[q][b][account] = history[q][b][account]
    BY <1>1 DEF MoreEarned, MoreProfit
<1> QED
    BY <1>2, <1>3

LEMMA TotalsSame ==
    ASSUME NEW h, MoreEarned(h), NEW form, NEW account \in Accounts,
           NEW first \in Int, NEW last \in Int, last <= LastQuarter,
           account \notin {"operating", "net"} \/ last <= periodic.end - OfYear(periodic.end)
    PROVE  /\ Total(h, form, account, first, last) = Total(history, form, account, first, last)
           /\ Known(Total(history, form, account, first, last))
<1> DEFINE S == first..last
           b == Basis(form)
           v == [q \in S |-> history[q][b][account]]
           w == [q \in S |-> h[q][b][account]]
<1>1. CASE first < 1
    BY <1>1 DEF Total, Known
<1>2. CASE ~(first < 1)
  <2>1. /\ Total(history, form, account, first, last) = SumFunctionOnSet(v, S)
        /\ Total(h, form, account, first, last) = SumFunctionOnSet(w, S)
      BY <1>2, Zenon DEF Total
  <2>2. S \subseteq Quarters /\ b \in {"CFS", "OFS"}
      BY <1>2, FundamentalsAssumption DEF Quarters, Basis
  <2>3. IsFiniteSet(S)
      BY FS_Interval
  <2>4. ASSUME NEW q \in S PROVE v[q] \in Int /\ v[q] = w[q]
    <3>1. q \in Quarters /\ q <= last
        BY <2>2
    <3>2. periodic.end - OfYear(periodic.end) \in Int /\ q \in Int
        BY <3>1, PeriodicIs DEF MoreEarned, Quarters
    <3>3. account \notin {"operating", "net"} \/ q <= periodic.end - OfYear(periodic.end)
        BY <3>1, <3>2
    <3> QED
        BY <2>2, <3>1, <3>3, AmountSame
  <2> HIDE DEF S, v, w
  <2>5. SumFunctionOnSet(v, S) \in Int
      BY <2>3, <2>4, SumInt
  <2>6. SumFunctionOnSet(v, S) = SumFunctionOnSet(w, S)
      BY <2>3, <2>4, SumOfSame
  <2> QED
      BY <2>1, <2>5, <2>6 DEF Known
<1> QED
    BY <1>1, <1>2

\* What a report says of a profit is not less, whichever report.
LEMMA FlowsMore ==
    ASSUME NEW h, MoreEarned(h), NEW report \in Reported, NEW account \in {"operating", "net"}
    PROVE  LET new == FlowOf(h, report, account)
               old == FlowOf(history, report, account)
           IN  new.periods_match = old.periods_match /\ NotLess(new.now, old.now)
<1>1. report.end \in Nat \ {0} /\ report.end \in Quarters
  <2>1. quarter \in FirstQuarter..LastQuarter /\ FirstQuarter \in Nat /\ LastQuarter \in Nat
      BY FundamentalsAssumption DEF MoreEarned, FundamentalsTypeOK, Quarters
  <2> QED
      BY <2>1 DEF Reported, Quarters
<1>2. \A added : Since(report, added) \in Int
    BY <1>1, YearOf DEF Since
<1>3. \A first \in Int :
         NotLess(Total(h, report.form, account, first, report.end),
                 Total(history, report.form, account, first, report.end))
    BY <1>1, TotalsMore
<1>4. NotLess(NoAmount, NoAmount)
    BY NoAmountIsNone DEF NotLess, Known
<1> QED
    BY <1>2, <1>3, <1>4 DEF FlowOf

\* What the report says of the year before is the same.
LEMMA FlowsBefore ==
    ASSUME NEW h, MoreEarned(h), NEW account \in Accounts
    PROVE  LET new == FlowOf(h, periodic, account)
               old == FlowOf(history, periodic, account)
           IN  new.prev = old.prev /\ Known(old.prev)
<1>1. /\ periodic.end \in Quarters /\ OfYear(periodic.end) \in 1..4
      /\ LastQuarter \in Nat
    BY PeriodicIs, FundamentalsAssumption DEF MoreEarned
<1>2. /\ periodic.end - 4 \in Int /\ periodic.end - 4 <= LastQuarter
      /\ periodic.end - 4 <= periodic.end - OfYear(periodic.end)
    BY <1>1 DEF Quarters
<1>3. \A added : Since(periodic, added) - 4 \in Int
    BY <1>1 DEF Since, Quarters
<1>4. \A first \in Int :
         /\ Total(h, periodic.form, account, first, periodic.end - 4)
               = Total(history, periodic.form, account, first, periodic.end - 4)
         /\ Known(Total(history, periodic.form, account, first, periodic.end - 4))
    BY <1>2, TotalsSame
<1>5. Known(NoAmount)
    BY DEF Known
<1> QED
    BY <1>3, <1>4, <1>5 DEF FlowOf

\* Nor does anything change that is not a profit.
LEMMA RevenueSame ==
    ASSUME NEW h, MoreEarned(h)
    PROVE  LET new == FlowOf(h, periodic, "revenue")
               old == FlowOf(history, periodic, "revenue")
           IN  new = old /\ Known(old.now) /\ Known(old.prev)
<1>1. periodic.end \in Quarters /\ OfYear(periodic.end) \in 1..4 /\ "revenue" \in Accounts
    BY PeriodicIs DEF MoreEarned, Accounts
<1>2. periodic.end \in Int /\ periodic.end <= LastQuarter
    BY <1>1, FundamentalsAssumption DEF Quarters
<1>3. \A added : Since(periodic, added) \in Int
    BY <1>1, <1>2 DEF Since
<1>4. \A first \in Int :
         /\ Total(h, periodic.form, "revenue", first, periodic.end)
               = Total(history, periodic.form, "revenue", first, periodic.end)
         /\ Known(Total(history, periodic.form, "revenue", first, periodic.end))
    BY <1>1, <1>2, TotalsSame
<1>5. LET new == FlowOf(h, periodic, "revenue")
          old == FlowOf(history, periodic, "revenue")
      IN  new.prev = old.prev /\ Known(old.prev)
    BY <1>1, FlowsBefore
<1>6. Known(NoAmount)
    BY DEF Known
<1> QED
    BY <1>3, <1>4, <1>5, <1>6 DEF FlowOf

LEMMA BalanceSame ==
    ASSUME NEW h, MoreEarned(h), NEW account \in {"equity", "liabilities"}
    PROVE  /\ BalanceOf(h, periodic, account) = BalanceOf(history, periodic, account)
           /\ Known(BalanceOf(history, periodic, account))
<1>1. /\ periodic.end \in Quarters /\ Basis(periodic.form) \in {"CFS", "OFS"}
      /\ account \in Accounts \ {"operating", "net"}
    BY PeriodicIs DEF MoreEarned, Basis, Accounts
<1>2. /\ h[periodic.end][Basis(periodic.form)][account]
           = history[periodic.end][Basis(periodic.form)][account]
      /\ history[periodic.end][Basis(periodic.form)][account] \in Int
    BY <1>1, AmountSame
<1> QED
    BY <1>2 DEF BalanceOf, Known

LEMMA EquitySame ==
    ASSUME NEW h, MoreEarned(h)
    PROVE  /\ EquityOf(h) = EquityOf(history) /\ Known(EquityOf(history))
           /\ EquityBefore(h, periodic) = EquityBefore(history, periodic)
           /\ Known(EquityBefore(history, periodic))
<1> DEFINE e == periodic.end - OfYear(periodic.end)
           b == Basis(periodic.form)
<1>1. EquityOf(h) = EquityOf(history) /\ Known(EquityOf(history))
    BY BalanceSame DEF EquityOf, Known
<1>2. ASSUME ~(e < 1) PROVE h[e][b]["equity"] = history[e][b]["equity"] /\ history[e][b]["equity"] \in Int
  <2>1. e \in Quarters
    <3>1. /\ periodic.end \in Quarters /\ OfYear(periodic.end) \in 1..4
          /\ LastQuarter \in Nat
        BY PeriodicIs, FundamentalsAssumption DEF MoreEarned
    <3> QED
        BY <1>2, <3>1 DEF Quarters
  <2>2. b \in {"CFS", "OFS"} /\ "equity" \in Accounts \ {"operating", "net"}
      BY DEF Basis, Accounts
  <2> HIDE DEF e, b
  <2> QED
      BY <2>1, <2>2, AmountSame
<1> QED
    BY <1>1, <1>2 DEF EquityBefore, Known

\* The profit of twelve months is not less, and it is known the same way.
LEMMA TtmMore ==
    ASSUME NEW h, MoreEarned(h)
    PROVE  LET new == TtmNet(h)
               old == TtmNet(history)
           IN  /\ new = NoProfit <=> old = NoProfit
               /\ old # NoProfit =>
                     /\ old.net[1] \in Int /\ new.net[1] \in Int /\ old.net[1] <= new.net[1]
                     /\ new.net[2] = old.net[2] /\ old.net[2] \in Nat \ {0}
<1> DEFINE net == FlowOf(h, periodic, "net")
           net0 == FlowOf(history, periodic, "net")
           year == FlowOf(h, annual, "net").now
           year0 == FlowOf(history, annual, "net").now
           months == 3 * OfYear(periodic.end)
           x == [net |-> <<net.now, 1>>, basis |-> "annual"]
           x0 == [net |-> <<net0.now, 1>>, basis |-> "annual"]
           y == [net |-> <<year + net.now - net.prev, 1>>, basis |-> "ttm"]
           y0 == [net |-> <<year0 + net0.now - net0.prev, 1>>, basis |-> "ttm"]
           z == [net |-> <<net.now * 12, months>>, basis |-> "annualized"]
           z0 == [net |-> <<net0.now * 12, months>>, basis |-> "annualized"]
           known == annual # NoReport /\ year # NoAmount /\ net.prev # NoAmount /\ net.periods_match
           known0 == annual # NoReport /\ year0 # NoAmount /\ net0.prev # NoAmount /\ net0.periods_match
<1>1. periodic # NoReport /\ periodic \in Reported /\ (annual # NoReport => annual \in Reported)
    BY DEF MoreEarned, FundamentalsTypeOK
<1>2. net.periods_match = net0.periods_match /\ NotLess(net.now, net0.now)
    BY <1>1, FlowsMore
<1>3. annual # NoReport => NotLess(year, year0)
    BY <1>1, FlowsMore
<1>4. net.prev = net0.prev /\ Known(net0.prev)
    BY FlowsBefore DEF Accounts
<1>5. months \in Nat \ {0}
    BY PeriodicIs DEF MoreEarned
<1>6. NoAmount \notin Int
    BY NoAmountIsNone
<1>7. /\ TtmNet(h) = IF net.now = NoAmount THEN NoProfit
                     ELSE IF IsAnnual(periodic) THEN x ELSE IF known THEN y ELSE z
      /\ TtmNet(history) = IF net0.now = NoAmount THEN NoProfit
                           ELSE IF IsAnnual(periodic) THEN x0 ELSE IF known0 THEN y0 ELSE z0
    BY <1>1 DEF TtmNet
<1>8. NoProfit # x /\ NoProfit # y /\ NoProfit # z /\ NoProfit # x0 /\ NoProfit # y0 /\ NoProfit # z0
    BY DEF NoProfit
<1>9. /\ x.net[1] = net.now /\ x.net[2] = 1 /\ x0.net[1] = net0.now /\ x0.net[2] = 1
      /\ y.net[1] = year + net.now - net.prev /\ y.net[2] = 1
      /\ y0.net[1] = year0 + net0.now - net0.prev /\ y0.net[2] = 1
      /\ z.net[1] = net.now * 12 /\ z.net[2] = months /\ z0.net[1] = net0.now * 12 /\ z0.net[2] = months
    OBVIOUS
<1> DEFINE got == net.now
           got0 == net0.now
           prev == net.prev
           prev0 == net0.prev
<1> HIDE DEF x, y, z, x0, y0, z0, months
<1>10. known <=> known0
    BY <1>2, <1>3, <1>4 DEF NotLess
<1>11. got = NoAmount <=> got0 = NoAmount
    BY <1>2 DEF NotLess
<1>12. ASSUME got # NoAmount PROVE got \in Int /\ got0 \in Int /\ got0 <= got
    BY <1>2, <1>12 DEF NotLess, Known
<1>13. ASSUME known PROVE /\ year \in Int /\ year0 \in Int /\ year0 <= year
                          /\ prev \in Int /\ prev0 = prev
    BY <1>3, <1>4, <1>13 DEF NotLess, Known
<1> HIDE DEF known, known0, got, got0, year, year0, prev, prev0
<1>14. CASE got = NoAmount
    BY <1>7, <1>11, <1>14 DEF got, got0
<1>15. CASE got # NoAmount /\ IsAnnual(periodic)
    BY <1>7, <1>8, <1>9, <1>11, <1>12, <1>15 DEF got, got0
<1>16. CASE got # NoAmount /\ ~IsAnnual(periodic) /\ known
  <2>1. TtmNet(h) = y /\ TtmNet(history) = y0
      BY <1>7, <1>10, <1>11, <1>16 DEF got, got0
  <2>2. y.net[1] = year + got - prev /\ y0.net[1] = year0 + got0 - prev0
      BY <1>9 DEF got, got0, prev, prev0
  <2>3. y0.net[1] \in Int /\ y.net[1] \in Int /\ y0.net[1] <= y.net[1]
      BY <1>12, <1>13, <1>16, <2>2
  <2> QED
      BY <1>8, <1>9, <2>1, <2>3
<1>17. CASE got # NoAmount /\ ~IsAnnual(periodic) /\ ~known
  <2>1. TtmNet(h) = z /\ TtmNet(history) = z0
      BY <1>7, <1>10, <1>11, <1>17 DEF got, got0
  <2>2. z.net[1] = got * 12 /\ z0.net[1] = got0 * 12
      BY <1>9 DEF got, got0
  <2>3. z0.net[1] \in Int /\ z.net[1] \in Int /\ z0.net[1] <= z.net[1]
      BY <1>12, <1>17, <2>2
  <2> QED
      BY <1>5, <1>8, <1>9, <2>1, <2>3
<1> QED
    BY <1>14, <1>15, <1>16, <1>17

-----------------------------------------------------------------------------
(* The items.                                                              *)

LEMMA SameIsNotWorse ==
    ASSUME NEW p, p.points \in Nat
    PROVE  NotWorse(p, p)
BY DEF NotWorse

\* What a report says decides nothing of whether there is one and it is fresh.
LEMMA NotWorseInReport ==
    ASSUME NEW new, NEW old, NotWorse(new, old)
    PROVE  NotWorse(WithReport(new), WithReport(old))
<1>1. NotWorse(Missing("unavailable"), Missing("unavailable"))
    BY DEF Missing, NotWorse
<1>2. NotWorse(Missing("stale"), Missing("stale"))
    BY DEF Missing, NotWorse
<1> QED
    BY <1>1, <1>2 DEF WithReport

LEMMA PlainParts ==
    /\ NotWorse(NotApplicable, NotApplicable)
    /\ \A why : NotWorse(Missing(why), Missing(why))
    /\ NotWorse(Adverse(0), Adverse(0))
    /\ \A n, m \in Nat : n <= m => NotWorse(Observed(m), Observed(n))
    /\ \A m \in Nat : NotWorse(Observed(m), Adverse(0))
BY DEF NotWorse, NotApplicable, Missing, Adverse, Observed

LEMMA RelativeIs ==
    ASSUME NEW item \in TierNames, NEW value
    PROVE  \E n \in Nat : Relative(item, value) = Observed(n) /\ Relative(item, value).points = n
BY PointsAreNat DEF Relative, Against, Observed

LEMMA PerNotWorse == ASSUME NEW h, MoreEarned(h) PROVE NotWorse(PerPart(h), PerPart(history))
<1> DEFINE new == TtmNet(h)
           old == TtmNet(history)
           part(ttm) == IF market = NoAmount \/ ttm = NoProfit THEN Missing("unavailable")
                        ELSE IF ttm.net[1] <= 0 THEN Adverse(0)
                        ELSE Relative("per", Multiple(ttm.net))
<1>1. PerPart(h) = WithReport(part(new)) /\ PerPart(history) = WithReport(part(old))
    BY DEF PerPart, Per
<1> SUFFICES NotWorse(part(new), part(old))
    BY <1>1, NotWorseInReport
<1>2. /\ new = NoProfit <=> old = NoProfit
      /\ old # NoProfit =>
            /\ old.net[1] \in Int /\ new.net[1] \in Int /\ old.net[1] <= new.net[1]
            /\ new.net[2] = old.net[2] /\ old.net[2] \in Nat \ {0}
    BY TtmMore
<1> HIDE DEF new, old
<1>3. CASE market = NoAmount \/ old = NoProfit
  <2>1. part(new) = Missing("unavailable") /\ part(old) = Missing("unavailable")
      BY <1>2, <1>3
  <2> HIDE DEF part
  <2> QED
      BY <2>1, PlainParts
<1>4. CASE market # NoAmount /\ old # NoProfit /\ old.net[1] <= 0
  <2>1. part(old) = Adverse(0)
      BY <1>4
  <2>2. part(new) = Adverse(0) \/ \E n \in Nat : part(new) = Observed(n)
    <3>1. part(new) = Adverse(0) \/ part(new) = Relative("per", Multiple(new.net))
        BY <1>2, <1>4
    <3> QED
        BY <3>1, RelativeIs DEF TierNames, FundItems
  <2> HIDE DEF part
  <2> QED
      BY <2>1, <2>2, PlainParts
<1>5. CASE market # NoAmount /\ old # NoProfit /\ ~(old.net[1] <= 0)
  <2> DEFINE n == old.net[1]
             n2 == new.net[1]
             c == market.cap * old.net[2]
  <2>1. /\ n \in Nat \ {0} /\ n2 \in Nat \ {0} /\ n <= n2
        /\ old.net[2] \in Nat \ {0} /\ new.net[2] = old.net[2]
      BY <1>2, <1>5
  <2>2. market.cap \in Nat \ {0}
      BY <1>5, FundamentalsAssumption DEF MoreEarned, FundamentalsTypeOK
  <2>3. c \in Nat \ {0}
    <3> DEFINE a == market.cap
               b == old.net[2]
    <3>1. a \in Nat \ {0} /\ b \in Nat \ {0}
        BY <2>1, <2>2
    <3> HIDE DEF a, b
    <3>2. a * b \in Nat \ {0}
        BY <3>1
    <3> QED
        BY <3>2 DEF a, b
  <2>4. Multiple(old.net) = <<c, n>> /\ Multiple(new.net) = <<c, n2>>
      BY <1>5, <2>1, NoAmountIsNone DEF Multiple
  <2>5. part(old) = Relative("per", <<c, n>>) /\ part(new) = Relative("per", <<c, n2>>)
      BY <1>2, <1>5, <2>1, <2>4
  <2> HIDE DEF n, n2, c, part
  <2>6. Relative("per", <<c, n>>).points <= Relative("per", <<c, n2>>).points
    <3>1. peers \in PeerGroups
        BY DEF MoreEarned, FundamentalsTypeOK
    <3> QED
        BY <2>1, <2>3, <3>1, PriceDown
  <2>7. "per" \in TierNames
      BY DEF TierNames, FundItems
  <2>8. PICK a \in Nat : Relative("per", <<c, n>>) = Observed(a) /\ Relative("per", <<c, n>>).points = a
      BY <2>7, RelativeIs
  <2>9. PICK b \in Nat : Relative("per", <<c, n2>>) = Observed(b) /\ Relative("per", <<c, n2>>).points = b
      BY <2>7, RelativeIs
  <2> QED
      BY <2>5, <2>6, <2>8, <2>9, PlainParts
<1> QED
    BY <1>3, <1>4, <1>5

LEMMA PbrNotWorse == ASSUME NEW h, MoreEarned(h) PROVE NotWorse(PbrPart(h), PbrPart(history))
<1> DEFINE e == EquityOf(history)
           part == IF market = NoAmount \/ e = NoAmount THEN Missing("unavailable")
                   ELSE IF e <= 0 THEN Adverse(0)
                   ELSE Relative("pbr", Multiple(<<e, 1>>))
<1>1. PbrPart(h) = WithReport(part) /\ PbrPart(history) = WithReport(part)
    BY EquitySame DEF PbrPart, Pbr
<1>2. \E n \in Nat : Relative("pbr", Multiple(<<e, 1>>)) = Observed(n)
    BY RelativeIs DEF TierNames, FundItems
<1>3. NotWorse(part, part)
    BY <1>2, PlainParts
<1> QED
    BY <1>1, <1>3, NotWorseInReport

LEMMA DebtNotWorse == ASSUME NEW h, MoreEarned(h) PROVE NotWorse(DebtPart(h), DebtPart(history))
<1> DEFINE e == EquityOf(history)
           d == BalanceOf(history, periodic, "liabilities")
           part == IF NoAmount \in {d, e} THEN Missing("unavailable")
                   ELSE IF e <= 0 THEN Adverse(0)
                   ELSE Observed(Points("debt_ratio", d, e))
<1>1. EquityOf(h) = e /\ BalanceOf(h, periodic, "liabilities") = d
    BY EquitySame, BalanceSame
<1>2. /\ DebtPart(h) = IF special THEN NotApplicable ELSE WithReport(part)
      /\ DebtPart(history) = IF special THEN NotApplicable ELSE WithReport(part)
    BY <1>1 DEF DebtPart
<1>3. Points("debt_ratio", d, e) \in Nat
    BY PointsAreNat DEF TierNames, FundItems
<1>4. NotWorse(part, part)
    BY <1>3, PlainParts
<1> QED
    BY <1>2, <1>4, NotWorseInReport, PlainParts

LEMMA OpMarginNotWorse ==
    ASSUME NEW h, MoreEarned(h)
    PROVE  NotWorse(OpMarginPart(h), OpMarginPart(history))
<1> DEFINE revenue == FlowOf(history, periodic, "revenue").now
           part(op) == IF NoAmount \in {revenue, op} THEN Missing("unavailable")
                       ELSE IF revenue <= 0 THEN Missing("invalid_value")
                       ELSE Observed(Points("op_margin", op, revenue))
           new == FlowOf(h, periodic, "operating").now
           old == FlowOf(history, periodic, "operating").now
<1>1. FlowOf(h, periodic, "revenue").now = revenue /\ Known(revenue)
    BY RevenueSame
<1>2. /\ OpMarginPart(h) = IF special THEN NotApplicable ELSE WithReport(part(new))
      /\ OpMarginPart(history) = IF special THEN NotApplicable ELSE WithReport(part(old))
    BY <1>1 DEF OpMarginPart
<1>3. NotLess(new, old)
  <2>1. periodic \in Reported
      BY DEF MoreEarned, FundamentalsTypeOK
  <2> QED
      BY <2>1, FlowsMore
<1> HIDE DEF new, old, revenue
<1>4. ASSUME NoAmount \notin {revenue, new, old}
      PROVE  /\ Points("op_margin", new, revenue) \in Nat /\ Points("op_margin", old, revenue) \in Nat
             /\ Points("op_margin", old, revenue) <= Points("op_margin", new, revenue)
  <2>1. revenue \in Int /\ new \in Int /\ old \in Int /\ old <= new
      BY <1>1, <1>3, <1>4 DEF NotLess, Known
  <2>2. "op_margin" \in TierNames
      BY DEF TierNames, FundItems
  <2> QED
      BY <2>1, <2>2, PointsUp, PointsAreNat
<1>5. new = NoAmount <=> old = NoAmount
    BY <1>3 DEF NotLess
<1>6. NotWorse(part(new), part(old))
    BY <1>4, <1>5, PlainParts
<1> HIDE DEF part
<1> QED
    BY <1>2, <1>6, NotWorseInReport, PlainParts

\* Out of a loss, or grown by more.
LEMMA GrowthMore ==
    ASSUME NEW new, NEW old, new.now \in Int, old.now \in Int, old.prev \in Int,
           new.prev = old.prev, old.now <= new.now
    PROVE  /\ OpGrowthPoints(old) \in Nat /\ OpGrowthPoints(new) \in Nat
           /\ OpGrowthPoints(old) <= OpGrowthPoints(new)
<1> DEFINE x == old.now - old.prev
           y == new.now - old.prev
           p == old.prev
<1>1. x \in Int /\ y \in Int /\ x <= y /\ p \in Int
    OBVIOUS
<1>2. Turnaround \in Nat
    BY FundamentalsAssumption
<1>3. /\ OpGrowthPoints(old) = IF p > 0 THEN Points("op_growth", x, p)
                               ELSE IF old.now > 0 THEN Turnaround ELSE 0
      /\ OpGrowthPoints(new) = IF p > 0 THEN Points("op_growth", y, p)
                               ELSE IF new.now > 0 THEN Turnaround ELSE 0
    BY DEF OpGrowthPoints
<1> HIDE DEF x, y, p
<1>4. /\ Points("op_growth", x, p) \in Nat /\ Points("op_growth", y, p) \in Nat
      /\ Points("op_growth", x, p) <= Points("op_growth", y, p)
    BY <1>1, PointsUp, PointsAreNat DEF TierNames, FundItems
<1> QED
    BY <1>2, <1>3, <1>4

LEMMA GrowthNotWorse ==
    ASSUME NEW h, MoreEarned(h)
    PROVE  NotWorse(GrowthPart(h), GrowthPart(history))
<1> DEFINE revenue == FlowOf(history, periodic, "revenue")
           new == FlowOf(h, periodic, "operating")
           old == FlowOf(history, periodic, "operating")
           known(flow) == flow.periods_match /\ NoAmount \notin {flow.now, flow.prev}
           part(op) == IF ~known(revenue) \/ ~known(op) THEN Missing("invalid_value")
                       ELSE IF revenue.prev <= 0 THEN Missing("invalid_value")
                       ELSE Observed(Points("revenue_growth", revenue.now - revenue.prev, revenue.prev)
                                     + OpGrowthPoints(op))
           grown == Points("revenue_growth", revenue.now - revenue.prev, revenue.prev)
<1>1. FlowOf(h, periodic, "revenue") = revenue
    BY RevenueSame
<1>2. /\ GrowthPart(h) = IF special THEN NotApplicable ELSE WithReport(part(new))
      /\ GrowthPart(history) = IF special THEN NotApplicable ELSE WithReport(part(old))
    BY <1>1 DEF GrowthPart
<1>3. new.periods_match = old.periods_match /\ NotLess(new.now, old.now)
  <2>1. periodic \in Reported
      BY DEF MoreEarned, FundamentalsTypeOK
  <2> QED
      BY <2>1, FlowsMore
<1>4. new.prev = old.prev /\ Known(old.prev)
    BY FlowsBefore DEF Accounts
<1>5. grown \in Nat
    BY PointsAreNat DEF TierNames, FundItems
<1> HIDE DEF new, old, revenue, grown
<1>6. known(new) <=> known(old)
    BY <1>3, <1>4 DEF NotLess
<1>7. ASSUME known(old)
      PROVE  /\ OpGrowthPoints(old) \in Nat /\ OpGrowthPoints(new) \in Nat
             /\ OpGrowthPoints(old) <= OpGrowthPoints(new)
  <2>1. /\ new.now \in Int /\ old.now \in Int /\ old.prev \in Int
        /\ new.prev = old.prev /\ old.now <= new.now
      BY <1>3, <1>4, <1>7 DEF NotLess, Known
  <2> QED
      BY <2>1, GrowthMore
<1>8. /\ part(new) = IF ~known(revenue) \/ ~known(new) THEN Missing("invalid_value")
                     ELSE IF revenue.prev <= 0 THEN Missing("invalid_value")
                     ELSE Observed(grown + OpGrowthPoints(new))
      /\ part(old) = IF ~known(revenue) \/ ~known(old) THEN Missing("invalid_value")
                     ELSE IF revenue.prev <= 0 THEN Missing("invalid_value")
                     ELSE Observed(grown + OpGrowthPoints(old))
    BY DEF grown
<1> HIDE DEF known, part
<1>9. NotWorse(part(new), part(old))
  <2>1. CASE known(revenue) /\ known(old) /\ ~(revenue.prev <= 0)
    <3> DEFINE a == grown + OpGrowthPoints(old)
               b == grown + OpGrowthPoints(new)
    <3>1. a \in Nat /\ b \in Nat /\ a <= b
        BY <1>5, <1>7, <2>1
    <3>2. part(new) = Observed(b) /\ part(old) = Observed(a)
        BY <1>6, <1>8, <2>1
    <3> HIDE DEF a, b
    <3> QED
        BY <3>1, <3>2, PlainParts
  <2>2. CASE ~(known(revenue) /\ known(old) /\ ~(revenue.prev <= 0))
    <3>1. part(new) = Missing("invalid_value") /\ part(old) = Missing("invalid_value")
        BY <1>6, <1>8, <2>2
    <3> QED
        BY <3>1, PlainParts
  <2> QED
      BY <2>1, <2>2
<1> QED
    BY <1>2, <1>9, NotWorseInReport, PlainParts

LEMMA RoeNotWorse == ASSUME NEW h, MoreEarned(h) PROVE NotWorse(RoePart(h), RoePart(history))
<1> DEFINE e == EquityOf(history)
           b == EquityBefore(history, periodic)
           new == TtmNet(h)
           old == TtmNet(history)
           part(ttm) == IF ttm = NoProfit \/ NoAmount \in {e, b} THEN Missing("unavailable")
                        ELSE IF e + b <= 0 THEN Adverse(0)
                        ELSE Observed(Points("roe", 2 * ttm.net[1], ttm.net[2] * (e + b)))
<1>1. /\ EquityOf(h) = e /\ EquityBefore(h, periodic) = b /\ Known(e) /\ Known(b)
    BY EquitySame
<1>2. RoePart(h) = WithReport(part(new)) /\ RoePart(history) = WithReport(part(old))
    BY <1>1 DEF RoePart
<1>3. /\ new = NoProfit <=> old = NoProfit
      /\ old # NoProfit =>
            /\ old.net[1] \in Int /\ new.net[1] \in Int /\ old.net[1] <= new.net[1]
            /\ new.net[2] = old.net[2] /\ old.net[2] \in Nat \ {0}
    BY TtmMore
<1> HIDE DEF new, old, e, b
<1>4. ASSUME old # NoProfit, NoAmount \notin {e, b}
      PROVE  LET m == old.net[2] * (e + b)
             IN  /\ new.net[2] * (e + b) = m
                 /\ Points("roe", 2 * old.net[1], m) \in Nat /\ Points("roe", 2 * new.net[1], m) \in Nat
                 /\ Points("roe", 2 * old.net[1], m) <= Points("roe", 2 * new.net[1], m)
  <2> DEFINE m == old.net[2] * (e + b)
             x == 2 * old.net[1]
             y == 2 * new.net[1]
             q == old.net[2]
             s == e + b
  <2>1. q \in Int /\ s \in Int /\ x \in Int /\ y \in Int /\ x <= y /\ new.net[2] = q
      BY <1>1, <1>3, <1>4 DEF Known
  <2>2. m = q * s /\ new.net[2] * (e + b) = m
      BY <2>1
  <2> HIDE DEF q, s, x, y
  <2>3. m \in Int
      BY <2>1, <2>2
  <2> HIDE DEF m
  <2>4. Points("roe", x, m) <= Points("roe", y, m)
      BY <2>1, <2>3, PointsUp
  <2>5. Points("roe", x, m) \in Nat /\ Points("roe", y, m) \in Nat
      BY PointsAreNat DEF TierNames, FundItems
  <2> QED
      BY <2>2, <2>4, <2>5 DEF x, y, m
<1>5. NotWorse(part(new), part(old))
  <2>1. CASE old = NoProfit \/ NoAmount \in {e, b}
    <3>1. part(new) = Missing("unavailable") /\ part(old) = Missing("unavailable")
        BY <1>3, <2>1
    <3> HIDE DEF part
    <3> QED
        BY <3>1, PlainParts
  <2>2. CASE old # NoProfit /\ NoAmount \notin {e, b} /\ e + b <= 0
    <3>1. part(new) = Adverse(0) /\ part(old) = Adverse(0)
        BY <1>3, <2>2
    <3> HIDE DEF part
    <3> QED
        BY <3>1, PlainParts
  <2>3. CASE old # NoProfit /\ NoAmount \notin {e, b} /\ ~(e + b <= 0)
    <3> DEFINE x == Points("roe", 2 * old.net[1], old.net[2] * (e + b))
               y == Points("roe", 2 * new.net[1], old.net[2] * (e + b))
    <3>1. part(new) = Observed(y) /\ part(old) = Observed(x)
        BY <1>3, <1>4, <2>3
    <3>2. x \in Nat /\ y \in Nat /\ x <= y
        BY <1>4, <2>3
    <3> HIDE DEF part, x, y
    <3> QED
        BY <3>1, <3>2, PlainParts
  <2> QED
      BY <2>1, <2>2, <2>3
<1> QED
    BY <1>2, <1>5, NotWorseInReport

LEMMA DivNotWorse == NotWorse(DivPart, DivPart)
<1>1. Points("div", market.div_yield, 100) \in Nat
    BY PointsAreNat DEF TierNames, FundItems
<1> QED
    BY <1>1, PlainParts DEF DivPart

\* For any accounts, reports, peers and points that are right: more profit in the year of the
\* report leaves no item with fewer points, nor missing.
THEOREM MoreProfitNeverHurts == FundamentalsSpec => []ProfitNeverHurts
<1>1. FundamentalsTypeOK => ProfitNeverHurts
  <2> SUFFICES ASSUME FundamentalsTypeOK, NEW h \in Histories, periodic # NoReport, MoreProfit(h),
                      NEW item \in FundItems
               PROVE  NotWorse(FundParts(h)[item], FundParts(history)[item])
      BY DEF ProfitNeverHurts
  <2>1. MoreEarned(h)
      BY DEF MoreEarned
  <2>2. CASE item = "per"
      BY <2>1, <2>2, PerNotWorse DEF FundParts
  <2>3. CASE item = "pbr"
      BY <2>1, <2>3, PbrNotWorse DEF FundParts
  <2>4. CASE item = "op_margin"
      BY <2>1, <2>4, OpMarginNotWorse DEF FundParts
  <2>5. CASE item = "growth"
      BY <2>1, <2>5, GrowthNotWorse DEF FundParts
  <2>6. CASE item = "roe"
      BY <2>1, <2>6, RoeNotWorse DEF FundParts
  <2>7. CASE item = "debt_ratio"
      BY <2>1, <2>7, DebtNotWorse DEF FundParts
  <2>8. CASE item = "div"
      BY <2>8, DivNotWorse DEF FundParts
  <2> QED
      BY <2>2, <2>3, <2>4, <2>5, <2>6, <2>7, <2>8 DEF FundItems
<1> QED
    BY <1>1, FundamentalsTyped, PTL

=============================================================================
