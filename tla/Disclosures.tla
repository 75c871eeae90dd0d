----------------------------- MODULE Disclosures -----------------------------
(***************************************************************************)
(* The disclosure axis of one stock: the rules of scoring/domain/flags.py, *)
(* their snapshot in scoring/domain/lexicon.py, the events and points of   *)
(* scoring/domain/disclosure.py, and the verdicts a run stores with the    *)
(* version of the rules (_persist_events of nodes.py).                     *)
(*                                                                         *)
(* A text is the set of the words in it that some rule looks for.  The     *)
(* company files and corrects, and the rules are edited, while runs judge  *)
(* this and earlier days.  Filings are numbered as DART numbers them.      *)
(***************************************************************************)
EXTENDS Parts, FiniteSets

CONSTANTS
    LastDay,           \* bounds on the days and on the filings
    MaxFilings,
    WindowDays,        \* window_days
    Base, Positive, Negative, Floor, MaxPoints, FatalPoints,
    RuleBooks,         \* what the rules file may say: sequences of rules
    Titles,            \* titles without prefix: [name, note], both sets of words
    CorrectionMarks,   \* prefixes that mark a correction
    OtherMarks,        \* other prefixes, or none
    SubsidiaryMarkers, \* words that mark the affairs of a subsidiary
    Reit               \* is the company a REIT? (is_reit)

Levels == {"red", "amber", "positive"}
Words == UNION {title.name \cup title.note : title \in Titles}

ASSUME DisclosuresAssumption ==
    /\ LastDay \in Nat \ {0} /\ MaxFilings \in Nat /\ WindowDays \in Nat \ {0}
    /\ {Base, Positive, Negative, Floor, MaxPoints, FatalPoints} \subseteq Int
    /\ Negative <= 0 /\ 0 <= Positive
    /\ FatalPoints <= Floor /\ Floor <= MaxPoints
    /\ CorrectionMarks \cap OtherMarks = {}
    /\ Reit \in BOOLEAN
    /\ \A book \in RuleBooks : book \in
          Seq([id : STRING, level : Levels, keywords : SUBSET STRING, exclude : SUBSET STRING,
               on_note : BOOLEAN, fatal : BOOLEAN])

VARIABLES
    day,               \* today
    filings,           \* all filings of the company, in order
    rules,             \* the rules file
    lexicons,          \* kss_lexicon_versions: [version, entries]
    verdicts           \* kss_risk_events: [no, rule, version, level, fatal]

discVars == <<day, filings, rules, lexicons, verdicts>>

-----------------------------------------------------------------------------
(* Rules and their snapshots.                                              *)

\* load_rules_file refuses anything else, and the run does not start.
WellFormed(book) ==
    /\ book # <<>>
    /\ \A i \in DOMAIN book : book[i].keywords # {}
    /\ \A i, j \in DOMAIN book : book[i].id = book[j].id => i = j

Corrected(filing) == filing.mark \in CorrectionMarks
Subsidiary(title) == title.name \cap SubsidiaryMarkers # {}

Hits(rule, title) ==
    LET hay == title.name \cup IF rule.on_note THEN title.note ELSE {}
    IN  rule.keywords \cap hay # {} /\ rule.exclude \cap hay = {}

Hitting(book, title) == {i \in DOMAIN book : Hits(book[i], title)}

\* Others' red affairs, and a REIT's rights issue, are amber.
Level(rule, title) ==
    IF \/ Subsidiary(title) /\ rule.level = "red"
       \/ Reit /\ rule.id = "rights_issue"
    THEN "amber" ELSE rule.level

NoMatch == [rule |-> "none", level |-> "none", fatal |-> FALSE]

\* The first rule that hits decides.
Match(book, title) ==
    IF Hitting(book, title) = {} THEN NoMatch
    ELSE LET rule == book[Min(Hitting(book, title))]
         IN  [rule |-> rule.id, level |-> Level(rule, title),
              fatal |-> rule.fatal /\ Level(rule, title) = "red"]

\* Faulty: the polarity stands for the level, which the note no longer keeps.
FromRules_NoLevel(book) ==
    [i \in DOMAIN book |->
       [term |-> book[i].id, norm |-> book[i].keywords,
        polarity |-> IF book[i].fatal THEN "fatal"
                     ELSE IF book[i].level = "positive" THEN "positive" ELSE "negative",
        exclude |-> book[i].exclude, on_note |-> book[i].on_note, note |-> ""]]

\* Rules as entries, in the order of their priority, and back.
FromRules(book) ==
    [i \in DOMAIN book |->
       [term |-> book[i].id, norm |-> book[i].keywords,
        polarity |-> IF book[i].fatal THEN "fatal"
                     ELSE IF book[i].level = "positive" THEN "positive" ELSE "negative",
        exclude |-> book[i].exclude, on_note |-> book[i].on_note, note |-> book[i].level]]

ToRules(entries) ==
    [i \in DOMAIN entries |->
       [id |-> entries[i].term,
        level |-> IF entries[i].note \in Levels THEN entries[i].note
                  ELSE IF entries[i].polarity = "positive" THEN "positive" ELSE "amber",
        keywords |-> entries[i].norm, exclude |-> entries[i].exclude,
        on_note |-> entries[i].on_note, fatal |-> entries[i].polarity = "fatal"]]

\* sha256 of the entries: the same for the same contents only.
Version(entries) == entries

-----------------------------------------------------------------------------
(* Events and points of day t, by the rules of now.                        *)

Window(t) == {no \in DOMAIN filings : t - WindowDays < filings[no].day /\ filings[no].day <= t}
Verdict(no) == Match(rules, filings[no].title)
Hit(t) == {no \in Window(t) : Verdict(no) # NoMatch}
Key(no) == <<Verdict(no).rule, filings[no].title.name>>
Originals(t) == {Key(no) : no \in {n \in Hit(t) : ~Corrected(filings[n])}}

\* Faulty: every correction counts.
Events_All(t) == Hit(t)

\* A correction counts only for an original that has left the window, and only the first one.
Events(t) ==
    {no \in Hit(t) :
        Corrected(filings[no]) =>
            /\ Key(no) \notin Originals(t)
            /\ \A n \in Hit(t) : n < no => Key(n) # Key(no)}

\* Faulty: only the newest event may be fatal.
FatalEvents_Newest(t) ==
    {no \in Events(t) : Verdict(no).fatal /\ \A n \in Events(t) : n <= no}

OfLevel(t, levels) == {no \in Events(t) : Verdict(no).level \in levels}
FatalEvents(t) == {no \in Events(t) : Verdict(no).fatal}

DisclosurePart(t, queried) ==
    IF ~queried THEN Missing("not_queried")
    ELSE IF FatalEvents(t) # {} THEN Adverse(FatalPoints)
    ELSE LET raw == Base + Positive * Cardinality(OfLevel(t, {"positive"}))
                         + Negative * Cardinality(OfLevel(t, {"red", "amber"}))
             points == Min({Max({raw, Floor}), MaxPoints})
         IN  IF Events(t) = {} THEN NoEvent(points) ELSE Observed(points)

-----------------------------------------------------------------------------
(* The company, the editor of the rules and the runs.                      *)

DisclosuresInit ==
    /\ day = 1 /\ filings = <<>>
    /\ rules \in RuleBooks
    /\ lexicons = {} /\ verdicts = {}

NextDay ==
    /\ day < LastDay
    /\ day' = day + 1
    /\ UNCHANGED <<filings, rules, lexicons, verdicts>>

\* An original opens a case of its own.
FileOriginal ==
    /\ Len(filings) < MaxFilings
    /\ \E title \in Titles, mark \in OtherMarks :
          filings' = Append(filings, [day |-> day, title |-> title, mark |-> mark,
                                      case |-> Len(filings) + 1])
    /\ UNCHANGED <<day, rules, lexicons, verdicts>>

\* A correction repeats the title of what it corrects.
FileCorrection ==
    /\ Len(filings) < MaxFilings
    /\ \E no \in DOMAIN filings, mark \in CorrectionMarks :
          filings' = Append(filings, [filings[no] EXCEPT !.day = day, !.mark = mark])
    /\ UNCHANGED <<day, rules, lexicons, verdicts>>

EditRules ==
    /\ rules' \in RuleBooks
    /\ UNCHANGED <<day, filings, lexicons, verdicts>>

\* A run for day t stores the version of its rules, unless it is there, and its verdicts.
Judge(t) ==
    LET entries == FromRules(rules)
        version == Version(entries)
    IN  /\ WellFormed(rules)
        /\ lexicons' = IF \E l \in lexicons : l.version = version THEN lexicons
                       ELSE lexicons \cup {[version |-> version, entries |-> entries]}
        /\ verdicts' = verdicts \cup
             {[no |-> no, rule |-> Verdict(no).rule, version |-> version,
               level |-> Verdict(no).level, fatal |-> Verdict(no).fatal] :
                no \in {n \in Events(t) : \A v \in verdicts :
                           <<v.no, v.rule, v.version>> # <<n, Verdict(n).rule, version>>}}
        /\ UNCHANGED <<day, filings, rules>>

DisclosuresNext ==
    \/ NextDay \/ FileOriginal \/ FileCorrection \/ EditRules
    \/ \E t \in 1..day : Judge(t)

DisclosuresSpec == DisclosuresInit /\ [][DisclosuresNext]_discVars

-----------------------------------------------------------------------------
(* Properties.                                                             *)

Filings == [day : 1..LastDay, title : Titles, mark : CorrectionMarks \cup OtherMarks,
            case : 1..MaxFilings]

DisclosuresTypeOK ==
    /\ day \in 1..LastDay
    /\ filings \in Seq(Filings) /\ Len(filings) <= MaxFilings
    /\ rules \in RuleBooks
    /\ \A l \in lexicons : \E book \in RuleBooks :
          l = [version |-> Version(FromRules(book)), entries |-> FromRules(book)]
    /\ \A v \in verdicts : v.no \in DOMAIN filings

SameTitleElsewhere(case) ==
    \E m, n \in DOMAIN filings :
        /\ filings[m].case = case /\ filings[n].case # case
        /\ filings[m].title.name = filings[n].title.name

\* However often a case is corrected, and whatever of it is still in the window, it is counted
\* once at most; and it is counted, unless another case has the same title.
CountedOnce ==
    \A t \in 1..day, case \in 1..MaxFilings :
        LET of(S) == {no \in S : filings[no].case = case}
        IN  /\ Cardinality(of(Events(t))) <= 1
            /\ of(Hit(t)) # {} /\ ~SameTitleElsewhere(case) => of(Events(t)) # {}

\* A filing pulls the points its own way: bad news never helps, also when it is a correction or
\* comes after something fatal; good news never hurts; any other filing changes nothing.
FilingsPull ==
    [][filings' # filings /\ WellFormed(rules) =>
         \A t \in 1..day :
            LET points == DisclosurePart(t, TRUE).points
                level == Verdict(Len(filings))'.level
            IN  /\ level \in {"red", "amber"} => DisclosurePart(t, TRUE)'.points <= points
                /\ level = "positive" => DisclosurePart(t, TRUE)'.points >= points
                /\ level = "none" => DisclosurePart(t, TRUE)' = DisclosurePart(t, TRUE)]_discVars

\* "A past version reproduces the score of then" (lexicon.py:121): a stored verdict is what the
\* stored version of the rules says of that filing, however the rules were edited since.
VerdictsReplay ==
    \A v \in verdicts :
        /\ \E l \in lexicons : l.version = v.version
        /\ \A l \in lexicons : l.version = v.version =>
              Match(ToRules(l.entries), filings[v.no].title)
                = [rule |-> v.rule, level |-> v.level, fatal |-> v.fatal]
==============================================================================
