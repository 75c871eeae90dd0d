--------------------------- MODULE DisclosureSync ---------------------------
(***************************************************************************)
(* How a run of the common profile gets the disclosures of its window:     *)
(* _sync_disclosures and _read_disclosure_window of scoring/nodes.py,      *)
(* fetch_days of scoring/sources/disclosure.py, and write_disclosures of   *)
(* scoring/store/writer.py.  kss_disclosures is shared by all runs.  A run *)
(* does not fetch its whole window: it goes on from the newest receipt     *)
(* date in the table, Refetch days earlier to be safe.  Days are calendar  *)
(* days; pages and retries of one fetch are left out.                      *)
(***************************************************************************)
EXTENDS Integers, FiniteSetsExt

CONSTANTS
    Runs,
    Ids,           \* tells the filings of one day apart
    LastDay,       \* bound on the days
    WindowDays,    \* window_days of item disc.dart
    Refetch,       \* DISCLOSURE_REFETCH_DAYS
    MaxLag,        \* a filing appears at most so many days after its receipt date
    MayDie,        \* may a run die while it stores what it fetched?
    MayGoBack,     \* may a run be for an earlier day than a run before it?
    MayOverlap     \* may runs be under way at the same time?

ASSUME DaysAssumption ==
    LastDay \in Nat \ {0} /\ WindowDays \in Nat \ {0} /\ Refetch \in Nat /\ MaxLag \in Nat
ASSUME ModeAssumption == MayDie \in BOOLEAN /\ MayGoBack \in BOOLEAN /\ MayOverlap \in BOOLEAN

Days == 1..LastDay
Filings == [day : Days, id : Ids]

VARIABLES
    today,
    filed,     \* filings DART has
    stored,    \* kss_disclosures
    pc,        \* run -> "idle", "since", "fetch", "write" or "done"
    t,         \* run -> evaluation day
    since,     \* run -> first day to fetch
    batch,     \* run -> what it fetched and has not stored yet
    known,     \* history: run -> what DART had of its window when it fetched
    got,       \* run -> the window it scores with
    newest     \* history: the latest evaluation day so far

runVars == <<pc, t, since, batch, known, got>>
vars == <<today, filed, stored, runVars, newest>>

AtWork(r) == pc[r] \notin {"idle", "done"}

WindowStart(d) == d - WindowDays + 1

\* Filings of S received between two days.
Between(S, first, last) == {f \in S : first <= f.day /\ f.day <= last}

\* select max(rcept_dt) from kss_disclosures
LastStored == Max({f.day : f \in stored})

Init ==
    /\ today = 1
    /\ filed = {} /\ stored = {}
    /\ pc = [r \in Runs |-> "idle"]
    /\ t = [r \in Runs |-> 1]
    /\ since = [r \in Runs |-> 1]
    /\ batch = [r \in Runs |-> {}]
    /\ known = [r \in Runs |-> {}]
    /\ got = [r \in Runs |-> {}]
    /\ newest = 1

Goto(r, label) == pc' = [pc EXCEPT ![r] = label]

----------------------------------------------------------------------------
NextDay ==
    /\ today < LastDay
    /\ today' = today + 1
    /\ UNCHANGED <<filed, stored, runVars, newest>>

\* A filing appears at DART, perhaps days after its receipt date.
File(f) ==
    /\ f.day <= today /\ today <= f.day + MaxLag
    /\ filed' = filed \cup {f}
    /\ UNCHANGED <<today, stored, runVars, newest>>

\* A run for day d comes to _load_events.
Start(r, d) ==
    /\ ~AtWork(r)
    /\ d <= today
    /\ MayGoBack \/ newest <= d
    /\ MayOverlap \/ \A q \in Runs : ~AtWork(q)
    /\ Goto(r, "since")
    /\ t' = [t EXCEPT ![r] = d]
    /\ newest' = IF newest <= d THEN d ELSE newest
    /\ UNCHANGED <<today, filed, stored, since, batch, known, got>>

\* Faulty: only days after the newest one are fetched.
FindSinceNoOverlap(r) ==
    /\ pc[r] = "since"
    /\ Goto(r, "fetch")
    /\ since' = [since EXCEPT ![r] =
                   IF stored = {} THEN WindowStart(t[r])
                   ELSE IF WindowStart(t[r]) > LastStored + 1 THEN WindowStart(t[r])
                   ELSE LastStored + 1]
    /\ UNCHANGED <<today, filed, stored, t, batch, known, got, newest>>

\* Faulty: the start of the window is forgotten.
FindSinceUnbounded(r) ==
    /\ pc[r] = "since"
    /\ Goto(r, "fetch")
    /\ since' = [since EXCEPT ![r] =
                   IF stored = {} THEN WindowStart(t[r]) ELSE LastStored - Refetch]
    /\ UNCHANGED <<today, filed, stored, t, batch, known, got, newest>>

\* The day to go on from.
FindSince(r) ==
    /\ pc[r] = "since"
    /\ Goto(r, "fetch")
    /\ since' = [since EXCEPT ![r] =
                   IF stored = {} THEN WindowStart(t[r])
                   ELSE IF WindowStart(t[r]) > LastStored - Refetch THEN WindowStart(t[r])
                   ELSE LastStored - Refetch]
    /\ UNCHANGED <<today, filed, stored, t, batch, known, got, newest>>

\* Both markets, every page.  If the range is inverted (since after t) DART has
\* nothing to give, or it reports an error and the run dies.
Fetch(r) ==
    /\ pc[r] = "fetch"
    /\ Goto(r, "write")
    /\ batch' = [batch EXCEPT ![r] = Between(filed, since[r], t[r])]
    /\ known' = [known EXCEPT ![r] = Between(filed, WindowStart(t[r]), t[r])]
    /\ UNCHANGED <<today, filed, stored, t, since, got, newest>>

\* One chunk, one commit; DART decides the order.
Write(r) ==
    /\ pc[r] = "write"
    /\ \E f \in batch[r] :
         /\ stored' = stored \cup {f}
         /\ batch' = [batch EXCEPT ![r] = @ \ {f}]
    /\ UNCHANGED <<today, filed, pc, t, since, known, got, newest>>

\* The window is read from the table.
Read(r) ==
    /\ pc[r] = "write"
    /\ batch[r] = {}
    /\ Goto(r, "done")
    /\ got' = [got EXCEPT ![r] = Between(stored, WindowStart(t[r]), t[r])]
    /\ UNCHANGED <<today, filed, stored, t, since, batch, known, newest>>

\* An exception or a kill: what is not stored is lost.
Die(r) ==
    /\ AtWork(r)
    /\ MayDie \/ pc[r] # "write"
    /\ Goto(r, "idle")
    /\ batch' = [batch EXCEPT ![r] = {}]
    /\ UNCHANGED <<today, filed, stored, t, since, known, got, newest>>

Next ==
    \/ NextDay
    \/ \E f \in Filings : File(f)
    \/ \E r \in Runs :
         \/ \E d \in Days : Start(r, d)
         \/ FindSince(r) \/ Fetch(r) \/ Write(r) \/ Read(r) \/ Die(r)

Spec == Init /\ [][Next]_vars

----------------------------------------------------------------------------
\* Types of the variables.  Nothing is fetched from before the window.
TypeOK ==
    /\ today \in Days /\ newest \in 1..today
    /\ filed \subseteq Filings /\ stored \subseteq filed
    /\ pc \in [Runs -> {"idle", "since", "fetch", "write", "done"}]
    /\ t \in [Runs -> 1..newest]
    /\ since \in [Runs -> Int]
    /\ \A r \in Runs : pc[r] \in {"fetch", "write"} => WindowStart(t[r]) <= since[r]
    /\ batch \in [Runs -> SUBSET filed]
    /\ known \in [Runs -> SUBSET filed]
    /\ got \in [Runs -> SUBSET filed]
    /\ \A f \in filed : f.day <= today

\* A run scores with every filing DART had of its window when it asked, although
\* it asked for a part of the window only and filings appear late.
WindowComplete == \A r \in Runs : pc[r] = "done" => known[r] \subseteq got[r]

\* Why, if runs come one at a time, in the order of their days, and do not die
\* while they store.  Of the latest window, everything old enough not to be
\* fetched again is stored or about to be; a run's batch holds what is missing.
OldIsStored ==
    \A f \in filed : \A g \in stored :
        WindowStart(newest) <= f.day /\ f.day < g.day - Refetch
            => f \in stored \cup UNION {batch[r] : r \in Runs}

RunKnows ==
    \A r \in Runs :
        /\ AtWork(r) => t[r] = newest
        /\ \A q \in Runs : AtWork(r) /\ AtWork(q) => q = r
        /\ pc[r] # "write" => batch[r] = {}
        /\ \A g \in stored : g.day <= newest
        /\ \A f \in batch[r] : f.day <= newest
        /\ pc[r] = "fetch" => \/ since[r] = WindowStart(t[r])
                              \/ \E g \in stored : since[r] = g.day - Refetch
        /\ pc[r] = "write" =>
             /\ known[r] \subseteq Between(stored \cup batch[r], WindowStart(t[r]), t[r])
             /\ \A f \in Between(filed, WindowStart(t[r]), t[r]) :
                  f \in stored \cup batch[r] \/ t[r] <= f.day + Refetch

SyncInv == TypeOK /\ OldIsStored /\ RunKnows /\ WindowComplete

=============================================================================
