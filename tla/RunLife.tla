------------------------------ MODULE RunLife ------------------------------
(***************************************************************************)
(* A scoring run as the rest of the system sees it: a row of kss_runs that *)
(* appears, result rows that are stored chunk by chunk, a comparison of    *)
(* what is stored with what was written, and, if it is in order, one       *)
(* publication.  A run may end at any moment, for any reason.  ScoreRuns   *)
(* is shown to implement this module; Archive composes it with the archive *)
(* job, which deletes rows behind its back.                                *)
(***************************************************************************)
EXTENDS ResultTables

CONSTANTS Runs, Days, None

ASSUME NoRunAssumption == None \notin Runs \cup Days

VARIABLES
    phase,   \* "idle" (no row yet), "open", "counted" or "ended"
    day,     \* evaluation day of a run that has a row
    cursor,  \* how many chunks the run has written
    rows,    \* which of its chunks are in the database
    board,   \* kss_publications: day -> published run
    past     \* kss_publication_history: day -> runs published, oldest first

runVars == <<phase, day, cursor, rows>>
boardVars == <<board, past>>
vars == <<runVars, boardVars>>

Exists(r) == phase[r] # "idle"
AtWork(r) == phase[r] \in {"open", "counted"}

\* Faulty: the subquery looks at the publications of other days.
PublishedWrongJoin(r) == \E d \in Days : board[d] = r /\ d # day[r]

Published(r) == \E d \in Days : board[d] = r

Stored(r, t) == {k \in rows[r] : WritePlan[k] = t}

Init ==
    /\ phase = [r \in Runs |-> "idle"]
    /\ day = [r \in Runs |-> None]
    /\ cursor = [r \in Runs |-> 0]
    /\ rows = [r \in Runs |-> {}]
    /\ board = [d \in Days |-> None]
    /\ past = [d \in Days |-> <<>>]

\* The row of the run is created.
Begin(r, d) ==
    /\ phase[r] = "idle"
    /\ phase' = [phase EXCEPT ![r] = "open"]
    /\ day' = [day EXCEPT ![r] = d]
    /\ UNCHANGED <<cursor, rows, boardVars>>

\* One chunk is stored.  A part needs the score of its ticker (foreign key).
Store(r) ==
    /\ phase[r] = "open"
    /\ cursor[r] < Len(WritePlan)
    /\ WritePlan[cursor[r] + 1] = "parts" => Stored(r, "scores") = Written("scores")
    /\ cursor' = [cursor EXCEPT ![r] = @ + 1]
    /\ rows' = [rows EXCEPT ![r] = @ \cup {cursor[r] + 1}]
    /\ UNCHANGED <<phase, day, boardVars>>

\* Faulty: counting does not wait for the last chunk.
CountEarly(r) ==
    /\ phase[r] = "open"
    /\ \A t \in CountedTables : Stored(r, t) \subseteq Written(t)
    /\ phase' = [phase EXCEPT ![r] = "counted"]
    /\ UNCHANGED <<day, cursor, rows, boardVars>>

\* What is stored is what was written.
Count(r) ==
    /\ phase[r] = "open"
    /\ cursor[r] = Len(WritePlan)
    /\ \A t \in CountedTables : Stored(r, t) = Written(t)
    /\ phase' = [phase EXCEPT ![r] = "counted"]
    /\ UNCHANGED <<day, cursor, rows, boardVars>>

\* The run becomes its day's publication.
Post(r) ==
    /\ phase[r] = "counted"
    /\ phase' = [phase EXCEPT ![r] = "ended"]
    /\ board' = [board EXCEPT ![day[r]] = r]
    /\ past' = [past EXCEPT ![day[r]] = Append(@, r)]
    /\ UNCHANGED <<day, cursor, rows>>

\* The run fails, is killed, or waits for upstream.
End(r) ==
    /\ AtWork(r)
    /\ phase' = [phase EXCEPT ![r] = "ended"]
    /\ UNCHANGED <<day, cursor, rows, boardVars>>

Step(r) == (\E d \in Days : Begin(r, d)) \/ Store(r) \/ Count(r) \/ Post(r) \/ End(r)

Next == \E r \in Runs : Step(r)

Spec == Init /\ [][Next]_vars

\* Types of the variables; a run that has a row has its day.
TypeOK ==
    /\ phase \in [Runs -> {"idle", "open", "counted", "ended"}]
    /\ day \in [Runs -> Days \cup {None}]
    /\ \A r \in Runs : Exists(r) => day[r] \in Days
    /\ cursor \in [Runs -> 0..Len(WritePlan)]
    /\ rows \in [Runs -> SUBSET Chunks]
    /\ board \in [Days -> Runs \cup {None}]
    /\ past \in [Days -> Seq(Runs)]

============================================================================
