----------------------------- MODULE ScoreRuns -----------------------------
(***************************************************************************)
(* The life of a scoring run (`python -m scoring.run score`) of one        *)
(* scoring profile: the graph of scoring/graph.py, the exception handler   *)
(* of scoring/run.py, and the tables kss_runs, kss_universe_snapshots,     *)
(* kss_scores, kss_score_parts, kss_publications and                       *)
(* kss_publication_history as scoring/store/writer.py writes them.         *)
(*                                                                         *)
(* Every run is a process of its own; one action is one committed          *)
(* transaction, or one statement of the publishing transaction.  What a    *)
(* process knows (pc, group, decision, cursor, prev) is lost when it dies; *)
(* what the database holds (day, status, stale, rows, board, history,      *)
(* locks) is not.  Profiles do not interact: the lock name and the keys of *)
(* kss_publications contain the profile.                                   *)
(***************************************************************************)
EXTENDS ResultTables

CONSTANTS
    Runs,       \* the runs that may ever start (uuids of kss_runs)
    Days,       \* evaluation days T
    Latest,     \* concurrency group of an Actions job given no date
    Shell,      \* "group" of a run started from a shell: no job, no time limit
    Groups,     \* the groups runs are started in
    None

ASSUME GroupAssumption == Latest \notin Days /\ Shell \notin Days /\ Latest # Shell
                          /\ None \notin {Latest, Shell}
                          /\ Groups \subseteq Days \cup {Latest, Shell}

OpenStatuses == {"created", "checking", "computing", "validating"}
PublishedStatuses == {"published", "published_degraded"}
Statuses == OpenStatuses \cup PublishedStatuses \cup {"waiting_upstream", "failed"}
Decisions == {"publish", "publish_degraded", "wait"}

ASSUME NoneAssumption == None \notin Runs \cup Days \cup Statuses \cup Decisions

(***************************************************************************)
(* Program points of a run: before the row exists, inside the graph, in    *)
(* the publishing transaction, after it, and ended.                        *)
(***************************************************************************)
InGraph == {"checking", "gate", "wait", "load", "validate", "persist", "publish", "lock"}
InTransaction == {"prev", "swap"}
Ended == {"done", "dead"}
PCs == {"idle", "create", "cross", "finish", "failing"} \cup InGraph \cup InTransaction \cup Ended

VARIABLES
    pc, group, decision, cursor, prev,   \* per process
    day, status, stale, rows,            \* per row of kss_runs, and its result rows
    board, boardStatus,                  \* kss_publications
    history,                             \* kss_publication_history
    lock                                 \* advisory lock kss:<T>:<profile>

procVars == <<pc, group, decision, cursor, prev>>
runVars == <<day, status, stale, rows>>
boardVars == <<board, boardStatus, history, lock>>
vars == <<procVars, runVars, boardVars>>

Live(r) == pc[r] \notin {"idle"} \cup Ended
Exists(r) == status[r] # None
Posted(d) == {history[d][i].new : i \in DOMAIN history[d]}

\* The status a run publishes under, and the one it ends with.
PublishStatus(r) == IF decision[r] = "publish_degraded" THEN "published_degraded" ELSE "published"
FinalStatus(r) == IF decision[r] = "wait" THEN "waiting_upstream" ELSE PublishStatus(r)

\* Chunks of table t that are stored for run r.
Stored(r, t) == {k \in rows[r] : WritePlan[k] = t}

Complete(r) == rows[r] = Chunks

Init ==
    /\ pc = [r \in Runs |-> "idle"]
    /\ group = [r \in Runs |-> None]
    /\ decision = [r \in Runs |-> None]
    /\ cursor = [r \in Runs |-> 0]
    /\ prev = [r \in Runs |-> None]
    /\ day = [r \in Runs |-> None]
    /\ status = [r \in Runs |-> None]
    /\ stale = [r \in Runs |-> FALSE]
    /\ rows = [r \in Runs |-> {}]
    /\ board = [d \in Days |-> None]
    /\ boardStatus = [d \in Days |-> None]
    /\ history = [d \in Days |-> <<>>]
    /\ lock = [d \in Days |-> None]

(***************************************************************************)
(* Helpers of the actions.                                                 *)
(***************************************************************************)

\* update_run: sets the status whatever it was, and the heartbeat with it.
UpdateRun(r, s) ==
    /\ status' = [status EXCEPT ![r] = s]
    /\ stale' = [stale EXCEPT ![r] = FALSE]

Goto(r, label) == pc' = [pc EXCEPT ![r] = label]

\* The end of a connection's transaction gives its advisory locks back.
Release(r) == lock' = [d \in Days |-> IF lock[d] = r THEN None ELSE lock[d]]

\* The day's publication row is locked by a transaction that selected it `for update`.
RowLocked(d) == \E q \in Runs : pc[q] = "swap" /\ day[q] = d /\ prev[q] # None

----------------------------------------------------------------------------
(***************************************************************************)
(* The graph, node by node.                                                *)
(***************************************************************************)

\* A job or a shell starts the program, and node `calendar` fixes T.  A job
\* waits for the other jobs of its concurrency group; a job given no date
\* takes the last session, which may be any day by the time it runs.
Start(r, d, g) ==
    /\ pc[r] = "idle"
    /\ g \in {d, Latest, Shell}
    /\ g # Shell => \A q \in Runs : ~(Live(q) /\ group[q] = g)
    /\ Goto(r, "create")
    /\ group' = [group EXCEPT ![r] = g]
    /\ day' = [day EXCEPT ![r] = d]
    /\ UNCHANGED <<decision, cursor, prev, status, stale, rows, boardVars>>

\* Node `create_run`, first transaction: the row is there before any work.
CreateRun(r) ==
    /\ pc[r] = "create"
    /\ Goto(r, "checking")
    /\ status' = [status EXCEPT ![r] = "created"]
    /\ UNCHANGED <<group, decision, cursor, prev, day, stale, rows, boardVars>>

\* Node `create_run`, second transaction.
MarkChecking(r) ==
    /\ pc[r] = "checking"
    /\ Goto(r, "gate")
    /\ UpdateRun(r, "checking")
    /\ UNCHANGED <<group, decision, cursor, prev, day, rows, boardVars>>

\* Node `gate` and the route after it.  The coverage it measures upstream
\* may lead to any of the three decisions.
Gate(r) ==
    /\ pc[r] = "gate"
    /\ \E dec \in Decisions :
         /\ decision' = [decision EXCEPT ![r] = dec]
         /\ Goto(r, IF dec = "wait" THEN "wait" ELSE "load")
    /\ UNCHANGED <<group, cursor, prev, runVars, boardVars>>

\* Node `wait`: the run closes without publishing.
Wait(r) ==
    /\ pc[r] = "wait"
    /\ Goto(r, "finish")
    /\ UpdateRun(r, "waiting_upstream")
    /\ UNCHANGED <<group, decision, cursor, prev, day, rows, boardVars>>

\* Node `load`, and node `compute`, which writes nothing.
Load(r) ==
    /\ pc[r] = "load"
    /\ Goto(r, "validate")
    /\ UpdateRun(r, "computing")
    /\ UNCHANGED <<group, decision, cursor, prev, day, rows, boardVars>>

\* Node `validate`: results that break an invariant raise (Raise, below).
Validate(r) ==
    /\ pc[r] = "validate"
    /\ Goto(r, "persist")
    /\ UpdateRun(r, "validating")
    /\ UNCHANGED <<group, decision, cursor, prev, day, rows, boardVars>>

\* Faulty: the loop over chunks runs one too far.
PersistChunkTooFar(r) ==
    /\ pc[r] = "persist"
    /\ cursor[r] <= Len(WritePlan)
    /\ cursor' = [cursor EXCEPT ![r] = @ + 1]
    /\ rows' = [rows EXCEPT ![r] = @ \cup {cursor[r] + 1}]
    /\ UNCHANGED <<pc, group, decision, prev, day, status, stale, boardVars>>

\* Faulty: an error while a chunk of details is written is swallowed.
PersistChunkLossy(r) ==
    /\ pc[r] = "persist"
    /\ cursor[r] < Len(WritePlan)
    /\ cursor' = [cursor EXCEPT ![r] = @ + 1]
    /\ rows' = [rows EXCEPT ![r] =
                  IF WritePlan[cursor[r] + 1] = "details" THEN @ ELSE @ \cup {cursor[r] + 1}]
    /\ UNCHANGED <<pc, group, decision, prev, day, status, stale, boardVars>>

\* Node `persist`: one chunk, one commit.  A part needs the score of its ticker
\* (foreign key), or the statement fails.
PersistChunk(r) ==
    /\ pc[r] = "persist"
    /\ cursor[r] < Len(WritePlan)
    /\ WritePlan[cursor[r] + 1] = "parts" => Stored(r, "scores") = Written("scores")
    /\ cursor' = [cursor EXCEPT ![r] = @ + 1]
    /\ rows' = [rows EXCEPT ![r] = @ \cup {cursor[r] + 1}]
    /\ UNCHANGED <<pc, group, decision, prev, day, status, stale, boardVars>>

\* Faulty: the comparison says nothing about tables with no row at all.
CountRowsEarly(r) ==
    /\ pc[r] = "persist"
    /\ \A t \in CountedTables : Stored(r, t) \in {{}, Written(t)}
    /\ Goto(r, "publish")
    /\ UNCHANGED <<group, decision, cursor, prev, runVars, boardVars>>

\* Node `persist`, its last part: stored rows are compared with written ones,
\* table by table, for three of the tables.
CountRows(r) ==
    /\ pc[r] = "persist"
    /\ cursor[r] = Len(WritePlan)
    /\ LET agree == \A t \in CountedTables : Stored(r, t) = Written(t)
       IN  Goto(r, IF agree THEN "publish" ELSE "failing")
    /\ UNCHANGED <<group, decision, cursor, prev, runVars, boardVars>>

\* Node `publish`, before the publishing transaction.
BeginPublish(r) ==
    /\ pc[r] = "publish"
    /\ Goto(r, "lock")
    /\ UpdateRun(r, "validating")
    /\ UNCHANGED <<group, decision, cursor, prev, day, rows, boardVars>>

\* Faulty: no advisory lock, only the row lock of `for update`.
AcquireLockUnguarded(r) ==
    /\ pc[r] = "lock"
    /\ lock' = [lock EXCEPT ![day[r]] = r]
    /\ Goto(r, "prev")
    /\ UNCHANGED <<group, decision, cursor, prev, runVars, board, boardStatus, history>>

\* writer.publish: pg_advisory_xact_lock waits for the day's lock ...
AcquireLock(r) ==
    /\ pc[r] = "lock"
    /\ lock[day[r]] = None
    /\ lock' = [lock EXCEPT ![day[r]] = r]
    /\ Goto(r, "prev")
    /\ UNCHANGED <<group, decision, cursor, prev, runVars, board, boardStatus, history>>

\* ... the current publication is read and its row, if any, locked ...
ReadPrevious(r) ==
    /\ pc[r] = "prev"
    /\ ~RowLocked(day[r])
    /\ prev' = [prev EXCEPT ![r] = board[day[r]]]
    /\ Goto(r, "swap")
    /\ UNCHANGED <<group, decision, cursor, runVars, boardVars>>

\* ... and the pointer, the history and the run's status change together.
\* The heartbeat is not touched.
CommitPublish(r) ==
    /\ pc[r] = "swap"
    /\ board' = [board EXCEPT ![day[r]] = r]
    /\ boardStatus' = [boardStatus EXCEPT ![day[r]] = PublishStatus(r)]
    /\ history' = [history EXCEPT ![day[r]] = Append(@, [old |-> prev[r], new |-> r])]
    /\ status' = [status EXCEPT ![r] = PublishStatus(r)]
    /\ Release(r)
    /\ Goto(r, "cross")
    /\ UNCHANGED <<group, decision, cursor, prev, day, stale, rows>>

\* Node `cross`: alerts signals are joined to the published scores.
Cross(r) ==
    /\ pc[r] = "cross"
    /\ Goto(r, "finish")
    /\ UNCHANGED <<group, decision, cursor, prev, runVars, boardVars>>

\* Faulty: the graph loses its status and main falls back on "published".
FinishDefault(r) ==
    /\ pc[r] = "finish"
    /\ Goto(r, "done")
    /\ UpdateRun(r, "published")
    /\ UNCHANGED <<group, decision, cursor, prev, day, rows, boardVars>>

\* main, after the graph: the status the graph ended with is written again.
Finish(r) ==
    /\ pc[r] = "finish"
    /\ Goto(r, "done")
    /\ UpdateRun(r, FinalStatus(r))
    /\ UNCHANGED <<group, decision, cursor, prev, day, rows, boardVars>>

----------------------------------------------------------------------------
(***************************************************************************)
(* Failures.                                                               *)
(***************************************************************************)

\* An exception before the row exists: nothing is recorded.
RaiseEarly(r) ==
    /\ pc[r] = "create"
    /\ Goto(r, "done")
    /\ UNCHANGED <<group, decision, cursor, prev, runVars, boardVars>>

\* Faulty: the transaction is rolled back but its session keeps the lock.
RaiseHoldingLock(r) ==
    /\ pc[r] \in InGraph \cup InTransaction \cup {"cross"}
    /\ Goto(r, "failing")
    /\ UNCHANGED <<group, decision, cursor, prev, runVars, boardVars>>

\* An exception inside the graph: the open transaction is rolled back.
Raise(r) ==
    /\ pc[r] \in InGraph \cup InTransaction \cup {"cross"}
    /\ Goto(r, "failing")
    /\ Release(r)
    /\ UNCHANGED <<group, decision, cursor, prev, runVars, board, boardStatus, history>>

\* main's exception handler closes the row.
HandleFailure(r) ==
    /\ pc[r] = "failing"
    /\ Goto(r, "done")
    /\ UpdateRun(r, "failed")
    /\ UNCHANGED <<group, decision, cursor, prev, day, rows, boardVars>>

\* The runner is killed or the connection lost: no handler runs, and the
\* server rolls the transaction back.
Crash(r) ==
    /\ Live(r)
    /\ Goto(r, "dead")
    /\ Release(r)
    /\ UNCHANGED <<group, decision, cursor, prev, runVars, board, boardStatus, history>>

\* Faulty: --stale-minutes shorter than the life of a job.
ExpireEarly(r) ==
    /\ Exists(r)
    /\ ~stale[r]
    /\ stale' = [stale EXCEPT ![r] = TRUE]
    /\ UNCHANGED <<procVars, day, status, rows, boardVars>>

\* Ninety minutes pass since the row's last heartbeat.  A job cannot live that
\* long (timeout-minutes: 60); a run started from a shell can.
Expire(r) ==
    /\ Exists(r)
    /\ ~stale[r]
    /\ pc[r] \in Ended \/ group[r] = Shell
    /\ stale' = [stale EXCEPT ![r] = TRUE]
    /\ UNCHANGED <<procVars, day, status, rows, boardVars>>

\* Faulty: the sweep looks at the heartbeat only.
SweepAnyStatus ==
    LET zombies == {r \in Runs : Exists(r) /\ stale[r] /\ status[r] # "failed"}
    IN  /\ zombies # {}
        /\ status' = [r \in Runs |-> IF r \in zombies THEN "failed" ELSE status[r]]
        /\ UNCHANGED <<procVars, day, stale, rows, boardVars>>

\* Faulty: the sweep overlooks rows killed before their first heartbeat.
SweepForgetsCreated ==
    LET zombies == {r \in Runs : status[r] \in OpenStatuses \ {"created"} /\ stale[r]}
    IN  /\ zombies # {}
        /\ status' = [r \in Runs |-> IF r \in zombies THEN "failed" ELSE status[r]]
        /\ UNCHANGED <<procVars, day, stale, rows, boardVars>>

\* sweep_stale_runs: one statement closes every open row with an old heartbeat.
Sweep ==
    LET zombies == {r \in Runs : status[r] \in OpenStatuses /\ stale[r]}
    IN  /\ zombies # {}
        /\ status' = [r \in Runs |-> IF r \in zombies THEN "failed" ELSE status[r]]
        /\ UNCHANGED <<procVars, day, stale, rows, boardVars>>

----------------------------------------------------------------------------
\* What the program of run r does next, an exception included.
Step(r) ==
    \/ CreateRun(r) \/ MarkChecking(r) \/ Gate(r) \/ Wait(r) \/ Load(r) \/ Validate(r)
    \/ PersistChunk(r) \/ CountRows(r) \/ BeginPublish(r) \/ AcquireLock(r)
    \/ ReadPrevious(r) \/ CommitPublish(r) \/ Cross(r) \/ Finish(r)
    \/ RaiseEarly(r) \/ Raise(r) \/ HandleFailure(r)

\* Every run has ended long ago.
Rest ==
    /\ \A r \in Runs : pc[r] \in Ended /\ (Exists(r) => stale[r])
    /\ UNCHANGED vars

Next ==
    \/ \E r \in Runs, d \in Days, g \in Groups : Start(r, d, g)
    \/ \E r \in Runs : Step(r) \/ Crash(r) \/ Expire(r)
    \/ Sweep
    \/ Rest

Spec == Init /\ [][Next]_vars

\* A live program goes on or is killed (by its job's time limit, or by hand),
\* time passes, and the daily recovery job sweeps.
Fairness ==
    /\ \A r \in Runs : WF_vars(Step(r) \/ Crash(r)) /\ WF_vars(Expire(r))
    /\ WF_vars(Sweep)

FairSpec == Spec /\ Fairness

----------------------------------------------------------------------------
(***************************************************************************)
(* Properties.                                                             *)
(***************************************************************************)

\* Types of the variables; a program that has started has its day.
TypeOK ==
    /\ pc \in [Runs -> PCs]
    /\ group \in [Runs -> Groups \cup {None}]
    /\ decision \in [Runs -> Decisions \cup {None}]
    /\ cursor \in [Runs -> 0..Len(WritePlan)]
    /\ prev \in [Runs -> Runs \cup {None}]
    /\ day \in [Runs -> Days \cup {None}]
    /\ \A r \in Runs : pc[r] # "idle" => day[r] \in Days
    /\ status \in [Runs -> Statuses \cup {None}]
    /\ stale \in [Runs -> BOOLEAN]
    /\ rows \in [Runs -> SUBSET Chunks]
    /\ board \in [Days -> Runs \cup {None}]
    /\ boardStatus \in [Days -> PublishedStatuses \cup {None}]
    /\ history \in [Days -> Seq([old : Runs \cup {None}, new : Runs])]
    /\ lock \in [Days -> Runs \cup {None}]

\* Readers are only ever sent to a run of that very day that passed the gate
\* and whose every result row is stored, under the grade the gate gave it
\* (persist before publish, across any crash, exception or competing run).
PublishedComplete ==
    \A d \in Days : board[d] # None =>
        /\ day[board[d]] = d
        /\ Complete(board[d])
        /\ decision[board[d]] \in {"publish", "publish_degraded"}
        /\ boardStatus[d] = PublishStatus(board[d])

\* kss_publication_history is a gapless chain that ends at the pointer: each
\* entry names as previous run the new run of the entry before it, although
\* the previous run is read in one statement and used in a later one.
HistoryChain ==
    \A d \in Days :
        LET h == history[d]
        IN  /\ \A i \in DOMAIN h : h[i].old = IF i = 1 THEN None ELSE h[i - 1].new
            /\ board[d] = IF h = <<>> THEN None ELSE h[Len(h)].new

\* A row that says published is in the history of its day and says the right
\* grade; a run in the history says so, or says failed; a waiting run stored
\* nothing.  Three writers set the status: publish, main and the sweep.
StatusTellsTruth ==
    \A r \in Runs :
        /\ status[r] \in PublishedStatuses => r \in Posted(day[r]) /\ status[r] = PublishStatus(r)
        /\ \A d \in Days : r \in Posted(d) => status[r] \in {PublishStatus(r), "failed"}
        /\ status[r] = "waiting_upstream" => rows[r] = {}

\* Why the three above hold, step by step.  PhaseInv: what each program point
\* knows of its run (the rows stored are those of the loop so far, the gate was
\* passed, the loop is complete before publishing, the row exists).  LockInv: only a transaction
\* has the day's lock, and the pointer it read nobody has moved since.  PostInv:
\* a run in the history is past its publication; pointer and status agree with it.
\* JobInv: nobody closes the row of a job that is still at work.
GatePassed(r) == decision[r] \in {"publish", "publish_degraded"}

PhaseInv ==
    \A r \in Runs :
        /\ rows[r] = 1..cursor[r]
        /\ pc[r] = "idle" => group[r] = None
        /\ pc[r] \in {"idle", "create"} => status[r] = None
        /\ pc[r] \notin {"idle", "create"} \cup Ended => status[r] # None
        /\ pc[r] \in {"idle", "create", "checking", "gate"} => decision[r] = None
        /\ pc[r] \in {"idle", "create", "checking", "gate", "load", "validate"} => cursor[r] = 0
        /\ pc[r] \in {"publish", "lock"} \cup InTransaction => cursor[r] = Len(WritePlan)
        /\ pc[r] \in {"load", "validate", "persist", "publish", "lock"} \cup InTransaction
              => GatePassed(r)
        /\ pc[r] = "wait" => decision[r] = "wait"
        /\ decision[r] = "wait" => cursor[r] = 0

LockInv ==
    /\ \A r \in Runs :
         /\ pc[r] \in InTransaction => lock[day[r]] = r
         /\ pc[r] = "swap" => prev[r] = board[day[r]]
    /\ \A d \in Days : lock[d] # None => pc[lock[d]] \in InTransaction /\ day[lock[d]] = d

PostInv ==
    /\ \A d \in Days : \A r \in Posted(d) :
         /\ pc[r] \in {"cross", "finish", "failing"} \cup Ended
         /\ day[r] = d /\ cursor[r] = Len(WritePlan) /\ GatePassed(r)
         /\ status[r] \in {PublishStatus(r), "failed"}
    /\ \A r \in Runs :
         /\ pc[r] = "cross" => r \in Posted(day[r])
         /\ pc[r] = "finish" => decision[r] = "wait" \/ r \in Posted(day[r])
         /\ status[r] \in PublishedStatuses => r \in Posted(day[r])
         /\ status[r] = "waiting_upstream" => decision[r] = "wait"
    /\ \A d \in Days : board[d] # None =>
         board[d] \in Posted(d) /\ boardStatus[d] = PublishStatus(board[d])

JobInv ==
    \A r \in Runs : group[r] # Shell =>
        /\ pc[r] \notin Ended => ~stale[r]
        /\ pc[r] \in InGraph \cup InTransaction => status[r] \in OpenStatuses

IndInv == TypeOK /\ PhaseInv /\ LockInv /\ PostInv /\ HistoryChain /\ JobInv

\* Only a run's own exception handler takes its published status away: neither
\* the sweep nor another run does.
OnlyOwnHandlerUnpublishes ==
    [][\A r \in Runs :
        status[r] \in PublishedStatuses /\ status'[r] # status[r] => pc[r] = "failing"]_vars

\* Once the row of a scheduled run is closed, as failed or as waiting, nothing
\* reopens it: the sweep's ninety minutes are longer than a job's life.  (A run
\* started from a shell may be swept while it lives and then go on.)
ScheduledRunsStayClosed ==
    [][\A r \in Runs :
        group[r] # Shell /\ status[r] \in Statuses \ OpenStatuses
            => status'[r] \notin OpenStatuses]_vars

\* No row stays open for ever, wherever its process was killed: heartbeat and
\* sweep close it, even one a swept run opened again.
EventuallyClosed == <>[](\A r \in Runs : status[r] \notin OpenStatuses)

\* The abstract publication board, and the state of this module it stands for.
Posting == INSTANCE Publication WITH
    board <- board,
    past <- [d \in Days |-> [i \in DOMAIN history[d] |-> history[d][i].new]],
    whole <- {r \in Runs : Complete(r)}

\* However many runs race for a day, the tables behave as one atomic board.
ImplementsPublication == Posting!Spec

\* The life of a run, and the state of this module it stands for.
Phase(r) ==
    IF ~Exists(r) THEN "idle"
    ELSE IF pc[r] \in {"checking", "gate", "wait", "load", "validate", "persist"} THEN "open"
    ELSE IF pc[r] \in {"publish", "lock"} \cup InTransaction THEN "counted"
    ELSE "ended"

Life == INSTANCE RunLife WITH
    phase <- [r \in Runs |-> Phase(r)],
    day <- [r \in Runs |-> IF Exists(r) THEN day[r] ELSE None],
    past <- [d \in Days |-> [i \in DOMAIN history[d] |-> history[d][i].new]]

\* A run is what the archive job takes it for: it stores no row after its
\* comparison, publishes at most once and only then, and once the exception
\* handler, the sweep or a kill had it, it never comes back to write.
ImplementsRunLife == Life!Spec

(***************************************************************************)
(* Claims of the documentation that the program does not keep.             *)
(***************************************************************************)

\* tests/test_gates.py: a published run is not overwritten with failed later.
PublishedNeverFailed ==
    [][\A r \in Runs : status[r] \in PublishedStatuses => status'[r] # "failed"]_vars

\* .github/workflows/score.yml: no two runs work on the same day at once.
OneRunPerDay ==
    \A q, r \in Runs :
        q # r /\ Live(q) /\ Live(r) /\ group[q] # Shell /\ group[r] # Shell => day[q] # day[r]

============================================================================
