-------------------------- MODULE ScoreRunsProofs --------------------------
(***************************************************************************)
(* Machine-checked proofs about ScoreRuns, for any number of runs and days *)
(* and any order of chunks: its types, its safety invariants, and that its *)
(* tables implement the atomic board of Publication.                       *)
(***************************************************************************)
EXTENDS ScoreRuns, SequenceTheorems, TLAPS

USE DEF Tables, Chunks, OpenStatuses, PublishedStatuses, Statuses, Decisions,
        InGraph, InTransaction, Ended, PCs

\* The chunks written so far are chunks of the plan.
LEMMA PlanFacts ==
    /\ Len(WritePlan) \in Nat
    /\ Chunks = 1..Len(WritePlan)
BY WritePlanAssumption

\* Every step keeps every variable within its type.
LEMMA TypeStep == TypeOK /\ [Next]_vars => TypeOK'
<1> SUFFICES ASSUME TypeOK, [Next]_vars PROVE TypeOK'
    OBVIOUS
<1> USE NoneAssumption, GroupAssumption, PlanFacts DEF TypeOK
<1>1. ASSUME NEW r \in Runs, NEW d \in Days, NEW g \in Groups, Start(r, d, g) PROVE TypeOK'
    BY <1>1 DEF Start, Goto, boardVars
<1>2. ASSUME NEW r \in Runs, CreateRun(r) PROVE TypeOK'
    BY <1>2 DEF CreateRun, Goto, boardVars
<1>3. ASSUME NEW r \in Runs, MarkChecking(r) PROVE TypeOK'
    BY <1>3 DEF MarkChecking, Goto, UpdateRun, boardVars
<1>4. ASSUME NEW r \in Runs, Gate(r) PROVE TypeOK'
    BY <1>4 DEF Gate, Goto, runVars, boardVars
<1>5. ASSUME NEW r \in Runs, Wait(r) PROVE TypeOK'
    BY <1>5 DEF Wait, Goto, UpdateRun, boardVars
<1>6. ASSUME NEW r \in Runs, Load(r) PROVE TypeOK'
    BY <1>6 DEF Load, Goto, UpdateRun, boardVars
<1>7. ASSUME NEW r \in Runs, Validate(r) PROVE TypeOK'
    BY <1>7 DEF Validate, Goto, UpdateRun, boardVars
<1>8. ASSUME NEW r \in Runs, PersistChunk(r) PROVE TypeOK'
  <2>1. cursor[r] + 1 \in Chunks
      BY <1>8 DEF PersistChunk
  <2>2. rows' \in [Runs -> SUBSET Chunks] /\ cursor' \in [Runs -> 0..Len(WritePlan)]
      BY <1>8, <2>1 DEF PersistChunk
  <2> QED
      BY <1>8, <2>2 DEF PersistChunk, boardVars
<1>9. ASSUME NEW r \in Runs, CountRows(r) PROVE TypeOK'
    BY <1>9 DEF CountRows, Goto, runVars, boardVars
<1>10. ASSUME NEW r \in Runs, BeginPublish(r) PROVE TypeOK'
    BY <1>10 DEF BeginPublish, Goto, UpdateRun, boardVars
<1>11. ASSUME NEW r \in Runs, AcquireLock(r) PROVE TypeOK'
  <2>1. day[r] \in Days
      BY <1>11 DEF AcquireLock
  <2>2. lock' \in [Days -> Runs \cup {None}] /\ pc' \in [Runs -> PCs]
      BY <1>11, <2>1 DEF AcquireLock, Goto
  <2> QED
      BY <1>11, <2>2 DEF AcquireLock, Goto, runVars
<1>12. ASSUME NEW r \in Runs, ReadPrevious(r) PROVE TypeOK'
    BY <1>12 DEF ReadPrevious, Goto, runVars, boardVars
<1>13. ASSUME NEW r \in Runs, CommitPublish(r) PROVE TypeOK'
  <2>1. day[r] \in Days /\ prev[r] \in Runs \cup {None}
      BY <1>13 DEF CommitPublish
  <2>2. [old |-> prev[r], new |-> r] \in [old : Runs \cup {None}, new : Runs]
      BY <2>1
  <2>3. history' \in [Days -> Seq([old : Runs \cup {None}, new : Runs])]
    <3> DEFINE Entry == [old : Runs \cup {None}, new : Runs]
               x == [old |-> prev[r], new |-> r]
    <3>1. history \in [Days -> Seq(Entry)] /\ x \in Entry
        BY <2>2
    <3>2. Append(history[day[r]], x) \in Seq(Entry)
        BY <2>1, <3>1, AppendProperties
    <3>3. history' = [history EXCEPT ![day[r]] = Append(history[day[r]], x)]
        BY <1>13 DEF CommitPublish
    <3> HIDE DEF Entry, x
    <3> QED
        BY <2>1, <3>1, <3>2, <3>3 DEF Entry
  <2>4. /\ pc' \in [Runs -> PCs]
        /\ board' \in [Days -> Runs \cup {None}]
        /\ boardStatus' \in [Days -> PublishedStatuses \cup {None}]
        /\ status' \in [Runs -> Statuses \cup {None}]
        /\ lock' \in [Days -> Runs \cup {None}]
      BY <1>13, <2>1 DEF CommitPublish, Goto, Release, PublishStatus
  <2> QED
      BY <1>13, <2>3, <2>4 DEF CommitPublish, Goto
<1>14. ASSUME NEW r \in Runs, Cross(r) PROVE TypeOK'
    BY <1>14 DEF Cross, Goto, runVars, boardVars
<1>15. ASSUME NEW r \in Runs, Finish(r) PROVE TypeOK'
    BY <1>15 DEF Finish, Goto, UpdateRun, FinalStatus, PublishStatus, boardVars
<1>16. ASSUME NEW r \in Runs, RaiseEarly(r) \/ Raise(r) \/ Crash(r) PROVE TypeOK'
  <2>1. CASE RaiseEarly(r)
      BY <2>1 DEF RaiseEarly, Goto, runVars, boardVars
  <2>2. CASE Raise(r)
      BY <2>2 DEF Raise, Goto, Release, runVars
  <2>3. CASE Crash(r)
      BY <2>3 DEF Crash, Live, Goto, Release, runVars
  <2> QED
      BY <1>16, <2>1, <2>2, <2>3
<1>17. ASSUME NEW r \in Runs, HandleFailure(r) PROVE TypeOK'
    BY <1>17 DEF HandleFailure, Goto, UpdateRun, boardVars
<1>18. ASSUME NEW r \in Runs, Expire(r) PROVE TypeOK'
    BY <1>18 DEF Expire, procVars, boardVars
<1>19. CASE Sweep
    BY <1>19 DEF Sweep, procVars, boardVars
<1>20. CASE Rest \/ UNCHANGED vars
    BY <1>20 DEF Rest, vars, procVars, runVars, boardVars
<1> QED
    BY <1>1, <1>2, <1>3, <1>4, <1>5, <1>6, <1>7, <1>8, <1>9, <1>10, <1>11, <1>12, <1>13,
       <1>14, <1>15, <1>16, <1>17, <1>18, <1>19, <1>20 DEF Next, Step

\* The variables keep their types in every reachable state.
THEOREM TypeCorrect == Spec => []TypeOK
<1>1. Init => TypeOK
    BY PlanFacts DEF Init, TypeOK
<1> QED
    BY <1>1, TypeStep, PTL DEF Spec

----------------------------------------------------------------------------
\* What a program point knows of its run stays true.
LEMMA PhaseStep == TypeOK /\ PhaseInv /\ [Next]_vars => PhaseInv'
<1> SUFFICES ASSUME TypeOK, PhaseInv, [Next]_vars PROVE PhaseInv'
    OBVIOUS
<1> USE NoneAssumption, PlanFacts DEF TypeOK, PhaseInv, GatePassed
<1>1. ASSUME NEW r \in Runs, NEW d \in Days, NEW g \in Groups, Start(r, d, g) PROVE PhaseInv'
    BY <1>1 DEF Start, Goto
<1>2. ASSUME NEW r \in Runs, CreateRun(r) \/ MarkChecking(r) PROVE PhaseInv'
    BY <1>2 DEF CreateRun, MarkChecking, Goto, UpdateRun
<1>3. ASSUME NEW r \in Runs, Gate(r) PROVE PhaseInv'
    BY <1>3 DEF Gate, Goto, runVars
<1>4. ASSUME NEW r \in Runs, Wait(r) \/ Load(r) \/ Validate(r) PROVE PhaseInv'
    BY <1>4 DEF Wait, Load, Validate, Goto, UpdateRun
<1>5. ASSUME NEW r \in Runs, PersistChunk(r) PROVE PhaseInv'
  <2>1. rows'[r] = 1..cursor'[r]
      BY <1>5 DEF PersistChunk
  <2>2. \A q \in Runs \ {r} : rows'[q] = rows[q] /\ cursor'[q] = cursor[q]
      BY <1>5 DEF PersistChunk
  <2>3. decision' = decision /\ pc' = pc /\ UNCHANGED <<status, group>> /\ pc[r] = "persist" /\ GatePassed(r)
      BY <1>5 DEF PersistChunk
  <2> QED
      BY <2>1, <2>2, <2>3
<1>6. ASSUME NEW r \in Runs, CountRows(r) PROVE PhaseInv'
    BY <1>6 DEF CountRows, Goto, runVars
<1>7. ASSUME NEW r \in Runs, BeginPublish(r) PROVE PhaseInv'
    BY <1>7 DEF BeginPublish, Goto, UpdateRun
<1>8. ASSUME NEW r \in Runs, AcquireLock(r) \/ ReadPrevious(r) \/ CommitPublish(r) PROVE PhaseInv'
  <2>1. CASE AcquireLock(r)
      BY <2>1 DEF AcquireLock, Goto, runVars
  <2>2. CASE ReadPrevious(r)
      BY <2>2 DEF ReadPrevious, Goto, runVars
  <2>3. CASE CommitPublish(r)
      BY <2>3 DEF CommitPublish, Goto, PublishStatus
  <2> QED
      BY <1>8, <2>1, <2>2, <2>3
<1>9. ASSUME NEW r \in Runs, Cross(r) \/ Finish(r) PROVE PhaseInv'
  <2>1. CASE Cross(r)
      BY <2>1 DEF Cross, Goto, runVars
  <2>2. CASE Finish(r)
      BY <2>2 DEF Finish, Goto, UpdateRun
  <2> QED
      BY <1>9, <2>1, <2>2
<1>10. ASSUME NEW r \in Runs, RaiseEarly(r) \/ Raise(r) \/ HandleFailure(r) \/ Crash(r)
       PROVE  PhaseInv'
  <2>1. CASE RaiseEarly(r) \/ Raise(r)
      BY <2>1 DEF RaiseEarly, Raise, Goto, runVars
  <2>2. CASE HandleFailure(r)
      BY <2>2 DEF HandleFailure, Goto, UpdateRun
  <2>3. CASE Crash(r)
      BY <2>3 DEF Crash, Goto, runVars
  <2> QED
      BY <1>10, <2>1, <2>2, <2>3
<1>11. ASSUME NEW r \in Runs, Expire(r) PROVE PhaseInv'
    BY <1>11 DEF Expire, procVars
<1>12. CASE Sweep
    BY <1>12 DEF Sweep, procVars
<1>13. CASE Rest \/ UNCHANGED vars
    BY <1>13 DEF Rest, vars, procVars, runVars
<1> QED
    BY <1>1, <1>2, <1>3, <1>4, <1>5, <1>6, <1>7, <1>8, <1>9, <1>10, <1>11, <1>12, <1>13
    DEF Next, Step

\* The day's lock serves one transaction at a time, and shields what it read.
LEMMA LockStep == TypeOK /\ LockInv /\ [Next]_vars => LockInv'
<1> SUFFICES ASSUME TypeOK, LockInv, [Next]_vars PROVE LockInv'
    OBVIOUS
<1> USE NoneAssumption
<1>0. ASSUME NEW r \in Runs, NEW l \in PCs, pc[r] \notin InTransaction, l \notin InTransaction,
             pc' = [pc EXCEPT ![r] = l], UNCHANGED <<day, prev, board, lock>>
      PROVE  LockInv'
    BY <1>0 DEF TypeOK, LockInv
<1>1. ASSUME NEW r \in Runs, NEW d \in Days, NEW g \in Groups, Start(r, d, g) PROVE LockInv'
    BY <1>1 DEF Start, Goto, boardVars, TypeOK, LockInv
<1>2. ASSUME NEW r \in Runs, CreateRun(r) \/ MarkChecking(r) PROVE LockInv'
    BY <1>0, <1>2 DEF CreateRun, MarkChecking, Goto, boardVars
<1>3. ASSUME NEW r \in Runs, Gate(r) PROVE LockInv'
    BY <1>0, <1>3 DEF Gate, Goto, runVars, boardVars
<1>4. ASSUME NEW r \in Runs, Wait(r) \/ Load(r) \/ Validate(r) PROVE LockInv'
    BY <1>0, <1>4 DEF Wait, Load, Validate, Goto, boardVars
<1>5. ASSUME NEW r \in Runs, PersistChunk(r) \/ CountRows(r) \/ BeginPublish(r) PROVE LockInv'
  <2>1. CASE PersistChunk(r)
      BY <2>1 DEF PersistChunk, boardVars, LockInv
  <2>2. CASE CountRows(r)
    <3>1. PICK l \in {"publish", "failing"} : pc' = [pc EXCEPT ![r] = l]
        BY <2>2 DEF CountRows, Goto
    <3> QED
        BY <1>0, <2>2, <3>1 DEF CountRows, runVars, boardVars
  <2>3. CASE BeginPublish(r)
      BY <1>0, <2>3 DEF BeginPublish, Goto, boardVars
  <2> QED
      BY <1>5, <2>1, <2>2, <2>3
<1>6. ASSUME NEW r \in Runs, AcquireLock(r) PROVE LockInv'
    BY <1>6 DEF AcquireLock, Goto, runVars, TypeOK, LockInv
<1>7. ASSUME NEW r \in Runs, ReadPrevious(r) PROVE LockInv'
    BY <1>7 DEF ReadPrevious, Goto, runVars, boardVars, TypeOK, LockInv
<1>8. ASSUME NEW r \in Runs, CommitPublish(r) PROVE LockInv'
    BY <1>8 DEF CommitPublish, Goto, Release, TypeOK, LockInv
<1>9. ASSUME NEW r \in Runs, Cross(r) \/ Finish(r) \/ RaiseEarly(r) \/ HandleFailure(r)
      PROVE  LockInv'
    BY <1>0, <1>9 DEF Cross, Finish, RaiseEarly, HandleFailure, Goto, runVars, boardVars
<1>10. ASSUME NEW r \in Runs, Raise(r) PROVE LockInv'
    BY <1>10 DEF Raise, Goto, Release, runVars, TypeOK, LockInv
<1>11. ASSUME NEW r \in Runs, Crash(r) PROVE LockInv'
    BY <1>11 DEF Crash, Goto, Release, runVars, TypeOK, LockInv
<1>12. ASSUME NEW r \in Runs, Expire(r) PROVE LockInv'
    BY <1>12 DEF Expire, procVars, boardVars, TypeOK, LockInv
<1>13. CASE Sweep \/ Rest \/ UNCHANGED vars
    BY <1>13 DEF Sweep, Rest, vars, procVars, runVars, boardVars, TypeOK, LockInv
<1> QED
    BY <1>1, <1>2, <1>3, <1>4, <1>5, <1>6, <1>7, <1>8, <1>9, <1>10, <1>11, <1>12, <1>13
    DEF Next, Step

----------------------------------------------------------------------------
\* Where a run that is in the history may be.
After == {"cross", "finish", "failing"} \cup Ended

\* The history names runs.
LEMMA PostedRuns == TypeOK => \A d \in Days : Posted(d) \subseteq Runs
<1> SUFFICES ASSUME TypeOK, NEW d \in Days PROVE Posted(d) \subseteq Runs
    OBVIOUS
<1> DEFINE Entry == [old : Runs \cup {None}, new : Runs]
<1>1. history[d] \in Seq(Entry)
    BY DEF TypeOK
<1>2. \A i \in DOMAIN history[d] : history[d][i] \in Entry
  <2> HIDE DEF Entry
  <2> QED
      BY <1>1, ElementOfSeq, LenProperties
<1> QED
    BY <1>2 DEF Posted

\* A step of run r that leaves publications and history alone keeps PostInv,
\* if what it does to r does.
LEMMA PostQuiet ==
    ASSUME TypeOK, PostInv, NEW r \in Runs,
           UNCHANGED <<board, boardStatus, history>>,
           \A q \in Runs \ {r} : /\ pc'[q] = pc[q] /\ day'[q] = day[q] /\ cursor'[q] = cursor[q]
                                 /\ decision'[q] = decision[q] /\ status'[q] = status[q],
           \A d \in Days : r \in Posted(d) =>
               /\ pc'[r] \in After /\ day'[r] = day[r] /\ cursor'[r] = cursor[r]
               /\ decision'[r] = decision[r] /\ status'[r] \in {PublishStatus(r), "failed"},
           pc'[r] # "cross",
           pc'[r] = "finish" =>
               decision'[r] = "wait" \/ (r \in Posted(day[r]) /\ day'[r] = day[r]),
           status'[r] \in PublishedStatuses => r \in Posted(day[r]) /\ day'[r] = day[r],
           status'[r] = "waiting_upstream" => decision'[r] = "wait"
    PROVE  PostInv'
<1>1. \A d : Posted(d)' = Posted(d)
    BY DEF Posted
<1>2. \A d \in Days : Posted(d) \subseteq Runs
    BY PostedRuns
<1>3. ASSUME NEW d \in Days, NEW q \in Posted(d)'
      PROVE  /\ pc'[q] \in After /\ day'[q] = d /\ cursor'[q] = Len(WritePlan) /\ GatePassed(q)'
             /\ status'[q] \in {PublishStatus(q)', "failed"} /\ PublishStatus(q)' = PublishStatus(q)
  <2>1. q \in Posted(d) /\ q \in Runs
      BY <1>1, <1>2, <1>3
  <2>2. CASE q = r
      BY <2>1, <2>2 DEF PostInv, After, GatePassed, PublishStatus
  <2>3. CASE q # r
      BY <2>1, <2>3 DEF PostInv, After, GatePassed, PublishStatus
  <2> QED
      BY <2>2, <2>3
<1>4. ASSUME NEW q \in Runs
      PROVE  /\ pc'[q] = "cross" => (q \in Posted(day[q]))'
             /\ pc'[q] = "finish" => decision'[q] = "wait" \/ (q \in Posted(day[q]))'
             /\ status'[q] \in PublishedStatuses => (q \in Posted(day[q]))'
             /\ status'[q] = "waiting_upstream" => decision'[q] = "wait"
  <2>1. (q \in Posted(day[q]))' <=> q \in Posted(day'[q])
      BY DEF Posted
  <2>2. CASE q = r
      BY <2>1, <2>2
  <2>3. CASE q # r
      BY <2>1, <2>3 DEF PostInv
  <2> QED
      BY <2>2, <2>3
<1>5. ASSUME NEW d \in Days, board'[d] # None
      PROVE  (board[d] \in Posted(d) /\ boardStatus[d] = PublishStatus(board[d]))'
  <2>1. board[d] \in Posted(d) /\ boardStatus[d] = PublishStatus(board[d]) /\ board[d] \in Runs
      BY <1>5 DEF PostInv, TypeOK
  <2>2. decision'[board[d]] = decision[board[d]]
      BY <2>1
  <2> QED
      BY <1>1, <2>1, <2>2 DEF PublishStatus
<1> QED
    BY <1>3, <1>4, <1>5 DEF PostInv, After

\* The publishing transaction adds its run to its day's history, and nothing else.
LEMMA PostedAppend ==
    ASSUME TypeOK, NEW r \in Runs, CommitPublish(r)
    PROVE  \A d \in Days : Posted(d)' = IF d = day[r] THEN Posted(d) \cup {r} ELSE Posted(d)
<1> DEFINE Entry == [old : Runs \cup {None}, new : Runs]
           x == [old |-> prev[r], new |-> r]
<1>1. day[r] \in Days /\ prev[r] \in Runs \cup {None}
    BY DEF TypeOK, CommitPublish
<1>2. history \in [Days -> Seq(Entry)] /\ x \in Entry /\ x.new = r
    BY <1>1 DEF TypeOK
<1>3. history' = [history EXCEPT ![day[r]] = Append(history[day[r]], x)]
    BY DEF CommitPublish
<1> HIDE DEF Entry, x
<1>4. /\ DOMAIN history[day[r]] = 1..Len(history[day[r]])
      /\ Len(history[day[r]]) \in Nat
      /\ DOMAIN Append(history[day[r]], x) = 1..(Len(history[day[r]]) + 1)
    BY <1>1, <1>2, AppendProperties, LenProperties
<1>5. /\ \A i \in 1..Len(history[day[r]]) : Append(history[day[r]], x)[i] = history[day[r]][i]
      /\ Append(history[day[r]], x)[Len(history[day[r]]) + 1] = x
    BY <1>1, <1>2, AppendProperties
<1>6. Posted(day[r])' = Posted(day[r]) \cup {r}
  <2>1. history'[day[r]] = Append(history[day[r]], x)
      BY <1>1, <1>2, <1>3
  <2>2. {Append(history[day[r]], x)[i].new : i \in 1..(Len(history[day[r]]) + 1)}
            = {history[day[r]][i].new : i \in 1..Len(history[day[r]])} \cup {r}
      BY <1>2, <1>4, <1>5
  <2>3. (\A d \in Days : Posted(d) = {history[d][i].new : i \in DOMAIN history[d]})'
      BY DEF Posted
  <2>4. Posted(day[r])' = {Append(history[day[r]], x)[i].new : i \in 1..(Len(history[day[r]]) + 1)}
      BY <1>1, <1>4, <2>1, <2>3 DEF CommitPublish
  <2> QED
      BY <1>4, <2>2, <2>4 DEF Posted
<1>7. ASSUME NEW d \in Days, d # day[r] PROVE Posted(d)' = Posted(d)
    BY <1>1, <1>2, <1>3, <1>7 DEF Posted
<1>8. (\A d \in Days : d = day[r] => Posted(d) = Posted(day[r]))'
    OBVIOUS
<1> QED
    BY <1>6, <1>7, <1>8 DEF CommitPublish

\* A program that is not past its publication is not in the history.
LEMMA NotPosted ==
    ASSUME TypeOK, PostInv, NEW r \in Runs, pc[r] \notin After
    PROVE  /\ \A d \in Days : r \notin Posted(d)
           /\ pc[r] # "idle" => status[r] \notin PublishedStatuses
<1>1. \A d \in Days : r \notin Posted(d)
    BY DEF PostInv, After
<1>2. ASSUME pc[r] # "idle", status[r] \in PublishedStatuses PROVE FALSE
    BY <1>1, <1>2 DEF PostInv, TypeOK
<1> QED
    BY <1>1, <1>2

\* Pointer, history and status keep agreeing.
LEMMA PostStep == TypeOK /\ PhaseInv /\ PostInv /\ [Next]_vars => PostInv'
<1> SUFFICES ASSUME TypeOK, PhaseInv, PostInv, [Next]_vars PROVE PostInv'
    OBVIOUS
<1> USE NoneAssumption
<1>0. ASSUME NEW r \in Runs, pc[r] \notin After, UNCHANGED <<board, boardStatus, history>>,
             \A q \in Runs \ {r} :
                /\ pc'[q] = pc[q] /\ day'[q] = day[q] /\ cursor'[q] = cursor[q]
                /\ decision'[q] = decision[q] /\ status'[q] = status[q],
             pc'[r] # "cross", pc'[r] = "finish" => decision'[r] = "wait",
             status'[r] \notin PublishedStatuses,
             status'[r] = "waiting_upstream" => decision'[r] = "wait"
      PROVE  PostInv'
    BY <1>0, PostQuiet, NotPosted
<1>1. ASSUME NEW r \in Runs, NEW d \in Days, NEW g \in Groups, Start(r, d, g) PROVE PostInv'
  <2>1. pc[r] = "idle" /\ status[r] = None /\ pc'[r] = "create" /\ status' = status
      BY <1>1 DEF Start, Goto, TypeOK, PhaseInv
  <2>2. /\ UNCHANGED <<board, boardStatus, history, cursor, decision>>
        /\ \A q \in Runs \ {r} : pc'[q] = pc[q] /\ day'[q] = day[q]
      BY <1>1 DEF Start, Goto, TypeOK, boardVars
  <2> QED
      BY <1>0, <2>1, <2>2 DEF After
<1>2. ASSUME NEW r \in Runs, CreateRun(r) \/ MarkChecking(r) \/ Load(r) \/ Validate(r)
                             \/ BeginPublish(r)
      PROVE  PostInv'
  <2>1. /\ pc[r] \notin After /\ pc'[r] \notin {"cross", "finish"}
        /\ status'[r] \in OpenStatuses
        /\ UNCHANGED <<board, boardStatus, history, cursor, decision, day>>
        /\ \A q \in Runs \ {r} : pc'[q] = pc[q] /\ status'[q] = status[q]
      BY <1>2 DEF CreateRun, MarkChecking, Load, Validate, BeginPublish, Goto, UpdateRun, TypeOK,
                  boardVars, After
  <2> QED
      BY <1>0, <2>1
<1>3. ASSUME NEW r \in Runs, Gate(r) PROVE PostInv'
  <2>1. /\ pc[r] = "gate" /\ pc'[r] \in {"wait", "load"}
        /\ UNCHANGED <<board, boardStatus, history, cursor, status, day>>
        /\ \A q \in Runs \ {r} : pc'[q] = pc[q] /\ decision'[q] = decision[q]
      BY <1>3 DEF Gate, Goto, TypeOK, runVars, boardVars
  <2>2. status[r] \notin PublishedStatuses /\ status[r] # "waiting_upstream"
      BY <2>1, NotPosted DEF PostInv, PhaseInv, After
  <2> QED
      BY <1>0, <2>1, <2>2 DEF After
<1>4. ASSUME NEW r \in Runs, Wait(r) PROVE PostInv'
  <2>1. /\ pc[r] = "wait" /\ pc'[r] = "finish" /\ status'[r] = "waiting_upstream"
        /\ UNCHANGED <<board, boardStatus, history, cursor, decision, day>>
        /\ \A q \in Runs \ {r} : pc'[q] = pc[q] /\ status'[q] = status[q]
      BY <1>4 DEF Wait, Goto, UpdateRun, TypeOK, boardVars
  <2>2. decision[r] = "wait"
      BY <2>1 DEF PhaseInv
  <2> QED
      BY <1>0, <2>1, <2>2 DEF After
<1>5. ASSUME NEW r \in Runs, pc[r] \notin After,
             \/ PersistChunk(r) \/ CountRows(r) \/ AcquireLock(r) \/ ReadPrevious(r)
             \/ RaiseEarly(r) \/ Raise(r) \/ Crash(r)
      PROVE  PostInv'
  <2>1. /\ pc'[r] \notin {"cross", "finish"}
        /\ UNCHANGED <<board, boardStatus, history, decision, status, day>>
        /\ \A q \in Runs \ {r} : pc'[q] = pc[q] /\ cursor'[q] = cursor[q]
    <3>1. CASE PersistChunk(r)
        BY <3>1 DEF PersistChunk, TypeOK, boardVars
    <3>2. CASE CountRows(r)
      <4>1. PICK l \in {"publish", "failing"} : pc' = [pc EXCEPT ![r] = l]
          BY <3>2 DEF CountRows, Goto
      <4> QED
          BY <3>2, <4>1 DEF CountRows, TypeOK, runVars, boardVars
    <3>3. CASE AcquireLock(r)
        BY <3>3 DEF AcquireLock, Goto, TypeOK, runVars
    <3>4. CASE ReadPrevious(r)
        BY <3>4 DEF ReadPrevious, Goto, TypeOK, runVars, boardVars
    <3>5. CASE RaiseEarly(r) \/ Raise(r) \/ Crash(r)
        BY <3>5 DEF RaiseEarly, Raise, Crash, Goto, TypeOK, runVars, boardVars
    <3> QED
        BY <1>5, <3>1, <3>2, <3>3, <3>4, <3>5
  <2>2. status[r] \notin PublishedStatuses
    <3>1. pc[r] # "idle"
        BY <1>5 DEF PersistChunk, CountRows, AcquireLock, ReadPrevious, RaiseEarly, Raise, Crash, Live
    <3> QED
        BY <1>5, <3>1, NotPosted
  <2> QED
      BY <1>0, <1>5, <2>1, <2>2 DEF PostInv
<1>6. ASSUME NEW r \in Runs, CommitPublish(r) PROVE PostInv'
  <2>1. /\ pc[r] = "swap" /\ day[r] \in Days /\ GatePassed(r) /\ cursor[r] = Len(WritePlan)
        /\ \A d \in Days : r \notin Posted(d)
      BY <1>6, NotPosted DEF CommitPublish, TypeOK, PhaseInv, After
  <2>2. /\ UNCHANGED <<day, cursor, decision>>
        /\ pc' = [pc EXCEPT ![r] = "cross"] /\ status' = [status EXCEPT ![r] = PublishStatus(r)]
        /\ board' = [board EXCEPT ![day[r]] = r]
        /\ boardStatus' = [boardStatus EXCEPT ![day[r]] = PublishStatus(r)]
      BY <1>6 DEF CommitPublish, Goto
  <2>3. \A d \in Days : Posted(d)' = IF d = day[r] THEN Posted(d) \cup {r} ELSE Posted(d)
      BY <1>6, PostedAppend
  <2>4. ASSUME NEW d \in Days, NEW q \in Posted(d)'
        PROVE  /\ pc'[q] \in After /\ day'[q] = d /\ cursor'[q] = Len(WritePlan)
               /\ GatePassed(q)' /\ status'[q] \in {PublishStatus(q)', "failed"}
    <3>1. CASE q = r
      <4>1. d = day[r]
          BY <2>1, <2>3, <2>4, <3>1
      <4> QED
          BY <2>1, <2>2, <3>1, <4>1 DEF TypeOK, After, GatePassed, PublishStatus
    <3>2. CASE q # r
      <4>1. q \in Posted(d) /\ q \in Runs
          BY <2>3, <2>4, <3>2, PostedRuns
      <4> QED
          BY <2>2, <3>2, <4>1 DEF TypeOK, PostInv, After, GatePassed, PublishStatus
    <3> QED
        BY <3>1, <3>2
  <2>5. ASSUME NEW q \in Runs
        PROVE  /\ pc'[q] = "cross" => (q \in Posted(day[q]))'
               /\ pc'[q] = "finish" => decision'[q] = "wait" \/ (q \in Posted(day[q]))'
               /\ status'[q] \in PublishedStatuses => (q \in Posted(day[q]))'
               /\ status'[q] = "waiting_upstream" => decision'[q] = "wait"
    <3>1. (q \in Posted(day[q]))' <=> q \in {history'[day[q]][i].new : i \in DOMAIN history'[day[q]]}
        BY <2>2 DEF Posted
    <3>2. ASSUME day[q] \in Days
          PROVE  Posted(day[q])' = IF day[q] = day[r] THEN Posted(day[q]) \cup {r} ELSE Posted(day[q])
        BY <2>2, <2>3, <3>2
    <3>3. CASE q = r
        BY <2>1, <2>2, <3>2, <3>3 DEF TypeOK, PublishStatus
    <3>4. CASE q # r /\ day[q] \in Days
        BY <2>2, <3>2, <3>4 DEF TypeOK, PostInv
    <3>5. CASE q # r /\ day[q] \notin Days
      <4>1. pc[q] = "idle" /\ status[q] = None
          BY <3>5 DEF TypeOK, PhaseInv
      <4> QED
          BY <2>2, <3>5, <4>1 DEF TypeOK
    <3> QED
        BY <3>3, <3>4, <3>5
  <2>6. ASSUME NEW d \in Days, board'[d] # None
        PROVE  (board[d] \in Posted(d) /\ boardStatus[d] = PublishStatus(board[d]))'
    <3>1. CASE d = day[r]
        BY <2>1, <2>2, <2>3, <3>1 DEF TypeOK, PublishStatus
    <3>2. CASE d # day[r]
        BY <2>1, <2>2, <2>3, <2>6, <3>2 DEF TypeOK, PostInv, PublishStatus
    <3> QED
        BY <3>1, <3>2
  <2> QED
      BY <2>4, <2>5, <2>6 DEF PostInv, After
<1>7. ASSUME NEW r \in Runs, pc[r] \in After,
             Cross(r) \/ Finish(r) \/ Raise(r) \/ HandleFailure(r) \/ Crash(r)
      PROVE  PostInv'
  <2>1. /\ pc'[r] \in After \ {"cross"}
        /\ pc'[r] = "finish" => pc[r] = "cross"
        /\ UNCHANGED <<board, boardStatus, history, decision, cursor, day>>
        /\ \A q \in Runs \ {r} : pc'[q] = pc[q] /\ status'[q] = status[q]
        /\ status'[r] \in {status[r], "failed"} \/ (pc[r] = "finish" /\ status'[r] = FinalStatus(r))
    <3>1. CASE Cross(r) \/ Raise(r) \/ Crash(r)
        BY <3>1 DEF Cross, Raise, Crash, Goto, TypeOK, After, runVars, boardVars
    <3>2. CASE Finish(r) \/ HandleFailure(r)
        BY <3>2 DEF Finish, HandleFailure, Goto, UpdateRun, TypeOK, After, boardVars
    <3> QED
        BY <1>7, <3>1, <3>2
  <2>2. day[r] \in Days
      BY <1>7 DEF TypeOK, After
  <2>3. \A d \in Days : r \in Posted(d) => GatePassed(r) /\ status[r] \in {PublishStatus(r), "failed"}
      BY DEF PostInv
  <2>4. pc[r] = "finish" => decision[r] = "wait" \/ r \in Posted(day[r])
      BY DEF PostInv
  <2>5. \A d \in Days : r \in Posted(d) => status'[r] \in {PublishStatus(r), "failed"}
      BY <2>1, <2>3 DEF FinalStatus, GatePassed
  <2>6. status'[r] \in PublishedStatuses => r \in Posted(day[r])
      BY <2>1, <2>4 DEF PostInv, FinalStatus
  <2>7. status'[r] = "waiting_upstream" => decision'[r] = "wait"
      BY <2>1 DEF PostInv, FinalStatus, PublishStatus
  <2>8. pc'[r] = "finish" => r \in Posted(day[r])
      BY <2>1 DEF PostInv
  <2> QED
      BY <2>1, <2>2, <2>5, <2>6, <2>7, <2>8, PostQuiet
<1>8. CASE Sweep \/ (\E r \in Runs : Expire(r)) \/ Rest \/ UNCHANGED vars
  <2>1. /\ UNCHANGED <<pc, board, boardStatus, history, decision, cursor, day>>
        /\ \A q \in Runs : status'[q] = status[q] \/ (status[q] \in OpenStatuses /\ status'[q] = "failed")
      BY <1>8 DEF Sweep, Expire, Rest, vars, procVars, runVars, boardVars
  <2>2. \A d : Posted(d)' = Posted(d)
      BY <2>1 DEF Posted
  <2> QED
      BY <2>1, <2>2, PostedRuns DEF PostInv, PublishStatus, GatePassed
<1> QED
    BY <1>1, <1>2, <1>3, <1>4, <1>5, <1>6, <1>7, <1>8 DEF Next, Step, After,
       PersistChunk, CountRows, AcquireLock, ReadPrevious, RaiseEarly, Cross, Finish, HandleFailure

----------------------------------------------------------------------------
\* The history stays a chain that ends at the pointer: what the transaction
\* names as previous run is still the pointer when it commits.
LEMMA ChainStep == TypeOK /\ LockInv /\ HistoryChain /\ [Next]_vars => HistoryChain'
<1> SUFFICES ASSUME TypeOK, LockInv, HistoryChain, [Next]_vars PROVE HistoryChain'
    OBVIOUS
<1> DEFINE Entry == [old : Runs \cup {None}, new : Runs]
<1>1. CASE \E r \in Runs : CommitPublish(r)
  <2>1. PICK r \in Runs : CommitPublish(r)
      BY <1>1
  <2> DEFINE D == day[r]
             h == history[D]
             x == [old |-> prev[r], new |-> r]
  <2>2. D \in Days /\ prev[r] = board[D] /\ board[D] \in Runs \cup {None}
      BY <2>1 DEF CommitPublish, TypeOK, LockInv
  <2>3. h \in Seq(Entry) /\ x \in Entry /\ x.new = r /\ x.old = board[D]
      BY <2>2 DEF TypeOK
  <2>4. history' = [history EXCEPT ![D] = Append(h, x)] /\ board' = [board EXCEPT ![D] = r]
      BY <2>1 DEF CommitPublish
  <2>5. /\ history'[D] = Append(h, x) /\ board'[D] = r
        /\ \A d \in Days \ {D} : history'[d] = history[d] /\ board'[d] = board[d]
      BY <2>2, <2>4 DEF TypeOK
  <2>6. /\ \A i \in DOMAIN h : h[i].old = IF i = 1 THEN None ELSE h[i - 1].new
        /\ board[D] = IF h = <<>> THEN None ELSE h[Len(h)].new
      BY <2>2 DEF HistoryChain
  <2> HIDE DEF Entry, D, h, x
  <2>7. /\ Len(h) \in Nat /\ DOMAIN h = 1..Len(h) /\ (h = <<>> <=> Len(h) = 0)
        /\ Append(h, x) # <<>> /\ Len(Append(h, x)) = Len(h) + 1
        /\ DOMAIN Append(h, x) = 1..(Len(h) + 1)
        /\ \A i \in 1..Len(h) : Append(h, x)[i] = h[i]
        /\ Append(h, x)[Len(h) + 1] = x
      BY <2>3, AppendProperties, LenProperties, EmptySeq
  <2>8. ASSUME NEW i \in DOMAIN Append(h, x)
        PROVE  Append(h, x)[i].old = IF i = 1 THEN None ELSE Append(h, x)[i - 1].new
    <3>1. CASE i \in 1..Len(h)
        BY <2>6, <2>7, <3>1
    <3>2. CASE i = Len(h) + 1
      <4>1. Append(h, x)[i].old = board[D]
          BY <2>3, <2>7, <3>2
      <4>2. CASE Len(h) = 0
          BY <2>6, <2>7, <3>2, <4>1, <4>2
      <4>3. CASE Len(h) # 0
        <5>1. i # 1 /\ Append(h, x)[i - 1] = h[Len(h)]
          <6>1. i - 1 = Len(h) /\ Len(h) \in 1..Len(h) /\ i # 1
              BY <2>7, <3>2, <4>3
          <6> QED
              BY <2>7, <6>1
        <5> QED
            BY <2>6, <2>7, <4>1, <4>3, <5>1
      <4> QED
          BY <4>2, <4>3
    <3> QED
        BY <2>7, <2>8, <3>1, <3>2
  <2>9. \A d \in Days \ {D} :
          /\ \A i \in DOMAIN history'[d] :
               history'[d][i].old = IF i = 1 THEN None ELSE history'[d][i - 1].new
          /\ board'[d] = IF history'[d] = <<>> THEN None ELSE history'[d][Len(history'[d])].new
      BY <2>5 DEF HistoryChain
  <2>10. /\ \A i \in DOMAIN history'[D] :
               history'[D][i].old = IF i = 1 THEN None ELSE history'[D][i - 1].new
         /\ board'[D] = IF history'[D] = <<>> THEN None ELSE history'[D][Len(history'[D])].new
      BY <2>3, <2>5, <2>7, <2>8
  <2> QED
      BY <2>9, <2>10 DEF HistoryChain
<1>2. CASE UNCHANGED <<board, history>>
    BY <1>2 DEF HistoryChain
<1>3. (\E r \in Runs : CommitPublish(r)) \/ UNCHANGED <<board, history>>
    BY DEF Next, Step, Start, CreateRun, MarkChecking, Gate, Wait, Load, Validate, PersistChunk,
           CountRows, BeginPublish, AcquireLock, ReadPrevious, Cross, Finish, RaiseEarly, Raise,
           HandleFailure, Crash, Expire, Sweep, Rest, vars, procVars, runVars, boardVars
<1> QED
    BY <1>1, <1>2, <1>3

\* A job's heartbeat does not expire while the job lives, so no sweep meets it.
LEMMA JobStep == TypeOK /\ PhaseInv /\ JobInv /\ [Next]_vars => JobInv'
<1> SUFFICES ASSUME TypeOK, PhaseInv, JobInv, [Next]_vars, NEW q \in Runs, group'[q] # Shell
             PROVE  /\ pc'[q] \notin Ended => ~stale'[q]
                    /\ pc'[q] \in InGraph \cup InTransaction => status'[q] \in OpenStatuses
    BY DEF JobInv
<1> USE NoneAssumption, GroupAssumption DEF TypeOK
<1>0. group[q] # Shell =>
        /\ pc[q] \notin Ended => ~stale[q]
        /\ pc[q] \in InGraph \cup InTransaction => status[q] \in OpenStatuses
    BY DEF JobInv
<1>1. ASSUME NEW r \in Runs, NEW d \in Days, NEW g \in Groups, Start(r, d, g)
      PROVE  /\ pc'[q] \notin Ended => ~stale'[q]
             /\ pc'[q] \in InGraph \cup InTransaction => status'[q] \in OpenStatuses
  <2>1. pc[r] = "idle" => group[r] = None
      BY DEF PhaseInv
  <2> QED
      BY <1>0, <1>1, <2>1 DEF Start, Goto
<1>2. ASSUME NEW r \in Runs, Step(r) \/ Crash(r)
      PROVE  /\ pc'[q] \notin Ended => ~stale'[q]
             /\ pc'[q] \in InGraph \cup InTransaction => status'[q] \in OpenStatuses
  <2>1. CASE CreateRun(r) \/ MarkChecking(r) \/ Wait(r) \/ Load(r) \/ Validate(r) \/ BeginPublish(r)
      BY <1>0, <2>1 DEF CreateRun, MarkChecking, Wait, Load, Validate, BeginPublish, Goto, UpdateRun
  <2>2. CASE Gate(r)
      BY <1>0, <2>2 DEF Gate, Goto, runVars
  <2>3. CASE PersistChunk(r)
      BY <1>0, <2>3 DEF PersistChunk
  <2>4. CASE CountRows(r)
    <3>1. PICK l \in {"publish", "failing"} : pc' = [pc EXCEPT ![r] = l]
        BY <2>4 DEF CountRows, Goto
    <3> QED
        BY <1>0, <2>4, <3>1 DEF CountRows, runVars
  <2>5. CASE AcquireLock(r) \/ ReadPrevious(r)
      BY <1>0, <2>5 DEF AcquireLock, ReadPrevious, Goto, runVars
  <2>6. CASE CommitPublish(r)
      BY <1>0, <2>6 DEF CommitPublish, Goto
  <2>7. CASE Cross(r) \/ RaiseEarly(r) \/ Raise(r) \/ Crash(r)
      BY <1>0, <2>7 DEF Cross, RaiseEarly, Raise, Crash, Goto, runVars
  <2>8. CASE Finish(r) \/ HandleFailure(r)
      BY <1>0, <2>8 DEF Finish, HandleFailure, Goto, UpdateRun
  <2> QED
      BY <1>2, <2>1, <2>2, <2>3, <2>4, <2>5, <2>6, <2>7, <2>8 DEF Step
<1>3. ASSUME NEW r \in Runs, Expire(r)
      PROVE  /\ pc'[q] \notin Ended => ~stale'[q]
             /\ pc'[q] \in InGraph \cup InTransaction => status'[q] \in OpenStatuses
    BY <1>0, <1>3 DEF Expire, procVars
<1>4. CASE Sweep
    BY <1>0, <1>4 DEF Sweep, procVars
<1>5. CASE Rest \/ UNCHANGED vars
    BY <1>0, <1>5 DEF Rest, vars, procVars, runVars
<1> QED
    BY <1>1, <1>2, <1>3, <1>4, <1>5 DEF Next

\* The inductive invariant holds in every reachable state.
THEOREM Invariance == Spec => []IndInv
<1>1. Init => IndInv
  <2> SUFFICES ASSUME Init PROVE IndInv
      OBVIOUS
  <2>1. TypeOK
      BY PlanFacts DEF Init, TypeOK
  <2>2. PhaseInv
      BY NoneAssumption DEF Init, PhaseInv
  <2>3. LockInv
      BY DEF Init, LockInv
  <2>4. \A d \in Days : history[d] = <<>> /\ Posted(d) = {}
      BY DEF Init, Posted
  <2>5. PostInv
      BY <2>4, NoneAssumption DEF Init, PostInv
  <2>6. HistoryChain
      BY <2>4 DEF Init, HistoryChain
  <2>7. JobInv
      BY DEF Init, JobInv
  <2> QED
      BY <2>1, <2>2, <2>3, <2>5, <2>6, <2>7 DEF IndInv
<1>2. IndInv /\ [Next]_vars => IndInv'
    BY TypeStep, PhaseStep, LockStep, PostStep, ChainStep, JobStep DEF IndInv
<1> QED
    BY <1>1, <1>2, PTL DEF Spec

\* Readers are sent to complete, vetted runs of the right day only.
THEOREM PublicationsAreComplete == Spec => []PublishedComplete
<1>1. IndInv => PublishedComplete
  <2> SUFFICES ASSUME IndInv, NEW d \in Days, board[d] # None
               PROVE  /\ day[board[d]] = d
                      /\ Complete(board[d])
                      /\ decision[board[d]] \in {"publish", "publish_degraded"}
                      /\ boardStatus[d] = PublishStatus(board[d])
      BY DEF PublishedComplete
  <2>1. board[d] \in Posted(d) /\ board[d] \in Runs /\ boardStatus[d] = PublishStatus(board[d])
      BY DEF IndInv, PostInv, TypeOK
  <2>2. day[board[d]] = d /\ cursor[board[d]] = Len(WritePlan) /\ GatePassed(board[d])
      BY <2>1 DEF IndInv, PostInv
  <2>3. rows[board[d]] = Chunks
      BY <2>1, <2>2, PlanFacts DEF IndInv, PhaseInv
  <2> QED
      BY <2>1, <2>2, <2>3 DEF Complete, GatePassed
<1> QED
    BY <1>1, Invariance, PTL

\* The history is a chain whatever runs race for the day.
THEOREM HistoryIsAChain == Spec => []HistoryChain
BY Invariance, PTL DEF IndInv

\* A row's status can be believed.
THEOREM StatusIsTrue == Spec => []StatusTellsTruth
<1>1. IndInv => StatusTellsTruth
  <2> SUFFICES ASSUME IndInv, NEW r \in Runs
               PROVE  /\ status[r] \in PublishedStatuses =>
                            r \in Posted(day[r]) /\ status[r] = PublishStatus(r)
                      /\ \A d \in Days : r \in Posted(d) => status[r] \in {PublishStatus(r), "failed"}
                      /\ status[r] = "waiting_upstream" => rows[r] = {}
      BY DEF StatusTellsTruth
  <2>1. \A d \in Days : r \in Posted(d) => status[r] \in {PublishStatus(r), "failed"}
      BY DEF IndInv, PostInv
  <2>2. ASSUME status[r] \in PublishedStatuses
        PROVE  r \in Posted(day[r]) /\ status[r] = PublishStatus(r)
    <3>1. r \in Posted(day[r])
        BY <2>2 DEF IndInv, PostInv
    <3>2. day[r] \in Days
        BY <2>2, NoneAssumption DEF IndInv, TypeOK, PhaseInv
    <3> QED
        BY <2>1, <2>2, <3>1, <3>2
  <2>3. ASSUME status[r] = "waiting_upstream" PROVE rows[r] = {}
    <3>1. rows[r] = 1..cursor[r] /\ cursor[r] = 0
        BY <2>3 DEF IndInv, PostInv, PhaseInv
    <3> QED
        BY <3>1
  <2> QED
      BY <2>1, <2>2, <2>3
<1> QED
    BY <1>1, Invariance, PTL

----------------------------------------------------------------------------
\* Only a run's own exception handler takes its published status away.
THEOREM UnpublishedByOwnHandler == Spec => OnlyOwnHandlerUnpublishes
<1>1. ASSUME IndInv, [Next]_vars, NEW q \in Runs,
             status[q] \in PublishedStatuses, status'[q] # status[q]
      PROVE  pc[q] = "failing"
  <2> USE NoneAssumption
  <2>1. TypeOK /\ PhaseInv /\ PostInv
      BY <1>1 DEF IndInv
  <2>2. day[q] \in Days /\ q \in Posted(day[q])
      BY <1>1, <2>1 DEF TypeOK, PhaseInv, PostInv
  <2>3. pc[q] \in After /\ GatePassed(q) /\ status[q] = PublishStatus(q)
      BY <1>1, <2>1, <2>2 DEF PostInv, After
  <2>4. FinalStatus(q) = status[q]
      BY <2>3 DEF FinalStatus, GatePassed
  <2>5. ASSUME NEW r \in Runs, Step(r) PROVE pc[q] = "failing"
    <3>1. CASE r # q
        BY <1>1, <2>1, <2>5, <3>1 DEF TypeOK, Step, CreateRun, MarkChecking, Gate, Wait, Load, Validate,
           PersistChunk, CountRows, BeginPublish, AcquireLock, ReadPrevious, CommitPublish, Cross,
           Finish, RaiseEarly, Raise, HandleFailure, UpdateRun, runVars
    <3>2. CASE r = q
        BY <1>1, <2>1, <2>3, <2>4, <2>5, <3>2 DEF TypeOK, After, Step, CreateRun, MarkChecking, Gate,
           Wait, Load, Validate, PersistChunk, CountRows, BeginPublish, AcquireLock, ReadPrevious,
           CommitPublish, Cross, Finish, RaiseEarly, Raise, HandleFailure, UpdateRun, runVars
    <3> QED
        BY <3>1, <3>2
  <2>6. ASSUME NEW r \in Runs, Crash(r) \/ Expire(r) PROVE FALSE
      BY <1>1, <2>6 DEF Crash, Expire, runVars
  <2>7. ASSUME NEW r \in Runs, NEW d \in Days, NEW g \in Groups, Start(r, d, g) PROVE FALSE
      BY <1>1, <2>7 DEF Start
  <2>8. CASE Sweep
      BY <1>1, <2>1, <2>8 DEF Sweep, TypeOK
  <2>9. CASE Rest \/ UNCHANGED vars
      BY <1>1, <2>9 DEF Rest, vars, runVars
  <2> QED
      BY <1>1, <2>5, <2>6, <2>7, <2>8, <2>9 DEF Next
<1>2. IndInv /\ [Next]_vars =>
        [\A r \in Runs :
            status[r] \in PublishedStatuses /\ status'[r] # status[r] => pc[r] = "failing"]_vars
    BY <1>1
<1> QED
    BY <1>2, Invariance, PTL DEF Spec, OnlyOwnHandlerUnpublishes

\* The sweep's ninety minutes protect a job's row from being closed and reopened.
THEOREM JobsStayClosed == Spec => ScheduledRunsStayClosed
<1>1. ASSUME IndInv, [Next]_vars, NEW q \in Runs,
             group[q] # Shell, status[q] \in Statuses \ OpenStatuses, status'[q] \in OpenStatuses
      PROVE  FALSE
  <2> USE NoneAssumption
  <2>1. TypeOK /\ PhaseInv /\ JobInv
      BY <1>1 DEF IndInv
  <2>2. pc[q] \notin InGraph \cup InTransaction /\ pc[q] # "create"
      BY <1>1, <2>1 DEF JobInv, PhaseInv
  <2>3. ASSUME NEW r \in Runs, Step(r) PROVE FALSE
    <3>1. CASE r # q
        BY <1>1, <2>1, <2>3, <3>1 DEF TypeOK, Step, CreateRun, MarkChecking, Gate, Wait, Load, Validate,
           PersistChunk, CountRows, BeginPublish, AcquireLock, ReadPrevious, CommitPublish, Cross,
           Finish, RaiseEarly, Raise, HandleFailure, UpdateRun, runVars
    <3>2. CASE r = q
        BY <1>1, <2>1, <2>2, <2>3, <3>2 DEF TypeOK, Step, CreateRun, MarkChecking, Gate, Wait, Load,
           Validate, PersistChunk, CountRows, BeginPublish, AcquireLock, ReadPrevious, CommitPublish,
           Cross, Finish, FinalStatus, PublishStatus, RaiseEarly, Raise, HandleFailure, UpdateRun, runVars
    <3> QED
        BY <3>1, <3>2
  <2>4. ASSUME NEW r \in Runs, Crash(r) \/ Expire(r) PROVE FALSE
      BY <1>1, <2>4 DEF Crash, Expire, runVars
  <2>5. ASSUME NEW r \in Runs, NEW d \in Days, NEW g \in Groups, Start(r, d, g) PROVE FALSE
      BY <1>1, <2>5 DEF Start
  <2>6. CASE Sweep
      BY <1>1, <2>1, <2>6 DEF Sweep, TypeOK
  <2>7. CASE Rest \/ UNCHANGED vars
      BY <1>1, <2>7 DEF Rest, vars, runVars
  <2> QED
      BY <1>1, <2>3, <2>4, <2>5, <2>6, <2>7 DEF Next
<1>2. IndInv /\ [Next]_vars =>
        [\A r \in Runs :
            group[r] # Shell /\ status[r] \in Statuses \ OpenStatuses
                => status'[r] \notin OpenStatuses]_vars
    BY <1>1
<1> QED
    BY <1>2, Invariance, PTL DEF Spec, ScheduledRunsStayClosed

----------------------------------------------------------------------------
\* What a publication adds to the runs the day's history names, in order.
LEMMA PastAppend ==
    ASSUME TypeOK, NEW r \in Runs, CommitPublish(r)
    PROVE  LET Past(h) == [i \in DOMAIN h |-> h[i].new]
           IN  /\ day[r] \in Days
               /\ Past(history'[day[r]]) = Append(Past(history[day[r]]), r)
               /\ \A d \in Days \ {day[r]} : history'[d] = history[d]
<1> DEFINE Entry == [old : Runs \cup {None}, new : Runs]
           D == day[r]
           h == history[D]
           x == [old |-> prev[r], new |-> r]
           Past(g) == [i \in DOMAIN g |-> g[i].new]
<1>1. D \in Days /\ x \in Entry /\ x.new = r
    BY NoneAssumption DEF TypeOK, CommitPublish
<1>2. h \in Seq(Entry)
    BY <1>1 DEF TypeOK
<1>3. history' = [history EXCEPT ![D] = Append(h, x)]
    BY DEF CommitPublish
<1>4. history'[D] = Append(h, x) /\ \A d \in Days \ {D} : history'[d] = history[d]
    BY <1>1, <1>3 DEF TypeOK
<1>5. Past(Append(h, x)) = Append(Past(h), r)
  <2> HIDE DEF Entry, h, x
  <2>1. /\ Len(h) \in Nat /\ DOMAIN h = 1..Len(h)
        /\ \A i \in 1..Len(h) : h[i] \in Entry
      BY <1>2, LenProperties, ElementOfSeq
  <2>2. /\ Append(h, x) \in Seq(Entry) /\ DOMAIN Append(h, x) = 1..(Len(h) + 1)
        /\ \A i \in 1..Len(h) : Append(h, x)[i] = h[i]
        /\ Append(h, x)[Len(h) + 1] = x
      BY <1>1, <1>2, <2>1, AppendProperties, LenProperties
  <2>3. \A i \in 1..Len(h) : h[i].new \in Runs
      BY <2>1 DEF Entry
  <2>4. Past(h) \in Seq(Runs) /\ Len(Past(h)) = Len(h)
      BY <2>1, <2>3
  <2>5. Append(Past(h), r) = [i \in 1..(Len(h) + 1) |-> IF i = Len(h) + 1 THEN r ELSE h[i].new]
      BY <2>1, <2>4
  <2>6. Past(Append(h, x)) = [i \in 1..(Len(h) + 1) |-> IF i = Len(h) + 1 THEN r ELSE h[i].new]
      BY <1>1, <2>1, <2>2
  <2> QED
      BY <2>5, <2>6
<1> QED
    BY <1>1, <1>4, <1>5

\* The tables behave as one atomic board, however many runs race for a day.
THEOREM Refinement == Spec => ImplementsPublication
<1>1. Init => Posting!Init
    BY EmptySeq DEF Init, Posting!Init
<1>2. ASSUME IndInv, [Next]_vars PROVE [Posting!Next]_(Posting!vars)
  <2>1. TypeOK /\ PhaseInv /\ PostInv
      BY <1>2 DEF IndInv
  <2>2. ASSUME NEW r \in Runs, PersistChunk(r) PROVE [Posting!Next]_(Posting!vars)
    <3>1. board' = board /\ history' = history
        BY <2>2 DEF PersistChunk, boardVars
    <3>2. \A q \in Runs \ {r} : rows'[q] = rows[q]
        BY <2>1, <2>2 DEF PersistChunk, TypeOK
    <3>3. rows[r] # Chunks
      <4>1. cursor[r] \in 0..Len(WritePlan) /\ cursor[r] < Len(WritePlan) /\ rows[r] = 1..cursor[r]
          BY <2>1, <2>2 DEF PersistChunk, TypeOK, PhaseInv
      <4> QED
          BY <4>1, PlanFacts
    <3>4. CASE rows'[r] = Chunks
      <4>1. {q \in Runs : Complete(q)}' = {q \in Runs : Complete(q)} \cup {r}
          BY <3>2, <3>4 DEF Complete
      <4>2. Posting!Fill(r)
          BY <3>1, <4>1 DEF Posting!Fill
      <4> QED
          BY <4>2 DEF Posting!Next
    <3>5. CASE rows'[r] # Chunks
      <4>1. {q \in Runs : Complete(q)}' = {q \in Runs : Complete(q)}
          BY <3>2, <3>3, <3>5 DEF Complete
      <4> QED
          BY <3>1, <4>1 DEF Posting!vars
    <3> QED
        BY <3>4, <3>5
  <2>3. ASSUME NEW r \in Runs, CommitPublish(r) PROVE [Posting!Next]_(Posting!vars)
    <3> DEFINE Past(h) == [i \in DOMAIN h |-> h[i].new]
    <3>1. /\ day[r] \in Days
          /\ Past(history'[day[r]]) = Append(Past(history[day[r]]), r)
          /\ \A d \in Days \ {day[r]} : history'[d] = history[d]
        BY <2>1, <2>3, PastAppend
    <3>2. Complete(r)
        BY <2>1, <2>3, PlanFacts DEF CommitPublish, TypeOK, PhaseInv, Complete
    <3>3. \A e \in Days : \A i \in DOMAIN history[e] : history[e][i].new # r
        BY <2>1, <2>3, NoneAssumption DEF CommitPublish, PostInv, Posted
    <3>4. {q \in Runs : Complete(q)}' = {q \in Runs : Complete(q)}
        BY <2>3 DEF CommitPublish, Complete
    <3>5. PICK e \in Days : e = day[r]
        BY <3>1
    <3>6. [d \in Days |-> Past(history[d])]' =
             [[d \in Days |-> Past(history[d])] EXCEPT ![e] = Append(@, r)]
        BY <3>1, <3>5
    <3>7. board' = [board EXCEPT ![e] = r]
        BY <2>3, <3>5 DEF CommitPublish
    <3>8. Posting!Post(r, e)
        BY <3>2, <3>3, <3>4, <3>6, <3>7 DEF Posting!Post
    <3> QED
        BY <3>8 DEF Posting!Next
  <2>4. CASE UNCHANGED <<board, history, rows>>
      BY <2>4 DEF Posting!vars, Complete
  <2>5. \/ \E r \in Runs : PersistChunk(r) \/ CommitPublish(r)
        \/ UNCHANGED <<board, history, rows>>
      BY <1>2 DEF Next, Step, Start, CreateRun, MarkChecking, Gate, Wait, Load, Validate,
         CountRows, BeginPublish, AcquireLock, ReadPrevious, Cross, Finish, RaiseEarly, Raise,
         HandleFailure, Crash, Expire, Sweep, Rest, vars, procVars, runVars, boardVars
  <2> QED
      BY <2>2, <2>3, <2>4, <2>5
<1> QED
    BY <1>1, <1>2, Invariance, PTL DEF Spec, ImplementsPublication, Posting!Spec

----------------------------------------------------------------------------
\* The rest of the system sees one run at a time change.
LEMMA OneRunMoves ==
    ASSUME NEW r \in Runs,
           \A q \in Runs \ {r} : pc'[q] = pc[q] /\ (status'[q] = None <=> status[q] = None)
    PROVE  [q \in Runs |-> Phase(q)]' = [[q \in Runs |-> Phase(q)] EXCEPT ![r] = Phase(r)']
BY DEF Phase, Exists

\* A step that changes neither phases nor result rows nor publications.
LEMMA LifeQuiet ==
    ASSUME \A q \in Runs : Phase(q)' = Phase(q) /\ Exists(q)' = Exists(q),
           \A q \in Runs : Exists(q) => day'[q] = day[q],
           UNCHANGED <<cursor, rows, board, history>>
    PROVE  UNCHANGED Life!vars
<1>1. [q \in Runs |-> Phase(q)]' = [q \in Runs |-> Phase(q)]
    OBVIOUS
<1>2. [q \in Runs |-> IF Exists(q) THEN day[q] ELSE None]' =
         [q \in Runs |-> IF Exists(q) THEN day[q] ELSE None]
    OBVIOUS
<1> QED
    BY <1>1, <1>2 DEF Life!vars, Life!runVars, Life!boardVars

\* A run that leaves its work, whatever the reason, ends.
LEMMA LifeEnds ==
    ASSUME NEW r \in Runs, Exists(r), Exists(r)',
           Phase(r) \in {"open", "counted"}, Phase(r)' = "ended",
           \A q \in Runs \ {r} : pc'[q] = pc[q] /\ status'[q] = status[q],
           UNCHANGED <<day, cursor, rows, board, history>>
    PROVE  Life!End(r)
<1>1. [q \in Runs |-> Phase(q)]' = [[q \in Runs |-> Phase(q)] EXCEPT ![r] = "ended"]
    BY OneRunMoves
<1>2. [q \in Runs |-> IF Exists(q) THEN day[q] ELSE None]' =
         [q \in Runs |-> IF Exists(q) THEN day[q] ELSE None]
    BY DEF Exists
<1> QED
    BY <1>1, <1>2 DEF Life!End, Life!AtWork, Life!boardVars

\* Every step of a run is a step of its life, or none.
LEMMA LifeStep == IndInv /\ [Next]_vars => [Life!Next]_(Life!vars)
<1> SUFFICES ASSUME IndInv, [Next]_vars PROVE [Life!Next]_(Life!vars)
    OBVIOUS
<1> USE NoneAssumption
<1>0. TypeOK /\ PhaseInv
    BY DEF IndInv
<1>1. ASSUME NEW r \in Runs, NEW d \in Days, NEW g \in Groups, Start(r, d, g)
      PROVE  UNCHANGED Life!vars
  <2>1. \A q \in Runs : Phase(q)' = Phase(q) /\ Exists(q)' = Exists(q)
      BY <1>0, <1>1 DEF Start, Goto, Phase, Exists, TypeOK, PhaseInv
  <2>2. \A q \in Runs : Exists(q) => day'[q] = day[q]
      BY <1>0, <1>1 DEF Start, Exists, TypeOK, PhaseInv
  <2> QED
      BY <1>1, <2>1, <2>2, LifeQuiet DEF Start, boardVars
<1>2. ASSUME NEW r \in Runs, CreateRun(r) PROVE [Life!Next]_(Life!vars)
  <2>1. PICK d \in Days : d = day[r]
      BY <1>0, <1>2 DEF CreateRun, TypeOK
  <2>2. ~Exists(r) /\ Exists(r)' /\ Phase(r) = "idle" /\ Phase(r)' = "open"
      BY <1>0, <1>2 DEF CreateRun, Goto, Exists, Phase, TypeOK, PhaseInv
  <2>3. [q \in Runs |-> Phase(q)]' = [[q \in Runs |-> Phase(q)] EXCEPT ![r] = "open"]
      BY <1>0, <1>2, <2>2, OneRunMoves DEF CreateRun, Goto, TypeOK
  <2>4. \A q \in Runs \ {r} : Exists(q)' = Exists(q)
      BY <1>0, <1>2 DEF CreateRun, Exists, TypeOK
  <2>5. [q \in Runs |-> IF Exists(q) THEN day[q] ELSE None]' =
           [[q \in Runs |-> IF Exists(q) THEN day[q] ELSE None] EXCEPT ![r] = d]
      BY <1>2, <2>1, <2>2, <2>4 DEF CreateRun
  <2>6. Life!Begin(r, d)
      BY <1>2, <2>2, <2>3, <2>5 DEF Life!Begin, Life!boardVars, CreateRun, boardVars
  <2> QED
      BY <2>6 DEF Life!Next, Life!Step
<1>3. ASSUME NEW r \in Runs, PersistChunk(r) PROVE [Life!Next]_(Life!vars)
  <2>1. Phase(r) = "open"
      BY <1>0, <1>3 DEF PersistChunk, Phase, Exists, PhaseInv
  <2>2. \A q \in Runs : Phase(q)' = Phase(q) /\ Exists(q)' = Exists(q)
      BY <1>3 DEF PersistChunk, Phase, Exists
  <2>3. [q \in Runs |-> Phase(q)]' = [q \in Runs |-> Phase(q)]
      BY <2>2
  <2>4. [q \in Runs |-> IF Exists(q) THEN day[q] ELSE None]' =
           [q \in Runs |-> IF Exists(q) THEN day[q] ELSE None]
      BY <1>3, <2>2 DEF PersistChunk
  <2>5. Life!Store(r)
      BY <1>3, <2>1, <2>3, <2>4
      DEF PersistChunk, boardVars, Stored, Written, Life!Store, Life!Stored, Life!Written, Life!Chunks,
          Life!boardVars
  <2> QED
      BY <2>5 DEF Life!Next, Life!Step
<1>4. ASSUME NEW r \in Runs, CountRows(r) PROVE [Life!Next]_(Life!vars)
  <2>1. Phase(r) = "open" /\ Exists(r) /\ Exists(r)'
      BY <1>0, <1>4 DEF CountRows, runVars, Phase, Exists, PhaseInv
  <2>2. PICK l \in {"publish", "failing"} :
            /\ pc' = [pc EXCEPT ![r] = l]
            /\ l = "publish" => \A t \in CountedTables : Stored(r, t) = Written(t)
      BY <1>4 DEF CountRows, Goto
  <2>3. CASE l = "publish"
    <3>1. Phase(r)' = "counted"
        BY <1>0, <2>1, <2>2, <2>3 DEF Phase, TypeOK
    <3>2. [q \in Runs |-> Phase(q)]' = [[q \in Runs |-> Phase(q)] EXCEPT ![r] = "counted"]
        BY <1>0, <1>4, <2>2, <3>1, OneRunMoves DEF CountRows, runVars, TypeOK
    <3>3. [q \in Runs |-> IF Exists(q) THEN day[q] ELSE None]' =
             [q \in Runs |-> IF Exists(q) THEN day[q] ELSE None]
        BY <1>4 DEF CountRows, runVars, Exists
    <3>4. Life!Count(r)
        BY <1>4, <2>1, <2>2, <2>3, <3>2, <3>3
        DEF CountRows, runVars, boardVars, Stored, Written, CountedTables, Life!Count, Life!Stored,
            Life!Written, Life!Chunks, Life!CountedTables, Life!boardVars
    <3> QED
        BY <3>4 DEF Life!Next, Life!Step
  <2>4. CASE l = "failing"
    <3>1. Phase(r)' = "ended"
        BY <1>0, <2>1, <2>2, <2>4 DEF Phase, TypeOK
    <3>2. Life!End(r)
        BY <1>0, <1>4, <2>1, <2>2, <3>1, LifeEnds DEF CountRows, runVars, boardVars, TypeOK
    <3> QED
        BY <3>2 DEF Life!Next, Life!Step
  <2> QED
      BY <2>2, <2>3, <2>4
<1>5. ASSUME NEW r \in Runs, CommitPublish(r) PROVE [Life!Next]_(Life!vars)
  <2> DEFINE Past(h) == [i \in DOMAIN h |-> h[i].new]
  <2>1. Exists(r) /\ Exists(r)' /\ Phase(r) = "counted" /\ Phase(r)' = "ended"
      BY <1>0, <1>5 DEF CommitPublish, Goto, PublishStatus, Phase, Exists, TypeOK, PhaseInv
  <2>2. /\ day[r] \in Days
        /\ Past(history'[day[r]]) = Append(Past(history[day[r]]), r)
        /\ \A d \in Days \ {day[r]} : history'[d] = history[d]
      BY <1>0, <1>5, PastAppend
  <2>3. PICK e \in Days : e = day[r]
      BY <2>2
  <2>4. [d \in Days |-> Past(history[d])]' =
           [[d \in Days |-> Past(history[d])] EXCEPT ![e] = Append(@, r)]
      BY <2>2, <2>3
  <2>5. \A q \in Runs \ {r} : pc'[q] = pc[q] /\ status'[q] = status[q]
      BY <1>0, <1>5 DEF CommitPublish, Goto, TypeOK
  <2>6. [q \in Runs |-> Phase(q)]' = [[q \in Runs |-> Phase(q)] EXCEPT ![r] = "ended"]
      BY <2>1, <2>5, OneRunMoves
  <2>7. [q \in Runs |-> IF Exists(q) THEN day[q] ELSE None]' =
           [q \in Runs |-> IF Exists(q) THEN day[q] ELSE None]
      BY <1>5, <2>1, <2>5 DEF CommitPublish, Exists
  <2>8. board' = [board EXCEPT ![e] = r]
      BY <1>5, <2>3 DEF CommitPublish
  <2>9. Life!Post(r)
      BY <1>5, <2>1, <2>3, <2>4, <2>6, <2>7, <2>8 DEF CommitPublish, Life!Post
  <2> QED
      BY <2>9 DEF Life!Next, Life!Step
<1>6. ASSUME NEW r \in Runs, Wait(r) PROVE [Life!Next]_(Life!vars)
  <2>1. Exists(r) /\ Exists(r)' /\ Phase(r) = "open" /\ Phase(r)' = "ended"
      BY <1>0, <1>6 DEF Wait, Goto, UpdateRun, Phase, Exists, TypeOK, PhaseInv
  <2>2. Life!End(r)
      BY <1>0, <1>6, <2>1, LifeEnds DEF Wait, Goto, UpdateRun, boardVars, TypeOK
  <2> QED
      BY <2>2 DEF Life!Next, Life!Step
<1>7. ASSUME NEW r \in Runs, Raise(r) \/ Crash(r) PROVE [Life!Next]_(Life!vars)
  <2>1. /\ \A q \in Runs \ {r} : pc'[q] = pc[q] /\ status'[q] = status[q]
        /\ status' = status /\ UNCHANGED <<day, cursor, rows, board, history>>
        /\ pc'[r] \in {"failing", "dead"} /\ pc[r] # "idle"
      BY <1>0, <1>7 DEF Raise, Crash, Live, Goto, runVars, TypeOK
  <2>2. CASE Phase(r) \in {"open", "counted"}
    <3>1. Exists(r) /\ Exists(r)' /\ Phase(r)' = "ended"
        BY <2>1, <2>2 DEF Phase, Exists
    <3>2. Life!End(r)
        BY <2>1, <2>2, <3>1, LifeEnds
    <3> QED
        BY <3>2 DEF Life!Next, Life!Step
  <2>3. CASE Phase(r) \in {"idle", "ended"}
    <3>1. \A q \in Runs : Phase(q)' = Phase(q) /\ Exists(q)' = Exists(q)
        BY <2>1, <2>3 DEF Phase, Exists
    <3> QED
        BY <2>1, <3>1, LifeQuiet
  <2> QED
      BY <2>2, <2>3 DEF Phase
<1>8. ASSUME NEW r \in Runs,
             \/ MarkChecking(r) \/ Gate(r) \/ Load(r) \/ Validate(r) \/ BeginPublish(r)
             \/ AcquireLock(r) \/ ReadPrevious(r) \/ Cross(r) \/ Finish(r) \/ RaiseEarly(r)
             \/ HandleFailure(r) \/ Expire(r)
      PROVE  UNCHANGED Life!vars
  <2>1. UNCHANGED <<day, cursor, rows, board, history>>
      BY <1>8 DEF MarkChecking, Gate, Load, Validate, BeginPublish, AcquireLock, ReadPrevious,
         Cross, Finish, RaiseEarly, HandleFailure, Expire, procVars, runVars, boardVars
  <2>2. \A q \in Runs : Phase(q)' = Phase(q) /\ Exists(q)' = Exists(q)
    <3>1. CASE MarkChecking(r) \/ Load(r) \/ Validate(r) \/ BeginPublish(r)
        BY <1>0, <3>1 DEF MarkChecking, Load, Validate, BeginPublish, Goto, UpdateRun, Phase, Exists,
           TypeOK, PhaseInv
    <3>2. CASE Gate(r)
        BY <1>0, <3>2 DEF Gate, Goto, runVars, Phase, Exists, TypeOK, PhaseInv
    <3>3. CASE AcquireLock(r) \/ ReadPrevious(r) \/ Cross(r)
        BY <1>0, <3>3 DEF AcquireLock, ReadPrevious, Cross, Goto, runVars, Phase, Exists,
           TypeOK, PhaseInv
    <3>4. CASE Finish(r) \/ HandleFailure(r)
        BY <1>0, <3>4 DEF Finish, HandleFailure, FinalStatus, PublishStatus, Goto, UpdateRun, Phase,
           Exists, TypeOK, PhaseInv
    <3>5. CASE RaiseEarly(r)
        BY <1>0, <3>5 DEF RaiseEarly, Goto, runVars, Phase, Exists, TypeOK, PhaseInv
    <3>6. CASE Expire(r)
        BY <3>6 DEF Expire, procVars, Phase, Exists
    <3> QED
        BY <1>8, <3>1, <3>2, <3>3, <3>4, <3>5, <3>6
  <2> QED
      BY <2>1, <2>2, LifeQuiet
<1>9. CASE Sweep
  <2>1. \A q \in Runs : Phase(q)' = Phase(q) /\ Exists(q)' = Exists(q)
      BY <1>0, <1>9 DEF Sweep, procVars, Phase, Exists, TypeOK
  <2> QED
      BY <1>9, <2>1, LifeQuiet DEF Sweep, procVars, boardVars
<1>10. CASE Rest \/ UNCHANGED vars
  <2>1. \A q \in Runs : Phase(q)' = Phase(q) /\ Exists(q)' = Exists(q)
      BY <1>10 DEF Rest, vars, procVars, runVars, Phase, Exists
  <2> QED
      BY <1>10, <2>1, LifeQuiet DEF Rest, vars, procVars, runVars, boardVars
<1> QED
    BY <1>1, <1>2, <1>3, <1>4, <1>5, <1>6, <1>7, <1>8, <1>9, <1>10 DEF Next, Step

\* A run is to the rest of the system what RunLife says: Archive may rely on it.
THEOREM RunsLiveAsAssumed == Spec => ImplementsRunLife
<1>1. Init => Life!Init
    BY EmptySeq DEF Init, Life!Init, Phase, Exists
<1> QED
    BY <1>1, LifeStep, Invariance, PTL DEF Spec, ImplementsRunLife, Life!Spec

============================================================================
