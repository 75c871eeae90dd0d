--------------------------- MODULE ArchiveProofs ---------------------------
(***************************************************************************)
(* Machine-checked proofs about Archive, for any number of runs and days,  *)
(* any order of chunks, any spoiled file and any aborted job, provided     *)
(* that nobody scores an old day while a job is under way (Overlap =       *)
(* FALSE): each theorem has that as its hypothesis.                        *)
(***************************************************************************)
EXTENDS Archive, SequenceTheorems, TLAPS

\* The tables and files by name.
LEMMA Constants ==
    /\ Files = {"universe", "scores", "parts"}
    /\ DOMAIN PRUNE_ORDER = 1..3 /\ Len(PRUNE_ORDER) = 3
    /\ \A p \in 1..3 : PRUNE_ORDER[p] \in Files
    /\ DOMAIN EXPORTS = 1..3 /\ Len(EXPORTS) = 3
    /\ EXPORTS[1] = "scores" /\ EXPORTS[2] = "parts" /\ EXPORTS[3] = "universe"
    /\ Len(WritePlan) \in Nat /\ Chunks = 1..Len(WritePlan)
BY WritePlanAssumption DEF Files, CountedTables, PRUNE_ORDER, EXPORTS, Chunks, Tables

\* What is stored of a run are chunks.
LEMMA StoredChunks ==
    ASSUME rows \in [Runs -> SUBSET Chunks], NEW r \in Runs, NEW t
    PROVE  Stored(r, t) \in SUBSET Chunks
BY DEF Stored

\* A run's steps keep the run's variables within their types.
LEMMA RunTypeStep ==
    ASSUME TypeOK, NEW r \in Runs, Step(r) PROVE TypeOK'
<1> USE NoRunAssumption, Constants DEF TypeOK, boardVars, Exists
<1>1. CASE \E d \in Days : Begin(r, d)
    BY <1>1 DEF Begin
<1>2. CASE Store(r)
  <2>1. cursor[r] + 1 \in Chunks
      BY <1>2 DEF Store
  <2>2. rows' \in [Runs -> SUBSET Chunks] /\ cursor' \in [Runs -> 0..Len(WritePlan)]
      BY <1>2, <2>1 DEF Store
  <2> QED
      BY <1>2, <2>2 DEF Store
<1>3. CASE Count(r) \/ End(r)
    BY <1>3 DEF Count, End, AtWork
<1>4. CASE Post(r)
  <2>1. day[r] \in Days
      BY <1>4 DEF Post
  <2>2. past' \in [Days -> Seq(Runs)]
    <3>1. Append(past[day[r]], r) \in Seq(Runs)
        BY <2>1, AppendProperties
    <3> QED
        BY <1>4, <2>1, <3>1 DEF Post
  <2> QED
      BY <1>4, <2>1, <2>2 DEF Post
<1> QED
    BY <1>1, <1>2, <1>3, <1>4 DEF Step

\* What a step leaves alone keeps its type; a deletion only needs to leave chunks.
LEMMA SameTypes ==
    /\ TypeOK /\ UNCHANGED vars => TypeOK'
    /\ TypeOK /\ UNCHANGED <<phase, day, cursor, boardVars>> /\ rows' \in [Runs -> SUBSET Chunks]
          => TypeOK'
    /\ JobTypeOK /\ UNCHANGED archiveVars => JobTypeOK'
<1>1. TypeOK /\ UNCHANGED <<phase, day, cursor, boardVars>> /\ rows' \in [Runs -> SUBSET Chunks]
          => TypeOK'
    BY DEF TypeOK, boardVars, Exists
<1>2. TypeOK /\ UNCHANGED vars => TypeOK'
    BY <1>1 DEF vars, runVars, TypeOK
<1>3. JobTypeOK /\ UNCHANGED archiveVars => JobTypeOK'
    BY DEF JobTypeOK, archiveVars, jobVars, passVars
<1> QED
    BY <1>1, <1>2, <1>3

\* The job's steps keep the job's variables within their types.
LEMMA JobTypeStep ==
    ASSUME TypeOK, JobTypeOK, JobStep \/ \E d \in Days : GrowOld(d) PROVE JobTypeOK'
<1> USE NoRunAssumption, Constants
<1>1. ASSUME JobOver, UNCHANGED <<age, snapshots>>,
             disk' \in [Runs -> [Files -> (SUBSET Chunks) \cup {None}]]
      PROVE  JobTypeOK'
  <2>1. /\ job' = "off" /\ pass' = 1 /\ pruning' = FALSE /\ targets' = {} /\ kept' = {} /\ cur' = None
        /\ file' = 1 /\ manifest' = NoRows
      BY <1>1 DEF JobOver, ForgetPass
  <2>2. manifest' \in [Files -> SUBSET Chunks]
      BY <2>1 DEF NoRows
  <2>3. 1 \in DOMAIN PRUNE_ORDER /\ 1 \in DOMAIN EXPORTS
      OBVIOUS
  <2>4. age' \in [Days -> 0..Len(PRUNE_ORDER)] /\ snapshots' \subseteq Runs
      BY <1>1 DEF JobTypeOK
  <2> QED
      BY <1>1, <2>1, <2>2, <2>3, <2>4 DEF JobTypeOK
<1>2. ASSUME NextPass, UNCHANGED <<age, disk, snapshots>> PROVE JobTypeOK'
  <2>1. CASE JobOver
      BY <1>1, <1>2, <2>1 DEF JobTypeOK
  <2>2. CASE pass < Len(PRUNE_ORDER) /\ job' = "list" /\ pass' = pass + 1 /\ UNCHANGED pruning /\ ForgetPass
    <3>1. pass' \in 1..3
        BY <2>2 DEF JobTypeOK
    <3>2. /\ job' = "list" /\ pruning' = pruning /\ targets' = {} /\ kept' = {} /\ cur' = None
          /\ file' = 1 /\ manifest' = NoRows
        BY <2>2 DEF ForgetPass
    <3>3. manifest' \in [Files -> SUBSET Chunks]
        BY <3>2 DEF NoRows
    <3> QED
        BY <1>2, <3>1, <3>2, <3>3 DEF JobTypeOK
  <2> QED
      BY <1>2, <2>1, <2>2 DEF NextPass
<1>3. ASSUME NEW d \in Days, GrowOld(d) PROVE JobTypeOK'
    BY <1>3 DEF GrowOld, JobTypeOK, jobVars, passVars
<1>4. ASSUME NEW p \in BOOLEAN, StartJob(p) PROVE JobTypeOK'
    BY <1>4 DEF StartJob, JobTypeOK, passVars
<1>5. CASE ListTargets
  <2>1. CASE Archivable = {}
      BY <1>2, <1>5, <2>1 DEF ListTargets
  <2>2. CASE Archivable # {}
    <3>1. Archivable \subseteq Runs
        BY DEF Archivable
    <3>2. /\ job' = "export" /\ targets' = Archivable
          /\ UNCHANGED <<pass, pruning, cur, file, manifest, kept, age, disk, snapshots>>
        BY <1>5, <2>2 DEF ListTargets
    <3> QED
        BY <3>1, <3>2 DEF JobTypeOK
  <2> QED
      BY <2>1, <2>2
<1>6. ASSUME NEW r \in Runs, ExportFile(r) PROVE JobTypeOK'
  <2> DEFINE t == EXPORTS[file]
  <2>1. file \in 1..3 /\ t \in Files
      BY DEF JobTypeOK
  <2>2. Stored(r, t) \in SUBSET Chunks
      BY StoredChunks DEF TypeOK
  <2>3. PICK content \in {Stored(r, t), None} : disk' = [disk EXCEPT ![r][t] = content]
      BY <1>6 DEF ExportFile, FileContents
  <2>4. manifest' = [manifest EXCEPT ![t] = Stored(r, t)]
      BY <1>6 DEF ExportFile
  <2> HIDE DEF t
  <2>5. /\ disk' \in [Runs -> [Files -> (SUBSET Chunks) \cup {None}]]
        /\ manifest' \in [Files -> SUBSET Chunks]
      BY <2>1, <2>2, <2>3, <2>4 DEF JobTypeOK
  <2>6. /\ cur' = r /\ r \in targets
        /\ UNCHANGED <<age, pass, pruning, targets, kept, snapshots>>
      BY <1>6 DEF ExportFile
  <2>7. file' \in 1..3 /\ job' \in {"export", "verify"}
      BY <1>6, <2>1 DEF ExportFile
  <2>8. cur' # None
      BY <2>6 DEF JobTypeOK
  <2> QED
      BY <2>5, <2>6, <2>7, <2>8 DEF JobTypeOK
<1>7. CASE Verify
  <2>1. /\ snapshots' \subseteq Runs /\ kept' \subseteq Runs /\ targets' \subseteq Runs
      BY <1>7 DEF Verify, JobTypeOK
  <2>2. /\ job' \in {"prune", "export"} /\ cur' = None /\ manifest' = NoRows
        /\ UNCHANGED <<age, pass, pruning, file, disk>>
      BY <1>7 DEF Verify
  <2>3. manifest' \in [Files -> SUBSET Chunks]
      BY <2>2 DEF NoRows
  <2> QED
      BY <2>1, <2>2, <2>3 DEF JobTypeOK
<1>8. CASE Prune
    BY <1>2, <1>8 DEF Prune
<1>9. CASE Abort
  <2>1. EXPORTS[file] \in Files
      BY DEF JobTypeOK
  <2>2. disk' \in [Runs -> [Files -> (SUBSET Chunks) \cup {None}]]
      BY <1>9, <2>1 DEF Abort, JobTypeOK
  <2> QED
      BY <1>1, <1>9, <2>2 DEF Abort
<1> QED
    BY <1>3, <1>4, <1>5, <1>6, <1>7, <1>8, <1>9 DEF JobStep

\* Every step keeps every variable within its type.
LEMMA ArchiveTypeStep == ArchiveTypeOK /\ [ArchiveNext]_allVars => ArchiveTypeOK'
<1> SUFFICES ASSUME TypeOK, JobTypeOK, [ArchiveNext]_allVars PROVE TypeOK' /\ JobTypeOK'
    BY DEF ArchiveTypeOK
<1>1. CASE \E r \in Runs : RunStep(r)
    BY <1>1, RunTypeStep, SameTypes DEF RunStep
<1>2. CASE JobStep \/ \E d \in Days : GrowOld(d)
  <2>1. CASE Prune
    <3>1. rows' \in [Runs -> SUBSET Chunks]
        BY <2>1 DEF Prune, Without, TypeOK
    <3> QED
        BY <1>2, <2>1, <3>1, SameTypes, JobTypeStep DEF Prune
  <2>2. UNCHANGED vars \/ Prune
      BY <1>2 DEF JobStep, GrowOld, StartJob, ListTargets, ExportFile, Verify, Abort
  <2> QED
      BY <1>2, <2>1, <2>2, SameTypes, JobTypeStep
<1>3. CASE UNCHANGED allVars
    BY <1>3, SameTypes DEF allVars
<1> QED
    BY <1>1, <1>2, <1>3 DEF ArchiveNext

----------------------------------------------------------------------------
\* A run's own steps keep what it has stored intact.
LEMMA RunWorkStep ==
    ASSUME TypeOK, WorkInv, NEW r \in Runs, Step(r) PROVE WorkInv'
<1> SUFFICES ASSUME NEW q \in Runs
             PROVE  /\ phase'[q] # "ended" => rows'[q] = 1..cursor'[q] /\ ~Published(q)'
                    /\ phase'[q] = "counted" => cursor'[q] = Len(WritePlan)
                    /\ Published(q)' => rows'[q] = Chunks
                    /\ \A d \in Days : \A i \in DOMAIN past'[d] : past'[d][i] = q => phase'[q] = "ended"
    BY DEF WorkInv
<1>0. /\ phase[q] # "ended" => rows[q] = 1..cursor[q] /\ ~Published(q)
      /\ phase[q] = "counted" => cursor[q] = Len(WritePlan)
      /\ Published(q) => rows[q] = Chunks
      /\ \A d \in Days : \A i \in DOMAIN past[d] : past[d][i] = q => phase[q] = "ended"
    BY DEF WorkInv
<1>1. CASE (\E d \in Days : Begin(r, d)) \/ Count(r) \/ End(r)
  <2>1. UNCHANGED <<cursor, rows, board, past>> /\ Published(q)' = Published(q)
      BY <1>1 DEF Begin, Count, End, boardVars, Published
  <2>2. /\ phase[q] = "ended" => phase'[q] = "ended"
        /\ phase'[q] # "ended" => phase[q] # "ended"
        /\ phase'[q] = "counted" => phase[q] = "counted" \/ cursor[q] = Len(WritePlan)
      BY <1>1 DEF Begin, Count, End, AtWork, TypeOK
  <2> QED
      BY <1>0, <2>1, <2>2
<1>2. CASE Store(r)
  <2>1. UNCHANGED <<phase, board, past>> /\ Published(q)' = Published(q)
      BY <1>2 DEF Store, boardVars, Published
  <2>2. CASE q = r
    <3>1. cursor[r] \in Nat /\ cursor'[r] = cursor[r] + 1 /\ phase[r] = "open"
        BY <1>2, Constants DEF Store, TypeOK
    <3>2. rows'[r] = 1..cursor'[r]
        BY <1>0, <1>2, <2>2, <3>1 DEF Store, TypeOK
    <3> QED
        BY <1>0, <2>1, <2>2, <3>1, <3>2
  <2>3. CASE q # r
    <3>1. rows'[q] = rows[q] /\ cursor'[q] = cursor[q]
        BY <1>2, <2>3 DEF Store, TypeOK
    <3> QED
        BY <1>0, <2>1, <3>1
  <2> QED
      BY <2>2, <2>3
<1>3. CASE Post(r)
  <2>1. PICK e \in Days : e = day[r]
      BY <1>3 DEF Post, TypeOK, Exists
  <2>2. /\ phase[r] = "counted" /\ phase'[r] = "ended" /\ UNCHANGED <<cursor, rows>>
        /\ board'[e] = r /\ \A d \in Days \ {e} : board'[d] = board[d]
        /\ past'[e] = Append(past[e], r) /\ \A d \in Days \ {e} : past'[d] = past[d]
      BY <1>3, <2>1 DEF Post, TypeOK
  <2>3. CASE q = r
    <3>1. rows'[r] = Chunks
        BY <1>0, <2>2, <2>3, Constants
    <3> QED
        BY <2>2, <2>3, <3>1
  <2>4. CASE q # r
    <3>1. phase'[q] = phase[q] /\ rows'[q] = rows[q] /\ cursor'[q] = cursor[q]
        BY <1>3, <2>4 DEF Post, TypeOK
    <3>2. Published(q)' => Published(q)
        BY <2>2, <2>4 DEF Published
    <3>3. \A d \in Days : \A i \in DOMAIN past'[d] : past'[d][i] = q => phase[q] = "ended"
      <4> SUFFICES ASSUME NEW d \in Days, NEW i \in DOMAIN past'[d], past'[d][i] = q
                   PROVE  phase[q] = "ended"
          OBVIOUS
      <4>1. CASE d # e
          BY <1>0, <2>2, <4>1
      <4>2. CASE d = e
        <5>1. past[e] \in Seq(Runs)
            BY DEF TypeOK
        <5>2. /\ DOMAIN past'[e] = 1..(Len(past[e]) + 1)
              /\ past'[e][Len(past[e]) + 1] = r
              /\ \A j \in 1..Len(past[e]) : past'[e][j] = past[e][j]
            BY <2>2, <5>1, AppendProperties
        <5>3. i \in 1..Len(past[e]) /\ DOMAIN past[e] = 1..Len(past[e])
            BY <2>4, <4>2, <5>1, <5>2
        <5> QED
            BY <1>0, <4>2, <5>2, <5>3
      <4> QED
          BY <4>1, <4>2
    <3> QED
        BY <1>0, <3>1, <3>2, <3>3
  <2> QED
      BY <2>3, <2>4
<1> QED
    BY <1>1, <1>2, <1>3 DEF Step

\* What a step of run r can do to itself and to the others.
LEMMA RunFrame ==
    ASSUME TypeOK, NEW r \in Runs, Step(r)
    PROVE  /\ phase[r] # "ended"
           /\ AtWork(r)' /\ Exists(r) => AtWork(r) /\ day'[r] = day[r]
           /\ \A q \in Runs \ {r} :
                /\ phase'[q] = phase[q] /\ day'[q] = day[q] /\ rows'[q] = rows[q]
                /\ Published(q)' => Published(q)
           /\ \A q \in Runs : rows[q] \subseteq rows'[q]
<1> USE DEF TypeOK
<1>1. CASE (\E d \in Days : Begin(r, d)) \/ Count(r) \/ End(r)
    BY <1>1 DEF Begin, Count, End, AtWork, Exists, Published, boardVars
<1>2. CASE Store(r)
    BY <1>2 DEF Store, AtWork, Exists, Published, boardVars
<1>3. CASE Post(r)
  <2>1. PICK e \in Days : e = day[r]
      BY <1>3 DEF Post, Exists
  <2>2. \A q \in Runs \ {r} : Published(q)' => Published(q)
      BY <1>3, <2>1 DEF Post, Published
  <2> QED
      BY <1>3, <2>2 DEF Post, AtWork, Exists
<1> QED
    BY <1>1, <1>2, <1>3 DEF Step

\* A deletion spares the runs still at work and the published ones.
LEMMA PruneWorkStep ==
    ASSUME TypeOK, WorkInv, QuietInv, Prune PROVE WorkInv'
<1>1. UNCHANGED <<phase, cursor, board, past>>
    BY DEF Prune, boardVars
<1>2. \A q \in Runs : phase[q] # "ended" \/ Published(q) => rows'[q] = rows[q]
    BY DEF Prune, Without, QuietInv
<1> QED
    BY <1>1, <1>2 DEF WorkInv, Published

\* Every step of the jobs, the runs and the calendar keeps WorkInv.
LEMMA WorkStep ==
    ASSUME TypeOK, WorkInv, QuietInv, [ArchiveNext]_allVars PROVE WorkInv'
<1>1. CASE \E r \in Runs : RunStep(r)
    BY <1>1, RunWorkStep DEF RunStep
<1>2. CASE Prune
    BY <1>2, PruneWorkStep
<1>3. CASE UNCHANGED vars
    BY <1>3 DEF vars, runVars, boardVars, WorkInv, Published
<1>4. (\E r \in Runs : RunStep(r)) \/ Prune \/ UNCHANGED vars
    BY DEF ArchiveNext, JobStep, GrowOld, StartJob, ListTargets, ExportFile, Verify, Abort, allVars
<1> QED
    BY <1>1, <1>2, <1>3, <1>4

\* The runs of a pass are beyond the reach of every other step.
LEMMA QuietStep ==
    ASSUME Overlap = FALSE, TypeOK, JobTypeOK, QuietInv, [ArchiveNext]_allVars PROVE QuietInv'
<1> USE DEF QuietInv
<1>1. ASSUME NEW r \in Runs, RunStep(r) PROVE QuietInv'
  <2>1. UNCHANGED <<age, job, targets, kept, cur>>
      BY <1>1 DEF RunStep, archiveVars, jobVars, passVars
  <2>2. /\ phase[r] # "ended"
        /\ AtWork(r)' /\ Exists(r) => AtWork(r) /\ day'[r] = day[r]
        /\ \A q \in Runs \ {r} :
             phase'[q] = phase[q] /\ day'[q] = day[q] /\ (Published(q)' => Published(q))
      BY <1>1, RunFrame DEF RunStep
  <2>3. \A q \in targets \cup kept : phase'[q] = "ended" /\ ~Published(q)'
      BY <2>2 DEF JobTypeOK
  <2>4. ASSUME job # "off", NEW q \in Runs, AtWork(q)', age[day'[q]] > 0 PROVE FALSE
    <3>1. CASE q = r
      <4>1. Exists(r) \/ age[day'[r]] = 0
          BY <1>1, <2>4 DEF RunStep
      <4> QED
          BY <2>2, <2>4, <3>1, <4>1 DEF BusyOnOld
    <3>2. CASE q # r
        BY <2>2, <2>4, <3>2 DEF BusyOnOld, AtWork
    <3> QED
        BY <3>1, <3>2
  <2>5. job # "off" => ~BusyOnOld'
      BY <2>1, <2>4 DEF BusyOnOld
  <2> QED
      BY <2>1, <2>3, <2>5
<1>2. ASSUME JobOver PROVE QuietInv'
    BY <1>2 DEF JobOver, ForgetPass
<1>3. ASSUME job # "off", NextPass, UNCHANGED <<phase, day, age>> PROVE QuietInv'
  <2>1. BusyOnOld' = BusyOnOld
      BY <1>3 DEF BusyOnOld, AtWork
  <2> QED
      BY <1>2, <1>3, <2>1 DEF NextPass, ForgetPass
<1>4. ASSUME NEW d \in Days, GrowOld(d) PROVE QuietInv'
    BY <1>4 DEF GrowOld, jobVars, passVars
<1>5. ASSUME NEW p \in BOOLEAN, StartJob(p) PROVE QuietInv'
  <2>1. BusyOnOld' = BusyOnOld /\ ~BusyOnOld
      BY <1>5 DEF StartJob, vars, runVars, BusyOnOld, AtWork
  <2> QED
      BY <1>5, <2>1 DEF StartJob, passVars
<1>6. ASSUME UNCHANGED <<vars, age>> PROVE /\ BusyOnOld' = BusyOnOld
                                          /\ \A q \in Runs : /\ phase'[q] = phase[q]
                                                             /\ Published(q)' = Published(q)
    BY <1>6 DEF vars, runVars, boardVars, BusyOnOld, AtWork, Published
<1>7. CASE ListTargets
  <2>1. CASE Archivable = {}
      BY <1>3, <1>7, <2>1 DEF ListTargets, vars, runVars
  <2>2. CASE Archivable # {}
    <3>1. \A q \in Archivable : q \in Runs /\ phase[q] = "ended" /\ ~Published(q)
      <4> SUFFICES ASSUME NEW q \in Archivable PROVE phase[q] = "ended"
          BY DEF Archivable
      <4>1. pass \in 1..3 /\ ~BusyOnOld
          BY <1>7, Constants DEF ListTargets, JobTypeOK
      <4>2. q \in Runs /\ Exists(q) /\ day[q] \in Days
          BY DEF Archivable, TypeOK
      <4>3. age[day[q]] > 0
          BY <4>1, <4>2, Constants DEF Archivable, JobTypeOK
      <4> QED
          BY <4>1, <4>2, <4>3 DEF BusyOnOld, AtWork, Exists, TypeOK
    <3>2. job = "list" /\ job' = "export" /\ targets' = Archivable /\ UNCHANGED <<cur, kept, vars, age>>
        BY <1>7, <2>2 DEF ListTargets
    <3> QED
        BY <1>6, <3>1, <3>2, NoRunAssumption
  <2> QED
      BY <2>1, <2>2
<1>8. ASSUME NEW r \in Runs, ExportFile(r) PROVE QuietInv'
  <2>1. /\ job = "export" /\ job' \in {"export", "verify"} /\ cur' = r /\ r \in targets
        /\ UNCHANGED <<vars, age, targets, kept>>
      BY <1>8 DEF ExportFile
  <2> QED
      BY <1>6, <2>1 DEF JobTypeOK
<1>9. CASE Verify
  <2>1. /\ job = "verify" /\ cur \in targets /\ cur' = None /\ targets' = targets \ {cur}
        /\ kept' \subseteq kept \cup {cur} /\ job' = IF targets = {cur} THEN "prune" ELSE "export"
        /\ UNCHANGED <<vars, age>>
      BY <1>9 DEF Verify, JobTypeOK
  <2> QED
      BY <1>6, <2>1 DEF JobTypeOK
<1>10. CASE Prune
    BY <1>3, <1>10 DEF Prune
<1>11. CASE Abort
    BY <1>2, <1>11 DEF Abort
<1>12. CASE UNCHANGED allVars
    BY <1>6, <1>12 DEF allVars, archiveVars, jobVars, passVars, JobTypeOK
<1> QED
    BY <1>1, <1>4, <1>5, <1>7, <1>8, <1>9, <1>10, <1>11, <1>12 DEF ArchiveNext, JobStep

\* What a pass exported and verified stays as it is until the pass is over.
LEMMA DiskStep ==
    ASSUME TypeOK, JobTypeOK, QuietInv, DiskInv, [ArchiveNext]_allVars PROVE DiskInv'
<1>1. ASSUME UNCHANGED <<kept, cur, file, manifest, job, disk>>,
             \A q \in targets \cup kept : rows'[q] = rows[q]
      PROVE  DiskInv'
  <2>1. \A q \in targets \cup kept, t \in Files : Stored(q, t)' = Stored(q, t)
      BY <1>1 DEF Stored
  <2>2. \A i \in DOMAIN EXPORTS : EXPORTS[i] \in Files
      BY Constants
  <2> QED
      BY <1>1, <2>1, <2>2 DEF DiskInv, QuietInv
<1>2. ASSUME JobOver \/ NextPass PROVE DiskInv'
    BY <1>2, Constants DEF JobOver, NextPass, ForgetPass, DiskInv
<1>3. ASSUME NEW r \in Runs, RunStep(r) PROVE DiskInv'
  <2>1. \A q \in targets \cup kept : rows'[q] = rows[q]
      BY <1>3, RunFrame DEF RunStep, QuietInv, JobTypeOK
  <2> QED
      BY <1>1, <1>3, <2>1 DEF RunStep, archiveVars, jobVars, passVars
<1>4. ASSUME NEW d \in Days, GrowOld(d) PROVE DiskInv'
    BY <1>1, <1>4 DEF GrowOld, vars, runVars, jobVars, passVars
<1>5. ASSUME NEW p \in BOOLEAN, StartJob(p) PROVE DiskInv'
  <2>1. job = "off" /\ job' = "list" /\ UNCHANGED <<rows, kept, cur, file, manifest, disk>>
      BY <1>5 DEF StartJob, vars, runVars, passVars
  <2>2. cur = None
      BY <2>1 DEF QuietInv
  <2> QED
      BY <2>1, <2>2 DEF DiskInv, Stored
<1>6. CASE ListTargets
  <2>1. CASE Archivable = {}
      BY <1>2, <1>6, <2>1 DEF ListTargets
  <2>2. CASE Archivable # {}
    <3>1. job = "list" /\ job' = "export" /\ UNCHANGED <<rows, kept, cur, file, manifest, disk>>
        BY <1>6, <2>2 DEF ListTargets, vars, runVars
    <3>2. cur = None
        BY <3>1 DEF QuietInv
    <3> QED
        BY <3>1, <3>2 DEF DiskInv, Stored
  <2> QED
      BY <2>1, <2>2
<1>7. ASSUME NEW r \in Runs, ExportFile(r) PROVE DiskInv'
  <2>1. PICK t \in Files : t = EXPORTS[file]
      BY Constants DEF JobTypeOK
  <2>2. /\ job = "export" /\ r \in targets /\ cur \in {None, r} /\ cur' = r /\ UNCHANGED <<rows, kept>>
        /\ manifest' = [manifest EXCEPT ![t] = Stored(r, t)]
        /\ \E content \in {Stored(r, t), None} : disk' = [disk EXCEPT ![r][t] = content]
      BY <1>7, <2>1 DEF ExportFile, FileContents, vars, runVars
  <2>3. \A q \in Runs : \A u \in Files : Stored(q, u)' = Stored(q, u)
      BY <2>2 DEF Stored
  <2>4. \A q \in kept : \A u \in Files : disk'[q][u] = Stored(q, u)'
    <3>1. \A q \in kept : q # r /\ q \in Runs
        BY <2>2 DEF QuietInv, JobTypeOK
    <3>2. \A q \in kept : disk'[q] = disk[q]
        BY <2>2, <3>1 DEF JobTypeOK
    <3> QED
        BY <2>3, <3>1, <3>2 DEF DiskInv
  <2>5. \A i \in 1..3 : i < file => manifest[EXPORTS[i]] = Stored(r, EXPORTS[i])
    <3>1. CASE cur = None
        BY <3>1, Constants DEF DiskInv, JobTypeOK
    <3>2. CASE cur = r
        BY <3>2, NoRunAssumption, Constants DEF DiskInv, JobTypeOK
    <3> QED
        BY <2>2, <3>1, <3>2
  <2>6. \A i \in 1..3 : i <= file => manifest'[EXPORTS[i]] = Stored(r, EXPORTS[i])
    <3>1. \A u \in Files : manifest'[u] = IF u = t THEN Stored(r, t) ELSE manifest[u]
        BY <2>2 DEF JobTypeOK
    <3>2. \A i \in 1..3 : EXPORTS[i] \in Files
        BY Constants
    <3>3. \A i \in 1..3 : i = file => EXPORTS[i] = t
        BY <2>1
    <3>4. file \in 1..3
        BY Constants DEF JobTypeOK
    <3> QED
        BY <2>5, <3>1, <3>2, <3>3, <3>4
  <2>7. CASE file < Len(EXPORTS) /\ file' = file + 1 /\ UNCHANGED job
    <3>1. file \in 1..3 /\ cur' # None /\ job' = "export"
        BY <2>2, <2>7, NoRunAssumption, Constants DEF JobTypeOK
    <3>2. \A i \in DOMAIN EXPORTS : i < file' => manifest'[EXPORTS[i]] = Stored(r, EXPORTS[i])'
        BY <2>3, <2>6, <2>7, <3>1, Constants
    <3> QED
        BY <2>2, <2>4, <3>1, <3>2 DEF DiskInv
  <2>8. CASE file = Len(EXPORTS) /\ file' = 1 /\ job' = "verify"
    <3>1. \A i \in DOMAIN EXPORTS : manifest'[EXPORTS[i]] = Stored(r, EXPORTS[i])'
        BY <2>3, <2>6, <2>8, Constants
    <3> QED
        BY <2>2, <2>4, <2>8, <3>1 DEF DiskInv
  <2> QED
      BY <1>7, <2>7, <2>8 DEF ExportFile
<1>8. CASE Verify
  <2>1. /\ job = "verify" /\ cur # None /\ cur \in Runs /\ cur' = None
        /\ UNCHANGED <<rows, file, disk>>
        /\ kept' = kept \cup (IF disk[cur] = manifest THEN {cur} ELSE {})
      BY <1>8 DEF Verify, Intact, vars, runVars, JobTypeOK
  <2>2. \A t \in Files : manifest[t] = Stored(cur, t)
    <3>1. \A t \in Files : \E i \in DOMAIN EXPORTS : EXPORTS[i] = t
        BY Constants
    <3> QED
        BY <2>1, <3>1 DEF DiskInv
  <2>3. \A q \in kept' : \A t \in Files : disk'[q][t] = Stored(q, t)'
      BY <2>1, <2>2 DEF DiskInv, Stored
  <2> QED
      BY <2>1, <2>3 DEF DiskInv
<1>9. CASE Prune
    BY <1>2, <1>9 DEF Prune
<1>10. CASE Abort
    BY <1>2, <1>10 DEF Abort
<1>11. CASE UNCHANGED allVars
    BY <1>1, <1>11 DEF allVars, vars, runVars, archiveVars, jobVars, passVars
<1> QED
    BY <1>3, <1>4, <1>5, <1>6, <1>7, <1>8, <1>9, <1>10, <1>11 DEF ArchiveNext, JobStep

\* The start.
LEMMA ArchiveStarts == ArchiveInit => ArchiveInv
<1> SUFFICES ASSUME ArchiveInit PROVE ArchiveInv
    OBVIOUS
<1> USE DEF ArchiveInit, Init
<1>1. TypeOK
    BY Constants DEF TypeOK, Exists
<1>2. JobTypeOK
  <2>1. manifest \in [Files -> SUBSET Chunks]
      BY DEF NoRows
  <2>2. disk \in [Runs -> [Files -> (SUBSET Chunks) \cup {None}]]
      OBVIOUS
  <2>3. age \in [Days -> 0..Len(PRUNE_ORDER)]
      BY Constants
  <2>4. pass \in DOMAIN PRUNE_ORDER /\ file \in DOMAIN EXPORTS
      BY Constants
  <2> QED
      BY <2>1, <2>2, <2>3, <2>4 DEF JobTypeOK
<1>3. \A r \in Runs : ~Published(r)
    BY NoRunAssumption DEF Published
<1>4. WorkInv
    BY <1>3, Constants DEF WorkInv
<1>5. QuietInv
    BY DEF QuietInv
<1>6. DiskInv
    BY DEF DiskInv
<1> QED
    BY <1>1, <1>2, <1>4, <1>5, <1>6 DEF ArchiveInv, ArchiveTypeOK

\* Every step keeps the whole invariant.
LEMMA ArchiveStep ==
    ASSUME Overlap = FALSE, ArchiveInv, [ArchiveNext]_allVars PROVE ArchiveInv'
BY ArchiveTypeStep, WorkStep, QuietStep, DiskStep DEF ArchiveInv, ArchiveTypeOK

----------------------------------------------------------------------------
\* The job's variables keep their types.  This needs nothing of Overlap.
THEOREM ArchiveTypeCorrect == ArchiveSpec => []ArchiveTypeOK
<1>1. ArchiveInit => ArchiveTypeOK
    BY ArchiveStarts DEF ArchiveInv
<1> QED
    BY <1>1, ArchiveTypeStep, PTL DEF ArchiveSpec

\* What runs store, and what a pass exported and verified, stays intact until the
\* pass is over, if nobody scores an old day while a job is under way.
THEOREM ArchiveInvariance == ASSUME Overlap = FALSE PROVE ArchiveSpec => []ArchiveInv
<1>1. ArchiveInit => ArchiveInv
    BY ArchiveStarts
<1>2. ArchiveInv /\ [ArchiveNext]_allVars => ArchiveInv'
    BY ArchiveStep
<1> QED
    BY <1>1, <1>2, PTL DEF ArchiveSpec

\* No archive job takes a row from under a publication: readers are only ever sent
\* to runs whose every row is stored.
THEOREM PublicationsStayWhole ==
    ASSUME Overlap = FALSE PROVE ArchiveSpec => []PublishedWhole
<1>1. ArchiveInv => PublishedWhole
  <2> SUFFICES ASSUME ArchiveInv, NEW d \in Days, board[d] # None PROVE rows[board[d]] = Chunks
      BY DEF PublishedWhole
  <2>1. board[d] \in Runs /\ Published(board[d])
      BY DEF ArchiveInv, ArchiveTypeOK, TypeOK, Published
  <2> QED
      BY <2>1 DEF ArchiveInv, WorkInv
<1> QED
    BY <1>1, ArchiveInvariance, PTL

\* Only prune deletes rows, and of runs whose archive verified in the same pass.
LEMMA OnlyPruneDeletes ==
    ASSUME ArchiveTypeOK, [ArchiveNext]_allVars, NEW r \in Runs, ~(rows[r] \subseteq rows'[r])
    PROVE  Prune /\ r \in kept
<1>1. (\E q \in Runs : RunStep(q)) \/ Prune \/ UNCHANGED vars
    BY DEF ArchiveNext, JobStep, GrowOld, StartJob, ListTargets, ExportFile, Verify, Abort, allVars
<1>2. ~(\E q \in Runs : RunStep(q))
    BY RunFrame DEF RunStep, ArchiveTypeOK
<1>3. ~(UNCHANGED vars)
    BY DEF vars, runVars
<1> QED
    BY <1>1, <1>2, <1>3 DEF Prune, Without

\* Whatever row an archive job deletes is in an intact archive file at that moment.
THEOREM DeletionsAreArchived ==
    ASSUME Overlap = FALSE PROVE ArchiveSpec => DeletedAreOnDisk
<1> DEFINE Kept == \A r \in Runs : \A t \in Files :
               LET lost == Stored(r, t) \ rows'[r]
               IN  lost # {} => disk[r][t] # None /\ lost \subseteq disk[r][t]
<1>1. ArchiveInv /\ [ArchiveNext]_allVars => [Kept]_allVars
  <2> SUFFICES ASSUME ArchiveInv, [ArchiveNext]_allVars, NEW r \in Runs, NEW t \in Files,
                      Stored(r, t) \ rows'[r] # {}
               PROVE  disk[r][t] # None /\ Stored(r, t) \ rows'[r] \subseteq disk[r][t]
      OBVIOUS
  <2>1. ~(rows[r] \subseteq rows'[r])
      BY DEF Stored
  <2>2. disk[r][t] = Stored(r, t)
      BY <2>1, OnlyPruneDeletes DEF ArchiveInv, DiskInv
  <2>3. Stored(r, t) # None
      BY StoredChunks, NoFileAssumption DEF ArchiveInv, ArchiveTypeOK, TypeOK
  <2> QED
      BY <2>2, <2>3
<1> QED
    BY <1>1, ArchiveInvariance, PTL DEF ArchiveSpec, DeletedAreOnDisk

\* Scoring runs and archive jobs together behave as one publication board that is
\* swapped atomically and never loses rows of what is on it.
THEOREM ArchiveRefinement ==
    ASSUME Overlap = FALSE PROVE ArchiveSpec => ImplementsPublication
<1> DEFINE Whole == {r \in Runs : rows[r] = Chunks}
<1>1. ArchiveInit => Posting!Init
    BY DEF ArchiveInit, Init, Posting!Init
<1>2. ArchiveInv /\ [ArchiveNext]_allVars => [Posting!Next]_(Posting!vars)
  <2> SUFFICES ASSUME TypeOK, WorkInv, QuietInv, [ArchiveNext]_allVars
               PROVE  [Posting!Next]_(Posting!vars)
      BY DEF ArchiveInv, ArchiveTypeOK
  <2>1. ASSUME NEW r \in Runs, (\E d \in Days : Begin(r, d)) \/ Count(r) \/ End(r)
        PROVE  UNCHANGED Posting!vars
      BY <2>1 DEF Begin, Count, End, boardVars, Posting!vars
  <2>2. ASSUME NEW r \in Runs, Store(r) PROVE [Posting!Next]_(Posting!vars)
    <3>1. UNCHANGED <<board, past>>
        BY <2>2 DEF Store, boardVars
    <3>2. \A q \in Runs \ {r} : rows'[q] = rows[q]
        BY <2>2 DEF Store, TypeOK
    <3>3. rows[r] # Chunks
        BY <2>2, Constants DEF Store, WorkInv, TypeOK
    <3>4. Whole' = Whole \cup {r} \/ Whole' = Whole
        BY <3>2, <3>3
    <3>5. CASE Whole' = Whole
        BY <3>1, <3>5 DEF Posting!vars
    <3>6. CASE Whole' = Whole \cup {r}
      <4>1. Posting!Fill(r)
          BY <3>1, <3>6 DEF Posting!Fill
      <4> QED
          BY <4>1 DEF Posting!Next
    <3> QED
        BY <3>4, <3>5, <3>6
  <2>3. ASSUME NEW r \in Runs, Post(r) PROVE [Posting!Next]_(Posting!vars)
    <3>1. PICK e \in Days : e = day[r]
        BY <2>3 DEF Post, TypeOK, Exists
    <3>2. rows[r] = Chunks
        BY <2>3, Constants DEF Post, WorkInv
    <3>3. \A d \in Days : \A i \in DOMAIN past[d] : past[d][i] # r
        BY <2>3 DEF Post, WorkInv
    <3>4. Posting!Post(r, e)
        BY <2>3, <3>1, <3>2, <3>3 DEF Post, Posting!Post
    <3> QED
        BY <3>4 DEF Posting!Next
  <2>4. CASE Prune
    <3> DEFINE S == Whole \ Whole'
    <3>1. UNCHANGED <<board, past>> /\ \A r \in Runs : rows'[r] \subseteq rows[r]
        BY <2>4 DEF Prune, Without, boardVars
    <3>2. \A r \in Runs : Published(r) => rows'[r] = rows[r]
        BY <2>4 DEF Prune, Without
    <3>3. \A d \in Days : board[d] \notin S
        BY <3>2 DEF Published
    <3>4. \A r \in Runs : rows[r] \subseteq Chunks
        BY DEF TypeOK
    <3>5. Whole' = Whole \ S
      <4>1. Whole' \subseteq Whole
          BY <3>1, <3>4
      <4> QED
          BY <4>1
    <3>6. PICK T \in SUBSET Runs : T = S
        OBVIOUS
    <3>7. Posting!Discard(T)
        BY <3>1, <3>3, <3>5, <3>6 DEF Posting!Discard
    <3> QED
        BY <3>7 DEF Posting!Next
  <2>5. CASE UNCHANGED vars
      BY <2>5 DEF vars, runVars, boardVars, Posting!vars
  <2>6. (\E r \in Runs : Step(r)) \/ Prune \/ UNCHANGED vars
      BY DEF ArchiveNext, RunStep, JobStep, GrowOld, StartJob, ListTargets, ExportFile, Verify, Abort,
         allVars
  <2> QED
      BY <2>1, <2>2, <2>3, <2>4, <2>5, <2>6 DEF Step
<1> QED
    BY <1>1, <1>2, ArchiveInvariance, PTL DEF ArchiveSpec, ImplementsPublication, Posting!Spec

============================================================================
