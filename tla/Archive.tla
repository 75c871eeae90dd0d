------------------------------ MODULE Archive ------------------------------
(***************************************************************************)
(* The archive job (`python -m scoring.run archive`) beside the scoring    *)
(* runs of RunLife: scoring/run.py _archive, scoring/archive.py, and       *)
(* export_run, record_snapshot, archivable_runs and prune of               *)
(* scoring/store/writer.py.  One job runs at a time, by hand, with one     *)
(* output directory.                                                       *)
(*                                                                         *)
(* A job makes one pass over each prunable table.  In a pass it exports    *)
(* every unpublished run older than that table is kept for, always all     *)
(* files of the run and always to the same paths; reads the files back;    *)
(* records the runs that verified; and deletes their rows of that table.   *)
(* A deletion from kss_scores takes the parts along (foreign key).         *)
(***************************************************************************)
EXTENDS RunLife

CONSTANT Overlap  \* may a scoring run work on an old day while a job is under way?

ASSUME OverlapAssumption == Overlap \in BOOLEAN
ASSUME NoFileAssumption == \A S \in SUBSET Chunks : S # None

PRUNE_ORDER == <<"parts", "universe", "scores">>
EXPORTS == <<"scores", "parts", "universe">>  \* files of tables nothing is pruned from left out
Files == CountedTables

VARIABLES
    age,       \* day -> how many of the three retention periods it is past
    job,       \* where the job is
    pass,      \* index in PRUNE_ORDER
    pruning,   \* --prune was given
    targets,   \* runs this pass has still to export
    cur, file, \* the run being exported, and the index of its next file
    manifest,  \* what the export read, file by file
    kept,      \* runs whose archive verified in this pass
    disk,      \* run -> file -> the rows in it; None if missing or spoiled
    snapshots  \* runs with a row in kss_input_snapshots that says verified

passVars == <<targets, cur, file, manifest, kept>>
jobVars == <<job, pass, pruning, passVars>>
archiveVars == <<age, jobVars, disk, snapshots>>
allVars == <<vars, archiveVars>>

NoRows == [t \in Files |-> {}]

\* A scoring run is at work on a day some table of which is due.
BusyOnOld == \E r \in Runs : AtWork(r) /\ age[day[r]] > 0

ArchiveInit ==
    /\ Init
    /\ age = [d \in Days |-> 0]
    /\ job = "off" /\ pass = 1 /\ pruning = FALSE
    /\ targets = {} /\ cur = None /\ file = 1 /\ manifest = NoRows /\ kept = {}
    /\ disk = [r \in Runs |-> [t \in Files |-> None]]
    /\ snapshots = {}

----------------------------------------------------------------------------
\* Nothing is left of a pass but what the disk and the database hold.
ForgetPass == targets' = {} /\ cur' = None /\ file' = 1 /\ manifest' = NoRows /\ kept' = {}

JobOver == job' = "off" /\ pass' = 1 /\ pruning' = FALSE /\ ForgetPass

\* Faulty: the loop runs over one table more.
NextPassTooFar ==
    \/ pass > Len(PRUNE_ORDER) /\ JobOver
    \/ pass <= Len(PRUNE_ORDER) /\ job' = "list" /\ pass' = pass + 1 /\ UNCHANGED pruning /\ ForgetPass

\* On to the next table, or the end.
NextPass ==
    \/ pass = Len(PRUNE_ORDER) /\ JobOver
    \/ pass < Len(PRUNE_ORDER) /\ job' = "list" /\ pass' = pass + 1 /\ UNCHANGED pruning /\ ForgetPass

\* Sessions pass: day d leaves the next retention period.  A job under way goes by
\* the cutoffs it computed when it started.
GrowOld(d) ==
    /\ job = "off"
    /\ age[d] < Len(PRUNE_ORDER)
    /\ age' = [age EXCEPT ![d] = @ + 1]
    /\ UNCHANGED <<vars, jobVars, disk, snapshots>>

StartJob(p) ==
    /\ job = "off"
    /\ Overlap \/ ~BusyOnOld
    /\ job' = "list"
    /\ pruning' = p
    /\ UNCHANGED <<vars, age, pass, passVars, disk, snapshots>>

\* Faulty: the query leaves it to prune to spare published runs.
ArchivablePublished == {r \in Runs : Exists(r) /\ age[day[r]] >= pass}

\* The runs of days past the period of this pass, except published ones.
Archivable == {r \in Runs : Exists(r) /\ age[day[r]] >= pass /\ ~Published(r)}

\* Faulty: the query asks for an earlier archive.
ListTargetsArchived ==
    /\ job = "list"
    /\ \/ Archivable \cap snapshots = {} /\ NextPass
       \/ /\ Archivable \cap snapshots # {}
          /\ job' = "export"
          /\ targets' = Archivable \cap snapshots
          /\ UNCHANGED <<pass, pruning, cur, file, manifest, kept>>
    /\ UNCHANGED <<vars, age, disk, snapshots>>

ListTargets ==
    /\ job = "list"
    /\ \/ Archivable = {} /\ NextPass
       \/ /\ Archivable # {}
          /\ job' = "export"
          /\ targets' = Archivable
          /\ UNCHANGED <<pass, pruning, cur, file, manifest, kept>>
    /\ UNCHANGED <<vars, age, disk, snapshots>>

\* write_jsonl_gz: what the file of table t may hold once it is written.  The disk
\* may spoil it without an error.
FileContents(r, t) == {Stored(r, t), None}

\* export_run, one file: the rows there are now replace what the file held.
ExportFile(r) ==
    /\ job = "export"
    /\ r \in targets /\ cur \in {None, r}
    /\ cur' = r
    /\ LET t == EXPORTS[file]
       IN  /\ manifest' = [manifest EXCEPT ![t] = Stored(r, t)]
           /\ \E content \in FileContents(r, t) : disk' = [disk EXCEPT ![r][t] = content]
    /\ \/ file < Len(EXPORTS) /\ file' = file + 1 /\ UNCHANGED job
       \/ file = Len(EXPORTS) /\ file' = 1 /\ job' = "verify"
    /\ UNCHANGED <<vars, age, pass, pruning, targets, kept, snapshots>>

\* verify: every file is read back and compared with what the export read.
Intact(r) == disk[r] = manifest

\* Faulty: verify decides what is recorded, but not what is pruned.
VerifyKeepsAll ==
    /\ job = "verify"
    /\ LET verified == IF Intact(cur) THEN {cur} ELSE {}
       IN  /\ snapshots' = snapshots \cup verified
           /\ kept' = kept \cup {cur}
    /\ targets' = targets \ {cur}
    /\ job' = IF targets = {cur} THEN "prune" ELSE "export"
    /\ cur' = None /\ manifest' = NoRows
    /\ UNCHANGED <<vars, age, pass, pruning, file, disk>>

\* The verdict on a run, and record_snapshot.  A run recorded as verified stays so,
\* even if a later archive of it does not verify.
Verify ==
    /\ job = "verify"
    /\ LET verified == IF Intact(cur) THEN {cur} ELSE {}
       IN  /\ snapshots' = snapshots \cup verified
           /\ kept' = kept \cup verified
    /\ targets' = targets \ {cur}
    /\ job' = IF targets = {cur} THEN "prune" ELSE "export"
    /\ cur' = None /\ manifest' = NoRows
    /\ UNCHANGED <<vars, age, pass, pruning, file, disk>>

\* The tables a deletion from table t empties.
Emptied(t) == IF t = "scores" THEN {"scores", "parts"} ELSE {t}

\* What deleting the rows of the runs in S leaves in the database.
Without(S, t) ==
    [r \in Runs |-> IF r \in S THEN {k \in rows[r] : WritePlan[k] \notin Emptied(t)} ELSE rows[r]]

\* prune: the conditions on the run are checked again when the rows go.
Prune ==
    /\ job = "prune"
    /\ rows' = Without({r \in kept : pruning /\ r \in snapshots /\ ~Published(r)}, PRUNE_ORDER[pass])
    /\ NextPass
    /\ UNCHANGED <<phase, day, cursor, boardVars, age, disk, snapshots>>

\* An exception or a kill ends the job; a file being written is left torn.
Abort ==
    /\ job # "off"
    /\ JobOver
    /\ \/ UNCHANGED disk
       \/ /\ job = "export"
          /\ \E r \in targets : /\ cur \in {None, r}
                                /\ disk' = [disk EXCEPT ![r][EXPORTS[file]] = None]
    /\ UNCHANGED <<vars, age, snapshots>>

----------------------------------------------------------------------------
\* Without Overlap nobody scores an old day while a job is under way.
RunStep(r) ==
    /\ Step(r)
    /\ Exists(r) \/ Overlap \/ job = "off" \/ age[day'[r]] = 0
    /\ UNCHANGED archiveVars

JobStep ==
    \/ \E p \in BOOLEAN : StartJob(p)
    \/ ListTargets
    \/ \E r \in Runs : ExportFile(r)
    \/ Verify
    \/ Prune
    \/ Abort

ArchiveNext ==
    \/ \E r \in Runs : RunStep(r)
    \/ JobStep
    \/ \E d \in Days : GrowOld(d)

ArchiveSpec == ArchiveInit /\ [][ArchiveNext]_allVars

\* A step of the job in which nothing goes wrong.
GoodExport(r) == ExportFile(r) /\ disk'[r][EXPORTS[file]] # None

GoodJobStep == ListTargets \/ (\E r \in Runs : GoodExport(r)) \/ Verify \/ Prune

\* Runs end, days age, a job goes on once started, and somebody starts one with
\* --prune again and again.
ArchiveFairness ==
    /\ \A r \in Runs : WF_allVars(AtWork(r) /\ RunStep(r))
    /\ \A d \in Days : SF_allVars(GrowOld(d))
    /\ SF_allVars(StartJob(TRUE))
    /\ WF_allVars(GoodJobStep)

FairArchiveSpec == ArchiveSpec /\ ArchiveFairness

----------------------------------------------------------------------------
\* Types of the job's variables, and its position in its loops.
JobTypeOK ==
    /\ age \in [Days -> 0..Len(PRUNE_ORDER)]
    /\ job \in {"off", "list", "export", "verify", "prune"}
    /\ pass \in DOMAIN PRUNE_ORDER /\ file \in DOMAIN EXPORTS
    /\ pruning \in BOOLEAN
    /\ targets \subseteq Runs /\ kept \subseteq Runs /\ snapshots \subseteq Runs
    /\ cur \in Runs \cup {None}
    /\ job = "verify" => cur # None
    /\ manifest \in [Files -> SUBSET Chunks]
    /\ disk \in [Runs -> [Files -> (SUBSET Chunks) \cup {None}]]

\* Types of all variables.
ArchiveTypeOK == TypeOK /\ JobTypeOK

\* Readers are only sent to runs whose every row is stored, although the rows
\* were counted in an earlier transaction than the one that publishes.
PublishedWhole == \A d \in Days : board[d] # None => rows[board[d]] = Chunks

\* Why they are, and why deletions stay behind the readers' backs, if nobody
\* scores an old day meanwhile.  WorkInv: what a run has stored is intact until it
\* ends, and after that if it is published.  QuietInv: the runs of a pass have ended
\* unpublished for good.  DiskInv: what was exported and verified is what is there.
WorkInv ==
    \A r \in Runs :
        /\ phase[r] # "ended" => rows[r] = 1..cursor[r] /\ ~Published(r)
        /\ phase[r] = "counted" => cursor[r] = Len(WritePlan)
        /\ Published(r) => rows[r] = Chunks
        /\ \A d \in Days : \A i \in DOMAIN past[d] : past[d][i] = r => phase[r] = "ended"

QuietInv ==
    /\ job # "off" => ~BusyOnOld
    /\ \A r \in targets \cup kept : phase[r] = "ended" /\ ~Published(r)
    /\ targets \cap kept = {}
    /\ job \in {"off", "list"} => targets = {} /\ kept = {}
    /\ job = "prune" => targets = {}
    /\ cur \in targets \cup {None}

DiskInv ==
    /\ \A r \in kept : \A t \in Files : disk[r][t] = Stored(r, t)
    /\ cur = None \/ job = "verify" => file = 1
    /\ cur # None => \A i \in DOMAIN EXPORTS :
         i < file \/ job = "verify" => manifest[EXPORTS[i]] = Stored(cur, EXPORTS[i])

ArchiveInv == ArchiveTypeOK /\ WorkInv /\ QuietInv /\ DiskInv

\* Whatever is deleted, in the pass of its own table or along with the scores,
\* is in the archive files at that moment, whatever files the disk spoiled,
\* whatever jobs broke off before, and whatever an older snapshot row says.
DeletedAreOnDisk ==
    [][\A r \in Runs : \A t \in Files :
        LET lost == Stored(r, t) \ rows'[r]
        IN  lost # {} => disk[r][t] # None /\ lost \subseteq disk[r][t]]_allVars

\* If jobs stop failing, in the end only published runs take up room: query,
\* export and deletion do not wait for one another, as they did when the query
\* asked for a snapshot.
OnlyPublishedRemain ==
    <>[][job # "off" => GoodJobStep \/ UNCHANGED jobVars]_allVars =>
        <>[](\A r \in Runs : \A t \in Files : Stored(r, t) # {} => Published(r))

\* The abstract publication board, with deletions.
Posting == INSTANCE Publication WITH whole <- {r \in Runs : rows[r] = Chunks}

\* Runs and archive jobs together still behave as one atomic board.
ImplementsPublication == Posting!Spec

\* docs/SPEC.md 7.4: old details can be restored from the archive.
PrunedIsRestorable ==
    \A r \in Runs : \A k \in (1..cursor[r]) \ rows[r] :
        WritePlan[k] \in Files =>
            disk[r][WritePlan[k]] # None /\ k \in disk[r][WritePlan[k]]

============================================================================
