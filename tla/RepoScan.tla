----------------------------- MODULE RepoScan -----------------------------
(***************************************************************************)
(* The scan of a repository (services/repo_analysis_service.py): the calls *)
(* that start it, stop it and delete its data, the background task, the    *)
(* table of running tasks, and the status row, which is the lock of a scan *)
(* and the signal that stops it.  The module follows one repository; the   *)
(* rows of the files are present or not (FileAnalysis has their status).   *)
(***************************************************************************)
EXTENDS Integers, FiniteSets

CONSTANTS
    Paths,        \* code files of the repository
    Dirs,         \* the order of os.walk: directories are 1 .. Dirs, 1 the root
    DirOf,        \* the directory of a file; 0 when it lies in an excluded one
    Batch,        \* rows written before a commit (200)
    ScanCallers,  \* requests: start, stop, delete
    NoScan,
    MaxScanTasks, \* bound: scans ever started
    MaxScanEdits, \* bound: changes on disk, crashes, failing statements
    MaxScanCalls  \* bound: requests

ASSUME ScanAssumption ==
    /\ DirOf \in [Paths -> 0 .. Dirs] /\ Dirs \in Nat \ {0} /\ Batch \in Nat \ {0}
    /\ NoScan \notin 1 .. MaxScanTasks /\ IsFiniteSet(Paths)
    /\ {MaxScanTasks, MaxScanEdits, MaxScanCalls} \subseteq Nat

VARIABLES
    onDisk,     \* code files that exist
    present,    \* directories that exist, 0 for the excluded one
    fileRows,   \* files with a committed row
    scanRow,    \* scan_status of the repository's task row; "none" without a row
    scanTable,  \* _running_scan_tasks
    scanTask,   \* _run_scan of each task
    call,       \* the requests under way
    scanUsed,   \* bounds spent
    undisturbed,\* history: tasks during which nothing else touched disk or rows
    orphaned    \* history: what left the row without a task since it was last acquired

scanVars == <<onDisk, present, fileRows, scanRow, scanTable, scanTask, call, scanUsed, undisturbed, orphaned>>
TaskIds == 1 .. MaxScanTasks
\* The files a scan can meet: those outside the excluded directories.
Code == {p \in Paths : DirOf[p] # 0}

-----------------------------------------------------------------------------
\* kept, history: the rows whose deletion failed at the end of the scan.
NoTaskYet == [pc |-> "none", listed |-> {}, dir |-> 0, todo |-> {}, seen |-> {}, batch |-> 0,
              add |-> {}, del |-> {}, kept |-> {}, cancelled |-> FALSE]
NoCall == [kind |-> "none", pc |-> "none", seen |-> "none"]

Alive(k) == scanTask[k].pc \notin {"none", "over"}
InTable == scanTable # NoScan /\ Alive(scanTable)
Committed(t) == (fileRows \cup t.add) \ t.del
FilesIn(d) == {p \in onDisk : DirOf[p] = d}
RowsIn(t, d) == {p \in Committed(t) : DirOf[p] = d}
\* os.walk has the names of the directories from their parents and passes over
\* those that are gone by the time it comes to them.
Ahead(t) == {d \in t.listed \cap present : d > t.dir}
Return(c) == call' = [call EXCEPT ![c] = NoCall]
CallGoto(c, pc) == call' = [call EXCEPT ![c].pc = pc]
SpendScan(kind) == scanUsed' = [scanUsed EXCEPT ![kind] = @ + 1]
MayEdit == scanUsed.edits < MaxScanEdits /\ SpendScan("edits")
Disturbed == undisturbed' = [k \in TaskIds |-> undisturbed[k] /\ ~Alive(k)]
KeepFiles == UNCHANGED <<onDisk, present, fileRows, undisturbed>>

ScanInit ==
    /\ onDisk \in SUBSET Code /\ fileRows \in {{}, Paths}
    /\ present \in {0 .. Dirs, {1} \cup {DirOf[p] : p \in onDisk}}
    /\ scanRow = "none" /\ scanTable = NoScan
    /\ scanTask = [k \in TaskIds |-> NoTaskYet]
    /\ call = [c \in ScanCallers |-> NoCall]
    /\ scanUsed = [tasks |-> 0, edits |-> 0, calls |-> 0]
    /\ undisturbed = [k \in TaskIds |-> TRUE]
    /\ orphaned = {}

-----------------------------------------------------------------------------
(* Requests.                                                               *)

Request(c, kind) ==
    /\ call[c] = NoCall /\ scanUsed.calls < MaxScanCalls /\ SpendScan("calls")
    /\ call' = [call EXCEPT ![c] = [kind |-> kind, pc |-> "read", seen |-> "none"]]
    /\ KeepFiles /\ UNCHANGED <<scanRow, scanTable, scanTask, orphaned>>

\* start_scan up to the lock: a missing row is inserted, a running one ends
\* the request.
ReadRow(c) ==
    /\ call[c].kind = "start" /\ call[c].pc = "read"
    /\ scanRow' = IF scanRow = "none" THEN "idle" ELSE scanRow
    /\ IF scanRow = "running" THEN Return(c) ELSE CallGoto(c, "lock")
    /\ KeepFiles /\ UNCHANGED <<scanTable, scanTask, scanUsed, orphaned>>

\* _acquire_scan_lock: UPDATE ... WHERE scan_status IN (idle, completed, failed)
AcquireLock(c) ==
    /\ call[c].pc = "lock"
    /\ IF scanRow \in {"idle", "completed", "failed"}
       THEN scanRow' = "running" /\ orphaned' = {} /\ CallGoto(c, "create")
       ELSE Return(c) /\ UNCHANGED <<scanRow, orphaned>>
    /\ KeepFiles /\ UNCHANGED <<scanTable, scanTask, scanUsed>>

\* The commit of the lock was carried out and raises, or the session cannot be
\* closed: the request fails, and the row says running.
RequestRaises(c) ==
    /\ MayEdit
    /\ call[c].pc = "create" /\ Return(c)
    /\ orphaned' = orphaned \cup {"its request failed"}
    /\ KeepFiles /\ UNCHANGED <<scanRow, scanTable, scanTask>>

\* Mutant of CreateTask: the task before it is not looked for.
CreateTask_Blind(c) ==
    LET k == scanUsed.tasks + 1 IN
    /\ call[c].pc = "create" /\ scanUsed.tasks < MaxScanTasks /\ SpendScan("tasks")
    /\ scanTask' = [scanTask EXCEPT ![k].pc = "new"]
    /\ scanTable' = k
    /\ Return(c)
    /\ KeepFiles /\ UNCHANGED <<scanRow, orphaned>>

\* The lock is held: a task that is not done yet ends the request all the
\* same, otherwise the scan starts.
CreateTask(c) ==
    /\ call[c].pc = "create"
    /\ IF InTable
       THEN /\ orphaned' = orphaned \cup {"met the task before it"}
            /\ UNCHANGED <<scanTable, scanTask, scanUsed>>
       ELSE LET k == scanUsed.tasks + 1 IN
            /\ scanUsed.tasks < MaxScanTasks /\ SpendScan("tasks")
            /\ scanTask' = [scanTask EXCEPT ![k].pc = "new"]
            /\ scanTable' = k
            /\ UNCHANGED orphaned
    /\ Return(c)
    /\ KeepFiles /\ UNCHANGED scanRow

\* stop_scan: the row is loaded, and written if it says anything but failed.
StopReads(c) ==
    /\ call[c].kind \in {"stop", "delete"} /\ call[c].pc = "read"
    /\ \/ scanRow = "none" /\ call[c].kind = "stop" /\ Return(c)
       \/ /\ scanRow # "none" /\ (call[c].kind = "stop" \/ scanRow = "running")
          /\ call' = [call EXCEPT ![c].pc = "fail", ![c].seen = scanRow]
       \* delete_repo_analysis_data stops running scans only.
       \/ scanRow # "running" /\ call[c].kind = "delete" /\ CallGoto(c, "delete")
    /\ KeepFiles /\ UNCHANGED <<scanRow, scanTable, scanTask, scanUsed, orphaned>>

StopWrites(c) ==
    /\ call[c].pc = "fail"
    /\ scanRow' = IF call[c].seen = "failed" \/ scanRow = "none" THEN scanRow ELSE "failed"
    /\ CallGoto(c, "cancel")
    /\ KeepFiles /\ UNCHANGED <<scanTable, scanTask, scanUsed, orphaned>>

\* The task that is in the table by now is cancelled, whichever it is.
StopCancels(c) ==
    /\ call[c].pc = "cancel"
    /\ IF InTable
       THEN /\ scanTask' = [scanTask EXCEPT ![scanTable].cancelled = TRUE]
            /\ orphaned' = IF scanRow = "running" THEN orphaned \cup {"stopped for the scan before it"}
                           ELSE orphaned
            /\ CallGoto(c, "wait")
       ELSE /\ IF call[c].kind = "delete" THEN CallGoto(c, "delete") ELSE Return(c)
            /\ UNCHANGED <<scanTask, orphaned>>
    /\ KeepFiles /\ UNCHANGED <<scanRow, scanTable, scanUsed>>

\* wait_for: the cancelled task's CancelledError ends the request, also that
\* of a deletion; after five seconds it goes on.
StopWaits(c) ==
    /\ call[c].pc = "wait"
    /\ \/ Return(c)
       \/ call[c].kind = "delete" /\ InTable /\ CallGoto(c, "delete")
    /\ KeepFiles /\ UNCHANGED <<scanRow, scanTable, scanTask, scanUsed, orphaned>>

DeleteData(c) ==
    /\ call[c].pc = "delete"
    /\ scanRow' = "none" /\ fileRows' = {}
    /\ Disturbed /\ Return(c)
    /\ UNCHANGED <<onDisk, present, scanTable, scanTask, scanUsed, orphaned>>

-----------------------------------------------------------------------------
(* The task.                                                               *)

TaskIs(k, pc) == scanTask[k].pc = pc /\ ~scanTask[k].cancelled
TaskTo(k, t) == scanTask' = [scanTask EXCEPT ![k] = t]
TaskOnly == UNCHANGED <<onDisk, present, scanRow, scanTable, call, scanUsed, undisturbed, orphaned>>

\* _assert_scan_is_running, at the start and before every directory that the
\* walk comes to; behind the last one nothing is asserted.
AssertRunning(k) ==
    LET t == [scanTask[k] EXCEPT !.listed = IF scanTask[k].pc = "new" THEN present ELSE @] IN
    /\ TaskIs(k, "new") \/ TaskIs(k, "dir")
    /\ \/ /\ Ahead(t) # {} /\ scanRow = "running"
          /\ \E d \in Ahead(t) :
                /\ \A e \in Ahead(t) : d <= e
                /\ TaskTo(k, [t EXCEPT !.pc = "files", !.dir = d, !.todo = FilesIn(d), !.seen = {}])
       \/ Ahead(t) # {} /\ scanRow # "running" /\ TaskTo(k, [t EXCEPT !.pc = "finish failed"])
       \/ Ahead(t) = {} /\ TaskTo(k, [t EXCEPT !.pc = "flush"])
    /\ TaskOnly /\ UNCHANGED fileRows

\* Mutant of ScanOneFile: the count of the rows is not reset by the commit.
ScanOneFile_CountsOn(k) ==
    LET t == scanTask[k] IN
    /\ TaskIs(k, "files")
    /\ \E p \in t.todo \cap onDisk :
        /\ TaskTo(k, [t EXCEPT !.todo = @ \ {p}, !.seen = @ \cup {p}, !.batch = @ + 1])
        /\ fileRows' = fileRows \cup {p}
    /\ TaskOnly

\* update_file_state of the next file; every Batch rows are committed.
ScanOneFile(k) ==
    LET t == scanTask[k] IN
    /\ TaskIs(k, "files")
    /\ \E p \in t.todo :
        LET s == [t EXCEPT !.todo = @ \ {p}]
            found == [s EXCEPT !.seen = @ \cup {p}, !.batch = @ + 1,
                               !.add = @ \cup {p}, !.del = @ \ {p}] IN
        IF p \notin onDisk
        THEN TaskTo(k, [s EXCEPT !.del = @ \cup {p}, !.add = @ \ {p}]) /\ UNCHANGED fileRows
        ELSE IF t.batch + 1 < Batch
        THEN TaskTo(k, found) /\ UNCHANGED fileRows
        ELSE TaskTo(k, [found EXCEPT !.batch = 0, !.add = {}, !.del = {}])
             /\ fileRows' = Committed(found)
    /\ TaskOnly

\* _delete_missing_files_in_cur_dir
DeleteMissing(k) ==
    LET t == scanTask[k]
        missing == RowsIn(t, t.dir) \ t.seen IN
    /\ TaskIs(k, "files") /\ t.todo = {}
    /\ TaskTo(k, [t EXCEPT !.pc = "dir", !.del = @ \cup missing, !.add = @ \ missing])
    /\ TaskOnly /\ UNCHANGED fileRows

\* Mutant of Flush: the last commit is forgotten.
Flush_Forgotten(k) ==
    /\ TaskIs(k, "flush")
    /\ TaskTo(k, [scanTask[k] EXCEPT !.pc = "excluded", !.add = {}, !.del = {}])
    /\ TaskOnly /\ UNCHANGED fileRows

\* The last commit, if rows were written since the one before; then the rows
\* below excluded directories go, each in a transaction of its own.
Flush(k) ==
    LET t == scanTask[k] IN
    /\ TaskIs(k, "flush")
    /\ fileRows' = IF t.batch > 0 THEN Committed(t) ELSE fileRows
    /\ TaskTo(k, [t EXCEPT !.pc = "excluded", !.add = {}, !.del = {}])
    /\ TaskOnly

\* Only the excluded directories that the walk met; a deletion that fails is
\* logged and leaves its row.
DeleteExcluded(k) ==
    LET t == scanTask[k]
        under == IF 0 \in t.listed THEN {p \in fileRows : DirOf[p] = 0} ELSE {} IN
    /\ TaskIs(k, "excluded")
    /\ \E failed \in SUBSET under :
        /\ IF failed = {} THEN UNCHANGED scanUsed ELSE MayEdit
        /\ fileRows' = (fileRows \ under) \cup failed
        /\ TaskTo(k, [t EXCEPT !.pc = "finish completed", !.kept = failed])
    /\ UNCHANGED <<onDisk, present, scanRow, scanTable, call, undisturbed, orphaned>>

\* A statement or the walk raises: what was not committed is lost.
TaskRaises(k) ==
    /\ MayEdit
    /\ \E pc \in {"new", "files", "dir", "flush", "excluded"} : TaskIs(k, pc)
    /\ TaskTo(k, [scanTask[k] EXCEPT !.pc = "finish failed", !.add = {}, !.del = {}])
    /\ UNCHANGED <<onDisk, present, fileRows, scanRow, scanTable, call, undisturbed, orphaned>>

\* Mutant of FinishTask: a failed scan does not say so.
FinishTask_Silent(k) ==
    /\ \/ TaskIs(k, "finish completed") /\ scanRow' = IF scanRow = "none" THEN "none" ELSE "completed"
       \/ TaskIs(k, "finish failed") /\ UNCHANGED scanRow
    /\ TaskTo(k, [scanTask[k] EXCEPT !.pc = "finally"])
    /\ UNCHANGED <<onDisk, present, fileRows, scanTable, call, scanUsed, undisturbed, orphaned>>

\* _finish_scan_task, whatever the row says by now.
FinishTask(k) ==
    /\ \/ TaskIs(k, "finish completed") /\ scanRow' = IF scanRow = "none" THEN "none" ELSE "completed"
       \/ TaskIs(k, "finish failed") /\ scanRow' = IF scanRow = "none" THEN "none" ELSE "failed"
    /\ TaskTo(k, [scanTask[k] EXCEPT !.pc = "finally"])
    /\ UNCHANGED <<onDisk, present, fileRows, scanTable, call, scanUsed, undisturbed, orphaned>>

\* It cannot be written how the scan ended: a completed one tries once more, as
\* a failed one; otherwise the row stays as it is.
FinishRaises(k) ==
    /\ MayEdit
    /\ \/ /\ TaskIs(k, "finish completed")
          /\ TaskTo(k, [scanTask[k] EXCEPT !.pc = "finish failed"])
          /\ UNCHANGED orphaned
       \/ /\ TaskIs(k, "finish failed")
          /\ TaskTo(k, [scanTask[k] EXCEPT !.pc = "finally"])
          /\ orphaned' = orphaned \cup {"could not write its end"}
    /\ UNCHANGED <<onDisk, present, fileRows, scanRow, scanTable, call, undisturbed>>

\* finally, also of a cancelled task: the entry of the repository goes.  A
\* task that was cancelled before it began runs nothing at all.
TaskEnds(k) ==
    LET t == scanTask[k] IN
    /\ t.pc = "finally" \/ (t.cancelled /\ Alive(k))
    /\ scanTable' = IF t.pc = "new" THEN scanTable ELSE NoScan
    /\ TaskTo(k, [NoTaskYet EXCEPT !.pc = "over"])
    /\ UNCHANGED <<onDisk, present, fileRows, scanRow, call, scanUsed, undisturbed, orphaned>>

-----------------------------------------------------------------------------
\* A file comes or goes, or a directory with all that is in it.
EditDisk ==
    /\ MayEdit
    /\ \/ \E p \in onDisk : onDisk' = onDisk \ {p} /\ UNCHANGED present
       \/ \E p \in Code \ onDisk : onDisk' = onDisk \cup {p} /\ present' = present \cup {DirOf[p]}
       \/ \E d \in present \ {1} : present' = present \ {d} /\ onDisk' = onDisk \ FilesIn(d)
       \/ \E d \in (0 .. Dirs) \ present : present' = present \cup {d} /\ UNCHANGED onDisk
    /\ Disturbed
    /\ UNCHANGED <<fileRows, scanRow, scanTable, scanTask, call, orphaned>>

ScanCrash ==
    /\ MayEdit
    /\ scanTable' = NoScan
    /\ scanTask' = [k \in TaskIds |-> IF Alive(k) THEN [NoTaskYet EXCEPT !.pc = "over"] ELSE scanTask[k]]
    /\ call' = [c \in ScanCallers |-> NoCall]
    /\ orphaned' = IF scanRow = "running" THEN orphaned \cup {"crash"} ELSE orphaned
    /\ UNCHANGED <<onDisk, present, fileRows, scanRow, undisturbed>>

TaskStep(k) ==
    \/ AssertRunning(k) \/ ScanOneFile(k) \/ DeleteMissing(k) \/ Flush(k) \/ DeleteExcluded(k)
    \/ TaskRaises(k) \/ FinishTask(k) \/ FinishRaises(k) \/ TaskEnds(k)

ScanNext ==
    \/ \E c \in ScanCallers :
        \/ \E kind \in {"start", "stop", "delete"} : Request(c, kind)
        \/ ReadRow(c) \/ AcquireLock(c) \/ RequestRaises(c) \/ CreateTask(c)
        \/ StopReads(c) \/ StopWrites(c) \/ StopCancels(c) \/ StopWaits(c) \/ DeleteData(c)
    \/ \E k \in TaskIds : TaskStep(k)
    \/ EditDisk \/ ScanCrash

ScanSpec == ScanInit /\ [][ScanNext]_scanVars

-----------------------------------------------------------------------------
ScanTypeOK ==
    /\ onDisk \subseteq Paths /\ fileRows \subseteq Paths
    /\ present \subseteq 0 .. Dirs /\ 1 \in present /\ \A p \in onDisk : DirOf[p] \in present
    /\ scanRow \in {"none", "idle", "running", "completed", "failed"}
    /\ scanTable \in TaskIds \cup {NoScan}
    /\ \A k \in TaskIds : LET t == scanTask[k] IN
        /\ t.pc \in {"none", "new", "dir", "files", "flush", "excluded", "finish completed",
                     "finish failed", "finally", "over"}
        /\ t.dir \in 0 .. Dirs /\ t.batch \in 0 .. Batch - 1
        /\ (t.todo \cup t.seen \cup t.add \cup t.del \cup t.kept) \subseteq Paths
        /\ t.listed \subseteq 0 .. Dirs
        /\ t.add \cap t.del = {}

\* Never two scans of a repository at a time, and the one that runs is the
\* one that stop_scan finds: not after a stop and a start, although the row is
\* free before the old task is gone (repo_analysis_service.py:91, :251).
ScanOne == \A k \in TaskIds : Alive(k) => scanTable = k

\* A row that says running has a scan behind it, or a request that is about
\* to start one.  Since it was acquired it may be orphaned, and keep every later
\* start away, in five ways only: the start met the task before it, or failed
\* when it had the lock; a stop came late and cancelled the scan after it; the
\* scan could not write its end; or the process died (_run_scan, lines 88-100,
\* 231-249, stop_scan).
ScanBehindRow ==
    scanRow = "running" =>
        \/ InTable /\ ~scanTask[scanTable].cancelled /\ scanTask[scanTable].pc # "finally"
        \/ \E c \in ScanCallers : call[c].pc = "create"
        \/ orphaned # {}

\* A scan that nothing interfered with leaves a row for every code file,
\* wherever the commits fall.  Of the other rows it leaves those in directories
\* that do not exist any more, which os.walk never comes to, and those of an
\* excluded directory whose deletion failed; and if the number of files is a
\* multiple of the batch, deletions behind the last commit are lost
\* (repo_analysis_service.py:273-315, 405-448, 477-485).
ScanRowsExact ==
    \A k \in TaskIds :
        scanTask[k].pc = "finish completed" /\ undisturbed[k] =>
            /\ onDisk \subseteq fileRows
            /\ Cardinality(onDisk) % Batch # 0 =>
                 \A p \in fileRows \ onDisk : DirOf[p] \notin present \/ p \in scanTask[k].kept

\* The status row is the lock it is meant to be: one scan at a time, and a
\* running row means a running scan but for the five known ways.
ScanLock == ScanTypeOK /\ ScanOne /\ ScanBehindRow

\* What the two give together: the table of a repository's files can be relied
\* on after a scan, and there is one scan to rely on.
ScanSound == ScanLock /\ ScanRowsExact
============================================================================
