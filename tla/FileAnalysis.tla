---------------------------- MODULE FileAnalysis ----------------------------
(***************************************************************************)
(* The background analysis of changed files                                *)
(* (services/file_analysis_service.py), together with the parts of         *)
(* services/repo_analysis_service.py that write the same rows: the scan    *)
(* that queues changed files and the deletion of a repository's data.      *)
(*                                                                         *)
(* A scheduler starts a pool of workers for every repository with pending  *)
(* or failed rows; a semaphore limits the pools that run.  A worker claims *)
(* a row with a conditional update, reads the file, replaces the vectors   *)
(* of its lines and of its symbols, each in a deletion and an insertion,   *)
(* and finishes the row through the copy of it that it loaded.  Every      *)
(* await is a boundary between two actions.                                *)
(***************************************************************************)
EXTENDS Integers, Sequences, SequencesExt, FiniteSets

CONSTANTS
    Repos, Files,
    RepoOf,       \* the repository of a file
    Slots,        \* names for workers; bounds how many exist at a time
    WorkerCount,  \* worker_count: the workers of a pool
    MaxPools,     \* _MAX_CONCURRENT_REPO_POOLS
    IdleRounds,   \* rounds without a claim after which a worker ends
    NoRow, NoRepo, NoFile,
    Versions,     \* contents a file can have
    Bare,         \* per kind of vector, the contents that yield none
    MaxEdits,     \* bound: changes of files on disk
    MaxScans,     \* bound: scans of a file
    MaxFaults,    \* bound: failing analyses, failing databases, crashes
    MaxDeletes,   \* bound: deletions of a repository's analysis data
    MaxEvents     \* bound: edits, scans, faults and deletions together

Kinds == {"lines", "symbols"}

ASSUME PoolAssumption ==
    /\ RepoOf \in [Files -> Repos]
    /\ WorkerCount \in Nat \ {0} /\ MaxPools \in Nat \ {0} /\ IdleRounds \in Nat \ {0}
    /\ IsFiniteSet(Slots) /\ IsFiniteSet(Repos)
    /\ 1 \in Versions /\ Versions \subseteq Nat \ {0} /\ Bare \in [Kinds -> SUBSET Nat]
    /\ {MaxEdits, MaxScans, MaxFaults, MaxDeletes, MaxEvents} \subseteq Nat

VARIABLES
    disk,     \* content of each file, 0 when it is absent
    row,      \* RepoFileAnalysisState of each file
    store,    \* the line vectors and the symbol vectors of each file
    worker,   \* _worker_loop coroutines
    pool,     \* worker_pool_runner of each repository, also in _running_tasks
    queue,    \* pools waiting for the semaphore
    permits,  \* value of _repo_pool_semaphore
    listed,   \* repositories the scheduler has read and not yet started
    scan,     \* what a scan has loaded of a file and will write
    del,      \* where delete_repo_analysis_data stands
    raced,    \* history: files at which two workers were at once, that changed
              \* under one, or whose data went under a row or a worker
    used      \* bounds spent, and the number of rows ever inserted

rows == <<row, store, raced>>
pools == <<worker, pool, queue, permits, listed>>
vars == <<disk, row, store, worker, pool, queue, permits, listed, scan, del, raced, used>>

-----------------------------------------------------------------------------
Statuses == {"pending", "running", "completed", "failed"}
Claimable == {"pending", "failed"}

\* due: last_finished_at is missing or older than the file on disk.
\* requeued: history, a scan queued the row again while it was running, or
\* through a copy that the row had outrun.
Row(id, status) == [id |-> id, status |-> status, due |-> TRUE, requeued |-> FALSE]

Off == [pc |-> "off", repo |-> NoRepo, file |-> NoFile, id |-> 0, seen |-> "pending",
        version |-> 0, result |-> "failed", idle |-> 0, member |-> FALSE]

HasRow(f) == row[f] # NoRow
FilesOf(r) == {f \in Files : RepoOf[f] = r}
Members(r) == {w \in Slots : worker[w].member /\ worker[w].repo = r}
Holds(w, f) == worker[w].file = f
Reading(w, f) == Holds(w, f) /\ worker[w].pc \in {"lines", "new lines", "symbols", "new symbols", "finish"}
\* Loaded through its id: SQLAlchemy updates WHERE id = record.id.
OwnRow(w) == HasRow(worker[w].file) /\ row[worker[w].file].id = worker[w].id

SameRow(f, seen) == HasRow(f) /\ row[f].id = seen.id

Events == used.edits + used.scans + used.faults + used.deletes
Limit == [edits |-> MaxEdits, scans |-> MaxScans, faults |-> MaxFaults, deletes |-> MaxDeletes]
MaySpend(kind) == used[kind] < Limit[kind] /\ Events < MaxEvents
Spend(kind) == used' = [used EXCEPT ![kind] = @ + 1]
Goto(w, pc) == worker' = [worker EXCEPT ![w].pc = pc]
NextRound(w) ==
    worker' = [worker EXCEPT ![w] =
        [Off EXCEPT !.pc = "claim", !.repo = worker[w].repo, !.member = worker[w].member]]

\* The vectors of one kind: the content whose vectors are all there, whether
\* others or parts lie beside them, and, as history, whether the last
\* replacement or deletion left what it found.
Nothing == [version |-> 0, rest |-> FALSE, kept |-> FALSE]
There(s) == s.version # 0 \/ s.rest
Kept(s) == [s EXCEPT !.kept = There(s)]
\* A deletion that fails, which nobody notices, was carried out in part or not.
Left(s) == {Kept(s), [version |-> 0, rest |-> There(s), kept |-> There(s)]}
Torn(s) == [s EXCEPT !.version = 0, !.rest = TRUE]
Added(s, v) == [s EXCEPT !.version = v, !.rest = @ \/ s.version \notin {0, v}]
\* A file that is absent, empty, in another language or that cannot be parsed
\* has no chunks or no symbols.
Yields(kind, v) == v # 0 /\ v \notin Bare[kind]
-----------------------------------------------------------------------------
Init ==
    /\ disk = [f \in Files |-> 1]
    /\ row = [f \in Files |-> Row(1, "pending")]
    /\ store = [f \in Files |-> [k \in Kinds |-> Nothing]]
    /\ worker = [w \in Slots |-> Off]
    /\ pool = [r \in Repos |-> "none"]
    /\ queue = <<>>
    /\ permits = MaxPools
    /\ listed = {}
    /\ scan = [f \in Files |-> NoFile]
    /\ del = [r \in Repos |-> "no"]
    /\ raced = [f \in Files |-> FALSE]
    /\ used = [edits |-> 0, scans |-> 0, faults |-> 0, deletes |-> 0, inserts |-> 1]

-----------------------------------------------------------------------------
(* The scheduler and the pools.                                            *)

ListRepos ==
    /\ listed = {}
    /\ listed' = {RepoOf[f] : f \in {g \in Files : HasRow(g) /\ row[g].status \in Claimable}}
    /\ listed' # {}
    /\ UNCHANGED <<disk, rows, worker, pool, queue, permits, scan, del, used>>

\* start_analysis does not suspend: the whole list is handled at once.
StartAnalysis ==
    LET new == {r \in listed : pool[r] = "none"} IN
    /\ listed # {}
    /\ listed' = {}
    /\ pool' = [r \in Repos |-> IF r \in new THEN "waiting" ELSE pool[r]]
    /\ \E order \in SetToSeqs(new) : queue' = queue \o order
    /\ UNCHANGED <<disk, rows, worker, permits, scan, del, used>>

EnterPool(r) ==
    /\ queue # <<>> /\ Head(queue) = r
    /\ permits > 0
    /\ LET free == {w \in Slots : worker[w] = Off}
           hired == CHOOSE h \in SUBSET free : Cardinality(h) = WorkerCount
       IN /\ Cardinality(free) >= WorkerCount
          /\ worker' = [w \in Slots |->
                IF w \in hired THEN [Off EXCEPT !.pc = "claim", !.repo = r, !.member = TRUE]
                               ELSE worker[w]]
    /\ queue' = Tail(queue)
    /\ permits' = permits - 1
    /\ pool' = [pool EXCEPT ![r] = "running"]
    /\ UNCHANGED <<disk, rows, listed, scan, del, used>>

\* gather returns when every worker has; the context manager releases.
LeavePool(r) ==
    /\ pool[r] = "running"
    /\ \A w \in Members(r) : worker[w].pc = "done"
    /\ worker' = [w \in Slots |-> IF w \in Members(r) THEN Off ELSE worker[w]]
    /\ pool' = [pool EXCEPT ![r] = "none"]
    /\ permits' = permits + 1
    /\ UNCHANGED <<disk, rows, queue, listed, scan, del, used>>

PoolFails_KeepsPermit(w, others) ==
    LET r == worker[w].repo IN
    IF ~worker[w].member
    THEN /\ worker' = [worker EXCEPT ![w] = Off]
         /\ UNCHANGED <<pool, permits>>
    ELSE /\ worker' = [v \in Slots |->
               IF v = w \/ (v \in others /\ worker[v].pc = "done") THEN Off
               ELSE IF v \in others THEN [worker[v] EXCEPT !.member = FALSE]
               ELSE worker[v]]
         /\ pool' = [pool EXCEPT ![r] = "none"]
         /\ UNCHANGED permits

\* An exception out of a worker ends gather, and with it the pool, but not
\* the other workers: they go on without a pool.
PoolFails(w, others) ==
    LET r == worker[w].repo IN
    IF ~worker[w].member
    THEN /\ worker' = [worker EXCEPT ![w] = Off]
         /\ UNCHANGED <<pool, permits>>
    ELSE /\ worker' = [v \in Slots |->
               IF v = w \/ (v \in others /\ worker[v].pc = "done") THEN Off
               ELSE IF v \in others THEN [worker[v] EXCEPT !.member = FALSE]
               ELSE worker[v]]
         /\ pool' = [pool EXCEPT ![r] = "none"]
         /\ permits' = permits + 1

\* Statements outside every try: the select of a claim, the loads, the
\* deletion of a file's data and the last commit.
WorkerRaises(w) ==
    /\ MaySpend("faults")
    /\ worker[w].pc \in {"claim", "load", "open", "remove", "wipe", "finish"}
    /\ PoolFails(w, Members(worker[w].repo) \ {w})
    /\ Spend("faults")
    /\ UNCHANGED <<disk, rows, queue, listed, scan, del>>

-----------------------------------------------------------------------------
(* A worker.                                                               *)

Ended(w) ==
    IF worker[w].member THEN [Off EXCEPT !.pc = "done", !.repo = worker[w].repo, !.member = TRUE]
                        ELSE Off

Idle(w) ==
    worker' = [worker EXCEPT ![w] =
        IF worker[w].idle + 1 = IdleRounds THEN Ended(w)
        ELSE [Off EXCEPT !.pc = "claim", !.repo = worker[w].repo,
                         !.member = worker[w].member, !.idle = worker[w].idle + 1]]

\* SELECT ... LIMIT 1.  The oldest comes first, by a timestamp that ties.
Select(w) ==
    /\ worker[w].pc = "claim"
    /\ LET found == {f \in FilesOf(worker[w].repo) :
                        HasRow(f) /\ row[f].status \in Claimable}
       IN \/ /\ found = {}
             /\ Idle(w)
          \/ \E f \in found :
                worker' = [worker EXCEPT ![w].pc = "mark", ![w].file = f, ![w].id = row[f].id]
    /\ UNCHANGED <<disk, rows, pool, queue, permits, listed, scan, del, used>>

MayClaim_AnyStatus(w) == OwnRow(w)

MayClaim(w) == OwnRow(w) /\ row[worker[w].file].status \in Claimable

\* UPDATE ... WHERE id AND status: one of two workers gets a row.
Mark(w) ==
    LET f == worker[w].file
        others == {v \in Slots \ {w} : Holds(v, f) /\ worker[v].pc # "mark"} IN
    /\ worker[w].pc = "mark"
    /\ \/ /\ MayClaim(w)
          /\ row' = [row EXCEPT ![f].status = "running"]
          /\ raced' = [raced EXCEPT ![f] = others # {}]
          /\ worker' = [worker EXCEPT ![w].pc = "load", ![w].idle = 0]
          /\ UNCHANGED used
       \/ /\ ~MayClaim(w)
          /\ Idle(w)
          /\ UNCHANGED <<row, raced, used>>
       \/ /\ MaySpend("faults") /\ Spend("faults")
          /\ Idle(w)
          /\ UNCHANGED <<row, raced>>
    /\ UNCHANGED <<disk, store, pool, queue, permits, listed, scan, del>>

Load(w) ==
    /\ worker[w].pc = "load"
    /\ IF OwnRow(w)
       THEN worker' = [worker EXCEPT ![w].pc = "open",
                                     ![w].seen = row[worker[w].file].status]
       ELSE NextRound(w)
    /\ UNCHANGED <<disk, rows, pool, queue, permits, listed, scan, del, used>>

\* The repository is read; then, without an await, the file is looked up
\* and sliced into line chunks.
Open(w) ==
    LET f == worker[w].file IN
    /\ worker[w].pc = "open"
    /\ \/ /\ disk[f] = 0
          /\ Goto(w, "remove")
          /\ UNCHANGED used
       \/ /\ disk[f] # 0
          /\ worker' = [worker EXCEPT ![w].pc = "lines", ![w].version = disk[f]]
          /\ UNCHANGED used
       \/ /\ MaySpend("faults") /\ Spend("faults")   \* repository not accessible
          /\ worker' = [worker EXCEPT ![w].pc = "finish", ![w].result = "failed"]
    /\ UNCHANGED <<disk, rows, pool, queue, permits, listed, scan, del>>

\* delete_file_analysis_data of a file that has gone: row first, vectors after.
RemoveRow(w) ==
    /\ worker[w].pc = "remove"
    /\ row' = [row EXCEPT ![worker[w].file] = NoRow]
    /\ Goto(w, "wipe")
    /\ UNCHANGED <<disk, store, raced, pool, queue, permits, listed, scan, del, used>>

\* The vectors of the files go, whoever wrote them; those of a kind stay when
\* the request for it fails.
WipeData(files, self) ==
    /\ \E failed \in SUBSET Kinds :
          /\ IF failed = {} THEN UNCHANGED used ELSE MaySpend("faults") /\ Spend("faults")
          /\ store' = [f \in Files |-> IF f \notin files THEN store[f]
                 ELSE [k \in Kinds |-> IF k \in failed THEN Kept(store[f][k]) ELSE Nothing]]
    /\ raced' = [f \in Files |-> raced[f] \/ (f \in files /\ (HasRow(f)
                    \/ \E v \in Slots \ self : Reading(v, f)))]

Wipe(w) ==
    /\ worker[w].pc = "wipe"
    /\ WipeData({worker[w].file}, {w})
    /\ NextRound(w)
    /\ UNCHANGED <<disk, row, pool, queue, permits, listed, scan, del>>

New(kind) == IF kind = "lines" THEN "new lines" ELSE "new symbols"
Ends(w, result) == worker' = [worker EXCEPT ![w].pc = "finish", ![w].result = result]
\* The vectors of one kind are dealt with: the file is read again for its AST,
\* or the analysis is complete.
GoesOn(w, kind) ==
    IF kind = "lines"
    THEN worker' = [worker EXCEPT ![w].pc = "symbols", ![w].version = disk[worker[w].file]]
    ELSE Ends(w, "completed")
Replaced(w, kind, s) == store' = [store EXCEPT ![worker[w].file][kind] = s]

\* A mutant: the failure of a part is not told.
AnalysisFails_Swallowed(w) ==
    /\ worker[w].pc \in Kinds \cup {New(k) : k \in Kinds}
    /\ MaySpend("faults") /\ Spend("faults")
    /\ Ends(w, "completed")
    /\ UNCHANGED <<disk, rows, pool, queue, permits, listed, scan, del>>

\* _analyze_file_all_types: any failing part fails the file.  An insertion that
\* fails may have been carried out in part.
AnalysisFails(w) ==
    /\ worker[w].pc \in Kinds \cup {New(k) : k \in Kinds}
    /\ MaySpend("faults") /\ Spend("faults")
    /\ Ends(w, "failed")
    /\ \/ UNCHANGED store
       \/ \E k \in Kinds : worker[w].pc = New(k) /\ Replaced(w, k, Torn(store[worker[w].file][k]))
    /\ UNCHANGED <<disk, row, raced, pool, queue, permits, listed, scan, del>>

\* A mutant: the old vectors are not deleted.
DeleteOld_Not(w, kind) ==
    /\ worker[w].pc = kind /\ Yields(kind, worker[w].version)
    /\ Goto(w, New(kind)) /\ UNCHANGED <<store, used>>
    /\ UNCHANGED <<disk, row, raced, pool, queue, permits, listed, scan, del>>
\* vectorize_and_store_line_chunks and _symbol_summaries: what there is of the
\* file is deleted before the new vectors are inserted.
DeleteOld(w, kind) ==
    /\ worker[w].pc = kind /\ Yields(kind, worker[w].version)
    /\ Goto(w, New(kind))
    /\ \/ Replaced(w, kind, Nothing) /\ UNCHANGED used
       \/ /\ MaySpend("faults") /\ Spend("faults")
          /\ \E s \in Left(store[worker[w].file][kind]) : Replaced(w, kind, s)
    /\ UNCHANGED <<disk, row, raced, pool, queue, permits, listed, scan, del>>

InsertNew(w, kind) ==
    /\ worker[w].pc = New(kind)
    /\ Replaced(w, kind, Added(store[worker[w].file][kind], worker[w].version))
    /\ GoesOn(w, kind)
    /\ UNCHANGED <<disk, row, raced, pool, queue, permits, listed, scan, del, used>>

\* Without chunks or symbols they return early: the old vectors stay.
NothingNew(w, kind) ==
    /\ worker[w].pc = kind /\ ~Yields(kind, worker[w].version)
    /\ Replaced(w, kind, Kept(store[worker[w].file][kind]))
    /\ GoesOn(w, kind)
    /\ UNCHANGED <<disk, row, raced, pool, queue, permits, listed, scan, del, used>>

Finish_AlwaysDone(w) ==
    LET f == worker[w].file
        result == worker[w].result IN
    /\ worker[w].pc = "finish"
    /\ \/ /\ OwnRow(w)
          /\ row' = [row EXCEPT
                ![f].status = IF result # worker[w].seen THEN result ELSE @,
                ![f].due = FALSE]
          /\ NextRound(w)
          /\ UNCHANGED <<pool, permits>>
       \/ /\ ~OwnRow(w)
          /\ PoolFails(w, Members(worker[w].repo) \ {w})
          /\ UNCHANGED row
    /\ UNCHANGED <<disk, store, raced, queue, listed, scan, del, used>>

\* Only columns that differ from the loaded copy are written; last_finished_at
\* is newer than any file.  An update of a deleted row raises.
Finish(w) ==
    LET f == worker[w].file
        result == worker[w].result IN
    /\ worker[w].pc = "finish"
    /\ \/ /\ OwnRow(w)
          /\ row' = [row EXCEPT
                ![f].status = IF result # worker[w].seen THEN result ELSE @,
                ![f].due = @ /\ result # "completed"]
          /\ NextRound(w)
          /\ UNCHANGED <<pool, permits>>
       \/ /\ ~OwnRow(w)
          /\ PoolFails(w, Members(worker[w].repo) \ {w})
          /\ UNCHANGED row
    /\ UNCHANGED <<disk, store, raced, queue, listed, scan, del, used>>

-----------------------------------------------------------------------------
(* Files, scans, deletions and crashes.                                    *)

\* The file changes, goes away or comes back.
Edit(f) ==
    /\ MaySpend("edits")
    /\ Spend("edits")
    /\ \E version \in ({0} \cup Versions) \ {disk[f]} :
        disk' = [disk EXCEPT ![f] = version]
    /\ row' = IF HasRow(f) THEN [row EXCEPT ![f].due = TRUE] ELSE row
    /\ raced' = [raced EXCEPT ![f] = @ \/ \E w \in Slots : Reading(w, f)]
    /\ UNCHANGED <<store, pools, scan, del>>

\* update_file_state loads the row and decides; the write is flushed later.
ScanFile(f) ==
    /\ MaySpend("scans")
    /\ scan[f] = NoFile
    /\ IF disk[f] = 0
       THEN row' = [row EXCEPT ![f] = NoRow] /\ UNCHANGED scan
       ELSE /\ HasRow(f) => row[f].due /\ row[f].status # "pending"
            /\ scan' = [scan EXCEPT ![f] = row[f]]
            /\ UNCHANGED row
    /\ Spend("scans")
    /\ UNCHANGED <<disk, store, raced, pools, del>>

\* A row inserted or deleted meanwhile makes the scan fail.
FlushScan(f) ==
    LET seen == scan[f] IN
    /\ seen # NoFile
    /\ CASE seen = NoRow /\ ~HasRow(f) ->
              /\ row' = [row EXCEPT ![f] = Row(used.inserts + 1, "pending")]
              /\ Spend("inserts")
         [] seen # NoRow /\ SameRow(f, seen) ->
              /\ row' = [row EXCEPT ![f].status = "pending",
                                    ![f].requeued = @ \/ row[f].status = "running" \/ row[f] # seen]
              /\ UNCHANGED used
         [] OTHER -> UNCHANGED <<row, used>>
    /\ scan' = [scan EXCEPT ![f] = NoFile]
    /\ UNCHANGED <<disk, store, raced, pools, del>>

\* A cancelled waiter leaves the queue of the semaphore.
LeaveQueue(r) ==
    IF pool[r] = "waiting"
    THEN \E i \in 1..Len(queue) : queue[i] = r /\ queue' = RemoveAt(queue, i)
    ELSE UNCHANGED queue

StopAnalysis_Releases(r) ==
    /\ del[r] = "no"
    /\ MaySpend("deletes")
    /\ Spend("deletes")
    /\ IF pool[r] = "none"
       THEN /\ del' = [del EXCEPT ![r] = "rows"]
            /\ UNCHANGED <<worker, pool, queue, permits>>
       ELSE /\ del' = [del EXCEPT ![r] = "cancelled"]
            /\ worker' = [w \in Slots |-> IF w \in Members(r) THEN Off ELSE worker[w]]
            /\ pool' = [pool EXCEPT ![r] = "none"]
            /\ LeaveQueue(r)
            /\ permits' = permits + 1
    /\ UNCHANGED <<disk, rows, listed, scan>>

\* stop_analysis cancels the pool and awaits it.  A cancelled task raises
\* CancelledError in whoever awaits it, and "except Exception" lets it pass.
StopAnalysis(r) ==
    /\ del[r] = "no"
    /\ MaySpend("deletes")
    /\ Spend("deletes")
    /\ IF pool[r] = "none"
       THEN /\ del' = [del EXCEPT ![r] = "rows"]
            /\ UNCHANGED <<worker, pool, queue, permits>>
       ELSE /\ del' = [del EXCEPT ![r] = "cancelled"]
            /\ worker' = [w \in Slots |-> IF w \in Members(r) THEN Off ELSE worker[w]]
            /\ pool' = [pool EXCEPT ![r] = "none"]
            /\ LeaveQueue(r)
            /\ permits' = IF pool[r] = "running" THEN permits + 1 ELSE permits
    /\ UNCHANGED <<disk, rows, listed, scan>>

DeletionRaises(r) ==
    /\ del[r] = "cancelled"
    /\ del' = [del EXCEPT ![r] = "no"]
    /\ UNCHANGED <<disk, rows, pools, scan, used>>

\* A scan that runs is stopped first, in the same way.
DeleteRows(r) ==
    /\ del[r] = "rows"
    /\ IF \E f \in FilesOf(r) : scan[f] # NoFile
       THEN /\ scan' = [f \in Files |-> IF RepoOf[f] = r THEN NoFile ELSE scan[f]]
            /\ del' = [del EXCEPT ![r] = "cancelled"]
            /\ UNCHANGED row
       ELSE /\ row' = [f \in Files |-> IF RepoOf[f] = r THEN NoRow ELSE row[f]]
            /\ del' = [del EXCEPT ![r] = "vectors"]
            /\ UNCHANGED scan
    /\ UNCHANGED <<disk, store, raced, pools, used>>

DeleteVectors(r) ==
    /\ del[r] = "vectors"
    /\ del' = [del EXCEPT ![r] = "no"]
    /\ WipeData(FilesOf(r), {})
    /\ UNCHANGED <<disk, row, pools, scan>>

\* The process ends and starts again: only the database and the files stay.
Crash ==
    /\ MaySpend("faults")
    /\ Spend("faults")
    /\ worker' = [w \in Slots |-> Off]
    /\ pool' = [r \in Repos |-> "none"]
    /\ queue' = <<>> /\ permits' = MaxPools /\ listed' = {}
    /\ scan' = [f \in Files |-> NoFile]
    /\ del' = [r \in Repos |-> "no"]
    /\ UNCHANGED <<disk, rows>>

-----------------------------------------------------------------------------
WorkerStep(w) ==
    \/ Select(w) \/ Mark(w) \/ Load(w) \/ Open(w) \/ RemoveRow(w) \/ Wipe(w)
    \/ \E kind \in Kinds : DeleteOld(w, kind) \/ InsertNew(w, kind) \/ NothingNew(w, kind)
    \/ Finish(w)

Next ==
    \/ ListRepos \/ StartAnalysis
    \/ \E r \in Repos : \/ EnterPool(r) \/ LeavePool(r)
                         \/ StopAnalysis(r) \/ DeletionRaises(r)
                         \/ DeleteRows(r) \/ DeleteVectors(r)
    \/ \E w \in Slots : WorkerStep(w) \/ AnalysisFails(w) \/ WorkerRaises(w)
    \/ \E f \in Files : Edit(f) \/ ScanFile(f) \/ FlushScan(f)
    \/ Crash

Spec == Init /\ [][Next]_vars

\* The scheduler polls for ever, the event loop resumes every coroutine, and
\* the awaited statements and models return or raise.
FairSpec ==
    /\ Spec
    /\ WF_vars(ListRepos) /\ WF_vars(StartAnalysis)
    /\ \A r \in Repos : WF_vars(EnterPool(r)) /\ WF_vars(LeavePool(r))
    /\ \A w \in Slots : WF_vars(WorkerStep(w))

-----------------------------------------------------------------------------
Works == {"load", "open", "lines", "new lines", "symbols", "new symbols", "finish", "remove", "wipe"}
Rows == [id : Nat, status : Statuses, due : BOOLEAN, requeued : BOOLEAN]
Workers ==
    [pc : Works \cup {"off", "claim", "mark", "done"}, repo : Repos \cup {NoRepo},
     file : Files \cup {NoFile}, id : Nat, seen : Statuses, version : Nat,
     result : {"completed", "failed"}, idle : 0..(IdleRounds - 1), member : BOOLEAN]

TypeOK ==
    /\ disk \in [Files -> Nat]
    /\ row \in [Files -> Rows \cup {NoRow}]
    /\ store \in [Files -> [Kinds -> [version : Nat, rest : BOOLEAN, kept : BOOLEAN]]]
    /\ worker \in [Slots -> Workers]
    /\ pool \in [Repos -> {"none", "waiting", "running"}]
    /\ queue \in Seq(Repos)
    /\ permits \in 0..MaxPools
    /\ listed \in SUBSET Repos
    /\ scan \in [Files -> Rows \cup {NoRow, NoFile}]
    /\ del \in [Repos -> {"no", "cancelled", "rows", "vectors"}]
    /\ raced \in [Files -> BOOLEAN]
    /\ used \in [edits : Nat, scans : Nat, faults : Nat, deletes : Nat, inserts : Nat]

\* A row is in the hands of one worker, although all workers, with or
\* without a pool, select the same oldest row; only a scan that overlaps
\* an analysis and queues its row again hands it out twice.
ClaimsExclusive ==
    \A v, w \in Slots : \A f \in Files :
        /\ v # w /\ Holds(v, f) /\ Holds(w, f)
        /\ {worker[v].pc, worker[w].pc} \subseteq Works
        /\ OwnRow(v) /\ OwnRow(w)
        => row[f].requeued

\* The vectors of a kind: those of the file as it is now are all there, and
\* nothing else is, unless the last replacement found nothing to insert or its
\* deletion failed.
Fresh(kind, f) ==
    LET s == store[f][kind] IN
    /\ Yields(kind, disk[f]) => s.version = disk[f]
    /\ ~s.kept => ~s.rest /\ (s.version = 0 \/ s.version = disk[f])

\* A completed row that no scan would queue again has fresh vectors of both
\* kinds: except when two workers were at the file at once, when the file
\* changed after a worker had read it and before the row was finished, or when
\* a deletion of the file's data ran beside an analysis
\* (file_analysis_service.py:262-335, code_vector.py:28-75, 78-205).
FreshData ==
    \A f \in Files :
        HasRow(f) /\ disk[f] # 0 /\ ~raced[f]
        /\ row[f].status = "completed" /\ ~row[f].due
        => \A kind \in Kinds : Fresh(kind, f)

\* A crash, a cancellation or a failing database leaves rows running with
\* nobody at work on them, and no code resets them; yet the next scan of the
\* file queues them, because nothing has finished them since they fell due;
\* except when a scan that overlapped an analysis queued its row again.
StuckIsDue ==
    \A f \in Files :
        /\ HasRow(f) /\ row[f].status = "running"
        /\ ~\E w \in Slots : Holds(w, f) /\ worker[w].pc \in Works /\ OwnRow(w)
        => row[f].due \/ row[f].requeued

\* What the table says of a file can be relied on: up to date is up to date,
\* and what nobody works at is not forgotten.
RowsTell == TypeOK /\ FreshData /\ StuckIsDue

\* A pending or failed row is claimed in the end, however pools fail, are
\* cancelled, wait for the semaphore or lose a claim to another worker.
Claimed ==
    \A f \in Files :
        (HasRow(f) /\ row[f].status \in Claimable)
            ~> ~(HasRow(f) /\ row[f].status \in Claimable)

\* The route promises to clear the analysis data of a repository: when a
\* deletion ends, no row of the repository is left.
DeletionDeletes ==
    [][\A r \in Repos : del[r] # "no" /\ del'[r] = "no" =>
            \A f \in FilesOf(r) : row'[f] = NoRow]_vars
=============================================================================
