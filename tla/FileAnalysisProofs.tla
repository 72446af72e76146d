------------------------- MODULE FileAnalysisProofs -------------------------
(***************************************************************************)
(* TLAPS proofs that claims are exclusive and that the table of rows can   *)
(* be relied on, for any number of repositories, files, workers and pools, *)
(* and any number of failures and restarts; for the scans that put files   *)
(* into a table of rows, that their status row is a lock and that the rows *)
(* are the files, for any directories and any size of a batch; and, for    *)
(* the language servers that the analysis and the tools ask, that calls    *)
(* find their server and get their own answers.                            *)
(***************************************************************************)
EXTENDS FileAnalysis, RepoScan, LspClients, SequenceTheorems, FiniteSetTheorems, TLAPS

\* The part of TypeOK that the proof needs, without its bounds.
Shape ==
    /\ disk \in [Files -> Nat]
    /\ row \in [Files -> Rows \cup {NoRow}]
    /\ worker \in [Slots -> Workers]
    /\ pool \in [Repos -> {"none", "waiting", "running"}]
    /\ used \in [edits : Nat, scans : Nat, faults : Nat, deletes : Nat, inserts : Nat]

\* Who works has a file, and no id is newer than the last insert.
Ids ==
    /\ \A w \in Slots : worker[w].pc \in Works \cup {"mark"} => worker[w].file \in Files
    /\ \A w \in Slots : worker[w].id <= used.inserts
    /\ \A f \in Files : HasRow(f) => row[f].id <= used.inserts

\* The row of a worker is running, unless a scan took it back.
ClaimedRuns ==
    \A w \in Slots :
        worker[w].pc \in Works /\ OwnRow(w) /\ ~row[worker[w].file].requeued
            => row[worker[w].file].status = "running"

IInv == Shape /\ Ids /\ ClaimedRuns /\ ClaimsExclusive

-----------------------------------------------------------------------------
\* Every round number starts within the bound.
LEMMA FirstRound == 0 \in 0..(IdleRounds - 1)
  BY PoolAssumption DEF PoolAssumption

LEMMA Rest == {"off", "claim", "mark", "done"} \cap Works = {}
  BY DEF Works

LEMMA InitIInv == Init => IInv
  <1> SUFFICES ASSUME Init PROVE IInv
    OBVIOUS
  <1>1. Off \in Workers
    BY FirstRound DEF Off, Workers, Statuses
  <1>2. Row(1, "pending") \in Rows /\ Row(1, "pending").id = 1
    BY DEF Row, Rows, Statuses
  <1>3. \A w \in Slots : worker[w].pc \notin Works \cup {"mark"} /\ worker[w].id = 0
    BY DEF Init, Off, Works
  <1>4. Shape
    BY <1>1, <1>2 DEF Init, Shape
  <1>5. Ids
    BY <1>2, <1>3 DEF Init, Ids, HasRow
  <1>6. ClaimedRuns /\ ClaimsExclusive
    BY <1>3 DEF ClaimedRuns, ClaimsExclusive
  <1>7. QED
    BY <1>4, <1>5, <1>6 DEF IInv

\* A worker gets no new row, and a row keeps what ClaimedRuns says of it, is
\* taken back by a scan, goes away, or is newer than every worker's copy.
WorkerKept(w) ==
    worker'[w].pc \in Works =>
        /\ worker[w].pc \in Works
        /\ worker'[w].file = worker[w].file
        /\ worker'[w].id = worker[w].id
RowKept(f) ==
    HasRow(f)' =>
        \/ row'[f].id > used.inserts
        \/ /\ HasRow(f)
           /\ row'[f].id = row[f].id
           /\ \/ row'[f].requeued
              \/ /\ row'[f].requeued = row[f].requeued
                 /\ row'[f].status = row[f].status \/ row[f].status # "running"

LEMMA KeptSteps ==
    ASSUME IInv, (Shape /\ Ids)', \A w \in Slots : WorkerKept(w), \A f \in Files : RowKept(f)
    PROVE  IInv'
  <1>1. ASSUME NEW w \in Slots, worker'[w].pc \in Works, OwnRow(w)'
        PROVE  LET f == worker[w].file IN
               /\ f \in Files /\ worker'[w].file = f /\ worker[w].pc \in Works
               /\ OwnRow(w)
               /\ \/ row'[f].requeued
                  \/ /\ row'[f].requeued = row[f].requeued
                     /\ row'[f].status = row[f].status \/ row[f].status # "running"
    <2> DEFINE f == worker[w].file
    <2>1. worker[w].pc \in Works /\ worker'[w].file = f /\ worker'[w].id = worker[w].id
      BY <1>1 DEF WorkerKept
    <2>2. f \in Files /\ worker[w].id <= used.inserts /\ worker[w].id \in Nat /\ used.inserts \in Nat
      BY <2>1 DEF IInv, Ids, Shape, Workers
    <2>3. HasRow(f)' /\ row'[f].id = worker[w].id
      BY <1>1, <2>1 DEF OwnRow, HasRow
    <2>4. ~(row'[f].id > used.inserts)
      BY <2>2, <2>3
    <2>5. QED
      BY <2>1, <2>2, <2>3, <2>4 DEF RowKept, OwnRow
  <1>2. ClaimedRuns'
    BY <1>1 DEF IInv, ClaimedRuns
  <1>3. ClaimsExclusive'
    <2> SUFFICES ASSUME NEW v \in Slots, NEW w \in Slots, NEW f \in Files,
                        v # w, Holds(v, f)', Holds(w, f)',
                        worker'[v].pc \in Works, worker'[w].pc \in Works,
                        OwnRow(v)', OwnRow(w)'
                 PROVE  row'[f].requeued
      BY DEF ClaimsExclusive
    <2>1. /\ worker[v].file = f /\ worker[w].file = f
          /\ worker[v].pc \in Works /\ worker[w].pc \in Works /\ OwnRow(v) /\ OwnRow(w)
      BY <1>1 DEF Holds
    <2>2. row[f].requeued
      BY <2>1 DEF IInv, ClaimsExclusive, Holds
    <2>3. QED
      BY <1>1, <2>1, <2>2
  <1>4. QED
    BY <1>2, <1>3 DEF IInv

-----------------------------------------------------------------------------
(* What the steps of a worker do to its record.                            *)

\* A resting worker, or one that goes on with its row, or one that has gone
\* back to a claim it has not made yet.
Resting(x) == x \in Workers /\ x.pc \in {"off", "claim", "done"} /\ x.id = 0
Continues(x, w) ==
    /\ x \in Workers
    /\ x.pc \in Works => worker[w].pc \in Works
    /\ x.pc = "mark" => worker[w].pc = "mark"
    /\ x.file = worker[w].file
    /\ x.id = worker[w].id

\* Off, and a worker between two rounds, belong to nobody's row.
LEMMA RestingOff == Resting(Off)
  BY FirstRound DEF Resting, Off, Workers, Statuses

LEMMA RestingRounds ==
    ASSUME NEW repo \in Repos \cup {NoRepo}, NEW member \in BOOLEAN,
           NEW idle \in 0..(IdleRounds - 1)
    PROVE  Resting([Off EXCEPT !.pc = "claim", !.repo = repo, !.member = member, !.idle = idle])
  BY DEF Resting, Off, Workers, Statuses, Works

LEMMA RestingRecords ==
    ASSUME NEW repo \in Repos \cup {NoRepo}, NEW member \in BOOLEAN, NEW pc \in {"claim", "done"}
    PROVE  Resting([Off EXCEPT !.pc = pc, !.repo = repo, !.member = member])
  BY FirstRound DEF Resting, Off, Workers, Statuses, Works

LEMMA WorkersKept ==
    ASSUME IInv, worker' \in [Slots -> Workers],
           \A w \in Slots : Resting(worker'[w]) \/ Continues(worker'[w], w)
    PROVE  /\ \A w \in Slots : WorkerKept(w)
           /\ \A w \in Slots : worker'[w].pc \in Works \cup {"mark"} => worker'[w].file \in Files
           /\ \A w \in Slots : worker'[w].id <= used.inserts
  <1> SUFFICES ASSUME NEW w \in Slots
               PROVE  /\ WorkerKept(w)
                      /\ worker'[w].pc \in Works \cup {"mark"} => worker'[w].file \in Files
                      /\ worker'[w].id <= used.inserts
    OBVIOUS
  <1>1. CASE Resting(worker'[w])
    <2>1. worker'[w].pc \notin Works \cup {"mark"} /\ worker'[w].id = 0
      BY <1>1, Rest DEF Resting
    <2>2. used.inserts \in Nat
      BY DEF IInv, Shape
    <2>3. QED
      BY <2>1, <2>2 DEF WorkerKept
  <1>2. CASE Continues(worker'[w], w)
    BY <1>2 DEF Continues, WorkerKept, IInv, Ids
  <1>3. QED
    BY <1>1, <1>2

\* The frame of most steps: workers rest or go on, and rows are kept.
LEMMA FrameStep ==
    ASSUME IInv,
           disk' \in [Files -> Nat],
           row' \in [Files -> Rows \cup {NoRow}],
           worker' \in [Slots -> Workers],
           pool' \in [Repos -> {"none", "waiting", "running"}],
           used' \in [edits : Nat, scans : Nat, faults : Nat, deletes : Nat, inserts : Nat],
           used'.inserts = used.inserts,
           \A w \in Slots : Resting(worker'[w]) \/ Continues(worker'[w], w),
           \A f \in Files : RowKept(f) /\ (HasRow(f)' => row'[f].id <= used.inserts)
    PROVE  IInv'
  <1>1. Shape'
    BY DEF Shape
  <1>2. Ids'
    BY WorkersKept DEF Ids
  <1>3. QED
    BY <1>1, <1>2, WorkersKept, KeptSteps

LEMMA SameRows ==
    ASSUME IInv, row' = row
    PROVE  \A f \in Files : RowKept(f) /\ (HasRow(f)' => row'[f].id <= used.inserts)
  BY DEF RowKept, HasRow, IInv, Ids

LEMMA SpendSteps ==
    ASSUME IInv, NEW kind \in {"edits", "scans", "faults", "deletes"}, Spend(kind)
    PROVE  /\ used' \in [edits : Nat, scans : Nat, faults : Nat, deletes : Nat, inserts : Nat]
           /\ used'.inserts = used.inserts
  BY DEF IInv, Shape, Spend

LEMMA SameWorkers ==
    ASSUME IInv, worker' = worker
    PROVE  /\ worker' \in [Slots -> Workers]
           /\ \A w \in Slots : Resting(worker'[w]) \/ Continues(worker'[w], w)
  BY DEF IInv, Shape, Continues

\* One worker changes.
LEMMA OneWorker ==
    ASSUME IInv, NEW w \in Slots, NEW x, worker' = [worker EXCEPT ![w] = x],
           Resting(x) \/ Continues(x, w)
    PROVE  /\ worker' \in [Slots -> Workers]
           /\ \A v \in Slots : Resting(worker'[v]) \/ Continues(worker'[v], v)
  <1>1. x \in Workers
    BY DEF Resting, Continues
  <1>2. QED
    BY <1>1 DEF IInv, Shape, Continues

\* What PoolFails leaves: the failed worker is gone, the others go on.
LEMMA PoolFailsStep ==
    ASSUME IInv, NEW w \in Slots, PoolFails(w, Members(worker[w].repo) \ {w})
    PROVE  /\ worker' \in [Slots -> Workers]
           /\ \A v \in Slots : Resting(worker'[v]) \/ Continues(worker'[v], v)
           /\ pool' \in [Repos -> {"none", "waiting", "running"}]
  <1>1. Resting(Off)
    BY RestingOff
  <1>2. pool' \in [Repos -> {"none", "waiting", "running"}]
    BY DEF PoolFails, IInv, Shape
  <1>3. CASE ~worker[w].member
    <2>1. worker' = [worker EXCEPT ![w] = Off]
      BY <1>3 DEF PoolFails
    <2>2. QED
      BY <1>1, <1>2, <2>1, OneWorker
  <1>4. CASE worker[w].member
    <2> DEFINE others == Members(worker[w].repo) \ {w}
               new(v) == IF v = w \/ (v \in others /\ worker[v].pc = "done") THEN Off
                         ELSE IF v \in others THEN [worker[v] EXCEPT !.member = FALSE]
                         ELSE worker[v]
    <2>1. worker' = [v \in Slots |-> new(v)]
      BY <1>4 DEF PoolFails
    <2>2. ASSUME NEW v \in Slots
          PROVE  new(v) \in Workers /\ (Resting(new(v)) \/ Continues(new(v), v))
      <3>1. worker[v] \in Workers /\ Continues(worker[v], v)
        BY DEF IInv, Shape, Continues
      <3>2. Continues([worker[v] EXCEPT !.member = FALSE], v)
        BY <3>1 DEF Continues, Workers
      <3>3. new(v) \in {Off, [worker[v] EXCEPT !.member = FALSE], worker[v]}
        OBVIOUS
      <3>4. QED
        BY <1>1, <3>1, <3>2, <3>3 DEF Resting, Continues
    <2> HIDE DEF new
    <2>3. QED
      BY <1>2, <2>1, <2>2
  <1>5. QED
    BY <1>3, <1>4

-----------------------------------------------------------------------------
(* The steps of pools and of the scheduler.                                *)

LEMMA PoolSteps ==
    ASSUME IInv, ListRepos \/ StartAnalysis \/ \E r \in Repos : EnterPool(r) \/ LeavePool(r)
    PROVE  IInv'
  <1> USE DEF rows
  <1>0. Resting(Off)
    BY RestingOff
  <1>1. CASE ListRepos
    BY <1>1, SameRows, SameWorkers, FrameStep DEF ListRepos, IInv, Shape
  <1>2. CASE StartAnalysis
    <2>1. pool' \in [Repos -> {"none", "waiting", "running"}]
      BY <1>2 DEF StartAnalysis, IInv, Shape
    <2>2. row' = row /\ worker' = worker /\ disk' = disk /\ used' = used
      BY <1>2 DEF StartAnalysis
    <2>3. QED
      BY <2>1, <2>2, SameRows, SameWorkers, FrameStep DEF IInv, Shape
  <1>3. ASSUME NEW r \in Repos, EnterPool(r) PROVE IInv'
    <2> DEFINE member == [Off EXCEPT !.pc = "claim", !.repo = r, !.member = TRUE]
    <2>1. Resting(member)
      BY RestingRecords
    <2>2. PICK hired : worker' = [w \in Slots |-> IF w \in hired THEN member ELSE worker[w]]
      BY <1>3 DEF EnterPool
    <2> HIDE DEF member
    <2>3. \A w \in Slots : worker'[w] = member \/ worker'[w] = worker[w]
      BY <2>2
    <2>4. \A w \in Slots : Resting(worker'[w]) \/ Continues(worker'[w], w)
      BY <2>1, <2>3 DEF Continues, IInv, Shape
    <2>5. worker' \in [Slots -> Workers]
      BY <2>1, <2>2, <2>3 DEF Resting, IInv, Shape
    <2>6. row' = row /\ disk' = disk /\ used' = used
          /\ pool' \in [Repos -> {"none", "waiting", "running"}]
      BY <1>3 DEF EnterPool, IInv, Shape
    <2>7. QED
      BY <2>4, <2>5, <2>6, SameRows, FrameStep DEF IInv, Shape
  <1>4. ASSUME NEW r \in Repos, LeavePool(r) PROVE IInv'
    <2>1. worker' = [w \in Slots |-> IF w \in Members(r) THEN Off ELSE worker[w]]
      BY <1>4 DEF LeavePool
    <2>2. \A w \in Slots : Resting(worker'[w]) \/ Continues(worker'[w], w)
      BY <1>0, <2>1 DEF Continues, IInv, Shape
    <2>3. worker' \in [Slots -> Workers]
      BY <1>0, <2>1 DEF Resting, IInv, Shape
    <2>4. row' = row /\ disk' = disk /\ used' = used
          /\ pool' \in [Repos -> {"none", "waiting", "running"}]
      BY <1>4 DEF LeavePool, IInv, Shape
    <2>5. QED
      BY <2>2, <2>3, <2>4, SameRows, FrameStep DEF IInv, Shape
  <1>5. QED
    BY <1>1, <1>2, <1>3, <1>4

-----------------------------------------------------------------------------
(* The steps of a worker.                                                  *)

LEMMA NextRoundStep ==
    ASSUME IInv, NEW w \in Slots, NextRound(w)
    PROVE  /\ worker' \in [Slots -> Workers]
           /\ \A v \in Slots : Resting(worker'[v]) \/ Continues(worker'[v], v)
  <1> DEFINE x == [Off EXCEPT !.pc = "claim", !.repo = worker[w].repo, !.member = worker[w].member]
  <1>1. worker[w].repo \in Repos \cup {NoRepo} /\ worker[w].member \in BOOLEAN
    BY DEF IInv, Shape, Workers
  <1>2. Resting(x)
    BY <1>1, RestingRecords
  <1>3. QED
    BY <1>2, OneWorker DEF NextRound

LEMMA IdleStep ==
    ASSUME IInv, NEW w \in Slots, Idle(w)
    PROVE  /\ worker' \in [Slots -> Workers]
           /\ \A v \in Slots : Resting(worker'[v]) \/ Continues(worker'[v], v)
  <1>1. /\ worker[w].repo \in Repos \cup {NoRepo} /\ worker[w].member \in BOOLEAN
        /\ worker[w].idle \in 0..(IdleRounds - 1)
    BY DEF IInv, Shape, Workers
  <1> DEFINE x == [Off EXCEPT !.pc = "claim", !.repo = worker[w].repo,
                              !.member = worker[w].member, !.idle = worker[w].idle + 1]
  <1>2. CASE worker[w].idle + 1 = IdleRounds
    <2>1. Resting([Off EXCEPT !.pc = "done", !.repo = worker[w].repo, !.member = TRUE])
      BY <1>1, RestingRecords
    <2>2. Resting(Ended(w))
      BY <2>1, RestingOff DEF Ended
    <2>3. QED
      BY <1>2, <2>2, OneWorker DEF Idle
  <1>3. CASE worker[w].idle + 1 # IdleRounds
    <2>1. worker[w].idle + 1 \in 0..(IdleRounds - 1)
      BY <1>1, <1>3, PoolAssumption DEF PoolAssumption
    <2>2. Resting(x)
      BY <1>1, <2>1, RestingRounds
    <2>3. QED
      BY <1>3, <2>2, OneWorker DEF Idle
  <1>4. QED
    BY <1>2, <1>3

\* A worker that goes on with its row, whatever else of its record changes.
LEMMA WorksOn ==
    ASSUME IInv, NEW w \in Slots, worker[w].pc \in Works,
           NEW pc \in Works, NEW seen \in Statuses, NEW version \in Nat,
           NEW result \in {"completed", "failed"},
           worker' = [worker EXCEPT ![w] = [@ EXCEPT !.pc = pc, !.seen = seen,
                                                     !.version = version, !.result = result]]
    PROVE  /\ worker' \in [Slots -> Workers]
           /\ \A v \in Slots : Resting(worker'[v]) \/ Continues(worker'[v], v)
  <1> DEFINE x == [worker[w] EXCEPT !.pc = pc, !.seen = seen, !.version = version, !.result = result]
  <1>1. worker[w] \in Workers
    BY DEF IInv, Shape
  <1>2. Continues(x, w)
    BY <1>1 DEF Continues, Workers, Works
  <1>3. worker' = [worker EXCEPT ![w] = x]
    OBVIOUS
  <1>4. QED
    BY <1>2, <1>3, OneWorker

\* What a step leaves alone when it changes only workers.
LEMMA WorkerOnly ==
    ASSUME IInv, row' = row, disk' = disk, pool' = pool,
           used'.inserts = used.inserts,
           used' \in [edits : Nat, scans : Nat, faults : Nat, deletes : Nat, inserts : Nat],
           worker' \in [Slots -> Workers],
           \A w \in Slots : Resting(worker'[w]) \/ Continues(worker'[w], w)
    PROVE  IInv'
  BY SameRows, FrameStep DEF IInv, Shape

LEMMA SelectStep == ASSUME IInv, NEW w \in Slots, Select(w) PROVE IInv'
  <1>1. /\ row' = row /\ disk' = disk /\ pool' = pool /\ used' = used
        /\ used \in [edits : Nat, scans : Nat, faults : Nat, deletes : Nat, inserts : Nat]
    BY DEF Select, rows, IInv, Shape
  <1>2. CASE Idle(w)
    BY <1>1, <1>2, IdleStep, WorkerOnly
  <1>3. ASSUME NEW f \in FilesOf(worker[w].repo), HasRow(f),
               worker' = [worker EXCEPT ![w].pc = "mark", ![w].file = f, ![w].id = row[f].id]
        PROVE  IInv'
    <2>1. f \in Files /\ row[f] \in Rows /\ row[f].id <= used.inserts
      BY <1>3 DEF FilesOf, HasRow, IInv, Shape, Ids
    <2>2. worker[w] \in Workers
      BY DEF IInv, Shape
    <2> DEFINE x == [worker[w] EXCEPT !.pc = "mark", !.file = f, !.id = row[f].id]
    <2>3. x \in Workers /\ x.pc = "mark" /\ x.file = f /\ x.id = row[f].id
      BY <2>1, <2>2 DEF Workers, Rows
    <2>4. worker' = [worker EXCEPT ![w] = x]
      BY <1>3
    <2> HIDE DEF x
    <2>5. worker' \in [Slots -> Workers]
      BY <2>3, <2>4 DEF IInv, Shape
    <2>6. /\ worker'[w] = x
          /\ \A v \in Slots \ {w} : worker'[v] = worker[v]
      BY <2>4 DEF IInv, Shape
    <2>7. Shape'
      BY <1>1, <2>5 DEF IInv, Shape
    <2>8. Ids'
      BY <1>1, <2>1, <2>3, <2>6 DEF IInv, Ids, HasRow
    <2>9. \A v \in Slots : WorkerKept(v)
      BY <2>3, <2>6 DEF WorkerKept, Works
    <2>10. QED
      BY <1>1, <2>7, <2>8, <2>9, SameRows, KeptSteps
  <1>4. QED
    BY <1>2, <1>3 DEF Select

\* The claim: nobody else can have the row, unless a scan took it back.
LEMMA ClaimStep ==
    ASSUME IInv, NEW w \in Slots, worker[w].pc = "mark", MayClaim(w),
           row' = [row EXCEPT ![worker[w].file].status = "running"],
           worker' = [worker EXCEPT ![w].pc = "load", ![w].idle = 0],
           disk' = disk, pool' = pool, used' = used
    PROVE  IInv'
  <1> DEFINE f == worker[w].file
             x == [worker[w] EXCEPT !.pc = "load", !.idle = 0]
  <1>1. /\ worker[w] \in Workers /\ f \in Files
        /\ row[f] \in Rows /\ row[f].id = worker[w].id /\ row[f] # NoRow
        /\ row[f].status \in Claimable
    BY DEF IInv, Shape, Ids, MayClaim, OwnRow, HasRow
  <1>2. x \in Workers /\ x.pc = "load" /\ x.file = f /\ x.id = worker[w].id
    BY <1>1, FirstRound DEF Workers, Works
  <1>3. worker' = [worker EXCEPT ![w] = x]
    OBVIOUS
  <1>4. [row[f] EXCEPT !.status = "running"] \in Rows
    BY <1>1 DEF Rows, Statuses
  <1>5. /\ row'[f] = [row[f] EXCEPT !.status = "running"]
        /\ \A g \in Files \ {f} : row'[g] = row[g]
        /\ row' \in [Files -> Rows \cup {NoRow}]
    BY <1>1, <1>4 DEF IInv, Shape
  <1>6. row'[f].status = "running" /\ row'[f].id = row[f].id /\ row'[f].requeued = row[f].requeued
    BY <1>1, <1>5 DEF Rows
  <1> HIDE DEF x
  <1>7. /\ worker'[w] = x
        /\ \A v \in Slots \ {w} : worker'[v] = worker[v]
        /\ worker' \in [Slots -> Workers]
    BY <1>2, <1>3 DEF IInv, Shape
  <1>8. Shape'
    BY <1>5, <1>7 DEF IInv, Shape
  <1>9. Ids'
    <2>1. \A g \in Files : HasRow(g)' => row'[g].id <= used.inserts
      BY <1>1, <1>5, <1>6 DEF IInv, Ids, HasRow
    <2>2. QED
      BY <1>1, <1>2, <1>7, <2>1 DEF IInv, Ids
  <1>10. ASSUME NEW v \in Slots \ {w}, worker'[v].pc \in Works, OwnRow(v)'
         PROVE  /\ worker[v].pc \in Works /\ worker'[v].file = worker[v].file
                /\ worker[v].file \in Files
                /\ OwnRow(v)
                /\ row'[worker[v].file].requeued = row[worker[v].file].requeued
    <2>1. worker[v].pc \in Works /\ worker'[v] = worker[v] /\ worker[v].file \in Files
      BY <1>7, <1>10 DEF IInv, Ids
    <2>2. CASE worker[v].file = f
      BY <1>1, <1>6, <1>10, <2>1, <2>2 DEF OwnRow, HasRow
    <2>3. CASE worker[v].file # f
      BY <1>5, <1>10, <2>1, <2>3 DEF OwnRow, HasRow
    <2>4. QED
      BY <2>1, <2>2, <2>3
  \* Whoever has the row already has a row that is not running.
  <1>11. ASSUME NEW v \in Slots \ {w}, worker'[v].pc \in Works, OwnRow(v)', worker[v].file = f
         PROVE  row[f].requeued
    <2>1. worker[v].pc \in Works /\ OwnRow(v)
      BY <1>10, <1>11
    <2>2. row[f].status # "running"
      BY <1>1 DEF Claimable
    <2>3. QED
      BY <1>11, <2>1, <2>2 DEF IInv, ClaimedRuns
  <1>12. ClaimedRuns'
    <2> SUFFICES ASSUME NEW v \in Slots, worker'[v].pc \in Works, OwnRow(v)',
                        ~row'[worker'[v].file].requeued
                 PROVE  row'[worker'[v].file].status = "running"
      BY DEF ClaimedRuns
    <2>1. CASE v = w
      BY <1>2, <1>6, <1>7, <2>1
    <2>2. CASE v # w /\ worker[v].file = f
      BY <1>6, <1>10, <2>2
    <2>3. CASE v # w /\ worker[v].file # f
      BY <1>5, <1>10, <2>3 DEF IInv, ClaimedRuns
    <2>4. QED
      BY <2>1, <2>2, <2>3
  <1>13. ClaimsExclusive'
    <2> SUFFICES ASSUME NEW v \in Slots, NEW u \in Slots, NEW g \in Files,
                        v # u, Holds(v, g)', Holds(u, g)',
                        worker'[v].pc \in Works, worker'[u].pc \in Works,
                        OwnRow(v)', OwnRow(u)'
                 PROVE  row'[g].requeued
      BY DEF ClaimsExclusive
    <2>0. ASSUME NEW z \in Slots \ {w}, worker'[z].pc \in Works, OwnRow(z)', Holds(z, g)',
                 Holds(w, g)'
          PROVE  row'[g].requeued
      <3>1. g = f /\ worker[z].file = f
        BY <1>2, <1>7, <1>10, <2>0 DEF Holds
      <3>2. row[f].requeued
        BY <1>11, <2>0, <3>1
      <3>3. QED
        BY <1>6, <3>1, <3>2
    <2>1. CASE v = w
      BY <2>0, <2>1
    <2>2. CASE u = w
      BY <2>0, <2>2
    <2>3. CASE v # w /\ u # w
      <3>1. ASSUME NEW z \in Slots, z # w, Holds(z, g)', worker'[z].pc \in Works, OwnRow(z)'
            PROVE  /\ worker[z].pc \in Works /\ OwnRow(z) /\ worker[z].file = g
                   /\ row'[g].requeued = row[g].requeued
        <4>1. worker'[z].file = g
          BY <3>1 DEF Holds
        <4>2. QED
          BY <1>10, <3>1, <4>1
      <3>2. row[g].requeued
        BY <2>3, <3>1 DEF Holds, IInv, ClaimsExclusive
      <3>3. QED
        BY <2>3, <3>1, <3>2
    <2>4. QED
      BY <2>1, <2>2, <2>3
  <1>14. QED
    BY <1>8, <1>9, <1>12, <1>13 DEF IInv

LEMMA MarkStep == ASSUME IInv, NEW w \in Slots, Mark(w) PROVE IInv'
  <1>1. worker[w].pc = "mark" /\ disk' = disk /\ pool' = pool
    BY DEF Mark
  <1>2. CASE MayClaim(w) /\ worker' = [worker EXCEPT ![w].pc = "load", ![w].idle = 0]
             /\ row' = [row EXCEPT ![worker[w].file].status = "running"] /\ used' = used
    BY <1>1, <1>2, ClaimStep
  <1>3. CASE Idle(w) /\ row' = row /\ used' = used
    BY <1>1, <1>3, IdleStep, WorkerOnly DEF IInv, Shape
  <1>4. CASE Idle(w) /\ row' = row /\ Spend("faults")
    BY <1>1, <1>4, IdleStep, SpendSteps, WorkerOnly
  <1>5. QED
    BY <1>2, <1>3, <1>4 DEF Mark

\* The rest of a worker's way through a file leaves the rows alone.
LEMMA WorkSteps ==
    ASSUME IInv, NEW w \in Slots,
           Load(w) \/ Open(w) \/ AnalysisFails(w)
    PROVE  IInv'
  <1>0. /\ worker[w] \in Workers
        /\ worker[w].seen \in Statuses /\ worker[w].version \in Nat
        /\ worker[w].result \in {"completed", "failed"}
        /\ used \in [edits : Nat, scans : Nat, faults : Nat, deletes : Nat, inserts : Nat]
    BY DEF IInv, Shape, Workers
  <1>1. worker[w].pc \in Works
    <2>1. AnalysisFails(w) => worker[w].pc \in {"lines", "symbols", "new lines", "new symbols"}
      BY DEF AnalysisFails, Kinds, New
    <2>2. QED
      BY <2>1 DEF Load, Open, Works
  <1>2. worker[w].file \in Files
    BY <1>1 DEF IInv, Ids
  <1>3. disk[worker[w].file] \in Nat
    BY <1>2 DEF IInv, Shape
  <1>4. row' = row /\ disk' = disk /\ pool' = pool
    BY DEF Load, Open, AnalysisFails, rows
  <1>5. /\ used' \in [edits : Nat, scans : Nat, faults : Nat, deletes : Nat, inserts : Nat]
        /\ used'.inserts = used.inserts
    BY <1>0, SpendSteps DEF Load, Open, AnalysisFails
  <1>6. ASSUME NEW pc \in Works, NEW seen \in Statuses, NEW version \in Nat,
               NEW result \in {"completed", "failed"},
               worker' = [worker EXCEPT ![w] = [@ EXCEPT !.pc = pc, !.seen = seen,
                                                         !.version = version, !.result = result]]
        PROVE  IInv'
    BY <1>1, <1>4, <1>5, <1>6, WorksOn, WorkerOnly
  <1>7. CASE Load(w)
    <2>1. CASE NextRound(w)
      BY <1>4, <1>5, <2>1, NextRoundStep, WorkerOnly
    <2>2. CASE OwnRow(w) /\ worker' = [worker EXCEPT ![w].pc = "open",
                                          ![w].seen = row[worker[w].file].status]
      <3>1. row[worker[w].file].status \in Statuses
        BY <1>2, <2>2 DEF OwnRow, HasRow, IInv, Shape, Rows
      <3>2. worker' = [worker EXCEPT ![w] = [@ EXCEPT !.pc = "open",
                !.seen = row[worker[w].file].status,
                !.version = worker[w].version, !.result = worker[w].result]]
        BY <1>0, <2>2 DEF Workers
      <3>3. QED
        BY <1>0, <1>6, <3>1, <3>2 DEF Works
    <2>3. QED
      BY <1>7, <2>1, <2>2 DEF Load
  <1>8. CASE Open(w)
    <2>1. CASE Goto(w, "remove")
      <3>1. worker' = [worker EXCEPT ![w] = [@ EXCEPT !.pc = "remove", !.seen = worker[w].seen,
                !.version = worker[w].version, !.result = worker[w].result]]
        BY <1>0, <2>1 DEF Goto, Workers
      <3>2. QED
        BY <1>0, <1>6, <3>1 DEF Works
    <2>2. CASE worker' = [worker EXCEPT ![w].pc = "lines", ![w].version = disk[worker[w].file]]
      <3>1. worker' = [worker EXCEPT ![w] = [@ EXCEPT !.pc = "lines", !.seen = worker[w].seen,
                !.version = disk[worker[w].file], !.result = worker[w].result]]
        BY <1>0, <2>2 DEF Workers
      <3>2. QED
        BY <1>0, <1>3, <1>6, <3>1 DEF Works
    <2>3. CASE worker' = [worker EXCEPT ![w].pc = "finish", ![w].result = "failed"]
      <3>1. worker' = [worker EXCEPT ![w] = [@ EXCEPT !.pc = "finish", !.seen = worker[w].seen,
                !.version = worker[w].version, !.result = "failed"]]
        BY <1>0, <2>3 DEF Workers
      <3>2. QED
        BY <1>0, <1>6, <3>1 DEF Works
    <2>4. QED
      BY <1>8, <2>1, <2>2, <2>3 DEF Open
  <1>9. CASE AnalysisFails(w)
    <2>1. worker' = [worker EXCEPT ![w].pc = "finish", ![w].result = "failed"]
      BY <1>9 DEF AnalysisFails, Ends
    <2>2. worker' = [worker EXCEPT ![w] = [@ EXCEPT !.pc = "finish", !.seen = worker[w].seen,
              !.version = worker[w].version, !.result = "failed"]]
      BY <1>0, <2>1 DEF Workers
    <2>3. QED
      BY <1>0, <1>6, <2>2 DEF Works
  <1>10. QED
    BY <1>7, <1>8, <1>9

\* So do the steps that replace the vectors of a kind.
LEMMA StoreSteps ==
    ASSUME IInv, NEW w \in Slots, NEW kind \in Kinds,
           DeleteOld(w, kind) \/ InsertNew(w, kind) \/ NothingNew(w, kind)
    PROVE  IInv'
  <1>0. /\ worker[w] \in Workers
        /\ worker[w].seen \in Statuses /\ worker[w].version \in Nat
        /\ worker[w].result \in {"completed", "failed"}
        /\ used \in [edits : Nat, scans : Nat, faults : Nat, deletes : Nat, inserts : Nat]
    BY DEF IInv, Shape, Workers
  <1>1. kind \in {"lines", "symbols"} /\ New(kind) \in {"new lines", "new symbols"}
    BY DEF Kinds, New
  <1>2. worker[w].pc \in Works
    BY <1>1 DEF DeleteOld, InsertNew, NothingNew, Works
  <1>3. worker[w].file \in Files
    BY <1>2 DEF IInv, Ids
  <1>4. disk[worker[w].file] \in Nat
    BY <1>3 DEF IInv, Shape
  <1>5. row' = row /\ disk' = disk /\ pool' = pool
    BY DEF DeleteOld, InsertNew, NothingNew
  <1>6. /\ used' \in [edits : Nat, scans : Nat, faults : Nat, deletes : Nat, inserts : Nat]
        /\ used'.inserts = used.inserts
    BY <1>0, SpendSteps DEF DeleteOld, InsertNew, NothingNew
  <1>7. ASSUME NEW pc \in Works, NEW version \in Nat, NEW result \in {"completed", "failed"},
               worker' = [worker EXCEPT ![w] = [@ EXCEPT !.pc = pc, !.seen = worker[w].seen,
                                                         !.version = version, !.result = result]]
        PROVE  IInv'
    BY <1>0, <1>2, <1>5, <1>6, <1>7, WorksOn, WorkerOnly
  <1>8. CASE DeleteOld(w, kind)
    <2>1. worker' = [worker EXCEPT ![w] = [@ EXCEPT !.pc = New(kind), !.seen = worker[w].seen,
              !.version = worker[w].version, !.result = worker[w].result]]
      BY <1>0, <1>8 DEF DeleteOld, Goto, Workers
    <2>2. New(kind) \in Works
      BY <1>1 DEF Works
    <2>3. QED
      BY <1>0, <1>7, <2>1, <2>2
  <1>9. CASE GoesOn(w, kind)
    <2>1. CASE worker' = [worker EXCEPT ![w].pc = "symbols", ![w].version = disk[worker[w].file]]
      <3>1. worker' = [worker EXCEPT ![w] = [@ EXCEPT !.pc = "symbols", !.seen = worker[w].seen,
                !.version = disk[worker[w].file], !.result = worker[w].result]]
        BY <1>0, <2>1 DEF Workers
      <3>2. QED
        BY <1>0, <1>4, <1>7, <3>1 DEF Works
    <2>2. CASE Ends(w, "completed")
      <3>1. worker' = [worker EXCEPT ![w] = [@ EXCEPT !.pc = "finish", !.seen = worker[w].seen,
                !.version = worker[w].version, !.result = "completed"]]
        BY <1>0, <2>2 DEF Workers, Ends
      <3>2. QED
        BY <1>0, <1>7, <3>1 DEF Works
    <2>3. QED
      BY <1>9, <2>1, <2>2 DEF GoesOn
  <1>10. QED
    BY <1>8, <1>9 DEF InsertNew, NothingNew

\* The file of a worker loses its row, and its vectors after that.
LEMMA RemoveSteps == ASSUME IInv, NEW w \in Slots, RemoveRow(w) \/ Wipe(w) PROVE IInv'
  <1>0. worker[w] \in Workers
    BY DEF IInv, Shape
  <1>1. CASE RemoveRow(w)
    <2>1. worker' = [worker EXCEPT ![w] = [@ EXCEPT !.pc = "wipe", !.seen = worker[w].seen,
              !.version = worker[w].version, !.result = worker[w].result]]
      BY <1>0, <1>1 DEF RemoveRow, Goto, Workers
    <2>2. /\ worker' \in [Slots -> Workers]
          /\ \A v \in Slots : Resting(worker'[v]) \/ Continues(worker'[v], v)
      BY <1>0, <1>1, <2>1, WorksOn DEF RemoveRow, Works, Workers
    <2>3. /\ row' = [row EXCEPT ![worker[w].file] = NoRow]
          /\ disk' = disk /\ pool' = pool /\ used' = used
      BY <1>1 DEF RemoveRow
    <2>4. \A f \in Files : row'[f] = NoRow \/ row'[f] = row[f]
      BY <2>3 DEF IInv, Shape
    <2>5. \A f \in Files : RowKept(f) /\ (HasRow(f)' => row'[f].id <= used.inserts)
      BY <2>4 DEF RowKept, HasRow, IInv, Ids
    <2>6. row' \in [Files -> Rows \cup {NoRow}]
      BY <2>3 DEF IInv, Shape
    <2>7. QED
      BY <2>2, <2>3, <2>5, <2>6, FrameStep DEF IInv, Shape
  <1>2. CASE Wipe(w)
    <2>1. NextRound(w) /\ row' = row /\ disk' = disk /\ pool' = pool
      BY <1>2 DEF Wipe
    <2>2. used' = used \/ Spend("faults")
      BY <1>2 DEF Wipe, WipeData
    <2>3. /\ used' \in [edits : Nat, scans : Nat, faults : Nat, deletes : Nat, inserts : Nat]
          /\ used'.inserts = used.inserts
      BY <2>2, SpendSteps DEF IInv, Shape
    <2>4. QED
      BY <2>1, <2>3, NextRoundStep, WorkerOnly
  <1>3. QED
    BY <1>1, <1>2

LEMMA RaiseStep == ASSUME IInv, NEW w \in Slots, WorkerRaises(w) PROVE IInv'
  <1>1. /\ PoolFails(w, Members(worker[w].repo) \ {w}) /\ Spend("faults")
        /\ row' = row /\ disk' = disk
    BY DEF WorkerRaises, rows
  <1>2. QED
    BY <1>1, PoolFailsStep, SpendSteps, SameRows, FrameStep DEF IInv, Shape

\* The finish writes a row that nobody else has, or one a scan took back.
LEMMA FinishStep == ASSUME IInv, NEW w \in Slots, Finish(w) PROVE IInv'
  <1> DEFINE f == worker[w].file
  <1>1. /\ disk' = disk /\ used' = used
        /\ worker[w] \in Workers /\ worker[w].pc \in Works /\ f \in Files
    BY DEF Finish, IInv, Shape, Ids, Works
  <1>2. CASE PoolFails(w, Members(worker[w].repo) \ {w}) /\ row' = row
    BY <1>1, <1>2, PoolFailsStep, SameRows, FrameStep DEF IInv, Shape
  <1>3. CASE /\ OwnRow(w) /\ NextRound(w) /\ pool' = pool
             /\ row' = [row EXCEPT
                    ![f].status = IF worker[w].result # worker[w].seen THEN worker[w].result ELSE @,
                    ![f].due = @ /\ worker[w].result # "completed"]
    <2>1. PICK status \in Statuses, due \in BOOLEAN :
            row' = [row EXCEPT ![f] = [row[f] EXCEPT !.status = status, !.due = due]]
      <3>1. row[f] \in Rows
        BY <1>1, <1>3 DEF OwnRow, HasRow, IInv, Shape
      <3>2. row[f].status \in Statuses /\ worker[w].result \in Statuses
        BY <1>1, <3>1 DEF Rows, Workers, Statuses
      <3>3. (row[f].due /\ worker[w].result # "completed") \in BOOLEAN
        OBVIOUS
      <3>4. row' = [row EXCEPT ![f] = [row[f] EXCEPT
                !.status = IF worker[w].result # worker[w].seen THEN worker[w].result ELSE row[f].status,
                !.due = row[f].due /\ worker[w].result # "completed"]]
        BY <1>1, <1>3, <3>1 DEF Rows, IInv, Shape
      <3>5. QED
        BY <3>2, <3>3, <3>4
    <2>2. row[f] \in Rows
      BY <1>1, <1>3 DEF OwnRow, HasRow, IInv, Shape
    <2>3. /\ row'[f] \in Rows /\ row'[f].id = row[f].id /\ row'[f].requeued = row[f].requeued
          /\ \A g \in Files \ {f} : row'[g] = row[g]
      BY <1>1, <2>1, <2>2 DEF IInv, Shape, Rows
    <2>4. row' \in [Files -> Rows \cup {NoRow}]
      BY <1>1, <2>1, <2>2, <2>3 DEF IInv, Shape
    <2>5. /\ worker' \in [Slots -> Workers]
          /\ \A v \in Slots : Resting(worker'[v]) \/ Continues(worker'[v], v)
      BY <1>3, NextRoundStep
    <2>6. Shape' /\ Ids'
      <3>1. Shape'
        BY <1>1, <1>3, <2>4, <2>5 DEF IInv, Shape
      <3>2. \A g \in Files : HasRow(g)' => row'[g].id <= used.inserts
        BY <1>1, <1>3, <2>3 DEF IInv, Ids, HasRow, OwnRow
      <3>3. QED
        BY <1>1, <2>5, <3>1, <3>2, WorkersKept DEF Ids
    <2>7. worker'[w].pc \notin Works
      BY <1>3 DEF NextRound, Off, Works, IInv, Shape
    <2>8. ASSUME NEW v \in Slots, worker'[v].pc \in Works, OwnRow(v)'
          PROVE  /\ v # w
                 /\ worker[v].pc \in Works /\ worker'[v].file = worker[v].file
                 /\ worker[v].file \in Files
                 /\ OwnRow(v)
                 /\ row'[worker[v].file].requeued = row[worker[v].file].requeued
      <3>1. v # w
        BY <2>7, <2>8
      <3>2. WorkerKept(v)
        BY <2>5, WorkersKept
      <3>3. /\ worker[v].pc \in Works /\ worker'[v].file = worker[v].file
            /\ worker'[v].id = worker[v].id /\ worker[v].file \in Files
        BY <2>8, <3>2 DEF WorkerKept, IInv, Ids
      <3>4. CASE worker[v].file = f
        BY <1>3, <2>3, <2>8, <3>1, <3>3, <3>4 DEF OwnRow, HasRow
      <3>5. CASE worker[v].file # f
        BY <2>3, <2>8, <3>1, <3>3, <3>5 DEF OwnRow, HasRow
      <3>6. QED
        BY <3>1, <3>3, <3>4, <3>5
    <2>9. ClaimedRuns'
      <3> SUFFICES ASSUME NEW v \in Slots, worker'[v].pc \in Works, OwnRow(v)',
                          ~row'[worker'[v].file].requeued
                   PROVE  row'[worker'[v].file].status = "running"
        BY DEF ClaimedRuns
      <3>1. CASE worker[v].file = f
        <4>1. row[f].requeued
          BY <1>1, <1>3, <2>8, <3>1 DEF IInv, ClaimsExclusive, Holds
        <4>2. QED
          BY <2>8, <3>1, <4>1
      <3>2. CASE worker[v].file # f
        BY <2>3, <2>8, <3>2 DEF IInv, ClaimedRuns
      <3>3. QED
        BY <3>1, <3>2
    <2>10. ClaimsExclusive'
      <3> SUFFICES ASSUME NEW v \in Slots, NEW u \in Slots, NEW g \in Files,
                          v # u, Holds(v, g)', Holds(u, g)',
                          worker'[v].pc \in Works, worker'[u].pc \in Works,
                          OwnRow(v)', OwnRow(u)'
                   PROVE  row'[g].requeued
        BY DEF ClaimsExclusive
      <3>1. ASSUME NEW z \in Slots, Holds(z, g)', worker'[z].pc \in Works, OwnRow(z)'
            PROVE  /\ worker[z].pc \in Works /\ OwnRow(z) /\ worker[z].file = g
                   /\ row'[g].requeued = row[g].requeued
        <4>1. worker'[z].file = g
          BY <3>1 DEF Holds
        <4>2. QED
          BY <2>8, <3>1, <4>1
      <3>2. row[g].requeued
        BY <3>1 DEF Holds, IInv, ClaimsExclusive
      <3>3. QED
        BY <3>1, <3>2
    <2>11. QED
      BY <2>6, <2>9, <2>10 DEF IInv
  <1>4. QED
    BY <1>2, <1>3 DEF Finish

-----------------------------------------------------------------------------
(* Files, scans, deletions and crashes.                                    *)

\* Steps that leave workers and disk alone and may drop rows.
LEMMA DropRows ==
    ASSUME IInv, worker' = worker, disk' = disk, pool' = pool,
           used'.inserts = used.inserts,
           used' \in [edits : Nat, scans : Nat, faults : Nat, deletes : Nat, inserts : Nat],
           row' \in [Files -> Rows \cup {NoRow}],
           \A f \in Files : row'[f] = NoRow \/ row'[f] = row[f]
    PROVE  IInv'
  <1>1. \A f \in Files : RowKept(f) /\ (HasRow(f)' => row'[f].id <= used.inserts)
    BY DEF RowKept, HasRow, IInv, Ids
  <1>2. QED
    BY <1>1, SameWorkers, FrameStep DEF IInv, Shape

LEMMA EditStep == ASSUME IInv, NEW f \in Files, Edit(f) PROVE IInv'
  <1>1. /\ Spend("edits") /\ pool' = pool /\ worker' = worker
        /\ row' = IF HasRow(f) THEN [row EXCEPT ![f].due = TRUE] ELSE row
    BY DEF Edit, pools
  <1>2. disk' \in [Files -> Nat]
    <2>1. ({0} \cup Versions) \subseteq Nat
      BY PoolAssumption DEF PoolAssumption
    <2>2. QED
      BY <2>1 DEF Edit, IInv, Shape
  <1>3. /\ row' \in [Files -> Rows \cup {NoRow}]
        /\ \A g \in Files : RowKept(g) /\ (HasRow(g)' => row'[g].id <= used.inserts)
    <2>1. CASE ~HasRow(f)
      BY <1>1, <2>1, SameRows DEF IInv, Shape
    <2>2. CASE HasRow(f)
      <3>1. row[f] \in Rows /\ row[f].id <= used.inserts
        BY <2>2 DEF HasRow, IInv, Shape, Ids
      <3>2. row' = [row EXCEPT ![f] = [row[f] EXCEPT !.due = TRUE]]
        BY <1>1, <2>2
      <3>3. /\ [row[f] EXCEPT !.due = TRUE] \in Rows
            /\ row'[f].id = row[f].id /\ row'[f].status = row[f].status
            /\ row'[f].requeued = row[f].requeued
            /\ \A g \in Files \ {f} : row'[g] = row[g]
        BY <3>1, <3>2 DEF Rows, IInv, Shape
      <3>4. QED
        BY <2>2, <3>1, <3>2, <3>3 DEF RowKept, HasRow, IInv, Shape, Ids
    <2>3. QED
      BY <2>1, <2>2
  <1>4. QED
    BY <1>1, <1>2, <1>3, SpendSteps, SameWorkers, FrameStep DEF IInv, Shape

LEMMA ScanStep == ASSUME IInv, NEW f \in Files, ScanFile(f) PROVE IInv'
  <1>1. /\ worker' = worker /\ disk' = disk /\ pool' = pool /\ Spend("scans")
        /\ row' = row \/ row' = [row EXCEPT ![f] = NoRow]
    BY DEF ScanFile, pools
  <1>2. /\ row' \in [Files -> Rows \cup {NoRow}]
        /\ \A g \in Files : row'[g] = NoRow \/ row'[g] = row[g]
    BY <1>1 DEF IInv, Shape
  <1>3. QED
    BY <1>1, <1>2, SpendSteps, DropRows

\* A new row is newer than every id a worker has; a row taken back while it
\* runs is marked.
LEMMA FlushStep == ASSUME IInv, NEW f \in Files, FlushScan(f) PROVE IInv'
  <1>1. worker' = worker /\ disk' = disk /\ pool' = pool
    BY DEF FlushScan, pools
  <1>2. CASE row' = row /\ used' = used
    BY <1>1, <1>2, DropRows DEF IInv, Shape
  <1>3. CASE row' = [row EXCEPT ![f] = Row(used.inserts + 1, "pending")] /\ Spend("inserts")
    <2> DEFINE new == Row(used.inserts + 1, "pending")
    <2>1. new \in Rows /\ new.id = used.inserts + 1
      BY DEF Row, Rows, Statuses, IInv, Shape
    <2>2. /\ used' \in [edits : Nat, scans : Nat, faults : Nat, deletes : Nat, inserts : Nat]
          /\ used'.inserts = used.inserts + 1 /\ used.inserts \in Nat
      BY <1>3 DEF Spend, IInv, Shape
    <2> HIDE DEF new
    <2>3. /\ row'[f] = new /\ \A g \in Files \ {f} : row'[g] = row[g]
          /\ row' \in [Files -> Rows \cup {NoRow}]
      BY <1>3, <2>1 DEF IInv, Shape, new
    <2>4. \A g \in Files : HasRow(g) => row[g].id \in Nat /\ row[g].id <= used.inserts
      BY DEF IInv, Shape, Ids, HasRow, Rows
    <2>5. \A w \in Slots : worker[w].id \in Nat /\ worker[w].id <= used.inserts
      BY DEF IInv, Shape, Ids, Workers
    <2>6. Shape'
      BY <1>1, <2>2, <2>3 DEF IInv, Shape
    <2>7. \A w \in Slots : worker'[w].id <= used'.inserts
      BY <1>1, <2>2, <2>5
    <2>8. \A g \in Files : HasRow(g)' => row'[g].id <= used'.inserts
      BY <2>1, <2>2, <2>3, <2>4 DEF HasRow
    <2>9. Ids'
      BY <1>1, <2>7, <2>8 DEF IInv, Ids
    <2>10. \A g \in Files : RowKept(g)
      BY <2>1, <2>2, <2>3 DEF RowKept, HasRow
    <2>11. \A w \in Slots : WorkerKept(w)
      BY <1>1 DEF WorkerKept
    <2>12. QED
      BY <2>6, <2>9, <2>10, <2>11, KeptSteps
  <1>4. CASE /\ SameRow(f, scan[f]) /\ used' = used
             /\ row' = [row EXCEPT ![f].status = "pending",
                          ![f].requeued = @ \/ row[f].status = "running" \/ row[f] # scan[f]]
    <2> DEFINE back == row[f].requeued \/ row[f].status = "running" \/ row[f] # scan[f]
               new == [row[f] EXCEPT !.status = "pending", !.requeued = back]
    <2>1. row[f] \in Rows /\ row[f].id <= used.inserts /\ HasRow(f)
      BY <1>4 DEF SameRow, HasRow, IInv, Shape, Ids
    <2>2. row' = [row EXCEPT ![f] = new]
      BY <1>4, <2>1 DEF Rows, IInv, Shape
    <2>3. back \in BOOLEAN
      BY <2>1 DEF Rows
    <2>4. new \in Rows /\ new.id = row[f].id /\ new.requeued = back
      BY <2>1, <2>3 DEF Rows, Statuses
    <2> HIDE DEF new
    <2>5. /\ row'[f] = new /\ \A g \in Files \ {f} : row'[g] = row[g]
          /\ row' \in [Files -> Rows \cup {NoRow}]
      BY <2>2, <2>4 DEF IInv, Shape
    <2>6. back \/ (row[f].status # "running" /\ back = row[f].requeued)
      BY <2>1 DEF Rows
    <2> HIDE DEF back
    <2>7. RowKept(f) /\ (HasRow(f)' => row'[f].id <= used.inserts)
      BY <2>1, <2>4, <2>5, <2>6 DEF RowKept, HasRow
    <2>8. \A g \in Files \ {f} : RowKept(g) /\ (HasRow(g)' => row'[g].id <= used.inserts)
      BY <2>5 DEF RowKept, HasRow, IInv, Ids
    <2>9. QED
      BY <1>1, <1>4, <2>5, <2>7, <2>8, SameWorkers, FrameStep DEF IInv, Shape
  <1>5. QED
    BY <1>2, <1>3, <1>4 DEF FlushScan

LEMMA StopStep == ASSUME IInv, NEW r \in Repos, StopAnalysis(r) PROVE IInv'
  <1>1. row' = row /\ disk' = disk /\ Spend("deletes")
    BY DEF StopAnalysis, rows
  <1>2. Resting(Off)
    BY RestingOff
  <1>3. CASE worker' = worker /\ pool' = pool
    BY <1>1, <1>3, SpendSteps, SameRows, SameWorkers, FrameStep DEF IInv, Shape
  <1>4. CASE /\ worker' = [w \in Slots |-> IF w \in Members(r) THEN Off ELSE worker[w]]
             /\ pool' = [pool EXCEPT ![r] = "none"]
    <2>1. \A w \in Slots : Resting(worker'[w]) \/ Continues(worker'[w], w)
      BY <1>2, <1>4 DEF Continues, IInv, Shape
    <2>2. worker' \in [Slots -> Workers]
      BY <1>2, <1>4 DEF Resting, IInv, Shape
    <2>3. pool' \in [Repos -> {"none", "waiting", "running"}]
      BY <1>4 DEF IInv, Shape
    <2>4. QED
      BY <1>1, <2>1, <2>2, <2>3, SpendSteps, SameRows, FrameStep DEF IInv, Shape
  <1>5. QED
    BY <1>3, <1>4 DEF StopAnalysis

LEMMA DeleteSteps ==
    ASSUME IInv, NEW r \in Repos, DeletionRaises(r) \/ DeleteRows(r) \/ DeleteVectors(r)
    PROVE  IInv'
  <1>1. /\ worker' = worker /\ disk' = disk /\ pool' = pool
        /\ used' = used \/ Spend("faults")
    BY DEF DeletionRaises, DeleteRows, DeleteVectors, WipeData, pools
  <1>0. /\ used' \in [edits : Nat, scans : Nat, faults : Nat, deletes : Nat, inserts : Nat]
        /\ used'.inserts = used.inserts
    BY <1>1, SpendSteps DEF IInv, Shape
  <1>2. row' = row \/ row' = [f \in Files |-> IF RepoOf[f] = r THEN NoRow ELSE row[f]]
    BY DEF DeletionRaises, DeleteRows, DeleteVectors, rows
  <1>3. /\ row' \in [Files -> Rows \cup {NoRow}]
        /\ \A f \in Files : row'[f] = NoRow \/ row'[f] = row[f]
    BY <1>2 DEF IInv, Shape
  <1>4. QED
    BY <1>0, <1>1, <1>3, DropRows

LEMMA CrashStep == ASSUME IInv, Crash PROVE IInv'
  <1>1. row' = row /\ disk' = disk /\ Spend("faults")
        /\ worker' = [w \in Slots |-> Off] /\ pool' = [r \in Repos |-> "none"]
    BY DEF Crash, rows
  <1>2. Resting(Off)
    BY RestingOff
  <1>3. /\ \A w \in Slots : Resting(worker'[w]) \/ Continues(worker'[w], w)
        /\ worker' \in [Slots -> Workers]
        /\ pool' \in [Repos -> {"none", "waiting", "running"}]
    BY <1>1, <1>2 DEF Resting
  <1>4. QED
    BY <1>1, <1>3, SpendSteps, SameRows, FrameStep DEF IInv, Shape

-----------------------------------------------------------------------------
\* IInv holds in every reachable state.
THEOREM Invariance == Spec => []IInv
  <1>1. ASSUME IInv, [Next]_vars PROVE IInv'
    <2>1. CASE UNCHANGED vars
      BY <1>1, <2>1, DropRows DEF vars, IInv, Shape
    <2>2. CASE Next
      <3>1. CASE ListRepos \/ StartAnalysis \/ \E r \in Repos : EnterPool(r) \/ LeavePool(r)
        BY <1>1, <3>1, PoolSteps
      <3>2. ASSUME NEW r \in Repos,
                   StopAnalysis(r) \/ DeletionRaises(r) \/ DeleteRows(r) \/ DeleteVectors(r)
            PROVE  IInv'
        BY <1>1, <3>2, StopStep, DeleteSteps
      <3>3. ASSUME NEW w \in Slots, WorkerStep(w) \/ AnalysisFails(w) \/ WorkerRaises(w)
            PROVE  IInv'
        BY <1>1, <3>3, SelectStep, MarkStep, WorkSteps, StoreSteps, RemoveSteps, RaiseStep,
           FinishStep DEF WorkerStep
      <3>4. ASSUME NEW f \in Files, Edit(f) \/ ScanFile(f) \/ FlushScan(f) PROVE IInv'
        BY <1>1, <3>4, EditStep, ScanStep, FlushStep
      <3>5. QED
        BY <1>1, <2>2, <3>1, <3>2, <3>3, <3>4, CrashStep DEF Next
    <2>3. QED
      BY <1>1, <2>1, <2>2
  <1>2. QED
    BY <1>1, InitIInv, PTL DEF Spec

\* The claim of a row is exclusive: of two workers that work on one row, a
\* scan has taken the row back from the first (_claim_one, _scan_one).
THEOREM ClaimsAreExclusive == Spec => []ClaimsExclusive
  <1>1. IInv => ClaimsExclusive
    BY DEF IInv
  <1>2. QED
    BY <1>1, Invariance, PTL

-----------------------------------------------------------------------------
(* What the table says can be relied on.                                   *)

\* The rest of TypeOK, but for the pools.
Vectors == [version : Nat, rest : BOOLEAN, kept : BOOLEAN]
Types ==
    /\ store \in [Files -> [Kinds -> Vectors]]
    /\ listed \in SUBSET Repos
    /\ scan \in [Files -> Rows \cup {NoRow, NoFile}]
    /\ del \in [Repos -> {"no", "cancelled", "rows", "vectors"}]
    /\ raced \in [Files -> BOOLEAN]

\* Who queues for a permit waits, once; who has members holds a permit; and
\* permits are counted.
Running == {r \in Repos : pool[r] = "running"}
Seats ==
    /\ queue \in Seq(Repos)
    /\ \A i \in 1..Len(queue) : pool[queue[i]] = "waiting"
    /\ \A i, j \in 1..Len(queue) : queue[i] = queue[j] => i = j
    /\ \A w \in Slots : worker[w].member =>
            worker[w].repo \in Repos /\ pool[worker[w].repo] = "running"
    /\ permits \in Nat
    /\ permits + Cardinality(Running) = MaxPools

\* What a worker has read and stored is what lies on the disk, unless the
\* file is raced: before an insertion nothing is there but what a deletion
\* left, and what is dealt with is fresh.  And a worker has loaded a running
\* row, unless a scan took the row back.
Readers == {"lines", "new lines", "symbols", "new symbols", "finish"}
Busy == {"open"} \cup Readers
Good(kind, s, v) ==
    /\ Yields(kind, v) => s.version = v
    /\ ~s.kept => ~s.rest /\ (s.version = 0 \/ s.version = v)
Right(pc, version, result, content, kept) ==
    /\ pc \in Readers \ {"finish"} => version = content
    /\ \A kind \in Kinds : pc = New(kind) =>
            Yields(kind, version) /\ (There(kept[kind]) => kept[kind].kept)
    /\ pc \in {"symbols", "new symbols"} => Good("lines", kept["lines"], content)
    /\ pc = "finish" /\ result = "completed" =>
            \A kind \in Kinds : Good(kind, kept[kind], content)
Told(w) ==
    LET f == worker[w].file IN
    /\ ~raced[f] => Right(worker[w].pc, worker[w].version, worker[w].result, disk[f], store[f])
    /\ worker[w].pc \in Busy /\ OwnRow(w) /\ ~row[f].requeued => worker[w].seen = "running"

\* A file that is not raced has one worker, and none when its row is completed.
At(w, f) == worker[w].pc \in Works /\ worker[w].file = f
Calm(f) ==
    ~raced[f] =>
        /\ \A v, w \in Slots : At(v, f) /\ At(w, f) => v = w
        /\ HasRow(f) /\ row[f].status = "completed" => \A w \in Slots : ~At(w, f)

\* A row that is not completed is due, and so is the copy of a scan.
Due(f) ==
    /\ HasRow(f) /\ row[f].status # "completed" => row[f].due \/ row[f].requeued
    /\ scan[f] \notin {NoFile, NoRow} => scan[f].due

Tells ==
    /\ Types /\ Seats /\ FreshData
    /\ \A w \in Slots : Told(w)
    /\ \A f \in Files : Due(f) /\ Calm(f)

-----------------------------------------------------------------------------
FreshRow(f) ==
    HasRow(f) /\ disk[f] # 0 /\ ~raced[f] /\ row[f].status = "completed" /\ ~row[f].due
        => \A kind \in Kinds : Good(kind, store[f][kind], disk[f])

LEMMA IsFresh == FreshData <=> \A f \in Files : FreshRow(f)
  BY DEF FreshData, FreshRow, Fresh, Good

-----------------------------------------------------------------------------
(* The vectors of one kind.                                                *)

\* A deletion leaves nothing but what it was told to keep.
LEMMA OnlyLeft ==
    ASSUME NEW s \in Vectors, NEW t \in {Nothing} \cup Left(s)
    PROVE  t \in Vectors /\ (There(t) => t.kept)
  <1>1. There(s) \in BOOLEAN
    BY DEF There, Vectors
  <1>2. CASE t = Nothing
    BY <1>2 DEF Nothing, There, Vectors
  <1>3. CASE t = [s EXCEPT !.kept = There(s)]
    BY <1>1, <1>3 DEF There, Vectors
  <1>4. CASE t = [version |-> 0, rest |-> There(s), kept |-> There(s)]
    BY <1>1, <1>4 DEF There, Vectors
  <1>5. QED
    BY <1>2, <1>3, <1>4 DEF Left, Kept

\* What is inserted after a deletion is all there is, or the deletion failed.
LEMMA WhenAdded ==
    ASSUME NEW kind, NEW s \in Vectors, NEW v \in Nat
    PROVE  /\ Added(s, v) \in Vectors
           /\ (There(s) => s.kept) => Good(kind, Added(s, v), v)
  <1> DEFINE rest == s.rest \/ s.version \notin {0, v}
             t == [s EXCEPT !.version = v, !.rest = rest]
  <1>1. Added(s, v) = t
    BY DEF Added, Vectors
  <1>2. rest \in BOOLEAN
    OBVIOUS
  <1>3. ~There(s) => ~rest
    BY DEF There
  <1> HIDE DEF rest
  <1>4. t \in Vectors /\ t.version = v /\ t.rest = rest /\ t.kept = s.kept
    BY <1>2 DEF Vectors
  <1> HIDE DEF t
  <1>5. QED
    BY <1>1, <1>3, <1>4 DEF Good

\* Without a deletion what was there is there, and is called so.
LEMMA WhenKept ==
    ASSUME NEW kind, NEW s \in Vectors, NEW v \in Nat
    PROVE  /\ Kept(s) \in Vectors
           /\ ~Yields(kind, v) => Good(kind, Kept(s), v)
  <1>1. There(s) \in BOOLEAN
    BY DEF There, Vectors
  <1>2. Kept(s) \in Vectors /\ Kept(s).kept = There(s)
        /\ Kept(s).version = s.version /\ Kept(s).rest = s.rest
    BY <1>1 DEF Kept, Vectors
  <1>3. QED
    BY <1>2 DEF Good, There

LEMMA StoredAt ==
    ASSUME NEW f \in Files, NEW kind \in Kinds, NEW new \in Vectors,
           store \in [Files -> [Kinds -> Vectors]],
           store' = [store EXCEPT ![f][kind] = new]
    PROVE  /\ store' \in [Files -> [Kinds -> Vectors]]
           /\ store'[f][kind] = new
           /\ \A k \in Kinds \ {kind} : store'[f][k] = store[f][k]
           /\ \A g \in Files \ {f} : store'[g] = store[g]
  <1>1. [store[f] EXCEPT ![kind] = new] \in [Kinds -> Vectors]
    OBVIOUS
  <1>2. QED
    BY <1>1

-----------------------------------------------------------------------------
(* What a step leaves alone.                                               *)

KeepsSeat(v) ==
    worker'[v].member => worker[v].member /\ worker'[v].repo = worker[v].repo
KeepsFile(v) ==
    worker'[v].pc \in Works => worker[v].pc \in Works /\ worker'[v].file = worker[v].file
KeepsWork(v) ==
    /\ KeepsFile(v)
    /\ \/ worker'[v].pc \notin Busy
       \/ /\ worker'[v].pc = worker[v].pc /\ worker'[v].file = worker[v].file
          /\ worker'[v].id = worker[v].id /\ worker'[v].seen = worker[v].seen
          /\ worker'[v].version = worker[v].version /\ worker'[v].result = worker[v].result
Rests(v) == KeepsSeat(v) /\ KeepsWork(v)
\* What was right of a file's data is right, or the file is raced.
DataStands(f) ==
    \/ raced'[f]
    \/ ~raced[f] /\ disk'[f] = disk[f] /\ store'[f] = store[f]
\* Whoever has the row has had it, and a scan's mark stays.
RowStays(f) ==
    HasRow(f)' =>
        \/ row'[f].id > used.inserts
        \/ HasRow(f) /\ row'[f].id = row[f].id /\ (row[f].requeued => row'[f].requeued)

LEMMA SeatsStay ==
    ASSUME Seats, UNCHANGED <<pool, queue, permits>>, \A v \in Slots : KeepsSeat(v)
    PROVE  Seats'
  <1>1. Running' = Running
    BY DEF Running
  <1>2. \A v \in Slots : worker'[v].member => worker'[v].repo \in Repos /\ pool[worker'[v].repo] = "running"
    BY DEF Seats, KeepsSeat
  <1>3. QED
    BY <1>1, <1>2 DEF Seats

LEMMA ToldStays ==
    ASSUME IInv, Types, NEW v \in Slots, Told(v), KeepsWork(v),
           worker[v].pc \in Readers => DataStands(worker[v].file),
           \A f \in Files : RowStays(f)
    PROVE  Told(v)'
  <1>1. CASE worker'[v].pc \notin Busy
    <2>1. worker'[v].pc \notin {"lines", "new lines", "symbols", "new symbols", "finish"}
      BY <1>1 DEF Busy, Readers
    <2>2. QED
      BY <1>1, <2>1 DEF Told, Right, Readers, Kinds, New
  <1>2. CASE worker'[v].pc \in Busy
    <2> DEFINE f == worker[v].file
    <2>1. /\ worker'[v].pc = worker[v].pc /\ worker'[v].file = f
          /\ worker'[v].id = worker[v].id /\ worker'[v].seen = worker[v].seen
          /\ worker'[v].version = worker[v].version /\ worker'[v].result = worker[v].result
      BY <1>2 DEF KeepsWork
    <2>2. worker[v].pc \in Works
      BY <1>2, <2>1 DEF Busy, Readers, Works
    <2>3. f \in Files /\ worker[v].id <= used.inserts /\ worker[v].id \in Nat /\ used.inserts \in Nat
      BY <2>2 DEF IInv, Ids, Shape, Workers
    <2>4. ASSUME OwnRow(v)', ~row'[f].requeued PROVE OwnRow(v) /\ ~row[f].requeued
      <3>0. RowStays(f)
        BY <2>3
      <3>1. HasRow(f)' /\ row'[f].id = worker[v].id
        BY <2>1, <2>4 DEF OwnRow, HasRow
      <3>2. ~(row'[f].id > used.inserts)
        BY <2>3, <3>1
      <3>3. QED
        BY <2>4, <3>0, <3>1, <3>2 DEF RowStays, OwnRow
    <2>5. worker[v].pc \in Busy /\ OwnRow(v)' /\ ~row'[f].requeued => worker[v].seen = "running"
      BY <2>4 DEF Told
    <2>6. ASSUME ~raced'[f]
          PROVE  Right(worker[v].pc, worker[v].version, worker[v].result, disk'[f], store'[f])
      <3>1. CASE worker[v].pc = "open"
        BY <3>1 DEF Right, Readers, Kinds, New
      <3>2. CASE worker[v].pc \in Readers
        <4>1. /\ disk'[f] = disk[f] /\ store'[f] = store[f]
              /\ Right(worker[v].pc, worker[v].version, worker[v].result, disk[f], store[f])
          BY <2>6, <3>2 DEF DataStands, Told
        <4>2. QED
          BY <4>1
      <3>3. QED
        BY <1>2, <2>1, <3>1, <3>2 DEF Busy
    <2>7. QED
      BY <2>1, <2>5, <2>6 DEF Told
  <1>3. QED
    BY <1>1, <1>2

LEMMA KeepStep ==
    ASSUME IInv, Tells, Types', Seats',
           \A v \in Slots :
                \/ Told(v)'
                \/ KeepsWork(v) /\ (worker[v].pc \in Readers => DataStands(worker[v].file)),
           \A f \in Files : RowStays(f) /\ Due(f)' /\ FreshRow(f)' /\ Calm(f)'
    PROVE  Tells'
  <1>1. ASSUME NEW v \in Slots PROVE Told(v)'
    BY ToldStays DEF Tells
  <1>2. FreshData'
    BY DEF FreshData, FreshRow, Fresh, Good
  <1>3. QED
    BY <1>1, <1>2 DEF Tells

\* A row that nobody writes stays as fresh as it was.
LEMMA FreshStays ==
    ASSUME Tells, NEW f \in Files, row'[f] = row[f], DataStands(f)
    PROVE  FreshRow(f)'
  <1>1. FreshRow(f)
    BY IsFresh DEF Tells
  <1>2. CASE raced'[f]
    BY <1>2 DEF FreshRow
  <1>3. CASE ~raced[f] /\ disk'[f] = disk[f] /\ store'[f] = store[f]
    BY <1>1, <1>3 DEF FreshRow, HasRow
  <1>4. QED
    BY <1>2, <1>3 DEF DataStands

\* A file that gets no worker, and whose row is not completed, stays calm.
LEMMA CalmStays ==
    ASSUME Tells, NEW f \in Files, \A v \in Slots : KeepsFile(v), raced[f] => raced'[f],
           HasRow(f)' /\ row'[f].status = "completed"
               => raced'[f] \/ (HasRow(f) /\ row[f].status = "completed")
    PROVE  Calm(f)'
  <1>1. Calm(f) /\ \A v \in Slots : At(v, f)' => At(v, f)
    BY DEF Tells, At, KeepsFile
  <1>2. QED
    BY <1>1 DEF Calm

LEMMA DataStays ==
    ASSUME UNCHANGED <<store, raced, disk>>, NEW f
    PROVE  DataStands(f)
  BY DEF DataStands

LEMMA RowsStay == ASSUME UNCHANGED row PROVE \A f \in Files : RowStays(f)
  BY DEF RowStays, HasRow

LEMMA DueStays ==
    ASSUME Tells, NEW f \in Files, row'[f] = row[f], scan'[f] \in {scan[f], NoFile, NoRow}
    PROVE  Due(f)'
  BY DEF Tells, Due, HasRow

\* A step of workers and pools.
LEMMA PoolsMove ==
    ASSUME IInv, Tells, UNCHANGED <<row, store, raced, disk>>,
           listed' \in SUBSET Repos, del' \in [Repos -> {"no", "cancelled", "rows", "vectors"}],
           scan' = scan \/ scan' = [f \in Files |-> NoFile],
           Seats', \A v \in Slots : KeepsWork(v)
    PROVE  Tells'
  <1>1. Types'
    BY DEF Tells, Types
  <1>2. \A f \in Files : RowStays(f) /\ Due(f)' /\ FreshRow(f)' /\ DataStands(f)
    BY DueStays, RowsStay, DataStays, FreshStays
  <1>5. \A f \in Files : Calm(f)'
    BY CalmStays DEF KeepsWork, HasRow
  <1>3. \A v \in Slots : worker[v].pc \in Readers => DataStands(worker[v].file)
    BY DataStays
  <1>4. QED
    BY <1>1, <1>2, <1>3, <1>5, KeepStep

\* A step of workers alone.
LEMMA WorkersRest ==
    ASSUME IInv, Tells, UNCHANGED <<row, store, raced, disk, pool, queue, permits, scan>>,
           listed' \in SUBSET Repos, del' \in [Repos -> {"no", "cancelled", "rows", "vectors"}],
           \A v \in Slots : Rests(v)
    PROVE  Tells'
  <1>1. Seats'
    BY SeatsStay DEF Tells, Rests
  <1>2. QED
    BY <1>1, PoolsMove DEF Rests

-----------------------------------------------------------------------------
(* What becomes of the workers.                                            *)

LEMMA SameRests == ASSUME worker' = worker PROVE \A v \in Slots : Rests(v)
  BY DEF Rests, KeepsSeat, KeepsWork, KeepsFile

LEMMA OneRests ==
    ASSUME IInv, NEW w \in Slots, NEW x, worker' = [worker EXCEPT ![w] = x],
           x.member => worker[w].member /\ x.repo = worker[w].repo
    PROVE  /\ worker'[w] = x
           /\ \A v \in Slots : KeepsSeat(v)
           /\ \A v \in Slots \ {w} : worker'[v] = worker[v] /\ Rests(v)
           /\ (x.pc \in Works => worker[w].pc \in Works /\ x.file = worker[w].file) => KeepsFile(w)
           /\ x.pc \notin Busy
                   /\ (x.pc \in Works => worker[w].pc \in Works /\ x.file = worker[w].file)
               => Rests(w)
  <1>1. worker'[w] = x /\ \A v \in Slots \ {w} : worker'[v] = worker[v]
    BY DEF IInv, Shape
  <1>2. QED
    BY <1>1 DEF Rests, KeepsSeat, KeepsWork, KeepsFile

LEMMA NextRoundRests ==
    ASSUME IInv, NEW w \in Slots, NextRound(w)
    PROVE  \A v \in Slots : Rests(v)
  <1> DEFINE x == [Off EXCEPT !.pc = "claim", !.repo = worker[w].repo, !.member = worker[w].member]
  <1>1. x.member = worker[w].member /\ x.repo = worker[w].repo /\ x.pc = "claim"
    BY DEF Off
  <1>2. worker' = [worker EXCEPT ![w] = x]
    BY DEF NextRound
  <1> HIDE DEF x
  <1>3. QED
    BY <1>1, <1>2, OneRests DEF Busy, Readers, Works

LEMMA IdleRests ==
    ASSUME IInv, NEW w \in Slots, Idle(w)
    PROVE  \A v \in Slots : Rests(v)
  <1> DEFINE y == [Off EXCEPT !.pc = "claim", !.repo = worker[w].repo,
                              !.member = worker[w].member, !.idle = worker[w].idle + 1]
  <1>1. /\ y.member = worker[w].member /\ y.repo = worker[w].repo
        /\ y.pc \notin Busy \cup Works
    BY DEF Off, Busy, Readers, Works
  <1>2. /\ Ended(w).member => worker[w].member /\ Ended(w).repo = worker[w].repo
        /\ Ended(w).pc \notin Busy \cup Works
    BY DEF Ended, Off, Busy, Readers, Works
  <1>3. worker' = [worker EXCEPT ![w] = y] \/ worker' = [worker EXCEPT ![w] = Ended(w)]
    BY DEF Idle
  <1> HIDE DEF y
  <1>4. QED
    BY <1>1, <1>2, <1>3, OneRests

-----------------------------------------------------------------------------
(* Permits.                                                                *)

LEMMA RunningFinite == IsFiniteSet(Running)
  BY PoolAssumption, FS_Subset DEF PoolAssumption, Running

LEMMA PermitTaken ==
    ASSUME Seats, Shape, NEW r \in Repos, pool[r] # "running", permits > 0,
           pool' = [pool EXCEPT ![r] = "running"], permits' = permits - 1
    PROVE  permits' \in Nat /\ permits' + Cardinality(Running') = MaxPools
  <1>1. Running' = Running \cup {r} /\ r \notin Running
    BY DEF Shape, Running
  <1>2. Cardinality(Running') = Cardinality(Running) + 1 /\ Cardinality(Running) \in Nat
    BY <1>1, RunningFinite, FS_AddElement, FS_CardinalityType
  <1>3. QED
    BY <1>2 DEF Seats

LEMMA PermitReturned ==
    ASSUME Seats, Shape, NEW r \in Repos, pool[r] = "running",
           pool' = [pool EXCEPT ![r] = "none"], permits' = permits + 1
    PROVE  permits' \in Nat /\ permits' + Cardinality(Running') = MaxPools
  <1>1. Running' = Running \ {r} /\ r \in Running
    BY DEF Shape, Running
  <1>2. Cardinality(Running') = Cardinality(Running) - 1 /\ Cardinality(Running) \in Nat
    BY <1>1, RunningFinite, FS_RemoveElement, FS_CardinalityType
  <1>3. QED
    BY <1>2 DEF Seats

\* A pool that runs ends, and its members leave it: the queue is not touched.
LEMMA SeatsReturned ==
    ASSUME Seats, Shape, NEW r \in Repos, pool[r] = "running",
           pool' = [pool EXCEPT ![r] = "none"], permits' = permits + 1, queue' = queue,
           \A v \in Slots : worker'[v].member =>
                worker[v].member /\ worker'[v].repo = worker[v].repo /\ worker[v].repo # r
    PROVE  Seats'
  <1>1. permits' \in Nat /\ permits' + Cardinality(Running') = MaxPools
    BY PermitReturned
  <1>2. \A i \in 1..Len(queue) : pool[queue[i]] = "waiting" /\ queue[i] \in Repos
    BY DEF Seats
  <1>3. \A i \in 1..Len(queue) : pool'[queue[i]] = "waiting"
    BY <1>2 DEF Shape
  <1>4. \A v \in Slots : worker'[v].member => worker'[v].repo \in Repos /\ pool'[worker'[v].repo] = "running"
    BY DEF Seats, Shape
  <1>5. QED
    BY <1>1, <1>3, <1>4 DEF Seats

-----------------------------------------------------------------------------
LEMMA ListTold ==
    ASSUME IInv, Tells, ListRepos PROVE Tells'
  <1>1. {RepoOf[f] : f \in {g \in Files : HasRow(g) /\ row[g].status \in Claimable}} \subseteq Repos
    BY PoolAssumption DEF PoolAssumption
  <1>2. /\ UNCHANGED <<row, store, raced, disk, pool, queue, permits, scan, worker, del>>
        /\ listed' \in SUBSET Repos
    BY <1>1 DEF ListRepos, rows
  <1>3. QED
    BY <1>2, SameRests, WorkersRest DEF Tells, Types

LEMMA Joined ==
    ASSUME NEW S, NEW s \in Seq(S), NEW t \in Seq(S)
    PROVE  /\ s \o t \in Seq(S) /\ Len(s) \in Nat /\ Len(t) \in Nat
           /\ Len(s \o t) = Len(s) + Len(t)
           /\ \A i \in 1..Len(s \o t) :
                (s \o t)[i] = IF i <= Len(s) THEN s[i] ELSE t[i - Len(s)]
  OBVIOUS

LEMMA StartTold ==
    ASSUME IInv, Tells, StartAnalysis PROVE Tells'
  <1> DEFINE new == {r \in listed : pool[r] = "none"}
  <1>1. /\ UNCHANGED <<row, store, raced, disk, scan, worker, del, permits>>
        /\ listed' = {}
        /\ pool' = [r \in Repos |-> IF r \in new THEN "waiting" ELSE pool[r]]
    BY DEF StartAnalysis, rows
  <1>2. new \subseteq Repos /\ IsFiniteSet(new)
    BY PoolAssumption, FS_Subset DEF PoolAssumption, Tells, Types
  <1> DEFINE n == Cardinality(new)
  <1>3. n \in Nat
    BY <1>2, FS_CardinalityType
  <1>4. PICK order \in [1..n -> new] :
            /\ \A i, j \in 1..n : i # j => order[i] # order[j]
            /\ queue' = queue \o order
    BY DEF StartAnalysis, SetToSeqs
  <1>5. \A r \in new : pool[r] = "none"
    OBVIOUS
  <1> HIDE DEF new, n
  <1>6. /\ queue \in Seq(Repos)
        /\ \A i \in 1..Len(queue) : queue[i] \in Repos /\ pool[queue[i]] = "waiting"
        /\ \A i, j \in 1..Len(queue) : queue[i] = queue[j] => i = j
    BY DEF Tells, Seats
  <1>7. order \in Seq(Repos) /\ Len(order) = n
    BY <1>2, <1>3, <1>4
  <1>8. /\ queue' \in Seq(Repos) /\ Len(queue') = Len(queue) + n /\ Len(queue) \in Nat
        /\ \A i \in 1..Len(queue') :
              queue'[i] = IF i <= Len(queue) THEN queue[i] ELSE order[i - Len(queue)]
    <2> DEFINE q == queue \o order
    <2>0. queue \in Seq(Repos) /\ order \in Seq(Repos)
      BY ONLY <1>6, <1>7
    <2>1. /\ q \in Seq(Repos) /\ Len(q) = Len(queue) + Len(order) /\ Len(queue) \in Nat
          /\ \A i \in 1..Len(q) : q[i] = IF i <= Len(queue) THEN queue[i] ELSE order[i - Len(queue)]
      BY ONLY <2>0, Joined, Zenon
    <2>2. queue' = q
      BY <1>4
    <2> HIDE DEF q
    <2>3. QED
      BY ONLY <1>7, <2>1, <2>2
  <1>9. \A i \in 1..Len(queue') :
            \/ i \in 1..Len(queue) /\ queue'[i] = queue[i]
            \/ i - Len(queue) \in 1..n /\ queue'[i] = order[i - Len(queue)] /\ queue'[i] \in new
    BY <1>3, <1>4, <1>8
  <1>10. \A i \in 1..Len(queue') : pool'[queue'[i]] = "waiting"
    BY <1>1, <1>2, <1>6, <1>9
  <1>11. ASSUME NEW i \in 1..Len(queue'), NEW j \in 1..Len(queue'), queue'[i] = queue'[j]
         PROVE  i = j
    <2>1. CASE i \in 1..Len(queue) /\ queue'[i] = queue[i]
      <3>1. queue'[j] \notin new
        BY <1>5, <1>6, <1>11, <2>1
      <3>2. j \in 1..Len(queue) /\ queue'[j] = queue[j]
        BY <1>9, <3>1
      <3>3. QED
        BY <1>6, <1>11, <2>1, <3>2
    <2>2. CASE i - Len(queue) \in 1..n /\ queue'[i] = order[i - Len(queue)] /\ queue'[i] \in new
      <3>1. ~(j \in 1..Len(queue) /\ queue'[j] = queue[j])
        BY <1>5, <1>6, <1>11, <2>2
      <3>2. j - Len(queue) \in 1..n /\ queue'[j] = order[j - Len(queue)]
        BY <1>9, <3>1
      <3>3. i - Len(queue) = j - Len(queue)
        BY <1>4, <1>11, <2>2, <3>2
      <3>4. QED
        BY <1>8, <3>3
    <2>3. QED
      BY <1>9, <2>1, <2>2
  <1>12. Running' = Running
    BY <1>1, <1>5 DEF Running
  <1>13. \A w \in Slots : worker'[w].member =>
            worker'[w].repo \in Repos /\ pool'[worker'[w].repo] = "running"
    BY <1>1, <1>5 DEF Tells, Seats
  <1>14. Seats'
    <2>1. permits' \in Nat /\ permits' + Cardinality(Running') = MaxPools
      BY <1>1, <1>12 DEF Tells, Seats
    <2>2. QED
      BY <1>8, <1>10, <1>11, <1>13, <2>1 DEF Seats
  <1>15. \A v \in Slots : KeepsWork(v)
    BY <1>1, SameRests DEF Rests
  <1>16. QED
    BY <1>1, <1>14, <1>15, PoolsMove DEF Tells, Types

LEMMA EnterTold ==
    ASSUME IInv, Tells, NEW r \in Repos, EnterPool(r) PROVE Tells'
  <1> DEFINE member == [Off EXCEPT !.pc = "claim", !.repo = r, !.member = TRUE]
  <1>1. /\ UNCHANGED <<row, store, raced, disk, scan, listed, del>>
        /\ queue # <<>> /\ Head(queue) = r /\ queue' = Tail(queue)
        /\ permits > 0 /\ permits' = permits - 1
        /\ pool' = [pool EXCEPT ![r] = "running"]
    BY DEF EnterPool, rows
  <1>2. PICK hired : worker' = [w \in Slots |-> IF w \in hired THEN member ELSE worker[w]]
    BY DEF EnterPool
  <1>3. member.pc = "claim" /\ member.repo = r /\ member.member = TRUE
    BY DEF Off
  <1> HIDE DEF member
  <1>4. \A w \in Slots : worker'[w] = member \/ worker'[w] = worker[w]
    BY <1>2
  <1>5. \A v \in Slots : KeepsWork(v)
    BY <1>3, <1>4 DEF KeepsWork, KeepsFile, Busy, Readers, Works
  <1>6. /\ queue \in Seq(Repos)
        /\ \A i \in 1..Len(queue) : queue[i] \in Repos /\ pool[queue[i]] = "waiting"
        /\ \A i, j \in 1..Len(queue) : queue[i] = queue[j] => i = j
    BY DEF Tells, Seats
  <1>7. /\ Len(queue) \in Nat \ {0} /\ queue[1] = r
        /\ queue' \in Seq(Repos) /\ Len(queue') = Len(queue) - 1
        /\ \A i \in 1..Len(queue') : queue'[i] = queue[i + 1]
    BY <1>1, <1>6
  <1>8. pool[r] = "waiting"
    BY <1>6, <1>7
  <1>9. permits' \in Nat /\ permits' + Cardinality(Running') = MaxPools
    BY <1>1, <1>8, PermitTaken DEF IInv, Tells
  <1>10. \A i \in 1..Len(queue') : pool'[queue'[i]] = "waiting"
    <2> SUFFICES ASSUME NEW i \in 1..Len(queue') PROVE pool'[queue'[i]] = "waiting"
      OBVIOUS
    <2>1. i + 1 \in 1..Len(queue) /\ i + 1 # 1 /\ 1 \in 1..Len(queue)
      BY <1>7
    <2>2. queue[i + 1] # r
      BY <1>6, <1>7, <2>1
    <2>3. QED
      BY <1>1, <1>6, <1>7, <2>1, <2>2 DEF IInv, Shape
  <1>11. \A i, j \in 1..Len(queue') : queue'[i] = queue'[j] => i = j
    <2> SUFFICES ASSUME NEW i \in 1..Len(queue'), NEW j \in 1..Len(queue'), queue'[i] = queue'[j]
                 PROVE  i = j
      OBVIOUS
    <2>1. i + 1 \in 1..Len(queue) /\ j + 1 \in 1..Len(queue)
      BY <1>7
    <2>2. queue[i + 1] = queue[j + 1]
      BY <1>7
    <2>3. i + 1 = j + 1
      BY ONLY <1>6, <2>1, <2>2
    <2>4. QED
      BY <2>3
  <1>12. \A w \in Slots : worker'[w].member =>
            worker'[w].repo \in Repos /\ pool'[worker'[w].repo] = "running"
    <2> SUFFICES ASSUME NEW w \in Slots, worker'[w].member
                 PROVE  worker'[w].repo \in Repos /\ pool'[worker'[w].repo] = "running"
      OBVIOUS
    <2>1. CASE worker'[w] = member
      BY <1>1, <1>3, <2>1 DEF IInv, Shape
    <2>2. CASE worker'[w] = worker[w]
      BY <1>1, <2>2 DEF Tells, Seats, IInv, Shape
    <2>3. QED
      BY <1>4, <2>1, <2>2
  <1>13. Seats'
    BY <1>7, <1>9, <1>10, <1>11, <1>12 DEF Seats
  <1>14. QED
    BY <1>1, <1>5, <1>13, PoolsMove DEF Tells, Types

LEMMA LeaveTold ==
    ASSUME IInv, Tells, NEW r \in Repos, LeavePool(r) PROVE Tells'
  <1>1. /\ UNCHANGED <<row, store, raced, disk, scan, listed, del, queue>>
        /\ pool[r] = "running" /\ pool' = [pool EXCEPT ![r] = "none"] /\ permits' = permits + 1
        /\ worker' = [w \in Slots |-> IF w \in Members(r) THEN Off ELSE worker[w]]
    BY DEF LeavePool, rows
  <1>2. Off.pc = "off" /\ Off.member = FALSE
    BY DEF Off
  <1>3. \A v \in Slots : worker'[v] = Off \/ (worker'[v] = worker[v] /\ v \notin Members(r))
    BY <1>1
  <1>4. \A v \in Slots : KeepsWork(v)
    BY <1>2, <1>3 DEF KeepsWork, KeepsFile, Busy, Readers, Works
  <1>5. \A v \in Slots : worker'[v].member =>
            worker[v].member /\ worker'[v].repo = worker[v].repo /\ worker[v].repo # r
    BY <1>2, <1>3 DEF Members
  <1>6. Seats'
    BY <1>1, <1>5, SeatsReturned DEF IInv, Tells
  <1>7. QED
    BY <1>1, <1>4, <1>6, PoolsMove DEF Tells, Types

\* The pool of a worker that failed.
LEMMA PoolFailsTold ==
    ASSUME IInv, Tells, NEW w \in Slots, PoolFails(w, Members(worker[w].repo) \ {w}),
           UNCHANGED <<row, store, raced, disk, scan, listed, del, queue>>
    PROVE  Tells'
  <1>1. Off.pc = "off" /\ Off.member = FALSE
    BY DEF Off
  <1>2. CASE ~worker[w].member
    <2>1. worker' = [worker EXCEPT ![w] = Off] /\ UNCHANGED <<pool, permits>>
      BY <1>2 DEF PoolFails
    <2>2. \A v \in Slots : Rests(v)
      BY <1>1, <2>1, OneRests DEF Busy, Readers, Works
    <2>3. QED
      BY <2>1, <2>2, WorkersRest DEF Tells, Types
  <1>3. CASE worker[w].member
    <2> DEFINE r == worker[w].repo
               others == Members(r) \ {w}
               new(v) == IF v = w \/ (v \in others /\ worker[v].pc = "done") THEN Off
                         ELSE IF v \in others THEN [worker[v] EXCEPT !.member = FALSE]
                         ELSE worker[v]
    <2>1. /\ worker' = [v \in Slots |-> new(v)]
          /\ pool' = [pool EXCEPT ![r] = "none"] /\ permits' = permits + 1
      BY <1>3 DEF PoolFails
    <2>2. r \in Repos /\ pool[r] = "running"
      BY <1>3 DEF Tells, Seats
    <2>3. ASSUME NEW v \in Slots
          PROVE  /\ KeepsWork(v)
                 /\ worker'[v].member =>
                        worker[v].member /\ worker'[v].repo = worker[v].repo /\ worker[v].repo # r
      <3>1. worker[v] \in Workers
        BY DEF IInv, Shape
      <3>2. worker'[v] = new(v)
        BY <2>1
      <3>3. CASE worker'[v] = Off
        BY <1>1, <3>3 DEF KeepsWork, KeepsFile, Busy, Readers, Works
      <3>4. CASE worker'[v] = [worker[v] EXCEPT !.member = FALSE]
        BY <3>1, <3>4 DEF KeepsWork, KeepsFile, Workers
      <3>5. CASE worker'[v] = worker[v] /\ v # w /\ v \notin others
        BY <3>5 DEF KeepsWork, KeepsFile, Members
      <3>6. QED
        BY <3>2, <3>3, <3>4, <3>5
    <2> HIDE DEF new, others
    <2>4. Seats'
      BY <2>1, <2>2, <2>3, SeatsReturned DEF IInv, Tells
    <2>5. QED
      BY <2>3, <2>4, PoolsMove DEF Tells, Types
  <1>4. QED
    BY <1>2, <1>3

LEMMA RaiseTold ==
    ASSUME IInv, Tells, NEW w \in Slots, WorkerRaises(w) PROVE Tells'
  BY PoolFailsTold DEF WorkerRaises, rows

-----------------------------------------------------------------------------
\* A sequence without its entry at i.
LEMMA OneRemoved ==
    ASSUME NEW S, NEW q \in Seq(S), NEW i \in 1..Len(q)
    PROVE  /\ RemoveAt(q, i) \in Seq(S) /\ Len(q) \in Nat
           /\ Len(RemoveAt(q, i)) = Len(q) - 1
           /\ \A j \in 1..Len(RemoveAt(q, i)) :
                RemoveAt(q, i)[j] = IF j < i THEN q[j] ELSE q[j + 1]
  <1> DEFINE a == SubSeq(q, 1, i - 1)
             b == SubSeq(q, i + 1, Len(q))
  <1>1. /\ a \in Seq(S) /\ Len(a) = i - 1
        /\ \A j \in 1..(i - 1) : a[j] = q[j]
    OBVIOUS
  <1>2. /\ b \in Seq(S) /\ Len(b) = Len(q) - i
        /\ \A j \in 1..(Len(q) - i) : b[j] = q[i + j]
    OBVIOUS
  <1>3. i \in Nat /\ Len(q) \in Nat /\ i <= Len(q) /\ RemoveAt(q, i) = a \o b
    BY DEF RemoveAt
  <1> HIDE DEF a, b
  <1> DEFINE c == a \o b
  <1>4. /\ c \in Seq(S) /\ Len(c) = Len(a) + Len(b)
        /\ \A j \in 1..Len(c) : c[j] = IF j <= Len(a) THEN a[j] ELSE b[j - Len(a)]
    BY ONLY <1>1, <1>2, Joined, Zenon
  <1> HIDE DEF c
  <1>5. Len(c) = Len(q) - 1
    BY <1>1, <1>2, <1>3, <1>4
  <1>6. ASSUME NEW j \in 1..Len(c) PROVE c[j] = IF j < i THEN q[j] ELSE q[j + 1]
    <2>1. CASE j < i
      <3>1. j \in 1..(i - 1) /\ j <= Len(a)
        BY <1>1, <1>3, <1>5, <2>1
      <3>2. QED
        BY <1>1, <1>4, <2>1, <3>1
    <2>2. CASE ~(j < i)
      <3>1. j - (i - 1) \in 1..(Len(q) - i) /\ ~(j <= Len(a)) /\ i + (j - (i - 1)) = j + 1
        BY <1>1, <1>3, <1>5, <2>2
      <3>2. c[j] = b[j - (i - 1)]
        BY <1>1, <1>4, <3>1
      <3>3. b[j - (i - 1)] = q[j + 1]
        BY <1>2, <3>1
      <3>4. QED
        BY <2>2, <3>2, <3>3
    <2>3. QED
      BY <2>1, <2>2
  <1>7. QED
    BY <1>3, <1>4, <1>5, <1>6 DEF c

LEMMA StopTold ==
    ASSUME IInv, Tells, NEW r \in Repos, StopAnalysis(r) PROVE Tells'
  <1>1. UNCHANGED <<row, store, raced, disk, scan, listed>>
    BY DEF StopAnalysis, rows
  <1>2. /\ listed' \in SUBSET Repos
        /\ del' \in [Repos -> {"no", "cancelled", "rows", "vectors"}]
    BY DEF StopAnalysis, Tells, Types
  <1>3. CASE pool[r] = "none"
    <2>1. UNCHANGED <<worker, pool, queue, permits>>
      BY <1>3 DEF StopAnalysis
    <2>2. QED
      BY <1>1, <1>2, <2>1, SameRests, WorkersRest
  <1>4. CASE pool[r] # "none"
    <2>1. /\ worker' = [w \in Slots |-> IF w \in Members(r) THEN Off ELSE worker[w]]
          /\ pool' = [pool EXCEPT ![r] = "none"]
          /\ LeaveQueue(r)
          /\ permits' = IF pool[r] = "running" THEN permits + 1 ELSE permits
      BY <1>4 DEF StopAnalysis
    <2>2. Off.pc = "off" /\ Off.member = FALSE
      BY DEF Off
    <2>3. \A v \in Slots : worker'[v] = Off \/ (worker'[v] = worker[v] /\ v \notin Members(r))
      BY <2>1
    <2>4. \A v \in Slots : KeepsWork(v)
      BY <2>2, <2>3 DEF KeepsWork, KeepsFile, Busy, Readers, Works
    <2>5. \A v \in Slots : worker'[v].member =>
              worker[v].member /\ worker'[v].repo = worker[v].repo /\ worker[v].repo # r
      BY <2>2, <2>3 DEF Members
    <2>6. CASE pool[r] = "running"
      <3>1. queue' = queue /\ permits' = permits + 1
        BY <2>1, <2>6 DEF LeaveQueue
      <3>2. Seats'
        BY <2>1, <2>5, <2>6, <3>1, SeatsReturned DEF IInv, Tells
      <3>3. QED
        BY <1>1, <1>2, <2>4, <3>2, PoolsMove
    <2>7. CASE pool[r] # "running"
      <3>1. pool[r] = "waiting" /\ permits' = permits
        BY <1>4, <2>1, <2>7 DEF IInv, Shape
      <3>2. PICK i \in 1..Len(queue) : queue[i] = r /\ queue' = RemoveAt(queue, i)
        BY <2>1, <3>1 DEF LeaveQueue
      <3>3. /\ queue \in Seq(Repos)
            /\ \A j \in 1..Len(queue) : queue[j] \in Repos /\ pool[queue[j]] = "waiting"
            /\ \A j, k \in 1..Len(queue) : queue[j] = queue[k] => j = k
        BY DEF Tells, Seats
      <3>4. /\ queue' \in Seq(Repos) /\ Len(queue) \in Nat /\ Len(queue') = Len(queue) - 1
            /\ \A j \in 1..Len(queue') :
                  queue'[j] = IF j < i THEN queue[j] ELSE queue[j + 1]
        BY ONLY <3>2, <3>3, OneRemoved
      <3> DEFINE at(j) == IF j < i THEN j ELSE j + 1
      <3>5. ASSUME NEW j \in 1..Len(queue')
            PROVE  at(j) \in 1..Len(queue) /\ at(j) # i /\ queue'[j] = queue[at(j)]
        BY <3>4
      <3>6. \A j \in 1..Len(queue') : pool'[queue'[j]] = "waiting"
        <4> SUFFICES ASSUME NEW j \in 1..Len(queue') PROVE pool'[queue'[j]] = "waiting"
          OBVIOUS
        <4> HIDE DEF at
        <4>1. queue[at(j)] # r
          BY <3>2, <3>3, <3>5
        <4>2. QED
          BY <2>1, <3>3, <3>5, <4>1 DEF IInv, Shape
      <3>7. ASSUME NEW j \in 1..Len(queue'), NEW k \in 1..Len(queue'), queue'[j] = queue'[k]
            PROVE  j = k
        <4>1. at(j) = at(k)
          <5> HIDE DEF at
          <5>1. QED
            BY <3>3, <3>5, <3>7
        <4>2. QED
          BY <4>1
      <3>8. Running' = Running
        BY <2>1, <3>1 DEF Running, IInv, Shape
      <3>9. \A v \in Slots : worker'[v].member =>
                worker'[v].repo \in Repos /\ pool'[worker'[v].repo] = "running"
        BY <2>1, <2>5 DEF Tells, Seats, IInv, Shape
      <3>10. permits' \in Nat /\ permits' + Cardinality(Running') = MaxPools
        BY <3>1, <3>8 DEF Tells, Seats
      <3>11. Seats'
        BY <3>4, <3>6, <3>7, <3>9, <3>10 DEF Seats
      <3>12. QED
        BY <1>1, <1>2, <2>4, <3>11, PoolsMove
    <2>8. QED
      BY <2>6, <2>7
  <1>5. QED
    BY <1>3, <1>4

LEMMA CrashTold == ASSUME IInv, Tells, Crash PROVE Tells'
  <1>1. /\ UNCHANGED <<row, store, raced, disk>>
        /\ worker' = [w \in Slots |-> Off] /\ pool' = [r \in Repos |-> "none"]
        /\ queue' = <<>> /\ permits' = MaxPools /\ listed' = {}
        /\ scan' = [f \in Files |-> NoFile] /\ del' = [r \in Repos |-> "no"]
    BY DEF Crash, rows
  <1>2. Off.pc = "off" /\ Off.member = FALSE
    BY DEF Off
  <1>3. \A v \in Slots : KeepsWork(v)
    BY <1>1, <1>2 DEF KeepsWork, KeepsFile, Busy, Readers, Works
  <1>4. Running' = {}
    BY <1>1 DEF Running
  <1>5. permits' \in Nat /\ permits' + Cardinality(Running') = MaxPools
    BY <1>1, <1>4, FS_EmptySet, PoolAssumption DEF PoolAssumption
  <1>6. queue' \in Seq(Repos) /\ Len(queue') = 0
    BY <1>1
  <1>7. Seats'
    BY <1>1, <1>2, <1>5, <1>6 DEF Seats
  <1>8. QED
    BY <1>1, <1>3, <1>7, PoolsMove

-----------------------------------------------------------------------------
(* A worker's way through a file.                                          *)

LEMMA SelectTold == ASSUME IInv, Tells, NEW w \in Slots, Select(w) PROVE Tells'
  <1>1. UNCHANGED <<row, store, raced, disk, pool, queue, permits, scan, listed, del>>
    BY DEF Select, rows
  <1>2. CASE Idle(w)
    BY <1>1, <1>2, IdleRests, WorkersRest DEF Tells, Types
  <1>3. CASE \E f \in FilesOf(worker[w].repo) :
                worker' = [worker EXCEPT ![w].pc = "mark", ![w].file = f, ![w].id = row[f].id]
    <2>1. PICK f : worker' = [worker EXCEPT ![w].pc = "mark", ![w].file = f, ![w].id = row[f].id]
      BY <1>3
    <2> DEFINE x == [worker[w] EXCEPT !.pc = "mark", !.file = f, !.id = row[f].id]
    <2>2. worker' = [worker EXCEPT ![w] = x]
      BY <2>1
    <2>3. x.pc = "mark" /\ x.member = worker[w].member /\ x.repo = worker[w].repo
      BY DEF IInv, Shape, Workers
    <2> HIDE DEF x
    <2>4. \A v \in Slots : Rests(v)
      BY <2>2, <2>3, OneRests DEF Busy, Readers, Works
    <2>5. QED
      BY <1>1, <2>4, WorkersRest DEF Tells, Types
  <1>4. QED
    BY <1>2, <1>3 DEF Select

LEMMA ClaimTold ==
    ASSUME IInv, Tells, NEW w \in Slots, worker[w].pc = "mark", MayClaim(w),
           row' = [row EXCEPT ![worker[w].file].status = "running"],
           raced' = [raced EXCEPT ![worker[w].file] =
                        {v \in Slots \ {w} : Holds(v, worker[w].file) /\ worker[v].pc # "mark"} # {}],
           worker' = [worker EXCEPT ![w].pc = "load", ![w].idle = 0],
           UNCHANGED <<disk, store, pool, queue, permits, listed, scan, del>>
    PROVE  Tells'
  <1>0. PICK f \in Files : f = worker[w].file
    BY DEF IInv, Ids
  <1> DEFINE others == {v \in Slots \ {w} : Holds(v, f) /\ worker[v].pc # "mark"}
             x == [worker[w] EXCEPT !.pc = "load", !.idle = 0]
  <1>1. /\ f \in Files /\ row[f] \in Rows /\ HasRow(f) /\ row[f].status \in Claimable
        /\ worker[w] \in Workers
    BY <1>0 DEF IInv, Shape, Ids, MayClaim, OwnRow, HasRow
  <1>2. /\ row'[f] = [row[f] EXCEPT !.status = "running"]
        /\ \A g \in Files \ {f} : row'[g] = row[g]
    BY <1>0, <1>1 DEF IInv, Shape
  <1>3. /\ row'[f].status = "running" /\ row'[f].id = row[f].id
        /\ row'[f].due = row[f].due /\ row'[f].requeued = row[f].requeued
    BY <1>1, <1>2 DEF Rows
  <1>4. raced' = [raced EXCEPT ![f] = others # {}]
    BY <1>0
  <1>5. worker' = [worker EXCEPT ![w] = x]
    OBVIOUS
  <1>6. /\ x.pc = "load" /\ x.file = f
        /\ x.member = worker[w].member /\ x.repo = worker[w].repo
    BY <1>0, <1>1 DEF Workers
  <1> HIDE DEF x
  <1>7. /\ worker'[w] = x
        /\ \A v \in Slots : KeepsSeat(v)
        /\ \A v \in Slots \ {w} : worker'[v] = worker[v] /\ Rests(v)
    BY ONLY IInv, <1>5, <1>6, OneRests
  <1>8. Told(w)'
    <2>1. worker'[w].pc = "load"
      BY <1>6, <1>7
    <2>2. "load" \notin Busy \cup Readers \cup {New(k) : k \in Kinds}
      BY DEF Busy, Readers, New
    <2>3. \A version, result, content, kept : Right("load", version, result, content, kept)
      BY <2>2 DEF Right, Readers
    <2>4. QED
      BY <2>1, <2>2, <2>3 DEF Told
  <1>9. /\ raced' \in [Files -> BOOLEAN]
        /\ raced'[f] = (others # {})
        /\ \A g \in Files \ {f} : raced'[g] = raced[g]
    <2>1. raced \in [Files -> BOOLEAN]
      BY DEF Tells, Types
    <2> HIDE DEF others
    <2>2. (others # {}) \in BOOLEAN
      OBVIOUS
    <2>3. QED
      BY <1>1, <1>4, <2>1, <2>2, Zenon
  <1>10. ASSUME NEW v \in Slots \ {w}, worker[v].pc \in Works, worker[v].file = f PROVE raced'[f]
    <2>1. v \in others
      BY <1>10 DEF Works, Holds
    <2> HIDE DEF others
    <2>2. QED
      BY <1>9, <2>1
  <1>11. ASSUME NEW v \in Slots \ {w}, worker[v].pc \in Readers PROVE DataStands(worker[v].file)
    <2>1. worker[v].pc \in Works /\ worker[v].file \in Files
      BY <1>11 DEF IInv, Ids, Works, Readers
    <2>2. CASE worker[v].file = f
      BY <1>10, <2>1, <2>2 DEF DataStands
    <2>3. CASE worker[v].file # f
      BY <1>9, <2>1, <2>3 DEF DataStands
    <2>4. QED
      BY <2>2, <2>3
  <1>12. ASSUME NEW g \in Files PROVE RowStays(g) /\ Due(g)' /\ FreshRow(g)' /\ Calm(g)'
    <2>1. CASE g = f
      <3>1. Due(g)
        BY DEF Tells
      <3>2. Calm(f)'
        <4>1. ASSUME ~raced'[f], NEW v \in Slots, At(v, f)' PROVE v = w
          BY <1>7, <1>10, <4>1 DEF At
        <4>2. QED
          BY <1>3, <4>1 DEF Calm
      <3>3. RowStays(f) /\ FreshRow(f)'
        BY <1>1, <1>3 DEF RowStays, FreshRow, HasRow
      <3>4. Due(f)'
        BY <1>1, <1>3, <2>1, <3>1 DEF Due, HasRow, Claimable
      <3>5. QED
        BY <2>1, <3>2, <3>3, <3>4
    <2>2. CASE g # f
      <3>1. row'[g] = row[g] /\ DataStands(g)
        BY <1>2, <1>9, <2>2 DEF DataStands
      <3>2. RowStays(g)
        BY <3>1 DEF RowStays, HasRow
      <3>3. Calm(g) /\ \A v \in Slots : At(v, g)' => At(v, g)
        BY <1>6, <1>7, <2>2 DEF Tells, At
      <3>4. Calm(g)'
        BY <1>9, <2>2, <3>1, <3>3 DEF Calm, HasRow
      <3>5. QED
        BY <3>1, <3>2, <3>4, FreshStays, DueStays
    <2>3. QED
      BY <2>1, <2>2
  <1>13. Types'
    BY <1>9 DEF Tells, Types
  <1>14. Seats'
    BY <1>7, SeatsStay DEF Tells
  <1>15. QED
    BY <1>7, <1>8, <1>11, <1>12, <1>13, <1>14, KeepStep DEF Rests

LEMMA MarkTold == ASSUME IInv, Tells, NEW w \in Slots, Mark(w) PROVE Tells'
  <1>1. /\ worker[w].pc = "mark"
        /\ UNCHANGED <<disk, store, pool, queue, permits, listed, scan, del>>
    BY DEF Mark
  <1>2. CASE Idle(w) /\ UNCHANGED <<row, raced>>
    BY <1>1, <1>2, IdleRests, WorkersRest DEF Tells, Types
  <1>3. CASE ~(Idle(w) /\ UNCHANGED <<row, raced>>)
    <2>1. /\ MayClaim(w)
          /\ row' = [row EXCEPT ![worker[w].file].status = "running"]
          /\ raced' = [raced EXCEPT ![worker[w].file] =
                {v \in Slots \ {w} : Holds(v, worker[w].file) /\ worker[v].pc # "mark"} # {}]
          /\ worker' = [worker EXCEPT ![w].pc = "load", ![w].idle = 0]
      BY <1>3 DEF Mark
    <2>2. QED
      BY <1>1, <2>1, ClaimTold
  <1>4. QED
    BY <1>2, <1>3

\* One worker goes on with its file, whose data it may change: whoever else is
\* at the file has been told.
LEMMA WorkStep ==
    ASSUME IInv, Tells, NEW w \in Slots, NEW x, worker' = [worker EXCEPT ![w] = x],
           worker[w].pc \in Works, x.file = worker[w].file,
           x.member = worker[w].member, x.repo = worker[w].repo, Told(w)',
           UNCHANGED <<row, raced, disk, pool, queue, permits, scan, listed, del>>,
           store' \in [Files -> [Kinds -> Vectors]],
           \A g \in Files \ {worker[w].file} : store'[g] = store[g]
    PROVE  Tells'
  <1> DEFINE f == worker[w].file
  <1>1. /\ \A v \in Slots : KeepsSeat(v) /\ KeepsFile(v)
        /\ \A v \in Slots \ {w} : Rests(v)
    <2>1. (\A v \in Slots : KeepsSeat(v)) /\ (\A v \in Slots \ {w} : Rests(v)) /\ KeepsFile(w)
      BY OneRests
    <2>2. QED
      BY <2>1 DEF Rests, KeepsWork
  <1>2. Types' /\ Seats'
    BY <1>1, SeatsStay DEF Tells, Types
  <1>3. f \in Files /\ Calm(f) /\ At(w, f)
    BY DEF IInv, Ids, Tells, At
  <1>4. \A g \in Files \ {f} : DataStands(g)
    BY DEF DataStands
  <1>5. ASSUME NEW v \in Slots \ {w}, worker[v].pc \in Readers PROVE DataStands(worker[v].file)
    <2>1. worker[v].file \in Files /\ At(v, worker[v].file)
      BY <1>5 DEF IInv, Ids, Works, Readers, At
    <2>2. CASE worker[v].file = f
      <3>1. raced[f]
        BY <1>3, <2>1, <2>2 DEF Calm
      <3>2. QED
        BY <2>2, <3>1 DEF DataStands
    <2>3. QED
      BY <1>4, <2>1, <2>2
  <1>6. ASSUME NEW g \in Files PROVE RowStays(g) /\ Due(g)' /\ FreshRow(g)' /\ Calm(g)'
    <2>1. RowStays(g) /\ Due(g)' /\ Calm(g)'
      BY <1>1, DueStays, RowsStay, CalmStays DEF HasRow
    <2>2. CASE g = f
      <3>1. raced[f] \/ ~(HasRow(f) /\ row[f].status = "completed")
        BY <1>3 DEF Calm
      <3>2. QED
        BY <2>1, <2>2, <3>1 DEF FreshRow, HasRow
    <2>3. CASE g # f
      BY <1>4, <2>1, <2>3, FreshStays
    <2>4. QED
      BY <2>2, <2>3
  <1>7. QED
    BY <1>1, <1>2, <1>5, <1>6, KeepStep DEF Rests

\* A worker that goes on to another of its steps.
LEMMA GoTold ==
    ASSUME IInv, Tells, NEW w \in Slots, worker[w].pc \in Busy,
           NEW pc \in Busy \cup {"remove"}, NEW version, NEW result,
           worker' = [worker EXCEPT ![w] =
                            [@ EXCEPT !.pc = pc, !.version = version, !.result = result]],
           UNCHANGED <<row, raced, disk, pool, queue, permits, scan, listed, del>>,
           store' \in [Files -> [Kinds -> Vectors]],
           \A g \in Files \ {worker[w].file} : store'[g] = store[g],
           ~raced[worker[w].file] =>
                Right(pc, version, result, disk[worker[w].file], store'[worker[w].file])
    PROVE  Tells'
  <1> DEFINE f == worker[w].file
             x == [worker[w] EXCEPT !.pc = pc, !.version = version, !.result = result]
  <1>1. worker' = [worker EXCEPT ![w] = x]
    OBVIOUS
  <1>2. worker[w] \in Workers /\ worker[w].pc \in Works /\ Told(w)
    BY DEF IInv, Shape, Tells, Busy, Readers, Works
  <1>3. /\ x.pc = pc /\ x.version = version /\ x.result = result /\ x.file = f
        /\ x.id = worker[w].id /\ x.seen = worker[w].seen
        /\ x.member = worker[w].member /\ x.repo = worker[w].repo
    BY <1>2 DEF Workers
  <1> HIDE DEF x
  <1>4. worker'[w] = x
    BY <1>1 DEF IInv, Shape
  <1>5. OwnRow(w)' = OwnRow(w)
    BY <1>3, <1>4 DEF OwnRow, HasRow
  <1>6. Told(w)'
    BY <1>2, <1>3, <1>4, <1>5 DEF Told
  <1>7. QED
    BY <1>1, <1>2, <1>3, <1>6, WorkStep

\* The way to a file, and out of its analysis.
LEMMA WorkTold ==
    ASSUME IInv, Tells, NEW w \in Slots, Load(w) \/ Open(w) \/ AnalysisFails(w)
    PROVE  Tells'
  <1> DEFINE f == worker[w].file
  <1>1. UNCHANGED <<row, raced, disk, pool, queue, permits, scan, listed, del>>
    BY DEF Load, Open, AnalysisFails, rows
  <1>2. worker[w].pc \in Works /\ (Open(w) \/ AnalysisFails(w) => worker[w].pc \in Busy)
    <2>1. AnalysisFails(w) => worker[w].pc \in {"lines", "symbols", "new lines", "new symbols"}
      BY DEF AnalysisFails, Kinds, New
    <2>2. QED
      BY <2>1 DEF Load, Open, Works, Busy, Readers
  <1>3. /\ f \in Files /\ worker[w] \in Workers /\ Told(w)
        /\ store \in [Files -> [Kinds -> Vectors]]
    BY <1>2 DEF IInv, Shape, Ids, Tells, Types
  <1>4. CASE Load(w)
    <2>1. store' = store
      BY <1>4 DEF Load, rows
    <2>2. CASE ~OwnRow(w)
      BY <1>1, <1>4, <2>1, <2>2, NextRoundRests, WorkersRest DEF Load, Tells, Types
    <2>3. CASE OwnRow(w)
      <3> DEFINE x == [worker[w] EXCEPT !.pc = "open", !.seen = row[f].status]
      <3>1. worker' = [worker EXCEPT ![w] = x]
        BY <1>4, <2>3 DEF Load
      <3>2. /\ x.pc = "open" /\ x.seen = row[f].status /\ x.file = f
            /\ x.member = worker[w].member /\ x.repo = worker[w].repo
        BY <1>3 DEF Workers
      <3> HIDE DEF x
      <3>3. worker'[w] = x
        BY <3>1, <3>2, OneRests
      <3>4. ~row[f].requeued => row[f].status = "running"
        BY <1>2, <2>3 DEF IInv, ClaimedRuns
      <3>5. Right("open", x.version, x.result, disk[f], store[f])
        BY DEF Right, Readers, Kinds, New
      <3>6. Told(w)'
        BY <1>1, <2>1, <3>2, <3>3, <3>4, <3>5 DEF Told
      <3>7. QED
        BY <1>1, <1>2, <1>3, <2>1, <3>1, <3>2, <3>6, WorkStep
    <2>4. QED
      BY <2>2, <2>3
  <1>5. CASE Open(w)
    <2>1. store' = store
      BY <1>5 DEF Open, rows
    <2>2. CASE Goto(w, "remove")
      <3>1. worker' = [worker EXCEPT ![w] = [@ EXCEPT !.pc = "remove",
                !.version = worker[w].version, !.result = worker[w].result]]
        BY <1>3, <2>2 DEF Goto, Workers
      <3>2. Right("remove", worker[w].version, worker[w].result, disk[f], store'[f])
        BY DEF Right, Readers, Kinds, New
      <3>3. QED
        BY <1>1, <1>2, <1>3, <1>5, <2>1, <3>1, <3>2, GoTold
    <2>3. CASE worker' = [worker EXCEPT ![w].pc = "lines", ![w].version = disk[f]]
      <3>1. worker' = [worker EXCEPT ![w] = [@ EXCEPT !.pc = "lines",
                !.version = disk[f], !.result = worker[w].result]]
        BY <1>3, <2>3 DEF Workers
      <3>2. Right("lines", disk[f], worker[w].result, disk[f], store'[f])
        BY <1>1 DEF Right, Readers, Kinds, New
      <3>3. "lines" \in Busy
        BY DEF Busy, Readers
      <3>4. QED
        BY <1>1, <1>2, <1>3, <1>5, <2>1, <3>1, <3>2, <3>3, GoTold
    <2>4. CASE worker' = [worker EXCEPT ![w].pc = "finish", ![w].result = "failed"]
      <3>1. worker' = [worker EXCEPT ![w] = [@ EXCEPT !.pc = "finish",
                !.version = worker[w].version, !.result = "failed"]]
        BY <1>3, <2>4 DEF Workers
      <3>2. Right("finish", worker[w].version, "failed", disk[f], store'[f]) /\ "finish" \in Busy
        BY DEF Right, Busy, Readers, Kinds, New
      <3>3. QED
        BY <1>1, <1>2, <1>3, <1>5, <2>1, <3>1, <3>2, GoTold
    <2>5. QED
      BY <1>5, <2>2, <2>3, <2>4 DEF Open
  <1>6. CASE AnalysisFails(w)
    <2>1. worker' = [worker EXCEPT ![w] = [@ EXCEPT !.pc = "finish",
              !.version = worker[w].version, !.result = "failed"]]
      BY <1>3, <1>6 DEF AnalysisFails, Ends, Workers
    <2>2. Right("finish", worker[w].version, "failed", disk[f], store'[f]) /\ "finish" \in Busy
      BY DEF Right, Busy, Readers, Kinds, New
    <2>3. /\ store' \in [Files -> [Kinds -> Vectors]]
          /\ \A g \in Files \ {f} : store'[g] = store[g]
      <3>1. CASE UNCHANGED store
        BY <1>3, <3>1
      <3>2. ASSUME NEW k \in Kinds, Replaced(w, k, Torn(store[f][k])) PROVE <2>3
        <4>1. store[f][k] \in Vectors
          BY <1>3
        <4>3. Torn(store[f][k]) \in Vectors
          BY <4>1 DEF Torn, Vectors
        <4>2. QED
          BY <1>3, <3>2, <4>3, StoredAt DEF Replaced
      <3>3. QED
        BY <1>6, <3>1, <3>2 DEF AnalysisFails
    <2>4. QED
      BY <1>1, <1>2, <1>6, <2>1, <2>2, <2>3, GoTold
  <1>7. QED
    BY <1>4, <1>5, <1>6

\* The vectors of a kind are replaced: what is inserted was read.
LEMMA StoreTold ==
    ASSUME IInv, Tells, NEW w \in Slots, NEW kind \in Kinds,
           DeleteOld(w, kind) \/ InsertNew(w, kind) \/ NothingNew(w, kind)
    PROVE  Tells'
  <1> DEFINE f == worker[w].file
             old == store[f][kind]
             v == worker[w].version
  <1>1. UNCHANGED <<row, raced, disk, pool, queue, permits, scan, listed, del>>
    BY DEF DeleteOld, InsertNew, NothingNew
  <1>2. kind \in {"lines", "symbols"} /\ New(kind) \in {"new lines", "new symbols"}
    BY DEF Kinds, New
  <1>3. worker[w].pc \in Readers \ {"finish"} /\ worker[w].pc \in Busy
    BY <1>2 DEF DeleteOld, InsertNew, NothingNew, Readers, Busy
  <1>4. worker[w].pc \in Works
    BY <1>3 DEF Readers, Works
  <1>5. /\ f \in Files /\ worker[w] \in Workers /\ Told(w)
        /\ store \in [Files -> [Kinds -> Vectors]] /\ old \in Vectors /\ v \in Nat
    BY <1>4 DEF IInv, Shape, Ids, Workers, Tells, Types
  <1>6. ASSUME ~raced[f]
        PROVE  /\ v = disk[f]
               /\ worker[w].pc = New(kind) => Yields(kind, v) /\ (There(old) => old.kept)
               /\ worker[w].pc \in {"symbols", "new symbols"} =>
                      Good("lines", store[f]["lines"], disk[f])
    BY <1>3, <1>5, <1>6 DEF Told, Right
  <1>7. ASSUME NEW new \in Vectors, Replaced(w, kind, new)
        PROVE  /\ store' \in [Files -> [Kinds -> Vectors]]
               /\ \A g \in Files \ {f} : store'[g] = store[g]
               /\ store'[f][kind] = new
               /\ \A k \in Kinds \ {kind} : store'[f][k] = store[f][k]
    BY <1>5, <1>7, StoredAt DEF Replaced
  <1>8. CASE DeleteOld(w, kind)
    <2>1. PICK new \in {Nothing} \cup Left(old) : Replaced(w, kind, new)
      BY <1>8 DEF DeleteOld
    <2>2. new \in Vectors /\ (There(new) => new.kept)
      BY <1>5, <2>1, OnlyLeft
    <2>3. worker' = [worker EXCEPT ![w] = [@ EXCEPT !.pc = New(kind),
              !.version = v, !.result = worker[w].result]]
      BY <1>5, <1>8 DEF DeleteOld, Goto, Workers
    <2>4. ASSUME ~raced[f] PROVE Right(New(kind), v, worker[w].result, disk[f], store'[f])
      <3>1. v = disk[f] /\ Yields(kind, v) /\ worker[w].pc = kind
        BY <1>1, <1>6, <1>8, <2>4 DEF DeleteOld
      <3>2. ASSUME NEW k \in Kinds, New(kind) = New(k) PROVE k = kind
        <4>1. k \in {"lines", "symbols"}
          BY DEF Kinds
        <4>2. k # kind => (k = "lines" <=> kind # "lines")
          BY <1>2, <4>1
        <4>3. QED
          BY <3>2, <4>2 DEF New
      <3>3. New(kind) # "finish" /\ (New(kind) \in {"symbols", "new symbols"} => kind = "symbols")
        BY <1>2 DEF New
      <3>4. kind = "symbols" => Good("lines", store'[f]["lines"], disk[f])
        <4>1. kind = "symbols" => "lines" \in Kinds \ {kind}
          BY DEF Kinds
        <4>2. QED
          BY <1>6, <1>7, <2>1, <2>2, <2>4, <3>1, <4>1
      <3>5. There(store'[f][kind]) => store'[f][kind].kept
        BY <1>7, <2>1, <2>2
      <3>6. QED
        BY <3>1, <3>2, <3>3, <3>4, <3>5 DEF Right
    <2>5. New(kind) \in Busy
      BY <1>2 DEF Busy, Readers
    <2>6. QED
      BY <1>1, <1>3, <1>7, <2>1, <2>2, <2>3, <2>4, <2>5, GoTold
  <1>9. ASSUME NEW new \in Vectors, Replaced(w, kind, new), GoesOn(w, kind),
               ~raced[f] => Good(kind, new, disk[f]),
               kind = "symbols" => worker[w].pc \in {"symbols", "new symbols"}
        PROVE  Tells'
    <2>1. ~raced[f] => Good(kind, store'[f][kind], disk[f])
      BY <1>7, <1>9
    <2>2. CASE kind = "lines"
      <3>1. worker' = [worker EXCEPT ![w] = [@ EXCEPT !.pc = "symbols",
                !.version = disk[f], !.result = worker[w].result]]
        BY <1>5, <1>9, <2>2 DEF GoesOn, Workers
      <3>2. ~raced[f] => Right("symbols", disk[f], worker[w].result, disk[f], store'[f])
        BY <1>1, <2>1, <2>2 DEF Right, Readers, Kinds, New
      <3>3. "symbols" \in Busy
        BY DEF Busy, Readers
      <3>4. QED
        BY <1>1, <1>3, <1>7, <1>9, <3>1, <3>2, <3>3, GoTold
    <2>3. CASE kind = "symbols"
      <3>1. worker' = [worker EXCEPT ![w] = [@ EXCEPT !.pc = "finish",
                !.version = v, !.result = "completed"]]
        BY <1>5, <1>9, <2>3 DEF GoesOn, Ends, Workers
      <3>2. ASSUME ~raced[f] PROVE Good("lines", store'[f]["lines"], disk[f])
        <4>1. Good("lines", store[f]["lines"], disk[f]) /\ "lines" \in Kinds \ {kind}
          BY <1>6, <1>9, <2>3, <3>2 DEF Kinds
        <4>2. QED
          BY <1>7, <1>9, <4>1
      <3>3. ~raced[f] => Right("finish", v, "completed", disk[f], store'[f])
        BY <2>1, <2>3, <3>2 DEF Right, Readers, Kinds, New
      <3>4. "finish" \in Busy
        BY DEF Busy, Readers
      <3>5. QED
        BY <1>1, <1>3, <1>7, <1>9, <3>1, <3>3, <3>4, GoTold
    <2>4. QED
      BY <1>2, <2>2, <2>3
  <1>10. CASE InsertNew(w, kind)
    <2>1. Added(old, v) \in Vectors /\ ((There(old) => old.kept) => Good(kind, Added(old, v), v))
      BY <1>5, WhenAdded
    <2>2. ~raced[f] => Good(kind, Added(old, v), disk[f])
      BY <1>6, <1>10, <2>1 DEF InsertNew
    <2>3. kind = "symbols" => worker[w].pc \in {"symbols", "new symbols"}
      BY <1>10 DEF InsertNew, New
    <2>4. QED
      BY <1>9, <1>10, <2>1, <2>2, <2>3 DEF InsertNew
  <1>11. CASE NothingNew(w, kind)
    <2>1. Kept(old) \in Vectors /\ (~Yields(kind, v) => Good(kind, Kept(old), v))
      BY <1>5, WhenKept
    <2>2. ~raced[f] => Good(kind, Kept(old), disk[f])
      BY <1>6, <1>11, <2>1 DEF NothingNew
    <2>3. kind = "symbols" => worker[w].pc \in {"symbols", "new symbols"}
      BY <1>11 DEF NothingNew
    <2>4. QED
      BY <1>9, <1>11, <2>1, <2>2, <2>3 DEF NothingNew
  <1>12. QED
    BY <1>8, <1>10, <1>11

-----------------------------------------------------------------------------
\* Rows change, and workers, pools and data do not.
LEMMA RowsMove ==
    ASSUME IInv, Tells, UNCHANGED <<worker, pool, queue, permits, listed, disk, store, raced>>,
           scan' \in [Files -> Rows \cup {NoRow, NoFile}],
           del' \in [Repos -> {"no", "cancelled", "rows", "vectors"}],
           \A f \in Files : RowStays(f) /\ Due(f)' /\ FreshRow(f)' /\ Calm(f)'
    PROVE  Tells'
  <1>1. \A v \in Slots : Rests(v)
    BY SameRests
  <1>2. \A v \in Slots : worker[v].pc \in Readers => DataStands(worker[v].file)
    BY DataStays
  <1>3. Types' /\ Seats'
    BY <1>1, SeatsStay DEF Tells, Types, Rests
  <1>4. QED
    BY <1>1, <1>2, <1>3, KeepStep DEF Rests

\* A row that is gone, or as it was, with a copy of a scan that is gone or as
\* it was.
LEMMA RowGoes ==
    ASSUME Tells, UNCHANGED <<disk, store, raced>>, NEW f \in Files,
           \A v \in Slots : KeepsFile(v),
           row'[f] = NoRow \/ row'[f] = row[f], scan'[f] \in {scan[f], NoFile, NoRow}
    PROVE  RowStays(f) /\ Due(f)' /\ FreshRow(f)' /\ Calm(f)'
  <1>0. Calm(f)'
    BY CalmStays DEF HasRow
  <1>1. CASE row'[f] = NoRow
    BY <1>0, <1>1 DEF Tells, Due, RowStays, FreshRow, HasRow
  <1>2. CASE row'[f] = row[f]
    <2>1. RowStays(f)
      BY <1>2 DEF RowStays, HasRow
    <2>2. QED
      BY <1>0, <1>2, <2>1, DataStays, DueStays, FreshStays
  <1>3. QED
    BY <1>1, <1>2

LEMMA RemoveTold == ASSUME IInv, Tells, NEW w \in Slots, RemoveRow(w) PROVE Tells'
  <1> DEFINE f == worker[w].file
             x == [worker[w] EXCEPT !.pc = "wipe"]
  <1>1. /\ row' = [row EXCEPT ![f] = NoRow] /\ worker' = [worker EXCEPT ![w] = x]
        /\ UNCHANGED <<disk, store, raced, pool, queue, permits, listed, scan, del>>
    BY DEF RemoveRow, Goto
  <1>2. /\ x.pc = "wipe" /\ x.file = f /\ x.member = worker[w].member /\ x.repo = worker[w].repo
        /\ worker[w].pc \in Works
    BY DEF RemoveRow, IInv, Shape, Workers, Works
  <1> HIDE DEF x
  <1>3. \A v \in Slots : Rests(v)
    BY ONLY IInv, <1>1, <1>2, OneRests DEF Busy, Readers
  <1>4. \A g \in Files : row'[g] = NoRow \/ row'[g] = row[g]
    BY <1>1 DEF IInv, Shape
  <1>5. \A g \in Files : RowStays(g) /\ Due(g)' /\ FreshRow(g)' /\ Calm(g)'
    BY <1>1, <1>3, <1>4, RowGoes DEF Rests, KeepsWork
  <1>6. \A v \in Slots : worker[v].pc \in Readers => DataStands(worker[v].file)
    BY <1>1, DataStays
  <1>7. Types' /\ Seats'
    BY <1>1, <1>3, SeatsStay DEF Tells, Types, Rests
  <1>8. QED
    BY <1>3, <1>5, <1>6, <1>7, KeepStep DEF Rests

\* Vectors go: whoever reads the file meanwhile, and its row, is told.
LEMMA WipeTold ==
    ASSUME IInv, Tells, NEW files, NEW self, WipeData(files, self),
           \A v \in Slots : Rests(v), \A v \in self : worker[v].pc \notin Readers,
           UNCHANGED <<row, disk, pool, queue, permits, listed, scan>>,
           del' \in [Repos -> {"no", "cancelled", "rows", "vectors"}]
    PROVE  Tells'
  <1>1. raced' = [f \in Files |-> raced[f] \/ (f \in files /\ (HasRow(f)
                    \/ \E v \in Slots \ self : Reading(v, f)))]
    BY DEF WipeData
  <1>0. PICK failed \in SUBSET Kinds :
            store' = [f \in Files |-> IF f \notin files THEN store[f]
                ELSE [k \in Kinds |-> IF k \in failed THEN Kept(store[f][k]) ELSE Nothing]]
    BY DEF WipeData
  <1>2. raced \in [Files -> BOOLEAN] /\ store \in [Files -> [Kinds -> Vectors]]
    BY DEF Tells, Types
  <1>3. raced' \in [Files -> BOOLEAN] /\ store' \in [Files -> [Kinds -> Vectors]]
    <2>1. \A f \in Files : (raced[f] \/ (f \in files /\ (HasRow(f)
                        \/ \E v \in Slots \ self : Reading(v, f)))) \in BOOLEAN
      OBVIOUS
    <2>2. raced' \in [Files -> BOOLEAN]
      BY <1>1, <2>1, Zenon
    <2>3. ASSUME NEW f \in Files, NEW k \in Kinds PROVE Kept(store[f][k]) \in Vectors
      <3>1. store[f][k] \in Vectors /\ 0 \in Nat
        BY <1>2
      <3>2. QED
        BY <3>1, WhenKept
    <2>4. Nothing \in Vectors
      BY DEF Nothing, Vectors
    <2>5. QED
      BY <1>0, <1>2, <2>2, <2>3, <2>4
  <1>4. ASSUME NEW f \in Files
        PROVE  /\ f \notin files => DataStands(f)
               /\ f \in files /\ HasRow(f) => raced'[f]
               /\ f \in files /\ (\E v \in Slots \ self : Reading(v, f)) => raced'[f]
    <2>1. raced'[f] = (raced[f] \/ (f \in files /\ (HasRow(f)
                        \/ \E v \in Slots \ self : Reading(v, f))))
      BY <1>1, Zenon
    <2>2. f \notin files => store'[f] = store[f]
      BY <1>0
    <2>3. f \notin files => (raced'[f] \/ ~raced[f])
      BY <2>1, Zenon
    <2>4. f \in files /\ HasRow(f) => raced'[f]
      BY <2>1, Zenon
    <2>5. f \in files /\ (\E v \in Slots \ self : Reading(v, f)) => raced'[f]
      BY <2>1, Zenon
    <2>6. QED
      BY <2>2, <2>3, <2>4, <2>5 DEF DataStands
  <1>5. ASSUME NEW v \in Slots, worker[v].pc \in Readers PROVE DataStands(worker[v].file)
    <2>1. worker[v].file \in Files /\ v \notin self
      BY <1>5 DEF IInv, Ids, Works, Readers
    <2>2. Reading(v, worker[v].file)
      BY <1>5 DEF Reading, Holds, Readers
    <2>3. QED
      BY <1>4, <2>1, <2>2 DEF DataStands
  <1>6. ASSUME NEW f \in Files PROVE RowStays(f) /\ Due(f)' /\ FreshRow(f)' /\ Calm(f)'
    <2>0. raced[f] => raced'[f]
      BY <1>1, Zenon
    <2>1. RowStays(f) /\ Due(f)' /\ Calm(f)'
      BY <2>0, RowsStay, DueStays, CalmStays DEF Rests, KeepsWork, HasRow
    <2>2. CASE f \notin files
      BY <1>4, <2>1, <2>2, FreshStays
    <2>3. CASE f \in files
      <3>1. HasRow(f)' => raced'[f]
        BY <1>4, <2>3 DEF HasRow
      <3>2. QED
        BY <2>1, <3>1 DEF FreshRow
    <2>4. QED
      BY <2>2, <2>3
  <1>7. Types' /\ Seats'
    BY <1>3, SeatsStay DEF Tells, Types, Rests
  <1>8. QED
    BY <1>5, <1>6, <1>7, KeepStep DEF Rests

LEMMA VectorsTold ==
    ASSUME IInv, Tells,
           (\E w \in Slots : Wipe(w)) \/ (\E r \in Repos : DeleteVectors(r))
    PROVE  Tells'
  <1>1. ASSUME NEW w \in Slots, Wipe(w) PROVE Tells'
    <2>1. /\ WipeData({worker[w].file}, {w}) /\ NextRound(w) /\ worker[w].pc = "wipe"
          /\ UNCHANGED <<row, disk, pool, queue, permits, listed, scan, del>>
      BY <1>1 DEF Wipe
    <2>2. \A v \in Slots : Rests(v)
      BY <2>1, NextRoundRests
    <2>3. \A v \in {w} : worker[v].pc \notin Readers
      BY <2>1 DEF Readers
    <2>4. QED
      BY <2>1, <2>2, <2>3, WipeTold DEF Tells, Types
  <1>2. ASSUME NEW r \in Repos, DeleteVectors(r) PROVE Tells'
    <2>1. /\ WipeData(FilesOf(r), {}) /\ worker' = worker
          /\ UNCHANGED <<row, disk, pool, queue, permits, listed, scan>>
          /\ del' = [del EXCEPT ![r] = "no"]
      BY <1>2 DEF DeleteVectors, pools
    <2>2. \A v \in Slots : Rests(v)
      BY <2>1, SameRests
    <2>3. del' \in [Repos -> {"no", "cancelled", "rows", "vectors"}]
      BY <2>1 DEF Tells, Types
    <2>4. \A v \in {} : worker[v].pc \notin Readers
      OBVIOUS
    <2>5. QED
      BY <2>1, <2>2, <2>3, <2>4, WipeTold
  <1>3. QED
    BY <1>1, <1>2

\* The finish: a row is completed only by who has stored what is on the disk.
LEMMA FinishTold == ASSUME IInv, Tells, NEW w \in Slots, Finish(w) PROVE Tells'
  <1>0. PICK f \in Files : f = worker[w].file
    BY DEF Finish, IInv, Ids, Works
  <1> DEFINE result == worker[w].result
  <1>1. /\ UNCHANGED <<disk, store, raced, queue, listed, scan, del>>
        /\ worker[w].pc = "finish" /\ worker[w].pc \in Works
        /\ worker[w] \in Workers
    BY DEF Finish, IInv, Shape, Works
  <1>2. CASE ~OwnRow(w)
    BY <1>1, <1>2, PoolFailsTold DEF Finish
  <1>3. CASE OwnRow(w)
    <2>1. /\ row' = [row EXCEPT
                ![f].status = IF result # worker[w].seen THEN result ELSE @,
                ![f].due = @ /\ result # "completed"]
          /\ NextRound(w) /\ UNCHANGED <<pool, permits>>
      BY <1>0, <1>3 DEF Finish
    <2>2. row[f] \in Rows /\ HasRow(f) /\ result \in {"completed", "failed"}
      BY <1>0, <1>1, <1>3 DEF OwnRow, HasRow, IInv, Shape, Workers
    <2> DEFINE status == IF result # worker[w].seen THEN result ELSE row[f].status
               due == row[f].due /\ result # "completed"
    <2>3. row' = [row EXCEPT ![f] = [row[f] EXCEPT !.status = status, !.due = due]]
      BY <1>1, <2>1, <2>2 DEF Rows, IInv, Shape
    <2>4. due \in BOOLEAN
      OBVIOUS
    <2>5. /\ result = "completed" => ~due
          /\ result = "failed" => due = row[f].due
      BY <2>2, <2>4 DEF Rows
    <2>6. /\ result = "completed" /\ worker[w].seen = "running" => status = "completed"
          /\ result = "failed" => status \in {"failed", row[f].status}
      OBVIOUS
    <2> HIDE DEF status, due
    <2>7. /\ row'[f].status = status /\ row'[f].due = due
          /\ row'[f].id = row[f].id /\ row'[f].requeued = row[f].requeued
          /\ \A g \in Files \ {f} : row'[g] = row[g]
      BY <1>1, <2>2, <2>3 DEF Rows, IInv, Shape
    <2>8. Told(w) /\ Due(f) /\ FreshRow(f)
      BY <1>1, IsFresh DEF Tells
    <2>9. ~row[f].requeued => worker[w].seen = "running" /\ row[f].status = "running"
      <3>1. "finish" \in Busy
        BY DEF Busy, Readers
      <3>2. QED
        BY <1>0, <1>1, <1>3, <2>8, <3>1 DEF Told, IInv, ClaimedRuns
    <2>10. Due(f)'
      <3>1. CASE result = "completed"
        <4>1. row[f].requeued \/ status = "completed"
          BY <2>6, <2>9, <3>1
        <4>2. QED
          BY <1>1, <2>7, <2>8, <4>1 DEF Due
      <3>2. CASE result = "failed"
        <4>1. row[f].status # "completed" \/ status = "completed" \/ row[f].requeued
          BY <2>9
        <4>2. row[f].requeued \/ row[f].due \/ status = "completed"
          BY <2>2, <2>8, <4>1 DEF Due
        <4>3. due = row[f].due
          BY <2>5, <3>2
        <4>4. QED
          BY <1>1, <2>7, <2>8, <4>2, <4>3 DEF Due
      <3>3. QED
        BY <2>2, <3>1, <3>2
    <2>11. FreshRow(f)'
      <3>1. CASE result = "completed"
        <4>1. ~raced[f] => \A kind \in Kinds : Good(kind, store[f][kind], disk[f])
          BY <1>0, <1>1, <2>8, <3>1 DEF Told, Right
        <4>2. QED
          BY <1>1, <4>1 DEF FreshRow
      <3>2. CASE result = "failed"
        <4>1. due = row[f].due /\ (status = "completed" => row[f].status = "completed")
          BY <2>5, <2>6, <3>2
        <4>2. QED
          BY <1>1, <2>2, <2>7, <2>8, <4>1 DEF FreshRow
      <3>3. QED
        BY <2>2, <3>1, <3>2
    <2>12. RowStays(f)
      BY <2>2, <2>7 DEF RowStays
    <2>14. \A v \in Slots : Rests(v) /\ KeepsFile(v)
      BY <2>1, NextRoundRests DEF Rests, KeepsWork
    <2>18. Calm(f)'
      <3>1. worker'[w].pc \notin Works
        BY <2>1 DEF NextRound, Off, Works, IInv, Shape
      <3>2. Calm(f) /\ At(w, f) /\ raced' = raced
        BY <1>0, <1>1 DEF Tells, At
      <3>3. ASSUME NEW v \in Slots, At(v, f)' PROVE At(v, f) /\ v # w
        BY <2>14, <3>1, <3>3 DEF At, KeepsFile
      <3>4. QED
        BY <3>2, <3>3 DEF Calm
    <2>13. ASSUME NEW g \in Files PROVE RowStays(g) /\ Due(g)' /\ FreshRow(g)' /\ Calm(g)'
      <3>1. CASE g = f
        BY <2>10, <2>11, <2>12, <2>18, <3>1
      <3>2. CASE g # f
        BY <1>1, <2>7, <2>14, <3>2, RowGoes
      <3>3. QED
        BY <3>1, <3>2
    <2>15. \A v \in Slots : worker[v].pc \in Readers => DataStands(worker[v].file)
      BY <1>1, DataStays
    <2>16. Types' /\ Seats'
      BY <1>1, <2>1, <2>14, SeatsStay DEF Tells, Types, Rests
    <2>17. QED
      BY <2>13, <2>14, <2>15, <2>16, KeepStep DEF Rests
  <1>4. QED
    BY <1>2, <1>3

-----------------------------------------------------------------------------
LEMMA EditTold == ASSUME IInv, Tells, NEW f \in Files, Edit(f) PROVE Tells'
  <1>1. /\ UNCHANGED <<worker, pool, queue, permits, listed, store, scan, del>>
        /\ row' = IF HasRow(f) THEN [row EXCEPT ![f].due = TRUE] ELSE row
        /\ raced' = [raced EXCEPT ![f] = raced[f] \/ \E w \in Slots : Reading(w, f)]
    BY DEF Edit, pools
  <1>2. \A g \in Files \ {f} : disk'[g] = disk[g]
    BY DEF Edit, IInv, Shape
  <1>3. raced \in [Files -> BOOLEAN]
    BY DEF Tells, Types
  <1>4. /\ raced' \in [Files -> BOOLEAN]
        /\ (\E w \in Slots : Reading(w, f)) => raced'[f]
        /\ raced[f] => raced'[f]
        /\ \A g \in Files \ {f} : raced'[g] = raced[g]
    <2> DEFINE value == raced[f] \/ \E w \in Slots : Reading(w, f)
    <2>1. value \in BOOLEAN /\ ((\E w \in Slots : Reading(w, f)) => value) /\ (raced[f] => value)
      OBVIOUS
    <2>2. raced' = [raced EXCEPT ![f] = value]
      BY <1>1
    <2> HIDE DEF value
    <2>3. QED
      BY <1>3, <2>1, <2>2, Zenon
  <1>5. \A g \in Files \ {f} : DataStands(g)
    BY <1>1, <1>2, <1>4 DEF DataStands
  <1>6. ASSUME NEW v \in Slots, worker[v].pc \in Readers PROVE DataStands(worker[v].file)
    <2>1. worker[v].file \in Files
      BY <1>6 DEF IInv, Ids, Works, Readers
    <2>2. CASE worker[v].file = f
      <3>1. Reading(v, f)
        BY <1>6, <2>2 DEF Reading, Holds, Readers
      <3>2. QED
        BY <1>4, <2>2, <3>1 DEF DataStands
    <2>3. QED
      BY <1>5, <2>1, <2>2
  <1>7. /\ \A g \in Files \ {f} : row'[g] = row[g]
        /\ HasRow(f)' => /\ HasRow(f) /\ row'[f].due /\ row'[f].id = row[f].id
                         /\ row'[f].requeued = row[f].requeued
                         /\ row'[f].status = row[f].status
    <2>1. CASE ~HasRow(f)
      BY <1>1, <2>1 DEF HasRow
    <2>2. CASE HasRow(f)
      <3>1. row[f] \in Rows
        BY <2>2 DEF HasRow, IInv, Shape
      <3>2. row' = [row EXCEPT ![f] = [row[f] EXCEPT !.due = TRUE]]
        BY <1>1, <2>2
      <3>3. QED
        BY <2>2, <3>1, <3>2 DEF Rows, IInv, Shape
    <2>3. QED
      BY <2>1, <2>2
  <1>9. \A v \in Slots : Rests(v) /\ KeepsFile(v)
    BY <1>1, SameRests DEF Rests, KeepsWork
  <1>8. ASSUME NEW g \in Files PROVE RowStays(g) /\ Due(g)' /\ FreshRow(g)' /\ Calm(g)'
    <2>1. CASE g = f
      <3>1. RowStays(f) /\ FreshRow(f)'
        BY <1>7 DEF RowStays, FreshRow
      <3>2. Due(f)'
        BY <1>1, <1>7 DEF Tells, Due
      <3>3. Calm(f)'
        BY <1>4, <1>7, <1>9, CalmStays
      <3>4. QED
        BY <2>1, <3>1, <3>2, <3>3
    <2>2. CASE g # f
      <3>1. row'[g] = row[g] /\ DataStands(g)
        BY <1>5, <1>7, <2>2
      <3>2. RowStays(g) /\ Calm(g)'
        BY <1>4, <1>9, <2>2, <3>1, CalmStays DEF RowStays, HasRow
      <3>3. QED
        BY <1>1, <3>1, <3>2, DueStays, FreshStays
    <2>3. QED
      BY <2>1, <2>2
  <1>10. Types' /\ Seats'
    BY <1>1, <1>4, <1>9, SeatsStay DEF Tells, Types, Rests
  <1>11. QED
    BY <1>6, <1>8, <1>9, <1>10, KeepStep DEF Rests

LEMMA ScanTold == ASSUME IInv, Tells, NEW f \in Files, ScanFile(f) PROVE Tells'
  <1>1. UNCHANGED <<worker, pool, queue, permits, listed, disk, store, raced, del>>
    BY DEF ScanFile, pools
  <1>0. \A v \in Slots : KeepsFile(v)
    BY <1>1, SameRests DEF Rests, KeepsWork
  <1>2. scan \in [Files -> Rows \cup {NoRow, NoFile}] /\ row \in [Files -> Rows \cup {NoRow}]
        /\ del \in [Repos -> {"no", "cancelled", "rows", "vectors"}]
    BY DEF Tells, Types, IInv, Shape
  <1>3. CASE row' = [row EXCEPT ![f] = NoRow] /\ UNCHANGED scan
    <2>1. \A g \in Files : row'[g] = NoRow \/ row'[g] = row[g]
      BY <1>2, <1>3
    <2>2. QED
      BY <1>0, <1>1, <1>2, <1>3, <2>1, RowGoes, RowsMove
  <1>4. CASE /\ HasRow(f) => row[f].due /\ row[f].status # "pending"
             /\ scan' = [scan EXCEPT ![f] = row[f]] /\ UNCHANGED row
    <2>1. scan' \in [Files -> Rows \cup {NoRow, NoFile}]
      BY <1>2, <1>4
    <2>2. ASSUME NEW g \in Files PROVE RowStays(g) /\ Due(g)' /\ FreshRow(g)' /\ Calm(g)'
      <3>1. RowStays(g) /\ FreshRow(g)' /\ Calm(g)'
        BY <1>0, <1>1, <1>4, RowsStay, DataStays, FreshStays, CalmStays DEF HasRow
      <3>2. CASE g = f
        <4>1. Due(f) /\ scan'[f] = row[f]
          BY <1>2, <1>4 DEF Tells
        <4>2. QED
          BY <1>4, <3>1, <3>2, <4>1 DEF Due, HasRow
      <3>3. CASE g # f
        BY <1>2, <1>4, <3>1, <3>3, DueStays
      <3>4. QED
        BY <3>2, <3>3
    <2>3. QED
      BY <1>1, <1>2, <2>1, <2>2, RowsMove
  <1>5. QED
    BY <1>3, <1>4 DEF ScanFile

LEMMA FlushTold == ASSUME IInv, Tells, NEW f \in Files, FlushScan(f) PROVE Tells'
  <1>1. /\ UNCHANGED <<worker, pool, queue, permits, listed, disk, store, raced, del>>
        /\ scan' = [scan EXCEPT ![f] = NoFile] /\ scan[f] # NoFile
    BY DEF FlushScan, pools
  <1>0. \A v \in Slots : KeepsFile(v)
    BY <1>1, SameRests DEF Rests, KeepsWork
  <1>2. scan \in [Files -> Rows \cup {NoRow, NoFile}] /\ row \in [Files -> Rows \cup {NoRow}]
        /\ del \in [Repos -> {"no", "cancelled", "rows", "vectors"}]
    BY DEF Tells, Types, IInv, Shape
  <1>3. /\ scan' \in [Files -> Rows \cup {NoRow, NoFile}]
        /\ scan'[f] = NoFile
        /\ \A g \in Files : scan'[g] \in {scan[g], NoFile, NoRow}
    BY <1>1, <1>2
  <1>4. ASSUME RowStays(f), Due(f)', FreshRow(f)', row'[f].status = "pending",
               \A g \in Files \ {f} : row'[g] = row[g]
        PROVE  Tells'
    <2>1. ASSUME NEW g \in Files PROVE RowStays(g) /\ Due(g)' /\ FreshRow(g)' /\ Calm(g)'
      <3>1. CASE g = f
        BY <1>0, <1>1, <1>4, <3>1, CalmStays
      <3>2. CASE g # f
        BY <1>0, <1>1, <1>3, <1>4, <3>2, RowGoes
      <3>3. QED
        BY <3>1, <3>2
    <2>2. QED
      BY <1>1, <1>2, <1>3, <2>1, RowsMove
  <1>5. CASE UNCHANGED row
    BY <1>0, <1>1, <1>2, <1>3, <1>5, RowGoes, RowsMove
  <1>6. CASE row' = [row EXCEPT ![f] = Row(used.inserts + 1, "pending")]
    <2>1. row'[f] = Row(used.inserts + 1, "pending") /\ \A g \in Files \ {f} : row'[g] = row[g]
      BY <1>2, <1>6
    <2>2. row'[f].id = used.inserts + 1 /\ row'[f].due /\ row'[f].status = "pending"
      BY <2>1 DEF Row
    <2>3. used.inserts + 1 > used.inserts
      BY DEF IInv, Shape
    <2>4. RowStays(f) /\ Due(f)' /\ FreshRow(f)'
      BY <1>3, <2>2, <2>3 DEF RowStays, Due, FreshRow
    <2>5. QED
      BY <1>4, <2>1, <2>2, <2>4
  <1>7. CASE /\ scan[f] # NoRow /\ SameRow(f, scan[f])
             /\ row' = [row EXCEPT ![f].status = "pending",
                          ![f].requeued = @ \/ row[f].status = "running" \/ row[f] # scan[f]]
    <2> DEFINE back == row[f].requeued \/ row[f].status = "running" \/ row[f] # scan[f]
    <2>1. row[f] \in Rows /\ HasRow(f)
      BY <1>2, <1>7 DEF SameRow, HasRow
    <2>2. row' = [row EXCEPT ![f] = [row[f] EXCEPT !.status = "pending", !.requeued = back]]
      BY <1>2, <1>7, <2>1 DEF Rows
    <2>3. /\ row[f].requeued => back
          /\ row[f] # scan[f] => back
      OBVIOUS
    <2> HIDE DEF back
    <2>4. /\ row'[f].id = row[f].id /\ row'[f].due = row[f].due /\ row'[f].requeued = back
          /\ row'[f].status = "pending"
          /\ \A g \in Files \ {f} : row'[g] = row[g]
      BY <1>2, <2>1, <2>2 DEF Rows
    <2>5. scan[f].due
      BY <1>1, <1>7 DEF Tells, Due
    <2>6. RowStays(f)
      BY <2>1, <2>3, <2>4 DEF RowStays
    <2>7. Due(f)'
      BY <1>3, <2>3, <2>4, <2>5 DEF Due
    <2>8. FreshRow(f)'
      BY <2>4 DEF FreshRow
    <2>9. QED
      BY <1>4, <2>4, <2>6, <2>7, <2>8
  <1>8. QED
    BY <1>5, <1>6, <1>7 DEF FlushScan

LEMMA DeletionTold ==
    ASSUME IInv, Tells, NEW r \in Repos, DeletionRaises(r) \/ DeleteRows(r)
    PROVE  Tells'
  <1>1. UNCHANGED <<worker, pool, queue, permits, listed, disk, store, raced>>
    BY DEF DeletionRaises, DeleteRows, pools, rows
  <1>0. \A v \in Slots : KeepsFile(v)
    BY <1>1, SameRests DEF Rests, KeepsWork
  <1>2. scan \in [Files -> Rows \cup {NoRow, NoFile}] /\ row \in [Files -> Rows \cup {NoRow}]
        /\ del \in [Repos -> {"no", "cancelled", "rows", "vectors"}]
    BY DEF Tells, Types, IInv, Shape
  <1>3. del' \in [Repos -> {"no", "cancelled", "rows", "vectors"}]
    BY <1>2 DEF DeletionRaises, DeleteRows
  <1>4. /\ row' = row \/ row' = [f \in Files |-> IF RepoOf[f] = r THEN NoRow ELSE row[f]]
        /\ scan' = scan \/ scan' = [f \in Files |-> IF RepoOf[f] = r THEN NoFile ELSE scan[f]]
    BY DEF DeletionRaises, DeleteRows, rows
  <1>5. /\ scan' \in [Files -> Rows \cup {NoRow, NoFile}]
        /\ \A f \in Files : scan'[f] \in {scan[f], NoFile, NoRow}
        /\ \A f \in Files : row'[f] = NoRow \/ row'[f] = row[f]
    BY <1>2, <1>4
  <1>6. QED
    BY <1>0, <1>1, <1>3, <1>5, RowGoes, RowsMove

-----------------------------------------------------------------------------
LEMMA InitTold == Init => Tells
  <1> SUFFICES ASSUME Init PROVE Tells
    OBVIOUS
  <1>1. Off.pc = "off" /\ Off.member = FALSE
    BY DEF Off
  <1>2. Row(1, "pending").status = "pending" /\ Row(1, "pending").due
    BY DEF Row
  <1>3. Types
    <2>1. raced \in [Files -> BOOLEAN]
      BY Zenon DEF Init
    <2>2. QED
      BY <2>1 DEF Init, Types, Vectors, Nothing
  <1>4. Running = {}
    BY DEF Init, Running
  <1>5. permits \in Nat /\ permits + Cardinality(Running) = MaxPools
    BY <1>4, FS_EmptySet, PoolAssumption DEF PoolAssumption, Init
  <1>6. Seats
    BY <1>1, <1>5 DEF Init, Seats
  <1>7. \A w \in Slots : Told(w)
    BY <1>1 DEF Init, Told, Right, Busy, Readers, Kinds, New
  <1>8. \A f \in Files : Due(f) /\ Calm(f)
    BY <1>1, <1>2 DEF Init, Due, Calm, At, Works
  <1>9. FreshData
    BY <1>2 DEF Init, FreshData
  <1>10. QED
    BY <1>3, <1>6, <1>7, <1>8, <1>9 DEF Tells

LEMMA TellsStep == ASSUME IInv, Tells, [Next]_vars PROVE Tells'
  <1>1. CASE UNCHANGED vars
    BY <1>1, SameRests, WorkersRest DEF vars, Tells, Types
  <1>2. ASSUME NEW r \in Repos,
               EnterPool(r) \/ LeavePool(r) \/ StopAnalysis(r) \/ DeletionRaises(r)
                   \/ DeleteRows(r) \/ DeleteVectors(r)
        PROVE  Tells'
    BY <1>2, EnterTold, LeaveTold, StopTold, DeletionTold, VectorsTold
  <1>3. ASSUME NEW w \in Slots, WorkerStep(w) \/ AnalysisFails(w) \/ WorkerRaises(w)
        PROVE  Tells'
    BY <1>3, SelectTold, MarkTold, WorkTold, StoreTold, RemoveTold, VectorsTold, FinishTold, RaiseTold
    DEF WorkerStep
  <1>4. ASSUME NEW f \in Files, Edit(f) \/ ScanFile(f) \/ FlushScan(f) PROVE Tells'
    BY <1>4, EditTold, ScanTold, FlushTold
  <1>5. CASE ListRepos \/ StartAnalysis \/ Crash
    BY <1>5, ListTold, StartTold, CrashTold
  <1>6. QED
    BY <1>1, <1>2, <1>3, <1>4, <1>5 DEF Next

\* The table can be relied on: a completed row that is not due has the vectors of
\* the file as it is, of both kinds, and others only where a replacement found
\* nothing to insert or its deletion failed; a running row that nobody works at is
\* due, and the permits of the semaphore never run out or double (_finish_one,
\* update_file_state, _repo_pool_semaphore, vectorize_and_store_line_chunks).
THEOREM RowsCanBeTrusted == Spec => []RowsTell
  <1>1. IInv /\ Tells => RowsTell
    <2> SUFFICES ASSUME IInv, Tells PROVE RowsTell
      OBVIOUS
    <2>1. permits \in 0..MaxPools
      BY RunningFinite, FS_CardinalityType, PoolAssumption DEF PoolAssumption, Tells, Seats
    <2>2. TypeOK
      BY <2>1 DEF TypeOK, IInv, Shape, Tells, Types, Vectors, Seats
    <2>3. StuckIsDue
      BY DEF StuckIsDue, Tells, Due
    <2>4. QED
      BY <2>2, <2>3 DEF RowsTell, Tells
  <1>2. Init => Tells
    BY InitTold
  <1>3. IInv /\ Tells /\ [Next]_vars => Tells'
    BY TellsStep
  <1>4. QED
    BY <1>1, <1>2, <1>3, Invariance, PTL DEF Spec

-----------------------------------------------------------------------------
(***************************************************************************)
(* The scan of a repository: the status row as a lock, and the rows that   *)
(* the scan commits in batches while it walks the directories.             *)
(***************************************************************************)

TaskSteps == {"none", "new", "dir", "files", "flush", "excluded", "finish completed",
              "finish failed", "finally", "over"}
ScanTasks == [pc : TaskSteps, listed : SUBSET (0 .. Dirs), dir : 0 .. Dirs, todo : SUBSET Paths, seen : SUBSET Paths,
              batch : 0 .. Batch - 1, add : SUBSET Paths, del : SUBSET Paths, kept : SUBSET Paths, cancelled : BOOLEAN]
ScanFolders == present \subseteq 0 .. Dirs /\ 1 \in present /\ \A p \in onDisk : DirOf[p] \in present
ScanCalls == [kind : {"none", "start", "stop", "delete"},
              pc : {"none", "read", "lock", "create", "fail", "cancel", "wait", "delete"},
              seen : {"none", "idle", "running", "completed", "failed"}]
ScanShape ==
    /\ ScanTypeOK
    /\ onDisk \subseteq Code
    /\ scanTask \in [TaskIds -> ScanTasks]
    /\ call \in [ScanCallers -> ScanCalls]
    /\ scanUsed \in [tasks : Nat, edits : Nat, calls : Nat]
    /\ undisturbed \in [TaskIds -> BOOLEAN]

\* A task that does not run holds nothing, neither a cancellation nor rows.
ScanBlank ==
    \A k \in TaskIds : ~Alive(k) =>
        LET t == scanTask[k] IN
        t.dir = 0 /\ t.batch = 0 /\ t.add = {} /\ t.del = {} /\ ~t.cancelled

ScanLockInv == ScanShape /\ ScanOne /\ ScanBehindRow /\ ScanBlank

LEMMA ScanFacts ==
    /\ Dirs \in Nat \ {0} /\ Batch \in Nat \ {0} /\ NoScan \notin TaskIds /\ MaxScanTasks \in Nat
    /\ DirOf \in [Paths -> 0 .. Dirs] /\ Code \subseteq Paths
    /\ \A p \in Code : DirOf[p] \in 1 .. Dirs
  BY ScanAssumption DEF ScanAssumption, TaskIds, Code

ScanOver == [NoTaskYet EXCEPT !.pc = "over"]

LEMMA NoTaskTyped ==
    /\ NoTaskYet \in ScanTasks /\ NoTaskYet.pc = "none" /\ NoTaskYet.dir = 0 /\ NoTaskYet.batch = 0
    /\ NoTaskYet.add = {} /\ NoTaskYet.del = {} /\ ~NoTaskYet.cancelled
  <1>1. 0 \in 0 .. Dirs /\ 0 \in 0 .. Batch - 1
    BY ScanFacts
  <1> QED BY <1>1 DEF NoTaskYet, ScanTasks, TaskSteps

LEMMA ScanOverTyped ==
    /\ ScanOver \in ScanTasks /\ ScanOver.pc = "over" /\ ScanOver.dir = 0 /\ ScanOver.batch = 0
    /\ ScanOver.add = {} /\ ScanOver.del = {} /\ ~ScanOver.cancelled
  <1>1. "over" \in TaskSteps
    BY DEF TaskSteps
  <1> HIDE DEF NoTaskYet, TaskSteps
  <1>2. ScanOver \in ScanTasks /\ ScanOver.pc = "over"
    BY <1>1, NoTaskTyped DEF ScanOver, ScanTasks
  <1> QED BY <1>2 DEF ScanOver, NoTaskYet

LEMMA ScanLockInit == ScanInit => ScanLockInv
  <1> SUFFICES ASSUME ScanInit PROVE ScanLockInv
    OBVIOUS
  <1>1. \A k \in TaskIds : scanTask[k] = NoTaskYet
    BY DEF ScanInit
  <1>2. scanTask \in [TaskIds -> ScanTasks]
    BY NoTaskTyped DEF ScanInit
  <1>3. call \in [ScanCallers -> ScanCalls]
    BY DEF ScanInit, NoCall, ScanCalls
  <1>4. ScanTypeOK
    <2>1. \A k \in TaskIds : LET t == scanTask[k] IN
            t \in ScanTasks /\ t.add \cap t.del = {}
      BY <1>1, NoTaskTyped
    <2>2. onDisk \subseteq Paths /\ fileRows \subseteq Paths
      BY ScanFacts DEF ScanInit
    <2>3. ScanFolders
      <3>1. onDisk \subseteq Code /\ 1 \in 0 .. Dirs
        BY ScanFacts DEF ScanInit
      <3>2. \A p \in onDisk : DirOf[p] \in 0 .. Dirs
        BY <2>2, ScanFacts
      <3> QED BY <3>1, <3>2 DEF ScanInit, ScanFolders
    <2> QED BY <2>1, <2>2, <2>3 DEF ScanInit, ScanTypeOK, ScanTasks, TaskSteps, ScanFolders
  <1>5. ScanOne /\ ScanBehindRow
    BY <1>1, NoTaskTyped DEF ScanOne, ScanBehindRow, Alive, ScanInit
  <1>6. ScanBlank
    BY <1>1, NoTaskTyped DEF ScanBlank
  <1>7. undisturbed \in [TaskIds -> BOOLEAN] /\ scanUsed \in [tasks : Nat, edits : Nat, calls : Nat] /\ onDisk \subseteq Code
    BY DEF ScanInit
  <1> QED BY <1>2, <1>3, <1>4, <1>5, <1>6, <1>7 DEF ScanLockInv, ScanShape

LEMMA ScanEditTyped == ASSUME ScanShape, MayEdit PROVE scanUsed' \in [tasks : Nat, edits : Nat, calls : Nat]
  BY DEF ScanShape, MayEdit, SpendScan

\* One task changes: the types of all of them.
LEMMA ScanTasksTyped ==
    ASSUME ScanShape, NEW k \in TaskIds, NEW t \in ScanTasks, t.add \cap t.del = {},
           TaskTo(k, t), onDisk' \subseteq Paths, ScanFolders',
           scanRow' \in {"none", "idle", "running", "completed", "failed"},
           scanTable' \in TaskIds \cup {NoScan}, fileRows' \subseteq Paths
    PROVE  /\ ScanTypeOK' /\ scanTask' \in [TaskIds -> ScanTasks] /\ scanTask'[k] = t
           /\ \A j \in TaskIds : j # k => scanTask'[j] = scanTask[j]
  <1>1. scanTask'[k] = t /\ \A j \in TaskIds : j # k => scanTask'[j] = scanTask[j]
    BY DEF TaskTo, ScanShape
  <1>2. scanTask' \in [TaskIds -> ScanTasks]
    BY DEF TaskTo, ScanShape
  <1>3. \A j \in TaskIds : LET s == scanTask'[j] IN
          /\ s.pc \in TaskSteps /\ s.dir \in 0 .. Dirs /\ s.batch \in 0 .. Batch - 1
          /\ (s.todo \cup s.seen \cup s.add \cup s.del \cup s.kept) \subseteq Paths
          /\ s.listed \subseteq 0 .. Dirs /\ s.add \cap s.del = {}
    <2> SUFFICES ASSUME NEW j \in TaskIds
                 PROVE  LET s == scanTask'[j] IN
                   /\ s.pc \in TaskSteps /\ s.dir \in 0 .. Dirs /\ s.batch \in 0 .. Batch - 1
                   /\ (s.todo \cup s.seen \cup s.add \cup s.del \cup s.kept) \subseteq Paths
                   /\ s.listed \subseteq 0 .. Dirs /\ s.add \cap s.del = {}
      OBVIOUS
    <2>1. scanTask'[j] \in ScanTasks
      BY <1>2
    <2>2. scanTask'[j].add \cap scanTask'[j].del = {}
      BY <1>1 DEF ScanShape, ScanTypeOK
    <2> QED BY <2>1, <2>2 DEF ScanTasks
  <1>4. ScanTypeOK'
    BY <1>3 DEF ScanShape, ScanTypeOK, TaskSteps, ScanFolders
  <1> QED BY <1>1, <1>2, <1>4

LEMMA FoldersStay == ASSUME ScanShape, UNCHANGED <<onDisk, present>> PROVE ScanFolders'
  BY DEF ScanShape, ScanTypeOK, ScanFolders

\* A task that moves on: what is left to show of the types.
LEMMA ScanTaskTyped ==
    ASSUME ScanShape, NEW k \in TaskIds, NEW t \in ScanTasks, t.add \cap t.del = {},
           TaskTo(k, t), UNCHANGED <<onDisk, present, call, undisturbed>>,
           scanUsed' \in [tasks : Nat, edits : Nat, calls : Nat],
           scanRow' \in {"none", "idle", "running", "completed", "failed"},
           scanTable' \in TaskIds \cup {NoScan}, fileRows' \subseteq Paths
    PROVE  /\ ScanShape' /\ scanTask'[k] = t
           /\ \A j \in TaskIds : j # k => scanTask'[j] = scanTask[j]
  <1>1. onDisk' \subseteq Paths
    BY DEF ScanShape, ScanTypeOK
  <1> QED BY <1>1, ScanTasksTyped, FoldersStay DEF ScanShape

\* What a moving task does to the lock: the one that is alive, if it goes on
\* and is not cancelled, stands behind the row as before.
LEMMA TaskGoesOn ==
    ASSUME ScanLockInv, NEW k \in TaskIds, ~scanTask[k].cancelled, Alive(k),
           NEW t \in ScanTasks, t.add \cap t.del = {}, TaskTo(k, t),
           ~t.cancelled, t.pc \notin {"none", "over"}, t.pc # "finally" \/ scanRow' # "running",
           UNCHANGED <<onDisk, present, call, undisturbed, scanTable, orphaned>>,
           scanUsed' \in [tasks : Nat, edits : Nat, calls : Nat],
           scanRow' \in {"none", "idle", "running", "completed", "failed"},
           scanRow' = "running" => scanRow = "running", fileRows' \subseteq Paths
    PROVE  ScanLockInv' /\ scanTask'[k] = t
  <1>1. /\ ScanShape' /\ scanTask'[k] = t
        /\ \A j \in TaskIds : j # k => scanTask'[j] = scanTask[j]
    BY ScanTaskTyped DEF ScanLockInv, ScanShape, ScanTypeOK
  <1>2. ScanOne'
    BY <1>1 DEF ScanLockInv, ScanOne, Alive
  <1>3. scanTable = k
    BY DEF ScanLockInv, ScanOne
  <1>4. ScanBehindRow'
    BY <1>1, <1>3 DEF ScanLockInv, ScanBehindRow, InTable, Alive
  <1>5. ScanBlank'
    BY <1>1 DEF ScanLockInv, ScanBlank, Alive
  <1> QED BY <1>1, <1>2, <1>4, <1>5 DEF ScanLockInv

\* A request that goes on: the types of its record.
LEMMA ScanCallTyped ==
    ASSUME ScanShape, NEW c \in ScanCallers,
           NEW r \in ScanCalls, call' = [call EXCEPT ![c] = r]
    PROVE  /\ call' \in [ScanCallers -> ScanCalls] /\ call'[c] = r
           /\ \A d \in ScanCallers : d # c => call'[d] = call[d]
  BY DEF ScanShape

LEMMA ScanReturnTyped ==
    ASSUME ScanShape, NEW c \in ScanCallers, Return(c)
    PROVE  /\ call' \in [ScanCallers -> ScanCalls] /\ call'[c].pc = "none"
           /\ \A d \in ScanCallers : d # c => call'[d] = call[d]
  <1>1. NoCall \in ScanCalls /\ NoCall.pc = "none"
    BY DEF NoCall, ScanCalls
  <1> QED BY <1>1, ScanCallTyped DEF Return

LEMMA ScanGotoTyped ==
    ASSUME ScanShape, NEW c \in ScanCallers, 
           NEW pc \in {"none", "read", "lock", "create", "fail", "cancel", "wait", "delete"},
           CallGoto(c, pc)
    PROVE  /\ call' \in [ScanCallers -> ScanCalls] /\ call'[c].pc = pc
           /\ \A d \in ScanCallers : d # c => call'[d] = call[d]
  <1>1. call[c] \in ScanCalls
    BY DEF ScanShape
  <1> DEFINE r == [call[c] EXCEPT !.pc = pc]
  <1>2. r \in ScanCalls /\ r.pc = pc
    BY <1>1 DEF ScanCalls
  <1>3. call' = [call EXCEPT ![c] = r]
    BY DEF CallGoto
  <1> HIDE DEF r
  <1> QED BY <1>2, <1>3, ScanCallTyped

\* A step of a request that leaves the tasks alone and frees no row it is
\* about to start a scan for.
LEMMA ScanCallKeepsLock ==
    ASSUME ScanLockInv, call' \in [ScanCallers -> ScanCalls],
           UNCHANGED <<scanTable, scanTask, onDisk, present>>,
           undisturbed' \in [TaskIds -> BOOLEAN], fileRows' \subseteq Paths,
           scanUsed' \in [tasks : Nat, edits : Nat, calls : Nat],
           scanRow' \in {"none", "idle", "running", "completed", "failed"},
           scanRow' = "running" =>
             \/ \E c \in ScanCallers : call'[c].pc = "create"
             \/ scanRow = "running" /\ orphaned' = orphaned /\ \A c \in ScanCallers : call[c].pc # "create"
             \/ orphaned' # {}
    PROVE  ScanLockInv'
  <1>1. ScanShape'
    BY DEF ScanLockInv, ScanShape, ScanTypeOK
  <1>2. ScanOne' /\ ScanBlank'
    BY DEF ScanLockInv, ScanOne, ScanBlank, Alive
  <1>3. ScanBehindRow'
    BY DEF ScanLockInv, ScanBehindRow, InTable, Alive
  <1> QED BY <1>1, <1>2, <1>3 DEF ScanLockInv

LEMMA ScanRequestKeeps ==
    ASSUME ScanLockInv, NEW c \in ScanCallers, NEW kind \in {"start", "stop", "delete"}, Request(c, kind)
    PROVE  ScanLockInv'
  <1> DEFINE r == [kind |-> kind, pc |-> "read", seen |-> "none"]
  <1>1. r \in ScanCalls
    BY DEF ScanCalls
  <1>2. call' = [call EXCEPT ![c] = r] /\ call[c].pc # "create"
    BY DEF Request, NoCall
  <1> HIDE DEF r
  <1>3. call' \in [ScanCallers -> ScanCalls] /\ \A d \in ScanCallers : d # c => call'[d] = call[d]
    BY <1>1, <1>2, ScanCallTyped DEF ScanLockInv
  <1>4. scanUsed' \in [tasks : Nat, edits : Nat, calls : Nat]
    BY DEF Request, SpendScan, ScanLockInv, ScanShape
  <1>5. \A d \in ScanCallers : call[d].pc = "create" => call'[d].pc = "create"
    BY <1>2, <1>3
  <1>6. UNCHANGED <<scanTable, scanTask, orphaned, onDisk, present, scanRow, undisturbed, fileRows>>
    BY DEF Request, KeepFiles
  <1> QED BY <1>3, <1>4, <1>5, <1>6, ScanCallKeepsLock DEF ScanLockInv, ScanShape, ScanTypeOK

LEMMA ScanReadKeeps ==
    ASSUME ScanLockInv, NEW c \in ScanCallers, ReadRow(c)
    PROVE  ScanLockInv'
  <1>1. /\ call' \in [ScanCallers -> ScanCalls]
        /\ \A d \in ScanCallers : d # c => call'[d] = call[d]
    BY ScanReturnTyped, ScanGotoTyped DEF ReadRow, ScanLockInv
  <1>2. \A d \in ScanCallers : call[d].pc = "create" => call'[d].pc = "create"
    BY <1>1 DEF ReadRow
  <1>3. /\ scanRow' \in {"none", "idle", "running", "completed", "failed"}
        /\ scanRow' = "running" => scanRow = "running"
        /\ UNCHANGED <<scanTable, scanTask, orphaned, onDisk, present, undisturbed, fileRows, scanUsed>>
    BY DEF ReadRow, KeepFiles, ScanLockInv, ScanShape, ScanTypeOK
  <1> QED BY <1>1, <1>2, <1>3, ScanCallKeepsLock DEF ScanLockInv, ScanShape, ScanTypeOK

LEMMA ScanAcquireKeeps ==
    ASSUME ScanLockInv, NEW c \in ScanCallers, AcquireLock(c)
    PROVE  ScanLockInv'
  <1>0. UNCHANGED <<scanTable, scanTask, onDisk, present, undisturbed, fileRows, scanUsed>>
    BY DEF AcquireLock, KeepFiles
  <1>1. CASE scanRow \in {"idle", "completed", "failed"}
    <2>1. call' \in [ScanCallers -> ScanCalls] /\ call'[c].pc = "create" /\ scanRow' = "running"
      BY <1>1, ScanGotoTyped DEF AcquireLock, ScanLockInv
    <2> QED BY <1>0, <2>1, ScanCallKeepsLock DEF ScanLockInv, ScanShape, ScanTypeOK
  <1>2. CASE scanRow \notin {"idle", "completed", "failed"}
    <2>1. /\ call' \in [ScanCallers -> ScanCalls] /\ scanRow' = scanRow /\ orphaned' = orphaned
          /\ \A d \in ScanCallers : d # c => call'[d] = call[d]
      BY <1>2, ScanReturnTyped DEF AcquireLock, ScanLockInv
    <2>2. \A d \in ScanCallers : call[d].pc = "create" => call'[d].pc = "create"
      BY <2>1 DEF AcquireLock
    <2> QED BY <1>0, <2>1, <2>2, ScanCallKeepsLock DEF ScanLockInv, ScanShape, ScanTypeOK
  <1> QED BY <1>1, <1>2

LEMMA ScanRequestRaisesKeeps ==
    ASSUME ScanLockInv, NEW c \in ScanCallers, RequestRaises(c)
    PROVE  ScanLockInv'
  <1>1. call' \in [ScanCallers -> ScanCalls]
    BY ScanReturnTyped DEF RequestRaises, ScanLockInv
  <1>2. scanUsed' \in [tasks : Nat, edits : Nat, calls : Nat]
    BY ScanEditTyped DEF RequestRaises, ScanLockInv
  <1>3. UNCHANGED <<scanTable, scanTask, scanRow, onDisk, present, undisturbed, fileRows>> /\ orphaned' # {}
    BY DEF RequestRaises, KeepFiles
  <1> QED BY <1>1, <1>2, <1>3, ScanCallKeepsLock DEF ScanLockInv, ScanShape, ScanTypeOK

LEMMA ScanStopReadKeeps ==
    ASSUME ScanLockInv, NEW c \in ScanCallers, StopReads(c)
    PROVE  ScanLockInv'
  <1>0. UNCHANGED <<scanTable, scanTask, orphaned, onDisk, present, undisturbed, fileRows, scanUsed, scanRow>>
    BY DEF StopReads, KeepFiles
  <1>1. /\ call' \in [ScanCallers -> ScanCalls]
        /\ \A d \in ScanCallers : d # c => call'[d] = call[d]
    <2>1. CASE Return(c)
      BY <2>1, ScanReturnTyped DEF ScanLockInv
    <2>2. CASE CallGoto(c, "delete")
      BY <2>2, ScanGotoTyped DEF ScanLockInv
    <2>3. CASE call' = [call EXCEPT ![c].pc = "fail", ![c].seen = scanRow]
      <3>1. PICK r : r = [[call[c] EXCEPT !.pc = "fail"] EXCEPT !.seen = scanRow]
        OBVIOUS
      <3>2. call[c] \in ScanCalls /\ scanRow \in {"none", "idle", "running", "completed", "failed"}
        BY DEF ScanLockInv, ScanShape, ScanTypeOK
      <3>3. PICK s : s = [call[c] EXCEPT !.pc = "fail"]
        OBVIOUS
      <3>4. s \in ScanCalls
        BY <3>2, <3>3 DEF ScanCalls
      <3>5. r \in ScanCalls
        BY <3>1, <3>2, <3>3, <3>4 DEF ScanCalls
      <3>6. call' = [call EXCEPT ![c] = r]
        BY <2>3, <3>1 DEF ScanLockInv, ScanShape
      <3> QED BY <3>5, <3>6, ScanCallTyped DEF ScanLockInv
    <2> QED BY <2>1, <2>2, <2>3 DEF StopReads
  <1>2. \A d \in ScanCallers : call[d].pc = "create" => call'[d].pc = "create"
    BY <1>1 DEF StopReads
  <1> QED BY <1>0, <1>1, <1>2, ScanCallKeepsLock DEF ScanLockInv, ScanShape, ScanTypeOK

LEMMA ScanStopWriteKeeps ==
    ASSUME ScanLockInv, NEW c \in ScanCallers, StopWrites(c)
    PROVE  ScanLockInv'
  <1>1. /\ call' \in [ScanCallers -> ScanCalls]
        /\ \A d \in ScanCallers : d # c => call'[d] = call[d]
    BY ScanGotoTyped DEF StopWrites, ScanLockInv
  <1>2. \A d \in ScanCallers : call[d].pc = "create" => call'[d].pc = "create"
    BY <1>1 DEF StopWrites
  <1>3. /\ scanRow' \in {"none", "idle", "running", "completed", "failed"}
        /\ scanRow' = "running" => scanRow = "running"
        /\ UNCHANGED <<scanTable, scanTask, orphaned, onDisk, present, undisturbed, fileRows, scanUsed>>
    BY DEF StopWrites, KeepFiles, ScanLockInv, ScanShape, ScanTypeOK
  <1> QED BY <1>1, <1>2, <1>3, ScanCallKeepsLock DEF ScanLockInv, ScanShape, ScanTypeOK

LEMMA ScanStopWaitKeeps ==
    ASSUME ScanLockInv, NEW c \in ScanCallers, StopWaits(c)
    PROVE  ScanLockInv'
  <1>0. UNCHANGED <<scanTable, scanTask, orphaned, onDisk, present, undisturbed, fileRows, scanUsed, scanRow>>
    BY DEF StopWaits, KeepFiles
  <1>1. /\ call' \in [ScanCallers -> ScanCalls]
        /\ \A d \in ScanCallers : d # c => call'[d] = call[d]
    BY ScanReturnTyped, ScanGotoTyped DEF StopWaits, ScanLockInv
  <1>2. \A d \in ScanCallers : call[d].pc = "create" => call'[d].pc = "create"
    BY <1>1 DEF StopWaits
  <1> QED BY <1>0, <1>1, <1>2, ScanCallKeepsLock DEF ScanLockInv, ScanShape, ScanTypeOK

LEMMA ScanDeleteKeeps ==
    ASSUME ScanLockInv, NEW c \in ScanCallers, DeleteData(c)
    PROVE  ScanLockInv'
  <1>1. call' \in [ScanCallers -> ScanCalls]
    BY ScanReturnTyped DEF DeleteData, ScanLockInv
  <1>2. undisturbed' \in [TaskIds -> BOOLEAN]
    BY DEF DeleteData, Disturbed, ScanLockInv, ScanShape
  <1>3. /\ scanRow' = "none" /\ fileRows' = {}
        /\ UNCHANGED <<scanTable, scanTask, orphaned, onDisk, present, scanUsed>>
    BY DEF DeleteData
  <1> QED BY <1>1, <1>2, <1>3, ScanCallKeepsLock DEF ScanLockInv, ScanShape, ScanTypeOK

LEMMA ScanCreateKeeps ==
    ASSUME ScanLockInv, NEW c \in ScanCallers, CreateTask(c)
    PROVE  ScanLockInv'
  <1>1. call' \in [ScanCallers -> ScanCalls]
    BY ScanReturnTyped DEF CreateTask, ScanLockInv
  <1>2. UNCHANGED <<onDisk, present, fileRows, undisturbed, scanRow>>
    BY DEF CreateTask, KeepFiles
  <1>3. CASE InTable
    <2>1. UNCHANGED <<scanTable, scanTask, scanUsed>> /\ orphaned' # {}
      BY <1>3 DEF CreateTask
    <2>2. ScanShape'
      BY <1>1, <1>2, <2>1 DEF ScanLockInv, ScanShape, ScanTypeOK
    <2>3. ScanOne' /\ ScanBlank'
      BY <2>1 DEF ScanLockInv, ScanOne, ScanBlank, Alive
    <2>4. ScanBehindRow'
      BY <2>1 DEF ScanBehindRow
    <2> QED BY <2>2, <2>3, <2>4 DEF ScanLockInv
  <1>4. CASE ~InTable
    <2>1. \A j \in TaskIds : ~Alive(j)
      BY <1>4, ScanFacts DEF InTable, ScanLockInv, ScanOne
    <2>2. PICK k : k = scanUsed.tasks + 1
      OBVIOUS
    <2>3. /\ scanUsed.tasks < MaxScanTasks /\ scanTable' = k
          /\ scanTask' = [scanTask EXCEPT ![k].pc = "new"]
          /\ scanUsed' = [scanUsed EXCEPT !.tasks = @ + 1]
      BY <1>4, <2>2 DEF CreateTask, SpendScan
    <2>4. k \in TaskIds /\ scanUsed' \in [tasks : Nat, edits : Nat, calls : Nat]
      <3>1. scanUsed \in [tasks : Nat, edits : Nat, calls : Nat]
        BY DEF ScanLockInv, ScanShape
      <3>2. scanUsed.tasks \in Nat /\ scanUsed.tasks + 1 \in Nat
        BY <3>1
      <3>3. scanUsed' \in [tasks : Nat, edits : Nat, calls : Nat]
        BY <2>3, <3>1, <3>2
      <3>4. k \in TaskIds
        BY <2>2, <2>3, <3>2, ScanFacts DEF TaskIds
      <3> QED BY <3>3, <3>4
    <2>5. PICK t : t = [scanTask[k] EXCEPT !.pc = "new"]
      OBVIOUS
    <2>6. scanTask[k] \in ScanTasks /\ ~scanTask[k].cancelled
      BY <2>1, <2>4 DEF ScanLockInv, ScanShape, ScanBlank
    <2>7. t \in ScanTasks /\ t.pc = "new" /\ ~t.cancelled /\ t.add = scanTask[k].add /\ t.del = scanTask[k].del
      BY <2>5, <2>6 DEF ScanTasks, TaskSteps
    <2>8. t.add \cap t.del = {}
      BY <2>4, <2>7 DEF ScanLockInv, ScanShape, ScanTypeOK
    <2>9. TaskTo(k, t)
      BY <2>3, <2>4, <2>5 DEF TaskTo, ScanLockInv, ScanShape
    <2>10. scanTable' \in TaskIds \cup {NoScan}
      BY <2>3, <2>4
    <2>11. /\ ScanTypeOK' /\ scanTask' \in [TaskIds -> ScanTasks] /\ scanTask'[k] = t
           /\ \A j \in TaskIds : j # k => scanTask'[j] = scanTask[j]
      BY <1>2, <2>4, <2>7, <2>8, <2>9, <2>10, ScanTasksTyped, FoldersStay DEF ScanLockInv, ScanShape, ScanTypeOK
    <2>12. ScanShape'
      BY <1>1, <1>2, <2>4, <2>11 DEF ScanLockInv, ScanShape
    <2>13. ScanOne' /\ ScanBlank'
      BY <2>1, <2>3, <2>7, <2>11 DEF ScanLockInv, ScanOne, ScanBlank, Alive
    <2>14. ScanBehindRow'
      <3>1. InTable' /\ ~scanTask'[scanTable'].cancelled /\ scanTask'[scanTable'].pc # "finally"
        BY <2>3, <2>4, <2>7, <2>11, ScanFacts DEF InTable, Alive
      <3> QED BY <3>1 DEF ScanBehindRow
    <2> QED BY <2>12, <2>13, <2>14 DEF ScanLockInv
  <1> QED BY <1>3, <1>4

LEMMA ScanCancelKeeps ==
    ASSUME ScanLockInv, NEW c \in ScanCallers, StopCancels(c)
    PROVE  ScanLockInv'
  <1>1. UNCHANGED <<onDisk, present, fileRows, undisturbed, scanRow, scanTable, scanUsed>> /\ call[c].pc # "create"
    BY DEF StopCancels, KeepFiles
  <1>2. CASE InTable
    <2>0. /\ call' \in [ScanCallers -> ScanCalls]
          /\ \A d \in ScanCallers : d # c => call'[d] = call[d]
      BY <1>2, ScanGotoTyped DEF StopCancels, ScanLockInv
    <2>1. PICK k : k = scanTable
      OBVIOUS
    <2>2. k \in TaskIds /\ Alive(k) /\ scanTask[k] \in ScanTasks
      BY <1>2, <2>1 DEF InTable, ScanLockInv, ScanShape, ScanTypeOK
    <2>3. PICK t : t = [scanTask[k] EXCEPT !.cancelled = TRUE]
      OBVIOUS
    <2>4. t \in ScanTasks /\ t.pc = scanTask[k].pc /\ t.add = scanTask[k].add /\ t.del = scanTask[k].del
      BY <2>2, <2>3 DEF ScanTasks
    <2>5. t.add \cap t.del = {}
      BY <2>2, <2>4 DEF ScanLockInv, ScanShape, ScanTypeOK
    <2>6. scanTask' = [scanTask EXCEPT ![scanTable].cancelled = TRUE]
      BY <1>2 DEF StopCancels
    <2>7. TaskTo(k, t)
      BY <2>1, <2>2, <2>3, <2>6 DEF TaskTo, ScanLockInv, ScanShape
    <2>8. /\ ScanTypeOK' /\ scanTask' \in [TaskIds -> ScanTasks] /\ scanTask'[k] = t
          /\ \A j \in TaskIds : j # k => scanTask'[j] = scanTask[j]
      BY <1>1, <2>2, <2>4, <2>5, <2>7, ScanTasksTyped, FoldersStay DEF ScanLockInv, ScanShape, ScanTypeOK
    <2>9. ScanShape'
      BY <1>1, <2>0, <2>8 DEF ScanLockInv, ScanShape
    <2>10. ScanOne' /\ ScanBlank'
      BY <1>1, <2>2, <2>4, <2>8 DEF ScanLockInv, ScanOne, ScanBlank, Alive
    <2>11. ScanBehindRow'
      <3>1. scanRow = "running" => orphaned' # {}
        BY <1>2 DEF StopCancels
      <3> QED BY <1>1, <3>1 DEF ScanBehindRow
    <2> QED BY <2>9, <2>10, <2>11 DEF ScanLockInv
  <1>3. CASE ~InTable
    <2>1. /\ call' \in [ScanCallers -> ScanCalls]
          /\ \A d \in ScanCallers : d # c => call'[d] = call[d]
      BY <1>3, ScanReturnTyped, ScanGotoTyped DEF StopCancels, ScanLockInv
    <2>2. UNCHANGED <<scanTask, orphaned>>
      BY <1>3 DEF StopCancels
    <2>3. \A d \in ScanCallers : call[d].pc = "create" => call'[d].pc = "create"
      BY <1>1, <2>1
    <2> QED BY <1>1, <2>1, <2>2, <2>3, ScanCallKeepsLock DEF ScanLockInv, ScanShape, ScanTypeOK
  <1> QED BY <1>2, <1>3

LEMMA TaskFields ==
    ASSUME ScanShape, NEW k \in TaskIds
    PROVE  /\ scanTask[k] \in ScanTasks /\ scanTask[k].add \cap scanTask[k].del = {}
           /\ scanTask[k].dir \in 0 .. Dirs /\ scanTask[k].batch \in 0 .. Batch - 1
           /\ scanTask[k].todo \subseteq Paths /\ scanTask[k].seen \subseteq Paths
           /\ scanTask[k].add \subseteq Paths /\ scanTask[k].del \subseteq Paths
           /\ scanTask[k].listed \subseteq 0 .. Dirs
  BY DEF ScanShape, ScanTypeOK, ScanTasks

\* The records a task goes on with.
ScanMoved(t, pc) == [t EXCEPT !.pc = pc]
ScanListed(t, l) == [t EXCEPT !.listed = l]
ScanWritten(t, add, gone) == [t EXCEPT !.add = add, !.del = gone]
ScanBegun(t, dir, todo) == [t EXCEPT !.pc = "files", !.dir = dir, !.todo = todo, !.seen = {}]
ScanMet(t, todo, seen, batch, add, gone) ==
    [t EXCEPT !.todo = todo, !.seen = seen, !.batch = batch, !.add = add, !.del = gone]

LEMMA ScanMovedTyped ==
    ASSUME NEW t \in ScanTasks, NEW pc \in TaskSteps, NEW u, u = ScanMoved(t, pc)
    PROVE  /\ u \in ScanTasks /\ u.pc = pc /\ u.dir = t.dir /\ u.todo = t.todo /\ u.seen = t.seen
           /\ u.batch = t.batch /\ u.add = t.add /\ u.del = t.del /\ u.cancelled = t.cancelled /\ u.listed = t.listed
  BY DEF ScanTasks, ScanMoved

LEMMA ScanWrittenTyped ==
    ASSUME NEW t \in ScanTasks, NEW add \in SUBSET Paths, NEW gone \in SUBSET Paths,
           NEW u, u = ScanWritten(t, add, gone)
    PROVE  /\ u \in ScanTasks /\ u.pc = t.pc /\ u.dir = t.dir /\ u.todo = t.todo /\ u.seen = t.seen
           /\ u.batch = t.batch /\ u.add = add /\ u.del = gone /\ u.cancelled = t.cancelled /\ u.listed = t.listed
  <1>1. PICK v : v = [t EXCEPT !.add = add]
    OBVIOUS
  <1>2. v \in ScanTasks /\ v.pc = t.pc /\ v.dir = t.dir /\ v.todo = t.todo /\ v.seen = t.seen
        /\ v.batch = t.batch /\ v.add = add /\ v.cancelled = t.cancelled /\ v.listed = t.listed
    BY <1>1 DEF ScanTasks
  <1>3. u = [v EXCEPT !.del = gone]
    BY <1>1, Zenon DEF ScanWritten
  <1> QED BY <1>2, <1>3 DEF ScanTasks

LEMMA ScanBegunTyped ==
    ASSUME NEW t \in ScanTasks, NEW dir \in 0 .. Dirs, NEW todo \in SUBSET Paths,
           NEW u, u = ScanBegun(t, dir, todo)
    PROVE  /\ u \in ScanTasks /\ u.pc = "files" /\ u.dir = dir /\ u.todo = todo /\ u.seen = {}
           /\ u.batch = t.batch /\ u.add = t.add /\ u.del = t.del /\ u.cancelled = t.cancelled /\ u.listed = t.listed
  <1>1. PICK v : v = [t EXCEPT !.pc = "files"]
    OBVIOUS
  <1>2. /\ v \in ScanTasks /\ v.pc = "files" 
        /\ v.batch = t.batch /\ v.add = t.add /\ v.del = t.del /\ v.cancelled = t.cancelled /\ v.listed = t.listed
    BY <1>1 DEF ScanTasks, TaskSteps
  <1>3. PICK w : w = [v EXCEPT !.dir = dir]
    OBVIOUS
  <1>4. /\ w \in ScanTasks /\ w.pc = "files" /\ w.dir = dir
        /\ w.batch = t.batch /\ w.add = t.add /\ w.del = t.del /\ w.cancelled = t.cancelled /\ w.listed = t.listed
    BY <1>2, <1>3 DEF ScanTasks
  <1>5. PICK x : x = [w EXCEPT !.todo = todo]
    OBVIOUS
  <1>6. /\ x \in ScanTasks /\ x.pc = "files" /\ x.dir = dir /\ x.todo = todo
        /\ x.batch = t.batch /\ x.add = t.add /\ x.del = t.del /\ x.cancelled = t.cancelled /\ x.listed = t.listed
    BY <1>4, <1>5 DEF ScanTasks
  <1>7. u = [x EXCEPT !.seen = {}]
    BY <1>1, <1>3, <1>5, Zenon DEF ScanBegun
  <1> QED BY <1>6, <1>7 DEF ScanTasks

LEMMA ScanMetTyped ==
    ASSUME NEW t \in ScanTasks, NEW todo \in SUBSET Paths, NEW seen \in SUBSET Paths,
           NEW batch \in 0 .. Batch - 1, NEW add \in SUBSET Paths, NEW gone \in SUBSET Paths,
           NEW u, u = ScanMet(t, todo, seen, batch, add, gone)
    PROVE  /\ u \in ScanTasks /\ u.pc = t.pc /\ u.dir = t.dir /\ u.todo = todo /\ u.seen = seen
           /\ u.batch = batch /\ u.add = add /\ u.del = gone /\ u.cancelled = t.cancelled /\ u.listed = t.listed
  <1>1. PICK v : v = [t EXCEPT !.todo = todo]
    OBVIOUS
  <1>2. v \in ScanTasks /\ v.pc = t.pc /\ v.dir = t.dir /\ v.todo = todo /\ v.cancelled = t.cancelled /\ v.listed = t.listed
    BY <1>1 DEF ScanTasks
  <1>3. PICK w : w = [v EXCEPT !.seen = seen]
    OBVIOUS
  <1>4. /\ w \in ScanTasks /\ w.pc = t.pc /\ w.dir = t.dir /\ w.todo = todo
        /\ w.seen = seen /\ w.cancelled = t.cancelled /\ w.listed = t.listed
    BY <1>2, <1>3 DEF ScanTasks
  <1>5. PICK x : x = [w EXCEPT !.batch = batch]
    OBVIOUS
  <1>6. /\ x \in ScanTasks /\ x.pc = t.pc /\ x.dir = t.dir /\ x.todo = todo
        /\ x.seen = seen /\ x.batch = batch /\ x.cancelled = t.cancelled /\ x.listed = t.listed
    BY <1>4, <1>5 DEF ScanTasks
  <1>7. u = ScanWritten(x, add, gone)
    BY <1>1, <1>3, <1>5, Zenon DEF ScanMet, ScanWritten
  <1> QED BY <1>6, <1>7, ScanWrittenTyped

\* What each step of a task makes of it.
LEMMA ScanListedTyped ==
    ASSUME NEW t \in ScanTasks, NEW l \in SUBSET (0 .. Dirs), NEW u, u = ScanListed(t, l)
    PROVE  /\ u \in ScanTasks /\ u.pc = t.pc /\ u.dir = t.dir /\ u.todo = t.todo /\ u.seen = t.seen
           /\ u.batch = t.batch /\ u.add = t.add /\ u.del = t.del /\ u.cancelled = t.cancelled /\ u.listed = l
  BY DEF ScanTasks, ScanListed

LEMMA ScanAssertDoes ==
    ASSUME ScanLockInv, NEW k \in TaskIds, AssertRunning(k)
    PROVE  LET t == scanTask[k] IN
           \E u \in ScanTasks :
              /\ TaskTo(k, u) /\ ~u.cancelled /\ u.batch = t.batch /\ u.add = t.add /\ u.del = t.del
              /\ u.listed = IF t.pc = "new" THEN present ELSE t.listed
              /\ \/ /\ u.pc = "files" /\ u.dir \in u.listed \cap present /\ u.dir > t.dir
                    /\ u.todo = FilesIn(u.dir) /\ u.seen = {}
                    /\ \A e \in u.listed \cap present : e > t.dir => u.dir <= e
                 \/ u.pc = "flush" /\ u.dir = t.dir /\ \A e \in u.listed \cap present : ~(e > t.dir)
                 \/ u.pc = "finish failed"
  <1>1. PICK t : t = scanTask[k]
    OBVIOUS
  <1>2. t \in ScanTasks /\ t.dir \in 0 .. Dirs /\ ~t.cancelled /\ t.listed \subseteq 0 .. Dirs
    BY <1>1, TaskFields DEF ScanLockInv, AssertRunning, TaskIs
  <1>3. Dirs \in Nat /\ present \subseteq 0 .. Dirs
    BY ScanFacts DEF ScanLockInv, ScanShape, ScanTypeOK
  <1>4. PICK l : l = IF t.pc = "new" THEN present ELSE t.listed
    OBVIOUS
  <1>5. l \in SUBSET (0 .. Dirs)
    BY <1>2, <1>3, <1>4
  <1>6. PICK v : v = ScanListed(t, l)
    OBVIOUS
  <1>7. /\ v \in ScanTasks /\ v.pc = t.pc /\ v.dir = t.dir /\ v.batch = t.batch
        /\ v.add = t.add /\ v.del = t.del /\ ~v.cancelled /\ v.listed = l
    BY <1>2, <1>5, <1>6, ScanListedTyped
  <1>8. v = [scanTask[k] EXCEPT !.listed = IF scanTask[k].pc = "new" THEN present ELSE @]
    BY <1>1, <1>2, <1>4, <1>6 DEF ScanTasks, ScanListed
  <1>9. \/ \E d \in Ahead(v) : /\ \A e \in Ahead(v) : d <= e
                              /\ TaskTo(k, [v EXCEPT !.pc = "files", !.dir = d, !.todo = FilesIn(d), !.seen = {}])
        \/ TaskTo(k, [v EXCEPT !.pc = "finish failed"])
        \/ Ahead(v) = {} /\ TaskTo(k, [v EXCEPT !.pc = "flush"])
    BY <1>8, Zenon DEF AssertRunning
  <1>10. \A e : e \in Ahead(v) <=> e \in l \cap present /\ e > t.dir
    BY <1>7 DEF Ahead
  <1>11. CASE TaskTo(k, [v EXCEPT !.pc = "finish failed"])
    <2>1. PICK pc \in TaskSteps : pc = "finish failed"
      BY DEF TaskSteps
    <2>2. PICK u : u = ScanMoved(v, pc)
      OBVIOUS
    <2>3. TaskTo(k, u)
      BY <1>11, <2>1, <2>2 DEF ScanMoved
    <2>4. /\ u \in ScanTasks /\ u.pc = pc
          /\ u.batch = v.batch /\ u.add = v.add /\ u.del = v.del /\ ~u.cancelled /\ u.listed = v.listed
      BY <1>7, <2>2, ScanMovedTyped
    <2> QED BY <1>1, <1>4, <1>7, <2>1, <2>3, <2>4
  <1>12. ASSUME NEW d \in Ahead(v), \A e \in Ahead(v) : d <= e,
                TaskTo(k, [v EXCEPT !.pc = "files", !.dir = d, !.todo = FilesIn(d), !.seen = {}])
         PROVE  \E u \in ScanTasks :
              /\ TaskTo(k, u) /\ ~u.cancelled /\ u.batch = t.batch /\ u.add = t.add /\ u.del = t.del
              /\ u.listed = l /\ u.pc = "files" /\ u.dir \in u.listed \cap present /\ u.dir > t.dir
              /\ u.todo = FilesIn(u.dir) /\ u.seen = {}
              /\ \A e \in u.listed \cap present : e > t.dir => u.dir <= e
    <2>1. PICK u : u = ScanBegun(v, d, FilesIn(d))
      OBVIOUS
    <2>2. TaskTo(k, u)
      BY <1>12, <2>1, Zenon DEF ScanBegun
    <2>3. d \in 0 .. Dirs /\ d \in l \cap present /\ d > t.dir
      BY <1>5, <1>10
    <2>4. FilesIn(d) \in SUBSET Paths
      BY DEF FilesIn, ScanLockInv, ScanShape, ScanTypeOK
    <2>5. /\ u \in ScanTasks /\ u.pc = "files" /\ u.dir = d /\ u.todo = FilesIn(d) /\ u.seen = {}
          /\ u.batch = v.batch /\ u.add = v.add /\ u.del = v.del /\ ~u.cancelled /\ u.listed = v.listed
      BY <1>7, <2>1, <2>3, <2>4, ScanBegunTyped
    <2>6. \A e \in l \cap present : e > t.dir => d <= e
      BY <1>10, <1>12
    <2> HIDE DEF FilesIn
    <2> QED BY <1>7, <2>2, <2>3, <2>5, <2>6
  <1>13. CASE Ahead(v) = {} /\ TaskTo(k, [v EXCEPT !.pc = "flush"])
    <2>1. PICK pc \in TaskSteps : pc = "flush"
      BY DEF TaskSteps
    <2>2. PICK u : u = ScanMoved(v, pc)
      OBVIOUS
    <2>3. TaskTo(k, u)
      BY <1>13, <2>1, <2>2 DEF ScanMoved
    <2>4. /\ u \in ScanTasks /\ u.pc = pc /\ u.dir = v.dir
          /\ u.batch = v.batch /\ u.add = v.add /\ u.del = v.del /\ ~u.cancelled /\ u.listed = v.listed
      BY <1>7, <2>2, ScanMovedTyped
    <2>5. \A e \in l \cap present : ~(e > t.dir)
      BY <1>10, <1>13
    <2> QED BY <1>1, <1>4, <1>7, <2>1, <2>3, <2>4, <2>5
  <1> QED BY <1>1, <1>4, <1>9, <1>11, <1>12, <1>13

\* A file is missing, a row is written, or it is the one that fills the batch.
LEMMA ScanFileDoes ==
    ASSUME ScanLockInv, NEW k \in TaskIds, ScanOneFile(k)
    PROVE  LET t == scanTask[k] IN
           \E u \in ScanTasks, p \in t.todo :
              /\ TaskTo(k, u) /\ ~u.cancelled /\ u.pc = "files" /\ u.dir = t.dir /\ u.todo = t.todo \ {p}
              /\ u.listed = t.listed
              /\ \/ /\ p \notin onDisk /\ u.seen = t.seen /\ u.batch = t.batch
                    /\ u.add = t.add \ {p} /\ u.del = t.del \cup {p} /\ fileRows' = fileRows
                 \/ /\ p \in onDisk /\ u.seen = t.seen \cup {p} /\ t.batch + 1 < Batch /\ u.batch = t.batch + 1
                    /\ u.add = t.add \cup {p} /\ u.del = t.del \ {p} /\ fileRows' = fileRows
                 \/ /\ p \in onDisk /\ u.seen = t.seen \cup {p} /\ t.batch + 1 = Batch /\ u.batch = 0
                    /\ u.add = {} /\ u.del = {}
                    /\ fileRows' = (fileRows \cup (t.add \cup {p})) \ (t.del \ {p})
  <1>1. PICK t : t = scanTask[k]
    OBVIOUS
  <1>2. /\ t \in ScanTasks /\ t.todo \subseteq Paths /\ t.seen \subseteq Paths /\ t.add \subseteq Paths
        /\ t.del \subseteq Paths /\ t.batch \in 0 .. Batch - 1 /\ ~t.cancelled /\ t.pc = "files"
    BY <1>1, TaskFields DEF ScanLockInv, ScanOneFile, TaskIs
  <1>3. PICK p \in t.todo :
          LET s == [t EXCEPT !.todo = @ \ {p}]
              found == [s EXCEPT !.seen = @ \cup {p}, !.batch = @ + 1,
                                 !.add = @ \cup {p}, !.del = @ \ {p}] IN
          IF p \notin onDisk
          THEN TaskTo(k, [s EXCEPT !.del = @ \cup {p}, !.add = @ \ {p}]) /\ UNCHANGED fileRows
          ELSE IF t.batch + 1 < Batch
          THEN TaskTo(k, found) /\ UNCHANGED fileRows
          ELSE TaskTo(k, [found EXCEPT !.batch = 0, !.add = {}, !.del = {}])
               /\ fileRows' = Committed(found)
    BY <1>1, Zenon DEF ScanOneFile
  <1>4. p \in Paths
    BY <1>2
  <1>5. PICK s : s = [t EXCEPT !.todo = @ \ {p}]
    OBVIOUS
  <1>6. /\ s \in ScanTasks /\ s.pc = t.pc /\ s.dir = t.dir /\ s.todo = t.todo \ {p} /\ s.seen = t.seen
        /\ s.batch = t.batch /\ s.add = t.add /\ s.del = t.del /\ s.cancelled = t.cancelled /\ s.listed = t.listed
    BY <1>2, <1>5 DEF ScanTasks
  <1>7. CASE p \notin onDisk
    <2>1. PICK u : u = ScanWritten(s, s.add \ {p}, s.del \cup {p})
      OBVIOUS
    <2>2. /\ u \in ScanTasks /\ u.pc = s.pc /\ u.dir = s.dir /\ u.todo = s.todo /\ u.seen = s.seen
          /\ u.batch = s.batch /\ u.add = s.add \ {p} /\ u.del = s.del \cup {p} /\ u.cancelled = s.cancelled /\ u.listed = s.listed
      <3>1. s.add \ {p} \in SUBSET Paths /\ s.del \cup {p} \in SUBSET Paths
        BY <1>2, <1>4, <1>6
      <3> QED BY <1>6, <2>1, <3>1, ScanWrittenTyped
    <2>3. u = [s EXCEPT !.del = @ \cup {p}, !.add = @ \ {p}]
      <3>1. [s EXCEPT !.del = @ \cup {p}, !.add = @ \ {p}] = u
        BY <1>6, <2>1 DEF ScanTasks, ScanWritten
      <3> QED BY <3>1
    <2>4. TaskTo(k, u) /\ fileRows' = fileRows
      BY <1>3, <1>5, <1>7, <2>3, Zenon
    <2> QED BY <1>1, <1>2, <1>6, <1>7, <2>2, <2>4
  <1> DEFINE found == [s EXCEPT !.seen = @ \cup {p}, !.batch = @ + 1, !.add = @ \cup {p}, !.del = @ \ {p}]
  <1>8. CASE p \in onDisk /\ t.batch + 1 < Batch
    <2>1. PICK u : u = ScanMet(s, s.todo, s.seen \cup {p}, s.batch + 1, s.add \cup {p}, s.del \ {p})
      OBVIOUS
    <2>2. /\ s.todo \in SUBSET Paths /\ s.seen \cup {p} \in SUBSET Paths /\ s.batch + 1 \in 0 .. Batch - 1
          /\ s.add \cup {p} \in SUBSET Paths /\ s.del \ {p} \in SUBSET Paths
      BY <1>2, <1>4, <1>6, <1>8, ScanFacts
    <2>3. /\ u \in ScanTasks /\ u.pc = s.pc /\ u.dir = s.dir /\ u.todo = s.todo /\ u.seen = s.seen \cup {p}
          /\ u.batch = s.batch + 1 /\ u.add = s.add \cup {p} /\ u.del = s.del \ {p} /\ u.cancelled = s.cancelled /\ u.listed = s.listed
      BY <1>6, <2>1, <2>2, ScanMetTyped
    <2>4. u = found
      BY <1>6, <2>1 DEF ScanTasks, ScanMet
    <2>5. TaskTo(k, u) /\ fileRows' = fileRows
      BY <1>3, <1>5, <1>8, <2>4, Zenon
    <2> HIDE DEF found
    <2> QED BY <1>1, <1>2, <1>6, <1>8, <2>3, <2>5
  <1>9. CASE p \in onDisk /\ ~(t.batch + 1 < Batch)
    <2>1. PICK u : u = ScanMet(s, s.todo, s.seen \cup {p}, 0, {}, {})
      OBVIOUS
    <2>2. /\ s.todo \in SUBSET Paths /\ s.seen \cup {p} \in SUBSET Paths /\ 0 \in 0 .. Batch - 1
          /\ t.batch + 1 = Batch /\ {} \in SUBSET Paths
      BY <1>2, <1>4, <1>6, <1>9, ScanFacts
    <2>3. /\ u \in ScanTasks /\ u.pc = s.pc /\ u.dir = s.dir /\ u.todo = s.todo /\ u.seen = s.seen \cup {p}
          /\ u.batch = 0 /\ u.add = {} /\ u.del = {} /\ u.cancelled = s.cancelled /\ u.listed = s.listed
      BY <1>6, <2>1, <2>2, ScanMetTyped
    <2>4. u = [found EXCEPT !.batch = 0, !.add = {}, !.del = {}]
      BY <1>6, <2>1 DEF ScanTasks, ScanMet
    <2>5. TaskTo(k, u) /\ fileRows' = Committed(found)
      BY <1>3, <1>5, <1>9, <2>4, Zenon
    <2>6. found.add = s.add \cup {p} /\ found.del = s.del \ {p}
      BY <1>6 DEF ScanTasks
    <2> HIDE DEF found
    <2>7. fileRows' = (fileRows \cup (t.add \cup {p})) \ (t.del \ {p})
      BY <1>6, <2>5, <2>6 DEF Committed
    <2> QED BY <1>1, <1>2, <1>6, <1>9, <2>2, <2>3, <2>5, <2>7
  <1> QED BY <1>7, <1>8, <1>9

LEMMA ScanMissingDoes ==
    ASSUME ScanLockInv, NEW k \in TaskIds, DeleteMissing(k)
    PROVE  LET t == scanTask[k]
               missing == RowsIn(t, t.dir) \ t.seen IN
           \E u \in ScanTasks :
              /\ TaskTo(k, u) /\ ~u.cancelled /\ u.pc = "dir" /\ u.dir = t.dir
              /\ u.batch = t.batch /\ u.add = t.add \ missing /\ u.del = t.del \cup missing
              /\ u.listed = t.listed
  <1>1. PICK t : t = scanTask[k]
    OBVIOUS
  <1>2. t \in ScanTasks /\ t.add \subseteq Paths /\ t.del \subseteq Paths /\ ~t.cancelled
    BY <1>1, TaskFields DEF ScanLockInv, DeleteMissing, TaskIs
  <1>3. PICK missing : missing = RowsIn(t, t.dir) \ t.seen
    OBVIOUS
  <1>4. missing \subseteq Paths
    BY <1>2, <1>3 DEF RowsIn, Committed, ScanLockInv, ScanShape, ScanTypeOK
  <1>5. "dir" \in TaskSteps
    BY DEF TaskSteps
  <1>6. PICK v : v = ScanMoved(t, "dir")
    OBVIOUS
  <1>7. /\ v \in ScanTasks /\ v.pc = "dir" /\ v.dir = t.dir 
        /\ v.batch = t.batch /\ v.add = t.add /\ v.del = t.del /\ v.cancelled = t.cancelled /\ v.listed = t.listed
    BY <1>2, <1>5, <1>6, ScanMovedTyped
  <1>8. PICK u : u = ScanWritten(v, t.add \ missing, t.del \cup missing)
    OBVIOUS
  <1>9. /\ u \in ScanTasks /\ u.pc = v.pc /\ u.dir = v.dir 
        /\ u.batch = v.batch /\ u.add = t.add \ missing /\ u.del = t.del \cup missing /\ u.cancelled = v.cancelled /\ u.listed = v.listed
    <2>1. t.add \ missing \in SUBSET Paths /\ t.del \cup missing \in SUBSET Paths
      BY <1>2, <1>4
    <2> QED BY <1>7, <1>8, <2>1, ScanWrittenTyped
  <1>10. u = [t EXCEPT !.pc = "dir", !.del = @ \cup missing, !.add = @ \ missing]
    BY <1>2, <1>6, <1>8 DEF ScanTasks, ScanMoved, ScanWritten
  <1>11. TaskTo(k, u)
    BY <1>1, <1>3, <1>10 DEF DeleteMissing
  <1> QED BY <1>1, <1>2, <1>3, <1>7, <1>9, <1>11

ScanDropped(t, pc) == [t EXCEPT !.pc = pc, !.add = {}, !.del = {}]

LEMMA ScanDroppedTyped ==
    ASSUME NEW t \in ScanTasks, NEW pc \in TaskSteps, NEW u, u = ScanDropped(t, pc)
    PROVE  /\ u \in ScanTasks /\ u.pc = pc /\ u.dir = t.dir /\ u.add = {} /\ u.del = {}
           /\ u.cancelled = t.cancelled /\ u.listed = t.listed
  <1>1. PICK v : v = ScanMoved(t, pc)
    OBVIOUS
  <1>2. v \in ScanTasks /\ v.pc = pc /\ v.dir = t.dir /\ v.cancelled = t.cancelled /\ v.listed = t.listed
    BY <1>1, ScanMovedTyped
  <1>3. u = ScanWritten(v, {}, {})
    BY <1>1, Zenon DEF ScanDropped, ScanMoved, ScanWritten
  <1>4. {} \in SUBSET Paths
    OBVIOUS
  <1>5. /\ u \in ScanTasks /\ u.pc = v.pc /\ u.dir = v.dir /\ u.add = {} /\ u.del = {} /\ u.cancelled = v.cancelled /\ u.listed = v.listed
    BY <1>2, <1>3, <1>4, ScanWrittenTyped
  <1> QED BY <1>2, <1>5

\* A task that goes on leaves the requests and the disk alone.
LEMMA TaskLeaves ==
    ASSUME ScanLockInv, TaskOnly, fileRows' \subseteq Paths
    PROVE  /\ UNCHANGED <<onDisk, present, call, undisturbed, scanTable, orphaned>>
           /\ scanUsed' \in [tasks : Nat, edits : Nat, calls : Nat]
           /\ scanRow' \in {"none", "idle", "running", "completed", "failed"}
           /\ scanRow' = "running" => scanRow = "running"
  BY DEF ScanLockInv, ScanShape, ScanTypeOK, TaskOnly

LEMMA ScanRowsStay == ASSUME ScanLockInv PROVE fileRows \subseteq Paths
  BY DEF ScanLockInv, ScanShape, ScanTypeOK

LEMMA ScanAssertKeeps ==
    ASSUME ScanLockInv, NEW k \in TaskIds, AssertRunning(k)
    PROVE  ScanLockInv'
  <1>1. PICK u \in ScanTasks :
           /\ TaskTo(k, u) /\ ~u.cancelled /\ u.add = scanTask[k].add /\ u.del = scanTask[k].del
           /\ u.pc \in {"files", "flush", "finish failed"}
    BY ScanAssertDoes
  <1>2. u.add \cap u.del = {}
    BY <1>1, TaskFields DEF ScanLockInv
  <1>3. Alive(k) /\ ~scanTask[k].cancelled /\ TaskOnly /\ fileRows' = fileRows
    BY DEF AssertRunning, TaskIs, Alive
  <1> QED BY <1>1, <1>2, <1>3, TaskLeaves, ScanRowsStay, TaskGoesOn

LEMMA ScanFileKeeps ==
    ASSUME ScanLockInv, NEW k \in TaskIds, ScanOneFile(k)
    PROVE  ScanLockInv'
  <1>1. PICK t : t = scanTask[k]
    OBVIOUS
  <1>2. PICK u \in ScanTasks, p \in t.todo :
           /\ TaskTo(k, u) /\ ~u.cancelled /\ u.pc = "files" 
           /\ \/ u.add = t.add \ {p} /\ u.del = t.del \cup {p} /\ fileRows' = fileRows
              \/ u.add = t.add \cup {p} /\ u.del = t.del \ {p} /\ fileRows' = fileRows
              \/ /\ u.add = {} /\ u.del = {}
                 /\ fileRows' = (fileRows \cup (t.add \cup {p})) \ (t.del \ {p})
    BY <1>1, ScanFileDoes
  <1>3. t.add \cap t.del = {} /\ t.add \subseteq Paths /\ p \in Paths
    BY <1>1, TaskFields DEF ScanLockInv
  <1>4. u.add \cap u.del = {} /\ fileRows' \subseteq Paths
    BY <1>2, <1>3, ScanRowsStay
  <1>5. Alive(k) /\ ~scanTask[k].cancelled /\ TaskOnly
    BY DEF ScanOneFile, TaskIs, Alive
  <1> QED BY <1>2, <1>4, <1>5, TaskLeaves, TaskGoesOn

LEMMA ScanMissingKeeps ==
    ASSUME ScanLockInv, NEW k \in TaskIds, DeleteMissing(k)
    PROVE  ScanLockInv'
  <1>1. PICK t, missing : t = scanTask[k] /\ missing = RowsIn(t, t.dir) \ t.seen
    OBVIOUS
  <1>2. PICK u \in ScanTasks :
           /\ TaskTo(k, u) /\ ~u.cancelled /\ u.pc = "dir" 
           /\ u.add = t.add \ missing /\ u.del = t.del \cup missing
    BY <1>1, ScanMissingDoes
  <1>3. u.add \cap u.del = {}
    BY <1>1, <1>2, TaskFields DEF ScanLockInv
  <1>4. Alive(k) /\ ~scanTask[k].cancelled /\ TaskOnly /\ fileRows' = fileRows
    BY DEF DeleteMissing, TaskIs, Alive
  <1> QED BY <1>2, <1>3, <1>4, TaskLeaves, ScanRowsStay, TaskGoesOn

LEMMA ScanFlushDoes ==
    ASSUME ScanLockInv, NEW k \in TaskIds, Flush(k)
    PROVE  /\ \E u \in ScanTasks :
                /\ TaskTo(k, u) /\ ~u.cancelled /\ u.pc = "excluded" /\ u.add = {} /\ u.del = {}
                /\ u.listed = scanTask[k].listed
           /\ fileRows' = IF scanTask[k].batch > 0 THEN Committed(scanTask[k]) ELSE fileRows
           /\ TaskIs(k, "flush") /\ TaskOnly
  <1>1. "excluded" \in TaskSteps
    BY DEF TaskSteps
  <1>2. TaskTo(k, [scanTask[k] EXCEPT !.pc = "excluded", !.add = {}, !.del = {}]) /\ ~scanTask[k].cancelled
    BY DEF Flush, TaskIs
  <1>3. \E u \in ScanTasks :
           /\ TaskTo(k, u) /\ u.cancelled = scanTask[k].cancelled /\ u.pc = "excluded"
           /\ u.listed = scanTask[k].listed /\ u.add = {} /\ u.del = {}
    <2>1. PICK t, pc : t = scanTask[k] /\ pc = "excluded"
      OBVIOUS
    <2>2. t \in ScanTasks /\ pc \in TaskSteps
      BY <1>1, <2>1, TaskFields DEF ScanLockInv
    <2>3. PICK u : u = ScanDropped(t, pc)
      OBVIOUS
    <2>4. u \in ScanTasks /\ u.pc = pc /\ u.dir = t.dir /\ u.add = {} /\ u.del = {} /\ u.cancelled = t.cancelled /\ u.listed = t.listed
      BY <2>2, <2>3, ScanDroppedTyped
    <2>5. TaskTo(k, u)
      BY <1>2, <2>1, <2>3 DEF ScanDropped
    <2> QED BY <2>1, <2>4, <2>5
  <1> QED BY <1>2, <1>3 DEF Flush

LEMMA ScanFlushKeeps ==
    ASSUME ScanLockInv, NEW k \in TaskIds, Flush(k)
    PROVE  ScanLockInv'
  <1>1. PICK u \in ScanTasks : TaskTo(k, u) /\ ~u.cancelled /\ u.pc = "excluded" /\ u.add = {} /\ u.del = {}
    BY ScanFlushDoes
  <1>2. fileRows' \subseteq Paths
    BY ScanFlushDoes, ScanRowsStay, TaskFields DEF Committed, ScanLockInv
  <1>3. Alive(k) /\ ~scanTask[k].cancelled /\ TaskOnly
    BY DEF Flush, TaskIs, Alive
  <1> QED BY <1>1, <1>2, <1>3, TaskLeaves, TaskGoesOn

LEMMA ScanKeptTyped ==
    ASSUME NEW t \in ScanTasks, NEW kept \in SUBSET Paths, NEW u, u = [t EXCEPT !.kept = kept]
    PROVE  /\ u \in ScanTasks /\ u.pc = t.pc /\ u.add = t.add /\ u.del = t.del
           /\ u.cancelled = t.cancelled /\ u.kept = kept
  BY DEF ScanTasks

LEMMA ScanExcludedDoes ==
    ASSUME ScanLockInv, NEW k \in TaskIds, DeleteExcluded(k)
    PROVE  LET t == scanTask[k]
               under == IF 0 \in t.listed THEN {p \in fileRows : DirOf[p] = 0} ELSE {} IN
           \E u \in ScanTasks :
                /\ TaskTo(k, u) /\ ~u.cancelled /\ u.pc = "finish completed"
                /\ u.add = t.add /\ u.del = t.del /\ u.kept \subseteq under
                /\ fileRows' = (fileRows \ under) \cup u.kept
  <1>1. PICK t : t = scanTask[k]
    OBVIOUS
  <1>2. t \in ScanTasks /\ ~t.cancelled
    BY <1>1, TaskFields DEF ScanLockInv, DeleteExcluded, TaskIs
  <1>3. PICK under : under = IF 0 \in t.listed THEN {p \in fileRows : DirOf[p] = 0} ELSE {}
    OBVIOUS
  <1>4. PICK failed \in SUBSET under :
           /\ fileRows' = (fileRows \ under) \cup failed
           /\ TaskTo(k, [t EXCEPT !.pc = "finish completed", !.kept = failed])
    BY <1>1, <1>3, Zenon DEF DeleteExcluded
  <1>5. failed \in SUBSET Paths
    BY <1>3, ScanRowsStay
  <1>6. PICK pc \in TaskSteps : pc = "finish completed"
    BY DEF TaskSteps
  <1>7. PICK v : v = ScanMoved(t, pc)
    OBVIOUS
  <1>8. v \in ScanTasks /\ ~v.cancelled /\ v.pc = pc /\ v.add = t.add /\ v.del = t.del
    BY <1>2, <1>7, ScanMovedTyped
  <1>9. PICK u : u = [v EXCEPT !.kept = failed]
    OBVIOUS
  <1>10. u \in ScanTasks /\ ~u.cancelled /\ u.pc = pc /\ u.add = t.add /\ u.del = t.del /\ u.kept = failed
    BY <1>5, <1>8, <1>9, ScanKeptTyped
  <1>11. TaskTo(k, u)
    BY <1>4, <1>6, <1>7, <1>9, Zenon DEF ScanMoved
  <1> QED BY <1>1, <1>3, <1>4, <1>6, <1>10, <1>11

LEMMA ScanExcludedKeeps ==
    ASSUME ScanLockInv, NEW k \in TaskIds, DeleteExcluded(k)
    PROVE  ScanLockInv'
  <1>1. PICK u \in ScanTasks :
           /\ TaskTo(k, u) /\ ~u.cancelled /\ u.pc = "finish completed"
           /\ u.add = scanTask[k].add /\ u.del = scanTask[k].del
    BY ScanExcludedDoes
  <1>2. u.add \cap u.del = {}
    BY <1>1, TaskFields DEF ScanLockInv
  <1>3. fileRows' \subseteq Paths
    <2>1. PICK under, failed :
             failed \subseteq under /\ under \subseteq fileRows /\ fileRows' = (fileRows \ under) \cup failed
      BY DEF DeleteExcluded
    <2> QED BY <2>1, ScanRowsStay
  <1>4. Alive(k) /\ ~scanTask[k].cancelled /\ UNCHANGED <<onDisk, present, scanRow, scanTable, call, undisturbed, orphaned>>
    BY DEF DeleteExcluded, TaskIs, Alive
  <1>5. scanUsed' \in [tasks : Nat, edits : Nat, calls : Nat]
    <2>1. UNCHANGED scanUsed \/ MayEdit
      BY DEF DeleteExcluded
    <2> QED BY <2>1, ScanEditTyped DEF ScanLockInv, ScanShape
  <1>6. scanRow' \in {"none", "idle", "running", "completed", "failed"}
    BY <1>4 DEF ScanLockInv, ScanShape, ScanTypeOK
  <1> QED BY <1>1, <1>2, <1>3, <1>4, <1>5, <1>6, TaskGoesOn

LEMMA ScanRaiseKeeps ==
    ASSUME ScanLockInv, NEW k \in TaskIds, TaskRaises(k)
    PROVE  ScanLockInv' /\ scanTask'[k].pc = "finish failed"
  <1>1. "finish failed" \in TaskSteps
    BY DEF TaskSteps
  <1>2. TaskTo(k, [scanTask[k] EXCEPT !.pc = "finish failed", !.add = {}, !.del = {}])
    BY DEF TaskRaises
  <1>3. PICK u \in ScanTasks :
           /\ TaskTo(k, u) /\ u.cancelled = scanTask[k].cancelled /\ u.pc = "finish failed"
           /\ u.add = {} /\ u.del = {}
    <2>1. PICK t, pc : t = scanTask[k] /\ pc = "finish failed"
      OBVIOUS
    <2>2. t \in ScanTasks /\ pc \in TaskSteps
      BY <1>1, <2>1, TaskFields DEF ScanLockInv
    <2>3. PICK u : u = ScanDropped(t, pc)
      OBVIOUS
    <2>4. u \in ScanTasks /\ u.pc = pc /\ u.dir = t.dir /\ u.add = {} /\ u.del = {} /\ u.cancelled = t.cancelled /\ u.listed = t.listed
      BY <2>2, <2>3, ScanDroppedTyped
    <2>5. TaskTo(k, u)
      BY <1>2, <2>1, <2>3 DEF ScanDropped
    <2> QED BY <2>1, <2>4, <2>5
  <1>4. Alive(k) /\ ~scanTask[k].cancelled
    BY DEF TaskRaises, TaskIs, Alive
  <1>5. /\ UNCHANGED <<onDisk, present, call, undisturbed, scanTable, orphaned>> /\ fileRows' \subseteq Paths
        /\ scanRow' \in {"none", "idle", "running", "completed", "failed"}
        /\ scanRow' = "running" => scanRow = "running"
    BY DEF ScanLockInv, ScanShape, ScanTypeOK, TaskRaises
  <1>6. scanUsed' \in [tasks : Nat, edits : Nat, calls : Nat]
    BY ScanEditTyped DEF TaskRaises, ScanLockInv
  <1>7. u.add \cap u.del = {} /\ ~u.cancelled /\ u.pc \notin {"none", "over"} /\ u.pc # "finally"
    BY <1>3, <1>4
  <1>8. ScanLockInv' /\ scanTask'[k] = u
    BY <1>3, <1>4, <1>5, <1>6, <1>7, TaskGoesOn
  <1> QED BY <1>3, <1>8

LEMMA ScanFinishKeeps ==
    ASSUME ScanLockInv, NEW k \in TaskIds, FinishTask(k)
    PROVE  ScanLockInv' /\ scanTask'[k].pc = "finally"
  <1>1. PICK t : t = scanTask[k]
    OBVIOUS
  <1>2. t \in ScanTasks /\ t.add \cap t.del = {} /\ ~t.cancelled
    BY <1>1, TaskFields DEF ScanLockInv, FinishTask, TaskIs
  <1>3. PICK u : u = ScanMoved(t, "finally")
    OBVIOUS
  <1>4. "finally" \in TaskSteps
    BY DEF TaskSteps
  <1>5. u \in ScanTasks /\ ~u.cancelled /\ u.pc = "finally" /\ u.add = t.add /\ u.del = t.del
    BY <1>2, <1>3, <1>4, ScanMovedTyped
  <1>6. TaskTo(k, u)
    BY <1>1, <1>3 DEF FinishTask, ScanMoved
  <1>7. Alive(k) /\ ~scanTask[k].cancelled
    BY DEF FinishTask, TaskIs, Alive
  <1>8. /\ UNCHANGED <<onDisk, present, call, undisturbed, scanTable, orphaned>> /\ fileRows' \subseteq Paths
        /\ scanRow' \in {"none", "completed", "failed"}
        /\ scanUsed' \in [tasks : Nat, edits : Nat, calls : Nat]
    BY DEF ScanLockInv, ScanShape, ScanTypeOK, FinishTask
  <1>9. u.add \cap u.del = {} /\ scanRow' # "running" /\ u.pc \notin {"none", "over"}
    BY <1>2, <1>5, <1>8
  <1>10. ScanLockInv' /\ scanTask'[k] = u
    BY <1>5, <1>6, <1>7, <1>8, <1>9, TaskGoesOn
  <1> QED BY <1>5, <1>10

LEMMA ScanFinishRaisesKeeps ==
    ASSUME ScanLockInv, NEW k \in TaskIds, FinishRaises(k)
    PROVE  ScanLockInv' /\ scanTask'[k].pc \in {"finish failed", "finally"}
  <1>1. PICK t : t = scanTask[k]
    OBVIOUS
  <1>2. t \in ScanTasks /\ t.add \cap t.del = {} /\ ~t.cancelled
    BY <1>1, TaskFields DEF ScanLockInv, FinishRaises, TaskIs
  <1>3. Alive(k) /\ ~scanTask[k].cancelled
    BY DEF FinishRaises, TaskIs, Alive
  <1>4. /\ UNCHANGED <<onDisk, present, fileRows, call, undisturbed, scanTable, scanRow>>
        /\ scanRow' \in {"none", "idle", "running", "completed", "failed"} /\ fileRows' \subseteq Paths
    BY DEF ScanLockInv, ScanShape, ScanTypeOK, FinishRaises
  <1>5. scanUsed' \in [tasks : Nat, edits : Nat, calls : Nat]
    BY ScanEditTyped DEF FinishRaises, ScanLockInv
  <1>6. PICK pc \in TaskSteps :
          /\ TaskTo(k, [t EXCEPT !.pc = pc])
          /\ \/ pc = "finish failed" /\ UNCHANGED orphaned
             \/ pc = "finally" /\ orphaned' # {}
    <2>1. "finish failed" \in TaskSteps /\ "finally" \in TaskSteps
      BY DEF TaskSteps
    <2>2. \/ TaskTo(k, [t EXCEPT !.pc = "finish failed"]) /\ UNCHANGED orphaned
          \/ TaskTo(k, [t EXCEPT !.pc = "finally"]) /\ orphaned' # {}
      BY <1>1 DEF FinishRaises
    <2> QED BY <2>1, <2>2
  <1>7. PICK u : u = ScanMoved(t, pc)
    OBVIOUS
  <1>8. u \in ScanTasks /\ ~u.cancelled /\ u.pc = pc /\ u.add = t.add /\ u.del = t.del /\ TaskTo(k, u)
    <2>1. u \in ScanTasks /\ ~u.cancelled /\ u.pc = pc /\ u.add = t.add /\ u.del = t.del
      BY <1>2, <1>7, ScanMovedTyped
    <2>2. TaskTo(k, u)
      BY <1>6, <1>7, Zenon DEF ScanMoved
    <2> QED BY <2>1, <2>2
  <1>9. CASE pc = "finish failed" /\ UNCHANGED orphaned
    BY <1>2, <1>3, <1>4, <1>5, <1>8, <1>9, TaskGoesOn
  <1>10. CASE pc = "finally" /\ orphaned' # {}
    <2>1. u.add \cap u.del = {}
      BY <1>2, <1>8
    <2>2. scanTable' \in TaskIds \cup {NoScan}
      BY <1>4 DEF ScanLockInv, ScanShape, ScanTypeOK
    <2>3. /\ ScanShape' /\ scanTask'[k] = u
          /\ \A j \in TaskIds : j # k => scanTask'[j] = scanTask[j]
      BY <1>4, <1>5, <1>8, <2>1, <2>2, ScanTaskTyped DEF ScanLockInv
    <2>4. ScanOne' /\ ScanBlank'
      BY <1>3, <1>4, <1>8, <1>10, <2>3 DEF ScanLockInv, ScanOne, ScanBlank, Alive
    <2>5. ScanBehindRow'
      BY <1>10 DEF ScanBehindRow
    <2> QED BY <1>8, <1>10, <2>3, <2>4, <2>5 DEF ScanLockInv
  <1> QED BY <1>6, <1>9, <1>10

LEMMA ScanEndKeeps ==
    ASSUME ScanLockInv, NEW k \in TaskIds, TaskEnds(k)
    PROVE  ScanLockInv' /\ ~Alive(k)'
  <1>1. TaskTo(k, ScanOver)
    BY DEF TaskEnds, ScanOver
  <1>2. ScanOver.add \cap ScanOver.del = {}
    BY ScanOverTyped
  <1>3. /\ UNCHANGED <<onDisk, present, fileRows, scanRow, call, scanUsed, undisturbed, orphaned>>
        /\ scanTable' \in {scanTable, NoScan}
    BY DEF TaskEnds
  <1>4. /\ ScanShape' /\ scanTask'[k] = ScanOver
        /\ \A j \in TaskIds : j # k => scanTask'[j] = scanTask[j]
    BY <1>1, <1>2, <1>3, ScanOverTyped, ScanTaskTyped DEF ScanLockInv, ScanShape, ScanTypeOK
  <1>5. Alive(k) /\ (scanTask[k].pc = "finally" \/ scanTask[k].cancelled)
    BY DEF TaskEnds, Alive
  <1>6. scanTable = k /\ \A j \in TaskIds : j # k => ~Alive(j)
    BY <1>5 DEF ScanLockInv, ScanOne
  <1>7. \A j \in TaskIds : ~Alive(j)'
    BY <1>4, <1>6, ScanOverTyped DEF Alive
  <1>8. ScanOne'
    BY <1>7 DEF ScanOne
  <1>9. ScanBlank'
    BY <1>4, <1>6, ScanOverTyped DEF ScanBlank, ScanLockInv, Alive
  <1>10. ScanBehindRow'
    BY <1>3, <1>5, <1>6 DEF ScanBehindRow, ScanLockInv
  <1> QED BY <1>4, <1>7, <1>8, <1>9, <1>10 DEF ScanLockInv

LEMMA ScanEditKeeps == ASSUME ScanLockInv, EditDisk PROVE ScanLockInv'
  <1>0. onDisk \subseteq Code /\ ScanFolders /\ Code \subseteq Paths /\ \A p \in Code : DirOf[p] \in 0 .. Dirs
    BY ScanFacts DEF ScanLockInv, ScanShape, ScanTypeOK, ScanFolders
  <1>1. onDisk' \subseteq Code /\ onDisk' \subseteq Paths /\ ScanFolders'
    <2>1. CASE \E p \in onDisk : onDisk' = onDisk \ {p} /\ UNCHANGED present
      BY <1>0, <2>1 DEF ScanFolders
    <2>2. CASE \E p \in Code \ onDisk : onDisk' = onDisk \cup {p} /\ present' = present \cup {DirOf[p]}
      BY <1>0, <2>2 DEF ScanFolders
    <2>3. CASE \E d \in present \ {1} : present' = present \ {d} /\ onDisk' = onDisk \ FilesIn(d)
      BY <1>0, <2>3 DEF ScanFolders, FilesIn
    <2>4. CASE \E d \in (0 .. Dirs) \ present : present' = present \cup {d} /\ UNCHANGED onDisk
      BY <1>0, <2>4 DEF ScanFolders
    <2> QED BY <2>1, <2>2, <2>3, <2>4 DEF EditDisk
  <1>2. undisturbed' \in [TaskIds -> BOOLEAN]
    BY DEF EditDisk, Disturbed, ScanLockInv, ScanShape
  <1>3. scanUsed' \in [tasks : Nat, edits : Nat, calls : Nat]
    BY ScanEditTyped DEF EditDisk, ScanLockInv
  <1>4. UNCHANGED <<fileRows, scanRow, scanTable, scanTask, call, orphaned>>
    BY DEF EditDisk
  <1>5. ScanShape'
    BY <1>1, <1>2, <1>3, <1>4 DEF ScanLockInv, ScanShape, ScanTypeOK, ScanFolders
  <1>6. ScanOne' /\ ScanBlank' /\ ScanBehindRow'
    BY <1>4 DEF ScanLockInv, ScanOne, ScanBlank, ScanBehindRow, Alive, InTable
  <1> QED BY <1>5, <1>6 DEF ScanLockInv

LEMMA ScanCrashKeeps == ASSUME ScanLockInv, ScanCrash PROVE ScanLockInv' /\ \A k \in TaskIds : ~Alive(k)'
  <1>1. \A k \in TaskIds : scanTask'[k] = IF Alive(k) THEN ScanOver ELSE scanTask[k]
    BY DEF ScanCrash, ScanOver
  <1>2. /\ UNCHANGED <<onDisk, present, fileRows, scanRow, undisturbed>> /\ scanTable' = NoScan
        /\ call' = [c \in ScanCallers |-> NoCall]
        /\ orphaned' = IF scanRow = "running" THEN orphaned \cup {"crash"} ELSE orphaned
    BY DEF ScanCrash
  <1>3. \A k \in TaskIds : scanTask'[k] \in ScanTasks /\ scanTask'[k].add \cap scanTask'[k].del = {}
    BY <1>1, ScanOverTyped, TaskFields DEF ScanLockInv
  <1>4. scanTask' \in [TaskIds -> ScanTasks]
    <2>1. scanTask' = [k \in TaskIds |-> scanTask'[k]]
      BY DEF ScanCrash
    <2> QED BY <1>3, <2>1
  <1>5. call' \in [ScanCallers -> ScanCalls]
    BY <1>2 DEF NoCall, ScanCalls
  <1>6. scanUsed' \in [tasks : Nat, edits : Nat, calls : Nat]
    BY ScanEditTyped DEF ScanCrash, ScanLockInv
  <1>7. ScanTypeOK'
    <2>1. \A k \in TaskIds : LET t == scanTask'[k] IN
            /\ t.pc \in TaskSteps /\ t.dir \in 0 .. Dirs /\ t.batch \in 0 .. Batch - 1
            /\ (t.todo \cup t.seen \cup t.add \cup t.del \cup t.kept) \subseteq Paths /\ t.listed \subseteq 0 .. Dirs
            /\ t.add \cap t.del = {}
      <3> SUFFICES ASSUME NEW k \in TaskIds
                   PROVE  LET t == scanTask'[k] IN
                     /\ t.pc \in TaskSteps /\ t.dir \in 0 .. Dirs /\ t.batch \in 0 .. Batch - 1
                     /\ (t.todo \cup t.seen \cup t.add \cup t.del \cup t.kept) \subseteq Paths /\ t.listed \subseteq 0 .. Dirs
                     /\ t.add \cap t.del = {}
        OBVIOUS
      <3> QED BY <1>3 DEF ScanTasks
    <2> QED BY <1>2, <2>1 DEF ScanLockInv, ScanShape, ScanTypeOK, TaskSteps
  <1>8. ScanShape'
    BY <1>2, <1>4, <1>5, <1>6, <1>7 DEF ScanLockInv, ScanShape
  <1>9. \A k \in TaskIds : ~Alive(k)'
    BY <1>1, ScanOverTyped DEF Alive
  <1>10. ScanOne'
    BY <1>9 DEF ScanOne
  <1>11. ScanBlank'
    BY <1>1, ScanOverTyped DEF ScanBlank, ScanLockInv, Alive
  <1>12. ScanBehindRow'
    BY <1>2 DEF ScanBehindRow
  <1> QED BY <1>8, <1>9, <1>10, <1>11, <1>12 DEF ScanLockInv

LEMMA ScanLockStutter == ASSUME ScanLockInv, UNCHANGED scanVars PROVE ScanLockInv'
  <1>1. UNCHANGED <<onDisk, present, fileRows, scanRow, scanTable, scanTask, call, scanUsed, undisturbed, orphaned>>
    BY DEF scanVars
  <1> QED BY <1>1 DEF ScanLockInv, ScanShape, ScanTypeOK, ScanOne, ScanBlank, ScanBehindRow, Alive, InTable

LEMMA ScanLockStep == ASSUME ScanLockInv, [ScanNext]_scanVars PROVE ScanLockInv'
  <1>1. CASE UNCHANGED scanVars
    BY <1>1, ScanLockStutter
  <1>2. CASE \E c \in ScanCallers :
          \/ \E kind \in {"start", "stop", "delete"} : Request(c, kind)
          \/ ReadRow(c) \/ AcquireLock(c) \/ RequestRaises(c) \/ CreateTask(c)
          \/ StopReads(c) \/ StopWrites(c) \/ StopCancels(c) \/ StopWaits(c) \/ DeleteData(c)
    BY <1>2, ScanRequestKeeps, ScanReadKeeps, ScanAcquireKeeps, ScanRequestRaisesKeeps, ScanCreateKeeps, ScanStopReadKeeps, ScanStopWriteKeeps,
       ScanCancelKeeps, ScanStopWaitKeeps, ScanDeleteKeeps
  <1>3. CASE \E k \in TaskIds : TaskStep(k)
    BY <1>3, ScanAssertKeeps, ScanFileKeeps, ScanMissingKeeps, ScanFlushKeeps, ScanExcludedKeeps, ScanRaiseKeeps, ScanFinishKeeps, ScanFinishRaisesKeeps,
       ScanEndKeeps DEF TaskStep
  <1>4. CASE EditDisk
    BY <1>4, ScanEditKeeps
  <1>5. CASE ScanCrash
    BY <1>5, ScanCrashKeeps
  <1> QED BY <1>1, <1>2, <1>3, <1>4, <1>5 DEF ScanNext

\* The status row is the lock of the scans: one at a time, the one stop_scan
\* finds, and a running row has a scan behind it, or a request about to start
\* one, or was orphaned in a known way (create_scan_task, stop_scan, _run_scan).
THEOREM ScanIsLocked == ScanSpec => []ScanLock
  <1>1. ScanSpec => []ScanLockInv
    BY ScanLockInit, ScanLockStep, PTL DEF ScanSpec
  <1>2. ScanLockInv => ScanLock
    BY DEF ScanLockInv, ScanShape, ScanLock
  <1> QED BY <1>1, <1>2, PTL

\* Up to a directory the rows of the directories that exist, with those still
\* to be committed, are the files on disk, and the batch counts them.
WalkedTo(t, d) == \A p \in Code : DirOf[p] <= d /\ DirOf[p] \in present => (p \in Committed(t) <=> p \in onDisk)
FilesTo(d) == {p \in onDisk : DirOf[p] <= d}
RowsBut(table, others) ==
    /\ onDisk \subseteq table
    /\ Cardinality(onDisk) % Batch # 0 => \A p \in table \ onDisk : DirOf[p] \notin present \/ p \in others

Walk(t) ==
    /\ t.pc \in {"new", "dir", "flush"} =>
         /\ WalkedTo(t, t.dir) /\ Cardinality(FilesTo(t.dir)) % Batch = t.batch
         /\ t.batch = 0 => t.add = {}
    /\ t.pc \in {"dir", "flush", "files", "excluded"} => t.listed = present
    /\ t.pc = "flush" => \A d \in present : ~(d > t.dir)
    /\ t.pc = "files" =>
         /\ t.dir >= 1 /\ t.dir \in present /\ WalkedTo(t, t.dir - 1)
         /\ t.todo \cup t.seen = FilesIn(t.dir) /\ t.todo \cap t.seen = {}
         /\ t.seen \subseteq Committed(t)
         /\ Cardinality(FilesTo(t.dir - 1) \cup t.seen) % Batch = t.batch
         /\ t.batch = 0 => t.add = {}
    /\ t.pc = "excluded" => RowsBut(fileRows \cap Code, {})
    /\ t.pc = "finish completed" => RowsBut(fileRows, t.kept)

ScanRowsInv == ScanLockInv /\ \A k \in TaskIds : undisturbed[k] => Walk(scanTask[k])

LEMMA Divided == ASSUME NEW n \in Nat, NEW m \in Nat \ {0}
  PROVE n \div m \in Nat /\ n % m \in 0 .. m - 1 /\ n = m * (n \div m) + (n % m)
  <1>1. n \div m \in Int /\ n % m \in 0 .. m - 1
    OBVIOUS
  <1>2. n = m * (n \div m) + (n % m)
    OBVIOUS
  <1>3. n \div m >= 0
    <2>1. PICK q \in Int, r \in 0 .. m - 1 : q = n \div m /\ r = n % m /\ n = m * q + r
      BY <1>1, <1>2
    <2>2. ASSUME q < 0 PROVE FALSE
      <3>1. m * q <= m * (0 - 1)
        BY <2>2
      <3>2. m * (0 - 1) = 0 - m /\ m * q \in Int
        OBVIOUS
      <3> QED BY <2>1, <3>1, <3>2
    <2> QED BY <2>1, <2>2
  <1> QED BY <1>1, <1>2, <1>3

LEMMA OneRemainder == ASSUME NEW m \in Nat \ {0}, NEW p \in Nat, NEW q \in Nat, NEW r \in 0 .. m - 1, NEW s \in 0 .. m - 1, m * p + r = m * q + s
  PROVE r = s
  <1>1. CASE p = q
    <2>1. PICK x \in Nat : x = m * p /\ x = m * q
      BY <1>1
    <2> QED BY <2>1
  <1>2. CASE p < q
    <2>1. m * q >= m * (p + 1)
      BY <1>2
    <2>2. m * (p + 1) = m * p + m
      OBVIOUS
    <2>3. m * p \in Nat /\ m * q \in Nat
      OBVIOUS
    <2> QED BY <2>1, <2>2, <2>3
  <1>3. CASE q < p
    <2>1. m * p >= m * (q + 1)
      BY <1>3
    <2>2. m * (q + 1) = m * q + m
      OBVIOUS
    <2>3. m * p \in Nat /\ m * q \in Nat
      OBVIOUS
    <2> QED BY <2>1, <2>2, <2>3
  <1> QED BY <1>1, <1>2, <1>3

LEMMA ModNext ==
    ASSUME NEW n \in Nat, NEW m \in Nat \ {0}, NEW b \in Nat, n % m = b
    PROVE  (b + 1 < m => (n + 1) % m = b + 1) /\ (b + 1 = m => (n + 1) % m = 0)
  <1>1. PICK q \in Nat : n = m * q + b
    BY Divided
  <1>2. PICK p \in Nat, r \in 0 .. m - 1 : n + 1 = m * p + r /\ r = (n + 1) % m
    <2>1. PICK l \in Nat : l = n + 1
      OBVIOUS
    <2>2. l \div m \in Nat /\ l % m \in 0 .. m - 1 /\ l = m * (l \div m) + (l % m)
      BY Divided
    <2> QED BY <2>1, <2>2
  <1>4. m * q \in Nat /\ m * p \in Nat
    BY <1>1, <1>2
  <1>3. m * p + r = m * q + (b + 1)
    BY ONLY <1>1, <1>2, <1>4, b \in Nat, n \in Nat, m \in Nat
  <1>5. CASE b + 1 < m
    <2>1. b + 1 \in 0 .. m - 1
      BY <1>5
    <2>2. PICK s \in 0 .. m - 1 : s = b + 1
      BY <2>1
    <2>3. m * p + r = m * q + s
      BY <1>3, <2>2
    <2>4. r = s
      BY <2>3, OneRemainder
    <2> QED BY <1>2, <1>5, <2>2, <2>4
  <1>6. CASE b + 1 = m
    <2>1. m * q + m = m * (q + 1) + 0 /\ q + 1 \in Nat /\ 0 \in 0 .. m - 1
      BY <1>1
    <2>2. m * p + r = m * (q + 1) + 0
      BY <1>3, <1>6, <2>1
    <2>3. r = 0
      BY <1>2, <2>1, <2>2, OneRemainder
    <2> QED BY <1>2, <1>6, <2>3
  <1> QED BY <1>5, <1>6
LEMMA ModZero == ASSUME NEW m \in Nat \ {0} PROVE 0 % m = 0
  BY SMT

LEMMA DiskFinite == ASSUME ScanLockInv PROVE IsFiniteSet(onDisk) /\ onDisk \subseteq Code
  <1>1. IsFiniteSet(Paths) /\ onDisk \subseteq Paths /\ onDisk \subseteq Code
    BY ScanAssumption DEF ScanAssumption, ScanLockInv, ScanShape, ScanTypeOK
  <1> QED BY <1>1, FS_Subset

LEMMA WalkIdle == ASSUME NEW t, t.pc \notin {"new", "dir", "flush", "files", "excluded", "finish completed"} PROVE Walk(t)
  BY DEF Walk

\* Where nothing happens to disk, rows and a task, it walks as before.
LEMMA WalkStays ==
    ASSUME NEW k \in TaskIds, UNCHANGED <<onDisk, present, fileRows>>, scanTask'[k] = scanTask[k], Walk(scanTask[k])
    PROVE  Walk(scanTask[k])'
  BY DEF Walk, WalkedTo, FilesTo, FilesIn, RowsBut, Committed

LEMMA WalkNow ==
    ASSUME NEW k \in TaskIds, NEW u, UNCHANGED <<onDisk, present, fileRows>>, scanTask'[k] = u, Walk(u)
    PROVE  Walk(scanTask[k])'
  <1>1. /\ WalkedTo(u, u.dir) => WalkedTo(scanTask[k], scanTask[k].dir)'
        /\ WalkedTo(u, u.dir - 1) => WalkedTo(scanTask[k], scanTask[k].dir - 1)'
    BY DEF WalkedTo, Committed
  <1>2. /\ FilesTo(u.dir) = FilesTo(scanTask[k].dir)' /\ FilesTo(u.dir - 1) = FilesTo(scanTask[k].dir - 1)'
        /\ FilesIn(u.dir) = FilesIn(scanTask[k].dir)' /\ Committed(u) = Committed(scanTask[k])'
        /\ RowsBut(fileRows, u.kept) => RowsBut(fileRows, scanTask[k].kept)'
        /\ RowsBut(fileRows \cap Code, {}) => RowsBut(fileRows \cap Code, {})'
    BY DEF FilesTo, FilesIn, Committed, RowsBut
  <1> HIDE DEF WalkedTo, FilesTo, FilesIn, Committed, RowsBut
  <1> QED BY <1>1, <1>2 DEF Walk

\* The step of one task leaves the others alone: they do not run.
LEMMA OneWalks ==
    ASSUME ScanRowsInv, ScanLockInv', NEW k \in TaskIds, Alive(k), NEW u, TaskTo(k, u), UNCHANGED undisturbed,
           undisturbed[k] => Walk(scanTask[k])'
    PROVE  ScanRowsInv'
  <1> SUFFICES ASSUME NEW j \in TaskIds, undisturbed[j], j # k PROVE Walk(scanTask[j])'
    BY DEF ScanRowsInv
  <1>1. scanTask[j].pc \in {"none", "over"}
    BY DEF ScanRowsInv, ScanLockInv, ScanOne, Alive
  <1>2. scanTask'[j] = scanTask[j]
    BY DEF TaskTo, ScanRowsInv, ScanLockInv, ScanShape
  <1> QED BY <1>1, <1>2 DEF Walk

LEMMA ScanRowsStutter ==
    ASSUME ScanRowsInv, ScanLockInv', UNCHANGED <<onDisk, present, fileRows, scanTask, undisturbed>>
    PROVE  ScanRowsInv'
  <1> SUFFICES ASSUME NEW k \in TaskIds, undisturbed[k] PROVE Walk(scanTask[k])'
    BY DEF ScanRowsInv
  <1> QED BY WalkStays DEF ScanRowsInv

\* Where disk or rows change by themselves, no task is left undisturbed.
LEMMA DisturbedRows ==
    ASSUME ScanRowsInv, ScanLockInv', Disturbed, UNCHANGED scanTask
    PROVE  ScanRowsInv'
  <1> SUFFICES ASSUME NEW k \in TaskIds, undisturbed'[k] PROVE Walk(scanTask[k])'
    BY DEF ScanRowsInv
  <1>1. scanTask'[k].pc \in {"none", "over"}
    BY DEF Disturbed, Alive
  <1> QED BY <1>1 DEF Walk

LEMMA WalkBegins ==
    ASSUME ScanLockInv, NEW t, t.pc = "new", t.dir = 0, t.batch = 0, t.add = {}
    PROVE  Walk(t)
  <1>1. FilesTo(0) = {}
    BY DiskFinite, ScanFacts DEF FilesTo
  <1>2. Cardinality(FilesTo(0)) % Batch = 0
    BY <1>1, FS_EmptySet, ModZero, ScanFacts
  <1>3. WalkedTo(t, 0)
    BY ScanFacts DEF WalkedTo
  <1> QED BY <1>2, <1>3 DEF Walk

LEMMA ScanRowsRequest ==
    ASSUME ScanRowsInv, ScanLockInv', NEW c \in ScanCallers,
           \/ \E kind \in {"start", "stop", "delete"} : Request(c, kind)
           \/ ReadRow(c) \/ AcquireLock(c) \/ RequestRaises(c) \/ StopReads(c) \/ StopWrites(c) \/ StopWaits(c)
    PROVE  ScanRowsInv'
  <1>1. UNCHANGED <<onDisk, present, fileRows, scanTask, undisturbed>>
    BY DEF Request, ReadRow, AcquireLock, RequestRaises, StopReads, StopWrites, StopWaits, KeepFiles
  <1> QED BY <1>1, ScanRowsStutter

LEMMA ScanRowsCreate ==
    ASSUME ScanRowsInv, ScanLockInv', NEW c \in ScanCallers, CreateTask(c)
    PROVE  ScanRowsInv'
  <1>1. UNCHANGED <<onDisk, present, fileRows, undisturbed>>
    BY DEF CreateTask, KeepFiles
  <1>2. CASE InTable
    BY <1>1, <1>2, ScanRowsStutter DEF CreateTask
  <1>3. CASE ~InTable
    <2>1. \A j \in TaskIds : ~Alive(j)
      BY <1>3, ScanFacts DEF InTable, ScanRowsInv, ScanLockInv, ScanOne
    <2>2. PICK i : i = scanUsed.tasks + 1
      OBVIOUS
    <2>3. scanTask' = [scanTask EXCEPT ![i].pc = "new"]
      BY <1>3, <2>2 DEF CreateTask
    <2> SUFFICES ASSUME NEW k \in TaskIds, undisturbed[k] PROVE Walk(scanTask[k])'
      BY <1>1 DEF ScanRowsInv
    <2>4. CASE k # i
      <3>1. scanTask'[k] = scanTask[k]
        BY <2>3, <2>4 DEF ScanRowsInv, ScanLockInv, ScanShape
      <3> QED BY <1>1, <3>1, WalkStays DEF ScanRowsInv
    <2>5. CASE k = i
      <3>1. PICK t : t = scanTask'[k]
        OBVIOUS
      <3>2. scanTask[k] \in ScanTasks
        BY TaskFields DEF ScanRowsInv, ScanLockInv
      <3>3. t = [scanTask[k] EXCEPT !.pc = "new"]
        BY <2>3, <2>5, <3>1 DEF ScanRowsInv, ScanLockInv, ScanShape
      <3>4. scanTask[k].dir = 0 /\ scanTask[k].batch = 0 /\ scanTask[k].add = {}
        BY <2>1 DEF ScanRowsInv, ScanLockInv, ScanBlank
      <3>5. t.pc = "new" /\ t.dir = 0 /\ t.batch = 0 /\ t.add = {}
        BY <3>2, <3>3, <3>4 DEF ScanTasks
      <3>6. Walk(t)
        BY <3>5, WalkBegins DEF ScanRowsInv
      <3> QED BY <1>1, <3>1, <3>6, WalkNow
    <2> QED BY <2>4, <2>5
  <1> QED BY <1>2, <1>3

LEMMA ScanRowsCancel ==
    ASSUME ScanRowsInv, ScanLockInv', NEW c \in ScanCallers, StopCancels(c)
    PROVE  ScanRowsInv'
  <1>1. UNCHANGED <<onDisk, present, fileRows, undisturbed>>
    BY DEF StopCancels, KeepFiles
  <1>2. CASE ~InTable
    BY <1>1, <1>2, ScanRowsStutter DEF StopCancels
  <1>3. CASE InTable
    <2>1. scanTask' = [scanTask EXCEPT ![scanTable].cancelled = TRUE]
      BY <1>3 DEF StopCancels
    <2> SUFFICES ASSUME NEW k \in TaskIds, undisturbed[k] PROVE Walk(scanTask[k])'
      BY <1>1 DEF ScanRowsInv
    <2>2. PICK t : t = scanTask[k]
      OBVIOUS
    <2>3. Walk(t) /\ t \in ScanTasks
      BY <2>2, TaskFields DEF ScanRowsInv, ScanLockInv
    <2>4. PICK u : u = scanTask'[k]
      OBVIOUS
    <2>5. u = t \/ u = [t EXCEPT !.cancelled = TRUE]
      BY <2>1, <2>2, <2>4 DEF ScanRowsInv, ScanLockInv, ScanShape
    <2>6. /\ u.pc = t.pc /\ u.dir = t.dir /\ u.todo = t.todo /\ u.seen = t.seen
          /\ u.batch = t.batch /\ u.add = t.add /\ u.del = t.del /\ u.listed = t.listed /\ u.kept = t.kept
      BY <2>3, <2>5 DEF ScanTasks
    <2> QED BY <1>1, <2>3, <2>4, <2>6 DEF Walk, WalkedTo, FilesTo, FilesIn, RowsBut, Committed
  <1> QED BY <1>2, <1>3

LEMMA ScanRowsAssert ==
    ASSUME ScanRowsInv, ScanLockInv', NEW k \in TaskIds, AssertRunning(k)
    PROVE  ScanRowsInv'
  <1>1. PICK t : t = scanTask[k]
    OBVIOUS
  <1>2. PICK u \in ScanTasks :
          /\ TaskTo(k, u) /\ u.batch = t.batch /\ u.add = t.add /\ u.del = t.del
          /\ u.listed = IF t.pc = "new" THEN present ELSE t.listed
          /\ \/ /\ u.pc = "files" /\ u.dir \in u.listed \cap present /\ u.dir > t.dir
                /\ u.todo = FilesIn(u.dir) /\ u.seen = {}
                /\ \A e \in u.listed \cap present : e > t.dir => u.dir <= e
             \/ u.pc = "flush" /\ u.dir = t.dir /\ \A e \in u.listed \cap present : ~(e > t.dir)
             \/ u.pc = "finish failed"
    BY <1>1, ScanAssertDoes DEF ScanRowsInv
  <1>3. Alive(k) /\ t.pc \in {"new", "dir"} /\ TaskOnly /\ fileRows' = fileRows
    BY <1>1 DEF AssertRunning, TaskIs, Alive
  <1>4. scanTask'[k] = u /\ t.dir \in Nat
    <2>1. scanTask'[k] = u
      BY <1>2 DEF TaskTo, ScanRowsInv, ScanLockInv, ScanShape
    <2>2. t.dir \in 0 .. Dirs
      BY <1>1, TaskFields DEF ScanRowsInv, ScanLockInv
    <2> QED BY <2>1, <2>2, ScanFacts
  <1>5. ASSUME undisturbed[k] PROVE Walk(u)
    <2>1. /\ WalkedTo(t, t.dir) /\ Cardinality(FilesTo(t.dir)) % Batch = t.batch
          /\ t.batch = 0 => t.add = {}
      BY <1>1, <1>3, <1>5 DEF ScanRowsInv, Walk
    <2>2. u.listed = present
      BY <1>1, <1>2, <1>3, <1>5 DEF ScanRowsInv, Walk
    <2>3. CASE /\ u.pc = "files" /\ u.dir \in u.listed \cap present /\ u.dir > t.dir
               /\ u.todo = FilesIn(u.dir) /\ u.seen = {}
               /\ \A e \in u.listed \cap present : e > t.dir => u.dir <= e
      <3>0. present \subseteq 0 .. Dirs /\ Dirs \in Nat /\ \A p \in onDisk : DirOf[p] \in present
        BY ScanFacts DEF ScanRowsInv, ScanLockInv, ScanShape, ScanTypeOK
      <3>1. u.dir \in Nat /\ u.dir >= 1 /\ u.dir \in present
        <4>1. u.dir \in present /\ u.dir \in 0 .. Dirs
          BY <2>3, <3>0
        <4>2. u.dir \in Nat
          BY <3>0, <4>1
        <4> QED BY <1>4, <2>3, <4>1, <4>2
      \* There is no directory between the one before and this one.
      <3>2. \A d \in present : d <= u.dir - 1 <=> d <= t.dir
        <4> SUFFICES ASSUME NEW d \in present PROVE d <= u.dir - 1 <=> d <= t.dir
          OBVIOUS
        <4>1. d \in Int /\ (d > t.dir => u.dir <= d)
          BY <2>2, <2>3, <3>0
        <4> QED BY <1>4, <2>3, <3>1, <4>1
      <3>3. FilesTo(u.dir - 1) = FilesTo(t.dir)
        BY <3>0, <3>2 DEF FilesTo
      <3>4. FilesTo(u.dir - 1) \cup u.seen = FilesTo(t.dir)
        BY <2>3, <3>3
      <3>5. WalkedTo(u, u.dir - 1)
        BY <1>2, <2>1, <3>2 DEF WalkedTo, Committed
      <3> QED BY <1>2, <2>1, <2>2, <2>3, <3>1, <3>4, <3>5 DEF Walk
    <2>4. CASE u.pc = "flush" /\ u.dir = t.dir /\ \A e \in u.listed \cap present : ~(e > t.dir)
      <3>1. WalkedTo(u, t.dir)
        BY <1>2, <2>1 DEF WalkedTo, Committed
      <3> QED BY <1>2, <2>1, <2>2, <2>4, <3>1 DEF Walk
    <2>5. CASE u.pc = "finish failed"
      BY <2>5 DEF Walk
    <2> QED BY <1>2, <2>3, <2>4, <2>5
  <1>6. undisturbed[k] => Walk(scanTask[k])'
    BY <1>3, <1>4, <1>5, WalkNow DEF TaskOnly
  <1> QED BY <1>2, <1>3, <1>6, OneWalks DEF TaskOnly

LEMMA ScanRowsFile ==
    ASSUME ScanRowsInv, ScanLockInv', NEW k \in TaskIds, ScanOneFile(k)
    PROVE  ScanRowsInv'
  <1>1. PICK t : t = scanTask[k]
    OBVIOUS
  <1>2. PICK u \in ScanTasks, p \in t.todo :
          /\ TaskTo(k, u) /\ u.pc = "files" /\ u.dir = t.dir /\ u.todo = t.todo \ {p} /\ u.listed = t.listed
          /\ \/ /\ p \notin onDisk /\ u.seen = t.seen /\ u.batch = t.batch
                /\ u.add = t.add \ {p} /\ u.del = t.del \cup {p} /\ fileRows' = fileRows
             \/ /\ p \in onDisk /\ u.seen = t.seen \cup {p} /\ t.batch + 1 < Batch /\ u.batch = t.batch + 1
                /\ u.add = t.add \cup {p} /\ u.del = t.del \ {p} /\ fileRows' = fileRows
             \/ /\ p \in onDisk /\ u.seen = t.seen \cup {p} /\ t.batch + 1 = Batch /\ u.batch = 0
                /\ u.add = {} /\ u.del = {}
                /\ fileRows' = (fileRows \cup (t.add \cup {p})) \ (t.del \ {p})
    BY <1>1, ScanFileDoes DEF ScanRowsInv
  <1>3. Alive(k) /\ t.pc = "files" /\ TaskOnly
    BY <1>1 DEF ScanOneFile, TaskIs, Alive
  <1>4. scanTask'[k] = u
    BY <1>2 DEF TaskTo, ScanRowsInv, ScanLockInv, ScanShape
  <1>5. t.dir \in Nat /\ t.batch \in Nat
    <2>1. t.dir \in 0 .. Dirs /\ t.batch \in 0 .. Batch - 1
      BY <1>1, TaskFields DEF ScanRowsInv, ScanLockInv
    <2> QED BY <2>1, ScanFacts
  <1>6. ASSUME undisturbed[k] PROVE Walk(scanTask[k])'
    <2>1. /\ t.dir >= 1 /\ t.dir \in present /\ t.listed = present /\ WalkedTo(t, t.dir - 1)
          /\ t.todo \cup t.seen = FilesIn(t.dir) /\ t.todo \cap t.seen = {}
          /\ t.seen \subseteq Committed(t)
          /\ Cardinality(FilesTo(t.dir - 1) \cup t.seen) % Batch = t.batch
          /\ t.batch = 0 => t.add = {}
      BY <1>1, <1>3, <1>6 DEF ScanRowsInv, Walk
    <2>2. p \in onDisk /\ DirOf[p] = t.dir /\ p \notin t.seen
      BY <1>2, <2>1 DEF FilesIn
    <2>3. p \notin FilesTo(t.dir - 1)
      BY <1>5, <2>2 DEF FilesTo
    <2>4. UNCHANGED <<onDisk, present>>
      BY <1>3 DEF TaskOnly
    <2>5. PICK met : met = FilesTo(t.dir - 1) \cup t.seen
      OBVIOUS
    <2>6. met \subseteq onDisk /\ IsFiniteSet(met) /\ p \notin met
      <3>1. met \subseteq onDisk
        BY <2>1, <2>5 DEF FilesTo, FilesIn
      <3> QED BY <2>2, <2>3, <2>5, <3>1, DiskFinite, FS_Subset DEF ScanRowsInv
    <2>7. Cardinality(met) \in Nat /\ Cardinality(met \cup {p}) = Cardinality(met) + 1
      BY <2>6, FS_CardinalityType, FS_AddElement
    <2>8. Cardinality(met) % Batch = t.batch
      BY <2>1, <2>5
    <2>9. /\ t.batch + 1 < Batch => Cardinality(met \cup {p}) % Batch = t.batch + 1
          /\ t.batch + 1 = Batch => Cardinality(met \cup {p}) % Batch = 0
      <3>1. PICK n \in Nat : n = Cardinality(met)
        BY <2>7
      <3> QED BY <1>5, <2>7, <2>8, <3>1, ModNext, ScanFacts
    <2>10. PICK table : table = (fileRows' \cup u.add) \ u.del
      OBVIOUS
    <2>11. table = Committed(t) \cup {p} /\ u.seen = t.seen \cup {p} /\ (u.batch = 0 => u.add = {})
          /\ u.batch = IF t.batch + 1 < Batch THEN t.batch + 1 ELSE 0
      <3>1. t.add \cap t.del = {}
        BY <1>1, TaskFields DEF ScanRowsInv, ScanLockInv
      <3>2. CASE /\ u.seen = t.seen \cup {p} /\ t.batch + 1 < Batch /\ u.batch = t.batch + 1
                 /\ u.add = t.add \cup {p} /\ u.del = t.del \ {p} /\ fileRows' = fileRows
        <4>1. table = Committed(t) \cup {p}
          BY <2>10, <3>1, <3>2 DEF Committed
        <4>2. u.batch # 0
          BY <1>5, <3>2
        <4> QED BY <3>2, <4>1, <4>2
      <3>3. CASE /\ u.seen = t.seen \cup {p} /\ t.batch + 1 = Batch /\ u.batch = 0
                 /\ u.add = {} /\ u.del = {}
                 /\ fileRows' = (fileRows \cup (t.add \cup {p})) \ (t.del \ {p})
        <4>1. table = Committed(t) \cup {p}
          BY <2>10, <3>1, <3>3 DEF Committed
        <4> QED BY <3>3, <4>1, <1>5
      <3> QED BY <1>2, <2>2, <3>2, <3>3
    <2>12. Committed(scanTask[k])' = table
      BY <1>4, <2>10 DEF Committed
    <2>20. /\ scanTask'[k].dir >= 1 /\ scanTask'[k].dir \in present' /\ scanTask'[k].listed = present'
      BY <1>2, <1>4, <2>1, <2>4
    <2>13. WalkedTo(scanTask[k], scanTask[k].dir - 1)'
      <3>1. \A q \in Code : DirOf[q] <= t.dir - 1 => q # p
        BY <1>5, <2>2
      <3> QED BY <1>2, <1>4, <2>1, <2>4, <2>11, <2>12, <3>1 DEF WalkedTo
    <2>14. FilesTo(t.dir - 1)' = FilesTo(t.dir - 1) /\ FilesIn(t.dir)' = FilesIn(t.dir)
      BY <2>4 DEF FilesTo, FilesIn
    <2>15. FilesTo(scanTask[k].dir - 1)' = FilesTo(t.dir - 1) /\ FilesIn(scanTask[k].dir)' = FilesIn(t.dir)
      BY <1>2, <1>4, <2>4 DEF FilesTo, FilesIn
    <2>16. u.todo \cup u.seen = FilesIn(t.dir) /\ u.todo \cap u.seen = {}
      BY <1>2, <2>1, <2>2, <2>11
    <2>17. FilesTo(t.dir - 1) \cup u.seen = met \cup {p}
      BY <2>5, <2>11
    <2>18. u.seen \subseteq table
      BY <2>1, <2>11
    <2>19. Cardinality(FilesTo(t.dir - 1) \cup u.seen) % Batch = u.batch
      <3>1. t.batch + 1 < Batch \/ t.batch + 1 = Batch
        BY <1>2, <2>2
      <3> QED BY <1>5, <2>9, <2>11, <2>17, <3>1, ScanFacts
    <2> QED BY <1>2, <1>4, <2>1, <2>11, <2>12, <2>13, <2>15, <2>16, <2>18, <2>19, <2>20 DEF Walk
  <1> QED BY <1>2, <1>3, <1>6, OneWalks DEF TaskOnly

LEMMA ScanRowsMissing ==
    ASSUME ScanRowsInv, ScanLockInv', NEW k \in TaskIds, DeleteMissing(k)
    PROVE  ScanRowsInv'
  <1>1. PICK t, missing : t = scanTask[k] /\ missing = RowsIn(t, t.dir) \ t.seen
    OBVIOUS
  <1>2. PICK u \in ScanTasks :
           /\ TaskTo(k, u) /\ u.pc = "dir" /\ u.dir = t.dir
           /\ u.batch = t.batch /\ u.add = t.add \ missing /\ u.del = t.del \cup missing
           /\ u.listed = t.listed
    BY <1>1, ScanMissingDoes DEF ScanRowsInv
  <1>3. Alive(k) /\ t.pc = "files" /\ t.todo = {} /\ TaskOnly /\ fileRows' = fileRows
    BY <1>1 DEF DeleteMissing, TaskIs, Alive
  <1>4. scanTask'[k] = u
    BY <1>2 DEF TaskTo, ScanRowsInv, ScanLockInv, ScanShape
  <1>5. t.dir \in Nat
    <2>1. t.dir \in 0 .. Dirs
      BY <1>1, TaskFields DEF ScanRowsInv, ScanLockInv
    <2> QED BY <2>1, ScanFacts
  <1>6. ASSUME undisturbed[k] PROVE Walk(u)
    <2>1. /\ t.dir >= 1 /\ t.listed = present /\ WalkedTo(t, t.dir - 1)
          /\ t.todo \cup t.seen = FilesIn(t.dir) /\ t.seen \subseteq Committed(t)
          /\ Cardinality(FilesTo(t.dir - 1) \cup t.seen) % Batch = t.batch
          /\ t.batch = 0 => t.add = {}
      BY <1>1, <1>3, <1>6 DEF ScanRowsInv, Walk
    <2>2. t.seen = FilesIn(t.dir)
      BY <1>3, <2>1
    <2>3. \A p \in Code : DirOf[p] \in Nat
      BY ScanFacts
    <2>4. FilesTo(t.dir - 1) \cup t.seen = FilesTo(t.dir)
      <3>1. onDisk \subseteq Code
        BY DiskFinite DEF ScanRowsInv
      <3> QED BY <1>5, <2>2, <2>3, <3>1 DEF FilesTo, FilesIn
    <2>5. Committed(u) = Committed(t) \ missing
      BY <1>2 DEF Committed
    <2>6. WalkedTo(u, t.dir)
      <3> SUFFICES ASSUME NEW p \in Code, DirOf[p] <= t.dir, DirOf[p] \in present PROVE p \in Committed(u) <=> p \in onDisk
        BY DEF WalkedTo
      <3>1. CASE DirOf[p] = t.dir
        <4>1. p \in missing <=> p \in Committed(t) /\ p \notin t.seen
          BY <1>1, <3>1, ScanFacts DEF RowsIn
        <4>2. p \in t.seen <=> p \in onDisk
          BY <2>2, <3>1 DEF FilesIn
        <4> QED BY <2>1, <2>5, <4>1, <4>2
      <3>2. CASE DirOf[p] <= t.dir - 1
        <4>1. p \notin missing
          BY <1>1, <1>5, <2>3, <3>2 DEF RowsIn
        <4>2. p \in Committed(t) <=> p \in onDisk
          BY <2>1, <3>2 DEF WalkedTo
        <4> QED BY <2>5, <4>1, <4>2
      <3> QED BY <1>5, <2>3, <3>1, <3>2
    <2> QED BY <1>2, <2>1, <2>4, <2>6 DEF Walk
  <1>7. undisturbed[k] => Walk(scanTask[k])'
    BY <1>3, <1>4, <1>6, WalkNow DEF TaskOnly
  <1> QED BY <1>2, <1>3, <1>7, OneWalks DEF TaskOnly

LEMMA ScanRowsFlush ==
    ASSUME ScanRowsInv, ScanLockInv', NEW k \in TaskIds, Flush(k)
    PROVE  ScanRowsInv'
  <1>1. PICK t : t = scanTask[k]
    OBVIOUS
  <1>2. PICK u \in ScanTasks : TaskTo(k, u) /\ u.pc = "excluded" /\ u.listed = t.listed
    BY <1>1, ScanFlushDoes DEF ScanRowsInv
  <1>3. /\ fileRows' = IF t.batch > 0 THEN Committed(t) ELSE fileRows
        /\ Alive(k) /\ t.pc = "flush" /\ TaskOnly
    BY <1>1, ScanFlushDoes DEF TaskIs, Alive, ScanRowsInv
  <1>4. scanTask'[k] = u
    BY <1>2 DEF TaskTo, ScanRowsInv, ScanLockInv, ScanShape
  <1>5. t.batch \in Nat /\ t.dir \in Nat
    <2>1. t.batch \in 0 .. Batch - 1 /\ t.dir \in 0 .. Dirs
      BY <1>1, TaskFields DEF ScanRowsInv, ScanLockInv
    <2> QED BY <2>1, ScanFacts
  <1>6. ASSUME undisturbed[k] PROVE Walk(scanTask[k])'
    <2>1. /\ WalkedTo(t, t.dir) /\ Cardinality(FilesTo(t.dir)) % Batch = t.batch
          /\ t.batch = 0 => t.add = {} /\ t.listed = present
          /\ \A d \in present : ~(d > t.dir)
      BY <1>1, <1>3, <1>6 DEF ScanRowsInv, Walk
    <2>0. t.listed = present
      BY <1>1, <1>3, <1>6 DEF ScanRowsInv, Walk
    <2>2. onDisk \subseteq Code /\ onDisk' = onDisk /\ present' = present
      BY <1>3, DiskFinite DEF ScanRowsInv, TaskOnly
    <2>3. \A d \in present : d <= t.dir
      <3>1. present \subseteq 0 .. Dirs
        BY DEF ScanRowsInv, ScanLockInv, ScanShape, ScanTypeOK
      <3> QED BY <1>5, <2>1, <3>1
    <2>4. FilesTo(t.dir) = onDisk
      <3>1. \A p \in onDisk : DirOf[p] \in present
        BY DEF ScanRowsInv, ScanLockInv, ScanShape, ScanTypeOK
      <3> QED BY <2>3, <3>1 DEF FilesTo
    <2>5. \A p \in Code : DirOf[p] \in present => (p \in Committed(t) <=> p \in onDisk)
      BY <2>1, <2>3 DEF WalkedTo
    <2>8. onDisk \subseteq Committed(t)
      <3>1. \A p \in onDisk : DirOf[p] \in present
        BY DEF ScanRowsInv, ScanLockInv, ScanShape, ScanTypeOK
      <3> QED BY <2>2, <2>5, <3>1
    <2>6. CASE t.batch > 0
      <3>1. fileRows' = Committed(t)
        BY <1>3, <2>6
      <3>2. RowsBut(fileRows \cap Code, {})'
        BY <2>2, <2>5, <2>8, <3>1 DEF RowsBut
      <3> QED BY <1>2, <1>4, <2>0, <2>2, <3>2 DEF Walk
    <2>7. CASE t.batch = 0
      <3>1. fileRows' = fileRows /\ Committed(t) \subseteq fileRows
        BY <1>3, <2>1, <2>7 DEF Committed
      <3>2. onDisk \subseteq fileRows /\ Cardinality(onDisk) % Batch = 0
        BY <2>1, <2>4, <2>7, <2>8, <3>1
      <3>3. RowsBut(fileRows \cap Code, {})'
        BY <2>2, <3>1, <3>2 DEF RowsBut
      <3> QED BY <1>2, <1>4, <2>0, <2>2, <3>3 DEF Walk
    <2> QED BY <1>5, <2>6, <2>7
  <1> QED BY <1>2, <1>3, <1>6, OneWalks DEF TaskOnly

LEMMA ScanRowsExcluded ==
    ASSUME ScanRowsInv, ScanLockInv', NEW k \in TaskIds, DeleteExcluded(k)
    PROVE  ScanRowsInv'
  <1>1. PICK t, under : t = scanTask[k] /\ under = IF 0 \in t.listed THEN {p \in fileRows : DirOf[p] = 0} ELSE {}
    OBVIOUS
  <1>2. PICK u \in ScanTasks :
          /\ TaskTo(k, u) /\ u.pc = "finish completed" /\ u.kept \subseteq under
          /\ fileRows' = (fileRows \ under) \cup u.kept
    BY <1>1, ScanExcludedDoes DEF ScanRowsInv
  <1>3. Alive(k) /\ t.pc = "excluded" /\ UNCHANGED <<onDisk, present, undisturbed>>
    BY <1>1 DEF DeleteExcluded, TaskIs, Alive
  <1>4. scanTask'[k] = u
    BY <1>2 DEF TaskTo, ScanRowsInv, ScanLockInv, ScanShape
  <1>5. ASSUME undisturbed[k] PROVE Walk(scanTask[k])'
    <2>1. RowsBut(fileRows \cap Code, {}) /\ t.listed = present
      BY <1>1, <1>3, <1>5 DEF ScanRowsInv, Walk
    <2>2. fileRows \subseteq Paths /\ onDisk \subseteq Code
      BY ScanRowsStay, DiskFinite DEF ScanRowsInv
    <2>3. onDisk \subseteq fileRows'
      <3>1. \A p \in under : p \notin Code
        BY <1>1 DEF Code
      <3> QED BY <1>2, <2>1, <2>2, <3>1 DEF RowsBut
    <2>4. ASSUME Cardinality(onDisk) % Batch # 0, NEW p \in fileRows' \ onDisk, DirOf[p] \in present
          PROVE  p \in u.kept
      <3>1. CASE p \in Code
        BY <1>1, <1>2, <2>1, <2>4, <3>1 DEF RowsBut, Code
      <3>2. CASE p \notin Code
        <4>1. p \in fileRows /\ p \in Paths
          BY <1>1, <1>2, <2>2
        <4>2. DirOf[p] = 0
          BY <3>2, <4>1 DEF Code
        <4>3. p \in under
          BY <1>1, <2>1, <2>4, <4>1, <4>2
        <4> QED BY <1>2, <4>3
      <3> QED BY <3>1, <3>2
    <2>5. RowsBut(fileRows, scanTask[k].kept)'
      BY <1>3, <1>4, <2>3, <2>4 DEF RowsBut
    <2> QED BY <1>2, <1>4, <2>5 DEF Walk
  <1> QED BY <1>2, <1>3, <1>5, OneWalks

LEMMA ScanRowsNoWalk ==
    ASSUME ScanRowsInv, ScanLockInv', NEW k \in TaskIds, TaskRaises(k) \/ FinishTask(k) \/ FinishRaises(k) \/ TaskEnds(k)
    PROVE  ScanRowsInv'
  <1>1. PICK u : TaskTo(k, u) /\ UNCHANGED undisturbed
    BY DEF TaskRaises, FinishTask, FinishRaises, TaskEnds
  <1>2. scanTask'[k].pc \in {"finish failed", "finally", "none", "over"}
    BY ScanRaiseKeeps, ScanFinishKeeps, ScanFinishRaisesKeeps, ScanEndKeeps DEF ScanRowsInv, Alive
  <1>3. Alive(k)
    BY DEF TaskRaises, FinishTask, FinishRaises, TaskEnds, TaskIs, Alive
  <1>4. Walk(scanTask[k])'
    BY <1>2 DEF Walk
  <1> QED BY <1>1, <1>3, <1>4, OneWalks

LEMMA ScanRowsInit == ScanInit => ScanRowsInv
  <1> SUFFICES ASSUME ScanInit PROVE ScanRowsInv
    OBVIOUS
  <1>1. \A k \in TaskIds : scanTask[k].pc = "none"
    BY NoTaskTyped DEF ScanInit
  <1>2. \A k \in TaskIds : Walk(scanTask[k])
    BY <1>1 DEF Walk
  <1> QED BY <1>2, ScanLockInit DEF ScanRowsInv

LEMMA ScanRowsStep == ASSUME ScanRowsInv, [ScanNext]_scanVars PROVE ScanRowsInv'
  <1>0. ScanLockInv'
    BY ScanLockStep DEF ScanRowsInv
  <1>1. CASE UNCHANGED scanVars
    BY <1>0, <1>1, ScanRowsStutter DEF scanVars
  <1>2. ASSUME NEW c \in ScanCallers,
          \/ \E kind \in {"start", "stop", "delete"} : Request(c, kind)
          \/ ReadRow(c) \/ AcquireLock(c) \/ RequestRaises(c) \/ CreateTask(c)
          \/ StopReads(c) \/ StopWrites(c) \/ StopCancels(c) \/ StopWaits(c) \/ DeleteData(c)
        PROVE ScanRowsInv'
    <2>1. CASE \/ \E kind \in {"start", "stop", "delete"} : Request(c, kind)
               \/ ReadRow(c) \/ AcquireLock(c) \/ RequestRaises(c) \/ StopReads(c) \/ StopWrites(c) \/ StopWaits(c)
      BY <1>0, <2>1, ScanRowsRequest
    <2>2. CASE CreateTask(c)
      BY <1>0, <2>2, ScanRowsCreate
    <2>3. CASE StopCancels(c)
      BY <1>0, <2>3, ScanRowsCancel
    <2>4. CASE DeleteData(c)
      BY <1>0, <2>4, DisturbedRows DEF DeleteData
    <2> QED BY <1>2, <2>1, <2>2, <2>3, <2>4
  <1>3. CASE \E k \in TaskIds : TaskStep(k)
    BY <1>0, <1>3, ScanRowsAssert, ScanRowsFile, ScanRowsMissing, ScanRowsFlush, ScanRowsExcluded, ScanRowsNoWalk DEF TaskStep
  <1>4. CASE EditDisk
    BY <1>0, <1>4, DisturbedRows DEF EditDisk
  <1>5. CASE ScanCrash
    <2>1. \A k \in TaskIds : scanTask'[k].pc \in {"none", "over"}
      BY <1>5, ScanCrashKeeps DEF ScanRowsInv, Alive
    <2>2. \A k \in TaskIds : Walk(scanTask[k])'
      BY <2>1 DEF Walk
    <2> QED BY <1>0, <2>2 DEF ScanRowsInv
  <1> QED BY <1>1, <1>2, <1>3, <1>4, <1>5 DEF ScanNext

\* Scans are locked, and a scan that nothing interfered with leaves a row for
\* every code file, wherever its commits fall; and others only in directories that
\* were removed, where a deletion failed, or behind a last commit (_run_scan).
THEOREM ScansAreSound == ScanSpec => []ScanSound
  <1>1. ScanSpec => []ScanRowsInv
    BY ScanRowsInit, ScanRowsStep, PTL DEF ScanSpec
  <1>2. ScanRowsInv => ScanSound
    BY DEF ScanRowsInv, ScanLockInv, ScanShape, ScanLock, Walk, RowsBut, ScanRowsExact, ScanSound
  <1> QED BY <1>1, <1>2, PTL

-----------------------------------------------------------------------------
(***************************************************************************)
(* The clients of language servers: tools get the server of a root, send   *)
(* it the file and ask it, while servers are started, die and are closed.  *)
(***************************************************************************)

LspAsks == [id : Nat, by : LspCallers]
LspStates == [proc : {"none", "alive", "dead", "killed"}, nextId : Nat, pending : SUBSET LspAsks,
              versions : Int, asked : SUBSET LspAsks, heard : Int, text : Nat, muddled : BOOLEAN]
LspSteps == {"none", "get", "spawn", "initialize", "register", "touch", "watched", "sent", "request", "await"}
SomeServer == Servers \cup {NoServer}
LspRecords == [pc : LspSteps, client : SomeServer, target : SomeServer, version : Int, text : Nat, id : Nat]

LspShape ==
    /\ lspServer \in [Servers -> LspStates] /\ lspCall \in [LspCallers -> LspRecords]
    /\ lspTable \in SomeServer /\ lspClosing \subseteq Servers /\ lspText \in Nat

\* Of a server: ids are given once, versions and texts are not ahead.
LspWire ==
    \A c \in Servers : LET s == lspServer[c] IN
        /\ s.versions >= -1 /\ s.heard >= -1 /\ (s.heard = -1 => s.versions = -1)
        /\ s.text <= lspText /\ s.asked \subseteq s.pending /\ s.nextId >= 1
        /\ \A p \in s.pending : 1 <= p.id /\ p.id < s.nextId
        /\ \A p, q \in s.pending : p.id = q.id => p = q

\* Of a call: the servers it has, by where it is.
LspWhere ==
    /\ lspTable # NoServer => lspServer[lspTable].proc # "none"
    /\ \A t \in LspCallers : LET r == lspCall[t] IN
        /\ r.pc \in {"initialize", "register"} => r.target \in Servers /\ lspServer[r.target].proc # "none"
        /\ r.pc \in {"touch", "watched", "sent", "request", "await"} => r.target \in Servers /\ r.client \in Servers
        /\ r.pc \in {"watched", "sent"} => r.version >= 0 /\ r.text <= lspText
        /\ r.pc = "sent" => lspServer[r.target].heard >= 0
        /\ r.client # NoServer => lspServer[r.client].proc # "none"

\* Unless two calls start servers at once, a call that starts one finds none,
\* and whatever runs has an owner.
LspOwned ==
    "start" \notin lspRaced =>
        /\ \A t, u \in Starting : t = u
        /\ Starting # {} /\ lspTable # NoServer => lspServer[lspTable].proc # "alive"
        /\ \A c \in Servers : lspServer[c].proc = "alive" =>
            \/ lspTable = c \/ c \in lspClosing
            \/ \E t \in LspCallers : lspCall[t].pc \in {"initialize", "register"} /\ lspCall[t].target = c

\* Unless two calls send the document of a server at once, its version is the
\* one the server has heard, or the one under way.
LspInOrder ==
    \A c \in Servers : c \notin lspRaced => LET s == lspServer[c] IN
        /\ ~s.muddled
        /\ \A t, u \in Sending(c) : t = u
        /\ \A t \in Sending(c) : lspCall[t].version = s.versions + 1
        /\ \A t \in Sending(c) : lspCall[t].pc = "watched" => s.heard = s.versions /\ lspCall[t].text >= s.text
        /\ \A t \in Sending(c) : lspCall[t].pc = "sent" => s.heard = lspCall[t].version
        /\ Sending(c) = {} => s.heard = s.versions
        /\ \A t \in LspCallers :
            lspCall[t].pc \in {"sent", "request", "await"} /\ lspCall[t].target = c => s.text >= lspCall[t].text

LspInv == LspShape /\ LspWire /\ LspWhere /\ LspOwned /\ LspInOrder /\ lspCrossed = {}

LEMMA Strangers == NoServer \notin Servers
BY LspAssumption DEF LspAssumption

LEMMA LspEmpty ==
    /\ NotStarted \in LspStates /\ NoLspCall \in LspRecords
    /\ NotStarted.proc = "none" /\ NotStarted.nextId = 1 /\ NotStarted.pending = {} /\ NotStarted.versions = -1
    /\ NotStarted.asked = {} /\ NotStarted.heard = -1 /\ NotStarted.text = 0 /\ NotStarted.muddled = FALSE
    /\ NoLspCall.pc = "none" /\ NoLspCall.client = NoServer
BY DEF NotStarted, LspStates, NoLspCall, LspRecords, SomeServer, LspSteps

LEMMA LspInitInv == LspInit => LspInv
<1> SUFFICES ASSUME LspInit PROVE LspInv
  OBVIOUS
<1>1. /\ \A c \in Servers : lspServer[c] = NotStarted
      /\ \A t \in LspCallers : lspCall[t] = NoLspCall
  BY DEF LspInit
<1>2. LspShape
  BY LspEmpty DEF LspInit, LspShape, SomeServer
<1>3. LspWire
  BY <1>1, LspEmpty DEF LspWire, LspInit
<1>4. LspWhere
  BY <1>1, LspEmpty DEF LspWhere, LspInit
<1>5. LspOwned
  BY <1>1, LspEmpty DEF LspOwned, LspInit, Starting
<1>6. LspInOrder
  BY <1>1, LspEmpty DEF LspInOrder, Sending
<1> QED BY <1>2, <1>3, <1>4, <1>5, <1>6 DEF LspInv, LspInit

LEMMA LspServes == LspInv => LspServed
<1> SUFFICES ASSUME LspInv PROVE LspServed
  OBVIOUS
<1>1. LspTypeOK
  <2>1. \A c \in Servers : LET s == lspServer[c] IN
        /\ s.proc \in {"none", "alive", "dead", "killed"}
        /\ s.heard = -1 => s.versions = -1
        /\ \A p \in s.pending \cup s.asked : p.id \in 1 .. s.nextId - 1 /\ p.by \in LspCallers
        /\ s.asked \subseteq s.pending
    <3> SUFFICES ASSUME NEW c \in Servers
                 PROVE LET s == lspServer[c] IN
                   /\ s.proc \in {"none", "alive", "dead", "killed"}
                   /\ s.heard = -1 => s.versions = -1
                   /\ \A p \in s.pending \cup s.asked : p.id \in 1 .. s.nextId - 1 /\ p.by \in LspCallers
                   /\ s.asked \subseteq s.pending
      OBVIOUS
    <3>1. PICK s : s = lspServer[c]
      OBVIOUS
    <3>2. s \in LspStates
      BY <3>1 DEF LspInv, LspShape
    <3>3. /\ s.proc \in {"none", "alive", "dead", "killed"} /\ s.nextId \in Nat
          /\ \A p \in s.pending : p.id \in Nat /\ p.by \in LspCallers
      BY <3>2 DEF LspStates, LspAsks
    <3>4. /\ s.heard = -1 => s.versions = -1
          /\ s.asked \subseteq s.pending
          /\ \A p \in s.pending : 1 <= p.id /\ p.id < s.nextId
      BY <3>1 DEF LspInv, LspWire
    <3> QED BY <3>1, <3>3, <3>4
  <2>2. \A t \in LspCallers : lspCall[t].pc \in LspSteps
    BY DEF LspInv, LspShape, LspRecords
  <2> QED BY <2>1, <2>2 DEF LspInv, LspShape, SomeServer, LspTypeOK, LspSteps
<1>2. LspNoOrphan
  BY DEF LspInv, LspOwned, LspNoOrphan, Starting
<1>3. LspVersionsRise
  BY DEF LspInv, LspInOrder, LspVersionsRise
<1>4. LspAsksCurrent
  BY DEF LspInv, LspInOrder, LspAsksCurrent, LspWhere
<1> QED BY <1>1, <1>2, <1>3, <1>4 DEF LspServed, LspOwnAnswer, LspInv

\* One server, or one call, changes.
LEMMA LspServerSet ==
    ASSUME LspShape, NEW c \in Servers, NEW s \in LspStates, lspServer' = [lspServer EXCEPT ![c] = s]
    PROVE  /\ lspServer' \in [Servers -> LspStates] /\ lspServer'[c] = s
           /\ \A d \in Servers : d # c => lspServer'[d] = lspServer[d]
BY DEF LspShape

LEMMA LspCallSet ==
    ASSUME LspShape, NEW t \in LspCallers, NEW r \in LspRecords, lspCall' = [lspCall EXCEPT ![t] = r]
    PROVE  /\ lspCall' \in [LspCallers -> LspRecords] /\ lspCall'[t] = r
           /\ \A u \in LspCallers : u # t => lspCall'[u] = lspCall[u]
BY DEF LspShape

LEMMA LspEndSet ==
    ASSUME LspShape, NEW t \in LspCallers, LspEnd(t)
    PROVE  /\ lspCall' \in [LspCallers -> LspRecords] /\ lspCall'[t].pc = "none" /\ lspCall'[t].client = NoServer
           /\ \A u \in LspCallers : u # t => lspCall'[u] = lspCall[u]
BY LspEmpty, LspCallSet DEF LspEnd

LEMMA LspGotoSet ==
    ASSUME LspShape, NEW t \in LspCallers, NEW pc \in LspSteps, LspGoto(t, pc)
    PROVE  /\ lspCall' \in [LspCallers -> LspRecords] /\ lspCall'[t].pc = pc
           /\ lspCall'[t].client = lspCall[t].client /\ lspCall'[t].target = lspCall[t].target
           /\ lspCall'[t].version = lspCall[t].version /\ lspCall'[t].text = lspCall[t].text
           /\ \A u \in LspCallers : u # t => lspCall'[u] = lspCall[u]
<1>1. PICK r : r = [lspCall[t] EXCEPT !.pc = pc]
  OBVIOUS
<1>2. lspCall[t] \in LspRecords
  BY DEF LspShape
<1>3. /\ r \in LspRecords /\ r.pc = pc /\ r.client = lspCall[t].client /\ r.target = lspCall[t].target
      /\ r.version = lspCall[t].version /\ r.text = lspCall[t].text
  BY <1>1, <1>2 DEF LspRecords
<1>4. lspCall' = [lspCall EXCEPT ![t] = r]
  BY <1>1 DEF LspGoto
<1> QED BY <1>3, <1>4, LspCallSet

LEMMA LspGotSet ==
    ASSUME LspShape, NEW t \in LspCallers, NEW c \in Servers, Got(t, c)
    PROVE  /\ lspCall' \in [LspCallers -> LspRecords]
           /\ \/ lspCall[t].client = NoServer /\ lspCall'[t].client = c /\ lspCall'[t].pc = "get"
              \/ /\ lspCall[t].client # NoServer /\ lspCall'[t].client = lspCall[t].client
                 /\ lspCall'[t].target = c /\ lspCall'[t].pc = "touch"
           /\ \A u \in LspCallers : u # t => lspCall'[u] = lspCall[u]
<1>1. PICK o : o = lspCall[t]
  OBVIOUS
<1>2. o \in LspRecords /\ c \in SomeServer
  BY <1>1 DEF LspShape, SomeServer
<1>3. CASE o.client = NoServer
  <2>1. PICK q, r : q = [o EXCEPT !.client = c] /\ r = [q EXCEPT !.pc = "get"]
    OBVIOUS
  <2>2. q \in LspRecords /\ q.client = c
    BY <1>2, <2>1 DEF LspRecords
  <2>3. r \in LspRecords /\ r.client = c /\ r.pc = "get"
    BY <2>1, <2>2 DEF LspRecords, LspSteps
  <2>4. lspCall' = [lspCall EXCEPT ![t] = r]
    BY <1>1, <1>3, <2>1 DEF Got, LspShape
  <2> QED BY <1>1, <1>3, <2>3, <2>4, LspCallSet
<1>4. CASE o.client # NoServer
  <2>1. PICK q, r : q = [o EXCEPT !.target = c] /\ r = [q EXCEPT !.pc = "touch"]
    OBVIOUS
  <2>2. q \in LspRecords /\ q.target = c /\ q.client = o.client
    BY <1>2, <2>1 DEF LspRecords
  <2>3. r \in LspRecords /\ r.target = c /\ r.client = o.client /\ r.pc = "touch"
    BY <2>1, <2>2 DEF LspRecords, LspSteps
  <2>4. lspCall' = [lspCall EXCEPT ![t] = r]
    BY <1>1, <1>4, <2>1 DEF Got, LspShape
  <2> QED BY <1>1, <1>4, <2>3, <2>4, LspCallSet
<1> QED BY <1>3, <1>4

\* A call that ends, or goes on without a server, leaves the servers as they are.
LEMMA LspBeginsKeeps ==
    ASSUME LspInv, NEW t \in LspCallers, LspCallBegins(t)
    PROVE  LspInv'
<1>1. /\ lspCall' \in [LspCallers -> LspRecords] /\ lspCall'[t].pc = "get"
      /\ lspCall'[t].client = lspCall[t].client /\ lspCall[t].client = NoServer
      /\ \A u \in LspCallers : u # t => lspCall'[u] = lspCall[u]
  <2>1. "get" \in LspSteps
    BY DEF LspSteps
  <2> QED BY <2>1, LspGotoSet, LspEmpty DEF LspCallBegins, LspInv
<1>2. lspCall[t].pc = "none" /\ UNCHANGED <<lspServer, lspText, lspTable, lspClosing, lspRaced, lspCrossed>>
  BY LspEmpty DEF LspCallBegins, KeepTable, KeepHistory
<1>3. LspShape' /\ LspWire' /\ LspWhere'
  BY <1>1, <1>2 DEF LspInv, LspShape, LspWire, LspWhere
<1>4. LspOwned'
  BY <1>1, <1>2 DEF LspInv, LspOwned, Starting
<1>5. LspInOrder'
  BY <1>1, <1>2 DEF LspInv, LspInOrder, Sending
<1> QED BY <1>2, <1>3, <1>4, <1>5 DEF LspInv

LEMMA LspGetKeeps ==
    ASSUME LspInv, NEW t \in LspCallers, GetClient(t)
    PROVE  LspInv'
<1>0. /\ UNCHANGED <<lspServer, lspText, lspTable, lspClosing, lspCrossed>> /\ lspCall[t].pc = "get"
      /\ lspTable \in SomeServer /\ lspRaced \subseteq lspRaced'
  BY DEF GetClient, KeepTable, LspInv, LspShape
<1>1. CASE lspTable # NoServer /\ lspServer[lspTable].proc = "alive"
  <2>1. PICK c \in Servers : c = lspTable
    BY <1>0, <1>1 DEF SomeServer
  <2>2. UNCHANGED lspRaced /\ Got(t, c)
    BY <1>1, <2>1 DEF GetClient
  <2>3. /\ lspCall' \in [LspCallers -> LspRecords]
        /\ \/ lspCall[t].client = NoServer /\ lspCall'[t].client = c /\ lspCall'[t].pc = "get"
           \/ /\ lspCall[t].client # NoServer /\ lspCall'[t].client = lspCall[t].client
              /\ lspCall'[t].target = c /\ lspCall'[t].pc = "touch"
        /\ \A u \in LspCallers : u # t => lspCall'[u] = lspCall[u]
    BY <2>2, LspGotSet DEF LspInv
  <2>4. lspCall'[t].client \in SomeServer
    BY <2>3 DEF LspRecords
  <2>5. LspShape' /\ LspWire'
    BY <1>0, <2>3 DEF LspInv, LspShape, LspWire
  <2>6. LspWhere'
    BY <1>0, <1>1, <2>1, <2>3, <2>4 DEF LspInv, LspWhere, SomeServer
  <2>7. LspOwned'
    BY <1>0, <2>2, <2>3 DEF LspInv, LspOwned, Starting
  <2>8. LspInOrder'
    BY <1>0, <2>2, <2>3 DEF LspInv, LspInOrder, Sending
  <2> QED BY <1>0, <2>5, <2>6, <2>7, <2>8 DEF LspInv
<1>2. CASE ~(lspTable # NoServer /\ lspServer[lspTable].proc = "alive")
  <2>1. /\ LspGoto(t, "spawn")
        /\ lspRaced' = IF Starting # {} THEN lspRaced \cup {"start"} ELSE lspRaced
    BY <1>2 DEF GetClient
  <2>2. /\ lspCall' \in [LspCallers -> LspRecords] /\ lspCall'[t].pc = "spawn"
        /\ lspCall'[t].client = lspCall[t].client /\ lspCall'[t].target = lspCall[t].target
        /\ \A u \in LspCallers : u # t => lspCall'[u] = lspCall[u]
    <3>1. "spawn" \in LspSteps
      BY DEF LspSteps
    <3> QED BY <2>1, <3>1, LspGotoSet DEF LspInv
  <2>3. LspShape' /\ LspWire' /\ LspWhere'
    BY <1>0, <2>2 DEF LspInv, LspShape, LspWire, LspWhere
  <2>4. LspOwned'
    <3> SUFFICES ASSUME "start" \notin lspRaced'
                 PROVE  /\ (\A u, v \in Starting : u = v)'
                        /\ (Starting # {} /\ lspTable # NoServer => lspServer[lspTable].proc # "alive")'
                        /\ \A c \in Servers : lspServer'[c].proc = "alive" =>
                             \/ lspTable' = c \/ c \in lspClosing'
                             \/ \E u \in LspCallers : lspCall'[u].pc \in {"initialize", "register"} /\ lspCall'[u].target = c
      BY DEF LspOwned
    <3>1. "start" \notin lspRaced /\ Starting = {}
      BY <1>0, <2>1
    <3>2. Starting' = {t}
      BY <2>2, <3>1 DEF Starting
    <3>3. \A c \in Servers : lspServer[c].proc = "alive" =>
             \/ lspTable = c \/ c \in lspClosing
             \/ \E u \in LspCallers : lspCall[u].pc \in {"initialize", "register"} /\ lspCall[u].target = c
      BY <3>1 DEF LspInv, LspOwned
    <3>4. \A u \in LspCallers : lspCall[u].pc \notin {"initialize", "register"}
      BY <3>1 DEF Starting
    <3> QED BY <1>0, <1>2, <3>2, <3>3, <3>4
  <2>5. LspInOrder'
    BY <1>0, <2>2 DEF LspInv, LspInOrder, Sending
  <2> QED BY <1>0, <2>3, <2>4, <2>5 DEF LspInv
<1> QED BY <1>1, <1>2

\* A call that gives up without having started a server.
LEMMA LspEndKeeps ==
    ASSUME LspInv, NEW t \in LspCallers, LspEnd(t), lspCall[t].pc \in {"spawn", "watched", "request", "await"},
           UNCHANGED <<lspServer, lspText, lspTable, lspClosing, lspRaced, lspCrossed>>
    PROVE  LspInv'
<1>1. /\ lspCall' \in [LspCallers -> LspRecords] /\ lspCall'[t].pc = "none" /\ lspCall'[t].client = NoServer
      /\ \A u \in LspCallers : u # t => lspCall'[u] = lspCall[u]
  BY LspEndSet DEF LspInv
<1>2. LspShape' /\ LspWire' /\ LspWhere'
  BY <1>1 DEF LspInv, LspShape, LspWire, LspWhere
<1>3. LspOwned'
  BY <1>1 DEF LspInv, LspOwned, Starting
<1>4. LspInOrder'
  <2> SUFFICES ASSUME NEW c \in Servers, c \notin lspRaced PROVE LET s == lspServer[c] IN
        /\ ~s.muddled
        /\ (\A v, u \in Sending(c) : v = u)'
        /\ (\A v \in Sending(c) : lspCall[v].version = s.versions + 1)'
        /\ (\A v \in Sending(c) : lspCall[v].pc = "watched" => s.heard = s.versions /\ lspCall[v].text >= s.text)'
        /\ (\A v \in Sending(c) : lspCall[v].pc = "sent" => s.heard = lspCall[v].version)'
        /\ (Sending(c) = {} => s.heard = s.versions)'
        /\ (\A v \in LspCallers :
             lspCall[v].pc \in {"sent", "request", "await"} /\ lspCall[v].target = c => s.text >= lspCall[v].text)'
    BY DEF LspInOrder
  <2>1. Sending(c)' = Sending(c) \ {t}
    BY <1>1 DEF Sending
  <2>2. Sending(c) = {} => lspServer[c].heard = lspServer[c].versions
    BY DEF LspInv, LspInOrder
  <2>3. t \in Sending(c) => Sending(c) = {t} /\ lspServer[c].heard = lspServer[c].versions
    BY DEF LspInv, LspInOrder, Sending
  <2>4. Sending(c)' = {} => lspServer[c].heard = lspServer[c].versions
    BY <2>1, <2>2, <2>3
  <2>5. \A v \in Sending(c)' : v \in Sending(c) /\ lspCall'[v] = lspCall[v]
    BY <1>1, <2>1 DEF Sending
  <2> QED BY <1>1, <2>4, <2>5 DEF LspInv, LspInOrder
<1> QED BY <1>2, <1>3, <1>4 DEF LspInv

\* Only whether a process runs changes.
LspSameTalk(s, r) ==
    /\ s.nextId = r.nextId /\ s.pending = r.pending /\ s.versions = r.versions /\ s.asked = r.asked
    /\ s.heard = r.heard /\ s.text = r.text /\ s.muddled = r.muddled

LEMMA LspProcSet ==
    ASSUME LspShape, NEW c \in Servers, NEW p \in {"none", "alive", "dead", "killed"},
           lspServer' = [lspServer EXCEPT ![c].proc = p]
    PROVE  /\ lspServer' \in [Servers -> LspStates] /\ lspServer'[c].proc = p
           /\ \A d \in Servers : LspSameTalk(lspServer'[d], lspServer[d])
           /\ \A d \in Servers : d # c => lspServer'[d] = lspServer[d]
<1>1. PICK s : s = [lspServer[c] EXCEPT !.proc = p]
  OBVIOUS
<1>2. s \in LspStates /\ s.proc = p /\ LspSameTalk(s, lspServer[c])
  BY <1>1 DEF LspShape, LspStates, LspSameTalk
<1>3. lspServer' = [lspServer EXCEPT ![c] = s]
  BY <1>1
<1>4. /\ lspServer' \in [Servers -> LspStates] /\ lspServer'[c] = s
      /\ \A d \in Servers : d # c => lspServer'[d] = lspServer[d]
  BY <1>2, <1>3, LspServerSet
<1>5. \A d \in Servers : d # c => LspSameTalk(lspServer'[d], lspServer[d])
  BY <1>4 DEF LspSameTalk
<1> QED BY <1>2, <1>4, <1>5

LEMMA LspProcKeeps ==
    ASSUME LspInv, lspServer' \in [Servers -> LspStates],
           \A d \in Servers : LspSameTalk(lspServer'[d], lspServer[d]),
           \A d \in Servers : lspServer'[d].proc = "none" => lspServer[d].proc = "none",
           UNCHANGED <<lspText, lspCall>>, lspRaced \subseteq lspRaced',
           lspTable' \in {lspTable, NoServer}, lspClosing' \subseteq Servers
    PROVE  LspShape' /\ LspWire' /\ LspWhere' /\ LspInOrder'
<1>1. LspShape'
  BY DEF LspInv, LspShape, SomeServer
<1>2. LspWire'
  BY DEF LspInv, LspWire, LspSameTalk
<1>3. LspWhere'
  <2>1. lspTable' # NoServer => lspServer'[lspTable'].proc # "none"
    BY DEF LspInv, LspWhere, LspShape, SomeServer
  <2>2. \A t \in LspCallers : LET r == lspCall'[t] IN
        /\ r.pc \in {"initialize", "register"} => r.target \in Servers /\ lspServer'[r.target].proc # "none"
        /\ r.pc \in {"touch", "watched", "sent", "request", "await"} => r.target \in Servers /\ r.client \in Servers
        /\ r.pc \in {"watched", "sent"} => r.version >= 0 /\ r.text <= lspText'
    BY DEF LspInv, LspWhere
  <2>3. \A t \in LspCallers : lspCall'[t].pc = "sent" => lspServer'[lspCall'[t].target].heard >= 0
    BY DEF LspInv, LspWhere, LspSameTalk
  <2>4. \A t \in LspCallers : lspCall'[t].client # NoServer => lspServer'[lspCall'[t].client].proc # "none"
    <3>1. \A t \in LspCallers : lspCall[t].client \in SomeServer
      BY DEF LspInv, LspShape, LspRecords
    <3> QED BY <3>1 DEF LspInv, LspWhere, SomeServer
  <2> QED BY <2>1, <2>2, <2>3, <2>4 DEF LspWhere
<1>4. LspInOrder'
  <2>1. \A c \in Servers : Sending(c)' = Sending(c)
    BY DEF Sending
  <2> QED BY <2>1 DEF LspInv, LspInOrder, LspSameTalk
<1> QED BY <1>1, <1>2, <1>3, <1>4

LEMMA LspDieKeeps ==
    ASSUME LspInv, NEW c \in Servers, ServerDies(c)
    PROVE  LspInv'
<1>1. /\ lspServer' = [lspServer EXCEPT ![c].proc = "dead"]
      /\ UNCHANGED <<lspCall, lspText, lspTable, lspClosing, lspRaced, lspCrossed>>
  BY DEF ServerDies, KeepTable, KeepHistory
<1>2. /\ lspServer' \in [Servers -> LspStates] /\ lspServer'[c].proc = "dead"
      /\ \A d \in Servers : LspSameTalk(lspServer'[d], lspServer[d])
      /\ \A d \in Servers : d # c => lspServer'[d] = lspServer[d]
  BY <1>1, LspProcSet DEF LspInv
<1>3. LspShape' /\ LspWire' /\ LspWhere' /\ LspInOrder'
  BY <1>1, <1>2, LspProcKeeps DEF LspInv, LspShape
<1>4. LspOwned'
  <2>1. Starting' = Starting /\ \A d \in Servers : lspServer'[d].proc = "alive" => lspServer[d].proc = "alive"
    BY <1>1, <1>2 DEF Starting
  <2>2. lspTable \in SomeServer
    BY DEF LspInv, LspShape
  <2> QED BY <1>1, <2>1, <2>2 DEF LspInv, LspOwned, SomeServer
<1> QED BY <1>1, <1>3, <1>4 DEF LspInv

LEMMA LspKillKeeps ==
    ASSUME LspInv, NEW c \in Servers, KillServer(c)
    PROVE  LspInv'
<1>0. /\ lspClosing' = lspClosing \ {c}
      /\ UNCHANGED <<lspCall, lspText, lspTable, lspRaced, lspCrossed>>
  BY DEF KillServer, KeepHistory
<1>1. PICK p : p = IF lspServer[c].proc = "alive" THEN "killed" ELSE lspServer[c].proc
  OBVIOUS
<1>2. /\ p \in {"none", "alive", "dead", "killed"} /\ p # "alive"
      /\ p = "none" => lspServer[c].proc = "none"
  BY <1>1 DEF LspInv, LspShape, LspStates
<1>3. lspServer' = [lspServer EXCEPT ![c].proc = p]
  BY <1>1 DEF KillServer
<1>4. /\ lspServer' \in [Servers -> LspStates] /\ lspServer'[c].proc = p
      /\ \A d \in Servers : LspSameTalk(lspServer'[d], lspServer[d])
      /\ \A d \in Servers : d # c => lspServer'[d] = lspServer[d]
  BY <1>2, <1>3, LspProcSet DEF LspInv
<1>5. LspShape' /\ LspWire' /\ LspWhere' /\ LspInOrder'
  BY <1>0, <1>2, <1>4, LspProcKeeps DEF LspInv, LspShape
<1>6. LspOwned'
  <2>1. Starting' = Starting /\ \A d \in Servers : lspServer'[d].proc = "alive" => d # c /\ lspServer[d].proc = "alive"
    BY <1>0, <1>2, <1>4 DEF Starting
  <2>2. lspTable \in SomeServer
    BY DEF LspInv, LspShape
  <2> QED BY <1>0, <2>1, <2>2 DEF LspInv, LspOwned, SomeServer
<1> QED BY <1>0, <1>5, <1>6 DEF LspInv

LEMMA LspCloseKeeps ==
    ASSUME LspInv, CloseAll
    PROVE  LspInv'
<1>1. /\ lspTable' = NoServer /\ lspClosing' = lspClosing \cup {lspTable} /\ lspTable \in Servers
      /\ UNCHANGED <<lspServer, lspCall, lspText, lspRaced, lspCrossed>>
  BY DEF CloseAll, KeepHistory, LspInv, LspShape, SomeServer
<1>2. LspShape' /\ LspWire' /\ LspWhere' /\ LspInOrder'
  BY <1>1, LspProcKeeps DEF LspInv, LspShape, LspSameTalk
<1>3. LspOwned'
  BY <1>1, Strangers DEF LspInv, LspOwned, Starting
<1> QED BY <1>1, <1>2, <1>3 DEF LspInv

LEMMA LspEditKeeps ==
    ASSUME LspInv, EditDocument
    PROVE  LspInv'
<1>1. lspText' = lspText + 1 /\ UNCHANGED <<lspServer, lspCall, lspTable, lspClosing, lspRaced, lspCrossed>>
  BY DEF EditDocument, KeepTable, KeepHistory
<1>2. lspText \in Nat /\ lspText' \in Nat
  BY <1>1 DEF LspInv, LspShape
<1>3. LspShape' /\ LspOwned' /\ LspInOrder'
  BY <1>1, <1>2 DEF LspInv, LspShape, LspOwned, LspInOrder, Starting, Sending
<1>4. LspWire'
  <2>1. \A c \in Servers : lspServer[c].text \in Nat
    BY DEF LspInv, LspShape, LspStates
  <2> QED BY <1>1, <1>2, <2>1 DEF LspInv, LspWire
<1>5. LspWhere'
  <2>1. \A t \in LspCallers : lspCall[t].text \in Nat
    BY DEF LspInv, LspShape, LspRecords
  <2> QED BY <1>1, <1>2, <2>1 DEF LspInv, LspWhere
<1> QED BY <1>1, <1>3, <1>4, <1>5 DEF LspInv

LEMMA LspFailKeeps ==
    ASSUME LspInv, NEW t \in LspCallers, InitializeFails(t)
    PROVE  LspInv'
<1>1. PICK c \in Servers : c = lspCall[t].target
  BY DEF InitializeFails, LspInv, LspWhere
<1>2. /\ lspServer' = [lspServer EXCEPT ![c].proc = "killed"] /\ LspEnd(t) /\ lspCall[t].pc = "initialize"
      /\ UNCHANGED <<lspText, lspTable, lspClosing, lspRaced, lspCrossed>>
  BY <1>1 DEF InitializeFails, KeepTable, KeepHistory
<1>3. /\ lspServer' \in [Servers -> LspStates] /\ lspServer'[c].proc = "killed"
      /\ \A d \in Servers : LspSameTalk(lspServer'[d], lspServer[d])
      /\ \A d \in Servers : d # c => lspServer'[d] = lspServer[d]
  BY <1>2, LspProcSet DEF LspInv
<1>4. /\ lspCall' \in [LspCallers -> LspRecords] /\ lspCall'[t].pc = "none" /\ lspCall'[t].client = NoServer
      /\ \A u \in LspCallers : u # t => lspCall'[u] = lspCall[u]
  BY <1>2, LspEndSet DEF LspInv
<1>5. LspShape'
  BY <1>2, <1>3, <1>4 DEF LspInv, LspShape
<1>6. LspWire'
  BY <1>2, <1>3 DEF LspInv, LspWire, LspSameTalk
<1>7. LspWhere'
  <2>1. \A d \in SomeServer : d # NoServer => d \in Servers
    BY DEF SomeServer
  <2>2. \A d \in Servers : /\ lspServer'[d].proc = "none" => lspServer[d].proc = "none"
                           /\ lspServer'[d].heard = lspServer[d].heard
    BY <1>3 DEF LspSameTalk
  <2>3. lspTable \in SomeServer /\ \A u \in LspCallers : lspCall[u].client \in SomeServer
    BY DEF LspInv, LspShape, LspRecords
  <2>4. lspTable' # NoServer => lspServer'[lspTable'].proc # "none"
    BY <1>2, <2>1, <2>2, <2>3 DEF LspInv, LspWhere
  <2> SUFFICES ASSUME NEW u \in LspCallers, u # t PROVE LET r == lspCall'[u] IN
        /\ r.pc \in {"initialize", "register"} => r.target \in Servers /\ lspServer'[r.target].proc # "none"
        /\ r.pc \in {"touch", "watched", "sent", "request", "await"} => r.target \in Servers /\ r.client \in Servers
        /\ r.pc \in {"watched", "sent"} => r.version >= 0 /\ r.text <= lspText'
        /\ r.pc = "sent" => lspServer'[r.target].heard >= 0
        /\ r.client # NoServer => lspServer'[r.client].proc # "none"
    BY <1>4, <2>4 DEF LspWhere
  <2>5. lspCall'[u] = lspCall[u] /\ lspText' = lspText
    BY <1>2, <1>4
  <2> QED BY <2>1, <2>2, <2>3, <2>5 DEF LspInv, LspWhere
<1>8. LspOwned'
  <2> SUFFICES ASSUME "start" \notin lspRaced
               PROVE  /\ (\A u, v \in Starting : u = v)'
                      /\ (Starting # {} /\ lspTable # NoServer => lspServer[lspTable].proc # "alive")'
                      /\ \A d \in Servers : lspServer'[d].proc = "alive" =>
                           \/ lspTable' = d \/ d \in lspClosing'
                           \/ \E u \in LspCallers : lspCall'[u].pc \in {"initialize", "register"} /\ lspCall'[u].target = d
    BY <1>2 DEF LspOwned
  <2>1. t \in Starting /\ Starting' = Starting \ {t}
    BY <1>2, <1>4 DEF Starting
  <2>2. Starting' = {}
    BY <2>1 DEF LspInv, LspOwned
  <2>3. ASSUME NEW d \in Servers, lspServer'[d].proc = "alive"
        PROVE  lspTable = d \/ d \in lspClosing
    <3>1. d # c /\ lspServer[d].proc = "alive"
      BY <1>3, <2>3
    <3>2. ASSUME NEW u \in LspCallers, lspCall[u].pc \in {"initialize", "register"}, lspCall[u].target = d PROVE FALSE
      <4>1. u \in Starting
        BY <3>2 DEF Starting
      <4> QED BY <1>1, <2>1, <3>1, <3>2, <4>1 DEF LspInv, LspOwned
    <3> QED BY <3>1, <3>2 DEF LspInv, LspOwned
  <2> QED BY <1>2, <2>2, <2>3
<1>9. LspInOrder'
  <2>1. \A d \in Servers : Sending(d)' = Sending(d) /\ \A u \in Sending(d) : u # t
    BY <1>2, <1>4 DEF Sending
  <2> QED BY <1>2, <1>3, <1>4, <2>1 DEF LspInv, LspInOrder, LspSameTalk, Sending
<1> QED BY <1>2, <1>5, <1>6, <1>7, <1>8, <1>9 DEF LspInv

LEMMA LspRegisterKeeps ==
    ASSUME LspInv, NEW t \in LspCallers, RegisterClient(t)
    PROVE  LspInv'
<1>1. PICK c \in Servers : c = lspCall[t].target /\ lspServer[c].proc # "none"
  BY DEF RegisterClient, LspInv, LspWhere
<1>2. /\ lspTable' = c /\ Got(t, c) /\ lspCall[t].pc = "register"
      /\ UNCHANGED <<lspServer, lspText, lspClosing, lspRaced, lspCrossed>>
  BY <1>1 DEF RegisterClient
<1>3. /\ lspCall' \in [LspCallers -> LspRecords]
      /\ \/ lspCall[t].client = NoServer /\ lspCall'[t].client = c /\ lspCall'[t].pc = "get"
         \/ /\ lspCall[t].client # NoServer /\ lspCall'[t].client = lspCall[t].client
            /\ lspCall'[t].target = c /\ lspCall'[t].pc = "touch"
      /\ \A u \in LspCallers : u # t => lspCall'[u] = lspCall[u]
  BY <1>2, LspGotSet DEF LspInv
<1>4. LspShape' /\ LspWire'
  BY <1>2, <1>3 DEF LspInv, LspShape, LspWire, SomeServer
<1>5. LspWhere'
  <2>1. lspCall'[t].client \in SomeServer
    BY <1>3 DEF LspRecords
  <2> QED BY <1>1, <1>2, <1>3, <2>1 DEF LspInv, LspWhere, SomeServer
<1>6. LspOwned'
  <2> SUFFICES ASSUME "start" \notin lspRaced
               PROVE  /\ (\A u, v \in Starting : u = v)'
                      /\ (Starting # {} /\ lspTable # NoServer => lspServer[lspTable].proc # "alive")'
                      /\ \A d \in Servers : lspServer'[d].proc = "alive" =>
                           \/ lspTable' = d \/ d \in lspClosing'
                           \/ \E u \in LspCallers : lspCall'[u].pc \in {"initialize", "register"} /\ lspCall'[u].target = d
    BY <1>2 DEF LspOwned
  <2>1. t \in Starting /\ Starting' = Starting \ {t}
    BY <1>2, <1>3 DEF Starting
  <2>2. Starting = {t} /\ Starting' = {}
    BY <2>1 DEF LspInv, LspOwned
  <2>3. ASSUME NEW d \in Servers, lspServer[d].proc = "alive" PROVE d = c \/ d \in lspClosing
    <3>1. lspTable # d
      BY <2>2, <2>3, Strangers DEF LspInv, LspOwned
    <3>2. ASSUME NEW u \in LspCallers, lspCall[u].pc \in {"initialize", "register"}, lspCall[u].target = d PROVE d = c
      <4>1. u = t
        BY <2>2, <3>2 DEF Starting
      <4> QED BY <1>1, <3>2, <4>1
    <3> QED BY <2>3, <3>1, <3>2 DEF LspInv, LspOwned
  <2> QED BY <1>2, <2>2, <2>3
<1>7. LspInOrder'
  <2>1. \A d \in Servers : Sending(d)' = Sending(d) /\ \A u \in Sending(d) : u # t
    BY <1>2, <1>3 DEF Sending
  <2> QED BY <1>2, <1>3, <2>1 DEF LspInv, LspInOrder, Sending
<1> QED BY <1>2, <1>4, <1>5, <1>6, <1>7 DEF LspInv

\* A process that never ran: nobody has it yet.
LEMMA LspSpawnSet ==
    ASSUME LspShape, NEW t \in LspCallers, NEW c \in Servers,
           lspCall' = [lspCall EXCEPT ![t].pc = "initialize", ![t].target = c, ![t].id = 1]
    PROVE  /\ lspCall' \in [LspCallers -> LspRecords]
           /\ lspCall'[t].pc = "initialize" /\ lspCall'[t].target = c /\ lspCall'[t].client = lspCall[t].client
           /\ \A u \in LspCallers : u # t => lspCall'[u] = lspCall[u]
<1>1. PICK o, p, q, r : /\ o = lspCall[t] /\ p = [o EXCEPT !.pc = "initialize"] /\ q = [p EXCEPT !.target = c]
                        /\ r = [q EXCEPT !.id = 1]
  OBVIOUS
<1>2. o \in LspRecords /\ c \in SomeServer
  BY <1>1 DEF LspShape, SomeServer
<1>3. p \in LspRecords /\ p.pc = "initialize" /\ p.client = o.client
  BY <1>1, <1>2 DEF LspRecords, LspSteps
<1>4. q \in LspRecords /\ q.pc = "initialize" /\ q.client = o.client /\ q.target = c
  BY <1>1, <1>2, <1>3 DEF LspRecords
<1>5. r \in LspRecords /\ r.pc = "initialize" /\ r.client = o.client /\ r.target = c
  BY <1>1, <1>4 DEF LspRecords
<1>6. lspCall' = [lspCall EXCEPT ![t] = r]
  BY <1>1 DEF LspShape
<1> QED BY <1>1, <1>5, <1>6, LspCallSet

LEMMA LspRunSet ==
    ASSUME LspShape, NEW t \in LspCallers, NEW c \in Servers,
           lspServer' = [lspServer EXCEPT ![c] =
                    [@ EXCEPT !.proc = "alive", !.nextId = 2,
                              !.asked = {[id |-> 1, by |-> t]}, !.pending = {[id |-> 1, by |-> t]}]]
    PROVE  /\ lspServer' \in [Servers -> LspStates]
           /\ lspServer'[c].proc = "alive" /\ lspServer'[c].nextId = 2
           /\ lspServer'[c].asked = {[id |-> 1, by |-> t]} /\ lspServer'[c].pending = {[id |-> 1, by |-> t]}
           /\ lspServer'[c].versions = lspServer[c].versions /\ lspServer'[c].heard = lspServer[c].heard
           /\ lspServer'[c].text = lspServer[c].text /\ lspServer'[c].muddled = lspServer[c].muddled
           /\ \A d \in Servers : d # c => lspServer'[d] = lspServer[d]
<1>0. PICK a : a = {[id |-> 1, by |-> t]}
  OBVIOUS
<1>1. PICK o, p, q, r, s : /\ o = lspServer[c] /\ p = [o EXCEPT !.proc = "alive"] /\ q = [p EXCEPT !.nextId = 2]
                           /\ r = [q EXCEPT !.asked = a] /\ s = [r EXCEPT !.pending = a]
  OBVIOUS
<1>2. o \in LspStates /\ a \in SUBSET LspAsks
  BY <1>0, <1>1 DEF LspShape, LspAsks
<1>3. /\ p \in LspStates /\ p.proc = "alive"
      /\ p.versions = o.versions /\ p.heard = o.heard /\ p.text = o.text /\ p.muddled = o.muddled
  BY <1>1, <1>2 DEF LspStates
<1>4. /\ q \in LspStates /\ q.proc = "alive" /\ q.nextId = 2
      /\ q.versions = o.versions /\ q.heard = o.heard /\ q.text = o.text /\ q.muddled = o.muddled
  BY <1>1, <1>3 DEF LspStates
<1>5. /\ r \in LspStates /\ r.proc = "alive" /\ r.nextId = 2 /\ r.asked = a
      /\ r.versions = o.versions /\ r.heard = o.heard /\ r.text = o.text /\ r.muddled = o.muddled
  BY <1>1, <1>2, <1>4 DEF LspStates
<1>6. /\ s \in LspStates /\ s.proc = "alive" /\ s.nextId = 2 /\ s.asked = a /\ s.pending = a
      /\ s.versions = o.versions /\ s.heard = o.heard /\ s.text = o.text /\ s.muddled = o.muddled
  BY <1>1, <1>2, <1>5 DEF LspStates
<1>7. lspServer' = [lspServer EXCEPT ![c] = s]
  <2>1. s = [o EXCEPT !.proc = "alive", !.nextId = 2, !.asked = a, !.pending = a]
    BY <1>1, Zenon
  <2> QED BY <1>0, <1>1, <2>1
<1>8. /\ lspServer' \in [Servers -> LspStates] /\ lspServer'[c] = s
      /\ \A d \in Servers : d # c => lspServer'[d] = lspServer[d]
  BY <1>6, <1>7, LspServerSet
<1> QED BY <1>0, <1>1, <1>6, <1>8

LEMMA LspSpawnKeeps ==
    ASSUME LspInv, NEW t \in LspCallers, SpawnServer(t)
    PROVE  LspInv'
<1>1. lspCall[t].pc = "spawn" /\ UNCHANGED <<lspText, lspTable, lspClosing, lspRaced, lspCrossed>>
  BY DEF SpawnServer, KeepTable, KeepHistory
<1>2. CASE LspEnd(t) /\ UNCHANGED lspServer
  BY <1>1, <1>2, LspEndKeeps
<1>3. CASE LET c == CHOOSE x \in NeverStarted : TRUE IN
            /\ NeverStarted # {}
            /\ lspServer' = [lspServer EXCEPT ![c] =
                    [@ EXCEPT !.proc = "alive", !.nextId = 2,
                              !.asked = {[id |-> 1, by |-> t]}, !.pending = {[id |-> 1, by |-> t]}]]
            /\ lspCall' = [lspCall EXCEPT ![t].pc = "initialize", ![t].target = c, ![t].id = 1]
  <2>1. PICK c \in Servers :
            /\ lspServer[c].proc = "none"
            /\ lspServer' = [lspServer EXCEPT ![c] =
                    [@ EXCEPT !.proc = "alive", !.nextId = 2,
                              !.asked = {[id |-> 1, by |-> t]}, !.pending = {[id |-> 1, by |-> t]}]]
            /\ lspCall' = [lspCall EXCEPT ![t].pc = "initialize", ![t].target = c, ![t].id = 1]
    <3>1. (CHOOSE x \in NeverStarted : TRUE) \in NeverStarted
      BY <1>3
    <3> QED BY <1>3, <3>1 DEF NeverStarted
  <2>2. /\ lspServer' \in [Servers -> LspStates]
        /\ lspServer'[c].proc = "alive" /\ lspServer'[c].nextId = 2
        /\ lspServer'[c].asked = {[id |-> 1, by |-> t]} /\ lspServer'[c].pending = {[id |-> 1, by |-> t]}
        /\ lspServer'[c].versions = lspServer[c].versions /\ lspServer'[c].heard = lspServer[c].heard
        /\ lspServer'[c].text = lspServer[c].text /\ lspServer'[c].muddled = lspServer[c].muddled
        /\ \A d \in Servers : d # c => lspServer'[d] = lspServer[d]
    BY <2>1, LspRunSet DEF LspInv
  <2>3. /\ lspCall' \in [LspCallers -> LspRecords]
        /\ lspCall'[t].pc = "initialize" /\ lspCall'[t].target = c /\ lspCall'[t].client = lspCall[t].client
        /\ \A u \in LspCallers : u # t => lspCall'[u] = lspCall[u]
    BY <2>1, LspSpawnSet DEF LspInv
  <2>4. LspShape'
    BY <1>1, <2>2, <2>3 DEF LspInv, LspShape
  <2>5. LspWire'
    BY <1>1, <2>2 DEF LspInv, LspWire
  <2>6. \A d \in Servers : /\ lspServer'[d].proc = "none" => lspServer[d].proc = "none"
                           /\ lspServer'[d].heard = lspServer[d].heard
    BY <2>2
  <2>7. /\ \A d \in SomeServer : d # NoServer => d \in Servers
        /\ lspTable \in SomeServer /\ \A u \in LspCallers : lspCall[u].client \in SomeServer
    BY DEF LspInv, LspShape, LspRecords, SomeServer
  <2>8. LspWhere'
    <3>1. lspTable' # NoServer => lspServer'[lspTable'].proc # "none"
      BY <1>1, <2>6, <2>7 DEF LspInv, LspWhere
    <3>2. ASSUME NEW u \in LspCallers, u # t PROVE LET r == lspCall'[u] IN
        /\ r.pc \in {"initialize", "register"} => r.target \in Servers /\ lspServer'[r.target].proc # "none"
        /\ r.pc \in {"touch", "watched", "sent", "request", "await"} => r.target \in Servers /\ r.client \in Servers
        /\ r.pc \in {"watched", "sent"} => r.version >= 0 /\ r.text <= lspText'
        /\ r.pc = "sent" => lspServer'[r.target].heard >= 0
        /\ r.client # NoServer => lspServer'[r.client].proc # "none"
      <4>1. lspCall'[u] = lspCall[u]
        BY <2>3, <3>2
      <4> QED BY <1>1, <2>6, <2>7, <4>1 DEF LspInv, LspWhere
    <3>3. lspCall'[t].client # NoServer => lspServer'[lspCall'[t].client].proc # "none"
      BY <2>3, <2>6, <2>7 DEF LspInv, LspWhere
    <3> QED BY <2>2, <2>3, <3>1, <3>2, <3>3 DEF LspWhere
  <2>9. LspOwned'
    <3> SUFFICES ASSUME "start" \notin lspRaced
                 PROVE  /\ (\A u, v \in Starting : u = v)'
                        /\ (Starting # {} /\ lspTable # NoServer => lspServer[lspTable].proc # "alive")'
                        /\ \A d \in Servers : lspServer'[d].proc = "alive" =>
                             \/ lspTable' = d \/ d \in lspClosing'
                             \/ \E u \in LspCallers : lspCall'[u].pc \in {"initialize", "register"} /\ lspCall'[u].target = d
      BY <1>1 DEF LspOwned
    <3>1. t \in Starting /\ Starting' = Starting
      BY <1>1, <2>3 DEF Starting
    <3>2. lspTable # NoServer => lspTable # c /\ lspTable \in Servers
      BY <2>1, <2>7 DEF LspInv, LspWhere
    <3>3. lspTable # NoServer => lspServer'[lspTable].proc # "alive"
      BY <2>2, <3>1, <3>2 DEF LspInv, LspOwned
    <3>4. ASSUME NEW d \in Servers, lspServer'[d].proc = "alive", d # c
          PROVE  lspTable = d \/ d \in lspClosing
      <4>1. lspServer[d].proc = "alive"
        BY <2>2, <3>4
      <4>2. \A u \in LspCallers : lspCall[u].pc \notin {"initialize", "register"}
        BY <1>1, <3>1 DEF LspInv, LspOwned, Starting
      <4> QED BY <4>1, <4>2 DEF LspInv, LspOwned
    <3> QED BY <1>1, <2>3, <3>1, <3>3, <3>4 DEF LspInv, LspOwned
  <2>10. LspInOrder'
    <3>1. \A d \in Servers : Sending(d)' = Sending(d) /\ \A u \in Sending(d) : u # t
      BY <1>1, <2>3 DEF Sending
    <3>2. \A d \in Servers : /\ lspServer'[d].versions = lspServer[d].versions /\ lspServer'[d].heard = lspServer[d].heard
                             /\ lspServer'[d].text = lspServer[d].text /\ lspServer'[d].muddled = lspServer[d].muddled
      BY <2>2
    <3> QED BY <1>1, <2>3, <3>1, <3>2 DEF LspInv, LspInOrder, Sending
  <2> QED BY <1>1, <2>4, <2>5, <2>8, <2>9, <2>10 DEF LspInv
<1> QED BY <1>2, <1>3 DEF SpawnServer

LEMMA LspReadSet ==
    ASSUME LspShape, NEW t \in LspCallers, NEW n \in Nat, NEW v \in Int,
           lspCall' = [lspCall EXCEPT ![t].pc = "watched", ![t].text = n, ![t].version = v]
    PROVE  /\ lspCall' \in [LspCallers -> LspRecords]
           /\ lspCall'[t].pc = "watched" /\ lspCall'[t].text = n /\ lspCall'[t].version = v
           /\ lspCall'[t].client = lspCall[t].client /\ lspCall'[t].target = lspCall[t].target
           /\ \A u \in LspCallers : u # t => lspCall'[u] = lspCall[u]
<1>1. PICK o, p, q, r : /\ o = lspCall[t] /\ p = [o EXCEPT !.pc = "watched"] /\ q = [p EXCEPT !.text = n]
                        /\ r = [q EXCEPT !.version = v]
  OBVIOUS
<1>2. o \in LspRecords
  BY <1>1 DEF LspShape
<1>3. p \in LspRecords /\ p.pc = "watched" /\ p.client = o.client /\ p.target = o.target
  BY <1>1, <1>2 DEF LspRecords, LspSteps
<1>4. q \in LspRecords /\ q.pc = "watched" /\ q.client = o.client /\ q.target = o.target /\ q.text = n
  BY <1>1, <1>3 DEF LspRecords
<1>5. /\ r \in LspRecords /\ r.pc = "watched" /\ r.client = o.client /\ r.target = o.target /\ r.text = n
      /\ r.version = v
  BY <1>1, <1>4 DEF LspRecords
<1>6. lspCall' = [lspCall EXCEPT ![t] = r]
  BY <1>1 DEF LspShape
<1> QED BY <1>1, <1>5, <1>6, LspCallSet

\* One call changes, no server, and nobody starts or has started anything by it.
LEMMA LspCallKeeps ==
    ASSUME LspInv, NEW t \in LspCallers, lspCall' \in [LspCallers -> LspRecords],
           \A u \in LspCallers : u # t => lspCall'[u] = lspCall[u],
           t \notin Starting, lspCall'[t].pc \in {"watched", "sent", "request", "await"},
           lspCall[t].pc \in {"touch", "watched", "sent", "request"},
           lspCall'[t].client = lspCall[t].client, lspCall'[t].target = lspCall[t].target,
           \A d \in Servers : lspServer'[d].proc = lspServer[d].proc,
           \A d \in Servers : lspServer[d].heard >= 0 => lspServer'[d].heard >= 0,
           lspCall'[t].pc \in {"watched", "sent"} => lspCall'[t].version >= 0 /\ lspCall'[t].text <= lspText,
           lspCall'[t].pc = "sent" => lspServer'[lspCall[t].target].heard >= 0,
           lspRaced \subseteq lspRaced', UNCHANGED <<lspText, lspTable, lspClosing>>
    PROVE  LspWhere' /\ LspOwned'
<1>1. /\ \A d \in SomeServer : d # NoServer => d \in Servers
      /\ lspTable \in SomeServer /\ \A u \in LspCallers : lspCall[u].client \in SomeServer
  BY DEF LspInv, LspShape, LspRecords, SomeServer
<1>2. LspWhere'
  <2>1. lspTable' # NoServer => lspServer'[lspTable'].proc # "none"
    BY <1>1 DEF LspInv, LspWhere
  <2>2. ASSUME NEW u \in LspCallers, u # t PROVE LET r == lspCall'[u] IN
        /\ r.pc \in {"initialize", "register"} => r.target \in Servers /\ lspServer'[r.target].proc # "none"
        /\ r.pc \in {"touch", "watched", "sent", "request", "await"} => r.target \in Servers /\ r.client \in Servers
        /\ r.pc \in {"watched", "sent"} => r.version >= 0 /\ r.text <= lspText'
        /\ r.pc = "sent" => lspServer'[r.target].heard >= 0
        /\ r.client # NoServer => lspServer'[r.client].proc # "none"
    <3>1. lspCall'[u] = lspCall[u]
      BY <2>2
    <3> QED BY <1>1, <3>1 DEF LspInv, LspWhere
  <2>3. LET r == lspCall'[t] IN
        /\ r.target \in Servers /\ r.client \in Servers
        /\ r.client # NoServer => lspServer'[r.client].proc # "none"
    BY <1>1 DEF LspInv, LspWhere
  <2> QED BY <2>1, <2>2, <2>3 DEF LspWhere
<1>3. LspOwned'
  <2>1. Starting' = Starting
    BY DEF Starting
  <2> QED BY <1>1, <2>1 DEF LspInv, LspOwned, Starting
<1> QED BY <1>2, <1>3

LEMMA LspReadKeeps ==
    ASSUME LspInv, NEW t \in LspCallers, ReadDocument(t)
    PROVE  LspInv'
<1>1. PICK c \in Servers : c = lspCall[t].target
  BY DEF ReadDocument, LspInv, LspWhere
<1>2. /\ lspServer[c].versions \in Int /\ lspServer[c].versions >= -1 /\ lspText \in Nat
      /\ lspServer[c].text <= lspText /\ lspServer[c].heard \in Int
  BY DEF LspInv, LspShape, LspStates, LspWire
<1>3. PICK v \in Int : v = lspServer[c].versions + 1 /\ v >= 0
  BY <1>2
<1>4. /\ lspCall' = [lspCall EXCEPT ![t].pc = "watched", ![t].text = lspText, ![t].version = v]
      /\ lspRaced' = IF Sending(c) # {} THEN lspRaced \cup {c} ELSE lspRaced
      /\ lspCall[t].pc = "touch" /\ UNCHANGED <<lspServer, lspText, lspTable, lspClosing, lspCrossed>>
  BY <1>1, <1>3 DEF ReadDocument, KeepTable
<1>5. /\ lspCall' \in [LspCallers -> LspRecords]
      /\ lspCall'[t].pc = "watched" /\ lspCall'[t].text = lspText /\ lspCall'[t].version = v
      /\ lspCall'[t].client = lspCall[t].client /\ lspCall'[t].target = lspCall[t].target
      /\ \A u \in LspCallers : u # t => lspCall'[u] = lspCall[u]
  BY <1>2, <1>4, LspReadSet DEF LspInv
<1>6. LspShape' /\ LspWire'
  BY <1>4, <1>5 DEF LspInv, LspShape, LspWire
<1>7. LspWhere' /\ LspOwned'
  <2>1. t \notin Starting /\ lspRaced \subseteq lspRaced'
    BY <1>4 DEF Starting
  <2> QED BY <1>2, <1>3, <1>4, <1>5, <2>1, LspCallKeeps
<1>8. LspInOrder'
  <2>1. \A d \in Servers : d # c => Sending(d)' = Sending(d) /\ \A u \in Sending(d) : u # t
    BY <1>1, <1>4, <1>5 DEF Sending
  <2>2. ASSUME NEW d \in Servers, d \notin lspRaced', d # c PROVE LET s == lspServer'[d] IN
        /\ ~s.muddled
        /\ (\A w, u \in Sending(d) : w = u)'
        /\ (\A w \in Sending(d) : lspCall[w].version = lspServer[d].versions + 1)'
        /\ (\A w \in Sending(d) : lspCall[w].pc = "watched" => lspServer[d].heard = lspServer[d].versions /\ lspCall[w].text >= lspServer[d].text)'
        /\ (\A w \in Sending(d) : lspCall[w].pc = "sent" => lspServer[d].heard = lspCall[w].version)'
        /\ (Sending(d) = {} => lspServer[d].heard = lspServer[d].versions)'
        /\ (\A w \in LspCallers :
             lspCall[w].pc \in {"sent", "request", "await"} /\ lspCall[w].target = d => lspServer[d].text >= lspCall[w].text)'
    BY <1>1, <1>4, <1>5, <2>1, <2>2 DEF LspInv, LspInOrder, Sending
  <2>3. ASSUME c \notin lspRaced' PROVE LET s == lspServer'[c] IN
        /\ ~s.muddled
        /\ (\A w, u \in Sending(c) : w = u)'
        /\ (\A w \in Sending(c) : lspCall[w].version = lspServer[c].versions + 1)'
        /\ (\A w \in Sending(c) : lspCall[w].pc = "watched" => lspServer[c].heard = lspServer[c].versions /\ lspCall[w].text >= lspServer[c].text)'
        /\ (\A w \in Sending(c) : lspCall[w].pc = "sent" => lspServer[c].heard = lspCall[w].version)'
        /\ (Sending(c) = {} => lspServer[c].heard = lspServer[c].versions)'
        /\ (\A w \in LspCallers :
             lspCall[w].pc \in {"sent", "request", "await"} /\ lspCall[w].target = c => lspServer[c].text >= lspCall[w].text)'
    <3>1. c \notin lspRaced /\ Sending(c) = {}
      BY <1>4, <2>3
    <3>2. Sending(c)' = {t}
      BY <1>1, <1>5, <3>1 DEF Sending
    <3>3. lspServer[c].heard = lspServer[c].versions /\ ~lspServer[c].muddled
      BY <3>1 DEF LspInv, LspInOrder
    <3> QED BY <1>1, <1>2, <1>3, <1>4, <1>5, <3>1, <3>2, <3>3 DEF LspInv, LspInOrder
  <2> QED BY <2>2, <2>3 DEF LspInOrder
<1> QED BY <1>4, <1>6, <1>7, <1>8 DEF LspInv

LEMMA LspHeardSet ==
    ASSUME LspShape, NEW c \in Servers, NEW v \in Int, NEW n \in Nat, NEW m \in BOOLEAN,
           lspServer' = [lspServer EXCEPT ![c] = [@ EXCEPT !.heard = v, !.text = n, !.muddled = m]]
    PROVE  /\ lspServer' \in [Servers -> LspStates]
           /\ lspServer'[c].heard = v /\ lspServer'[c].text = n /\ lspServer'[c].muddled = m
           /\ lspServer'[c].proc = lspServer[c].proc /\ lspServer'[c].nextId = lspServer[c].nextId
           /\ lspServer'[c].pending = lspServer[c].pending /\ lspServer'[c].asked = lspServer[c].asked
           /\ lspServer'[c].versions = lspServer[c].versions
           /\ \A d \in Servers : d # c => lspServer'[d] = lspServer[d]
<1>1. PICK o, p, q, r : /\ o = lspServer[c] /\ p = [o EXCEPT !.heard = v] /\ q = [p EXCEPT !.text = n]
                        /\ r = [q EXCEPT !.muddled = m]
  OBVIOUS
<1>2. o \in LspStates
  BY <1>1 DEF LspShape
<1>3. /\ p \in LspStates /\ p.heard = v /\ p.proc = o.proc /\ p.nextId = o.nextId
      /\ p.pending = o.pending /\ p.asked = o.asked /\ p.versions = o.versions
  BY <1>1, <1>2 DEF LspStates
<1>4. /\ q \in LspStates /\ q.heard = v /\ q.text = n /\ q.proc = o.proc /\ q.nextId = o.nextId
      /\ q.pending = o.pending /\ q.asked = o.asked /\ q.versions = o.versions
  BY <1>1, <1>3 DEF LspStates
<1>5. /\ r \in LspStates /\ r.heard = v /\ r.text = n /\ r.muddled = m /\ r.proc = o.proc /\ r.nextId = o.nextId
      /\ r.pending = o.pending /\ r.asked = o.asked /\ r.versions = o.versions
  BY <1>1, <1>4 DEF LspStates
<1>6. lspServer' = [lspServer EXCEPT ![c] = r]
  <2>1. r = [o EXCEPT !.heard = v, !.text = n, !.muddled = m]
    BY <1>1, Zenon
  <2> QED BY <1>1, <2>1
<1>7. /\ lspServer' \in [Servers -> LspStates] /\ lspServer'[c] = r
      /\ \A d \in Servers : d # c => lspServer'[d] = lspServer[d]
  BY <1>5, <1>6, LspServerSet
<1> QED BY <1>1, <1>5, <1>7

LEMMA LspSendKeeps ==
    ASSUME LspInv, NEW t \in LspCallers, SendDocument(t)
    PROVE  LspInv'
<1>1. PICK c \in Servers : c = lspCall[t].target
  BY DEF SendDocument, LspInv, LspWhere
<1>2. lspCall[t].pc = "watched" /\ UNCHANGED <<lspText, lspTable, lspClosing, lspRaced, lspCrossed>>
  BY DEF SendDocument, KeepTable, KeepHistory
<1>3. CASE LspEnd(t) /\ UNCHANGED lspServer
  BY <1>2, <1>3, LspEndKeeps
<1>4. CASE ~(LspEnd(t) /\ UNCHANGED lspServer)
  <2>0. lspCall[t] \in LspRecords /\ lspServer[c] \in LspStates
    BY DEF LspInv, LspShape
  <2>1. PICK v \in Int, n \in Nat, m \in BOOLEAN :
          v = lspCall[t].version /\ n = lspCall[t].text /\ m = (lspServer[c].muddled \/ v # lspServer[c].heard + 1)
    BY <2>0 DEF LspRecords
  <2>2. /\ lspServer' = [lspServer EXCEPT ![c] =
                [@ EXCEPT !.heard = v, !.text = n, !.muddled = lspServer[c].muddled \/ v # lspServer[c].heard + 1]]
        /\ LspGoto(t, "sent")
    BY <1>1, <1>4, <2>1 DEF SendDocument
  <2>3. lspServer' = [lspServer EXCEPT ![c] = [@ EXCEPT !.heard = v, !.text = n, !.muddled = m]]
    BY <2>1, <2>2
  <2>4. /\ lspServer' \in [Servers -> LspStates]
        /\ lspServer'[c].heard = v /\ lspServer'[c].text = n /\ lspServer'[c].muddled = m
        /\ lspServer'[c].proc = lspServer[c].proc /\ lspServer'[c].nextId = lspServer[c].nextId
        /\ lspServer'[c].pending = lspServer[c].pending /\ lspServer'[c].asked = lspServer[c].asked
        /\ lspServer'[c].versions = lspServer[c].versions
        /\ \A d \in Servers : d # c => lspServer'[d] = lspServer[d]
    BY <2>3, LspHeardSet DEF LspInv
  <2>5. /\ lspCall' \in [LspCallers -> LspRecords] /\ lspCall'[t].pc = "sent"
        /\ lspCall'[t].client = lspCall[t].client /\ lspCall'[t].target = c
        /\ lspCall'[t].version = v /\ lspCall'[t].text = n
        /\ \A u \in LspCallers : u # t => lspCall'[u] = lspCall[u]
    <3>1. "sent" \in LspSteps
      BY DEF LspSteps
    <3> QED BY <1>1, <2>1, <2>2, <3>1, LspGotoSet DEF LspInv
  <2>6. v >= 0 /\ n <= lspText
    BY <1>2, <2>1 DEF LspInv, LspWhere
  <2>7. LspShape'
    BY <1>2, <2>4, <2>5 DEF LspInv, LspShape
  <2>8. LspWire'
    BY <1>2, <2>4, <2>6 DEF LspInv, LspWire
  <2>9. LspWhere' /\ LspOwned'
    <3>1. t \notin Starting
      BY <1>2 DEF Starting
    <3> QED BY <1>1, <1>2, <2>4, <2>5, <2>6, <3>1, LspCallKeeps
  <2>10. LspInOrder'
    <3>1. \A d \in Servers : Sending(d)' = Sending(d)
      BY <1>1, <1>2, <2>5 DEF Sending
    <3>2. \A d \in Servers : d # c => t \notin Sending(d)
      BY <1>1 DEF Sending
    <3>3. ASSUME NEW d \in Servers, d \notin lspRaced', d # c PROVE LET s == lspServer'[d] IN
          /\ ~s.muddled
          /\ (\A w, u \in Sending(d) : w = u)'
          /\ (\A w \in Sending(d) : lspCall[w].version = lspServer[d].versions + 1)'
          /\ (\A w \in Sending(d) : lspCall[w].pc = "watched" => lspServer[d].heard = lspServer[d].versions /\ lspCall[w].text >= lspServer[d].text)'
          /\ (\A w \in Sending(d) : lspCall[w].pc = "sent" => lspServer[d].heard = lspCall[w].version)'
          /\ (Sending(d) = {} => lspServer[d].heard = lspServer[d].versions)'
          /\ (\A w \in LspCallers :
               lspCall[w].pc \in {"sent", "request", "await"} /\ lspCall[w].target = d => lspServer[d].text >= lspCall[w].text)'
      BY <1>1, <1>2, <2>4, <2>5, <3>1, <3>2, <3>3 DEF LspInv, LspInOrder, Sending
    <3>4. ASSUME c \notin lspRaced' PROVE LET s == lspServer'[c] IN
          /\ ~s.muddled
          /\ (\A w, u \in Sending(c) : w = u)'
          /\ (\A w \in Sending(c) : lspCall[w].version = lspServer[c].versions + 1)'
          /\ (\A w \in Sending(c) : lspCall[w].pc = "watched" => lspServer[c].heard = lspServer[c].versions /\ lspCall[w].text >= lspServer[c].text)'
          /\ (\A w \in Sending(c) : lspCall[w].pc = "sent" => lspServer[c].heard = lspCall[w].version)'
          /\ (Sending(c) = {} => lspServer[c].heard = lspServer[c].versions)'
          /\ (\A w \in LspCallers :
               lspCall[w].pc \in {"sent", "request", "await"} /\ lspCall[w].target = c => lspServer[c].text >= lspCall[w].text)'
      <4>1. c \notin lspRaced /\ t \in Sending(c)
        BY <1>1, <1>2, <3>4 DEF Sending
      <4>2. Sending(c) = {t} /\ ~lspServer[c].muddled /\ v = lspServer[c].versions + 1
            /\ lspServer[c].heard = lspServer[c].versions /\ n >= lspServer[c].text
        BY <1>2, <2>1, <4>1 DEF LspInv, LspInOrder
      <4>3. m = FALSE
        BY <2>1, <4>2
      <4>4. \A w \in LspCallers : lspCall[w].pc \in {"sent", "request", "await"} /\ lspCall[w].target = c
                => lspServer[c].text >= lspCall[w].text /\ lspCall[w].text \in Nat
        BY <4>1 DEF LspInv, LspInOrder, LspShape, LspRecords
      <4>5. lspServer[c].text \in Nat
        BY <2>0 DEF LspStates
      <4>6. \A w \in LspCallers :
               lspCall'[w].pc \in {"sent", "request", "await"} /\ lspCall'[w].target = c => lspServer'[c].text >= lspCall'[w].text
        BY <2>4, <2>5, <4>2, <4>4, <4>5
      <4> QED BY <2>4, <2>5, <3>1, <4>2, <4>3, <4>6
    <3> QED BY <3>3, <3>4 DEF LspInOrder
  <2> QED BY <1>2, <2>7, <2>8, <2>9, <2>10 DEF LspInv
<1> QED BY <1>3, <1>4

LEMMA LspStoreKeeps ==
    ASSUME LspInv, NEW t \in LspCallers, StoreVersion(t)
    PROVE  LspInv'
<1>1. PICK c \in Servers : c = lspCall[t].target
  BY DEF StoreVersion, LspInv, LspWhere
<1>2. /\ lspCall[t].pc = "sent" /\ UNCHANGED <<lspText, lspTable, lspClosing, lspRaced, lspCrossed>>
      /\ LspGoto(t, "request")
  BY DEF StoreVersion, KeepTable, KeepHistory
<1>3. lspCall[t] \in LspRecords /\ lspServer[c] \in LspStates
  BY DEF LspInv, LspShape
<1>4. PICK v \in Int, s \in LspStates : v = lspCall[t].version /\ s = [lspServer[c] EXCEPT !.versions = v]
  <2>1. lspCall[t].version \in Int
    BY <1>3 DEF LspRecords
  <2>2. [lspServer[c] EXCEPT !.versions = lspCall[t].version] \in LspStates
    BY <1>3, <2>1 DEF LspStates
  <2> QED BY <2>1, <2>2
<1>5. /\ s \in LspStates /\ s.versions = v /\ s.heard = lspServer[c].heard /\ s.text = lspServer[c].text
      /\ s.muddled = lspServer[c].muddled /\ s.proc = lspServer[c].proc /\ s.nextId = lspServer[c].nextId
      /\ s.pending = lspServer[c].pending /\ s.asked = lspServer[c].asked
  BY <1>3, <1>4 DEF LspStates
<1>6. lspServer' = [lspServer EXCEPT ![c] = s]
  BY <1>1, <1>4 DEF StoreVersion
<1>7. /\ lspServer' \in [Servers -> LspStates] /\ lspServer'[c] = s
      /\ \A d \in Servers : d # c => lspServer'[d] = lspServer[d]
  BY <1>5, <1>6, LspServerSet DEF LspInv
<1>8. /\ lspCall' \in [LspCallers -> LspRecords] /\ lspCall'[t].pc = "request"
      /\ lspCall'[t].client = lspCall[t].client /\ lspCall'[t].target = c
      /\ lspCall'[t].version = v /\ lspCall'[t].text = lspCall[t].text
      /\ \A u \in LspCallers : u # t => lspCall'[u] = lspCall[u]
  <2>1. "request" \in LspSteps
    BY DEF LspSteps
  <2> QED BY <1>1, <1>2, <1>4, <2>1, LspGotoSet DEF LspInv
<1>9. v >= 0 /\ lspServer[c].heard >= 0 /\ lspServer[c].heard # -1
  BY <1>1, <1>2, <1>3, <1>4 DEF LspInv, LspWhere, LspStates
<1>10. LspShape'
  BY <1>2, <1>7, <1>8 DEF LspInv, LspShape
<1>11. LspWire'
  BY <1>2, <1>5, <1>7, <1>9 DEF LspInv, LspWire
<1>12. LspWhere' /\ LspOwned'
  <2>1. t \notin Starting
    BY <1>2 DEF Starting
  <2> QED BY <1>1, <1>2, <1>5, <1>7, <1>8, <2>1, LspCallKeeps
<1>13. LspInOrder'
  <2>1. \A d \in Servers : Sending(d)' = Sending(d) \ {t}
    BY <1>1, <1>2, <1>8 DEF Sending
  <2>2. \A d \in Servers : d # c => t \notin Sending(d)
    BY <1>1 DEF Sending
  <2>3. ASSUME NEW d \in Servers, d \notin lspRaced', d # c PROVE LET r == lspServer'[d] IN
        /\ ~r.muddled
        /\ (\A w, u \in Sending(d) : w = u)'
        /\ (\A w \in Sending(d) : lspCall[w].version = lspServer[d].versions + 1)'
        /\ (\A w \in Sending(d) : lspCall[w].pc = "watched" => lspServer[d].heard = lspServer[d].versions /\ lspCall[w].text >= lspServer[d].text)'
        /\ (\A w \in Sending(d) : lspCall[w].pc = "sent" => lspServer[d].heard = lspCall[w].version)'
        /\ (Sending(d) = {} => lspServer[d].heard = lspServer[d].versions)'
        /\ (\A w \in LspCallers :
             lspCall[w].pc \in {"sent", "request", "await"} /\ lspCall[w].target = d => lspServer[d].text >= lspCall[w].text)'
    <3>1. Sending(d)' = Sending(d) /\ lspServer'[d] = lspServer[d]
      BY <1>7, <2>1, <2>2, <2>3
    <3>2. \A w \in Sending(d) : lspCall'[w] = lspCall[w]
      BY <1>8, <2>2, <2>3 DEF Sending
    <3> QED BY <1>2, <1>8, <2>3, <3>1, <3>2 DEF LspInv, LspInOrder
  <2>4. ASSUME c \notin lspRaced' PROVE LET r == lspServer'[c] IN
        /\ ~r.muddled
        /\ (\A w, u \in Sending(c) : w = u)'
        /\ (\A w \in Sending(c) : lspCall[w].version = lspServer[c].versions + 1)'
        /\ (\A w \in Sending(c) : lspCall[w].pc = "watched" => lspServer[c].heard = lspServer[c].versions /\ lspCall[w].text >= lspServer[c].text)'
        /\ (\A w \in Sending(c) : lspCall[w].pc = "sent" => lspServer[c].heard = lspCall[w].version)'
        /\ (Sending(c) = {} => lspServer[c].heard = lspServer[c].versions)'
        /\ (\A w \in LspCallers :
             lspCall[w].pc \in {"sent", "request", "await"} /\ lspCall[w].target = c => lspServer[c].text >= lspCall[w].text)'
    <3>1. c \notin lspRaced /\ t \in Sending(c)
      BY <1>1, <1>2, <2>4 DEF Sending
    <3>2. Sending(c) = {t} /\ ~lspServer[c].muddled /\ lspServer[c].heard = v
      BY <1>2, <1>4, <3>1 DEF LspInv, LspInOrder
    <3>3. Sending(c)' = {}
      BY <2>1, <3>2
    <3>4. \A w \in LspCallers :
             lspCall'[w].pc \in {"sent", "request", "await"} /\ lspCall'[w].target = c => lspServer'[c].text >= lspCall'[w].text
      BY <1>1, <1>2, <1>5, <1>7, <1>8, <3>1 DEF LspInv, LspInOrder
    <3> QED BY <1>5, <1>7, <3>2, <3>3, <3>4
  <2> QED BY <2>3, <2>4 DEF LspInOrder
<1> QED BY <1>2, <1>10, <1>11, <1>12, <1>13 DEF LspInv

\* A server that only asks or answers.
LEMMA LspAskSet ==
    ASSUME LspShape, NEW c \in Servers, NEW i \in Nat, NEW a \in SUBSET LspAsks, NEW b \in SUBSET LspAsks,
           lspServer' = [lspServer EXCEPT ![c] = [@ EXCEPT !.nextId = i, !.asked = a, !.pending = b]]
    PROVE  /\ lspServer' \in [Servers -> LspStates]
           /\ lspServer'[c].nextId = i /\ lspServer'[c].asked = a /\ lspServer'[c].pending = b
           /\ \A d \in Servers : /\ lspServer'[d].proc = lspServer[d].proc /\ lspServer'[d].versions = lspServer[d].versions
                                 /\ lspServer'[d].heard = lspServer[d].heard /\ lspServer'[d].text = lspServer[d].text
                                 /\ lspServer'[d].muddled = lspServer[d].muddled
           /\ \A d \in Servers : d # c => lspServer'[d] = lspServer[d]
<1>1. PICK o, p, q, r : /\ o = lspServer[c] /\ p = [o EXCEPT !.nextId = i] /\ q = [p EXCEPT !.asked = a]
                        /\ r = [q EXCEPT !.pending = b]
  OBVIOUS
<1>2. o \in LspStates
  BY <1>1 DEF LspShape
<1>3. /\ p \in LspStates /\ p.nextId = i /\ p.proc = o.proc /\ p.versions = o.versions
      /\ p.heard = o.heard /\ p.text = o.text /\ p.muddled = o.muddled
  BY <1>1, <1>2 DEF LspStates
<1>4. /\ q \in LspStates /\ q.nextId = i /\ q.asked = a /\ q.proc = o.proc /\ q.versions = o.versions
      /\ q.heard = o.heard /\ q.text = o.text /\ q.muddled = o.muddled
  BY <1>1, <1>3 DEF LspStates
<1>5. /\ r \in LspStates /\ r.nextId = i /\ r.asked = a /\ r.pending = b /\ r.proc = o.proc /\ r.versions = o.versions
      /\ r.heard = o.heard /\ r.text = o.text /\ r.muddled = o.muddled
  BY <1>1, <1>4 DEF LspStates
<1>6. lspServer' = [lspServer EXCEPT ![c] = r]
  <2>1. r = [o EXCEPT !.nextId = i, !.asked = a, !.pending = b]
    BY <1>1, Zenon
  <2> QED BY <1>1, <2>1
<1>7. /\ lspServer' \in [Servers -> LspStates] /\ lspServer'[c] = r
      /\ \A d \in Servers : d # c => lspServer'[d] = lspServer[d]
  BY <1>5, <1>6, LspServerSet
<1>8. \A d \in Servers : /\ lspServer'[d].proc = lspServer[d].proc /\ lspServer'[d].versions = lspServer[d].versions
                         /\ lspServer'[d].heard = lspServer[d].heard /\ lspServer'[d].text = lspServer[d].text
                         /\ lspServer'[d].muddled = lspServer[d].muddled
  <2> SUFFICES ASSUME NEW d \in Servers
               PROVE  /\ lspServer'[d].proc = lspServer[d].proc /\ lspServer'[d].versions = lspServer[d].versions
                      /\ lspServer'[d].heard = lspServer[d].heard /\ lspServer'[d].text = lspServer[d].text
                      /\ lspServer'[d].muddled = lspServer[d].muddled
    OBVIOUS
  <2> QED BY <1>1, <1>5, <1>7
<1> QED BY <1>5, <1>7, <1>8

\* Where no server changes what it was sent and no call what it sends, the order stays.
LEMMA LspOrderKeeps ==
    ASSUME LspInOrder,
           \A d \in Servers : /\ lspServer'[d].versions = lspServer[d].versions
                              /\ lspServer'[d].heard = lspServer[d].heard /\ lspServer'[d].text = lspServer[d].text
                              /\ lspServer'[d].muddled = lspServer[d].muddled,
           \A d \in Servers : Sending(d)' = Sending(d),
           \A d \in Servers : \A w \in Sending(d) : lspCall'[w] = lspCall[w],
           \A d \in Servers, w \in LspCallers :
               lspCall'[w].pc \in {"sent", "request", "await"} /\ lspCall'[w].target = d =>
                   /\ lspCall[w].pc \in {"sent", "request", "await"} /\ lspCall[w].target = d
                   /\ lspCall'[w].text = lspCall[w].text,
           UNCHANGED lspRaced
    PROVE  LspInOrder'
BY DEF LspInOrder

LEMMA LspAskKeeps ==
    ASSUME LspInv, NEW t \in LspCallers, SendRequest(t)
    PROVE  LspInv'
<1>1. PICK c \in Servers : c = lspCall[t].client
  BY DEF SendRequest, LspInv, LspWhere
<1>2. lspCall[t].pc = "request" /\ UNCHANGED <<lspText, lspTable, lspClosing, lspRaced, lspCrossed>>
  BY DEF SendRequest, KeepTable, KeepHistory
<1>3. CASE LspEnd(t) /\ UNCHANGED lspServer
  BY <1>2, <1>3, LspEndKeeps
<1>4. CASE ~(LspEnd(t) /\ UNCHANGED lspServer)
  <2>1. PICK o : o = lspServer[c]
    OBVIOUS
  <2>2. /\ o \in LspStates /\ o.nextId \in Nat /\ o.asked \in SUBSET LspAsks /\ o.pending \in SUBSET LspAsks
        /\ lspCall[t] \in LspRecords
    BY <2>1 DEF LspInv, LspShape, LspStates
  <2>3. PICK mine : mine = [id |-> o.nextId, by |-> t]
    OBVIOUS
  <2>4. mine \in LspAsks /\ mine.id = o.nextId
    BY <2>2, <2>3 DEF LspAsks
  <2>5. /\ lspServer' = [lspServer EXCEPT ![c] =
                [lspServer[c] EXCEPT !.nextId = @ + 1, !.asked = @ \cup {mine},
                                     !.pending = @ \cup {mine}]]
        /\ lspCall' = [lspCall EXCEPT ![t].pc = "await", ![t].id = mine.id]
    BY <1>1, <1>4, <2>1, <2>3 DEF SendRequest
  <2>6. PICK i \in Nat, a \in SUBSET LspAsks, b \in SUBSET LspAsks :
           i = o.nextId + 1 /\ a = o.asked \cup {mine} /\ b = o.pending \cup {mine}
    <3>1. o.nextId + 1 \in Nat /\ o.asked \cup {mine} \in SUBSET LspAsks /\ o.pending \cup {mine} \in SUBSET LspAsks
      BY <2>2, <2>4
    <3> QED BY <3>1
  <2>7. lspServer' = [lspServer EXCEPT ![c] = [@ EXCEPT !.nextId = i, !.asked = a, !.pending = b]]
    <3>1. lspServer' = [lspServer EXCEPT ![c] =
              [@ EXCEPT !.nextId = o.nextId + 1, !.asked = o.asked \cup {mine}, !.pending = o.pending \cup {mine}]]
      BY <2>1, <2>5
    <3> QED BY <2>6, <3>1, Zenon
  <2>8. /\ lspServer' \in [Servers -> LspStates]
        /\ lspServer'[c].nextId = i /\ lspServer'[c].asked = a /\ lspServer'[c].pending = b
        /\ \A d \in Servers : /\ lspServer'[d].proc = lspServer[d].proc /\ lspServer'[d].versions = lspServer[d].versions
                              /\ lspServer'[d].heard = lspServer[d].heard /\ lspServer'[d].text = lspServer[d].text
                              /\ lspServer'[d].muddled = lspServer[d].muddled
        /\ \A d \in Servers : d # c => lspServer'[d] = lspServer[d]
    BY <2>7, LspAskSet DEF LspInv
  <2>9. /\ lspCall' \in [LspCallers -> LspRecords] /\ lspCall'[t].pc = "await"
        /\ lspCall'[t].client = lspCall[t].client /\ lspCall'[t].target = lspCall[t].target
        /\ lspCall'[t].text = lspCall[t].text
        /\ \A u \in LspCallers : u # t => lspCall'[u] = lspCall[u]
    <3>1. PICK l, p, q : l = lspCall[t] /\ p = [l EXCEPT !.pc = "await"] /\ q = [p EXCEPT !.id = mine.id]
      OBVIOUS
    <3>2. p \in LspRecords /\ p.pc = "await" /\ p.client = l.client /\ p.target = l.target /\ p.text = l.text
      BY <2>2, <3>1 DEF LspRecords, LspSteps
    <3>3. q \in LspRecords /\ q.pc = "await" /\ q.client = l.client /\ q.target = l.target /\ q.text = l.text
      BY <2>2, <2>4, <3>1, <3>2 DEF LspRecords
    <3>4. lspCall' = [lspCall EXCEPT ![t] = q]
      BY <2>5, <3>1 DEF LspInv, LspShape
    <3> QED BY <3>1, <3>3, <3>4, LspCallSet DEF LspInv
  <2>10. LspShape'
    BY <1>2, <2>8, <2>9 DEF LspInv, LspShape
  <2>11. LspWire'
    <3>1. /\ o.asked \subseteq o.pending /\ \A p \in o.pending : 1 <= p.id /\ p.id < o.nextId /\ p.id \in Nat
          /\ \A p, q \in o.pending : p.id = q.id => p = q
      BY <2>1, <2>2 DEF LspInv, LspWire, LspAsks
    <3>2. 1 <= o.nextId
      BY <2>1, <2>2 DEF LspInv, LspWire
    <3>3. /\ a \subseteq b /\ \A p \in b : 1 <= p.id /\ p.id < i
          /\ \A p, q \in b : p.id = q.id => p = q
          /\ i >= 1
      BY <2>2, <2>4, <2>6, <3>1, <3>2
    <3> QED BY <1>2, <2>6, <2>8, <3>3 DEF LspInv, LspWire
  <2>12. LspWhere' /\ LspOwned'
    <3>1. t \notin Starting
      BY <1>2 DEF Starting
    <3> QED BY <1>2, <2>8, <2>9, <3>1, LspCallKeeps
  <2>13. LspInOrder'
    <3>1. \A d \in Servers : Sending(d)' = Sending(d) /\ t \notin Sending(d)
      BY <1>2, <2>9 DEF Sending
    <3>2. \A d \in Servers : \A w \in Sending(d) : lspCall'[w] = lspCall[w]
      BY <2>9, <3>1 DEF Sending
    <3> QED BY <1>2, <2>8, <2>9, <3>1, <3>2, LspOrderKeeps DEF LspInv
  <2> QED BY <1>2, <2>10, <2>11, <2>12, <2>13 DEF LspInv
<1> QED BY <1>3, <1>4

LEMMA LspResponseKeeps ==
    ASSUME LspInv, NEW c \in Servers, HandleResponse(c)
    PROVE  LspInv'
<1>1. PICK o : o = lspServer[c]
  OBVIOUS
<1>2. /\ o \in LspStates /\ o.nextId \in Nat /\ o.asked \in SUBSET LspAsks /\ o.pending \in SUBSET LspAsks
      /\ o.asked \subseteq o.pending /\ \A p, q \in o.pending : p.id = q.id => p = q
  BY <1>1 DEF LspInv, LspShape, LspStates, LspWire
<1>3. PICK r \in o.asked, mine \in SUBSET o.pending, waiting \in SUBSET LspCallers :
        /\ mine = {p \in o.pending : p.id = r.id}
        /\ waiting = ({p.by : p \in mine} \cap
                {t \in LspCallers :
                    /\ lspCall[t].id = r.id
                    /\ \/ lspCall[t].pc = "await" /\ lspCall[t].client = c
                       \/ lspCall[t].pc = "initialize" /\ lspCall[t].target = c})
        /\ lspServer' = [lspServer EXCEPT ![c].asked = @ \ {r}, ![c].pending = @ \ mine]
        /\ lspCrossed' = lspCrossed \cup (waiting \ {r.by})
        /\ lspCall' = [t \in LspCallers |->
                IF t \notin waiting THEN lspCall[t]
                ELSE IF lspCall[t].pc = "initialize" THEN [lspCall[t] EXCEPT !.pc = "register"]
                ELSE NoLspCall]
  <2>1. PICK r \in o.asked : LET mine == {p \in lspServer[c].pending : p.id = r.id}
                               waiting == {p.by : p \in mine} \cap
                {t \in LspCallers :
                    /\ lspCall[t].id = r.id
                    /\ \/ lspCall[t].pc = "await" /\ lspCall[t].client = c
                       \/ lspCall[t].pc = "initialize" /\ lspCall[t].target = c} IN
        /\ lspServer' = [lspServer EXCEPT ![c].asked = @ \ {r}, ![c].pending = @ \ mine]
        /\ lspCrossed' = lspCrossed \cup (waiting \ {r.by})
        /\ lspCall' = [t \in LspCallers |->
                IF t \notin waiting THEN lspCall[t]
                ELSE IF lspCall[t].pc = "initialize" THEN [lspCall[t] EXCEPT !.pc = "register"]
                ELSE NoLspCall]
    BY <1>1, Zenon DEF HandleResponse
  <2> DEFINE mine == {p \in o.pending : p.id = r.id}
             waiting == ({p.by : p \in mine} \cap
                {t \in LspCallers :
                    /\ lspCall[t].id = r.id
                    /\ \/ lspCall[t].pc = "await" /\ lspCall[t].client = c
                       \/ lspCall[t].pc = "initialize" /\ lspCall[t].target = c})
  <2>2. /\ lspServer' = [lspServer EXCEPT ![c].asked = @ \ {r}, ![c].pending = @ \ mine]
        /\ lspCrossed' = lspCrossed \cup (waiting \ {r.by})
        /\ lspCall' = [t \in LspCallers |->
                IF t \notin waiting THEN lspCall[t]
                ELSE IF lspCall[t].pc = "initialize" THEN [lspCall[t] EXCEPT !.pc = "register"]
                ELSE NoLspCall]
    BY <1>1, <2>1
  <2> HIDE DEF waiting
  <2>3. waiting = ({p.by : p \in mine} \cap
                {t \in LspCallers :
                    /\ lspCall[t].id = r.id
                    /\ \/ lspCall[t].pc = "await" /\ lspCall[t].client = c
                       \/ lspCall[t].pc = "initialize" /\ lspCall[t].target = c})
    BY DEF waiting
  <2> HIDE DEF mine
  <2>4. mine = {p \in o.pending : p.id = r.id}
    BY DEF mine
  <2>5. mine \in SUBSET o.pending /\ waiting \in SUBSET LspCallers
    BY <2>3, <2>4
  <2> QED BY <2>2, <2>3, <2>4, <2>5
<1>4. UNCHANGED <<lspText, lspTable, lspClosing, lspRaced>>
  BY DEF HandleResponse, KeepTable
<1>5. mine = {r}
  BY <1>2, <1>3
<1>6. waiting \subseteq {r.by} /\ lspCrossed' = {}
  BY <1>3, <1>5 DEF LspInv
<1>7. /\ lspServer' \in [Servers -> LspStates]
      /\ lspServer'[c].nextId = o.nextId /\ lspServer'[c].asked = o.asked \ {r} /\ lspServer'[c].pending = o.pending \ mine
      /\ \A d \in Servers : /\ lspServer'[d].proc = lspServer[d].proc /\ lspServer'[d].versions = lspServer[d].versions
                            /\ lspServer'[d].heard = lspServer[d].heard /\ lspServer'[d].text = lspServer[d].text
                            /\ lspServer'[d].muddled = lspServer[d].muddled
      /\ \A d \in Servers : d # c => lspServer'[d] = lspServer[d]
  <2>1. PICK q, s : q = [o EXCEPT !.asked = o.asked \ {r}] /\ s = [q EXCEPT !.pending = o.pending \ mine]
    OBVIOUS
  <2>2. /\ q \in LspStates /\ q.asked = o.asked \ {r} /\ q.nextId = o.nextId /\ q.proc = o.proc
        /\ q.versions = o.versions /\ q.heard = o.heard /\ q.text = o.text /\ q.muddled = o.muddled
        /\ q.pending = o.pending
    BY <1>2, <2>1 DEF LspStates
  <2>3. /\ s \in LspStates /\ s.asked = o.asked \ {r} /\ s.nextId = o.nextId /\ s.proc = o.proc
        /\ s.versions = o.versions /\ s.heard = o.heard /\ s.text = o.text /\ s.muddled = o.muddled
        /\ s.pending = o.pending \ mine
    BY <1>2, <2>1, <2>2 DEF LspStates
  <2>4. lspServer' = [lspServer EXCEPT ![c] = s]
    BY <1>1, <1>3, <2>1, <2>2 DEF LspInv, LspShape
  <2>5. /\ lspServer' \in [Servers -> LspStates] /\ lspServer'[c] = s
        /\ \A d \in Servers : d # c => lspServer'[d] = lspServer[d]
    BY <2>3, <2>4, LspServerSet DEF LspInv
  <2>6. \A d \in Servers : /\ lspServer'[d].proc = lspServer[d].proc /\ lspServer'[d].versions = lspServer[d].versions
                           /\ lspServer'[d].heard = lspServer[d].heard /\ lspServer'[d].text = lspServer[d].text
                           /\ lspServer'[d].muddled = lspServer[d].muddled
    <3> SUFFICES ASSUME NEW d \in Servers
                 PROVE  /\ lspServer'[d].proc = lspServer[d].proc /\ lspServer'[d].versions = lspServer[d].versions
                        /\ lspServer'[d].heard = lspServer[d].heard /\ lspServer'[d].text = lspServer[d].text
                        /\ lspServer'[d].muddled = lspServer[d].muddled
      OBVIOUS
    <3> QED BY <1>1, <2>3, <2>5
  <2> QED BY <2>3, <2>5, <2>6
<1>8. /\ lspCall' \in [LspCallers -> LspRecords]
      /\ \A t \in LspCallers :
           \/ lspCall'[t] = lspCall[t]
           \/ /\ lspCall[t].pc = "initialize" /\ lspCall'[t].pc = "register" /\ lspCall'[t].client = lspCall[t].client
              /\ lspCall'[t].target = lspCall[t].target
           \/ lspCall[t].pc = "await" /\ lspCall'[t].pc = "none" /\ lspCall'[t].client = NoServer
  <2>1. \A t \in waiting : lspCall[t].pc \in {"await", "initialize"}
    BY <1>3
  <2>2. ASSUME NEW t \in LspCallers PROVE
           /\ lspCall'[t] \in LspRecords
           /\ \/ lspCall'[t] = lspCall[t]
              \/ /\ lspCall[t].pc = "initialize" /\ lspCall'[t].pc = "register" /\ lspCall'[t].client = lspCall[t].client
                 /\ lspCall'[t].target = lspCall[t].target
              \/ lspCall[t].pc = "await" /\ lspCall'[t].pc = "none" /\ lspCall'[t].client = NoServer
    <3>1. PICK l, u : l = lspCall[t] /\ u = [l EXCEPT !.pc = "register"]
      OBVIOUS
    <3>2. l \in LspRecords
      BY <3>1 DEF LspInv, LspShape
    <3>3. u \in LspRecords /\ u.pc = "register" /\ u.client = l.client /\ u.target = l.target
      BY <3>1, <3>2 DEF LspRecords, LspSteps
    <3>4. \/ lspCall'[t] = l
          \/ t \in waiting /\ l.pc = "initialize" /\ lspCall'[t] = u
          \/ t \in waiting /\ l.pc # "initialize" /\ lspCall'[t] = NoLspCall
      BY <1>3, <3>1
    <3> QED BY <2>1, <3>1, <3>2, <3>3, <3>4, LspEmpty
  <2>3. lspCall' = [t \in LspCallers |-> lspCall'[t]]
    BY <1>3
  <2> QED BY <2>2, <2>3
<1>9. LspShape'
  BY <1>4, <1>7, <1>8 DEF LspInv, LspShape
<1>10. LspWire'
  BY <1>1, <1>2, <1>3, <1>4, <1>5, <1>7 DEF LspInv, LspWire
<1>11. LspWhere'
  <2>1. /\ \A d \in SomeServer : d # NoServer => d \in Servers
        /\ lspTable \in SomeServer /\ \A u \in LspCallers : lspCall[u].client \in SomeServer
    BY DEF LspInv, LspShape, LspRecords, SomeServer
  <2>2. lspTable' # NoServer => lspServer'[lspTable'].proc # "none"
    BY <1>4, <1>7, <2>1 DEF LspInv, LspWhere
  <2>3. ASSUME NEW u \in LspCallers PROVE LET l == lspCall'[u] IN
        /\ l.pc \in {"initialize", "register"} => l.target \in Servers /\ lspServer'[l.target].proc # "none"
        /\ l.pc \in {"touch", "watched", "sent", "request", "await"} => l.target \in Servers /\ l.client \in Servers
        /\ l.pc \in {"watched", "sent"} => l.version >= 0 /\ l.text <= lspText'
        /\ l.pc = "sent" => lspServer'[l.target].heard >= 0
        /\ l.client # NoServer => lspServer'[l.client].proc # "none"
    BY <1>4, <1>7, <1>8, <2>1 DEF LspInv, LspWhere
  <2> QED BY <2>2, <2>3 DEF LspWhere
<1>12. LspOwned'
  <2>1. Starting' = Starting
    BY <1>8 DEF Starting
  <2>2. \A u \in LspCallers : lspCall[u].pc \in {"initialize", "register"} =>
           lspCall'[u].pc \in {"initialize", "register"} /\ lspCall'[u].target = lspCall[u].target
    BY <1>8
  <2>3. lspTable \in SomeServer /\ \A d \in SomeServer : d # NoServer => d \in Servers
    BY DEF LspInv, LspShape, SomeServer
  <2> QED BY <1>4, <1>7, <2>1, <2>2, <2>3 DEF LspInv, LspOwned
<1>13. LspInOrder'
  <2>1. \A d \in Servers : Sending(d)' = Sending(d)
    BY <1>8 DEF Sending
  <2>2. \A d \in Servers : \A w \in Sending(d) : lspCall'[w] = lspCall[w]
    BY <1>8 DEF Sending
  <2> QED BY <1>4, <1>7, <1>8, <2>1, <2>2, LspOrderKeeps DEF LspInv
<1> QED BY <1>6, <1>9, <1>10, <1>11, <1>12, <1>13 DEF LspInv

LEMMA LspStutter == ASSUME LspInv, UNCHANGED lspVars PROVE LspInv'
<1>1. UNCHANGED <<lspTable, lspServer, lspCall, lspText, lspClosing, lspRaced, lspCrossed>>
  BY DEF lspVars
<1> QED BY <1>1 DEF LspInv, LspShape, LspWire, LspWhere, LspOwned, LspInOrder, Starting, Sending

LEMMA LspStep == ASSUME LspInv, [LspNext]_lspVars PROVE LspInv'
<1>1. CASE UNCHANGED lspVars
  BY <1>1, LspStutter
<1>2. ASSUME NEW t \in LspCallers, LspCallBegins(t) \/ CallStep(t) PROVE LspInv'
  <2>1. CASE RequestTimesOut(t)
    BY <2>1, LspEndKeeps DEF RequestTimesOut, KeepTable, KeepHistory
  <2> QED BY <1>2, <2>1, LspBeginsKeeps, LspGetKeeps, LspSpawnKeeps, LspFailKeeps, LspRegisterKeeps,
             LspReadKeeps, LspSendKeeps, LspStoreKeeps, LspAskKeeps DEF CallStep
<1>3. ASSUME NEW c \in Servers, HandleResponse(c) \/ ServerDies(c) \/ KillServer(c) PROVE LspInv'
  BY <1>3, LspResponseKeeps, LspDieKeeps, LspKillKeeps
<1>4. CASE EditDocument
  BY <1>4, LspEditKeeps
<1>5. CASE CloseAll
  BY <1>5, LspCloseKeeps
<1> QED BY <1>1, <1>2, <1>3, <1>4, <1>5 DEF LspNext

\* A tool gets the answer to its own question, about the text as it was or
\* newer; a server hears the versions of a document in order and outlives
\* neither the table nor the call that started it, unless two calls started
\* servers or sent the document at once (_get_or_create, _open_or_change).
THEOREM ServersServe == LspSpec => []LspServed
<1>1. LspSpec => []LspInv
  BY LspInitInv, LspStep, PTL DEF LspSpec
<1> QED BY <1>1, LspServes, PTL
=============================================================================
