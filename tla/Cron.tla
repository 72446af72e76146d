------------------------------- MODULE Cron -------------------------------
(***************************************************************************)
(* Scheduled jobs: the loop and the operations of CronManager              *)
(* (domains/cron/manager.py) on CronFileStore (domains/cron/store.py).     *)
(*                                                                         *)
(* The store keeps one JSON file and a cache of CronJob objects.  Every    *)
(* change loads the file, changes the list and writes the file, in threads *)
(* with awaits between them; the list then becomes the cache.  The cache,  *)
(* the due list of a tick and a running operation hold references: a tick  *)
(* changes the very object an editor is looking at, or a copy that nobody  *)
(* else sees any more, depending on who replaced the cache last.           *)
(***************************************************************************)
EXTENDS Integers, Sequences, SequencesExt, FiniteSetsExt, Functions

CONSTANTS
    JobIds,
    Schedule,     \* of each job: [kind |-> "at" | "every" | "cron", n |-> time or period]
    Editors,      \* agents (tool cron) and routes that call the manager
    Poll,         \* POLL_INTERVAL_SEC
    NoJob, NoCache, Torn,
    MaxTime,      \* bound: the clock; there sleeps end at once
    MaxEdits,     \* bound: calls of the editors
    MaxCronFaults \* bound: crashes and failing writes

ASSUME CronAssumption ==
    /\ \A i \in JobIds : Schedule[i].kind \in {"at", "every", "cron"} /\ Schedule[i].n \in Nat \ {0}
    /\ "loop" \notin Editors
    /\ {Poll, MaxEdits, MaxCronFaults} \subseteq Nat /\ MaxTime \in Nat \ {0}
    /\ IsFiniteSet(JobIds) /\ IsFiniteSet(Editors)

VARIABLES
    now,        \* _now_ms()
    cronFile,   \* the jobs in jobs.json, or Torn while it is half written
    heap,       \* CronJob objects: Obj -> job
    cronCache,  \* _cache: the object of each id
    loop,       \* _run_loop and _on_tick: [at, due, wake]
    op,         \* the store call of each caller
    fate,       \* history: how far each job has come: unborn, added, removed
    want,       \* history: the last acknowledged setting of enabled, if no tick saw it
    ran,        \* history: how often ticks executed a job
    orderly,    \* history: no two store calls overlapped, no write was cut off
    cronUsed    \* bounds spent: [edits, faults]

cronVars == <<now, cronFile, heap, cronCache, loop, op, fate, want, ran, orderly, cronUsed>>
Callers == Editors \cup {"loop"}

-----------------------------------------------------------------------------
Slots == 1 .. 3 + Cardinality(Editors)
Obj == JobIds \X Slots
Jobs == [enabled : BOOLEAN, next : Nat, last : Nat]
JobLists == [JobIds -> Jobs \cup {NoJob}]
ASSUME ReferenceAssumption ==
    /\ NoJob \notin JobIds \cup Obj \cup Jobs /\ Torn \notin JobLists
    /\ NoCache \notin [JobIds -> Obj \cup {NoJob}]

Resting == [kind |-> "none", id |-> NoJob, obj |-> NoJob, jobs |-> <<>>, step |-> "none"]
NoJobs == [i \in JobIds |-> NoJob]

\* What a reference can reach; slots beyond it are free.
Held ==
    (IF cronCache = NoCache THEN {} ELSE Range(cronCache)) \cup Range(loop.due)
        \cup {op[c].obj : c \in Callers}
FreshObj(i) == <<i, CHOOSE g \in Slots : <<i, g>> \notin Held>>

\* Mutant of NextRun: a job is due again at the very time it has run.
NextRun_Inclusive(i, last, t) ==
    LET s == Schedule[i] IN
    CASE s.kind = "at"    -> IF s.n >= t THEN s.n ELSE 0
      [] s.kind = "every" -> (IF last # 0 THEN last ELSE t) + s.n
      [] s.kind = "cron"  -> ((t \div s.n) + 1) * s.n

\* _next_run_ms: 0 stands for None.
NextRun(i, last, t) ==
    LET s == Schedule[i] IN
    CASE s.kind = "at"    -> IF s.n > t THEN s.n ELSE 0
      [] s.kind = "every" -> (IF last # 0 THEN last ELSE t) + s.n
      [] s.kind = "cron"  -> ((t \div s.n) + 1) * s.n

\* state.next_run_at_ms or _next_run_ms(job, now)
WakeOf(job, i) == IF job.next # 0 THEN job.next ELSE NextRun(i, job.last, now)
Wakes == {WakeOf(heap[cronCache[i]], i) :
            i \in {k \in JobIds : cronCache[k] # NoJob /\ heap[cronCache[k]].enabled}} \ {0}
\* Mutants of Due: disabled jobs run too; a job that is late is missed.
Due_IgnoresEnabled(i) ==
    cronCache[i] # NoJob /\ WakeOf(heap[cronCache[i]], i) \in 1 .. now
Due_Exact(i) ==
    /\ cronCache[i] # NoJob
    /\ heap[cronCache[i]].enabled
    /\ WakeOf(heap[cronCache[i]], i) = now + 1

Due(i) ==
    /\ cronCache[i] # NoJob
    /\ heap[cronCache[i]].enabled
    /\ WakeOf(heap[cronCache[i]], i) \in 1 .. now

\* Mutant of Loaded: the cache is trusted, or nothing.
Loaded_FromCache ==
    [i \in JobIds |-> IF cronCache = NoCache \/ cronCache[i] = NoJob THEN NoJob ELSE heap[cronCache[i]]]

Loaded == IF cronFile = Torn THEN NoJobs ELSE cronFile
Quiet == \A c \in Callers : op[c] = Resting
\* A call of the store begins; another one may be under way.
Begin(c, kind, i, obj) ==
    /\ op[c] = Resting
    /\ op' = [op EXCEPT ![c] = [kind |-> kind, id |-> i, obj |-> obj, jobs |-> NoJobs,
                                step |-> "load"]]
    /\ orderly' = (orderly /\ Quiet)
Edit(c) == cronUsed.edits < MaxEdits /\ cronUsed' = [cronUsed EXCEPT !.edits = @ + 1]
Unseen(i) == want' = [want EXCEPT ![i] = "unknown"]
\* _belongs_to_user is abstracted: an editor finds every job.
Finds(c, i) == c \in Editors /\ cronCache # NoCache /\ cronCache[i] # NoJob /\ op[c] = Resting

-----------------------------------------------------------------------------
CronInit ==
    /\ now = 1
    /\ cronFile = NoJobs
    /\ heap = [o \in Obj |-> NoJob]
    /\ cronCache = NoCache
    /\ loop = [at |-> "arm", due |-> <<>>, wake |-> 0]
    /\ op = [c \in Callers |-> Resting]
    /\ fate = [i \in JobIds |-> "unborn"]
    /\ want = [i \in JobIds |-> "unknown"]
    /\ ran = [i \in JobIds |-> 0]
    /\ orderly = TRUE
    /\ cronUsed = [edits |-> 0, faults |-> 0]

-----------------------------------------------------------------------------
(* What the editors call.                                                  *)

AddJob(c, i) ==
    /\ c \in Editors /\ fate[i] = "unborn" /\ Edit(c)
    /\ Begin(c, "add", i, FreshObj(i))
    /\ heap' = [heap EXCEPT ![FreshObj(i)] = [enabled |-> TRUE, next |-> NextRun(i, 0, now), last |-> 0]]
    /\ fate' = [fate EXCEPT ![i] = "adding"]
    /\ UNCHANGED <<now, cronFile, cronCache, loop, want, ran>>

RemoveJob(c, i) ==
    /\ Finds(c, i) /\ Edit(c)
    /\ Begin(c, "remove", i, NoJob)
    /\ UNCHANGED <<now, cronFile, heap, cronCache, loop, fate, want, ran>>

\* set_job_enabled, and the update of the cron tool: the object changes at
\* once, before it is stored.
SetEnabled(c, i, b) ==
    /\ Finds(c, i) /\ Edit(c)
    /\ heap' = [heap EXCEPT ![cronCache[i]].enabled = b]
    /\ Begin(c, "update", i, cronCache[i])
    /\ Unseen(i)
    /\ UNCHANGED <<now, cronFile, cronCache, loop, fate, ran>>

\* run_job_now, with its execution and its change of the object in one step.
RunJobNow(c, i) ==
    /\ Finds(c, i) /\ Edit(c)
    /\ heap' = [heap EXCEPT ![cronCache[i]] = [@ EXCEPT !.last = now, !.next = NextRun(i, now, now)]]
    /\ Begin(c, "update", i, cronCache[i])
    /\ Unseen(i)
    /\ UNCHANGED <<now, cronFile, cronCache, loop, fate, ran>>

\* _ensure_cache, the first step of list_jobs and get_job.
EnsureCache(c) ==
    /\ cronCache = NoCache
    /\ Begin(c, "list", NoJob, NoJob)
    /\ UNCHANGED <<now, cronFile, heap, cronCache, loop, fate, want, ran, cronUsed>>

-----------------------------------------------------------------------------
(* The steps of a store call.                                              *)

\* Mutant of Load: an update stores a job that is not there any more.
Load_Upserts(c) ==
    LET o == op[c]
        ready(jobs, step) == op' = [op EXCEPT ![c].jobs = jobs, ![c].step = step] IN
    /\ o.step = "load"
    /\ \/ o.kind = "list" /\ ready(Loaded, "cache")
       \/ o.kind \in {"add", "update"} /\ ready([Loaded EXCEPT ![o.id] = heap[o.obj]], "save")
       \/ o.kind = "remove" /\ ready([Loaded EXCEPT ![o.id] = NoJob], "save")
    /\ UNCHANGED <<now, cronFile, heap, cronCache, loop, fate, want, ran, orderly, cronUsed>>

\* _load, and what the call does with the list.
Load(c) ==
    LET o == op[c]
        ready(jobs, step) == op' = [op EXCEPT ![c].jobs = jobs, ![c].step = step] IN
    /\ o.step = "load"
    /\ \/ o.kind = "list" /\ ready(Loaded, "cache")
       \/ o.kind = "add" /\ ready([Loaded EXCEPT ![o.id] = heap[o.obj]], "save")
       \/ o.kind = "update" /\ Loaded[o.id] # NoJob
            /\ ready([Loaded EXCEPT ![o.id] = heap[o.obj]], "save")
       \/ o.kind = "remove" /\ Loaded[o.id] # NoJob
            /\ ready([Loaded EXCEPT ![o.id] = NoJob], "save")
       \* Nothing to update or remove: the call returns.
       \/ /\ o.kind \in {"update", "remove"} /\ Loaded[o.id] = NoJob
          /\ op' = [op EXCEPT ![c] = Resting]
    /\ UNCHANGED <<now, cronFile, heap, cronCache, loop, fate, want, ran, orderly, cronUsed>>

\* _save: the jobs are formatted, then write_text truncates the file.
Truncate(c) ==
    LET o == op[c]
        text == IF o.obj = NoJob THEN o.jobs ELSE [o.jobs EXCEPT ![o.id] = heap[o.obj]] IN
    /\ o.step = "save"
    /\ op' = [op EXCEPT ![c].jobs = text, ![c].step = "write"]
    /\ cronFile' = Torn
    /\ UNCHANGED <<now, heap, cronCache, loop, fate, want, ran, orderly, cronUsed>>

\* Two writers whose texts differ in length may leave a mixture.
WriteText(c) ==
    LET o == op[c] IN
    /\ o.step = "write"
    /\ cronFile' \in {o.jobs} \cup (IF cronFile = Torn THEN {} ELSE {Torn})
    /\ op' = [op EXCEPT ![c].step = "cache"]
    /\ fate' = CASE o.kind = "add" -> [fate EXCEPT ![o.id] = "added"]
                 [] o.kind = "remove" -> [fate EXCEPT ![o.id] = "removed"]
                 [] OTHER -> fate
    /\ want' = IF o.kind = "add" \/ (c \in Editors /\ o.kind = "update" /\ loop.at = "sleep")
               THEN [want EXCEPT ![o.id] = IF o.jobs[o.id].enabled THEN "on" ELSE "off"] ELSE want
    /\ UNCHANGED <<now, heap, cronCache, loop, ran, orderly, cronUsed>>

\* Mutant of SetCache: the cache stays as it is.
SetCache_Keeps(c) ==
    /\ op[c].step = "cache"
    /\ cronCache' = IF cronCache = NoCache THEN [i \in JobIds |-> NoJob] ELSE cronCache
    /\ op' = [op EXCEPT ![c] = Resting]
    /\ UNCHANGED <<now, cronFile, heap, loop, fate, want, ran, orderly, cronUsed>>

\* The coroutine goes on: the list, with the objects it was loaded into,
\* becomes the cache.
SetCache(c) ==
    LET o == op[c]
        ref(i) == IF o.jobs[i] = NoJob THEN NoJob
                  ELSE IF i = o.id THEN o.obj ELSE FreshObj(i)
        kept == {ref(i) : i \in JobIds} \cup Range(loop.due)
                    \cup {op[d].obj : d \in Callers \ {c}} IN
    /\ o.step = "cache"
    /\ cronCache' = [i \in JobIds |-> ref(i)]
    /\ heap' = [x \in Obj |-> IF x = ref(x[1]) /\ x # o.obj THEN o.jobs[x[1]]
                              ELSE IF x \in kept THEN heap[x] ELSE NoJob]
    /\ op' = [op EXCEPT ![c] = Resting]
    /\ UNCHANGED <<now, cronFile, loop, fate, want, ran, orderly, cronUsed>>

\* The write fails after it truncated the file; the caller gets the exception,
\* and a tick is left with what it had not yet done.
WriteFails(c) ==
    /\ op[c].step = "write" /\ cronUsed.faults < MaxCronFaults
    /\ cronUsed' = [cronUsed EXCEPT !.faults = @ + 1]
    /\ op' = [op EXCEPT ![c] = Resting]
    /\ orderly' = FALSE
    /\ loop' = IF c = "loop" THEN [at |-> "rest", due |-> <<>>, wake |-> now + Poll] ELSE loop
    /\ UNCHANGED <<now, cronFile, heap, cronCache, fate, want, ran>>

-----------------------------------------------------------------------------
(* The loop.                                                               *)

LoopFree(at) == loop.at = at /\ op["loop"] = Resting
LoopOnly == UNCHANGED <<now, cronFile, cronCache, fate, want, cronUsed>>

\* _get_next_wake_ms, and the sleep it decides on.
Arm ==
    /\ LoopFree("arm") /\ cronCache # NoCache
    /\ loop' = [loop EXCEPT !.at = "sleep",
                            !.wake = Min({now + Poll} \cup {Max({w, now}) : w \in Wakes})]
    /\ LoopOnly /\ UNCHANGED <<heap, op, ran, orderly>>

\* The snapshot of the due jobs; the order is the one of the file.
Snapshot ==
    /\ LoopFree("sleep") /\ (now >= loop.wake \/ now = MaxTime)
    /\ LET due == {cronCache[i] : i \in {k \in JobIds : Due(k)}} IN
        IF due = {} THEN loop' = [loop EXCEPT !.at = "arm"]
        ELSE \E seq \in SetToSeqs(due) : loop' = [loop EXCEPT !.at = "run", !.due = seq]
    /\ LoopOnly /\ UNCHANGED <<heap, op, ran, orderly>>

\* execute(j): whether it raises makes no difference to what follows.
Execute ==
    /\ LoopFree("run")
    /\ loop' = [loop EXCEPT !.at = "ran"]
    /\ LET i == Head(loop.due)[1] IN ran' = [ran EXCEPT ![i] = @ + 1]
    /\ LoopOnly /\ UNCHANGED <<heap, op, orderly>>

\* The state of the job after its execution, and update_job.
WriteBack ==
    LET o == Head(loop.due)
        next == NextRun(o[1], now, now) IN
    /\ LoopFree("ran")
    /\ heap' = [heap EXCEPT ![o] = [enabled |-> @.enabled /\ ~(Schedule[o[1]].kind = "at" /\ next = 0),
                                    next |-> next, last |-> now]]
    /\ Begin("loop", "update", o[1], o)
    /\ loop' = [loop EXCEPT !.at = "stored"]
    /\ LoopOnly /\ UNCHANGED ran

\* delete_after_run: jobs of the tool with a time are removed after they ran.
DropAfterRun ==
    /\ LoopFree("stored") /\ Schedule[Head(loop.due)[1]].kind = "at"
    /\ Begin("loop", "remove", Head(loop.due)[1], NoJob)
    /\ loop' = [loop EXCEPT !.at = "dropped"]
    /\ LoopOnly /\ UNCHANGED <<heap, ran>>

\* Mutant of NextDue: one job too many.
NextDue_OffByOne ==
    /\ \/ LoopFree("stored") /\ Schedule[Head(loop.due)[1]].kind # "at"
       \/ LoopFree("dropped")
    /\ loop' = [loop EXCEPT !.due = Tail(@), !.at = "run"]
    /\ LoopOnly /\ UNCHANGED <<heap, op, ran, orderly>>

NextDue ==
    /\ \/ LoopFree("stored") /\ Schedule[Head(loop.due)[1]].kind # "at"
       \/ LoopFree("dropped")
    /\ loop' = [loop EXCEPT !.due = Tail(@), !.at = IF Len(loop.due) > 1 THEN "run" ELSE "arm"]
    /\ LoopOnly /\ UNCHANGED <<heap, op, ran, orderly>>

\* The loop caught an exception and has slept for a poll interval.
Rested ==
    /\ LoopFree("rest") /\ (now >= loop.wake \/ now = MaxTime)
    /\ loop' = [loop EXCEPT !.at = "arm"]
    /\ LoopOnly /\ UNCHANGED <<heap, op, ran, orderly>>

-----------------------------------------------------------------------------
TimePasses ==
    /\ now < MaxTime
    /\ \/ loop.at \in {"sleep", "rest"} /\ now < loop.wake
       \/ loop.at = "ran"
    /\ now' = now + 1
    /\ UNCHANGED <<cronFile, heap, cronCache, loop, op, fate, want, ran, orderly, cronUsed>>

\* The process ends at any point and starts again with the file.
CronCrash ==
    /\ cronUsed.faults < MaxCronFaults
    /\ cronUsed' = [cronUsed EXCEPT !.faults = @ + 1]
    /\ orderly' = (orderly /\ cronFile # Torn /\ loop.at # "ran"
                     /\ ~(loop.at = "stored" /\ op["loop"].step \in {"load", "save"}))
    /\ heap' = [o \in Obj |-> NoJob]
    /\ cronCache' = NoCache
    /\ loop' = [at |-> "arm", due |-> <<>>, wake |-> 0]
    /\ op' = [c \in Callers |-> Resting]
    /\ fate' = [i \in JobIds |-> IF fate[i] = "adding" THEN "removed" ELSE fate[i]]
    /\ UNCHANGED <<now, cronFile, want, ran>>

LoopStep ==
    \/ Arm \/ Snapshot \/ Execute \/ WriteBack \/ DropAfterRun \/ NextDue \/ Rested
    \/ loop.at = "arm" /\ EnsureCache("loop")
StoreStep(c) == Load(c) \/ Truncate(c) \/ WriteText(c) \/ SetCache(c) \/ WriteFails(c)
CronNext ==
    \/ LoopStep
    \/ TimePasses
    \/ CronCrash
    \/ \E c \in Callers : StoreStep(c)
    \/ \E c \in Editors : EnsureCache(c)
    \/ \E c \in Editors, i \in JobIds :
        \/ AddJob(c, i) \/ RemoveJob(c, i) \/ RunJobNow(c, i)
        \/ \E b \in BOOLEAN : SetEnabled(c, i, b)

\* The event loop and its threads go on, and so does time.
CronFairness ==
    /\ WF_cronVars(LoopStep) /\ WF_cronVars(TimePasses)
    /\ \A c \in Callers : WF_cronVars(StoreStep(c))
CronSpec == CronInit /\ [][CronNext]_cronVars /\ CronFairness

-----------------------------------------------------------------------------
\* A call of the store works on one job, with the object it was given, and has
\* a list in which the job is, or is no more; or it only loads the list.
CallOK(o) ==
    \/ o = Resting
    \/ /\ o = [kind |-> o.kind, id |-> o.id, obj |-> o.obj, jobs |-> o.jobs, step |-> o.step]
       /\ o.jobs \in JobLists /\ o.step \in {"load", "save", "write", "cache"}
       /\ \/ o.kind = "list" /\ o.id = NoJob /\ o.obj = NoJob /\ o.step \in {"load", "cache"}
          \/ /\ o.kind = "remove" /\ o.id \in JobIds /\ o.obj = NoJob
             /\ o.step # "load" => o.jobs[o.id] = NoJob
          \/ /\ o.kind \in {"add", "update"} /\ o.obj \in Obj /\ o.id = o.obj[1]
             /\ o.step # "load" => o.jobs[o.id] # NoJob

\* Where the loop is, and the call it waits for.
LoopOK ==
    LET o == op["loop"] IN
    /\ loop = [at |-> loop.at, due |-> loop.due, wake |-> loop.wake]
    /\ loop.due \in Seq(Obj)
    /\ \A j, k \in 1 .. Len(loop.due) : j # k => loop.due[j][1] # loop.due[k][1]
    /\ \/ loop.at = "arm" /\ loop.due = <<>> /\ o.kind \in {"none", "list"}
       \/ loop.at \in {"sleep", "rest"} /\ loop.due = <<>> /\ o = Resting
       \/ loop.at \in {"run", "ran"} /\ loop.due # <<>> /\ o = Resting
       \/ /\ loop.at = "stored" /\ loop.due # <<>>
          /\ o = Resting \/ (o.kind = "update" /\ o.obj = Head(loop.due))
       \/ /\ loop.at = "dropped" /\ loop.due # <<>>
          /\ o = Resting \/ (o.kind = "remove" /\ o.id = Head(loop.due)[1])

CronShape ==
    /\ now \in 1 .. MaxTime
    /\ cronFile \in JobLists \cup {Torn}
    /\ heap \in [Obj -> Jobs \cup {NoJob}]
    /\ cronCache \in [JobIds -> Obj \cup {NoJob}] \cup {NoCache}
    /\ cronCache # NoCache => \A i \in JobIds : cronCache[i] # NoJob => cronCache[i][1] = i
    /\ op = [c \in Callers |-> op[c]] /\ \A c \in Callers : CallOK(op[c])
    /\ LoopOK /\ (loop.at # "arm" => cronCache # NoCache)

\* The loop's steps, calls, references and files are what the program can
\* hold: no reference leads to an object that is gone.
CronTypeOK ==
    /\ CronShape
    /\ \A x \in Held \ {NoJob} : heap[x] # NoJob

\* While store calls do not overlap and no write is cut off, a job that was
\* added is in the file until somebody removes it (store.py:151-183).
CronKeepsJobs ==
    orderly => /\ Quiet => cronFile # Torn
               /\ cronFile # Torn => \A i \in JobIds : fate[i] = "added" => cronFile[i] # NoJob

\* Neither the tick, which stores the jobs of its snapshot again, nor an edit
\* brings back a job that was removed meanwhile (manager.py:66-93).
CronRemovedStays ==
    orderly => \A i \in JobIds : fate[i] = "removed" =>
                /\ cronFile # Torn => cronFile[i] = NoJob
                /\ Quiet /\ cronCache # NoCache => cronCache[i] = NoJob

\* Between two calls of the store the cache says what the file says, although
\* its objects are changed before they are stored, and replaced by copies
\* while a tick holds them (store.py:141-183).
CronCacheIsFile ==
    orderly /\ Quiet /\ cronCache # NoCache =>
        \A i \in JobIds : cronFile[i] = IF cronCache[i] = NoJob THEN NoJob ELSE heap[cronCache[i]]

\* A job with a time is executed once by the ticks: not again in the next
\* tick, nor after a restart or an edit of the copy a tick did not touch.
CronOnce ==
    orderly => \A i \in JobIds : Schedule[i].kind = "at" => ran[i] <= 1

\* A job that was disabled while no tick ran is not executed by a later one,
\* also after the process restarted.
CronDisabledRests ==
    orderly /\ loop.at = "ran" => want[Head(loop.due)[1]] # "off"

\* A job is what its owner made it, in the file and in the cache: added,
\* edited and removed jobs stay so, whatever the ticks write.
CronJobsKept == CronTypeOK /\ CronKeepsJobs /\ CronRemovedStays /\ CronCacheIsFile

\* Ticks execute what is due, once, and nothing that was switched off.
CronRunsRight == CronOnce /\ CronDisabledRests

\* A stored job with a time still to come is executed in the end, unless it
\* is edited or removed, or store calls got in each other's way.
CronRuns ==
    \A i \in JobIds :
        /\ Schedule[i].kind = "at" /\ orderly /\ want[i] = "on"
        /\ cronFile # Torn /\ cronFile[i] # NoJob /\ cronFile[i].next # 0
        ~> ran[i] > 0 \/ fate[i] = "removed" \/ want[i] # "on" \/ ~orderly
============================================================================
