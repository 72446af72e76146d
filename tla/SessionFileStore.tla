------------------------- MODULE SessionFileStore -------------------------
(***************************************************************************)
(* One session kept by SessionManager in a LocalFileSessionStore: a JSON   *)
(* file, a cache of Session objects, and the coroutines that work on the   *)
(* session.  Coroutines share the object in the cache; a file is read and  *)
(* written by a worker thread while the other coroutines go on.            *)
(*                                                                         *)
(* A step of a coroutine runs from one suspension to the next.  `on' is    *)
(* the Session object a coroutine holds, `copy' the dump it is writing.    *)
(***************************************************************************)
EXTENDS SessionOps, FiniteSets

CONSTANTS
    Tasks,        \* coroutines: the agent's run, background consolidations, routes
    CanDo,        \* the operations each of them calls
    Objects,      \* identities of Session objects
    None,
    Torn,         \* a truncated or mixed file: json.load raises
    Absent,       \* no file
    MaxMessages,  \* bound: messages ever added
    MaxRestarts,  \* bound: restarts of the process
    DiskFails     \* whether a write may fail

Operations == {"add", "resave", "clear", "compact", "consolidate", "delete", "list"}

ASSUME TasksAssumption ==
    /\ CanDo \in [Tasks -> SUBSET Operations]
    /\ None \notin Objects \cup Operations \cup {Torn, Absent} /\ Objects # {}
    /\ Torn # Absent /\ {Torn, Absent, None} \cap Session = {}
    /\ MaxMessages \in Nat /\ MaxRestarts \in Nat /\ DiskFails \in BOOLEAN

Phases == {"idle", "load", "loaded", "model", "save", "writing", "unlinked",
           "written", "remove", "list", "listed"}

VARIABLES
    heap,       \* contents of the Session objects
    cache,      \* LocalFileSessionStore._cache: the object of the session, or None
    file,       \* the file: a session, Torn or Absent
    pc, op, on, \* where each coroutine is, what it does, the object it holds
    batch, until, prior,  \* what it read before it asked the model
    copy,       \* the dump its thread writes
    added,      \* messages ever added
    acked,      \* history: messages whose add_message has returned True
    wiped,      \* history: messages that clear_history or delete_session dropped
    restarts

history == <<added, acked, wiped, restarts>>
plans == <<batch, until, prior>>
vars == <<heap, cache, file, pc, op, on, plans, copy, history>>

Init ==
    /\ cache \in Objects
    /\ heap = [o \in Objects |-> Fresh]
    /\ file = Fresh
    /\ pc = [t \in Tasks |-> "idle"]
    /\ op = [t \in Tasks |-> None]
    /\ on = [t \in Tasks |-> None]
    /\ batch = [t \in Tasks |-> {}]
    /\ until = [t \in Tasks |-> 0]
    /\ prior = [t \in Tasks |-> {}]
    /\ copy = [t \in Tasks |-> Fresh]
    /\ added = 0
    /\ acked = {} /\ wiped = {}
    /\ restarts = 0

Held == {on[t] : t \in Tasks} \cup {cache}
Spare == Objects \ Held
Writers == {t \in Tasks : pc[t] = "writing"}

----------------------------------------------------------------------------
(* Building blocks.  Each sets pc, on and the plan of one coroutine.       *)

\* Back to the caller; the coroutine forgets its object and its plan.
Return(t) ==
    /\ pc' = [pc EXCEPT ![t] = "idle"]
    /\ op' = [op EXCEPT ![t] = None]
    /\ on' = [on EXCEPT ![t] = None]
    /\ batch' = [batch EXCEPT ![t] = {}]
    /\ until' = [until EXCEPT ![t] = 0]
    /\ prior' = [prior EXCEPT ![t] = {}]
    /\ copy' = [copy EXCEPT ![t] = Fresh]

\* save(): the dump is taken at once, the file is written by a thread.
Save(t, o, s) ==
    /\ heap' = [heap EXCEPT ![o] = s]
    /\ on' = [on EXCEPT ![t] = o]
    /\ copy' = [copy EXCEPT ![t] = s]
    /\ pc' = [pc EXCEPT ![t] = "save"]
    /\ batch' = [batch EXCEPT ![t] = {}]
    /\ until' = [until EXCEPT ![t] = 0]
    /\ prior' = [prior EXCEPT ![t] = {}]

AskModel(t, o, what, end, summary) ==
    /\ pc' = [pc EXCEPT ![t] = "model"]
    /\ on' = [on EXCEPT ![t] = o]
    /\ batch' = [batch EXCEPT ![t] = what]
    /\ until' = [until EXCEPT ![t] = end]
    /\ prior' = [prior EXCEPT ![t] = summary]

\* The part of each operation between get_session and the next suspension.
Proceed(t, o, what) ==
    LET s == heap[o] IN
    \/ /\ what = "add"
       /\ added' = added + 1
       /\ Save(t, o, WithMessage(s, added + 1))
       /\ op' = [op EXCEPT ![t] = what]
       /\ UNCHANGED <<acked, wiped, restarts>>
    \/ /\ what = "resave"
       /\ Save(t, o, s)
       /\ op' = [op EXCEPT ![t] = what]
       /\ UNCHANGED history
    \/ /\ what = "clear"
       /\ wiped' = 1..added
       /\ Save(t, o, Cleared(s))
       /\ op' = [op EXCEPT ![t] = what]
       /\ UNCHANGED <<added, acked, restarts>>
    \/ /\ what = "compact" /\ CanCompact(s)
       /\ AskModel(t, o, ToSummarise(s), CompactUntil(s), s.summary)
       /\ op' = [op EXCEPT ![t] = what]
       /\ UNCHANGED <<heap, copy, history>>
    \/ /\ what = "consolidate" /\ CanConsolidate(s)
       /\ AskModel(t, o, {}, 0, {})
       /\ op' = [op EXCEPT ![t] = what]
       /\ UNCHANGED <<heap, copy, history>>
    \/ /\ \/ what = "compact" /\ ~CanCompact(s)
          \/ what = "consolidate" /\ ~CanConsolidate(s)
       /\ Return(t)
       /\ UNCHANGED <<heap, history>>

----------------------------------------------------------------------------
(* The operations of SessionManager and of consolidate_memory.             *)

Begin(t, what) ==
    /\ pc[t] = "idle"
    /\ what \in CanDo[t]
    /\ what = "add" => added < MaxMessages

\* get() finds the session in the cache and does not suspend.
CachedGet(t, what) ==
    /\ Begin(t, what) /\ what \notin {"delete", "list"}
    /\ cache # None
    /\ Proceed(t, cache, what)
    /\ UNCHANGED <<cache, file>>

Wait(t, what, phase) ==
    /\ pc' = [pc EXCEPT ![t] = phase]
    /\ op' = [op EXCEPT ![t] = what]
    /\ UNCHANGED <<heap, on, plans, copy>>

UncachedGet(t, what) ==
    /\ Begin(t, what) /\ what \notin {"delete", "list"}
    /\ cache = None
    /\ Wait(t, what, "load")
    /\ UNCHANGED <<cache, file, history>>

\* The thread of _load_one: no readable file is no session, and the
\* operation returns False.
ReadFile(t, from, to) ==
    /\ pc[t] = from
    /\ IF file \in {Torn, Absent}
         THEN Return(t) /\ UNCHANGED heap
         ELSE \E o \in Spare :
                /\ heap' = [heap EXCEPT ![o] = file]
                /\ on' = [on EXCEPT ![t] = o]
                /\ pc' = [pc EXCEPT ![t] = to]
                /\ UNCHANGED <<op, plans, copy>>
    /\ UNCHANGED <<cache, file, history>>

LoadFile(t) == ReadFile(t, "load", "loaded")

LoadedGet(t) ==
    /\ pc[t] = "loaded"
    /\ cache' = on[t]
    /\ Proceed(t, on[t], op[t])
    /\ UNCHANGED file

\* get_all() empties the cache and reads every file again.
ListSessions(t) ==
    /\ Begin(t, "list")
    /\ cache' = None
    /\ IF file = Absent THEN UNCHANGED <<heap, pc, op, on, plans, copy>>
                        ELSE Wait(t, "list", "list")
    /\ UNCHANGED <<file, history>>

ListRead(t) == ReadFile(t, "list", "listed")

ListDone(t) ==
    /\ pc[t] = "listed"
    /\ cache' = on[t]
    /\ Return(t)
    /\ UNCHANGED <<heap, file, history>>

DeleteSession(t) ==
    /\ Begin(t, "delete")
    /\ cache' = None
    /\ IF file = Absent THEN UNCHANGED <<heap, pc, op, on, plans, copy>>
                        ELSE Wait(t, "delete", "remove")
    /\ UNCHANGED <<file, history>>

\* os.remove in a thread.  A thread that has the file open goes on writing
\* to a file that has no name any more.
RemoveFile_Blanks(t) ==
    /\ pc[t] = "remove"
    /\ file' = None
    /\ wiped' = 1..added
    /\ pc' = [pc EXCEPT ![t] = "idle"]
    /\ op' = [op EXCEPT ![t] = None]
    /\ UNCHANGED <<heap, cache, on, plans, copy, added, acked, restarts>>

RemoveFile(t) ==
    /\ pc[t] = "remove"
    /\ file' = Absent
    /\ wiped' = 1..added
    /\ pc' = [u \in Tasks |-> IF u = t THEN "idle"
                              ELSE IF u \in Writers THEN "unlinked" ELSE pc[u]]
    /\ op' = [op EXCEPT ![t] = None]
    /\ UNCHANGED <<heap, cache, on, plans, copy, added, acked, restarts>>

----------------------------------------------------------------------------
(* The model answers.  A failed compaction changes nothing; a failed       *)
(* extraction is passed over and the mark is moved all the same.           *)

CompactAnswered(t) ==
    /\ pc[t] = "model" /\ op[t] = "compact"
    /\ \/ Save(t, on[t], WithSummary(heap[on[t]], prior[t], batch[t], until[t]))
          /\ UNCHANGED op
       \/ Return(t) /\ UNCHANGED heap
    /\ UNCHANGED <<cache, file, history>>

ConsolidateAnswered(t) ==
    /\ pc[t] = "model" /\ op[t] = "consolidate"
    /\ Save(t, on[t], MarkConsolidated(heap[on[t]]))
    /\ UNCHANGED <<op, cache, file, history>>

----------------------------------------------------------------------------
(* The threads of save().                                                  *)

\* open(path, "w") truncates the file.
OpenFile(t) ==
    /\ pc[t] = "save"
    /\ file' = Torn
    /\ pc' = [pc EXCEPT ![t] = "writing"]
    /\ UNCHANGED <<heap, cache, op, on, plans, copy, history>>

\* json.dump.  Two threads that have the file open at once write over each
\* other: the file then holds one dump or a mixture of both.
Overlapped(t) ==
    \/ file \notin {Torn, copy[t]}
    \/ \E u \in Writers : copy[u] # copy[t]

WriteFile(t) ==
    /\ \/ /\ pc[t] = "writing"
          /\ file' = copy[t] \/ (file' = Torn /\ Overlapped(t))
       \/ pc[t] = "unlinked" /\ UNCHANGED file
    /\ pc' = [pc EXCEPT ![t] = "written"]
    /\ UNCHANGED <<heap, cache, op, on, plans, copy, history>>

\* add_message returns True, whether the file was written or not.
Acknowledge(t) ==
    acked' = IF op[t] = "add" THEN acked \cup {copy[t].messages[Len(copy[t].messages)]} ELSE acked

Saved(t) ==
    /\ pc[t] = "written"
    /\ cache' = on[t]
    /\ Acknowledge(t)
    /\ Return(t)
    /\ UNCHANGED <<heap, file, added, wiped, restarts>>

\* An exception while the file is written is logged and swallowed; the file
\* stays truncated and the cache is not set.
WriteFails(t) ==
    /\ DiskFails
    /\ pc[t] = "writing"
    /\ Acknowledge(t)
    /\ Return(t)
    /\ UNCHANGED <<heap, cache, file, added, wiped, restarts>>

----------------------------------------------------------------------------
(* The process dies and starts again: only the file is left.               *)

Restart ==
    /\ restarts < MaxRestarts
    /\ restarts' = restarts + 1
    /\ heap' = [o \in Objects |-> Fresh]
    /\ cache' = None
    /\ pc' = [t \in Tasks |-> "idle"]
    /\ op' = [t \in Tasks |-> None]
    /\ on' = [t \in Tasks |-> None]
    /\ batch' = [t \in Tasks |-> {}]
    /\ until' = [t \in Tasks |-> 0]
    /\ prior' = [t \in Tasks |-> {}]
    /\ copy' = [t \in Tasks |-> Fresh]
    /\ UNCHANGED <<file, added, acked, wiped>>

Call(t) ==
    \/ \E what \in Operations : CachedGet(t, what) \/ UncachedGet(t, what)
    \/ ListSessions(t) \/ DeleteSession(t)

Continue(t) ==
    \/ LoadFile(t) \/ LoadedGet(t)
    \/ ListRead(t) \/ ListDone(t)
    \/ RemoveFile(t)
    \/ CompactAnswered(t) \/ ConsolidateAnswered(t)
    \/ OpenFile(t) \/ WriteFile(t) \/ Saved(t) \/ WriteFails(t)

Next == (\E t \in Tasks : Call(t) \/ Continue(t)) \/ Restart

Spec == Init /\ [][Next]_vars

----------------------------------------------------------------------------
(* Properties.                                                             *)

\* Every variable holds what the code can put there.
TypeOK ==
    /\ heap \in [Objects -> Session]
    /\ cache \in Objects \cup {None}
    /\ file \in Session \cup {Torn, Absent}
    /\ pc \in [Tasks -> Phases]
    /\ op \in [Tasks -> Operations \cup {None}]
    /\ on \in [Tasks -> Objects \cup {None}]
    /\ added \in Nat
    /\ batch \in [Tasks -> SUBSET (1..added)]
    /\ prior \in [Tasks -> SUBSET (1..added)]
    /\ until \in [Tasks -> 0..added]
    /\ copy \in [Tasks -> Session]
    /\ {acked, wiped} \subseteq SUBSET (1..added)
    /\ restarts \in 0..MaxRestarts

Current == heap[cache]

\* A message whose add_message returned True is in the history that the
\* agents read, until somebody clears or deletes the session.
HistoryKept == cache # None => acked \ wiped \subseteq Numbers(Current.messages)

\* The history never holds a message twice or in another order than the
\* calls of add_message, whichever copies of the session replaced each other.
HistoryInOrder ==
    /\ cache # None => Increasing(Current)
    /\ file \in {Torn, Absent} \/ Increasing(file)

\* What is read, cached or stored is a session the code can make, in order.
HistorySound == TypeOK /\ HistoryInOrder

Log == INSTANCE SessionLog WITH
    Ids <- 1..MaxMessages,
    messages <- Current.messages, consolidated <- Current.consolidated,
    summary <- Current.summary, compacted <- Current.compacted

\* While nobody clears, deletes or lists, all coroutines share one object and
\* the session behaves like the log: concurrent adds, compactions and
\* consolidations never undo each other.
ImplementsLog == Log!Spec
============================================================================
