--------------------------- MODULE SessionRowStore ---------------------------
(***************************************************************************)
(* One session kept by SessionManager in a DatabaseSessionStore: one row   *)
(* of agent_sessions and the coroutines that work on the session.  Every   *)
(* get() builds a Session of its own from the row; save() selects the row  *)
(* again and commits the columns in which the Session differs from what    *)
(* that select returned.  The three statements of one operation -- select, *)
(* select, commit -- are separate steps.                                   *)
(***************************************************************************)
EXTENDS SessionOps, FiniteSets

CONSTANTS
    Tasks,         \* coroutines: the agent's run, background consolidations, routes
    CanDo,         \* the operations each of them calls
    None,
    Absent,        \* no row
    MaxMessages,   \* bound: messages ever added
    MaxRestarts,   \* bound: restarts of the process
    DatabaseFails  \* whether a commit may fail

Operations == {"add", "resave", "clear", "compact", "consolidate", "delete"}

ASSUME TasksAssumption ==
    /\ CanDo \in [Tasks -> SUBSET Operations]
    /\ None \notin Operations /\ Absent \notin Session
    /\ MaxMessages \in Nat /\ MaxRestarts \in Nat /\ DatabaseFails \in BOOLEAN

VARIABLES
    row,       \* the row of the session, or Absent
    pc, op,    \* where each coroutine is and what it does
    mine,      \* the Session a coroutine works on
    seen,      \* what the select of its save() returned
    added,     \* messages ever added
    acked,     \* history: messages whose add_message has returned True
    wiped,     \* history: messages that clear_history or delete_session dropped
    restarts

work == <<pc, op, mine, seen>>
history == <<acked, wiped, restarts>>
vars == <<row, work, added, history>>

Init ==
    /\ row = Fresh
    /\ pc = [t \in Tasks |-> "idle"]
    /\ op = [t \in Tasks |-> None]
    /\ mine = [t \in Tasks |-> Fresh]
    /\ seen = [t \in Tasks |-> Absent]
    /\ added = 0
    /\ acked = {} /\ wiped = {}
    /\ restarts = 0

----------------------------------------------------------------------------
(* The operations of SessionManager and of consolidate_memory, from get()  *)
(* to the next suspension.                                                 *)

Begin(t, what, phase, s) ==
    /\ pc[t] = "idle"
    /\ what \in CanDo[t]
    /\ row # Absent
    /\ pc' = [pc EXCEPT ![t] = phase]
    /\ op' = [op EXCEPT ![t] = what]
    /\ mine' = [mine EXCEPT ![t] = s]
    /\ UNCHANGED <<row, seen, history>>

AddMessage(t) ==
    /\ added < MaxMessages
    /\ added' = added + 1
    /\ Begin(t, "add", "save", WithMessage(row, added + 1))

\* update_session, prune_session
Resave(t) == Begin(t, "resave", "save", row) /\ UNCHANGED added

ClearHistory(t) == Begin(t, "clear", "save", Cleared(row)) /\ UNCHANGED added

CompactSession(t) ==
    /\ Begin(t, "compact", "model", row)
    /\ CanCompact(row)
    /\ UNCHANGED added

ConsolidateMemory(t) ==
    /\ Begin(t, "consolidate", "model", row)
    /\ CanConsolidate(row)
    /\ UNCHANGED added

----------------------------------------------------------------------------
(* The model answers.                                                      *)

Answered(t, what, s) ==
    /\ pc[t] = "model" /\ op[t] = what
    /\ mine' = [mine EXCEPT ![t] = s]
    /\ pc' = [pc EXCEPT ![t] = "save"]
    /\ UNCHANGED <<row, op, seen, added, history>>

CompactAnswered(t) ==
    LET s == mine[t] IN
    Answered(t, "compact", WithSummary(s, s.summary, ToSummarise(s), CompactUntil(s)))

ConsolidateAnswered(t) == Answered(t, "consolidate", MarkConsolidated(mine[t]))

Return(t) ==
    /\ pc' = [pc EXCEPT ![t] = "idle"]
    /\ op' = [op EXCEPT ![t] = None]
    /\ mine' = [mine EXCEPT ![t] = Fresh]
    /\ seen' = [seen EXCEPT ![t] = Absent]

\* An empty or failed summary changes nothing.
CompactFails(t) ==
    /\ pc[t] = "model" /\ op[t] = "compact"
    /\ Return(t)
    /\ UNCHANGED <<row, added, history>>

----------------------------------------------------------------------------
(* save()                                                                  *)

SelectRow(t) ==
    /\ pc[t] = "save"
    /\ seen' = [seen EXCEPT ![t] = row]
    /\ pc' = [pc EXCEPT ![t] = "commit"]
    /\ UNCHANGED <<row, op, mine, added, history>>

\* An UPDATE names only the columns whose value differs from the selected one.
Merged(old, base, new) ==
    [messages     |-> IF new.messages = base.messages THEN old.messages ELSE new.messages,
     consolidated |-> IF new.consolidated = base.consolidated THEN old.consolidated
                                                              ELSE new.consolidated,
     summary      |-> IF new.summary = base.summary THEN old.summary ELSE new.summary,
     compacted    |-> IF new.compacted = base.compacted THEN old.compacted ELSE new.compacted]

MayCommit(t) == (seen[t] = Absent) <=> (row = Absent)

NewMessage(t) == mine[t].messages[Len(mine[t].messages)]

Acknowledge(t) == acked' = IF op[t] = "add" THEN acked \cup {NewMessage(t)} ELSE acked

Wipe(t) == wiped' = IF op[t] = "clear" /\ row # Absent
                      THEN wiped \cup Numbers(row.messages) ELSE wiped

Commit_Early(t) ==
    /\ pc[t] \in {"save", "commit"}
    /\ row' = IF pc[t] = "save" THEN row ELSE mine[t]
    /\ Acknowledge(t) /\ Wipe(t)
    /\ Return(t)
    /\ UNCHANGED <<added, restarts>>

Commit(t) ==
    /\ pc[t] = "commit"
    /\ MayCommit(t)
    /\ row' = IF row = Absent THEN mine[t] ELSE Merged(row, seen[t], mine[t])
    /\ Acknowledge(t) /\ Wipe(t)
    /\ Return(t)
    /\ UNCHANGED <<added, restarts>>

\* The INSERT meets a row, the UPDATE meets none, or the database fails: the
\* transaction is rolled back and add_message returns False.
CommitFails(t) ==
    /\ pc[t] = "commit"
    /\ ~MayCommit(t) \/ DatabaseFails
    /\ Return(t)
    /\ UNCHANGED <<row, added, history>>

DeleteSession_Blanks(t) ==
    /\ pc[t] = "idle" /\ "delete" \in CanDo[t]
    /\ row # Absent
    /\ wiped' = wiped \cup Numbers(row.messages)
    /\ row' = [row EXCEPT !.messages = None]
    /\ UNCHANGED <<work, added, acked, restarts>>

DeleteSession(t) ==
    /\ pc[t] = "idle" /\ "delete" \in CanDo[t]
    /\ row # Absent
    /\ wiped' = wiped \cup Numbers(row.messages)
    /\ row' = Absent
    /\ UNCHANGED <<work, added, acked, restarts>>

----------------------------------------------------------------------------
(* The process dies and starts again: only the row is left.                *)

Restart ==
    /\ restarts < MaxRestarts
    /\ restarts' = restarts + 1
    /\ pc' = [t \in Tasks |-> "idle"]
    /\ op' = [t \in Tasks |-> None]
    /\ mine' = [t \in Tasks |-> Fresh]
    /\ seen' = [t \in Tasks |-> Absent]
    /\ UNCHANGED <<row, added, acked, wiped>>

Next ==
    \/ \E t \in Tasks :
         \/ AddMessage(t) \/ Resave(t) \/ ClearHistory(t)
         \/ CompactSession(t) \/ ConsolidateMemory(t)
         \/ CompactAnswered(t) \/ ConsolidateAnswered(t) \/ CompactFails(t)
         \/ SelectRow(t) \/ Commit(t) \/ CommitFails(t)
         \/ DeleteSession(t)
    \/ Restart

Spec == Init /\ [][Next]_vars

----------------------------------------------------------------------------
(* Properties.                                                             *)

\* Every variable holds what the code can put there.
TypeOK ==
    /\ row \in Session \cup {Absent}
    /\ pc \in [Tasks -> {"idle", "model", "save", "commit"}]
    /\ op \in [Tasks -> Operations \cup {None}]
    /\ mine \in [Tasks -> Session]
    /\ seen \in [Tasks -> Session \cup {Absent}]
    /\ added \in 0..MaxMessages
    /\ restarts \in 0..MaxRestarts

\* However many coroutines overwrite each other's columns, the history in the
\* row never holds a message twice or out of the order of the add_message calls.
RowInOrder == row # Absent => Increasing(row)

\* A message whose add_message returned True is in the row until somebody
\* clears or deletes the session.
AckedInRow == row # Absent => acked \ wiped \subseteq Numbers(row.messages)

\* A session without a row has no history.
Kept == IF row = Absent THEN Fresh ELSE row

Log == INSTANCE SessionLog WITH
    Ids <- 1..MaxMessages,
    messages <- Kept.messages, consolidated <- Kept.consolidated,
    summary <- Kept.summary, compacted <- Kept.compacted

\* An agent alone, which dies at any point, keeps the log: nothing that was
\* committed is lost and no half of an operation is seen.
ImplementsLog == Log!Spec
============================================================================
