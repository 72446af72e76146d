-------------------------- MODULE SessionRowProofs --------------------------
(***************************************************************************)
(* TLAPS proofs about SessionRowStore for every value of its constants:    *)
(* type correctness, the order of the history under any number of writers, *)
(* that a writer alone implements SessionLog across restarts, and that     *)
(* what it was told is stored stays stored.                                *)
(***************************************************************************)
EXTENDS SessionRowStore, SessionOpsProofs

\* Every copy of the session, in the row or held by a coroutine, is ordered.
AllOrdered ==
    /\ row # Absent => Ordered(row, added)
    /\ \A t \in Tasks : Ordered(mine[t], added)
    /\ \A t \in Tasks : seen[t] # Absent => Ordered(seen[t], added)

IInv == TypeOK /\ AllOrdered

LEMMA InitIInv == Init => IInv
  <1> SUFFICES ASSUME Init PROVE IInv
    OBVIOUS
  <1>1. Fresh \in Session /\ Ordered(Fresh, 0)
    BY FreshProperties
  <1>2. TypeOK
    BY <1>1, TasksAssumption DEF Init, TypeOK
  <1>3. AllOrdered
    BY <1>1 DEF Init, AllOrdered
  <1>4. QED
    BY <1>2, <1>3 DEF IInv

\* What Begin does to the invariant, for any Session the operation makes of
\* the row.
LEMMA BeginStep ==
    ASSUME IInv, NEW t \in Tasks, NEW what, NEW s, NEW phase \in {"model", "save"},
           Begin(t, what, phase, s), added' \in added..MaxMessages,
           s \in Session, Ordered(s, added')
    PROVE IInv'
  <1> USE DEF IInv, Begin
  <1>1. what \in Operations
    BY TasksAssumption
  <1>2. added \in Nat /\ added' \in Nat /\ added <= added' /\ added' \in 0..MaxMessages
    BY TasksAssumption DEF TypeOK
  <1>3. /\ row' \in Session \cup {Absent}
        /\ pc' \in [Tasks -> {"idle", "model", "save", "commit"}]
        /\ op' \in [Tasks -> Operations \cup {None}]
        /\ mine' \in [Tasks -> Session]
        /\ seen' \in [Tasks -> Session \cup {Absent}]
        /\ restarts' \in 0..MaxRestarts
    BY <1>1 DEF TypeOK, history
  <1>4. TypeOK'
    BY <1>2, <1>3 DEF TypeOK
  <1>5. ASSUME NEW x \in Session, Ordered(x, added) PROVE Ordered(x, added')
    BY <1>2, <1>5, OrderedLater
  <1>6. row' # Absent => Ordered(row', added')
    BY <1>5 DEF TypeOK, AllOrdered
  <1>7. ASSUME NEW u \in Tasks PROVE Ordered(mine'[u], added')
    <2>1. CASE u = t
      BY <2>1 DEF TypeOK
    <2>2. CASE u # t
      BY <1>5, <2>2 DEF TypeOK, AllOrdered
    <2>3. QED
      BY <2>1, <2>2
  <1>8. ASSUME NEW u \in Tasks, seen'[u] # Absent PROVE Ordered(seen'[u], added')
    BY <1>5, <1>8 DEF TypeOK, AllOrdered
  <1>9. QED
    BY <1>4, <1>6, <1>7, <1>8 DEF AllOrdered

\* What the answer of a model does to it.
LEMMA AnsweredStep ==
    ASSUME IInv, NEW t \in Tasks, NEW what, NEW s, Answered(t, what, s),
           s \in Session, s.messages = mine[t].messages
    PROVE IInv'
  <1> USE DEF IInv, Answered
  <1>1. TypeOK'
    BY DEF TypeOK, history
  <1>2. Ordered(s, added)
    BY SameHistory DEF AllOrdered
  <1>3. QED
    BY <1>1, <1>2 DEF AllOrdered, TypeOK

LEMMA ReturnStep ==
    ASSUME IInv, NEW t \in Tasks, Return(t), added' = added, restarts' = restarts,
           row' \in Session \cup {Absent}, row' # Absent => Ordered(row', added)
    PROVE IInv'
  <1> USE DEF IInv, Return
  <1>1. added \in Nat
    BY DEF TypeOK
  <1>2. Fresh \in Session /\ Ordered(Fresh, added)
    BY <1>1, FreshProperties
  <1>3. TypeOK'
    BY <1>2 DEF TypeOK
  <1>4. AllOrdered'
    BY <1>2 DEF AllOrdered, TypeOK
  <1>5. QED
    BY <1>3, <1>4

\* Each column comes from a session, and the messages from one of them.
LEMMA MergedProperties ==
    ASSUME NEW old \in Session, NEW base \in Session, NEW new \in Session, NEW n,
           Ordered(old, n), Ordered(new, n)
    PROVE Merged(old, base, new) \in Session /\ Ordered(Merged(old, base, new), n)
  <1>1. Merged(old, base, new) \in Session
    BY DEF Merged, Session
  <1>2. \/ Merged(old, base, new).messages = old.messages
        \/ Merged(old, base, new).messages = new.messages
    BY DEF Merged
  <1>3. QED
    BY <1>1, <1>2, SameHistory

LEMMA NextIInv == IInv /\ [Next]_vars => IInv'
  <1> SUFFICES ASSUME IInv, [Next]_vars PROVE IInv'
    OBVIOUS
  <1>0. /\ added \in Nat /\ added <= MaxMessages /\ MaxMessages \in Nat
        /\ row # Absent => row \in Session /\ Ordered(row, added)
        /\ \A t \in Tasks : mine[t] \in Session /\ Ordered(mine[t], added)
    BY TasksAssumption DEF IInv, TypeOK, AllOrdered
  <1>1. ASSUME NEW t \in Tasks, AddMessage(t) PROVE IInv'
    <2>1. row \in Session /\ Ordered(row, added)
      BY <1>0, <1>1 DEF AddMessage, Begin
    <2>2. added' = added + 1 /\ added' \in added..MaxMessages
      BY <1>0, <1>1 DEF AddMessage
    <2>3. WithMessage(row, added + 1) \in Session /\ Ordered(WithMessage(row, added + 1), added')
      BY <1>0, <2>1, <2>2, WithMessageProperties
    <2>4. Begin(t, "add", "save", WithMessage(row, added + 1))
      BY <1>1 DEF AddMessage
    <2>5. QED
      BY <2>2, <2>3, <2>4, BeginStep
  <1>2. ASSUME NEW t \in Tasks, NEW what, NEW phase \in {"model", "save"},
               Begin(t, what, phase, row), added' = added
        PROVE IInv'
    <2>1. row \in Session /\ Ordered(row, added') /\ added' \in added..MaxMessages
      BY <1>0, <1>2 DEF Begin
    <2>2. QED
      BY <1>2, <2>1, BeginStep
  <1>3. ASSUME NEW t \in Tasks, Resave(t) \/ CompactSession(t) \/ ConsolidateMemory(t)
        PROVE IInv'
    BY <1>2, <1>3 DEF Resave, CompactSession, ConsolidateMemory
  <1>4. ASSUME NEW t \in Tasks, ClearHistory(t) PROVE IInv'
    <2>1. Cleared(row) \in Session /\ Ordered(Cleared(row), added)
      BY <1>0, FreshProperties DEF Cleared
    <2>2. Begin(t, "clear", "save", Cleared(row)) /\ added' = added /\ added' \in added..MaxMessages
      BY <1>0, <1>4 DEF ClearHistory
    <2>3. QED
      BY <2>1, <2>2, BeginStep
  <1>5. ASSUME NEW t \in Tasks, CompactAnswered(t) PROVE IInv'
    <2> DEFINE s == mine[t]
               new == WithSummary(s, s.summary, ToSummarise(s), CompactUntil(s))
    <2>1. s.summary \in SUBSET Nat /\ ToSummarise(s) \in SUBSET Nat /\ CompactUntil(s) \in Nat
      BY <1>0, ToSummariseType, CompactUntilType DEF Session
    <2>2. new \in Session /\ new.messages = s.messages
      BY <1>0, <2>1, WithSummaryType
    <2>3. QED
      BY <1>5, <2>2, AnsweredStep DEF CompactAnswered
  <1>6. ASSUME NEW t \in Tasks, ConsolidateAnswered(t) PROVE IInv'
    <2>1. /\ MarkConsolidated(mine[t]) \in Session
          /\ MarkConsolidated(mine[t]).messages = mine[t].messages
      BY <1>0, MarkConsolidatedType
    <2>2. QED
      BY <1>6, <2>1, AnsweredStep DEF ConsolidateAnswered
  <1>7. ASSUME NEW t \in Tasks, SelectRow(t) PROVE IInv'
    BY <1>0, <1>7 DEF SelectRow, IInv, TypeOK, AllOrdered, history
  <1>8. ASSUME NEW t \in Tasks, Commit(t) PROVE IInv'
    <2>1. CASE row = Absent
      BY <1>0, <1>8, <2>1, ReturnStep DEF Commit
    <2>2. CASE row # Absent
      <3>1. seen[t] \in Session
        BY <1>8, <2>2 DEF Commit, MayCommit, IInv, TypeOK
      <3>2. Merged(row, seen[t], mine[t]) \in Session /\ Ordered(Merged(row, seen[t], mine[t]), added)
        BY <1>0, <2>2, <3>1, MergedProperties
      <3>3. QED
        BY <1>8, <2>2, <3>2, ReturnStep DEF Commit
    <2>3. QED
      BY <2>1, <2>2
  <1>9. ASSUME NEW t \in Tasks, CompactFails(t) \/ CommitFails(t) PROVE IInv'
    <2>1. Return(t) /\ row' = row /\ added' = added /\ restarts' = restarts
      BY <1>9 DEF CompactFails, CommitFails, history
    <2>2. row' \in Session \cup {Absent}
      BY <2>1 DEF IInv, TypeOK
    <2>3. QED
      BY <1>0, <2>1, <2>2, ReturnStep
  <1>10. ASSUME NEW t \in Tasks, DeleteSession(t) PROVE IInv'
    BY <1>10 DEF DeleteSession, IInv, TypeOK, AllOrdered, work
  <1>11. ASSUME Restart PROVE IInv'
    <2>1. Fresh \in Session /\ Ordered(Fresh, added)
      BY <1>0, FreshProperties
    <2>2. restarts' \in 0..MaxRestarts
      BY <1>11, TasksAssumption DEF Restart, IInv, TypeOK
    <2>3. TypeOK'
      BY <1>11, <2>1, <2>2 DEF Restart, IInv, TypeOK
    <2>4. AllOrdered'
      BY <1>11, <2>1 DEF Restart, IInv, AllOrdered
    <2>5. QED
      BY <2>3, <2>4 DEF IInv
  <1>12. CASE UNCHANGED vars
    BY <1>12 DEF IInv, TypeOK, AllOrdered, vars, work, history
  <1>13. QED
    BY <1>1, <1>3, <1>4, <1>5, <1>6, <1>7, <1>8, <1>9, <1>10, <1>11, <1>12 DEF Next

\* Every variable of SessionRowStore holds what the code can put there.
THEOREM TypeCorrect == Spec => []TypeOK
  <1>1. IInv => TypeOK
    BY DEF IInv
  <1>2. QED
    BY InitIInv, NextIInv, <1>1, PTL DEF Spec

\* Whatever the coroutines do to each other, the history in the row stays in
\* the order of the add_message calls, without repetitions.
THEOREM HistoryStaysInOrder == Spec => []RowInOrder
  <1>1. IInv => RowInOrder
    BY DEF IInv, AllOrdered, Ordered, RowInOrder
  <1>2. QED
    BY InitIInv, NextIInv, <1>1, PTL DEF Spec

-----------------------------------------------------------------------------
(* A writer alone.                                                         *)

\* The row is sound, it is there as long as the writer works on it, and what
\* the writer is about to commit extends it.
Alone(w) ==
    /\ row # Absent => Sound(row)
    /\ pc[w] # "idle" => row # Absent
    /\ pc[w] = "model" => mine[w] = row
    /\ pc[w] = "model" /\ op[w] = "compact" => CanCompact(row)
    /\ pc[w] = "model" /\ op[w] = "consolidate" => CanConsolidate(row)
    /\ pc[w] \in {"save", "commit"} => Extends(row, mine[w], MaxMessages)
    /\ pc[w] = "commit" => seen[w] = row

LEMMA MergedSame ==
    ASSUME NEW s \in Session, NEW new \in Session PROVE Merged(s, s, new) = new
  BY DEF Merged, Session

LEMMA AloneInit == ASSUME NEW w, Tasks = {w}, Init PROVE Alone(w)
  BY SoundFresh DEF Init, Alone

LEMMA AloneStep ==
    ASSUME NEW w, Tasks = {w}, IInv, IInv', Alone(w), [Next]_vars
    PROVE  Alone(w)' /\ (row' = row \/ Extends(Kept, Kept', MaxMessages))
  <1>0. /\ row \in Session \cup {Absent} /\ Absent \notin Session
        /\ row # Absent => row \in Session /\ Sound(row) /\ Kept = row
        /\ mine[w] \in Session /\ MaxMessages \in Nat
        /\ added \in 0..MaxMessages
        /\ mine' \in [Tasks -> Session]
        /\ pc \in [Tasks -> {"idle", "model", "save", "commit"}]
        /\ op \in [Tasks -> Operations \cup {None}]
        /\ mine \in [Tasks -> Session]
        /\ seen \in [Tasks -> Session \cup {Absent}]
    BY TasksAssumption DEF IInv, TypeOK, Alone, Sound, Kept
  <1>1. CASE AddMessage(w)
    <2>1. row' = row /\ row # Absent /\ pc'[w] = "save" /\ mine'[w] = WithMessage(row, added + 1)
      BY <1>0, <1>1 DEF AddMessage, Begin
    <2>2. added + 1 \in 1..MaxMessages
      BY <1>0, <1>1 DEF AddMessage
    <2>3. \A i \in 1..Len(row.messages) : row.messages[i] \in 1..added
      BY <1>0, <2>1 DEF IInv, AllOrdered, Ordered
    <2>4. \A i \in 1..Len(row.messages) : row.messages[i] < added + 1
      BY ONLY <1>0, <2>3
    <2>5. Extends(row, mine'[w], MaxMessages)
      BY <2>1, <2>2, <2>4 DEF Extends
    <2>6. QED
      BY <2>1, <2>5 DEF Alone
  <1>2. CASE Resave(w)
    <2>1. row' = row /\ row # Absent /\ pc'[w] = "save" /\ mine'[w] = row
      BY <1>0, <1>2 DEF Resave, Begin
    <2>2. QED
      BY <2>1 DEF Alone, Extends
  <1>3. CASE CompactSession(w)
    <2>1. row' = row /\ row # Absent /\ pc'[w] = "model" /\ op'[w] = "compact" /\ mine'[w] = row /\ CanCompact(row)
      BY <1>0, <1>3 DEF CompactSession, Begin
    <2>2. QED
      BY <2>1 DEF Alone
  <1>4. CASE ConsolidateMemory(w)
    <2>1. /\ row' = row /\ row # Absent /\ pc'[w] = "model" /\ op'[w] = "consolidate"
          /\ mine'[w] = row /\ CanConsolidate(row)
      BY <1>0, <1>4 DEF ConsolidateMemory, Begin
    <2>2. QED
      BY <2>1 DEF Alone
  <1>5. CASE CompactAnswered(w)
    <2> DEFINE u == CompactUntil(row)
    <2>1. row' = row /\ row # Absent /\ pc'[w] = "save" /\ mine[w] = row /\ CanCompact(row)
          /\ mine'[w] = WithSummary(row, row.summary, ToSummarise(row), u)
      BY <1>0, <1>5 DEF CompactAnswered, Answered, Alone
    <2>2. /\ row.compacted < u /\ u <= Len(row.messages)
          /\ row.summary \cup ToSummarise(row) = PrefixOf(row, u)
      BY <1>0, <2>1, SoundPrefix, CompactionExtends DEF PrefixOf
    <2>3. u \in Nat /\ row.compacted \in Nat /\ Len(row.messages) \in Nat
      BY <1>0, <2>1, CompactUntilType, LenProperties DEF Session
    <2>4. u \in row.compacted..Len(row.messages)
      BY ONLY <2>2, <2>3
    <2>5. mine'[w] = [row EXCEPT !.summary = PrefixOf(row, u), !.compacted = u]
      BY <1>0, <2>1, <2>2 DEF WithSummary, Session
    <2>6. Extends(row, mine'[w], MaxMessages)
      BY <2>4, <2>5 DEF Extends
    <2>7. QED
      BY <2>1, <2>6 DEF Alone
  <1>6. CASE ConsolidateAnswered(w)
    <2> DEFINE n == Len(row.messages) - KeepWindow
    <2>1. row' = row /\ row # Absent /\ pc'[w] = "save" /\ CanConsolidate(row)
          /\ mine'[w] = [row EXCEPT !.consolidated = n]
      BY <1>0, <1>6 DEF ConsolidateAnswered, Answered, Alone, MarkConsolidated
    <2>2. row.consolidated \in Nat
      BY <1>0, <2>1, LenProperties DEF Sound, Session
    <2>3. n \in row.consolidated..Len(row.messages)
      BY <1>0, <2>1, <2>2, ConsolidationAdvances
    <2>4. Extends(row, mine'[w], MaxMessages)
      BY <2>1, <2>3 DEF Extends
    <2>5. QED
      BY <2>1, <2>4 DEF Alone
  <1>7. CASE CompactFails(w) \/ CommitFails(w)
    <2>1. row' = row /\ pc'[w] = "idle"
      BY <1>0, <1>7 DEF CompactFails, CommitFails, Return
    <2>2. QED
      BY <2>1 DEF Alone
  <1>8. CASE SelectRow(w)
    <2>1. /\ row' = row /\ pc'[w] = "commit" /\ mine'[w] = mine[w] /\ seen'[w] = row
          /\ row # Absent /\ Extends(row, mine[w], MaxMessages)
      BY <1>0, <1>8 DEF SelectRow, Alone
    <2>2. QED
      BY <2>1 DEF Alone
  <1>9. CASE Commit(w)
    <2>1. row # Absent /\ seen[w] = row /\ Extends(row, mine[w], MaxMessages) /\ pc'[w] = "idle"
      BY <1>0, <1>9 DEF Commit, Return, Alone
    <2>2. row' = mine[w]
      BY <1>0, <1>9, <2>1, MergedSame DEF Commit
    <2>3. Sound(row')
      BY <1>0, <2>1, <2>2, ExtendsKeepsSound
    <2>4. Kept' = row'
      BY <1>0, <2>2 DEF Kept
    <2>5. QED
      BY <1>0, <2>1, <2>2, <2>3, <2>4 DEF Alone
  <1>10. CASE Restart
    <2>1. row' = row /\ pc'[w] = "idle"
      BY <1>10 DEF Restart
    <2>2. QED
      BY <2>1 DEF Alone
  <1>11. CASE UNCHANGED vars
    BY <1>11 DEF vars, work, Alone
  <1>12. CASE ClearHistory(w)
    <2>1. row' = row /\ row # Absent /\ pc'[w] = "save" /\ mine'[w] = Fresh
      BY <1>0, <1>12 DEF ClearHistory, Begin, Cleared
    <2>2. QED
      BY <2>1 DEF Alone, Extends
  <1>13. CASE DeleteSession(w)
    <2>1. row' = Absent /\ pc'[w] = "idle" /\ Kept' = Fresh
      BY <1>0, <1>13 DEF DeleteSession, work, Kept
    <2>2. QED
      BY <2>1 DEF Alone, Extends
  <1>14. QED
    BY <1>1, <1>2, <1>3, <1>4, <1>5, <1>6, <1>7, <1>8, <1>9, <1>10, <1>11, <1>12, <1>13
       DEF Next

LEMMA LogInit == Init => Log!Init
  BY DEF Init, Kept, Fresh, Log!Init

\* A step that extends the session is a step of the log.
LEMMA LogStep ==
    ASSUME Sound(Kept), Kept' \in Session, row' = row \/ Extends(Kept, Kept', MaxMessages)
    PROVE [Log!Next]_(Log!vars)
  <1>0. Kept \in Session /\ Len(Kept.messages) \in Nat
    BY LenProperties DEF Sound, Session
  <1>1. CASE row' = row
    BY <1>1 DEF Log!vars, Kept
  <1>2. ASSUME NEW m \in 1..MaxMessages, \A i \in 1..Len(Kept.messages) : Kept.messages[i] < m,
               Kept' = WithMessage(Kept, m)
        PROVE Log!Next
    BY <1>0, <1>2 DEF Log!Next, Log!AddMessage, WithMessage, Session
  <1>3. ASSUME NEW n \in Kept.compacted..Len(Kept.messages),
               Kept' = [Kept EXCEPT !.summary = PrefixOf(Kept, n), !.compacted = n]
        PROVE Log!Next
    <2>1. n \in 0..Len(Kept.messages) /\ n >= Kept.compacted
      BY <1>0 DEF Sound
    <2>2. Log!Compact(n)
      BY <1>0, <1>3, <2>1 DEF Log!Compact, Log!Prefix, PrefixOf, Session
    <2>3. QED
      BY <2>1, <2>2 DEF Log!Next
  <1>4. ASSUME NEW n \in Kept.consolidated..Len(Kept.messages),
               Kept' = [Kept EXCEPT !.consolidated = n]
        PROVE Log!Next
    <2>1. n \in 0..Len(Kept.messages) /\ n >= Kept.consolidated
      BY <1>0 DEF Sound
    <2>2. Log!Consolidate(n)
      BY <1>0, <1>4, <2>1 DEF Log!Consolidate, Session
    <2>3. QED
      BY <2>1, <2>2 DEF Log!Next
  <1>5. CASE Kept' = Kept
    BY <1>5 DEF Log!vars
  <1>6. CASE Kept' = Fresh
    BY <1>6 DEF Log!Next, Log!Clear, Fresh
  <1>7. QED
    BY <1>1, <1>2, <1>3, <1>4, <1>5, <1>6 DEF Extends

\* A coroutine that is alone with a session implements the log with all it
\* can call, wherever the process dies and whichever commits fail.
THEOREM WriterAloneKeepsLog ==
    ASSUME NEW w, Tasks = {w}
    PROVE  Spec => ImplementsLog
  <1>1. Init => IInv /\ Alone(w) /\ Log!Init
    BY InitIInv, AloneInit, LogInit
  <1>2. IInv /\ Alone(w) /\ [Next]_vars => (IInv /\ Alone(w))' /\ [Log!Next]_(Log!vars)
    <2> SUFFICES ASSUME IInv, Alone(w), [Next]_vars
                 PROVE (IInv /\ Alone(w))' /\ [Log!Next]_(Log!vars)
      OBVIOUS
    <2>1. IInv'
      BY NextIInv
    <2>2. Alone(w)' /\ (row' = row \/ Extends(Kept, Kept', MaxMessages))
      BY <2>1, AloneStep
    <2>3. Sound(Kept) /\ Kept' \in Session
      BY <2>2, SoundFresh DEF Alone, Sound, Kept
    <2>4. QED
      BY <2>1, <2>2, <2>3, LogStep
  <1>3. QED
    BY <1>1, <1>2, PTL DEF Spec, ImplementsLog, Log!Spec

----------------------------------------------------------------------------
(* What was acknowledged stays.                                            *)

\* What the writer is about to save keeps the history of the row, adds one
\* message to it, or drops all of it.
Ahead(w) ==
    pc[w] \in {"save", "commit"} =>
        /\ row # Absent
        /\ \/ op[w] = "clear"
           \/ op[w] = "add" /\ \E m \in Nat : mine[w].messages = Append(row.messages, m)
           \/ op[w] \notin {"add", "clear"} /\ mine[w].messages = row.messages

LEMMA AheadStep ==
    ASSUME NEW w, Tasks = {w}, IInv, Alone(w), Ahead(w), [Next]_vars
    PROVE  Ahead(w)'
  <1>0. /\ row # Absent => row \in Session
        /\ MaxMessages \in Nat /\ added \in 0..MaxMessages
        /\ pc \in [Tasks -> {"idle", "model", "save", "commit"}]
        /\ op \in [Tasks -> Operations \cup {None}]
        /\ mine \in [Tasks -> Session]
    BY TasksAssumption DEF IInv, TypeOK
  <1>1. CASE AddMessage(w)
    <2>1. /\ row' = row /\ row # Absent /\ op'[w] = "add"
          /\ mine'[w] = WithMessage(row, added + 1) /\ added + 1 \in Nat
      BY <1>0, <1>1 DEF AddMessage, Begin
    <2>2. mine'[w].messages = Append(row.messages, added + 1)
      BY <1>0, <2>1 DEF WithMessage, Session
    <2>3. QED
      BY <2>1, <2>2 DEF Ahead
  <1>2. CASE Resave(w)
    <2>1. row' = row /\ row # Absent /\ op'[w] = "resave" /\ mine'[w] = row
      BY <1>0, <1>2 DEF Resave, Begin
    <2>2. QED
      BY <2>1 DEF Ahead
  <1>3. CASE ClearHistory(w)
    <2>1. row' = row /\ row # Absent /\ op'[w] = "clear"
      BY <1>0, <1>3 DEF ClearHistory, Begin
    <2>2. QED
      BY <2>1 DEF Ahead
  <1>4. CASE CompactSession(w) \/ ConsolidateMemory(w)
    <2>1. pc'[w] = "model"
      BY <1>0, <1>4 DEF CompactSession, ConsolidateMemory, Begin
    <2>2. QED
      BY <2>1 DEF Ahead
  <1>5. CASE CompactAnswered(w)
    <2>1. row' = row /\ row # Absent /\ op'[w] = "compact" /\ mine[w] = row
          /\ mine'[w] = WithSummary(row, row.summary, ToSummarise(row), CompactUntil(row))
      BY <1>0, <1>5 DEF CompactAnswered, Answered, Alone
    <2>2. mine'[w].messages = row.messages
      BY <1>0, <2>1 DEF WithSummary, Session
    <2>3. QED
      BY <2>1, <2>2 DEF Ahead
  <1>6. CASE ConsolidateAnswered(w)
    <2>1. row' = row /\ row # Absent /\ op'[w] = "consolidate" /\ mine[w] = row
          /\ mine'[w] = MarkConsolidated(row)
      BY <1>0, <1>6 DEF ConsolidateAnswered, Answered, Alone
    <2>2. mine'[w].messages = row.messages
      BY <1>0, <2>1 DEF MarkConsolidated, Session
    <2>3. QED
      BY <2>1, <2>2 DEF Ahead
  <1>7. CASE SelectRow(w)
    <2>1. row' = row /\ op'[w] = op[w] /\ mine'[w] = mine[w] /\ pc[w] = "save"
      BY <1>7 DEF SelectRow
    <2>2. QED
      BY <2>1 DEF Ahead
  <1>8. CASE CompactFails(w) \/ Commit(w) \/ CommitFails(w) \/ DeleteSession(w) \/ Restart
    <2>1. pc'[w] = "idle"
      BY <1>0, <1>8 DEF CompactFails, Commit, CommitFails, DeleteSession, Return, Restart, work
    <2>2. QED
      BY <2>1 DEF Ahead
  <1>9. CASE UNCHANGED vars
    BY <1>9 DEF vars, work, Ahead
  <1>10. QED
    BY <1>1, <1>2, <1>3, <1>4, <1>5, <1>6, <1>7, <1>8, <1>9 DEF Next

LEMMA AckedStep ==
    ASSUME NEW w, Tasks = {w}, IInv, Alone(w), Ahead(w), AckedInRow, [Next]_vars
    PROVE  AckedInRow'
  <1>0. /\ row # Absent => row \in Session /\ row.messages \in Seq(Nat)
        /\ mine \in [Tasks -> Session]
    BY DEF IInv, TypeOK, Session
  <1>1. CASE Commit(w)
    <2>1. row # Absent /\ seen[w] = row /\ pc[w] = "commit" /\ mine[w] \in Session
      BY <1>0, <1>1 DEF Commit, Alone
    <2>2. row' = mine[w]
      BY <1>0, <1>1, <2>1, MergedSame DEF Commit
    <2>3. CASE op[w] = "clear"
      <3>1. acked' = acked /\ wiped' = wiped \cup Numbers(row.messages)
        BY <1>1, <2>1, <2>3 DEF Commit, Acknowledge, Wipe
      <3>2. QED
        BY <2>1, <3>1 DEF AckedInRow
    <2>4. CASE op[w] = "add"
      <3>1. acked' = acked \cup {NewMessage(w)} /\ wiped' = wiped
        BY <1>1, <2>1, <2>4 DEF Commit, Acknowledge, Wipe
      <3>2. PICK m \in Nat : mine[w].messages = Append(row.messages, m)
        BY <2>1, <2>4 DEF Ahead
      <3>3. Numbers(row.messages) \subseteq Numbers(row'.messages) /\ NewMessage(w) \in Numbers(row'.messages)
        BY <1>0, <2>1, <2>2, <3>2, NumbersAppended DEF NewMessage
      <3>4. QED
        BY <2>1, <3>1, <3>3 DEF AckedInRow
    <2>5. CASE op[w] \notin {"add", "clear"}
      <3>1. acked' = acked /\ wiped' = wiped /\ row'.messages = row.messages
        BY <1>1, <2>1, <2>2, <2>5 DEF Commit, Acknowledge, Wipe, Ahead
      <3>2. QED
        BY <2>1, <3>1 DEF AckedInRow
    <2>6. QED
      BY <2>3, <2>4, <2>5
  <1>2. CASE DeleteSession(w)
    BY <1>2 DEF DeleteSession, AckedInRow
  <1>3. CASE row' = row /\ acked' = acked /\ wiped' = wiped
    BY <1>3 DEF AckedInRow
  <1>4. AddMessage(w) \/ Resave(w) \/ ClearHistory(w) \/ CompactSession(w) \/ ConsolidateMemory(w)
           => row' = row /\ acked' = acked /\ wiped' = wiped
    BY DEF AddMessage, Resave, ClearHistory, CompactSession, ConsolidateMemory, Begin, history
  <1>5. CompactAnswered(w) \/ ConsolidateAnswered(w) \/ CompactFails(w) \/ SelectRow(w) \/ CommitFails(w)
           => row' = row /\ acked' = acked /\ wiped' = wiped
    BY DEF CompactAnswered, ConsolidateAnswered, Answered, CompactFails, SelectRow, CommitFails, history
  <1>6. Restart \/ UNCHANGED vars => row' = row /\ acked' = acked /\ wiped' = wiped
    BY DEF Restart, vars, history
  <1>7. QED
    BY <1>1, <1>2, <1>3, <1>4, <1>5, <1>6 DEF Next

\* A message whose add_message returned True stays in the row of a writer
\* alone, until it clears or deletes the session, wherever the process dies
\* and whichever commits fail.
THEOREM AcknowledgedStays ==
    ASSUME NEW w, Tasks = {w}
    PROVE  Spec => []AckedInRow
  <1> DEFINE Stays == IInv /\ Alone(w) /\ Ahead(w) /\ AckedInRow
  <1>1. Init => Stays
    <2> SUFFICES ASSUME Init PROVE Stays
      OBVIOUS
    <2>1. Ahead(w) /\ AckedInRow
      BY DEF Init, Ahead, AckedInRow
    <2>2. QED
      BY <2>1, InitIInv, AloneInit
  <1>2. Stays /\ [Next]_vars => Stays'
    <2> SUFFICES ASSUME Stays, [Next]_vars PROVE Stays'
      OBVIOUS
    <2>1. IInv'
      BY NextIInv
    <2>2. Alone(w)'
      BY <2>1, AloneStep
    <2>3. QED
      BY <2>1, <2>2, AheadStep, AckedStep
  <1>3. Stays => AckedInRow
    OBVIOUS
  <1> HIDE DEF Stays
  <1>4. QED
    BY <1>1, <1>2, <1>3, PTL DEF Spec
============================================================================
