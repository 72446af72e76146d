------------------------- MODULE SessionFileProofs -------------------------
(***************************************************************************)
(* TLAPS proofs about SessionFileStore for every value of its constants:   *)
(* what is read, cached and stored is sound whatever the coroutines, the   *)
(* disk and the process do; and as long as all coroutines share the object *)
(* in the cache, what was acknowledged stays and the session implements    *)
(* SessionLog.                                                             *)
(***************************************************************************)
EXTENDS SessionFileStore, SessionOpsProofs

\* A session that the code can make of the messages 1 .. n: in order, no
\* longer than what was added, and its summary made of them.
Good(s, n) ==
    /\ s \in Session /\ Ordered(s, n)
    /\ Len(s.messages) <= n /\ s.summary \subseteq 1..n

\* Every copy of the session is such a session; a coroutine that will use its
\* object holds one; and the dump of an add ends in the message it added.
Copies ==
    /\ \A o \in Objects : Good(heap[o], added)
    /\ file \notin {Torn, Absent} => Good(file, added)
    /\ \A t \in Tasks :
          /\ Good(copy[t], added)
          /\ pc[t] \in {"loaded", "model"} => on[t] \in Objects
          /\ pc[t] \in {"save", "writing", "unlinked", "written"} /\ op[t] = "add"
               => copy[t].messages # <<>>

IInv == TypeOK /\ Copies

LEMMA GoodFresh == ASSUME NEW n \in Nat PROVE Good(Fresh, n)
  <1>1. Fresh \in Session /\ Ordered(Fresh, n)
    BY FreshProperties
  <1>2. Len(Fresh.messages) = 0 /\ Fresh.summary = {}
    BY DEF Fresh
  <1>3. QED
    BY <1>1, <1>2 DEF Good

LEMMA GoodLater ==
    ASSUME NEW s, NEW m \in Nat, NEW n \in Nat, m <= n, Good(s, m) PROVE Good(s, n)
  <1>1. s \in Session /\ Len(s.messages) \in Nat
    BY LenProperties DEF Good, Session
  <1>2. Ordered(s, n)
    BY <1>1, OrderedLater DEF Good
  <1>3. QED
    BY <1>1, <1>2 DEF Good

LEMMA GoodWithMessage ==
    ASSUME NEW n \in Nat, NEW s, Good(s, n)
    PROVE  LET new == WithMessage(s, n + 1) IN
           /\ Good(new, n + 1)
           /\ new.messages = Append(s.messages, n + 1)
           /\ new.messages # <<>>
           /\ Len(new.messages) = Len(s.messages) + 1
  <1> DEFINE new == WithMessage(s, n + 1)
  <1>1. s \in Session /\ s.messages \in Seq(Nat) /\ Len(s.messages) \in Nat
    BY LenProperties DEF Good, Session
  <1>2. new \in Session /\ Ordered(new, n + 1)
    BY <1>1, WithMessageProperties DEF Good
  <1>3. new.messages = Append(s.messages, n + 1) /\ new.summary = s.summary
    BY <1>1 DEF WithMessage, Session
  <1>4. Len(new.messages) = Len(s.messages) + 1
    BY ONLY <1>1, <1>3, AppendProperties, n \in Nat
  <1>5. new.messages # <<>>
    BY <1>1, <1>4
  <1>6. s.summary \subseteq 1..(n + 1) /\ Len(s.messages) + 1 <= n + 1
    BY <1>1 DEF Good
  <1>7. QED
    BY <1>2, <1>3, <1>4, <1>5, <1>6 DEF Good

LEMMA GoodNumbers ==
    ASSUME NEW n \in Nat, NEW s, Good(s, n)
    PROVE  /\ \A i \in 1..Len(s.messages) : s.messages[i] \in 1..n
           /\ CompactUntil(s) \in 0..n
           /\ ToSummarise(s) \in SUBSET (1..n)
           /\ s.summary \in SUBSET (1..n)
           /\ s.messages # <<>> => s.messages[Len(s.messages)] \in 1..n
  <1>1. s \in Session /\ s.messages \in Seq(Nat) /\ Len(s.messages) \in Nat /\ s.compacted \in Nat
        /\ Len(s.messages) <= n
    BY LenProperties DEF Good, Session
  <1>2. \A i \in 1..Len(s.messages) : s.messages[i] \in 1..n
    BY DEF Good, Ordered
  <1>3. CompactUntil(s) \in 0..Len(s.messages)
    BY <1>1, CompactUntilType
  <1>4. ToSummarise(s) = {s.messages[i] : i \in (s.compacted + 1)..CompactUntil(s)}
    BY ONLY <1>1, <1>3, NumbersOfRange DEF ToSummarise
  <1>5. \A i \in (s.compacted + 1)..CompactUntil(s) : i \in 1..Len(s.messages)
    BY ONLY <1>1, <1>3
  <1>6. ToSummarise(s) \in SUBSET (1..n)
    BY ONLY <1>2, <1>4, <1>5
  <1>7. s.messages # <<>> => Len(s.messages) \in 1..Len(s.messages)
    BY <1>1, EmptySeq
  <1>8. CompactUntil(s) \in 0..n
    BY ONLY <1>1, <1>3, n \in Nat
  <1>9. QED
    BY <1>2, <1>6, <1>7, <1>8 DEF Good

LEMMA GoodSame ==
    ASSUME NEW n, NEW s, Good(s, n), NEW new \in Session, new.messages = s.messages,
           new.summary \subseteq 1..n
    PROVE  Good(new, n)
  BY SameHistory DEF Good

LEMMA InitIInv == Init => IInv
  <1> SUFFICES ASSUME Init PROVE IInv
    OBVIOUS
  <1>1. Good(Fresh, 0) /\ Fresh \in Session
    BY GoodFresh, FreshProperties
  <1>2. TypeOK
    <2>1. {acked, wiped} \subseteq SUBSET (1..added)
      BY DEF Init
    <2>2. QED
      BY <1>1, <2>1, TasksAssumption DEF Init, TypeOK, Phases
  <1>3. Copies
    BY <1>1 DEF Init, Copies
  <1>4. QED
    BY <1>2, <1>3 DEF IInv

\* A step of one coroutine: what it leaves to the others is sound, because
\* what was sound stays so when messages are added.
LEMMA TaskStep ==
    ASSUME IInv, NEW t \in Tasks,
           NEW p \in Phases, NEW w \in Operations \cup {None}, NEW o \in Objects \cup {None},
           NEW b, NEW u, NEW r, NEW c,
           added' \in Nat, added <= added',
           pc' = [pc EXCEPT ![t] = p], op' = [op EXCEPT ![t] = w], on' = [on EXCEPT ![t] = o],
           batch' = [batch EXCEPT ![t] = b], until' = [until EXCEPT ![t] = u],
           prior' = [prior EXCEPT ![t] = r], copy' = [copy EXCEPT ![t] = c],
           b \in SUBSET (1..added'), r \in SUBSET (1..added'), u \in 0..added',
           Good(c, added'),
           p \in {"loaded", "model"} => o \in Objects,
           p \in {"save", "writing", "unlinked", "written"} /\ w = "add" => c.messages # <<>>,
           heap' \in [Objects -> Session], \A x \in Objects : Good(heap'[x], added'),
           cache' \in Objects \cup {None},
           file' \in {file, Torn, Absent} \/ Good(file', added'),
           acked' \in SUBSET (1..added'), wiped' \in SUBSET (1..added'),
           restarts' \in 0..MaxRestarts
    PROVE  IInv'
  <1>0. added \in Nat /\ c \in Session
    BY DEF IInv, TypeOK, Good
  <1>1. \A n \in 0..added : n \in 0..added'
    BY <1>0
  <1>2. SUBSET (1..added) \subseteq SUBSET (1..added')
    BY <1>0
  <1>3. /\ batch' \in [Tasks -> SUBSET (1..added')]
        /\ prior' \in [Tasks -> SUBSET (1..added')]
    BY <1>2 DEF IInv, TypeOK
  <1>4. until' \in [Tasks -> 0..added']
    BY <1>1 DEF IInv, TypeOK
  <1>5. /\ pc' \in [Tasks -> Phases] /\ op' \in [Tasks -> Operations \cup {None}]
        /\ on' \in [Tasks -> Objects \cup {None}] /\ copy' \in [Tasks -> Session]
    BY <1>0 DEF IInv, TypeOK
  <1>6. file' \in Session \cup {Torn, Absent}
    BY DEF IInv, TypeOK, Good
  <1>7. TypeOK'
    BY <1>3, <1>4, <1>5, <1>6 DEF TypeOK
  <1>8. ASSUME NEW s, Good(s, added) PROVE Good(s, added')
    BY <1>0, <1>8, GoodLater
  <1>9. file' \notin {Torn, Absent} => Good(file', added')
    BY <1>8 DEF IInv, Copies
  <1>10. ASSUME NEW x \in Tasks
         PROVE  /\ Good(copy'[x], added')
                /\ pc'[x] \in {"loaded", "model"} => on'[x] \in Objects
                /\ pc'[x] \in {"save", "writing", "unlinked", "written"} /\ op'[x] = "add"
                     => copy'[x].messages # <<>>
    <2>1. CASE x = t
      <3>1. pc'[x] = p /\ op'[x] = w /\ on'[x] = o /\ copy'[x] = c
        BY <2>1 DEF IInv, TypeOK
      <3>2. QED
        BY <3>1
    <2>2. CASE x # t
      <3>1. pc'[x] = pc[x] /\ op'[x] = op[x] /\ on'[x] = on[x] /\ copy'[x] = copy[x]
        BY <2>2 DEF IInv, TypeOK
      <3>2. Good(copy'[x], added')
        BY <1>8, <3>1 DEF IInv, Copies
      <3>3. QED
        BY <3>1, <3>2 DEF IInv, Copies
    <2>3. QED
      BY <2>1, <2>2
  <1>11. Copies'
    BY <1>9, <1>10 DEF Copies
  <1>12. QED
    BY <1>7, <1>11 DEF IInv

\* The parts of a step that leave the heap and the history alone.
LEMMA Settled ==
    ASSUME IInv
    PROVE  /\ added \in Nat /\ added <= added
           /\ heap \in [Objects -> Session] /\ \A x \in Objects : heap[x] \in Session /\ Good(heap[x], added)
           /\ cache \in Objects \cup {None}
           /\ file \notin {Torn, Absent} => file \in Session /\ Good(file, added)
           /\ acked \in SUBSET (1..added) /\ wiped \in SUBSET (1..added)
           /\ 1..added \in SUBSET (1..added)
           /\ restarts \in 0..MaxRestarts
           /\ Good(Fresh, added) /\ Fresh \in Session
           /\ {} \in SUBSET (1..added) /\ 0 \in 0..added
           /\ \A t \in Tasks :
                 /\ pc[t] \in Phases /\ op[t] \in Operations \cup {None}
                 /\ on[t] \in Objects \cup {None}
                 /\ batch[t] \in SUBSET (1..added) /\ prior[t] \in SUBSET (1..added)
                 /\ until[t] \in 0..added /\ copy[t] \in Session /\ Good(copy[t], added)
                 /\ pc[t] \in {"loaded", "model"} => on[t] \in Objects
                 /\ pc = [pc EXCEPT ![t] = pc[t]] /\ op = [op EXCEPT ![t] = op[t]]
                 /\ on = [on EXCEPT ![t] = on[t]] /\ batch = [batch EXCEPT ![t] = batch[t]]
                 /\ until = [until EXCEPT ![t] = until[t]]
                 /\ prior = [prior EXCEPT ![t] = prior[t]] /\ copy = [copy EXCEPT ![t] = copy[t]]
  <1>1. added \in Nat
    BY DEF IInv, TypeOK
  <1>2. Good(Fresh, added) /\ Fresh \in Session
    BY <1>1, GoodFresh, FreshProperties
  <1>3. added <= added /\ 0 \in 0..added
    BY <1>1
  <1>4. /\ heap \in [Objects -> Session] /\ \A x \in Objects : heap[x] \in Session /\ Good(heap[x], added)
        /\ cache \in Objects \cup {None}
        /\ acked \in SUBSET (1..added) /\ wiped \in SUBSET (1..added)
        /\ restarts \in 0..MaxRestarts
    BY DEF IInv, TypeOK, Copies
  <1>5. file \notin {Torn, Absent} => file \in Session /\ Good(file, added)
    BY DEF IInv, TypeOK, Copies
  <1>6. ASSUME NEW t \in Tasks
        PROVE /\ pc[t] \in Phases /\ op[t] \in Operations \cup {None}
              /\ on[t] \in Objects \cup {None}
              /\ batch[t] \in SUBSET (1..added) /\ prior[t] \in SUBSET (1..added)
              /\ until[t] \in 0..added /\ copy[t] \in Session /\ Good(copy[t], added)
              /\ pc[t] \in {"loaded", "model"} => on[t] \in Objects
    BY DEF IInv, TypeOK, Copies
  <1>7. ASSUME NEW t \in Tasks
        PROVE /\ pc = [pc EXCEPT ![t] = pc[t]] /\ op = [op EXCEPT ![t] = op[t]]
              /\ on = [on EXCEPT ![t] = on[t]] /\ batch = [batch EXCEPT ![t] = batch[t]]
              /\ until = [until EXCEPT ![t] = until[t]]
              /\ prior = [prior EXCEPT ![t] = prior[t]] /\ copy = [copy EXCEPT ![t] = copy[t]]
    BY DEF IInv, TypeOK
  <1>8. QED
    BY <1>1, <1>2, <1>3, <1>4, <1>5, <1>6, <1>7

\* Back to the caller.
LEMMA ReturnStep ==
    ASSUME IInv, NEW t \in Tasks, Return(t), added' = added, wiped' = wiped,
           restarts' = restarts, heap' = heap, file' = file,
           cache' \in Objects \cup {None}, acked' \in SUBSET (1..added)
    PROVE  IInv'
  <1>1. "idle" \in Phases
    BY DEF Phases
  <1>2. QED
    BY <1>1, Settled, TaskStep DEF Return

\* A step to another phase with the same operation, object and plan.
LEMMA MoveStep ==
    ASSUME IInv, NEW t \in Tasks, NEW p \in Phases, pc' = [pc EXCEPT ![t] = p],
           UNCHANGED <<op, on, plans, copy, heap, cache, history>>,
           p \notin {"loaded", "model"},
           p \in {"save", "writing", "unlinked", "written"}
             => pc[t] \in {"save", "writing", "unlinked", "written"},
           file' \in {file, Torn, Absent, copy[t]}
    PROVE  IInv'
  <1>1. file' \in {file, Torn, Absent} \/ Good(file', added')
    BY Settled DEF history
  <1>2. p \in {"save", "writing", "unlinked", "written"} /\ op[t] = "add" => copy[t].messages # <<>>
    BY DEF IInv, Copies
  <1>3. /\ op' = [op EXCEPT ![t] = op[t]] /\ on' = [on EXCEPT ![t] = on[t]]
        /\ batch' = [batch EXCEPT ![t] = batch[t]] /\ until' = [until EXCEPT ![t] = until[t]]
        /\ prior' = [prior EXCEPT ![t] = prior[t]] /\ copy' = [copy EXCEPT ![t] = copy[t]]
    BY Settled DEF plans
  <1>4. /\ added' = added /\ acked' = acked /\ wiped' = wiped /\ restarts' = restarts
        /\ heap' = heap /\ cache' = cache
    BY DEF history
  <1>5. /\ op[t] \in Operations \cup {None} /\ on[t] \in Objects \cup {None}
        /\ batch[t] \in SUBSET (1..added') /\ prior[t] \in SUBSET (1..added')
        /\ until[t] \in 0..added' /\ Good(copy[t], added')
    BY <1>4, Settled
  <1>6. /\ added' \in Nat /\ added <= added'
        /\ heap' \in [Objects -> Session] /\ \A x \in Objects : Good(heap'[x], added')
        /\ cache' \in Objects \cup {None}
        /\ acked' \in SUBSET (1..added') /\ wiped' \in SUBSET (1..added')
        /\ restarts' \in 0..MaxRestarts
    BY <1>4, Settled
  <1>7. pc' = [pc EXCEPT ![t] = p] /\ (p \in {"loaded", "model"} => on[t] \in Objects)
    OBVIOUS
  <1>8. QED
    BY ONLY IInv, <1>1, <1>2, <1>3, <1>5, <1>6, <1>7, TaskStep

\* The dump of a save.
LEMMA SaveStep ==
    ASSUME IInv, NEW t \in Tasks, NEW w \in Operations, NEW o \in Objects, NEW s,
           Save(t, o, s), op' = [op EXCEPT ![t] = w],
           added' \in Nat, added <= added', s \in Session, Good(s, added'),
           w = "add" => s.messages # <<>>,
           acked' = acked, wiped' \in SUBSET (1..added), restarts' = restarts,
           cache' \in Objects \cup {None}, file' = file
    PROVE  IInv'
  <1>1. "save" \in Phases
    BY DEF Phases
  <1>2. heap' \in [Objects -> Session]
    BY DEF Save, IInv, TypeOK
  <1>3. ASSUME NEW x \in Objects PROVE Good(heap'[x], added')
    <2>1. Good(heap[x], added')
      BY Settled, GoodLater
    <2>2. heap'[x] = IF x = o THEN s ELSE heap[x]
      BY DEF Save, IInv, TypeOK
    <2>3. QED
      BY <2>1, <2>2
  <1>4. acked' \in SUBSET (1..added') /\ wiped' \in SUBSET (1..added')
        /\ {} \in SUBSET (1..added') /\ 0 \in 0..added'
    BY Settled
  <1>5. QED
    BY <1>1, <1>2, <1>3, <1>4, Settled, TaskStep DEF Save

LEMMA AskStep ==
    ASSUME IInv, NEW t \in Tasks, NEW w \in Operations, NEW o \in Objects,
           NEW what \in SUBSET (1..added), NEW end \in 0..added, NEW summary \in SUBSET (1..added),
           AskModel(t, o, what, end, summary), op' = [op EXCEPT ![t] = w],
           UNCHANGED <<heap, copy, history>>, cache' \in Objects \cup {None}, file' = file
    PROVE  IInv'
  <1>1. "model" \in Phases
    BY DEF Phases
  <1>2. QED
    BY <1>1, Settled, TaskStep DEF AskModel, history

LEMMA ProceedStep ==
    ASSUME IInv, NEW t \in Tasks, NEW o \in Objects, NEW what, Proceed(t, o, what),
           cache' \in Objects \cup {None}, file' = file
    PROVE  IInv'
  <1> DEFINE s == heap[o]
  <1>0. s \in Session /\ Good(s, added) /\ added \in Nat
    BY Settled
  <1>1. CASE what = "add" /\ added' = added + 1 /\ Save(t, o, WithMessage(s, added + 1))
             /\ op' = [op EXCEPT ![t] = what] /\ UNCHANGED <<acked, wiped, restarts>>
    <2>0. /\ Good(WithMessage(s, added + 1), added + 1)
          /\ WithMessage(s, added + 1).messages # <<>>
      BY <1>0, GoodWithMessage
    <2>1. Good(WithMessage(s, added + 1), added') /\ WithMessage(s, added + 1).messages # <<>>
          /\ added' \in Nat /\ added <= added'
      BY <1>0, <1>1, <2>0
    <2>2. WithMessage(s, added + 1) \in Session /\ what \in Operations
      BY <1>1, <2>1 DEF Good, Operations
    <2>3. QED
      BY <1>1, <2>1, <2>2, Settled, SaveStep
  <1>2. CASE what = "resave" /\ Save(t, o, s) /\ op' = [op EXCEPT ![t] = what] /\ UNCHANGED history
    <2>1. what \in Operations /\ what # "add"
      BY <1>2 DEF Operations
    <2>2. QED
      BY <1>0, <1>2, <2>1, Settled, SaveStep DEF history
  <1>3. CASE what = "clear" /\ wiped' = 1..added /\ Save(t, o, Cleared(s))
             /\ op' = [op EXCEPT ![t] = what] /\ UNCHANGED <<added, acked, restarts>>
    <2>1. what \in Operations /\ what # "add"
      BY <1>3 DEF Operations
    <2>2. QED
      BY <1>0, <1>3, <2>1, Settled, SaveStep DEF Cleared
  <1>4. CASE what = "compact" /\ AskModel(t, o, ToSummarise(s), CompactUntil(s), s.summary)
             /\ op' = [op EXCEPT ![t] = what] /\ UNCHANGED <<heap, copy, history>>
    <2>1. what \in Operations
      BY <1>4 DEF Operations
    <2>2. QED
      BY <1>0, <1>4, <2>1, GoodNumbers, AskStep
  <1>5. CASE what = "consolidate" /\ AskModel(t, o, {}, 0, {})
             /\ op' = [op EXCEPT ![t] = what] /\ UNCHANGED <<heap, copy, history>>
    <2>1. what \in Operations
      BY <1>5 DEF Operations
    <2>2. QED
      BY <1>5, <2>1, Settled, AskStep
  <1>6. CASE Return(t) /\ UNCHANGED <<heap, history>>
    BY <1>6, Settled, ReturnStep DEF history
  <1>7. QED
    BY <1>1, <1>2, <1>3, <1>4, <1>5, <1>6 DEF Proceed

\* Another object is waited for, with the cache as it was or emptied.
LEMMA WaitStep ==
    ASSUME IInv, NEW t \in Tasks, NEW what \in Operations,
           NEW phase \in {"load", "list", "remove"}, Wait(t, what, phase),
           UNCHANGED <<file, history>>, cache' \in Objects \cup {None}
    PROVE  IInv'
  <1>1. phase \in Phases
    BY DEF Phases
  <1>2. /\ pc' = [pc EXCEPT ![t] = phase] /\ op' = [op EXCEPT ![t] = what]
        /\ on' = [on EXCEPT ![t] = on[t]] /\ batch' = [batch EXCEPT ![t] = batch[t]]
        /\ until' = [until EXCEPT ![t] = until[t]]
        /\ prior' = [prior EXCEPT ![t] = prior[t]] /\ copy' = [copy EXCEPT ![t] = copy[t]]
    BY Settled DEF Wait, plans
  <1>3. /\ added' = added /\ acked' = acked /\ wiped' = wiped /\ restarts' = restarts
        /\ heap' = heap /\ file' = file
    BY DEF Wait, history
  <1>4. /\ on[t] \in Objects \cup {None}
        /\ batch[t] \in SUBSET (1..added') /\ prior[t] \in SUBSET (1..added')
        /\ until[t] \in 0..added' /\ Good(copy[t], added')
        /\ added' \in Nat /\ added <= added'
        /\ heap' \in [Objects -> Session] /\ \A x \in Objects : Good(heap'[x], added')
        /\ acked' \in SUBSET (1..added') /\ wiped' \in SUBSET (1..added')
        /\ restarts' \in 0..MaxRestarts
    BY <1>3, Settled
  <1>5. what \in Operations \cup {None} /\ cache' \in Objects \cup {None}
        /\ phase \notin {"loaded", "model", "save", "writing", "unlinked", "written"}
    OBVIOUS
  <1>6. QED
    BY ONLY IInv, t \in Tasks, <1>1, <1>2, <1>3, <1>4, <1>5, TaskStep

\* The cache is emptied, whatever it held.
LEMMA ForgetStep ==
    ASSUME IInv, cache' = None, UNCHANGED <<heap, pc, op, on, plans, copy, file, history>>
    PROVE  IInv'
  <1>1. TypeOK'
    BY DEF IInv, TypeOK, plans, history
  <1>2. Copies'
    BY DEF IInv, Copies, plans, history
  <1>3. QED
    BY <1>1, <1>2 DEF IInv

LEMMA ReadStep ==
    ASSUME IInv, NEW t \in Tasks, NEW from, NEW to \in {"loaded", "listed"}, ReadFile(t, from, to)
    PROVE  IInv'
  <1>1. CASE file \in {Torn, Absent}
    <2>1. Return(t) /\ UNCHANGED <<heap, cache, file, history>>
      BY <1>1 DEF ReadFile
    <2>2. QED
      BY <2>1, Settled, ReturnStep DEF history
  <1>2. CASE file \notin {Torn, Absent}
    <2>1. PICK o \in Spare :
              /\ heap' = [heap EXCEPT ![o] = file]
              /\ on' = [on EXCEPT ![t] = o]
              /\ pc' = [pc EXCEPT ![t] = to]
              /\ UNCHANGED <<op, plans, copy>>
      BY <1>2 DEF ReadFile
    <2>2. o \in Objects /\ to \in Phases
      BY DEF Spare, Phases
    <2>3. file \in Session /\ Good(file, added)
      BY <1>2, Settled
    <2>4. /\ op' = [op EXCEPT ![t] = op[t]] /\ batch' = [batch EXCEPT ![t] = batch[t]]
          /\ until' = [until EXCEPT ![t] = until[t]]
          /\ prior' = [prior EXCEPT ![t] = prior[t]] /\ copy' = [copy EXCEPT ![t] = copy[t]]
      BY <2>1, Settled DEF plans
    <2>5. /\ added' = added /\ acked' = acked /\ wiped' = wiped /\ restarts' = restarts
          /\ cache' = cache /\ file' = file
      BY DEF ReadFile, history
    <2>6. heap' \in [Objects -> Session]
      BY <2>1, <2>2, <2>3, Settled
    <2>7. ASSUME NEW x \in Objects PROVE Good(heap'[x], added')
      <3>1. heap'[x] = IF x = o THEN file ELSE heap[x]
        BY <2>1, Settled
      <3>2. QED
        BY <2>3, <2>5, <3>1, Settled
    <2>8. /\ op[t] \in Operations \cup {None}
          /\ batch[t] \in SUBSET (1..added') /\ prior[t] \in SUBSET (1..added')
          /\ until[t] \in 0..added' /\ Good(copy[t], added')
          /\ added' \in Nat /\ added <= added' /\ cache' \in Objects \cup {None}
          /\ acked' \in SUBSET (1..added') /\ wiped' \in SUBSET (1..added')
          /\ restarts' \in 0..MaxRestarts
      BY <2>5, Settled
    <2>9. pc' = [pc EXCEPT ![t] = to] /\ on' = [on EXCEPT ![t] = o]
      BY <2>1
    <2>10. to \notin {"save", "writing", "unlinked", "written"} /\ o \in Objects \cup {None}
      BY <2>2
    <2>11. QED
      BY ONLY IInv, t \in Tasks, <2>2, <2>4, <2>5, <2>6, <2>7, <2>8, <2>9, <2>10, TaskStep
  <1>3. QED
    BY <1>1, <1>2

\* The last message of the dump of an add is one that was added.
LEMMA AcknowledgeType ==
    ASSUME IInv, NEW t \in Tasks, pc[t] \in {"writing", "written"}, Acknowledge(t)
    PROVE  acked' \in SUBSET (1..added)
  <1>1. CASE op[t] = "add"
    <2>1. copy[t].messages # <<>>
      BY <1>1 DEF IInv, Copies
    <2>2. copy[t].messages[Len(copy[t].messages)] \in 1..added
      BY <2>1, Settled, GoodNumbers
    <2>3. QED
      BY <1>1, <2>2, Settled DEF Acknowledge
  <1>2. CASE op[t] # "add"
    BY <1>2, Settled DEF Acknowledge
  <1>3. QED
    BY <1>1, <1>2

LEMMA RemoveStep ==
    ASSUME IInv, NEW t \in Tasks, RemoveFile(t) PROVE IInv'
  <1>1. /\ file' = Absent /\ wiped' = 1..added /\ op' = [op EXCEPT ![t] = None]
        /\ heap' = heap /\ cache' = cache /\ on' = on /\ copy' = copy /\ added' = added
        /\ acked' = acked /\ restarts' = restarts
        /\ batch' = batch /\ until' = until /\ prior' = prior
    BY DEF RemoveFile, plans
  <1>2. ASSUME NEW u \in Tasks
        PROVE  /\ pc'[u] \in {"idle", "unlinked", pc[u]}
               /\ (pc'[u] = "unlinked" /\ pc[u] # "unlinked" => pc[u] = "writing")
    BY DEF RemoveFile, Writers
  <1>3. pc' \in [Tasks -> Phases]
    <2>1. \A u \in Tasks : (IF u = t THEN "idle" ELSE IF u \in Writers THEN "unlinked" ELSE pc[u]) \in Phases
      BY Settled DEF Phases
    <2>2. QED
      BY <2>1 DEF RemoveFile
  <1>4. wiped' \in SUBSET (1..added')
    BY <1>1
  <1>5. TypeOK'
    BY <1>1, <1>3, <1>4 DEF IInv, TypeOK
  <1>6. ASSUME NEW u \in Tasks
        PROVE  /\ Good(copy'[u], added')
               /\ pc'[u] \in {"loaded", "model"} => on'[u] \in Objects
               /\ pc'[u] \in {"save", "writing", "unlinked", "written"} /\ op'[u] = "add"
                    => copy'[u].messages # <<>>
    <2>1. op'[u] = "add" => op[u] = "add"
      BY <1>1, TasksAssumption DEF IInv, TypeOK, Operations
    <2>2. QED
      BY <1>1, <1>2, <2>1 DEF IInv, Copies
  <1>7. Copies'
    BY <1>1, <1>6 DEF IInv, Copies
  <1>8. QED
    BY <1>5, <1>7 DEF IInv

LEMMA RestartStep == ASSUME IInv, Restart PROVE IInv'
  <1>1. Fresh \in Session /\ Good(Fresh, added) /\ restarts' \in 0..MaxRestarts
    <2>1. restarts \in 0..MaxRestarts /\ MaxRestarts \in Nat
      BY Settled, TasksAssumption
    <2>2. QED
      BY <2>1, Settled DEF Restart
  <1>2. TypeOK'
    <2>1. /\ batch' \in [Tasks -> SUBSET (1..added)] /\ prior' \in [Tasks -> SUBSET (1..added)]
          /\ until' \in [Tasks -> 0..added]
      BY Settled DEF Restart
    <2>2. QED
      BY <1>1, <2>1 DEF Restart, IInv, TypeOK, Phases
  <1>3. Copies'
    BY <1>1 DEF Restart, IInv, Copies
  <1>4. QED
    BY <1>2, <1>3 DEF IInv

LEMMA CompactStep ==
    ASSUME IInv, NEW t \in Tasks, CompactAnswered(t) PROVE IInv'
  <1>1. on[t] \in Objects /\ op[t] = "compact" /\ "compact" \in Operations
    BY Settled DEF CompactAnswered, Operations
  <1> DEFINE s == heap[on[t]]
             new == WithSummary(s, prior[t], batch[t], until[t])
  <1>3. s \in Session /\ Good(s, added)
    BY <1>1, Settled
  <1>4. /\ prior[t] \in SUBSET (1..added) /\ batch[t] \in SUBSET (1..added) /\ until[t] \in 0..added
        /\ added \in Nat
    BY Settled
  <1>5. prior[t] \in SUBSET Nat /\ batch[t] \in SUBSET Nat /\ until[t] \in Nat
    BY <1>4
  <1>6. new \in Session /\ new.messages = s.messages
    BY <1>3, <1>5, WithSummaryType
  <1>7. new.summary = prior[t] \cup batch[t]
    BY <1>3 DEF WithSummary, Session
  <1>8. Good(new, added)
    BY <1>3, <1>4, <1>6, <1>7, GoodSame
  <1> HIDE DEF new
  <1>9. CASE Save(t, on[t], new) /\ UNCHANGED op /\ UNCHANGED <<cache, file, history>>
    <2>1. op' = [op EXCEPT ![t] = "compact"]
      BY <1>1, <1>9, Settled
    <2>2. /\ added' = added /\ acked' = acked /\ wiped' = wiped /\ restarts' = restarts
          /\ cache' = cache /\ file' = file
      BY <1>9 DEF history
    <2>3. /\ added' \in Nat /\ added <= added' /\ Good(new, added')
          /\ wiped' \in SUBSET (1..added) /\ cache' \in Objects \cup {None}
      BY <1>8, <2>2, Settled
    <2>4. QED
      BY ONLY IInv, t \in Tasks, <1>1, <1>6, <1>9, <2>1, <2>2, <2>3, SaveStep
  <1>10. CASE Return(t) /\ UNCHANGED heap /\ UNCHANGED <<cache, file, history>>
    BY <1>10, Settled, ReturnStep DEF history
  <1>11. QED
    BY <1>9, <1>10 DEF CompactAnswered, new

LEMMA ConsolidateStep ==
    ASSUME IInv, NEW t \in Tasks, ConsolidateAnswered(t) PROVE IInv'
  <1>1. on[t] \in Objects /\ op[t] = "consolidate" /\ "consolidate" \in Operations
    BY Settled DEF ConsolidateAnswered, Operations
  <1> DEFINE s == heap[on[t]]
             new == MarkConsolidated(s)
  <1>3. s \in Session /\ Good(s, added)
    BY <1>1, Settled
  <1>6. new \in Session /\ new.messages = s.messages
    BY <1>3, MarkConsolidatedType
  <1>7. new.summary = s.summary
    BY <1>3 DEF MarkConsolidated, Session
  <1>8. Good(new, added)
    BY <1>3, <1>6, <1>7, GoodSame DEF Good
  <1>9. Save(t, on[t], new) /\ UNCHANGED op /\ UNCHANGED <<cache, file, history>>
    BY DEF ConsolidateAnswered
  <1> HIDE DEF new
  <1> QED
    <2>1. op' = [op EXCEPT ![t] = "consolidate"]
      BY <1>1, <1>9, Settled
    <2>2. /\ added' = added /\ acked' = acked /\ wiped' = wiped /\ restarts' = restarts
          /\ cache' = cache /\ file' = file
      BY <1>9 DEF history
    <2>3. /\ added' \in Nat /\ added <= added' /\ Good(new, added')
          /\ wiped' \in SUBSET (1..added) /\ cache' \in Objects \cup {None}
      BY <1>8, <2>2, Settled
    <2>4. QED
      BY ONLY IInv, t \in Tasks, <1>1, <1>6, <1>9, <2>1, <2>2, <2>3, SaveStep

LEMMA CallStep ==
    ASSUME IInv, NEW t \in Tasks, Call(t) PROVE IInv'
  <1>1. ASSUME NEW what \in Operations, CachedGet(t, what) PROVE IInv'
    <2>1. cache \in Objects /\ Proceed(t, cache, what) /\ cache' = cache /\ file' = file
      BY <1>1, Settled DEF CachedGet
    <2>2. QED
      BY <2>1, ProceedStep
  <1>2. ASSUME NEW what \in Operations, UncachedGet(t, what) PROVE IInv'
    BY <1>2, Settled, WaitStep DEF UncachedGet
  <1>3. CASE ListSessions(t)
    BY <1>3, WaitStep, ForgetStep DEF ListSessions, Operations
  <1>4. CASE DeleteSession(t)
    BY <1>4, WaitStep, ForgetStep DEF DeleteSession, Operations
  <1>5. QED
    BY <1>1, <1>2, <1>3, <1>4 DEF Call

LEMMA ContinueStep ==
    ASSUME IInv, NEW t \in Tasks, Continue(t) PROVE IInv'
  <1>1. CASE LoadFile(t) \/ ListRead(t)
    BY <1>1, ReadStep DEF LoadFile, ListRead
  <1>2. CASE LoadedGet(t)
    <2>1. on[t] \in Objects /\ Proceed(t, on[t], op[t]) /\ cache' = on[t] /\ file' = file
      BY <1>2, Settled DEF LoadedGet
    <2>2. QED
      BY <2>1, ProceedStep
  <1>3. CASE ListDone(t)
    BY <1>3, Settled, ReturnStep DEF ListDone, history
  <1>4. CASE OpenFile(t)
    <2>1. "writing" \in Phases
      BY DEF Phases
    <2>2. QED
      BY <1>4, <2>1, MoveStep DEF OpenFile
  <1>5. CASE WriteFile(t)
    <2>1. "written" \in Phases
      BY DEF Phases
    <2>2. file' \in {file, Torn, copy[t]} /\ pc[t] \in {"writing", "unlinked"}
      BY <1>5 DEF WriteFile
    <2>3. QED
      BY <1>5, <2>1, <2>2, MoveStep DEF WriteFile
  <1>6. CASE Saved(t)
    <2>1. acked' \in SUBSET (1..added)
      BY <1>6, AcknowledgeType DEF Saved
    <2>2. QED
      BY <1>6, <2>1, Settled, ReturnStep DEF Saved
  <1>7. CASE WriteFails(t)
    <2>1. acked' \in SUBSET (1..added)
      BY <1>7, AcknowledgeType DEF WriteFails
    <2>2. QED
      BY <1>7, <2>1, Settled, ReturnStep DEF WriteFails
  <1>8. QED
    BY <1>1, <1>2, <1>3, <1>4, <1>5, <1>6, <1>7, RemoveStep, CompactStep, ConsolidateStep DEF Continue

LEMMA NextIInv == IInv /\ [Next]_vars => IInv'
  <1> SUFFICES ASSUME IInv, [Next]_vars PROVE IInv'
    OBVIOUS
  <1>1. CASE UNCHANGED vars
    <2>1. TypeOK'
      BY <1>1 DEF vars, IInv, TypeOK, plans, history
    <2>2. Copies'
      BY <1>1 DEF vars, IInv, Copies, plans, history
    <2>3. QED
      BY <2>1, <2>2 DEF IInv
  <1>2. QED
    BY <1>1, CallStep, ContinueStep, RestartStep DEF Next

\* Whichever copies of the session replace each other -- objects left behind
\* by list and delete, files torn, removed or written twice at once, a process
\* that starts again -- what is read, cached or stored is a session that the
\* code can make, with its history in the order of the add_message calls.
THEOREM HistoryStaysSound == Spec => []HistorySound
  <1>1. ASSUME IInv PROVE HistorySound
    <2>1. cache # None => Increasing(Current)
      BY <1>1, Settled DEF Current, Good, Ordered
    <2>2. file \in {Torn, Absent} \/ Increasing(file)
      BY <1>1, Settled DEF Good, Ordered
    <2>3. QED
      BY <1>1, <2>1, <2>2 DEF HistorySound, HistoryInOrder, IInv
  <1>2. QED
    BY InitIInv, NextIInv, <1>1, PTL DEF Spec

-----------------------------------------------------------------------------
(* One object.  As long as nobody deletes or lists sessions and the process *)
(* lives, every coroutine works on the object that is in the cache.        *)

NobodyForgets ==
    /\ \A t \in Tasks : CanDo[t] \cap {"delete", "list"} = {}
    /\ MaxRestarts = 0

Shared ==
    /\ cache \in Objects
    /\ \A t \in Tasks :
          /\ pc[t] \in {"idle", "model", "save", "writing", "written"}
          /\ pc[t] # "idle" => on[t] = cache /\ op[t] \in CanDo[t]

\* The steps that are left, with what each does to the shared object.
Steps(t, what) ==
    \/ /\ pc[t] = "idle" /\ what \in CanDo[t]
       /\ what = "add" => added < MaxMessages
       /\ Proceed(t, cache, what)
    \/ /\ pc[t] = "model" /\ op[t] = what /\ what = "compact" /\ op' = op
       /\ Save(t, cache, WithSummary(Current, prior[t], batch[t], until[t]))
       /\ UNCHANGED history
    \/ /\ pc[t] = "model" /\ op[t] = what /\ what = "consolidate" /\ op' = op
       /\ Save(t, cache, MarkConsolidated(Current))
       /\ UNCHANGED history
    \/ /\ pc[t] = "model" /\ op[t] = what /\ what = "compact"
       /\ Return(t) /\ UNCHANGED <<heap, history>>
    \/ /\ pc[t] \in {"save", "writing"} /\ op[t] = what
       /\ pc' = [pc EXCEPT ![t] = IF pc[t] = "save" THEN "writing" ELSE "written"]
       /\ UNCHANGED <<heap, op, on, plans, copy, history>>
    \/ /\ pc[t] \in {"writing", "written"} /\ op[t] = what
       /\ Acknowledge(t) /\ Return(t)
       /\ UNCHANGED <<heap, added, wiped, restarts>>

LEMMA SharedNext ==
    ASSUME NobodyForgets, IInv, Shared, Next
    PROVE  cache' = cache /\ \E t \in Tasks, what \in Operations \cup {None} : Steps(t, what)
  <1>0. cache \in Objects /\ cache # None /\ restarts = 0 /\ MaxRestarts = 0
    BY TasksAssumption DEF Shared, IInv, TypeOK, NobodyForgets
  <1>1. ~Restart
    BY <1>0 DEF Restart
  <1>2. PICK t \in Tasks : Call(t) \/ Continue(t)
    BY <1>1 DEF Next
  <1>3. /\ pc[t] \in {"idle", "model", "save", "writing", "written"}
        /\ pc[t] # "idle" => on[t] = cache
        /\ op[t] \in Operations \cup {None}
        /\ "delete" \notin CanDo[t] /\ "list" \notin CanDo[t]
    BY Settled DEF Shared, NobodyForgets
  <1>4. CASE Call(t)
    <2>1. ~ListSessions(t) /\ ~DeleteSession(t)
      BY <1>3 DEF ListSessions, DeleteSession, Begin
    <2>2. PICK what \in Operations : CachedGet(t, what)
      BY <1>0, <1>4, <2>1 DEF Call, UncachedGet
    <2>3. cache' = cache /\ Steps(t, what)
      BY <2>2 DEF CachedGet, Begin, Steps
    <2>4. QED
      BY <2>3
  <1>5. CASE Continue(t)
    <2>1. \/ CompactAnswered(t) \/ ConsolidateAnswered(t) \/ OpenFile(t) \/ WriteFile(t)
          \/ Saved(t) \/ WriteFails(t)
      BY <1>3, <1>5 DEF Continue, LoadFile, ListRead, ReadFile, LoadedGet, ListDone, RemoveFile
    <2>2. CASE CompactAnswered(t)
      BY <1>3, <2>2 DEF CompactAnswered, Steps, Current
    <2>3. CASE ConsolidateAnswered(t)
      BY <1>3, <2>3 DEF ConsolidateAnswered, Steps, Current
    <2>4. CASE OpenFile(t)
      BY <1>3, <2>4 DEF OpenFile, Steps
    <2>5. CASE WriteFile(t)
      BY <1>3, <2>5 DEF WriteFile, Steps
    <2>6. CASE Saved(t)
      BY <1>3, <2>6 DEF Saved, Steps
    <2>7. CASE WriteFails(t)
      BY <1>3, <2>7 DEF WriteFails, Steps
    <2>8. QED
      BY <2>1, <2>2, <2>3, <2>4, <2>5, <2>6, <2>7
  <1>6. QED
    BY <1>2, <1>4, <1>5

\* Only the coroutine that steps changes its place, its operation, its object
\* and its plan.
LEMMA SharedStep ==
    ASSUME NobodyForgets, IInv, Shared, [Next]_vars PROVE Shared'
  <1>0. /\ pc \in [Tasks -> Phases] /\ op \in [Tasks -> Operations \cup {None}]
        /\ on \in [Tasks -> Objects \cup {None}]
    BY DEF IInv, TypeOK
  <1>1. ASSUME NEW t \in Tasks, NEW what, Steps(t, what), cache' = cache
        PROVE  Shared'
    <2> DEFINE Back == /\ pc' = [pc EXCEPT ![t] = "idle"] /\ op' = [op EXCEPT ![t] = None]
                       /\ on' = [on EXCEPT ![t] = None]
               Begun == pc[t] = "idle" /\ what \in CanDo[t] /\ op' = [op EXCEPT ![t] = what]
               Going == pc[t] # "idle" /\ op' = op
               Busy(phase) == pc' = [pc EXCEPT ![t] = phase] /\ on' = [on EXCEPT ![t] = cache]
               Moved(phase) == pc' = [pc EXCEPT ![t] = phase] /\ on' = on
    <2>1. \/ Back \/ ((Begun \/ Going) /\ (Busy("save") \/ Busy("model")))
          \/ (Going /\ (Moved("writing") \/ Moved("written")))
      <3>1. Return(t) => Back
        BY DEF Return
      <3>2. \A s : Save(t, cache, s) => Busy("save")
        BY DEF Save
      <3>3. \A a, b, c : AskModel(t, cache, a, b, c) => Busy("model")
        BY DEF AskModel
      <3>4. pc[t] = "idle" /\ what \in CanDo[t] /\ Proceed(t, cache, what)
              => Back \/ (Begun /\ (Busy("save") \/ Busy("model")))
        BY <3>1, <3>2, <3>3 DEF Proceed
      <3>5. pc[t] = "model" /\ op' = op /\ (\E s : Save(t, cache, s)) => Going /\ Busy("save")
        BY <3>2
      <3>6. ASSUME pc[t] \in {"save", "writing"}, UNCHANGED <<heap, op, on, plans, copy, history>>,
                   pc' = [pc EXCEPT ![t] = IF pc[t] = "save" THEN "writing" ELSE "written"]
            PROVE  Going /\ (Moved("writing") \/ Moved("written"))
        <4>1. CASE pc[t] = "save"
          BY <3>6, <4>1
        <4>2. CASE pc[t] # "save"
          BY <3>6, <4>2
        <4>3. QED
          BY <4>1, <4>2
      <3> HIDE DEF Back, Begun, Going, Busy, Moved
      <3>7. CASE pc[t] = "idle"
        BY <1>1, <3>4, <3>7 DEF Steps
      <3>8. CASE pc[t] # "idle"
        BY <1>1, <3>1, <3>5, <3>6, <3>8 DEF Steps
      <3>9. QED
        BY <3>7, <3>8
    <2>2. ASSUME NEW u \in Tasks
          PROVE  /\ pc'[u] \in {"idle", "model", "save", "writing", "written"}
                 /\ pc'[u] # "idle" => on'[u] = cache /\ op'[u] \in CanDo[u]
      <3>1. CASE u = t
        BY <1>0, <2>1, <3>1 DEF Shared
      <3>2. CASE u # t
        BY <1>0, <2>1, <3>2 DEF Shared
      <3>3. QED
        BY <3>1, <3>2
    <2>3. QED
      BY <1>1, <2>2 DEF Shared
  <1>2. CASE UNCHANGED vars
    BY <1>2 DEF vars, Shared
  <1>3. QED
    BY <1>1, <1>2, SharedNext

LEMMA SharedInit == ASSUME Init PROVE Shared
  BY DEF Init, Shared

\* The message whose add a coroutine is about to answer.
Adding(t) == pc[t] \in {"save", "writing", "written"} /\ op[t] = "add"
LastOf(t) == copy[t].messages[Len(copy[t].messages)]

\* What was acknowledged, and what will be, is in the object in the cache
\* until it is wiped.
Owed ==
    /\ acked \ wiped \subseteq Numbers(Current.messages)
    /\ \A t \in Tasks : Adding(t) => LastOf(t) \in wiped \cup Numbers(Current.messages)

LEMMA SharedTypes ==
    ASSUME IInv, Shared
    PROVE  /\ cache \in Objects /\ added \in Nat /\ heap \in [Objects -> Session]
           /\ Current \in Session /\ Current.messages \in Seq(Nat) /\ Len(Current.messages) \in Nat
           /\ pc \in [Tasks -> Phases] /\ op \in [Tasks -> Operations \cup {None}]
           /\ batch \in [Tasks -> SUBSET (1..added)] /\ prior \in [Tasks -> SUBSET (1..added)]
           /\ until \in [Tasks -> 0..added] /\ copy \in [Tasks -> Session]
           /\ acked \subseteq 1..added
           /\ \A t \in Tasks : Adding(t) => LastOf(t) \in 1..added
  <1>1. cache \in Objects /\ heap \in [Objects -> Session] /\ Current \in Session
    BY DEF Shared, Current, IInv, TypeOK
  <1>2. Current.messages \in Seq(Nat) /\ Len(Current.messages) \in Nat
    BY <1>1, LenProperties DEF Session
  <1>3. ASSUME NEW t \in Tasks, Adding(t) PROVE LastOf(t) \in 1..added
    <2>1. copy[t].messages # <<>>
      BY <1>3 DEF Adding, IInv, Copies
    <2>2. QED
      BY <2>1, Settled, GoodNumbers DEF LastOf
  <1>4. acked \subseteq 1..added
    BY Settled
  <1>5. QED
    BY <1>1, <1>2, <1>3, <1>4 DEF IInv, TypeOK

\* A save of the shared object.
LEMMA SaveShared ==
    ASSUME IInv, Shared, cache' = cache, NEW t \in Tasks, NEW s, Save(t, cache, s)
    PROVE  /\ Current' = s
           /\ pc' = [pc EXCEPT ![t] = "save"] /\ copy' = [copy EXCEPT ![t] = s]
           /\ pc'[t] = "save" /\ copy'[t] = s
           /\ \A u \in Tasks \ {t} : pc'[u] = pc[u] /\ copy'[u] = copy[u]
  BY SharedTypes DEF Save, Current

\* When the history grows or is wiped as a whole, what is owed to the other
\* coroutines stays in it.
LEMMA OthersOwed ==
    ASSUME IInv, Shared, Owed, NEW t \in Tasks, acked' = acked,
           \A u \in Tasks \ {t} : Adding(u)' => Adding(u) /\ LastOf(u)' = LastOf(u),
           Adding(t)' => LastOf(t)' \in wiped' \cup Numbers(Current'.messages),
           \/ wiped' = wiped /\ Numbers(Current.messages) \subseteq Numbers(Current'.messages)
           \/ wiped' = 1..added
    PROVE  Owed'
  <1>1. acked' \ wiped' \subseteq Numbers(Current'.messages)
    BY SharedTypes DEF Owed
  <1>2. ASSUME NEW u \in Tasks, Adding(u)' PROVE LastOf(u)' \in wiped' \cup Numbers(Current'.messages)
    <2>1. CASE u = t
      BY <1>2, <2>1
    <2>2. CASE u # t
      <3>1. Adding(u) /\ LastOf(u)' = LastOf(u)
        BY <1>2, <2>2
      <3>2. LastOf(u) \in 1..added /\ LastOf(u) \in wiped \cup Numbers(Current.messages)
        BY <3>1, SharedTypes DEF Owed
      <3>3. CASE wiped' = 1..added
        BY <3>1, <3>2, <3>3
      <3>4. CASE wiped' = wiped /\ Numbers(Current.messages) \subseteq Numbers(Current'.messages)
        BY <3>1, <3>2, <3>4
      <3>5. QED
        BY <3>3, <3>4
    <2>3. QED
      BY <2>1, <2>2
  <1>3. QED
    BY <1>1, <1>2 DEF Owed

\* A coroutine that leaves the object alone.
LEMMA OwedAlone ==
    ASSUME IInv, Shared, Owed, NEW t \in Tasks, cache' = cache, heap' = heap, wiped' = wiped,
           \A u \in Tasks : Adding(u)' => Adding(u) /\ LastOf(u)' = LastOf(u),
           acked' \subseteq acked \cup wiped \cup Numbers(Current.messages)
    PROVE  Owed'
  <1>1. Current' = Current
    BY DEF Current
  <1>2. QED
    BY <1>1 DEF Owed

LEMMA OwedStep ==
    ASSUME IInv, Shared, Owed, NEW t \in Tasks, NEW what, Steps(t, what), cache' = cache
    PROVE  Owed'
  <1> DEFINE s == Current
  <1>0. /\ s \in Session /\ s = heap[cache] /\ added \in Nat
        /\ pc \in [Tasks -> Phases] /\ op \in [Tasks -> Operations \cup {None}]
        /\ copy \in [Tasks -> Session]
    BY SharedTypes DEF Current
  <1>1. CASE /\ what = "add" /\ pc[t] = "idle" /\ added' = added + 1
             /\ Save(t, cache, WithMessage(s, added + 1)) /\ op' = [op EXCEPT ![t] = what]
             /\ UNCHANGED <<acked, wiped, restarts>>
    <2> DEFINE new == WithMessage(s, added + 1)
    <2>1. /\ Current' = new /\ copy'[t] = new
          /\ \A u \in Tasks \ {t} : pc'[u] = pc[u] /\ copy'[u] = copy[u] /\ op'[u] = op[u]
      BY <1>0, <1>1, SaveShared
    <2>2. new.messages = Append(s.messages, added + 1)
      BY <1>0 DEF WithMessage, Session
    <2>3. /\ Numbers(s.messages) \subseteq Numbers(new.messages)
          /\ new.messages[Len(new.messages)] \in Numbers(new.messages)
      <3>1. s.messages \in Seq(Nat) /\ added + 1 \in Nat
        BY <1>0, SharedTypes
      <3>2. QED
        <4> DEFINE longer == Append(s.messages, added + 1)
        <4>1. /\ Numbers(s.messages) \subseteq Numbers(longer)
              /\ longer[Len(longer)] \in Numbers(longer)
          BY ONLY <3>1, NumbersAppended
        <4>2. QED
          BY ONLY <2>2, <4>1
    <2>4. \A u \in Tasks \ {t} : Adding(u)' => Adding(u) /\ LastOf(u)' = LastOf(u)
      BY <2>1 DEF Adding, LastOf
    <2>5. LastOf(t)' \in Numbers(Current'.messages)
      BY <2>1, <2>3 DEF LastOf
    <2>6. QED
      BY <1>1, <2>1, <2>3, <2>4, <2>5, OthersOwed
  <1>2. ASSUME NEW new, Save(t, cache, new), new.messages = s.messages, UNCHANGED history,
               op' = op \/ op' = [op EXCEPT ![t] = what], op'[t] # "add"
        PROVE  Owed'
    <2>1. /\ Current' = new
          /\ \A u \in Tasks \ {t} : pc'[u] = pc[u] /\ copy'[u] = copy[u] /\ op'[u] = op[u]
      BY <1>0, <1>2, SaveShared
    <2>2. \A u \in Tasks \ {t} : Adding(u)' => Adding(u) /\ LastOf(u)' = LastOf(u)
      BY <2>1 DEF Adding, LastOf
    <2>3. ~Adding(t)'
      BY <1>2 DEF Adding
    <2>4. acked' = acked /\ wiped' = wiped
      BY <1>2 DEF history
    <2>5. QED
      BY <1>2, <2>1, <2>2, <2>3, <2>4, OthersOwed
  <1>3. CASE /\ what = "clear" /\ wiped' = 1..added
             /\ Save(t, cache, Cleared(s)) /\ op' = [op EXCEPT ![t] = what]
             /\ UNCHANGED <<added, acked, restarts>>
    <2>1. /\ \A u \in Tasks \ {t} : pc'[u] = pc[u] /\ copy'[u] = copy[u] /\ op'[u] = op[u]
          /\ op'[t] = "clear"
      BY <1>0, <1>3, SaveShared
    <2>2. \A u \in Tasks \ {t} : Adding(u)' => Adding(u) /\ LastOf(u)' = LastOf(u)
      BY <2>1 DEF Adding, LastOf
    <2>3. ~Adding(t)'
      BY <2>1 DEF Adding
    <2>4. QED
      BY <1>3, <2>2, <2>3, OthersOwed
  <1>4. ASSUME NEW a, NEW b, NEW c, AskModel(t, cache, a, b, c), UNCHANGED <<heap, copy, history>>,
               op' = [op EXCEPT ![t] = what]
        PROVE  Owed'
    <2>1. /\ pc'[t] = "model" /\ copy' = copy
          /\ \A u \in Tasks \ {t} : pc'[u] = pc[u] /\ op'[u] = op[u]
      BY <1>0, <1>4 DEF AskModel
    <2>2. \A u \in Tasks : Adding(u)' => Adding(u) /\ LastOf(u)' = LastOf(u)
      BY <2>1 DEF Adding, LastOf
    <2>3. QED
      BY <1>4, <2>2, OwedAlone DEF history
  <1>5. ASSUME Return(t), heap' = heap, wiped' = wiped,
               acked' \subseteq acked \cup wiped \cup Numbers(s.messages)
        PROVE  Owed'
    <2>1. /\ pc'[t] = "idle"
          /\ \A u \in Tasks \ {t} : pc'[u] = pc[u] /\ op'[u] = op[u] /\ copy'[u] = copy[u]
      BY <1>0, <1>5 DEF Return
    <2>2. \A u \in Tasks : Adding(u)' => Adding(u) /\ LastOf(u)' = LastOf(u)
      BY <2>1 DEF Adding, LastOf
    <2>3. QED
      BY <1>5, <2>2, OwedAlone
  <1>6. CASE pc[t] = "idle" /\ Proceed(t, cache, what)
    <2>1. CASE what = "resave"
      <3>1. Save(t, cache, s) /\ op' = [op EXCEPT ![t] = what] /\ UNCHANGED history
        BY <1>0, <1>6, <2>1 DEF Proceed
      <3>2. op'[t] # "add"
        BY <1>0, <2>1, <3>1
      <3>3. QED
        BY <1>2, <3>1, <3>2
    <2>2. CASE what \in {"compact", "consolidate"}
      <3>1. \/ /\ \E a, b, c : AskModel(t, cache, a, b, c)
               /\ UNCHANGED <<heap, copy, history>> /\ op' = [op EXCEPT ![t] = what]
            \/ Return(t) /\ UNCHANGED <<heap, history>>
        BY <1>6, <2>2 DEF Proceed
      <3>2. QED
        BY <1>4, <1>5, <3>1 DEF history
    <2>3. CASE what \in {"add", "clear"}
      BY <1>0, <1>1, <1>3, <1>6, <2>3 DEF Proceed
    <2>4. QED
      BY <1>6, <2>1, <2>2, <2>3 DEF Proceed
  <1>7. CASE /\ pc[t] = "model" /\ op[t] = what /\ what \in {"compact", "consolidate"} /\ op' = op
             /\ \/ Save(t, cache, WithSummary(s, prior[t], batch[t], until[t]))
                \/ Save(t, cache, MarkConsolidated(s))
             /\ UNCHANGED history
    <2>1. /\ WithSummary(s, prior[t], batch[t], until[t]).messages = s.messages
          /\ MarkConsolidated(s).messages = s.messages
      BY <1>0 DEF WithSummary, MarkConsolidated, Session
    <2>2. op'[t] # "add"
      BY <1>7
    <2>3. QED
      BY <1>2, <1>7, <2>1, <2>2
  <1>8. CASE Return(t) /\ UNCHANGED <<heap, history>>
    BY <1>5, <1>8 DEF history
  <1>9. CASE /\ pc[t] \in {"save", "writing"}
             /\ pc' = [pc EXCEPT ![t] = IF pc[t] = "save" THEN "writing" ELSE "written"]
             /\ UNCHANGED <<heap, op, on, plans, copy, history>>
    <2>1. /\ op' = op /\ copy' = copy /\ pc[t] \in {"save", "writing"}
          /\ \A u \in Tasks \ {t} : pc'[u] = pc[u]
      BY <1>0, <1>9
    <2>2. \A u \in Tasks : Adding(u)' => Adding(u) /\ LastOf(u)' = LastOf(u)
      BY <2>1 DEF Adding, LastOf
    <2>3. QED
      BY <1>9, <2>2, OwedAlone DEF history
  <1>10. CASE /\ pc[t] \in {"writing", "written"} /\ Acknowledge(t) /\ Return(t)
              /\ UNCHANGED <<heap, added, wiped, restarts>>
    <2>1. acked' \subseteq acked \cup wiped \cup Numbers(s.messages)
      BY <1>10 DEF Acknowledge, Owed, Adding, LastOf
    <2>2. QED
      BY <1>5, <1>10, <2>1
  <1>11. QED
    BY <1>0, <1>6, <1>7, <1>8, <1>9, <1>10 DEF Steps

\* While nobody deletes or lists and the process lives, a message whose
\* add_message returned True is in the history the agents read until somebody
\* clears it, whichever writes fail and whatever the coroutines do meanwhile.
THEOREM SharedObjectKeepsHistory ==
    ASSUME NobodyForgets PROVE Spec => []HistoryKept
  <1> DEFINE J == IInv /\ Shared /\ Owed
  <1>1. Init => J
    <2> SUFFICES ASSUME Init PROVE J
      OBVIOUS
    <2>1. Owed
      BY DEF Init, Owed, Adding
    <2>2. QED
      BY <2>1, InitIInv, SharedInit
  <1>2. J /\ [Next]_vars => J'
    <2> SUFFICES ASSUME J, [Next]_vars PROVE J'
      OBVIOUS
    <2>1. IInv' /\ Shared'
      BY NextIInv, SharedStep
    <2>2. CASE Next
      BY <2>1, <2>2, SharedNext, OwedStep
    <2>3. CASE UNCHANGED vars
      <3>1. Owed'
        BY <2>3 DEF vars, history, Owed, Adding, LastOf, Current
      <3>2. QED
        BY <2>1, <3>1
    <2>4. QED
      BY <2>2, <2>3
  <1>3. J => HistoryKept
    BY DEF Owed, HistoryKept
  <1> HIDE DEF J
  <1>4. QED
    BY <1>1, <1>2, <1>3, PTL DEF Spec

-----------------------------------------------------------------------------
(* The log.                                                                *)

\* One coroutine compacts, and nobody clears what is compacted or
\* consolidated meanwhile.
OneCompacts ==
    /\ NobodyForgets
    /\ \A t, u \in Tasks : "compact" \in CanDo[t] /\ "compact" \in CanDo[u] => t = u
    /\ \A t, u \in Tasks : "clear" \in CanDo[t]
                             => "compact" \notin CanDo[u] /\ "consolidate" \notin CanDo[u]

\* What a coroutine planned before it asked the model still fits the session.
PlanFits(t) ==
    /\ op[t] = "compact" =>
          /\ until[t] \in Current.compacted..Len(Current.messages)
          /\ prior[t] \cup batch[t] = PrefixOf(Current, until[t])
    /\ op[t] = "consolidate" =>
          Len(Current.messages) - KeepWindow \in Current.consolidated..Len(Current.messages)

Plans ==
    /\ Sound(Current)
    /\ \A t \in Tasks : pc[t] = "model" => op[t] \in {"compact", "consolidate"} /\ PlanFits(t)

\* A plan still fits when the history has grown and others have moved the
\* consolidation mark or, if it is no compaction, have compacted.
LEMMA PlanLater ==
    ASSUME IInv, Shared, Current' \in Session,
           NEW t \in Tasks, PlanFits(t), op'[t] = op[t], until'[t] = until[t],
           prior'[t] = prior[t], batch'[t] = batch[t],
           Len(Current.messages) <= Len(Current'.messages),
           \A i \in 1..Len(Current.messages) : Current'.messages[i] = Current.messages[i],
           op[t] = "compact" => Current'.compacted = Current.compacted,
           Current'.consolidated \in {Current.consolidated, Len(Current.messages) - KeepWindow}
    PROVE  PlanFits(t)'
  <1>1. /\ Current \in Session /\ Len(Current.messages) \in Nat /\ Len(Current'.messages) \in Nat
        /\ Current.compacted \in Nat /\ Current.consolidated \in Int /\ KeepWindow \in Nat
    BY SharedTypes, LenProperties, KeepAssumption DEF Session
  <1>2. CASE op[t] = "compact"
    <2>1. /\ until[t] \in Current.compacted..Len(Current.messages)
          /\ prior[t] \cup batch[t] = PrefixOf(Current, until[t])
      BY <1>2 DEF PlanFits
    <2>2. until[t] \in Current'.compacted..Len(Current'.messages)
      BY <1>1, <1>2, <2>1
    <2>3. \A i \in 1..until[t] : Current'.messages[i] = Current.messages[i]
      BY <1>1, <2>1
    <2>4. PrefixOf(Current', until[t]) = PrefixOf(Current, until[t])
      BY <2>3 DEF PrefixOf
    <2>5. op'[t] # "consolidate"
      BY <1>2
    <2>6. QED
      BY <2>1, <2>2, <2>4, <2>5 DEF PlanFits
  <1>3. CASE op[t] = "consolidate"
    <2>1. Len(Current.messages) - KeepWindow \in Current.consolidated..Len(Current.messages)
      BY <1>3 DEF PlanFits
    <2>2. Len(Current'.messages) - KeepWindow \in Current'.consolidated..Len(Current'.messages)
      BY <1>1, <2>1
    <2>3. QED
      BY <1>3, <2>2 DEF PlanFits
  <1>4. CASE op[t] \notin {"compact", "consolidate"}
    BY <1>4 DEF PlanFits
  <1>5. QED
    BY <1>2, <1>3, <1>4

\* The plans of the coroutines that do not step.
LEMMA OtherPlans ==
    ASSUME OneCompacts, IInv, Shared, Plans, Current' \in Session, NEW t \in Tasks,
           \A u \in Tasks \ {t} :
              /\ pc'[u] = pc[u] /\ op'[u] = op[u] /\ until'[u] = until[u]
              /\ prior'[u] = prior[u] /\ batch'[u] = batch[u],
           Len(Current.messages) <= Len(Current'.messages),
           \A i \in 1..Len(Current.messages) : Current'.messages[i] = Current.messages[i],
           Current'.compacted = Current.compacted \/ "compact" \in CanDo[t],
           Current'.consolidated \in {Current.consolidated, Len(Current.messages) - KeepWindow},
           NEW u \in Tasks \ {t}, pc'[u] = "model"
    PROVE  op'[u] \in {"compact", "consolidate"} /\ PlanFits(u)'
  <1>1. pc[u] = "model" /\ op[u] \in {"compact", "consolidate"} /\ PlanFits(u)
    BY DEF Plans
  <1>2. op[u] \in CanDo[u]
    BY <1>1 DEF Shared
  <1>3. op[u] = "compact" => "compact" \notin CanDo[t]
    BY <1>2 DEF OneCompacts
  <1>4. QED
    BY <1>1, <1>3, PlanLater

\* What a step does to the session is a step of the log, or nothing.
LEMMA PlansStep ==
    ASSUME OneCompacts, IInv, IInv', Shared, Shared', Plans, NEW t \in Tasks, NEW what,
           Steps(t, what), cache' = cache
    PROVE  Plans' /\ Extends(Current, Current', MaxMessages)
  <1> DEFINE s == Current
             L == Len(s.messages)
  <1>0. /\ s \in Session /\ s = heap[cache] /\ Sound(s) /\ SummaryIsPrefix(s) /\ added \in Nat
        /\ pc \in [Tasks -> Phases] /\ op \in [Tasks -> Operations \cup {None}]
        /\ until \in [Tasks -> 0..added] /\ batch \in [Tasks -> SUBSET (1..added)]
        /\ prior \in [Tasks -> SUBSET (1..added)]
        /\ s.messages \in Seq(Nat) /\ L \in Nat
    BY SharedTypes, SoundPrefix DEF Current, Plans
  <1>00. Current' \in Session /\ Current' = heap'[cache]
    BY SharedTypes, <1>0 DEF Shared, IInv, TypeOK, Current
  <1> DEFINE Others == \A u \in Tasks \ {t} :
                          /\ pc'[u] = pc[u] /\ op'[u] = op[u] /\ until'[u] = until[u]
                          /\ prior'[u] = prior[u] /\ batch'[u] = batch[u]
  <1>1. MaxMessages \in Nat
    BY TasksAssumption
  <1>2. ASSUME Others, Extends(s, Current', MaxMessages), L <= Len(Current'.messages),
               \A i \in 1..L : Current'.messages[i] = s.messages[i],
               Current'.compacted = s.compacted \/ "compact" \in CanDo[t],
               Current'.consolidated \in {s.consolidated, L - KeepWindow},
               pc'[t] = "model" => op'[t] \in {"compact", "consolidate"} /\ PlanFits(t)'
        PROVE  Plans' /\ Extends(s, Current', MaxMessages)
    <2>1. Sound(Current')
      BY <1>0, <1>00, <1>1, <1>2, ExtendsKeepsSound
    <2>2. ASSUME NEW u \in Tasks, pc'[u] = "model"
          PROVE op'[u] \in {"compact", "consolidate"} /\ PlanFits(u)'
      <3>1. CASE u = t
        BY <1>2, <2>2, <3>1
      <3>2. CASE u # t
        BY <1>00, <1>2, <2>2, <3>2, OtherPlans
      <3>3. QED
        BY <3>1, <3>2
    <2>3. QED
      BY <1>2, <2>1, <2>2 DEF Plans
  <1>3. ASSUME NEW new, Save(t, cache, new)
        PROVE  /\ Current' = new /\ pc'[t] = "save"
               /\ op' = op \/ op' = [op EXCEPT ![t] = what] => Others
    BY <1>0, <1>3, SaveShared DEF Save
  <1>4. CASE /\ what = "add" /\ added < MaxMessages
             /\ Save(t, cache, WithMessage(s, added + 1)) /\ op' = [op EXCEPT ![t] = what]
    <2> DEFINE new == WithMessage(s, added + 1)
    <2>1. Current' = new /\ pc'[t] = "save" /\ Others
      BY <1>3, <1>4
    <2>2. /\ new.messages = Append(s.messages, added + 1)
          /\ new.compacted = s.compacted /\ new.consolidated = s.consolidated
      BY <1>0 DEF WithMessage, Session
    <2>3. Len(new.messages) = L + 1 /\ \A i \in 1..L : new.messages[i] = s.messages[i]
      <3>1. added + 1 \in Nat /\ s.messages \in Seq(Nat) /\ L \in Nat
        BY <1>0
      <3>2. QED
        BY ONLY <2>2, <3>1, AppendProperties
    <2>4. added + 1 \in 1..MaxMessages
      BY <1>0, <1>1, <1>4
    <2>5. \A i \in 1..L : s.messages[i] \in 1..added
      BY <1>0, Settled, GoodNumbers DEF Shared
    <2>6. \A i \in 1..L : s.messages[i] < added + 1
      BY ONLY <1>0, <2>5
    <2>7. Extends(s, Current', MaxMessages)
      BY <2>1, <2>4, <2>6 DEF Extends
    <2>8. L <= Len(Current'.messages) /\ \A i \in 1..L : Current'.messages[i] = s.messages[i]
      BY <1>0, <2>1, <2>3
    <2>9. Current'.compacted = s.compacted /\ Current'.consolidated = s.consolidated
      BY <2>1, <2>2
    <2>10. QED
      BY <1>2, <2>1, <2>7, <2>8, <2>9
  <1>5. ASSUME Others, Current' = s,
               pc'[t] = "model" => op'[t] \in {"compact", "consolidate"} /\ PlanFits(t)'
        PROVE  Plans' /\ Extends(s, Current', MaxMessages)
    <2>1. Extends(s, Current', MaxMessages)
      BY <1>5 DEF Extends
    <2>2. L <= Len(Current'.messages) /\ \A i \in 1..L : Current'.messages[i] = s.messages[i]
      BY <1>0, <1>5
    <2>3. Current'.compacted = s.compacted /\ Current'.consolidated = s.consolidated
      BY <1>5
    <2>4. QED
      BY <1>2, <1>5, <2>1, <2>2, <2>3
  <1>6. CASE what = "resave" /\ Save(t, cache, s) /\ op' = [op EXCEPT ![t] = what]
    <2>1. Current' = s /\ pc'[t] = "save" /\ Others
      BY <1>3, <1>6
    <2>2. QED
      BY <1>5, <2>1
  <1>7. CASE what = "clear" /\ what \in CanDo[t] /\ Save(t, cache, Cleared(s)) /\ op' = [op EXCEPT ![t] = what]
    <2>1. Current' = Fresh /\ pc'[t] = "save" /\ Others
      BY <1>3, <1>7 DEF Cleared
    <2>2. \A u \in Tasks : pc'[u] # "model"
      <3>1. ASSUME NEW u \in Tasks \ {t}, pc[u] = "model" PROVE FALSE
        BY <1>7, <3>1 DEF Plans, Shared, OneCompacts
      <3>2. QED
        BY <2>1, <3>1
    <2>3. Sound(Current') /\ Extends(s, Current', MaxMessages)
      BY <2>1, SoundFresh DEF Extends
    <2>4. QED
      BY <2>2, <2>3 DEF Plans
  <1>8. ASSUME NEW a, NEW b, NEW c, AskModel(t, cache, a, b, c), heap' = heap,
               op' = [op EXCEPT ![t] = what], what \in {"compact", "consolidate"},
               what = "compact" => b \in s.compacted..L /\ c \cup a = PrefixOf(s, b),
               what = "consolidate" => L - KeepWindow \in s.consolidated..L
        PROVE  Plans' /\ Extends(s, Current', MaxMessages)
    <2>1. Current' = s
      BY <1>0, <1>00, <1>8
    <2>2. /\ pc'[t] = "model" /\ op'[t] = what /\ until'[t] = b /\ batch'[t] = a /\ prior'[t] = c
      BY <1>0, <1>8 DEF AskModel
    <2>3. Others
      BY <1>0, <1>8 DEF AskModel
    <2>4. PlanFits(t)'
      BY <1>8, <2>1, <2>2 DEF PlanFits
    <2>5. QED
      BY <1>5, <1>8, <2>1, <2>2, <2>3, <2>4
  <1>9. CASE /\ what = "compact" /\ CanCompact(s) /\ op' = [op EXCEPT ![t] = what] /\ heap' = heap
             /\ AskModel(t, cache, ToSummarise(s), CompactUntil(s), s.summary)
    <2>1. CompactUntil(s) \in s.compacted..L
      <3>1. CompactUntil(s) \in 0..L /\ s.compacted \in Nat
        BY <1>0, CompactUntilType DEF Session
      <3>2. s.compacted < CompactUntil(s) /\ CompactUntil(s) <= L
        BY <1>0, <1>9, CompactionExtends
      <3>3. QED
        BY ONLY <1>0, <3>1, <3>2
    <2>2. s.summary \cup ToSummarise(s) = PrefixOf(s, CompactUntil(s))
      BY <1>0, <1>9, CompactionExtends DEF PrefixOf
    <2>3. QED
      BY <1>8, <1>9, <2>1, <2>2
  <1>10. CASE /\ what = "consolidate" /\ CanConsolidate(s) /\ op' = [op EXCEPT ![t] = what]
              /\ heap' = heap /\ AskModel(t, cache, {}, 0, {})
    <2>1. s.consolidated \in Nat
      BY <1>0 DEF Sound
    <2>2. L - KeepWindow \in s.consolidated..L
      BY <1>0, <1>10, <2>1, ConsolidationAdvances
    <2>3. QED
      BY <1>8, <1>10, <2>2
  <1>11. CASE /\ pc[t] = "model" /\ op[t] = "compact" /\ op' = op
              /\ Save(t, cache, WithSummary(s, prior[t], batch[t], until[t]))
    <2> DEFINE new == WithSummary(s, prior[t], batch[t], until[t])
    <2>1. Current' = new /\ pc'[t] = "save" /\ Others
      BY <1>3, <1>11
    <2>2. until[t] \in s.compacted..L /\ prior[t] \cup batch[t] = PrefixOf(s, until[t])
      BY <1>11 DEF Plans, PlanFits
    <2>3. new = [s EXCEPT !.summary = PrefixOf(s, until[t]), !.compacted = until[t]]
      BY <2>2 DEF WithSummary
    <2>4. Extends(s, Current', MaxMessages)
      BY <2>1, <2>2, <2>3 DEF Extends
    <2>5. new.messages = s.messages /\ new.consolidated = s.consolidated
      BY <1>0, <2>3 DEF Session
    <2>6. L <= Len(Current'.messages) /\ \A i \in 1..L : Current'.messages[i] = s.messages[i]
      BY <1>0, <2>1, <2>5
    <2>7. "compact" \in CanDo[t]
      BY <1>11 DEF Shared
    <2>8. QED
      BY <1>2, <2>1, <2>4, <2>5, <2>6, <2>7
  <1>12. CASE /\ pc[t] = "model" /\ op[t] = "consolidate" /\ op' = op
              /\ Save(t, cache, MarkConsolidated(s))
    <2> DEFINE new == MarkConsolidated(s)
    <2>1. Current' = new /\ pc'[t] = "save" /\ Others
      BY <1>3, <1>12
    <2>2. L - KeepWindow \in s.consolidated..L
      BY <1>12 DEF Plans, PlanFits
    <2>3. new = [s EXCEPT !.consolidated = L - KeepWindow]
      BY DEF MarkConsolidated
    <2>4. Extends(s, Current', MaxMessages)
      BY <2>1, <2>2, <2>3 DEF Extends
    <2>5. new.messages = s.messages /\ new.compacted = s.compacted /\ new.consolidated = L - KeepWindow
      BY <1>0, <2>3 DEF Session
    <2>6. L <= Len(Current'.messages) /\ \A i \in 1..L : Current'.messages[i] = s.messages[i]
      BY <1>0, <2>1, <2>5
    <2>7. QED
      BY <1>2, <2>1, <2>4, <2>5, <2>6
  <1>13. CASE Return(t) /\ heap' = heap
    <2>1. Current' = s
      BY <1>0, <1>00, <1>13
    <2>2. pc'[t] = "idle" /\ Others
      BY <1>0, <1>13 DEF Return
    <2>3. QED
      BY <1>5, <2>1, <2>2
  <1>14. CASE /\ pc[t] \in {"save", "writing"} /\ UNCHANGED <<heap, op, plans>>
              /\ pc' = [pc EXCEPT ![t] = IF pc[t] = "save" THEN "writing" ELSE "written"]
    <2>1. Current' = s
      BY <1>0, <1>00, <1>14
    <2>2. pc'[t] # "model" /\ Others
      BY <1>0, <1>14 DEF plans
    <2>3. QED
      BY <1>5, <2>1, <2>2
  <1> HIDE DEF Others
  <1>15. CASE /\ pc[t] = "idle" /\ what \in CanDo[t] /\ (what = "add" => added < MaxMessages)
              /\ Proceed(t, cache, what)
    BY <1>0, <1>4, <1>6, <1>7, <1>9, <1>10, <1>13, <1>15 DEF Proceed
  <1>16. QED
    BY <1>11, <1>12, <1>13, <1>14, <1>15 DEF Steps

LEMMA LogStep ==
    ASSUME Sound(Current), Current' \in Session, Extends(Current, Current', MaxMessages)
    PROVE  [Log!Next]_(Log!vars)
  <1> DEFINE s == Current
  <1>0. s \in Session /\ Len(s.messages) \in Nat
    BY LenProperties DEF Sound, Session
  <1>1. ASSUME NEW m \in 1..MaxMessages, \A i \in 1..Len(s.messages) : s.messages[i] < m,
               Current' = WithMessage(s, m)
        PROVE Log!Next
    BY <1>0, <1>1 DEF Log!Next, Log!AddMessage, WithMessage, Session
  <1>2. ASSUME NEW n \in s.compacted..Len(s.messages),
               Current' = [s EXCEPT !.summary = PrefixOf(s, n), !.compacted = n]
        PROVE Log!Next
    <2>1. n \in 0..Len(s.messages) /\ n >= s.compacted
      BY <1>0 DEF Sound
    <2>2. Log!Compact(n)
      BY <1>0, <1>2, <2>1 DEF Log!Compact, Log!Prefix, PrefixOf, Session
    <2>3. QED
      BY <2>1, <2>2 DEF Log!Next
  <1>3. ASSUME NEW n \in s.consolidated..Len(s.messages), Current' = [s EXCEPT !.consolidated = n]
        PROVE Log!Next
    <2>1. n \in 0..Len(s.messages) /\ n >= s.consolidated
      BY <1>0 DEF Sound
    <2>2. Log!Consolidate(n)
      BY <1>0, <1>3, <2>1 DEF Log!Consolidate, Session
    <2>3. QED
      BY <2>1, <2>2 DEF Log!Next
  <1>4. CASE Current' = s
    BY <1>4 DEF Log!vars
  <1>5. CASE Current' = Fresh
    BY <1>5 DEF Log!Next, Log!Clear, Fresh
  <1>6. QED
    BY <1>1, <1>2, <1>3, <1>4, <1>5 DEF Extends

\* While nobody deletes or lists and the process lives, coroutines that share
\* one session object implement the log: concurrent adds, one coroutine's
\* compactions and any number of consolidations never undo each other,
\* whichever writes of the file fail or overlap.
THEOREM SharedObjectKeepsLog ==
    ASSUME OneCompacts PROVE Spec => ImplementsLog
  <1> DEFINE J == IInv /\ Shared /\ Plans
  <1>0. NobodyForgets
    BY DEF OneCompacts
  <1>1. Init => J /\ Log!Init
    <2> SUFFICES ASSUME Init PROVE J /\ Log!Init
      OBVIOUS
    <2>1. Current = Fresh
      BY DEF Init, Current
    <2>2. Plans /\ Log!Init
      BY <2>1, SoundFresh DEF Init, Plans, Log!Init, Fresh
    <2>3. QED
      BY <2>2, InitIInv, SharedInit
  <1>2. J /\ [Next]_vars => J' /\ [Log!Next]_(Log!vars)
    <2> SUFFICES ASSUME J, [Next]_vars PROVE J' /\ [Log!Next]_(Log!vars)
      OBVIOUS
    <2>1. IInv' /\ Shared'
      BY <1>0, NextIInv, SharedStep
    <2>2. Current' \in Session
      BY <2>1 DEF IInv, TypeOK, Shared, Current
    <2>3. CASE Next
      <3>1. Plans' /\ Extends(Current, Current', MaxMessages)
        BY <1>0, <2>1, <2>3, SharedNext, PlansStep
      <3>2. QED
        BY <2>1, <2>2, <3>1, LogStep DEF Plans
    <2>4. CASE UNCHANGED vars
      <3>1. Current' = Current /\ pc' = pc /\ op' = op /\ until' = until /\ prior' = prior /\ batch' = batch
        BY <2>4 DEF vars, plans, Current
      <3>2. Plans'
        BY <3>1 DEF Plans, PlanFits
      <3>3. [Log!Next]_(Log!vars)
        BY <3>1 DEF Log!vars
      <3>4. QED
        BY <2>1, <3>2, <3>3
    <2>5. QED
      BY <2>3, <2>4
  <1> HIDE DEF J
  <1>3. QED
    BY <1>1, <1>2, PTL DEF Spec, ImplementsLog, Log!Spec
============================================================================
