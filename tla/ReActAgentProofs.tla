------------------------- MODULE ReActAgentProofs -------------------------
(***************************************************************************)
(* TLAPS proofs about ReActAgent for every step budget, window, set of     *)
(* tool batches and number of runs: type correctness, the contract the bus *)
(* relies on, that every tool result stands behind its own call, that what *)
(* a run that ended without an error showed accounts for every step, and   *)
(* that every request is sound, by induction over the histories that the   *)
(* sanitiser folds; about the background tasks of a run, which tell their  *)
(* end once and send sound requests too; about the consolidation of the    *)
(* memory that every run leaves behind; and about the tools on files that  *)
(* a run calls: pages, edits and patches.                                  *)
(***************************************************************************)
EXTENDS ReActAgent, SubAgent, MemoryFiles, PatchTool, FileTools, SequenceTheorems, FiniteSetTheorems,
        WellFoundedInduction, TLAPS

\* A call of a batch is a call, and its ids are what IdsOf collects.
LEMMA CallsOfType ==
    ASSUME TypeOK, NEW b \in Batches, run \in Nat, step \in Nat
    PROVE  CallsOf(b) \in Seq(Calls)
  <1>1. b \in Seq(ToolKinds)
    BY AgentAssumption
  <1>2. Len(b) \in Nat /\ \A i \in 1 .. Len(b) : b[i] \in ToolKinds
    BY <1>1
  <1>3. \A i \in 1 .. Len(b) : [id |-> <<run, step, i>>, tool |-> b[i]] \in Calls
    BY <1>2 DEF Calls, CallIds
  <1>4. QED
    BY <1>2, <1>3 DEF CallsOf

\* The messages the model writes are messages.
LEMMA MessageTypes ==
    /\ \A r \in Nat : User(r) \in Messages /\ Assistant(r) \in Messages
    /\ \A r \in Nat, id \in CallIds : ToolResult(id, r) \in Messages
    /\ \A r \in Nat, calls \in Seq(Calls) : ToolCalls(IdsOf(calls), r) \in Messages
  <1>1. \A calls \in Seq(Calls) : IdsOf(calls) \subseteq CallIds
    <2> SUFFICES ASSUME NEW calls \in Seq(Calls), NEW i \in 1 .. Len(calls)
                 PROVE  calls[i].id \in CallIds
      BY DEF IdsOf
    <2>1. calls[i] \in Calls
      BY ElementOfSeq
    <2>2. QED
      BY <2>1 DEF Calls
  <1>2. QED
    BY <1>1 DEF Messages, User, Assistant, ToolResult, ToolCalls

\* What every saved message leaves true.
LEMMA SaveType ==
    ASSUME TypeOK, NEW m \in Messages, Save(m)
    PROVE  history' \in Seq(Messages) /\ faults' \in Nat /\ intact' \in BOOLEAN
  <1>1. history' \in Seq(Messages)
    <2>1. /\ history \in Seq(Messages)
          /\ history' = history \/ history' = Append(history, m)
      BY DEF TypeOK, Save
    <2>2. QED
      BY <2>1, AppendProperties
  <1>2. faults' \in Nat
    BY DEF TypeOK, Save
  <1>3. intact' \in BOOLEAN
    BY DEF TypeOK, Save
  <1>4. QED
    BY <1>1, <1>2, <1>3

LEMMA PushType ==
    ASSUME TypeOK, NEW m \in Messages,
           NEW kind \in {"calls", "result", "question", "answer", "limit", "error"},
           Push(m, kind)
    PROVE  /\ history' \in Seq(Messages) /\ faults' \in Nat /\ intact' \in BOOLEAN
           /\ compacted' \in Nat /\ run' \in 0 .. MaxRuns /\ outside' \in Nat
           /\ shown' \in Seq({"calls", "result", "question", "answer", "limit", "error"})
  <1>1. Save(m) /\ Notify(kind) /\ UNCHANGED <<compacted, run, outside>>
    BY DEF Push
  <1>2. history' \in Seq(Messages) /\ faults' \in Nat /\ intact' \in BOOLEAN
    BY <1>1, SaveType
  <1>3. QED
    BY <1>1, <1>2 DEF TypeOK, Notify

LEMMA CompactType ==
    ASSUME TypeOK, MayCompact
    PROVE  compacted' \in Nat
  BY AgentAssumption DEF TypeOK, MayCompact

LEMMA StepType == TypeOK /\ [Next]_vars => TypeOK'
  <1> SUFFICES ASSUME TypeOK, [Next]_vars PROVE TypeOK'
    OBVIOUS
  <1> USE DEF loopVars, sessionVars, countVars
  <1>n. /\ run \in Nat /\ step \in Nat
        /\ User(run) \in Messages /\ Assistant(run) \in Messages
        /\ User(0) \in Messages /\ Assistant(0) \in Messages
    BY AgentAssumption, MessageTypes DEF TypeOK
  <1>1. CASE StartRun
    <2>1. run' \in 0 .. MaxRuns /\ step' \in 0 .. MaxSteps
      BY <1>1, AgentAssumption DEF TypeOK, StartRun
    <2>2. /\ stop' \in BOOLEAN /\ asks' \in BOOLEAN /\ pushed' \in BOOLEAN
          /\ recovered' \in BOOLEAN /\ state' \in {"IDLE", "RUNNING", "FINISHED", "ERROR"}
      BY <1>1 DEF TypeOK, StartRun
    <2>3. pc' \in PCs /\ shown' = <<>>
      BY <1>1 DEF StartRun, PCs
    <2>4. QED
      BY <1>1, <2>1, <2>2, <2>3, EmptySeq DEF TypeOK, StartRun
  <1>2. CASE StartFails
    <2>1. run' \in 0 .. MaxRuns /\ step' \in 0 .. MaxSteps
      BY <1>2, AgentAssumption DEF TypeOK, StartFails
    <2>2. stop' \in BOOLEAN /\ state' \in {"IDLE", "RUNNING", "FINISHED", "ERROR"}
      BY <1>2 DEF TypeOK, StartFails
    <2>3. QED
      BY <1>2, <2>1, <2>2 DEF TypeOK, StartFails
  <1>3. CASE Prepare
    BY <1>3 DEF TypeOK, Prepare, PCs
  <1>4. CASE Loop
    BY <1>4, AgentAssumption DEF TypeOK, Loop, MayLoop, PCs
  <1>5. CASE Think
    <2>1. todo' \in Seq(Calls) /\ reply' \in {"none", "calls", "text", "overflow"}
      BY <1>5, <1>n, CallsOfType DEF TypeOK, Think
    <2>2. pc' \in PCs
      BY <1>5 DEF Think, PCs
    <2>3. QED
      BY <1>5, <2>1, <2>2 DEF TypeOK, Think
  <1>6. CASE SaveUser
    <2>1. history' \in Seq(Messages) /\ faults' \in Nat /\ intact' \in BOOLEAN
      BY <1>6, <1>n, SaveType DEF SaveUser
    <2>2. pc' \in PCs
      BY <1>6 DEF SaveUser, PCs
    <2>3. QED
      BY <1>6, <2>1, <2>2 DEF TypeOK, SaveUser
  <1>7. CASE SaveCalls
    <2>1. ToolCalls(IdsOf(todo), run) \in Messages
      BY <1>n, MessageTypes DEF TypeOK
    <2>2. QED
      BY <1>7, <2>1, PushType DEF TypeOK, SaveCalls, PCs
  <1>8. CASE ExecuteTool
    <2>1. Head(todo) \in Calls /\ Tail(todo) \in Seq(Calls)
      BY <1>8 DEF TypeOK, ExecuteTool
    <2>2. ToolResult(Head(todo).id, run) \in Messages
      BY <2>1, <1>n, MessageTypes DEF Calls
    <2>3. QED
      BY <1>8, <2>1, <2>2, PushType DEF TypeOK, ExecuteTool
  <1>9. CASE SpecialTool
    <2>1. Tail(todo) \in Seq(Calls)
      BY <1>9 DEF TypeOK, SpecialTool
    <2>2. QED
      BY <1>9, <1>n, <2>1, PushType DEF TypeOK, SpecialTool
  <1>10. CASE ActDone
    BY <1>10 DEF TypeOK, ActDone, PCs
  <1>11. CASE NextStep
    BY <1>11, CompactType DEF TypeOK, NextStep, PCs
  <1>12. CASE Recover
    BY <1>12, CompactType DEF TypeOK, Recover, PCs
  <1>13. CASE Answer
    BY <1>13, <1>n, PushType DEF TypeOK, Answer, PCs
  <1>14. CASE Limit
    BY <1>14, <1>n, PushType DEF TypeOK, Limit, PCs
  <1>15. CASE Fail
    BY <1>15 DEF TypeOK, Fail, PCs
  <1>16. CASE StoreRaises
    BY <1>16 DEF TypeOK, StoreRaises, PCs
  <1>17. CASE Error
    BY <1>17, <1>n, PushType DEF TypeOK, Error, PCs
  <1>18. CASE Finally
    <2>1. /\ stop' = FALSE /\ asks' = FALSE /\ pushed' = FALSE /\ recovered' = FALSE
          /\ state' = "IDLE" /\ reply' = "none" /\ todo' = <<>> /\ shown' = <<>>
      BY <1>18 DEF Finally, Reset, DropLocals
    <2>2. step' \in 0 .. MaxSteps /\ pc' \in PCs
      BY <1>18, AgentAssumption DEF Finally, Reset, DropLocals, PCs
    <2>3. QED
      BY <1>18, <2>1, <2>2, EmptySeq DEF TypeOK, Finally
  <1>19. CASE ForceStop
    BY <1>19 DEF TypeOK, ForceStop
  <1>20. CASE OthersAdd
    <2>1. history' \in Seq(Messages)
      BY <1>20, <1>n, AppendProperties DEF TypeOK, OthersAdd
    <2>2. outside' \in Nat
      BY <1>20 DEF TypeOK, OthersAdd
    <2>3. QED
      BY <1>20, <2>1, <2>2 DEF TypeOK, OthersAdd
  <1>21. CASE ClearHistory
    <2>1. history' \in Seq(Messages)
      BY <1>21, EmptySeq DEF ClearHistory
    <2>2. outside' \in Nat /\ compacted' \in Nat
      BY <1>21 DEF TypeOK, ClearHistory
    <2>3. QED
      BY <1>21, <2>1, <2>2 DEF TypeOK, ClearHistory
  <1>22. CASE UNCHANGED vars
    BY <1>22 DEF TypeOK, vars
  <1>23. QED
    BY <1>1, <1>2, <1>3, <1>4, <1>5, <1>6, <1>7, <1>8, <1>9, <1>10, <1>11, <1>12,
       <1>13, <1>14, <1>15, <1>16, <1>17, <1>18, <1>19, <1>20, <1>21, <1>22
       DEF Next, AgentStep

LEMMA InitType == Init => TypeOK
  <1> SUFFICES ASSUME Init PROVE TypeOK
    OBVIOUS
  <1>1. step \in 0 .. MaxSteps /\ run \in 0 .. MaxRuns /\ pc \in PCs
    BY AgentAssumption DEF Init, PCs
  <1>2. QED
    BY <1>1, EmptySeq DEF Init, TypeOK

\* Every variable has its type in every reachable state.
THEOREM TypeCorrect == Spec => []TypeOK
  BY InitType, StepType, PTL DEF Spec

----------------------------------------------------------------------------
(* The contract of AgentRun.  Between runs the agent is as it was built.   *)

Clean == pc = "idle" => step = 0 /\ stop = FALSE

LEMMA StepClean == TypeOK /\ Clean /\ [Next]_vars => Clean'
  <1> SUFFICES ASSUME TypeOK, Clean, [Next]_vars PROVE Clean'
    OBVIOUS
  <1> USE DEF loopVars, Clean
  <1>1. CASE StartRun \/ StartFails
    BY <1>1 DEF StartRun, StartFails
  <1>2. CASE Prepare \/ Loop \/ Think
    BY <1>2 DEF Prepare, Loop, Think
  <1>3. CASE SaveUser \/ SaveCalls \/ ExecuteTool \/ SpecialTool \/ ActDone
    BY <1>3 DEF SaveUser, SaveCalls, ExecuteTool, SpecialTool, ActDone
  <1>4. CASE NextStep \/ Recover \/ Answer \/ Limit \/ Fail \/ StoreRaises \/ Error
    BY <1>4 DEF NextStep, Recover, Answer, Limit, Fail, StoreRaises, Error
  <1>5. CASE Finally
    BY <1>5 DEF Finally, Reset
  <1>6. CASE ForceStop \/ OthersAdd \/ ClearHistory \/ UNCHANGED vars
    BY <1>6 DEF ForceStop, OthersAdd, ClearHistory, vars
  <1>7. QED
    BY <1>1, <1>2, <1>3, <1>4, <1>5, <1>6 DEF Next, AgentStep

LEMMA StepContract ==
    TypeOK /\ Clean /\ [Next]_vars => [Contract!Next]_Contract!vars
  <1> SUFFICES ASSUME TypeOK, Clean, [Next]_vars
               PROVE  Contract!Next \/ UNCHANGED Contract!vars
    OBVIOUS
  <1> USE DEF loopVars, Clean, Contract!vars
  <1>1. CASE StartRun
    BY <1>1 DEF StartRun, Contract!Next, Contract!Begin
  <1>2. CASE Loop
    <2>1. CASE MayLoop
      BY <1>2, <2>1 DEF Loop, MayLoop, TypeOK, Contract!Next, Contract!Step
    <2>2. CASE ~MayLoop
      BY <1>2, <2>2 DEF Loop
    <2>3. QED
      BY <2>1, <2>2
  <1>3. CASE Finally
    BY <1>3 DEF Finally, Reset, DropLocals, Contract!Next, Contract!End, Contract!Fresh
  <1>4. CASE ForceStop
    BY <1>4 DEF ForceStop, Contract!Next, Contract!ForceStop
  <1>5. CASE StartFails \/ Prepare \/ Think \/ SaveUser \/ SaveCalls
    BY <1>5 DEF StartFails, Prepare, Think, SaveUser, SaveCalls
  <1>6. CASE ExecuteTool \/ SpecialTool \/ ActDone \/ NextStep \/ Recover
    BY <1>6 DEF ExecuteTool, SpecialTool, ActDone, NextStep, Recover
  <1>7. CASE Answer \/ Limit \/ Fail \/ StoreRaises \/ Error
    BY <1>7 DEF Answer, Limit, Fail, StoreRaises, Error
  <1>8. CASE OthersAdd \/ ClearHistory \/ UNCHANGED vars
    BY <1>8 DEF OthersAdd, ClearHistory, vars
  <1>9. QED
    BY <1>1, <1>2, <1>3, <1>4, <1>5, <1>6, <1>7, <1>8 DEF Next, AgentStep

\* Whatever the model, the tools, the store and the others do, the bus sees
\* runs of at most MaxSteps steps, none after a stop request, that leave the
\* agent clean.
THEOREM AgentKeepsContract == Spec => ImplementsRun
  <1>1. Init => TypeOK /\ Clean
    BY InitType DEF Init, Clean
  <1>2. TypeOK /\ Clean /\ [Next]_vars => (TypeOK /\ Clean)'
    BY StepType, StepClean
  <1>3. Init => Contract!Init
    BY DEF Init, Contract!Init, Contract!Fresh
  <1>4. QED
    BY <1>1, <1>2, <1>3, StepContract, PTL DEF Spec, ImplementsRun, Contract!Spec

----------------------------------------------------------------------------
(* Results belong to their calls.  The ids of the results in the history   *)
(* are not beyond the step that the loop is in, so that the calls of a new *)
(* reply are new.                                                          *)

IsResult(h, i) == h[i].role = "tool"

\* ResultsBelong, of any history.
Sound(h) ==
    \A i \in 1 .. Len(h) : IsResult(h, i) =>
        \E j \in 1 .. i - 1 :
            /\ h[i].ids \subseteq h[j].ids
            /\ h[j].role = "assistant" /\ h[j].run = h[i].run
            /\ \A k \in 1 .. Len(h) : k # i /\ IsResult(h, k) => h[k].ids # h[i].ids

NotBeyond(id, r, s) == id[1] < r \/ (id[1] = r /\ id[2] <= s)

\* Every result answers one call, made in step s of run r or earlier.
OldResults(h, r, s) ==
    \A i \in 1 .. Len(h) : IsResult(h, i) =>
        \E id \in h[i].ids : h[i].ids = {id} /\ NotBeyond(id, r, s)

\* The calls are of step s of run r, they differ, and none has a result.
NewCalls(calls, h, r, s) ==
    /\ \A a \in 1 .. Len(calls) :
          /\ calls[a].id[1] = r /\ calls[a].id[2] = s
          /\ \A i \in 1 .. Len(h) : IsResult(h, i) => h[i].ids # {calls[a].id}
    /\ \A a, b \in 1 .. Len(calls) : a # b => calls[a].id # calls[b].id

\* The message that makes the calls is in the history.
CalledIn(calls, h, r) ==
    \E j \in 1 .. Len(h) :
        /\ h[j].role = "assistant" /\ h[j].run = r
        /\ IdsOf(calls) \subseteq h[j].ids

\* The last step a result in the history can be from.
LastStep ==
    IF pc = "idle" THEN MaxSteps
    ELSE IF pc \in {"think", "saveUser", "saveCalls"} THEN step - 1 ELSE step

CallsPending == pc \in {"saveCalls", "act"} \/ (pc = "saveUser" /\ reply = "calls")

Paired ==
    /\ Sound(history)
    /\ OldResults(history, run, LastStep)
    /\ CallsPending => NewCalls(todo, history, run, step)
    /\ pc = "act" => CalledIn(todo, history, run)

IInv == TypeOK /\ (intact => Paired)

\* What is true of the pairing in h is true of it in g.
Carries(h, g) ==
    /\ Sound(h) => Sound(g)
    /\ \A r, s : OldResults(h, r, s) => OldResults(g, r, s)
    /\ \A calls, r, s : NewCalls(calls, h, r, s) => NewCalls(calls, g, r, s)
    /\ \A calls, r : CalledIn(calls, h, r) => CalledIn(calls, g, r)

LEMMA AppendFacts ==
    ASSUME NEW h \in Seq(Messages), NEW m \in Messages
    PROVE  /\ Append(h, m) \in Seq(Messages) /\ Len(h) \in Nat
           /\ Len(Append(h, m)) = Len(h) + 1
           /\ \A i \in 1 .. Len(h) : Append(h, m)[i] = h[i]
           /\ Append(h, m)[Len(h) + 1] = m
  BY AppendProperties, LenProperties

\* A message that is no tool result disturbs nothing.
LEMMA PlainCarries ==
    ASSUME NEW h \in Seq(Messages), NEW m \in Messages, m.role # "tool"
    PROVE  Carries(h, Append(h, m))
  <1> DEFINE g == Append(h, m)
  <1>1. /\ Len(h) \in Nat /\ Len(g) = Len(h) + 1
        /\ \A i \in 1 .. Len(h) : g[i] = h[i]
        /\ g[Len(h) + 1] = m
    BY AppendFacts
  <1>2. \A i \in 1 .. Len(g) : IsResult(g, i) => i \in 1 .. Len(h) /\ IsResult(h, i)
    BY ONLY <1>1, m.role # "tool" DEF IsResult
  <1> HIDE DEF g
  <1>3. ASSUME Sound(h) PROVE Sound(g)
    <2> SUFFICES ASSUME NEW i \in 1 .. Len(g), IsResult(g, i)
                 PROVE  \E j \in 1 .. i - 1 :
                          /\ g[i].ids \subseteq g[j].ids
                          /\ g[j].role = "assistant" /\ g[j].run = g[i].run
                          /\ \A k \in 1 .. Len(g) :
                                k # i /\ IsResult(g, k) => g[k].ids # g[i].ids
      BY DEF Sound
    <2>1. i \in 1 .. Len(h) /\ IsResult(h, i) /\ g[i] = h[i]
      BY <1>1, <1>2
    <2>2. PICK j \in 1 .. i - 1 :
             /\ h[i].ids \subseteq h[j].ids
             /\ h[j].role = "assistant" /\ h[j].run = h[i].run
             /\ \A k \in 1 .. Len(h) :
                   k # i /\ IsResult(h, k) => h[k].ids # h[i].ids
      BY <1>3, <2>1 DEF Sound
    <2>3. g[j] = h[j]
      BY <1>1, <2>1
    <2>4. \A k \in 1 .. Len(g) : k # i /\ IsResult(g, k) => g[k].ids # g[i].ids
      BY <1>1, <1>2, <2>1, <2>2
    <2>5. QED
      BY <2>1, <2>2, <2>3, <2>4
  <1>4. ASSUME NEW r, NEW s, OldResults(h, r, s) PROVE OldResults(g, r, s)
    BY <1>1, <1>2, <1>4 DEF OldResults
  <1>5. ASSUME NEW calls, NEW r, NEW s, NewCalls(calls, h, r, s) PROVE NewCalls(calls, g, r, s)
    BY <1>1, <1>2, <1>5 DEF NewCalls
  <1>6. ASSUME NEW calls, NEW r, CalledIn(calls, h, r) PROVE CalledIn(calls, g, r)
    <2>1. PICK j \in 1 .. Len(h) :
             /\ h[j].role = "assistant" /\ h[j].run = r
             /\ IdsOf(calls) \subseteq h[j].ids
      BY <1>6 DEF CalledIn
    <2>2. j \in 1 .. Len(g) /\ g[j] = h[j]
      BY <1>1
    <2>3. QED
      BY <2>1, <2>2 DEF CalledIn
  <1>7. QED
    BY <1>3, <1>4, <1>5, <1>6 DEF Carries, g

LEMMA SameCarries == \A h : Carries(h, h)
  BY DEF Carries

\* The step of a result may be anything up to a later bound.
LEMMA OldStaysOld ==
    ASSUME NEW h \in Seq(Messages), NEW r \in Int, NEW s \in Int, OldResults(h, r, s),
           NEW r2 \in Int, NEW s2 \in Int, r < r2 \/ (r = r2 /\ s <= s2)
    PROVE  OldResults(h, r2, s2)
  <1> SUFFICES ASSUME NEW i \in 1 .. Len(h), IsResult(h, i)
               PROVE  \E id \in h[i].ids : h[i].ids = {id} /\ NotBeyond(id, r2, s2)
    BY DEF OldResults
  <1>1. PICK id \in h[i].ids : h[i].ids = {id} /\ NotBeyond(id, r, s)
    BY DEF OldResults
  <1>2. h[i].ids \subseteq CallIds
    <2>1. h[i] \in Messages
      BY ElementOfSeq
    <2>2. QED
      BY <2>1 DEF Messages
  <1>3. id[1] \in Nat /\ id[2] \in Nat
    BY <1>2 DEF CallIds
  <1>4. NotBeyond(id, r2, s2)
    BY <1>1, <1>3 DEF NotBeyond
  <1>5. QED
    BY <1>1, <1>4

\* A result of a pending call is sound where its call is in the history.
LEMMA ResultIsSound ==
    ASSUME NEW h \in Seq(Messages), NEW r \in Nat, NEW s \in Nat, NEW id \in CallIds,
           id[1] = r, id[2] = s, Sound(h), OldResults(h, r, s),
           \A i \in 1 .. Len(h) : IsResult(h, i) => h[i].ids # {id},
           NEW c \in 1 .. Len(h), h[c].role = "assistant", h[c].run = r, id \in h[c].ids
    PROVE  /\ Sound(Append(h, ToolResult(id, r)))
           /\ OldResults(Append(h, ToolResult(id, r)), r, s)
  <1> DEFINE m == ToolResult(id, r)
             g == Append(h, m)
  <1>0. m \in Messages /\ m.ids = {id} /\ m.run = r
    BY MessageTypes DEF ToolResult
  <1>1. /\ Len(h) \in Nat /\ Len(g) = Len(h) + 1
        /\ \A i \in 1 .. Len(h) : g[i] = h[i]
        /\ g[Len(h) + 1] = m
    BY <1>0, AppendFacts
  <1> HIDE DEF g, m
  <1>2. Sound(g)
    <2> SUFFICES ASSUME NEW i \in 1 .. Len(g), IsResult(g, i)
                 PROVE  \E j \in 1 .. i - 1 :
                          /\ g[i].ids \subseteq g[j].ids
                          /\ g[j].role = "assistant" /\ g[j].run = g[i].run
                          /\ \A k \in 1 .. Len(g) :
                                k # i /\ IsResult(g, k) => g[k].ids # g[i].ids
      BY DEF Sound
    <2>1. CASE i = Len(h) + 1
      <3>1. c \in 1 .. i - 1 /\ g[c] = h[c] /\ g[i] = m
        BY <1>1, <2>1
      <3>2. g[i].ids \subseteq g[c].ids /\ g[c].role = "assistant" /\ g[c].run = g[i].run
        BY <1>0, <3>1
      <3>3. \A k \in 1 .. Len(g) : k # i /\ IsResult(g, k) => g[k].ids # g[i].ids
        BY <1>0, <1>1, <2>1, <3>1 DEF IsResult
      <3>4. QED
        BY <3>1, <3>2, <3>3
    <2>2. CASE i \in 1 .. Len(h)
      <3>1. g[i] = h[i] /\ IsResult(h, i)
        BY <1>1, <2>2 DEF IsResult
      <3>2. PICK j \in 1 .. i - 1 :
               /\ h[i].ids \subseteq h[j].ids
               /\ h[j].role = "assistant" /\ h[j].run = h[i].run
               /\ \A k \in 1 .. Len(h) :
                     k # i /\ IsResult(h, k) => h[k].ids # h[i].ids
        BY <2>2, <3>1 DEF Sound
      <3>3. g[j] = h[j]
        BY <1>1, <2>2
      <3>4. h[i].ids # {id}
        BY <2>2, <3>1
      <3>5. ASSUME NEW k \in 1 .. Len(g), k # i, IsResult(g, k) PROVE g[k].ids # g[i].ids
        <4>1. CASE k = Len(h) + 1
          BY <1>0, <1>1, <3>1, <3>4, <4>1
        <4>2. CASE k \in 1 .. Len(h)
          BY <1>1, <3>1, <3>2, <3>5, <4>2 DEF IsResult
        <4>3. QED
          BY <1>1, <4>1, <4>2
      <3>6. QED
        BY <3>1, <3>2, <3>3, <3>5
    <2>3. i = Len(h) + 1 \/ i \in 1 .. Len(h)
      BY <1>1
    <2>4. QED
      BY ONLY <2>1, <2>2, <2>3
  <1>3. OldResults(g, r, s)
    <2> SUFFICES ASSUME NEW i \in 1 .. Len(g), IsResult(g, i)
                 PROVE  \E x \in g[i].ids : g[i].ids = {x} /\ NotBeyond(x, r, s)
      BY DEF OldResults
    <2>1. CASE i = Len(h) + 1
      BY <1>0, <1>1, <2>1 DEF NotBeyond
    <2>2. CASE i \in 1 .. Len(h)
      BY <1>1, <2>2 DEF OldResults, IsResult
    <2>3. i = Len(h) + 1 \/ i \in 1 .. Len(h)
      BY <1>1
    <2>4. QED
      BY ONLY <2>1, <2>2, <2>3
  <1>4. QED
    BY <1>2, <1>3 DEF g, m

\* The calls behind the first one are still pending when it is done with.
LEMMA TailPending ==
    ASSUME NEW calls \in Seq(Calls), calls # <<>>, NEW h, NEW r, NEW s,
           NewCalls(calls, h, r, s), CalledIn(calls, h, r)
    PROVE  NewCalls(Tail(calls), h, r, s) /\ CalledIn(Tail(calls), h, r)
  <1> DEFINE rest == Tail(calls)
  <1>1. /\ Len(calls) \in Nat \ {0} /\ rest \in Seq(Calls) /\ Len(rest) = Len(calls) - 1
        /\ \A a \in 1 .. Len(rest) : rest[a] = calls[a + 1]
    BY HeadTailProperties, EmptySeq, LenProperties
  <1>2. \A a \in 1 .. Len(rest) : a + 1 \in 1 .. Len(calls)
    BY <1>1
  <1> HIDE DEF rest
  <1>3. NewCalls(rest, h, r, s)
    <2>1. \A a \in 1 .. Len(rest) :
             /\ rest[a].id[1] = r /\ rest[a].id[2] = s
             /\ \A i \in 1 .. Len(h) : IsResult(h, i) => h[i].ids # {rest[a].id}
      <3> SUFFICES ASSUME NEW a \in 1 .. Len(rest)
                   PROVE  /\ rest[a].id[1] = r /\ rest[a].id[2] = s
                          /\ \A i \in 1 .. Len(h) :
                                IsResult(h, i) => h[i].ids # {rest[a].id}
        OBVIOUS
      <3>1. a + 1 \in 1 .. Len(calls) /\ rest[a] = calls[a + 1]
        BY <1>1, <1>2
      <3>2. QED
        BY <3>1 DEF NewCalls
    <2>2. ASSUME NEW a \in 1 .. Len(rest), NEW c \in 1 .. Len(rest), a # c
          PROVE  rest[a].id # rest[c].id
      <3>1. a + 1 \in 1 .. Len(calls) /\ c + 1 \in 1 .. Len(calls) /\ a + 1 # c + 1
        BY <1>1, <2>2
      <3>2. calls[a + 1].id # calls[c + 1].id
        BY <3>1 DEF NewCalls
      <3>3. QED
        BY <1>1, <3>2
    <2>3. QED
      BY <2>1, <2>2 DEF NewCalls
  <1>4. IdsOf(rest) \subseteq IdsOf(calls)
    BY <1>1, <1>2 DEF IdsOf
  <1>5. CalledIn(rest, h, r)
    BY <1>4 DEF CalledIn
  <1>6. QED
    BY <1>3, <1>5 DEF rest

\* The calls of a reply are new.
LEMMA FreshCalls ==
    ASSUME NEW b \in Seq(ToolKinds), run \in Nat, step \in Nat,
           NEW h \in Seq(Messages), OldResults(h, run, step - 1)
    PROVE  NewCalls(CallsOf(b), h, run, step)
  <1> DEFINE calls == CallsOf(b)
  <1>1. /\ Len(b) \in Nat /\ Len(calls) = Len(b)
        /\ \A a \in 1 .. Len(b) : calls[a].id = <<run, step, a>>
    BY LenProperties DEF CallsOf
  <1> HIDE DEF calls
  <1>2. ASSUME NEW a \in 1 .. Len(calls), NEW i \in 1 .. Len(h), IsResult(h, i)
        PROVE  h[i].ids # {calls[a].id}
    <2>1. PICK id \in h[i].ids : h[i].ids = {id} /\ NotBeyond(id, run, step - 1)
      BY <1>2 DEF OldResults
    <2>2. id # <<run, step, a>>
      BY <2>1 DEF NotBeyond
    <2>3. QED
      BY <1>1, <2>1, <2>2
  <1>3. \A a \in 1 .. Len(calls) : calls[a].id[1] = run /\ calls[a].id[2] = step
    BY <1>1
  <1>4. \A a, c \in 1 .. Len(calls) : a # c => calls[a].id # calls[c].id
    BY <1>1
  <1>5. QED
    BY <1>2, <1>3, <1>4 DEF NewCalls, calls

\* A saved message that is no result.
LEMMA PlainSave ==
    ASSUME TypeOK, NEW m \in Messages, m.role # "tool", Save(m), intact'
    PROVE  intact /\ history' = Append(history, m) /\ Carries(history, history')
  <1>1. history' = Append(history, m) /\ intact' = intact
    BY DEF Save
  <1>2. QED
    BY <1>1, PlainCarries DEF TypeOK

LEMMA PlainPush ==
    ASSUME TypeOK, NEW m \in Messages, m.role # "tool", NEW kind, Push(m, kind), intact'
    PROVE  /\ intact /\ history' = Append(history, m) /\ Carries(history, history')
           /\ run' = run
  BY PlainSave DEF Push

\* A step that begins no run, makes no calls and saves no result.
LEMMA QuietStep ==
    ASSUME TypeOK, TypeOK', Paired, Carries(history, history'), run' = run,
           LastStep <= LastStep',
           CallsPending' => CallsPending /\ todo' = todo /\ step' = step,
           pc' = "act" => pc = "act"
    PROVE  Paired'
  <1>1. LastStep \in Int /\ LastStep' \in Int /\ run \in Int
    BY AgentAssumption DEF TypeOK, LastStep
  <1>2. Sound(history')
    BY DEF Paired, Carries
  <1>3. OldResults(history', run', LastStep')
    <2>1. OldResults(history', run, LastStep)
      BY DEF Paired, Carries
    <2>2. history' \in Seq(Messages)
      BY DEF TypeOK
    <2>3. QED
      BY <1>1, <2>1, <2>2, OldStaysOld
  <1>4. CallsPending' => NewCalls(todo', history', run', step')
    BY DEF Paired, Carries
  <1>5. pc' = "act" => CalledIn(todo', history', run')
    <2>1. pc' = "act" => CallsPending'
      BY DEF CallsPending
    <2>2. QED
      BY <2>1 DEF Paired, Carries
  <1>6. QED
    BY <1>2, <1>3, <1>4, <1>5 DEF Paired

LEMMA StepPaired ==
    ASSUME TypeOK, TypeOK', intact => Paired, [Next]_vars, intact'
    PROVE  Paired'
  <1> USE DEF loopVars, sessionVars, countVars
  <1>n. /\ run \in Nat /\ step \in Nat /\ step <= MaxSteps /\ MaxSteps \in Nat
        /\ step' \in Nat /\ history \in Seq(Messages)
    BY AgentAssumption DEF TypeOK
  <1>m. /\ User(run) \in Messages /\ User(run).role # "tool"
        /\ Assistant(run) \in Messages /\ Assistant(run).role # "tool"
        /\ User(0) \in Messages /\ User(0).role # "tool"
        /\ Assistant(0) \in Messages /\ Assistant(0).role # "tool"
    BY <1>n, MessageTypes DEF User, Assistant
  <1>q. ASSUME intact, run' = run, history' = history, LastStep <= LastStep',
               CallsPending' => CallsPending /\ todo' = todo /\ step' = step,
               pc' = "act" => pc = "act"
        PROVE  Paired'
    BY <1>q, SameCarries, QuietStep
  <1>1. CASE StartRun \/ StartFails
    <2>1. /\ pc = "idle" /\ pc' \in {"idle", "prepare"} /\ run' = run + 1
          /\ history' = history /\ intact
      BY <1>1 DEF StartRun, StartFails
    <2>2. LastStep = MaxSteps /\ LastStep' \in Nat
      BY <1>n, <2>1 DEF LastStep
    <2>3. OldResults(history, run, MaxSteps) /\ Sound(history)
      BY <2>1, <2>2 DEF Paired
    <2>4. OldResults(history', run', LastStep')
      BY <1>n, <2>1, <2>2, <2>3, OldStaysOld
    <2>5. QED
      BY <2>1, <2>3, <2>4 DEF Paired, CallsPending
  <1>2. CASE Prepare
    <2>1. /\ pc = "prepare" /\ pc' = "loop" /\ step' = step /\ run' = run
          /\ history' = history /\ intact
      BY <1>2 DEF Prepare
    <2>2. LastStep <= LastStep' /\ ~CallsPending'
      BY <1>n, <2>1 DEF LastStep, CallsPending
    <2>3. QED
      BY <1>q, <2>1, <2>2
  <1>3. CASE Loop
    <2>1. /\ pc = "loop" /\ pc' \in {"think", "limit"}
          /\ run' = run /\ history' = history /\ intact
      BY <1>3 DEF Loop
    <2>4. pc' = "think" => step' = step + 1
      BY <1>3 DEF Loop
    <2>5. pc' = "limit" => step' = step
      BY <1>3 DEF Loop
    <2>2. LastStep <= LastStep' /\ ~CallsPending'
      <3>1. LastStep = step
        BY <2>1 DEF LastStep
      <3>2. CASE pc' = "think"
        BY <1>n, <2>4, <3>1, <3>2 DEF LastStep, CallsPending
      <3>3. CASE pc' = "limit"
        BY <1>n, <2>5, <3>1, <3>3 DEF LastStep, CallsPending
      <3>4. QED
        BY <2>1, <3>2, <3>3
    <2>3. QED
      BY <1>q, <2>1, <2>2
  <1>4. CASE Think
    <2>1. CASE reply' = "calls"
      <3>1. PICK b \in Batches : todo' = CallsOf(b)
        BY <1>4, <2>1 DEF Think
      <3>2. /\ pc = "think" /\ pc' \in {"saveUser", "saveCalls"} /\ intact
            /\ history' = history /\ run' = run /\ step' = step
        BY <1>4, <2>1 DEF Think
      <3>3. LastStep = step - 1 /\ LastStep' = step - 1
        BY <3>2 DEF LastStep
      <3>4. Sound(history) /\ OldResults(history, run, step - 1)
        BY <3>2, <3>3 DEF Paired
      <3>5. NewCalls(todo', history, run, step)
        BY <1>n, <3>1, <3>4, FreshCalls, AgentAssumption
      <3>6. QED
        BY <3>2, <3>3, <3>4, <3>5 DEF Paired
    <2>2. CASE reply' # "calls"
      <3>1. /\ pc = "think" /\ pc' \in {"saveUser", "recover", "answer"} /\ intact
            /\ history' = history /\ run' = run /\ step' = step
        BY <1>4, <2>2 DEF Think
      <3>2. LastStep <= LastStep' /\ ~CallsPending'
        BY <1>n, <2>2, <3>1 DEF LastStep, CallsPending
      <3>3. QED
        BY <1>q, <3>1, <3>2
    <2>3. QED
      BY <2>1, <2>2
  <1>5. CASE SaveUser
    <2>1. /\ pc = "saveUser" /\ step' = step /\ run' = run /\ todo' = todo
          /\ pc' \in {"saveCalls", "recover", "answer"}
          /\ pc' = "saveCalls" => reply = "calls"
      BY <1>5 DEF SaveUser
    <2>2. intact /\ Carries(history, history')
      BY <1>5, <1>m, PlainSave DEF SaveUser
    <2>3. LastStep <= LastStep'
      BY <1>n, <2>1 DEF LastStep
    <2>4. CallsPending' => CallsPending
      BY <2>1 DEF CallsPending
    <2>5. QED
      BY <2>1, <2>2, <2>3, <2>4, QuietStep
  <1>6. CASE SaveCalls
    <2> DEFINE m == ToolCalls(IdsOf(todo), run)
    <2>1. m \in Messages /\ m.role # "tool" /\ m.role = "assistant" /\ m.run = run
                         /\ m.ids = IdsOf(todo)
      BY <1>n, MessageTypes DEF TypeOK, ToolCalls
    <2> HIDE DEF m
    <2>2. /\ pc = "saveCalls" /\ pc' = "act" /\ todo' = todo /\ step' = step
          /\ Push(m, "calls")
      BY <1>6 DEF SaveCalls, m
    <2>3. /\ intact /\ history' = Append(history, m) /\ Carries(history, history')
          /\ run' = run
      BY <2>1, <2>2, PlainPush
    <2>4. LastStep = step - 1 /\ LastStep' = step
      BY <2>2 DEF LastStep
    <2>5. /\ Sound(history') /\ OldResults(history', run, step - 1)
          /\ NewCalls(todo, history', run, step)
      BY <2>2, <2>3, <2>4 DEF Paired, Carries, CallsPending
    <2>6. OldResults(history', run, step)
      <3>1. history' \in Seq(Messages)
        BY DEF TypeOK
      <3>2. QED
        BY <1>n, <2>5, <3>1, OldStaysOld
    <2>7. CalledIn(todo, history', run)
      <3>1. /\ Len(history) + 1 \in 1 .. Len(history')
            /\ history'[Len(history) + 1] = m
        BY <1>n, <2>1, <2>3, AppendFacts
      <3>2. QED
        BY <2>1, <3>1 DEF CalledIn
    <2>8. QED
      BY <2>2, <2>3, <2>4, <2>5, <2>6, <2>7 DEF Paired
  <1>7. CASE ExecuteTool
    <2> DEFINE id == Head(todo).id
    <2>1. /\ pc = "act" /\ pc' = "act" /\ todo # <<>> /\ todo' = Tail(todo) /\ step' = step
          /\ Push(ToolResult(id, run), "result")
      BY <1>7 DEF ExecuteTool
    <2>2. intact /\ history' = Append(history, ToolResult(id, run)) /\ run' = run
      BY <2>1 DEF Push, Save
    <2>3. todo \in Seq(Calls) /\ Len(todo) \in Nat \ {0} /\ Head(todo) = todo[1]
      BY <2>1, HeadTailProperties, EmptySeq, LenProperties DEF TypeOK
    <2>4. id \in CallIds
      <3>1. todo[1] \in Calls
        BY <2>3, ElementOfSeq
      <3>2. QED
        BY <2>3, <3>1 DEF Calls
    <2>5. /\ Sound(history) /\ OldResults(history, run, step)
          /\ NewCalls(todo, history, run, step) /\ CalledIn(todo, history, run)
      BY <2>1, <2>2 DEF Paired, CallsPending, LastStep
    <2>6. /\ id[1] = run /\ id[2] = step
          /\ \A i \in 1 .. Len(history) : IsResult(history, i) => history[i].ids # {id}
      BY <2>3, <2>5 DEF NewCalls
    <2>7. PICK c \in 1 .. Len(history) :
             /\ history[c].role = "assistant" /\ history[c].run = run
             /\ IdsOf(todo) \subseteq history[c].ids
      BY <2>5 DEF CalledIn
    <2>8. id \in history[c].ids
      BY <2>3, <2>7 DEF IdsOf
    <2> HIDE DEF id
    <2>9. Sound(history') /\ OldResults(history', run, step)
      BY <1>n, <2>2, <2>4, <2>5, <2>6, <2>7, <2>8, ResultIsSound
    <2>10. NewCalls(Tail(todo), history, run, step) /\ CalledIn(Tail(todo), history, run)
      BY <2>1, <2>3, <2>5, TailPending
    <2>11. ToolResult(id, run) \in Messages
      BY <1>n, <2>4, MessageTypes
    <2>a. /\ Len(history) \in Nat /\ Len(history') = Len(history) + 1
          /\ \A i \in 1 .. Len(history) : history'[i] = history[i]
          /\ history'[Len(history) + 1] = ToolResult(id, run)
      BY <1>n, <2>2, <2>11, AppendFacts
    <2>12. NewCalls(Tail(todo), history', run, step)
      <3>1. /\ Tail(todo) \in Seq(Calls) /\ Len(Tail(todo)) = Len(todo) - 1
            /\ \A a \in 1 .. Len(Tail(todo)) : Tail(todo)[a] = todo[a + 1]
        BY <2>1, <2>3, HeadTailProperties
      <3>2. ASSUME NEW a \in 1 .. Len(Tail(todo)) PROVE Tail(todo)[a].id # id
        <4>1. a + 1 \in 1 .. Len(todo) /\ 1 \in 1 .. Len(todo) /\ a + 1 # 1
          BY <2>3, <3>1
        <4>2. todo[a + 1].id # todo[1].id
          BY <2>5, <4>1 DEF NewCalls
        <4>3. QED
          BY <2>3, <3>1, <4>2 DEF id
      <3>3. ASSUME NEW a \in 1 .. Len(Tail(todo)), NEW i \in 1 .. Len(history'),
                   IsResult(history', i)
            PROVE  history'[i].ids # {Tail(todo)[a].id}
        <4>1. CASE i = Len(history) + 1
          <5>1. history'[i].ids = {id}
            BY <2>a, <4>1 DEF ToolResult
          <5>2. QED
            BY <3>2, <5>1
        <4>2. CASE i \in 1 .. Len(history)
          <5>1. history'[i] = history[i] /\ IsResult(history, i)
            BY <2>a, <3>3, <4>2 DEF IsResult
          <5>2. QED
            BY <2>10, <4>2, <5>1 DEF NewCalls
        <4>3. QED
          BY <2>a, <4>1, <4>2
      <3>4. QED
        BY <2>10, <3>3 DEF NewCalls
    <2>13. CalledIn(Tail(todo), history', run)
      <3>1. PICK j \in 1 .. Len(history) :
               /\ history[j].role = "assistant" /\ history[j].run = run
               /\ IdsOf(Tail(todo)) \subseteq history[j].ids
        BY <2>10 DEF CalledIn
      <3>2. j \in 1 .. Len(history') /\ history'[j] = history[j]
        BY <2>a
      <3>3. QED
        BY <3>1, <3>2 DEF CalledIn
    <2>14. LastStep' = step
      BY <2>1 DEF LastStep
    <2>15. QED
      BY <2>1, <2>2, <2>9, <2>12, <2>13, <2>14 DEF Paired
  <1>8. CASE SpecialTool
    <2>1. /\ pc = "act" /\ pc' = "act" /\ todo # <<>> /\ todo' = Tail(todo) /\ step' = step
      BY <1>8 DEF SpecialTool
    <2>2. intact /\ run' = run /\ Carries(history, history')
      <3>1. CASE Head(todo).tool = "ask_question"
        BY <1>8, <1>m, <3>1, PlainPush DEF SpecialTool
      <3>2. CASE Head(todo).tool # "ask_question"
        BY <1>8, <3>2, SameCarries DEF SpecialTool
      <3>3. QED
        BY <3>1, <3>2
    <2>3. /\ Sound(history) /\ OldResults(history, run, step)
          /\ NewCalls(todo, history, run, step) /\ CalledIn(todo, history, run)
      BY <2>1, <2>2 DEF Paired, CallsPending, LastStep
    <2>4. NewCalls(Tail(todo), history, run, step) /\ CalledIn(Tail(todo), history, run)
      BY <2>1, <2>3, TailPending DEF TypeOK
    <2>5. LastStep' = step
      BY <2>1 DEF LastStep
    <2>6. QED
      BY <2>1, <2>2, <2>3, <2>4, <2>5 DEF Paired, Carries
  <1>9. CASE ActDone
    BY <1>9, <1>n, <1>q DEF ActDone, LastStep, CallsPending
  <1>10. CASE NextStep
    BY <1>10, <1>n, <1>q DEF NextStep, LastStep, CallsPending
  <1>11. CASE Recover
    BY <1>11, <1>n, <1>q DEF Recover, LastStep, CallsPending
  <1>12. CASE Answer
    <2>1. pc = "answer" /\ pc' = "limit" /\ step' = step
      BY <1>12 DEF Answer
    <2>2. intact /\ run' = run /\ Carries(history, history')
      BY <1>12, <1>m, PlainPush DEF Answer
    <2>3. LastStep <= LastStep' /\ ~CallsPending'
      BY <1>n, <2>1 DEF LastStep, CallsPending
    <2>4. QED
      BY <2>1, <2>2, <2>3, QuietStep
  <1>13. CASE Limit
    <2>1. pc = "limit" /\ pc' = "finally" /\ step' = step
      BY <1>13 DEF Limit
    <2>2. intact /\ run' = run /\ Carries(history, history')
      <3>1. CASE step >= MaxSteps
        BY <1>13, <1>m, <3>1, PlainPush DEF Limit
      <3>2. CASE ~(step >= MaxSteps)
        BY <1>13, <3>2, SameCarries DEF Limit
      <3>3. QED
        BY <3>1, <3>2
    <2>3. LastStep <= LastStep' /\ ~CallsPending'
      BY <1>n, <2>1 DEF LastStep, CallsPending
    <2>4. QED
      BY <2>1, <2>2, <2>3, QuietStep
  <1>14. CASE Fail
    BY <1>14, <1>n, <1>q DEF Fail, LastStep, CallsPending
  <1>15. CASE StoreRaises
    BY <1>15, <1>n, <1>q DEF StoreRaises, LastStep, CallsPending
  <1>16. CASE Error
    <2>1. pc = "error" /\ pc' = "finally" /\ step' = step
      BY <1>16 DEF Error
    <2>2. intact /\ run' = run /\ Carries(history, history')
      BY <1>16, <1>m, PlainPush DEF Error
    <2>3. LastStep <= LastStep' /\ ~CallsPending'
      BY <1>n, <2>1 DEF LastStep, CallsPending
    <2>4. QED
      BY <2>1, <2>2, <2>3, QuietStep
  <1>17. CASE Finally
    BY <1>17, <1>n, <1>q DEF Finally, DropLocals, LastStep, CallsPending
  <1>18. CASE ForceStop
    BY <1>18, <1>n, <1>q DEF ForceStop, LastStep, CallsPending
  <1>19. CASE OthersAdd
    <2>1. pc' = pc /\ step' = step /\ run' = run /\ todo' = todo /\ reply' = reply /\ intact
      BY <1>19 DEF OthersAdd
    <2>2. Carries(history, history')
      BY <1>19, <1>n, <1>m, PlainCarries DEF OthersAdd
    <2>3. LastStep <= LastStep' /\ (CallsPending' => CallsPending)
      BY <1>n, <2>1 DEF LastStep, CallsPending
    <2>4. QED
      BY <2>1, <2>2, <2>3, QuietStep
  <1>20. CASE ClearHistory
    BY <1>20 DEF ClearHistory
  <1>21. CASE UNCHANGED vars
    BY <1>21, <1>n, <1>q DEF vars, LastStep, CallsPending
  <1>22. QED
    BY <1>1, <1>2, <1>3, <1>4, <1>5, <1>6, <1>7, <1>8, <1>9, <1>10, <1>11, <1>12,
       <1>13, <1>14, <1>15, <1>16, <1>17, <1>18, <1>19, <1>20, <1>21 DEF Next, AgentStep

\* As long as no save is lost and nobody clears the history, every tool result
\* in it stands behind its own call, and no call has two, however many runs,
\* steps, failures and messages of others there were.
THEOREM ResultsStayWithCalls == Spec => []ResultsBelong
  <1>1. Init => IInv
    <2> SUFFICES ASSUME Init PROVE IInv
      OBVIOUS
    <2>1. TypeOK
      BY InitType
    <2>2. history = <<>> /\ pc = "idle" /\ Len(history) = 0
      BY DEF Init
    <2>3. Paired
      BY <2>2 DEF Paired, Sound, OldResults, CallsPending
    <2>4. QED
      BY <2>1, <2>3 DEF IInv
  <1>2. IInv /\ [Next]_vars => IInv'
    BY StepType, StepPaired DEF IInv
  <1>3. IInv => ResultsBelong
    BY DEF IInv, Paired, Sound, IsResult, ResultsBelong
  <1>4. QED
    BY <1>1, <1>2, <1>3, PTL DEF Spec

Kinds == {"calls", "result", "question", "answer", "limit", "error"}

\* The places of what a step shows once, and how many steps are accounted for.
Told(s) == {i \in 1 .. Len(s) : s[i] \in {"calls", "answer"}}
Spent == Cardinality(Told(shown)) + IF recovered THEN 1 ELSE 0
LimitShown == \E i \in 1 .. Len(shown) : shown[i] = "limit"

\* Every step shows its calls or its answer, or is the recovered one; the step
\* that is made has not shown them yet.
Accounted ==
    /\ pc = "idle" => shown = <<>>
    /\ pc = "prepare" => step = 0
    /\ pc \in {"prepare", "loop", "act", "overflow", "limit"} => Spent = step
    /\ pc \in {"think", "saveUser", "saveCalls", "recover", "answer"} => Spent + 1 = step
    /\ pc = "recover" => ~recovered
    /\ pc # "finally" => ~LimitShown
    /\ LimitShown => Spent = MaxSteps

\* How a run came to its end.
Excused == stop \/ state = "FINISHED" \/ faults # 0
Ending ==
    /\ pc = "limit" => Excused \/ step = MaxSteps \/ (shown # <<>> /\ Last(shown) = "answer")
    /\ AnsweredAtEnd

SaidInv == Accounted /\ Ending

LEMMA ToldFacts ==
    ASSUME NEW s \in Seq(Kinds)
    PROVE  Len(s) \in Nat /\ IsFiniteSet(Told(s)) /\ Cardinality(Told(s)) \in Nat
  <1>1. Len(s) \in Nat
    OBVIOUS
  <1>2. IsFiniteSet(1 .. Len(s))
    BY <1>1, FS_Interval
  <1>3. IsFiniteSet(Told(s))
    BY <1>2, FS_Subset DEF Told
  <1>4. QED
    BY <1>1, <1>3, FS_CardinalityType

LEMMA ToldEmpty == Told(<<>>) = {} /\ Cardinality(Told(<<>>)) = 0
  <1>1. Told(<<>>) = {}
    BY EmptySeq DEF Told
  <1>2. QED
    BY <1>1, FS_EmptySet

\* What is shown next counts if it is calls or an answer.
LEMMA ToldAppend ==
    ASSUME NEW s \in Seq(Kinds), NEW k \in Kinds
    PROVE  /\ Append(s, k) # <<>> /\ Last(Append(s, k)) = k
           /\ Cardinality(Told(Append(s, k))) =
                Cardinality(Told(s)) + IF k \in {"calls", "answer"} THEN 1 ELSE 0
           /\ (\E i \in 1 .. Len(Append(s, k)) : Append(s, k)[i] = "limit")
                <=> (k = "limit" \/ \E i \in 1 .. Len(s) : s[i] = "limit")
  <1> DEFINE t == Append(s, k)
  <1>1. /\ Len(s) \in Nat /\ Len(t) = Len(s) + 1 /\ t \in Seq(Kinds)
        /\ \A i \in 1 .. Len(s) : t[i] = s[i]
        /\ t[Len(s) + 1] = k
    BY AppendProperties
  <1>2. t # <<>> /\ Last(t) = k
    BY <1>1, EmptySeq DEF Last
  <1> HIDE DEF t
  <1>3. IsFiniteSet(Told(s)) /\ Cardinality(Told(s)) \in Nat
    BY ToldFacts
  <1>4. CASE k \in {"calls", "answer"}
    <2>1. Told(t) = Told(s) \cup {Len(s) + 1} /\ Len(s) + 1 \notin Told(s)
      BY <1>1, <1>4 DEF Told
    <2>2. Cardinality(Told(t)) = Cardinality(Told(s)) + 1
      BY <1>3, <2>1, FS_AddElement
    <2>3. QED
      BY <1>1, <1>2, <1>4, <2>2 DEF t
  <1>5. CASE k \notin {"calls", "answer"}
    <2>1. Told(t) = Told(s)
      BY <1>1, <1>5 DEF Told
    <2>2. QED
      BY <1>1, <1>2, <1>3, <1>5, <2>1 DEF t
  <1>6. QED
    BY <1>4, <1>5

LEMMA ShownType == TypeOK => shown \in Seq(Kinds) /\ faults \in Nat /\ step \in Nat
  BY AgentAssumption DEF TypeOK, Kinds

\* What a step that shows nothing leaves alone.
LEMMA SpentStays ==
    ASSUME UNCHANGED <<shown, recovered>>
    PROVE  Spent' = Spent /\ LimitShown' = LimitShown
  BY DEF Spent, Told, LimitShown

LEMMA PushShows ==
    ASSUME TypeOK, NEW m, NEW kind \in Kinds, Push(m, kind)
    PROVE  /\ shown' # <<>> /\ Last(shown') = kind
           /\ UNCHANGED recovered => Spent' = Spent + IF kind \in {"calls", "answer"} THEN 1 ELSE 0
           /\ LimitShown' <=> (kind = "limit" \/ LimitShown)
           /\ faults' = 0 => faults = 0
           /\ Spent \in Nat
  <1>1. shown \in Seq(Kinds) /\ faults \in Nat
    BY ShownType
  <1>2. shown' = Append(shown, kind) /\ (faults' = 0 => faults = 0)
    BY <1>1 DEF Push, Notify, Save
  <1>3. Cardinality(Told(shown)) \in Nat
    BY <1>1, ToldFacts
  <1>4. /\ Append(shown, kind) # <<>> /\ Last(Append(shown, kind)) = kind
        /\ Cardinality(Told(Append(shown, kind))) =
                Cardinality(Told(shown)) + IF kind \in {"calls", "answer"} THEN 1 ELSE 0
        /\ (\E i \in 1 .. Len(Append(shown, kind)) : Append(shown, kind)[i] = "limit")
                <=> (kind = "limit" \/ \E i \in 1 .. Len(shown) : shown[i] = "limit")
    BY <1>1, ToldAppend
  <1>5. LimitShown' <=> (kind = "limit" \/ LimitShown)
    BY <1>2, <1>4 DEF LimitShown
  <1>6. Spent' = Cardinality(Told(Append(shown, kind))) + IF recovered' THEN 1 ELSE 0
    BY <1>2 DEF Spent
  <1>7. UNCHANGED recovered => Spent' = Spent + IF kind \in {"calls", "answer"} THEN 1 ELSE 0
    BY <1>3, <1>4, <1>6 DEF Spent
  <1>8. Spent \in Nat
    BY <1>3 DEF Spent
  <1>9. QED
    BY <1>2, <1>4, <1>5, <1>7, <1>8

LEMMA StepSaid == TypeOK /\ Clean /\ SaidInv /\ [Next]_vars => SaidInv'
  <1> SUFFICES ASSUME TypeOK, Clean, SaidInv, [Next]_vars PROVE SaidInv'
    OBVIOUS
  <1> USE DEF loopVars, sessionVars, countVars
  <1>0. /\ shown \in Seq(Kinds) /\ faults \in Nat /\ step \in Nat /\ MaxSteps \in Nat
        /\ step <= MaxSteps /\ Accounted /\ Ending /\ Spent \in Nat
    <2>1. Cardinality(Told(shown)) \in Nat
      BY ShownType, ToldFacts
    <2>2. QED
      BY <2>1, ShownType, AgentAssumption DEF TypeOK, SaidInv, Spent, AgentAssumption
  \* A step that shows nothing and remembers what was recovered.
  <1>s. ASSUME UNCHANGED <<shown, recovered>> PROVE Spent' = Spent /\ LimitShown' = LimitShown
    BY <1>s, SpentStays
  <1>1. CASE StartRun
    <2>1. shown' = <<>> /\ recovered' = FALSE /\ pc' = "prepare" /\ step' = 0
      BY <1>1 DEF StartRun, Clean
    <2>2. Spent' = 0 /\ ~LimitShown'
      BY <2>1, ToldEmpty, EmptySeq DEF Spent, LimitShown
    <2>3. QED
      BY <2>1, <2>2 DEF SaidInv, Accounted, Ending, AnsweredAtEnd
  <1>2. CASE StartFails
    <2>1. UNCHANGED <<shown, recovered, pc>> /\ pc = "idle"
      BY <1>2 DEF StartFails
    <2>2. QED
      BY <1>0, <1>s, <2>1 DEF SaidInv, Accounted, Ending, AnsweredAtEnd
  <1>3. CASE Prepare \/ ActDone \/ Fail
    <2>1. UNCHANGED <<loopVars, shown, faults>>
          /\ \/ pc = "prepare" /\ pc' = "loop"
             \/ pc = "act" /\ pc' = "overflow"
             \/ pc \in {"prepare", "think", "act"} /\ pc' = "error"
      BY <1>3 DEF Prepare, ActDone, Fail
    <2>2. QED
      BY <1>0, <1>s, <2>1 DEF SaidInv, Accounted, Ending, AnsweredAtEnd
  <1>4. CASE Loop
    <2>1. CASE MayLoop /\ step' = step + 1 /\ pc' = "think"
      BY <1>0, <1>4, <1>s, <2>1 DEF Loop, SaidInv, Accounted, Ending, AnsweredAtEnd
    <2>2. CASE ~MayLoop /\ pc' = "limit" /\ step' = step
      <3>1. state = "FINISHED" \/ stop \/ step = MaxSteps
        BY <1>0, <2>2 DEF MayLoop, TypeOK
      <3>2. UNCHANGED <<shown, recovered, state, stop>> /\ pc = "loop"
        BY <1>4 DEF Loop
      <3>3. QED
        BY <1>0, <1>s, <2>2, <3>1, <3>2 DEF SaidInv, Accounted, Ending, AnsweredAtEnd, Excused
    <2>3. QED
      BY <1>4, <2>1, <2>2 DEF Loop
  <1>5. CASE Think
    <2>1. /\ UNCHANGED <<loopVars, shown, faults>> /\ pc = "think"
          /\ pc' \in {"saveUser", "saveCalls", "recover", "answer"}
          /\ pc' = "recover" => ~recovered
      BY <1>5 DEF Think
    <2>2. QED
      BY <1>0, <1>s, <2>1 DEF SaidInv, Accounted, Ending, AnsweredAtEnd
  <1>6. CASE SaveUser
    <2>1. /\ UNCHANGED <<step, recovered, shown>> /\ pc = "saveUser"
          /\ pc' \in {"saveCalls", "recover", "answer"}
          /\ pc' = "recover" => ~recovered
      BY <1>6 DEF SaveUser
    <2>2. QED
      BY <1>0, <1>s, <2>1 DEF SaidInv, Accounted, Ending, AnsweredAtEnd
  <1>7. CASE SaveCalls
    <2>1. /\ Push(ToolCalls(IdsOf(todo), run), "calls") /\ UNCHANGED <<step, recovered>>
          /\ pc = "saveCalls" /\ pc' = "act"
      BY <1>7 DEF SaveCalls
    <2>2. Spent' = Spent + 1 /\ LimitShown' = LimitShown
      BY <2>1, PushShows DEF Kinds, LimitShown
    <2>3. QED
      BY <1>0, <2>1, <2>2 DEF SaidInv, Accounted, Ending, AnsweredAtEnd
  <1>8. CASE ExecuteTool \/ SpecialTool
    <2>1. UNCHANGED <<step, recovered, pc>> /\ pc = "act"
      BY <1>8 DEF ExecuteTool, SpecialTool
    <2>2. Spent' = Spent /\ LimitShown' = LimitShown
      <3>1. CASE UNCHANGED shown
        BY <2>1, <3>1, <1>s
      <3>2. ASSUME NEW m, NEW kind \in {"result", "question"}, Push(m, kind)
            PROVE  Spent' = Spent /\ LimitShown' = LimitShown
        <4>1. kind \in Kinds /\ kind \notin {"calls", "answer"} /\ kind # "limit"
          BY DEF Kinds
        <4>2. QED
          BY <1>0, <2>1, <3>2, <4>1, PushShows DEF LimitShown
      <3>3. QED
        BY <1>8, <3>1, <3>2 DEF ExecuteTool, SpecialTool
    <2>3. QED
      BY <1>0, <2>1, <2>2 DEF SaidInv, Accounted, Ending, AnsweredAtEnd
  <1>9. CASE NextStep
    <2>1. UNCHANGED <<step, recovered, shown>> /\ pc = "overflow" /\ pc' = "loop"
      BY <1>9 DEF NextStep
    <2>2. QED
      BY <1>0, <1>s, <2>1 DEF SaidInv, Accounted, Ending, AnsweredAtEnd
  <1>10. CASE Recover
    <2>1. /\ UNCHANGED <<step, shown>> /\ recovered' = TRUE
          /\ pc = "recover" /\ pc' = "loop" /\ ~recovered
      BY <1>0, <1>10 DEF Recover, Accounted
    <2>2. Spent' = Spent + 1 /\ LimitShown' = LimitShown
      <3>1. Cardinality(Told(shown)) \in Nat
        BY <1>0, ToldFacts
      <3>2. QED
        BY <2>1, <3>1 DEF Spent, LimitShown
    <2>3. QED
      BY <1>0, <2>1, <2>2 DEF SaidInv, Accounted, Ending, AnsweredAtEnd
  <1>11. CASE Answer
    <2>1. /\ Push(Assistant(run), "answer") /\ UNCHANGED <<step, recovered>>
          /\ pc = "answer" /\ pc' = "limit"
      BY <1>11 DEF Answer
    <2>2. /\ Spent' = Spent + 1 /\ LimitShown' = LimitShown
          /\ shown' # <<>> /\ Last(shown') = "answer"
      BY <2>1, PushShows DEF Kinds, LimitShown
    <2>3. QED
      BY <1>0, <2>1, <2>2 DEF SaidInv, Accounted, Ending, AnsweredAtEnd
  <1>12. CASE Limit
    <2>1. pc = "limit" /\ pc' = "finally" /\ UNCHANGED <<step, recovered, stop, state>>
      BY <1>12 DEF Limit
    <2>2. CASE step >= MaxSteps
      <3>1. Push(Assistant(run), "limit")
        BY <1>12, <2>2 DEF Limit
      <3>2. Spent' = Spent /\ shown' # <<>> /\ Last(shown') = "limit"
        BY <1>0, <2>1, <3>1, PushShows DEF Kinds
      <3>3. QED
        BY <1>0, <2>1, <2>2, <3>2 DEF SaidInv, Accounted, Ending, AnsweredAtEnd, Closing
    <2>3. CASE ~(step >= MaxSteps)
      <3>1. UNCHANGED <<shown, faults>>
        BY <1>12, <2>3 DEF Limit
      <3>2. Excused \/ (shown # <<>> /\ Last(shown) = "answer")
        BY <1>0, <2>1, <2>3 DEF Ending
      <3>3. QED
        BY <1>0, <1>s, <2>1, <3>1, <3>2
        DEF SaidInv, Accounted, Ending, AnsweredAtEnd, Closing, Excused
    <2>4. QED
      BY <2>2, <2>3
  <1>13. CASE StoreRaises
    <2>1. /\ UNCHANGED <<step, recovered, shown>> /\ faults' # 0
          /\ pc # "finally" /\ pc' \in {"error", "finally"}
      BY <1>0, <1>13 DEF StoreRaises
    <2>2. QED
      BY <1>0, <1>s, <2>1 DEF SaidInv, Accounted, Ending, AnsweredAtEnd
  <1>14. CASE Error
    <2>1. /\ Push(Assistant(run), "error") /\ UNCHANGED <<step, recovered>>
          /\ pc = "error" /\ pc' = "finally"
      BY <1>14 DEF Error
    <2>2. Spent' = Spent /\ LimitShown' = LimitShown /\ shown' # <<>> /\ Last(shown') = "error"
      BY <1>0, <2>1, PushShows DEF Kinds, LimitShown
    <2>3. QED
      BY <1>0, <2>1, <2>2 DEF SaidInv, Accounted, Ending, AnsweredAtEnd, Closing
  <1>15. CASE Finally
    <2>1. pc' = "idle" /\ shown' = <<>>
      BY <1>15 DEF Finally, DropLocals
    <2>2. ~LimitShown'
      BY <2>1, EmptySeq DEF LimitShown
    <2>3. QED
      BY <2>1, <2>2 DEF SaidInv, Accounted, Ending, AnsweredAtEnd
  <1>16. CASE ForceStop \/ OthersAdd \/ ClearHistory \/ UNCHANGED vars
    <2>1. /\ UNCHANGED <<step, recovered, shown, pc, state, faults>>
          /\ stop' = stop \/ stop' = TRUE
      BY <1>16 DEF ForceStop, OthersAdd, ClearHistory, vars
    <2>2. QED
      BY <1>0, <1>s, <2>1 DEF SaidInv, Accounted, Ending, AnsweredAtEnd, Excused
  <1>17. QED
    BY <1>1, <1>2, <1>3, <1>4, <1>5, <1>6, <1>7, <1>8, <1>9, <1>10, <1>11, <1>12,
       <1>13, <1>14, <1>15, <1>16 DEF Next, AgentStep

\* A run that nobody stopped and no store failed ends with an answer, a
\* question, an error or the notice of the limit; and that notice comes only
\* when every step of the budget was made (run, _max_steps).
THEOREM RunsSayTheirEnd == Spec => []EndIsSaid
  <1>1. Init => SaidInv
    <2> SUFFICES ASSUME Init PROVE SaidInv
      OBVIOUS
    <2>1. shown = <<>> /\ pc = "idle" /\ ~LimitShown
      BY EmptySeq DEF Init, LimitShown
    <2>2. QED
      BY <2>1 DEF SaidInv, Accounted, Ending, AnsweredAtEnd
  <1>2. Init => TypeOK /\ Clean
    BY InitType DEF Init, Clean
  <1>3. TypeOK /\ Clean /\ [Next]_vars => (TypeOK /\ Clean)'
    BY StepType, StepClean
  <1>4. TypeOK /\ SaidInv => EndIsSaid
    <2> SUFFICES ASSUME TypeOK, SaidInv PROVE EndIsSaid
      OBVIOUS
    <2>1. LimitIsSpent
      BY DEF SaidInv, Accounted, LimitShown, LimitIsSpent, Spent, Told
    <2>2. QED
      BY <2>1 DEF EndIsSaid, SaidInv, Ending
  <1>5. QED
    BY <1>1, <1>2, <1>3, <1>4, StepSaid, PTL DEF Spec


-----------------------------------------------------------------------------
(* A history on its way into a request.  The library's induction takes an   *)
(* operator, which no installed prover instantiates; a set does as well: of *)
(* the numbers for which a fact fails there would be a least one.  So a     *)
(* fold over a history is followed message by message, and what holds of    *)
(* nothing and is kept by KeepMessage holds of every history.               *)

\* A set of numbers has a least one.
LEMMA NatMin == ASSUME NEW T, T \subseteq Nat, T # {} PROVE \E x \in T : \A y \in T : x <= y
  <1> DEFINE R == {p \in Nat \X Nat : p[1] < p[2]}
  <1>1. IsWellFoundedOn(R, Nat)
    <2>1. R = OpToRel(<, Nat)
      BY DEF OpToRel
    <2> QED BY <2>1, NatLessThanWellFounded
  <1>2. PICK x \in T : \A y \in T : ~ (<<y, x>> \in R)
    <2> HIDE DEF R
    <2> QED BY <1>1, WFMin
  <1>3. \A y \in T : ~ (y < x)
    BY <1>2
  <1> QED BY <1>3

\* A set with 0 and the successors of its members has every number.
LEMMA Induct == ASSUME NEW T, 0 \in T, \A n \in Nat : n \in T => n + 1 \in T PROVE Nat \subseteq T
  <1> SUFFICES ASSUME NEW n \in Nat, n \notin T PROVE FALSE
    OBVIOUS
  <1>1. PICK x \in Nat \ T : \A y \in Nat \ T : x <= y
    BY NatMin
  <1>2. x # 0 /\ x - 1 \in Nat /\ x - 1 \in T
    BY <1>1
  <1> QED BY <1>1, <1>2

\* The fold as the function that MapThenFoldSet defines.
FoldBody(h, f, s) == IF s = {} THEN NothingKept ELSE KeepMessage(f[s \ {Max(s)}], h[Max(s)])
FoldIter(h) == CHOOSE f : f = [s \in SUBSET DOMAIN h |-> FoldBody(h, f, s)]
LEMMA FoldIs == ASSUME NEW h PROVE FoldLeft(KeepMessage, NothingKept, h) = FoldIter(h)[DOMAIN h]
  BY DEF FoldLeft, MapThenFoldSet, FoldIter, FoldBody

\* the largest of the numbers up to n
LEMMA MaxUpTo == ASSUME NEW n \in Nat, NEW s \in SUBSET (1 .. n + 1), n + 1 \in s PROVE Max(s) = n + 1
  <1>1. \A y \in s : n + 1 >= y
    OBVIOUS
  <1>2. Max(s) \in s /\ \A y \in s : Max(s) >= y
    BY <1>1, Zenon DEF Max
  <1> DEFINE m == Max(s)
  <1>3. m \in s /\ \A y \in s : m >= y
    BY <1>2
  <1> HIDE DEF m
  <1>4. m = n + 1
    BY <1>3
  <1> QED BY <1>4 DEF m
LEMMA MaxIn == ASSUME NEW n \in Nat, NEW s \in SUBSET (1 .. n), s # {} PROVE Max(s) \in s
  <1> DEFINE T == {n - k : k \in s}
  <1>1. T \subseteq Nat /\ T # {}
    <2>1. \A k \in s : n - k \in Nat
      OBVIOUS
    <2>2. PICK k \in s : TRUE
      OBVIOUS
    <2>3. n - k \in T
      OBVIOUS
    <2> QED BY <2>1, <2>3
  <1>2. PICK t \in T : \A u \in T : t <= u
    <2> HIDE DEF T
    <2> QED BY <1>1, NatMin
  <1>3. PICK k \in s : t = n - k
    OBVIOUS
  <1>4. \A y \in s : k >= y
    <2> SUFFICES ASSUME NEW y \in s PROVE k >= y
      OBVIOUS
    <2>1. n - y \in T
      OBVIOUS
    <2>2. n - k <= n - y
      BY <2>1, <1>2, <1>3
    <2> QED BY <2>2
  <1> QED BY <1>4, Zenon DEF Max

LEMMA FoldExists == ASSUME NEW h, NEW n \in Nat PROVE \E f : f = [s \in SUBSET (1 .. n) |-> FoldBody(h, f, s)]
  <1> DEFINE T == {m \in Nat : \E f : f = [s \in SUBSET (1 .. m) |-> FoldBody(h, f, s)]}
  <1>1. 0 \in T
    <2>1. [s \in SUBSET (1 .. 0) |-> NothingKept] = [s \in SUBSET (1 .. 0) |-> FoldBody(h, [s2 \in SUBSET (1 .. 0) |-> NothingKept], s)]
      BY DEF FoldBody
    <2> QED BY <2>1
  <1>2. ASSUME NEW m \in Nat, m \in T PROVE m + 1 \in T
    <2>1. PICK f : f = [s \in SUBSET (1 .. m) |-> FoldBody(h, f, s)]
      BY <1>2
    <2> DEFINE g == [s \in SUBSET (1 .. m + 1) |-> IF m + 1 \in s THEN KeepMessage(f[s \ {m + 1}], h[m + 1]) ELSE f[s]]
    <2>2. ASSUME NEW s \in SUBSET (1 .. m + 1) PROVE g[s] = FoldBody(h, g, s)
      <3>1. CASE m + 1 \in s
        <4>1. Max(s) = m + 1 /\ s # {}
          BY <3>1, MaxUpTo
        <4>2. s \ {m + 1} \in SUBSET (1 .. m) /\ m + 1 \notin s \ {m + 1} /\ s \ {m + 1} \in SUBSET (1 .. m + 1)
          OBVIOUS
        <4>3. g[s \ {m + 1}] = f[s \ {m + 1}]
          BY <4>2
        <4> QED BY <4>1, <4>3, <3>1 DEF FoldBody
      <3>2. CASE m + 1 \notin s
        <4>1. s \in SUBSET (1 .. m)
          BY <3>2
        <4>2. g[s] = f[s] /\ f[s] = FoldBody(h, f, s)
          BY <2>1, <3>2, <4>1
        <4>3. CASE s = {}
          BY <4>2, <4>3 DEF FoldBody
        <4>4. CASE s # {}
          <5>1. Max(s) \in s
            BY <4>1, <4>4, MaxIn
          <5>2. s \ {Max(s)} \in SUBSET (1 .. m + 1) /\ m + 1 \notin s \ {Max(s)}
            BY <3>2
          <5>3. g[s \ {Max(s)}] = f[s \ {Max(s)}]
            BY <5>2
          <5> QED BY <4>2, <4>4, <5>3 DEF FoldBody
        <4> QED BY <4>3, <4>4
      <3> QED BY <3>1, <3>2
    <2>3. g = [s \in SUBSET (1 .. m + 1) |-> FoldBody(h, g, s)]
      <3> HIDE DEF g
      <3>1. g = [s \in SUBSET (1 .. m + 1) |-> g[s]]
        BY DEF g
      <3> QED BY <3>1, <2>2
    <2> HIDE DEF g
    <2>4. \E k : k = [s \in SUBSET (1 .. m + 1) |-> FoldBody(h, k, s)]
      BY <2>3
    <2> QED BY <2>4
  <1>3. n \in T
    <2> HIDE DEF T
    <2> QED BY <1>1, <1>2, Induct
  <1> QED BY <1>3

\* a fold, message by message
LEMMA FoldSteps == ASSUME NEW S, NEW h \in Seq(S)
    PROVE \E f : f[0] = NothingKept /\ (\A n \in 0 .. Len(h) - 1 : f[n + 1] = KeepMessage(f[n], h[n + 1])) /\ FoldLeft(KeepMessage, NothingKept, h) = f[Len(h)]
  <1> DEFINE g == FoldIter(h)
             N == Len(h)
  <1>1. DOMAIN h = 1 .. N /\ N \in Nat
    OBVIOUS
  <1>2. g = [s \in SUBSET (1 .. N) |-> FoldBody(h, g, s)]
    <2>1. \E f : f = [s \in SUBSET DOMAIN h |-> FoldBody(h, f, s)]
      <3>1. \A n \in Nat : \E f : f = [s \in SUBSET (1 .. n) |-> FoldBody(h, f, s)]
        BY FoldExists
      <3> HIDE DEF N
      <3>2. \E f : f = [s \in SUBSET (1 .. N) |-> FoldBody(h, f, s)]
        BY <3>1, <1>1
      <3> QED BY <1>1, <3>2
    <2>2. FoldIter(h) = [s \in SUBSET DOMAIN h |-> FoldBody(h, FoldIter(h), s)]
      BY <2>1, Zenon DEF FoldIter
    <2> QED BY <2>2, <1>1
  <1> DEFINE f == [k \in 0 .. N |-> g[1 .. k]]
  <1> HIDE DEF g, N
  <1>3. f[0] = NothingKept
    BY <1>1, <1>2 DEF FoldBody
  <1>4. ASSUME NEW n \in 0 .. N - 1 PROVE f[n + 1] = KeepMessage(f[n], h[n + 1])
    <2>1. Max(1 .. n + 1) = n + 1
      <3>1. n \in Nat /\ 1 .. n + 1 \in SUBSET (1 .. n + 1) /\ n + 1 \in 1 .. n + 1
        BY <1>1
      <3>2. Max(1 .. n + 1) = n + 1
        BY <3>1, MaxUpTo
      <3> QED BY <3>1, <3>2
    <2>2. 1 .. n + 1 \in SUBSET (1 .. N)
      BY <1>1
    <2>3. g[1 .. n + 1] = FoldBody(h, g, 1 .. n + 1)
      BY <1>2, <2>2
    <2>4. n \in 0 .. N /\ n + 1 \in 0 .. N
      BY <1>1
    <2>5. (1 .. n + 1) \ {n + 1} = 1 .. n /\ 1 .. n + 1 # {}
      BY <1>1
    <2> QED BY <2>1, <2>3, <2>4, <2>5 DEF FoldBody
  <1>5. FoldLeft(KeepMessage, NothingKept, h) = f[N]
    BY <1>1, FoldIs DEF g
  <1> QED BY <1>3, <1>4, <1>5 DEF N

-----------------------------------------------------------------------------
Roles == {"user", "assistant", "tool"}
\* Messages about calls with ids of U, where a result answers one call.
Wired(U) == {m \in [role : Roles, ids : SUBSET U, run : Nat] : m.role = "tool" => \E x \in U : m.ids = {x}}
Accs(U) == [kept : Seq(Wired(U)), pending : SUBSET U]

\* The caller of position i is j.
CallsAt(p, j, i) ==
    /\ j \in 1 .. i - 1 /\ p[j].role = "assistant"
    /\ \A k \in j + 1 .. i - 1 : p[k].role # "assistant"
\* ResultsAnswerCalls, with a witness.
Answering(p) ==
    \A i \in 1 .. Len(p) : p[i].role = "tool" =>
        \E j \in 1 .. i - 1 :
            /\ CallsAt(p, j, i) /\ p[i].ids \subseteq p[j].ids
            /\ \A k \in j + 1 .. i - 1 : p[k].role = "tool" => p[k].ids # p[i].ids
\* What is pending was called by the last message that calls, and has no
\* result yet.
PendingCalled(p, pending) ==
    pending # {} => \E j \in 1 .. Len(p) :
        /\ CallsAt(p, j, Len(p) + 1) /\ pending \subseteq p[j].ids
        /\ \A k \in j + 1 .. Len(p) : p[k].role = "tool" => p[k].ids \cap pending = {}

LEMMA CallerIs ==
    ASSUME NEW p, NEW i \in Nat, NEW j, CallsAt(p, j, i)
    PROVE  CallerOf(p, i) = j
  <1> DEFINE S == {0} \cup {k \in 1 .. i - 1 : p[k].role = "assistant"}
  <1>1. j \in S /\ \A y \in S : j >= y
    BY DEF CallsAt
  <1>2. S \subseteq Int
    OBVIOUS
  <1> HIDE DEF S
  <1> DEFINE c == CHOOSE x \in S : \A y \in S : x >= y
  <1>3. c \in S /\ \A y \in S : c >= y
    BY <1>1, Zenon
  <1> HIDE DEF c
  <1>4. c = j
    BY <1>1, <1>2, <1>3
  <1> QED BY <1>4 DEF c, S, CallerOf, Max

LEMMA AnsweringServes ==
    ASSUME NEW p, Len(p) \in Nat, Answering(p)
    PROVE  ResultsAnswerCalls(p)
  <1> SUFFICES ASSUME NEW i \in 1 .. Len(p), p[i].role = "tool"
               PROVE  /\ CallerOf(p, i) # 0
                      /\ p[i].ids \subseteq p[CallerOf(p, i)].ids
                      /\ \A k \in CallerOf(p, i) + 1 .. i - 1 : p[k].role = "tool" => p[k].ids # p[i].ids
    BY DEF ResultsAnswerCalls
  <1>1. PICK j \in 1 .. i - 1 :
            /\ CallsAt(p, j, i) /\ p[i].ids \subseteq p[j].ids
            /\ \A k \in j + 1 .. i - 1 : p[k].role = "tool" => p[k].ids # p[i].ids
    BY DEF Answering
  <1>2. CallerOf(p, i) = j
    BY <1>1, CallerIs
  <1> QED BY <1>1, <1>2

\* A message more at the end.
LEMMA Appended ==
    ASSUME NEW S, NEW p \in Seq(S), NEW m \in S
    PROVE  /\ Append(p, m) \in Seq(S) /\ Len(p) \in Nat /\ Len(Append(p, m)) = Len(p) + 1
           /\ \A i \in 1 .. Len(p) : Append(p, m)[i] = p[i]
           /\ Append(p, m)[Len(p) + 1] = m
  BY AppendProperties, LenProperties

LEMMA CallsSame ==
    ASSUME NEW p, NEW q, NEW i \in Int, NEW j, CallsAt(p, j, i), \A k \in 1 .. i - 1 : q[k] = p[k]
    PROVE  CallsAt(q, j, i)
  <1>1. j \in 1 .. i - 1 /\ \A k \in j + 1 .. i - 1 : k \in 1 .. i - 1
    BY DEF CallsAt
  <1> QED BY <1>1 DEF CallsAt

LEMMA PlainAnswering ==
    ASSUME NEW S, NEW p \in Seq(S), NEW m \in S, m.role # "tool", Answering(p)
    PROVE  Answering(Append(p, m))
  <1> DEFINE q == Append(p, m)
  <1>1. /\ Len(p) \in Nat /\ Len(q) = Len(p) + 1 /\ q[Len(p) + 1] = m
        /\ \A i \in 1 .. Len(p) : q[i] = p[i]
    BY Appended
  <1> HIDE DEF q
  <1>2. ASSUME NEW i \in 1 .. Len(q), q[i].role = "tool"
        PROVE  \E j \in 1 .. i - 1 :
                  /\ CallsAt(q, j, i) /\ q[i].ids \subseteq q[j].ids
                  /\ \A k \in j + 1 .. i - 1 : q[k].role = "tool" => q[k].ids # q[i].ids
    <2>1. i \in 1 .. Len(p) /\ q[i] = p[i]
      BY <1>1, <1>2
    <2>2. PICK j \in 1 .. i - 1 :
            /\ CallsAt(p, j, i) /\ p[i].ids \subseteq p[j].ids
            /\ \A k \in j + 1 .. i - 1 : p[k].role = "tool" => p[k].ids # p[i].ids
      BY <1>2, <2>1 DEF Answering
    <2>3. \A k \in 1 .. i - 1 : q[k] = p[k]
      BY <1>1, <2>1
    <2>4. CallsAt(q, j, i)
      BY <2>2, <2>3, CallsSame
    <2>5. q[j] = p[j] /\ \A k \in j + 1 .. i - 1 : q[k] = p[k]
      <3>1. j \in 1 .. i - 1 /\ \A k \in j + 1 .. i - 1 : k \in 1 .. i - 1
        BY <1>1, <2>1
      <3> QED BY <2>3, <3>1, Zenon
    <2> QED BY <2>1, <2>2, <2>4, <2>5
  <1> QED BY <1>2 DEF Answering, q

\* A user's message leaves what is pending; a call message replaces it.
LEMMA UserPending ==
    ASSUME NEW S, NEW p \in Seq(S), NEW m \in S, m.role = "user", NEW pending, PendingCalled(p, pending)
    PROVE  PendingCalled(Append(p, m), pending)
  <1> DEFINE q == Append(p, m)
  <1>1. /\ Len(p) \in Nat /\ Len(q) = Len(p) + 1 /\ q[Len(p) + 1] = m
        /\ \A i \in 1 .. Len(p) : q[i] = p[i]
    BY Appended
  <1> HIDE DEF q
  <1>2. ASSUME pending # {} PROVE PendingCalled(q, pending)
    <2>1. PICK j \in 1 .. Len(p) :
        /\ CallsAt(p, j, Len(p) + 1) /\ pending \subseteq p[j].ids
        /\ \A k \in j + 1 .. Len(p) : p[k].role = "tool" => p[k].ids \cap pending = {}
      BY <1>2 DEF PendingCalled
    <2>2. \A k \in j + 1 .. Len(q) : k \in j + 1 .. Len(p) \/ k = Len(p) + 1
      BY <1>1
    <2>3. CallsAt(q, j, Len(q) + 1)
      BY <1>1, <2>1, <2>2 DEF CallsAt
    <2>4. \A k \in j + 1 .. Len(q) : q[k].role = "tool" => q[k].ids \cap pending = {}
      BY <1>1, <2>1, <2>2
    <2> QED BY <1>1, <2>1, <2>3, <2>4 DEF PendingCalled
  <1> QED BY <1>2 DEF PendingCalled, q

LEMMA CallPending ==
    ASSUME NEW S, NEW p \in Seq(S), NEW m \in S, m.role = "assistant"
    PROVE  PendingCalled(Append(p, m), m.ids)
  <1> DEFINE q == Append(p, m)
  <1>1. Len(p) \in Nat /\ Len(q) = Len(p) + 1 /\ q[Len(p) + 1] = m
    BY Appended
  <1> HIDE DEF q
  <1>2. CallsAt(q, Len(p) + 1, Len(q) + 1) /\ Len(p) + 1 \in 1 .. Len(q)
    BY <1>1 DEF CallsAt
  <1>3. PendingCalled(q, m.ids)
    BY <1>1, <1>2 DEF PendingCalled
  <1> QED BY <1>3 DEF q

LEMMA ToolAnswering ==
    ASSUME NEW S, NEW p \in Seq(S), NEW m \in S, m.role = "tool", NEW x, m.ids = {x},
           NEW pending, x \in pending, PendingCalled(p, pending), Answering(p)
    PROVE  Answering(Append(p, m)) /\ PendingCalled(Append(p, m), pending \ m.ids)
  <1> DEFINE q == Append(p, m)
  <1>1. /\ Len(p) \in Nat /\ Len(q) = Len(p) + 1 /\ q[Len(p) + 1] = m
        /\ \A i \in 1 .. Len(p) : q[i] = p[i]
    BY Appended
  <1> HIDE DEF q
  <1>2. PICK j \in 1 .. Len(p) :
        /\ CallsAt(p, j, Len(p) + 1) /\ pending \subseteq p[j].ids
        /\ \A k \in j + 1 .. Len(p) : p[k].role = "tool" => p[k].ids \cap pending = {}
    BY DEF PendingCalled
  <1>3. ASSUME NEW i \in 1 .. Len(q), q[i].role = "tool"
        PROVE  \E l \in 1 .. i - 1 :
                  /\ CallsAt(q, l, i) /\ q[i].ids \subseteq q[l].ids
                  /\ \A k \in l + 1 .. i - 1 : q[k].role = "tool" => q[k].ids # q[i].ids
    <2>1. CASE i \in 1 .. Len(p)
      <3>1. q[i] = p[i] /\ \A k \in 1 .. i - 1 : q[k] = p[k]
        BY <1>1, <2>1
      <3>2. PICK l \in 1 .. i - 1 :
            /\ CallsAt(p, l, i) /\ p[i].ids \subseteq p[l].ids
            /\ \A k \in l + 1 .. i - 1 : p[k].role = "tool" => p[k].ids # p[i].ids
        BY <1>3, <2>1, <3>1 DEF Answering
      <3>3. CallsAt(q, l, i)
        BY <3>1, <3>2, CallsSame
      <3>4. \A k \in l + 1 .. i - 1 : q[k].role = "tool" => q[k].ids # q[i].ids
        BY <3>1, <3>2
      <3> QED BY <3>1, <3>2, <3>3, <3>4
    <2>2. CASE i = Len(p) + 1
      <3>1. \A k \in 1 .. i - 1 : q[k] = p[k]
        BY <1>1, <2>2
      <3>2. CallsAt(q, j, i) /\ j \in 1 .. i - 1
        BY <1>1, <1>2, <2>2, <3>1 DEF CallsAt
      <3>3. q[i].ids \subseteq q[j].ids
        BY <1>1, <1>2, <2>2, <3>1
      <3>4. \A k \in j + 1 .. i - 1 : q[k].role = "tool" => q[k].ids # q[i].ids
        BY <1>1, <1>2, <2>2, <3>1
      <3> QED BY <3>2, <3>3, <3>4
    <2> QED BY <1>1, <2>1, <2>2
  <1>4. Answering(q)
    BY <1>3 DEF Answering
  <1>5. \A k \in j + 1 .. Len(q) : k \in j + 1 .. Len(p) \/ k = Len(p) + 1
    BY <1>1
  <1>6. CallsAt(q, j, Len(q) + 1)
    BY <1>1, <1>2, <1>5 DEF CallsAt
  <1>7. \A k \in j + 1 .. Len(q) : q[k].role = "tool" => q[k].ids \cap (pending \ m.ids) = {}
    BY <1>1, <1>2, <1>5
  <1>8. PendingCalled(q, pending \ m.ids)
    BY <1>1, <1>2, <1>6, <1>7 DEF PendingCalled
  <1> QED BY <1>4, <1>8 DEF q

\* The calls of the last message are taken back: nothing answered them.
LEMMA Uncalled ==
    ASSUME NEW U, NEW p \in Seq(Wired(U)), p # <<>>, p[Len(p)].role = "assistant"
    PROVE  /\ WithoutCalls(p) \in Seq(Wired(U)) /\ Len(WithoutCalls(p)) = Len(p)
           /\ \A i \in 1 .. Len(p) - 1 : WithoutCalls(p)[i] = p[i]
           /\ WithoutCalls(p)[Len(p)] = [p[Len(p)] EXCEPT !.ids = {}]
  <1>1. Len(p) \in Nat \ {0} /\ Len(p) \in 1 .. Len(p)
    BY LenProperties, EmptySeq
  <1>2. p[Len(p)] \in Wired(U)
    BY <1>1, ElementOfSeq
  <1>3. [p[Len(p)] EXCEPT !.ids = {}] \in Wired(U)
    BY <1>2 DEF Wired
  <1>4. WithoutCalls(p) = [p EXCEPT ![Len(p)] = [p[Len(p)] EXCEPT !.ids = {}]]
    BY DEF WithoutCalls
  <1> DEFINE r == [p[Len(p)] EXCEPT !.ids = {}]
  <1>5. r \in Wired(U) /\ WithoutCalls(p) = [p EXCEPT ![Len(p)] = r]
    BY <1>3, <1>4
  <1> HIDE DEF r
  <1>6. /\ [p EXCEPT ![Len(p)] = r] \in Seq(Wired(U)) /\ Len([p EXCEPT ![Len(p)] = r]) = Len(p)
    BY <1>1, <1>5, ExceptSeq
  <1>7. /\ \A i \in 1 .. Len(p) - 1 : [p EXCEPT ![Len(p)] = r][i] = p[i]
        /\ [p EXCEPT ![Len(p)] = r][Len(p)] = r
    BY <1>1
  <1> QED BY <1>5, <1>6, <1>7 DEF r

LEMMA UncalledAnswering ==
    ASSUME NEW U, NEW p \in Seq(Wired(U)), p # <<>>, p[Len(p)].role = "assistant", Answering(p)
    PROVE  Answering(WithoutCalls(p))
  <1> DEFINE q == WithoutCalls(p)
  <1>1. /\ Len(q) = Len(p) /\ Len(p) \in Nat \ {0} /\ \A i \in 1 .. Len(p) - 1 : q[i] = p[i]
        /\ q[Len(p)].role = "assistant"
    <2>1. p[Len(p)] \in Wired(U) /\ Len(p) \in Nat \ {0}
      BY LenProperties, EmptySeq, ElementOfSeq
    <2>2. [p[Len(p)] EXCEPT !.ids = {}].role = "assistant"
      BY <2>1 DEF Wired
    <2> QED BY <2>1, <2>2, Uncalled
  <1> HIDE DEF q
  <1>2. ASSUME NEW i \in 1 .. Len(q), q[i].role = "tool"
        PROVE  \E j \in 1 .. i - 1 :
                  /\ CallsAt(q, j, i) /\ q[i].ids \subseteq q[j].ids
                  /\ \A k \in j + 1 .. i - 1 : q[k].role = "tool" => q[k].ids # q[i].ids
    <2>1. i \in 1 .. Len(p) - 1 /\ q[i] = p[i] /\ \A k \in 1 .. i - 1 : q[k] = p[k]
      BY <1>1, <1>2
    <2>2. PICK j \in 1 .. i - 1 :
            /\ CallsAt(p, j, i) /\ p[i].ids \subseteq p[j].ids
            /\ \A k \in j + 1 .. i - 1 : p[k].role = "tool" => p[k].ids # p[i].ids
      BY <1>2, <2>1 DEF Answering
    <2> QED BY <2>1, <2>2 DEF CallsAt
  <1> QED BY <1>2 DEF Answering, q

-----------------------------------------------------------------------------
FoldInv(U, acc) == acc \in Accs(U) /\ Answering(acc.kept) /\ PendingCalled(acc.kept, acc.pending)

LEMMA KeptIs ==
    ASSUME NEW U, NEW acc \in Accs(U), NEW m \in Wired(U), NEW pending \in SUBSET U
    PROVE  /\ Keep(acc, m, pending) \in Accs(U)
           /\ Keep(acc, m, pending).kept = Append(acc.kept, m) /\ Keep(acc, m, pending).pending = pending
  BY Appended DEF Keep, Accs

LEMMA KeptInv ==
    ASSUME NEW U, NEW acc \in Accs(U), NEW m \in Wired(U), NEW pending \in SUBSET U,
           Answering(Append(acc.kept, m)), PendingCalled(Append(acc.kept, m), pending)
    PROVE  FoldInv(U, Keep(acc, m, pending))
  <1> DEFINE k == Keep(acc, m, pending)
  <1>1. k \in Accs(U) /\ k.kept = Append(acc.kept, m) /\ k.pending = pending
    BY KeptIs
  <1> HIDE DEF k
  <1>2. FoldInv(U, k)
    BY <1>1 DEF FoldInv
  <1> QED BY <1>2 DEF k

LEMMA LastKept ==
    ASSUME NEW U, NEW acc \in Accs(U)
    PROVE  Unanswered(acc) <=> acc.pending # {} /\ acc.kept # <<>> /\ acc.kept[Len(acc.kept)].role = "assistant"
  BY DEF Unanswered, Last

\* What is taken back, with nothing pending.
LEMMA TakenBack ==
    ASSUME NEW U, NEW acc \in Accs(U), FoldInv(U, acc), Unanswered(acc)
    PROVE  /\ WithoutCalls(acc.kept) \in Seq(Wired(U)) /\ Answering(WithoutCalls(acc.kept))
           /\ [acc EXCEPT !.kept = WithoutCalls(@)] \in Accs(U)
           /\ [acc EXCEPT !.kept = WithoutCalls(@)].kept = WithoutCalls(acc.kept)
  <1>1. acc.kept \in Seq(Wired(U)) /\ acc.kept # <<>> /\ acc.kept[Len(acc.kept)].role = "assistant"
    BY LastKept DEF Accs
  <1>2. WithoutCalls(acc.kept) \in Seq(Wired(U)) /\ Answering(WithoutCalls(acc.kept))
    BY <1>1, Uncalled, UncalledAnswering DEF FoldInv
  <1> QED BY <1>2 DEF Accs

LEMMA KeepsInv ==
    ASSUME NEW U, NEW acc, FoldInv(U, acc), NEW m \in Wired(U)
    PROVE  FoldInv(U, KeepMessage(acc, m))
  <1>1. /\ acc \in Accs(U) /\ acc.kept \in Seq(Wired(U)) /\ acc.pending \in SUBSET U
        /\ Answering(acc.kept) /\ PendingCalled(acc.kept, acc.pending)
    BY DEF FoldInv, Accs
  <1>2. m.role \in Roles /\ m.ids \in SUBSET U
    BY DEF Wired
  <1>3. CASE m.role = "assistant"
    <2>1. KeepMessage(acc, m) = Keep(acc, m, m.ids)
      BY <1>3 DEF KeepMessage
    <2>2. Answering(Append(acc.kept, m)) /\ PendingCalled(Append(acc.kept, m), m.ids)
      BY <1>1, <1>3, PlainAnswering, CallPending
    <2> QED BY <1>1, <1>2, <2>1, <2>2, KeptInv
  <1>4. CASE m.role = "tool"
    <2>1. PICK x \in U : m.ids = {x}
      BY <1>4 DEF Wired
    <2>2. CASE m.ids \subseteq acc.pending
      <3>1. KeepMessage(acc, m) = Keep(acc, m, acc.pending \ m.ids)
        BY <1>4, <2>2 DEF KeepMessage
      <3>2. x \in acc.pending
        BY <2>1, <2>2
      <3>3. Answering(Append(acc.kept, m)) /\ PendingCalled(Append(acc.kept, m), acc.pending \ m.ids)
        BY <1>1, <1>4, <2>1, <3>2, ToolAnswering
      <3>4. acc.pending \ m.ids \in SUBSET U
        BY <1>1
      <3> QED BY <1>1, <3>1, <3>3, <3>4, KeptInv
    <2>3. CASE ~(m.ids \subseteq acc.pending)
      <3>1. KeepMessage(acc, m) = acc
        BY <1>4, <2>3 DEF KeepMessage
      <3> QED BY <3>1
    <2> QED BY <2>2, <2>3
  <1>5. CASE m.role = "user"
    <2>1. CASE Unanswered(acc)
      <3> DEFINE back == [acc EXCEPT !.kept = WithoutCalls(@)]
      <3>1. KeepMessage(acc, m) = Keep(back, m, {})
        BY <1>5, <2>1 DEF KeepMessage
      <3>2. back \in Accs(U) /\ Answering(back.kept) /\ back.kept \in Seq(Wired(U))
        BY <1>1, <2>1, TakenBack
      <3> HIDE DEF back
      <3>3. Answering(Append(back.kept, m))
        BY <1>5, <3>2, PlainAnswering
      <3>4. PendingCalled(Append(back.kept, m), {})
        BY DEF PendingCalled
      <3> QED BY <3>1, <3>2, <3>3, <3>4, KeptInv
    <2>2. CASE ~Unanswered(acc)
      <3>1. KeepMessage(acc, m) = Keep(acc, m, acc.pending)
        BY <1>5, <2>2 DEF KeepMessage
      <3>2. Answering(Append(acc.kept, m)) /\ PendingCalled(Append(acc.kept, m), acc.pending)
        BY <1>1, <1>5, PlainAnswering, UserPending
      <3> QED BY <1>1, <3>1, <3>2, KeptInv
    <2> QED BY <2>1, <2>2
  <1> QED BY <1>2, <1>3, <1>4, <1>5 DEF Roles

LEMMA NothingInv == \A U : FoldInv(U, NothingKept)
  BY EmptySeq DEF FoldInv, NothingKept, Accs, Answering, PendingCalled

\* The fold, and what holds along it.
LEMMA FoldInvAlways ==
    ASSUME NEW U, NEW h \in Seq(Wired(U)), NEW f, f[0] = NothingKept,
           \A n \in 0 .. Len(h) - 1 : f[n + 1] = KeepMessage(f[n], h[n + 1])
    PROVE  \A n \in 0 .. Len(h) : FoldInv(U, f[n])
  <1> DEFINE T == {n \in Nat : n <= Len(h) => FoldInv(U, f[n])}
  <1>0. Len(h) \in Nat
    BY LenProperties
  <1>1. 0 \in T
    BY NothingInv
  <1>2. ASSUME NEW n \in Nat, n \in T PROVE n + 1 \in T
    <2>1. CASE n + 1 <= Len(h)
      <3>1. n \in 0 .. Len(h) - 1 /\ n + 1 \in 1 .. Len(h) /\ n <= Len(h)
        BY <1>0, <2>1
      <3>2. h[n + 1] \in Wired(U)
        BY <3>1, ElementOfSeq
      <3>3. FoldInv(U, f[n])
        BY <1>2, <3>1
      <3>4. FoldInv(U, f[n + 1])
        BY <3>1, <3>2, <3>3, KeepsInv
      <3> QED BY <3>4
    <2> QED BY <2>1
  <1>3. Nat \subseteq T
    <2> HIDE DEF T
    <2> QED BY <1>1, <1>2, Induct
  <1>4. \A n \in Nat : n <= Len(h) => FoldInv(U, f[n])
    BY <1>3
  <1> QED BY <1>0, <1>4

\* Whatever a history holds, what is made of it for a request has results
\* only behind the call they answer, and one for each call at most.
THEOREM SanitizeAnswers ==
    ASSUME NEW U, NEW h \in Seq(Wired(U))
    PROVE  /\ Sanitize(h) \in Seq(Wired(U)) /\ Answering(Sanitize(h))
           /\ ResultsAnswerCalls(Sanitize(h))
  <1>1. PICK f : /\ f[0] = NothingKept /\ FoldLeft(KeepMessage, NothingKept, h) = f[Len(h)]
                 /\ \A n \in 0 .. Len(h) - 1 : f[n + 1] = KeepMessage(f[n], h[n + 1])
    BY FoldSteps
  <1> DEFINE acc == f[Len(h)]
  <1>2. FoldInv(U, acc)
    BY <1>1, FoldInvAlways, LenProperties
  <1>3. Sanitize(h) = IF Unanswered(acc) THEN WithoutCalls(acc.kept) ELSE acc.kept
    BY <1>1 DEF Sanitize
  <1> HIDE DEF acc
  <1>4. Sanitize(h) \in Seq(Wired(U)) /\ Answering(Sanitize(h))
    <2>1. CASE Unanswered(acc)
      BY <1>2, <1>3, <2>1, TakenBack DEF FoldInv
    <2>2. CASE ~Unanswered(acc)
      BY <1>2, <1>3, <2>2 DEF FoldInv, Accs
    <2> QED BY <2>1, <2>2
  <1> QED BY <1>4, AnsweringServes, LenProperties

-----------------------------------------------------------------------------
Holds(p, u) == \E i \in 1 .. Len(p) : p[i] = u

LEMMA HoldsMore ==
    ASSUME NEW S, NEW p \in Seq(S), NEW m \in S
    PROVE  Holds(Append(p, m), m) /\ \A u : Holds(p, u) => Holds(Append(p, m), u)
  <1>1. /\ Len(p) \in Nat /\ Len(Append(p, m)) = Len(p) + 1 /\ Append(p, m)[Len(p) + 1] = m
        /\ \A i \in 1 .. Len(p) : Append(p, m)[i] = p[i]
    BY Appended
  <1>2. Len(p) + 1 \in 1 .. Len(Append(p, m)) /\ \A i \in 1 .. Len(p) : i \in 1 .. Len(Append(p, m))
    BY <1>1
  <1> QED BY <1>1, <1>2 DEF Holds

\* Taking calls back loses no message of a user.
LEMMA HoldsUncalled ==
    ASSUME NEW U, NEW p \in Seq(Wired(U)), p # <<>>, p[Len(p)].role = "assistant",
           NEW u, u.role = "user", Holds(p, u)
    PROVE  Holds(WithoutCalls(p), u)
  <1>1. PICK i \in 1 .. Len(p) : p[i] = u
    BY DEF Holds
  <1>2. Len(p) \in Nat /\ i # Len(p)
    BY <1>1, LenProperties
  <1>3. i \in 1 .. Len(p) - 1
    BY <1>2
  <1> QED BY <1>1, <1>3, Uncalled DEF Holds

LEMMA KeepsUsers ==
    ASSUME NEW U, NEW acc, FoldInv(U, acc), NEW m \in Wired(U), NEW u, u.role = "user",
           Holds(acc.kept, u) \/ m = u
    PROVE  Holds(KeepMessage(acc, m).kept, u)
  <1>1. acc \in Accs(U) /\ acc.kept \in Seq(Wired(U)) /\ acc.pending \in SUBSET U
    BY DEF FoldInv, Accs
  <1>2. m.role \in Roles /\ m.ids \in SUBSET U
    BY DEF Wired
  <1>3. CASE m.role = "assistant"
    <2>1. KeepMessage(acc, m).kept = Append(acc.kept, m)
      BY <1>3 DEF KeepMessage, Keep
    <2> QED BY <1>1, <2>1, HoldsMore
  <1>4. CASE m.role = "tool"
    <2>1. m # u
      BY <1>4
    <2>2. KeepMessage(acc, m).kept = Append(acc.kept, m) \/ KeepMessage(acc, m) = acc
      BY <1>4 DEF KeepMessage, Keep
    <2>3. Holds(acc.kept, u) /\ Holds(Append(acc.kept, m), u)
      BY <1>1, <2>1, HoldsMore
    <2> QED BY <2>2, <2>3
  <1>5. CASE m.role = "user"
    <2>1. CASE Unanswered(acc)
      <3> DEFINE back == [acc EXCEPT !.kept = WithoutCalls(@)]
      <3>1. KeepMessage(acc, m) = Keep(back, m, {})
        BY <1>5, <2>1 DEF KeepMessage
      <3>2. back.kept = WithoutCalls(acc.kept) /\ back.kept \in Seq(Wired(U))
        BY <1>1, <2>1, TakenBack
      <3>3. Holds(acc.kept, u) => Holds(back.kept, u)
        <4>1. acc.kept # <<>> /\ acc.kept[Len(acc.kept)].role = "assistant"
          BY <1>1, <2>1, LastKept
        <4> QED BY <1>1, <3>2, <4>1, HoldsUncalled
      <3> HIDE DEF back
      <3>4. KeepMessage(acc, m).kept = Append(back.kept, m)
        BY <3>1 DEF Keep
      <3> QED BY <3>2, <3>3, <3>4, HoldsMore
    <2>2. CASE ~Unanswered(acc)
      <3>1. KeepMessage(acc, m).kept = Append(acc.kept, m)
        BY <1>5, <2>2 DEF KeepMessage, Keep
      <3> QED BY <1>1, <3>1, HoldsMore
    <2> QED BY <2>1, <2>2
  <1> QED BY <1>2, <1>3, <1>4, <1>5 DEF Roles

\* No message of a user is lost on the way.
THEOREM SanitizeKeepsUsers ==
    ASSUME NEW U, NEW h \in Seq(Wired(U)), NEW u, u.role = "user", Holds(h, u)
    PROVE  Holds(Sanitize(h), u)
  <1>0. PICK a \in 1 .. Len(h) : h[a] = u
    BY DEF Holds
  <1>1. PICK f : /\ f[0] = NothingKept /\ FoldLeft(KeepMessage, NothingKept, h) = f[Len(h)]
                 /\ \A n \in 0 .. Len(h) - 1 : f[n + 1] = KeepMessage(f[n], h[n + 1])
    BY FoldSteps
  <1>2. \A n \in 0 .. Len(h) : FoldInv(U, f[n])
    BY <1>1, FoldInvAlways
  <1> DEFINE T == {n \in Nat : n \in a .. Len(h) => Holds(f[n].kept, u)}
  <1>3. Len(h) \in Nat /\ 0 \in T
    BY LenProperties
  <1>4. ASSUME NEW n \in Nat, n \in T PROVE n + 1 \in T
    <2>1. CASE n + 1 \in a .. Len(h)
      <3>1. n \in 0 .. Len(h) - 1 /\ n + 1 \in 1 .. Len(h) /\ n \in 0 .. Len(h)
        BY <1>3, <2>1
      <3>2. h[n + 1] \in Wired(U) /\ FoldInv(U, f[n]) /\ f[n + 1] = KeepMessage(f[n], h[n + 1])
        BY <1>1, <1>2, <3>1, ElementOfSeq
      <3>3. Holds(f[n].kept, u) \/ h[n + 1] = u
        BY <1>0, <1>4, <2>1
      <3>4. Holds(f[n + 1].kept, u)
        BY <3>2, <3>3, KeepsUsers
      <3> QED BY <3>4
    <2> QED BY <2>1
  <1>5. Nat \subseteq T
    <2> HIDE DEF T
    <2> QED BY <1>3, <1>4, Induct
  <1> DEFINE acc == f[Len(h)]
  <1>6. Holds(acc.kept, u) /\ FoldInv(U, acc)
    BY <1>0, <1>2, <1>3, <1>5
  <1>7. Sanitize(h) = IF Unanswered(acc) THEN WithoutCalls(acc.kept) ELSE acc.kept
    BY <1>1 DEF Sanitize
  <1> HIDE DEF acc, T
  <1>8. ASSUME Unanswered(acc) PROVE Holds(WithoutCalls(acc.kept), u)
    <2>1. acc \in Accs(U) /\ acc.kept \in Seq(Wired(U))
      BY <1>6 DEF FoldInv, Accs
    <2>2. acc.kept # <<>> /\ acc.kept[Len(acc.kept)].role = "assistant"
      BY <1>8, <2>1, LastKept
    <2> QED BY <1>6, <2>1, <2>2, HoldsUncalled
  <1> QED BY <1>6, <1>7, <1>8

-----------------------------------------------------------------------------
\* The call is answered right behind position j of p.
Replied(p, j, id) ==
    \E i \in j + 1 .. Len(p) :
        /\ p[i].role = "tool" /\ p[i].ids = {id}
        /\ \A k \in j + 1 .. i : p[k].role = "tool"
\* Every call of p is answered there, or still pending with nothing but
\* results behind it.
RepliedOr(p, pending) ==
    \A j \in 1 .. Len(p) : p[j].role = "assistant" =>
        \A id \in p[j].ids :
            \/ Replied(p, j, id)
            \/ id \in pending /\ \A k \in j + 1 .. Len(p) : p[k].role = "tool"
\* What is pending after n messages of h is answered by the next ones.
Awaited(h, n, pending) == \A id \in pending : Replied(h, n, id)

LEMMA RepliedMore ==
    ASSUME NEW S, NEW p \in Seq(S), NEW m \in S, NEW j \in Nat, NEW id, Replied(p, j, id)
    PROVE  Replied(Append(p, m), j, id)
  <1> DEFINE q == Append(p, m)
  <1>1. /\ Len(p) \in Nat /\ Len(q) = Len(p) + 1
        /\ \A i \in 1 .. Len(p) : q[i] = p[i]
    BY Appended
  <1> HIDE DEF q
  <1>2. PICK i \in j + 1 .. Len(p) :
            p[i].role = "tool" /\ p[i].ids = {id} /\ \A k \in j + 1 .. i : p[k].role = "tool"
    BY DEF Replied
  <1>3. i \in j + 1 .. Len(q) /\ \A k \in j + 1 .. i : k \in 1 .. Len(p)
    BY <1>1, <1>2
  <1>4. Replied(q, j, id)
    BY <1>1, <1>2, <1>3 DEF Replied
  <1> QED BY <1>4 DEF q

\* A message of the assistant or a user, with nothing pending before it.
LEMMA PlainReplied ==
    ASSUME NEW S, NEW p \in Seq(S), NEW m \in S, NEW pending,
           m.role = "assistant" => m.ids \subseteq pending, RepliedOr(p, {})
    PROVE  RepliedOr(Append(p, m), pending)
  <1> DEFINE q == Append(p, m)
  <1>1. /\ Len(p) \in Nat /\ Len(q) = Len(p) + 1 /\ q[Len(p) + 1] = m
        /\ \A i \in 1 .. Len(p) : q[i] = p[i]
    BY Appended
  <1>2. ASSUME NEW j \in 1 .. Len(q), q[j].role = "assistant", NEW id \in q[j].ids
        PROVE  Replied(q, j, id) \/ (id \in pending /\ \A k \in j + 1 .. Len(q) : q[k].role = "tool")
    <2>1. CASE j \in 1 .. Len(p)
      <3>1. q[j] = p[j]
        BY <1>1, <2>1
      <3> HIDE DEF q
      <3>2. Replied(p, j, id)
        BY <1>2, <2>1, <3>1 DEF RepliedOr
      <3>3. j \in Nat
        BY <2>1
      <3>4. Replied(q, j, id)
        BY <3>2, <3>3, RepliedMore DEF q
      <3> QED BY <3>4
    <2>2. CASE j = Len(p) + 1
      <3> HIDE DEF q
      <3>1. id \in pending
        BY <1>1, <1>2, <2>2
      <3>2. \A k \in j + 1 .. Len(q) : FALSE
        BY <1>1, <2>2
      <3> QED BY <3>1, <3>2
    <2> HIDE DEF q
    <2> QED BY <1>1, <2>1, <2>2
  <1> HIDE DEF q
  <1>3. RepliedOr(q, pending)
    BY <1>2 DEF RepliedOr
  <1> QED BY <1>3 DEF q

LEMMA ToolReplied ==
    ASSUME NEW S, NEW p \in Seq(S), NEW m \in S, m.role = "tool", NEW x, m.ids = {x},
           NEW pending, RepliedOr(p, pending)
    PROVE  RepliedOr(Append(p, m), pending \ m.ids)
  <1> DEFINE q == Append(p, m)
  <1>1. /\ Len(p) \in Nat /\ Len(q) = Len(p) + 1 /\ q[Len(p) + 1] = m
        /\ \A i \in 1 .. Len(p) : q[i] = p[i]
    BY Appended
  <1> HIDE DEF q
  <1>2. ASSUME NEW j \in 1 .. Len(q), q[j].role = "assistant", NEW id \in q[j].ids
        PROVE  Replied(q, j, id) \/ (id \in pending \ m.ids /\ \A k \in j + 1 .. Len(q) : q[k].role = "tool")
    <2>1. j \in 1 .. Len(p) /\ q[j] = p[j] /\ j \in Nat
      BY <1>1, <1>2
    <2>2. CASE Replied(p, j, id)
      BY <2>1, <2>2, RepliedMore DEF q
    <2>3. CASE id \in pending /\ \A k \in j + 1 .. Len(p) : p[k].role = "tool"
      <3>1. \A k \in j + 1 .. Len(q) : q[k].role = "tool"
        BY <1>1, <2>1, <2>3
      <3>2. CASE id = x
        <4>1. Len(q) \in j + 1 .. Len(q) /\ q[Len(q)].role = "tool" /\ q[Len(q)].ids = {id}
          BY <1>1, <2>1, <3>2
        <4> QED BY <3>1, <4>1 DEF Replied
      <3>3. CASE id # x
        BY <2>3, <3>1, <3>3
      <3> QED BY <3>2, <3>3
    <2> QED BY <1>2, <2>1, <2>2, <2>3 DEF RepliedOr
  <1>3. RepliedOr(q, pending \ m.ids)
    BY <1>2 DEF RepliedOr
  <1> QED BY <1>3 DEF q

\* Nothing is pending before a message that is no result.
LEMMA NothingAwaited ==
    ASSUME NEW h, Len(h) \in Nat, NEW n \in Nat, NEW pending, Awaited(h, n, pending),
           n = Len(h) \/ h[n + 1].role # "tool"
    PROVE  pending = {}
  <1> SUFFICES ASSUME NEW id \in pending PROVE FALSE
    OBVIOUS
  <1>1. PICK i \in n + 1 .. Len(h) : \A k \in n + 1 .. i : h[k].role = "tool"
    BY DEF Awaited, Replied
  <1>2. n + 1 \in n + 1 .. i /\ n # Len(h)
    BY <1>1
  <1> QED BY <1>1, <1>2

\* What is awaited and is not the result at hand comes later.
LEMMA AwaitedLater ==
    ASSUME NEW h, Len(h) \in Nat, NEW n \in Nat, NEW pending, Awaited(h, n, pending),
           NEW rest, rest \subseteq pending, \A id \in rest : h[n + 1].ids # {id}
    PROVE  Awaited(h, n + 1, rest)
  <1>1. ASSUME NEW id \in rest PROVE Replied(h, n + 1, id)
    <2>1. PICK i \in n + 1 .. Len(h) :
            h[i].role = "tool" /\ h[i].ids = {id} /\ \A k \in n + 1 .. i : h[k].role = "tool"
      BY DEF Awaited, Replied
    <2>2. i # n + 1 /\ i \in Int
      BY <2>1
    <2>3. i \in n + 1 + 1 .. Len(h) /\ \A k \in n + 1 + 1 .. i : k \in n + 1 .. i
      BY <2>1, <2>2
    <2> QED BY <2>1, <2>3 DEF Replied
  <1> QED BY <1>1 DEF Awaited

LEMMA KeepsReplied ==
    ASSUME NEW U, NEW h \in Seq(Wired(U)), CallsAreAnswered(h), NEW n \in 0 .. Len(h) - 1,
           NEW acc, FoldInv(U, acc), RepliedOr(acc.kept, acc.pending), Awaited(h, n, acc.pending)
    PROVE  LET a == KeepMessage(acc, h[n + 1]) IN RepliedOr(a.kept, a.pending) /\ Awaited(h, n + 1, a.pending)
  <1> DEFINE m == h[n + 1]
             a == KeepMessage(acc, m)
  <1>1. /\ acc \in Accs(U) /\ acc.kept \in Seq(Wired(U)) /\ acc.pending \in SUBSET U
        /\ Len(h) \in Nat /\ n \in Nat /\ n + 1 \in 1 .. Len(h) /\ n # Len(h)
    BY LenProperties DEF FoldInv, Accs
  <1>2. m \in Wired(U)
    BY <1>1, ElementOfSeq
  <1>3. m.role \in Roles /\ m.ids \in SUBSET U
    BY <1>2 DEF Wired
  <1> HIDE DEF m
  <1> SUFFICES RepliedOr(a.kept, a.pending) /\ Awaited(h, n + 1, a.pending)
    BY DEF m
  <1> HIDE DEF a
  <1>4. CASE m.role = "assistant"
    <2>1. acc.pending = {}
      BY <1>1, <1>4, NothingAwaited DEF m
    <2>2. a = Keep(acc, m, m.ids)
      BY <1>4 DEF a, KeepMessage
    <2>3. a.kept = Append(acc.kept, m) /\ a.pending = m.ids
      BY <1>1, <1>2, <1>3, <2>2, KeptIs
    <2>4. RepliedOr(a.kept, a.pending)
      BY <1>1, <1>2, <2>1, <2>3, PlainReplied
    <2>5. \A id \in m.ids : Replied(h, n + 1, id)
      BY <1>1, <1>4 DEF CallsAreAnswered, Replied, m
    <2> QED BY <2>3, <2>4, <2>5 DEF Awaited
  <1>5. CASE m.role = "user"
    <2>1. acc.pending = {}
      BY <1>1, <1>5, NothingAwaited DEF m
    <2>2. a = Keep(acc, m, acc.pending)
      BY <1>5, <2>1 DEF a, KeepMessage, Unanswered
    <2>3. a.kept = Append(acc.kept, m) /\ a.pending = acc.pending
      BY <1>1, <1>2, <2>2, KeptIs
    <2>4. RepliedOr(a.kept, a.pending)
      BY <1>1, <1>2, <1>5, <2>1, <2>3, PlainReplied
    <2> QED BY <2>1, <2>3, <2>4 DEF Awaited
  <1>6. CASE m.role = "tool"
    <2>1. PICK x \in U : m.ids = {x}
      BY <1>2, <1>6 DEF Wired
    <2>2. CASE m.ids \subseteq acc.pending
      <3>1. a = Keep(acc, m, acc.pending \ m.ids)
        BY <1>6, <2>2 DEF a, KeepMessage
      <3>2. acc.pending \ m.ids \in SUBSET U
        BY <1>1
      <3>3. a.kept = Append(acc.kept, m) /\ a.pending = acc.pending \ m.ids
        BY <1>1, <1>2, <3>1, <3>2, KeptIs
      <3>4. RepliedOr(a.kept, a.pending)
        <4>1. RepliedOr(Append(acc.kept, m), acc.pending \ m.ids)
          BY <1>1, <1>2, <1>6, <2>1, ToolReplied
        <4> QED BY <3>3, <4>1
      <3>5. \A id \in a.pending : m.ids # {id}
        BY <2>1, <3>3
      <3>6. Awaited(h, n + 1, a.pending)
        BY <1>1, <3>3, <3>5, AwaitedLater DEF m
      <3> QED BY <3>4, <3>6
    <2>3. CASE ~(m.ids \subseteq acc.pending)
      <3>1. a = acc
        BY <1>6, <2>3 DEF a, KeepMessage
      <3>2. \A id \in acc.pending : m.ids # {id}
        BY <2>1, <2>3
      <3>3. Awaited(h, n + 1, acc.pending)
        BY <1>1, <3>2, AwaitedLater DEF m
      <3> QED BY <3>1, <3>3
    <2> QED BY <2>2, <2>3
  <1> QED BY <1>3, <1>4, <1>5, <1>6 DEF Roles

\* The fold of a history whose calls are all answered: no call is taken back.
LEMMA AnsweredFold ==
    ASSUME NEW U, NEW h \in Seq(Wired(U)), CallsAreAnswered(h)
    PROVE  \E f : /\ f[0] = NothingKept /\ \A n \in 0 .. Len(h) - 1 : f[n + 1] = KeepMessage(f[n], h[n + 1])
                  /\ \A n \in 0 .. Len(h) : /\ FoldInv(U, f[n]) /\ RepliedOr(f[n].kept, f[n].pending)
                                            /\ Awaited(h, n, f[n].pending)
                  /\ f[Len(h)].pending = {} /\ Sanitize(h) = f[Len(h)].kept
  <1>1. PICK f : /\ f[0] = NothingKept /\ FoldLeft(KeepMessage, NothingKept, h) = f[Len(h)]
                 /\ \A n \in 0 .. Len(h) - 1 : f[n + 1] = KeepMessage(f[n], h[n + 1])
    BY FoldSteps
  <1>2. \A n \in 0 .. Len(h) : FoldInv(U, f[n])
    BY <1>1, FoldInvAlways
  <1> DEFINE good(n) == RepliedOr(f[n].kept, f[n].pending) /\ Awaited(h, n, f[n].pending)
             T == {n \in Nat : n <= Len(h) => good(n)}
  <1>3. Len(h) \in Nat
    BY LenProperties
  <1>4. 0 \in T
    BY <1>1 DEF NothingKept, RepliedOr, Awaited
  <1>5. ASSUME NEW n \in Nat, n \in T PROVE n + 1 \in T
    <2>1. CASE n + 1 <= Len(h)
      <3>1. n \in 0 .. Len(h) - 1 /\ n \in 0 .. Len(h) /\ n <= Len(h)
        BY <1>3, <2>1
      <3>2. good(n) /\ FoldInv(U, f[n]) /\ f[n + 1] = KeepMessage(f[n], h[n + 1])
        BY <1>1, <1>2, <1>5, <3>1
      <3>3. good(n + 1)
        BY <3>1, <3>2, KeepsReplied
      <3> QED BY <3>3
    <2> QED BY <2>1
  <1>6. Nat \subseteq T
    <2> HIDE DEF T
    <2> QED BY <1>4, <1>5, Induct
  <1>7. \A n \in 0 .. Len(h) : good(n)
    BY <1>3, <1>6
  <1> DEFINE acc == f[Len(h)]
  <1>8. Sanitize(h) = IF Unanswered(acc) THEN WithoutCalls(acc.kept) ELSE acc.kept
    BY <1>1 DEF Sanitize
  <1>9. acc.pending = {}
    <2>1. Awaited(h, Len(h), acc.pending)
      BY <1>3, <1>7
    <2> HIDE DEF acc
    <2> QED BY <1>3, <2>1, NothingAwaited
  <1> HIDE DEF acc
  <1>10. Sanitize(h) = acc.kept
    BY <1>8, <1>9 DEF Unanswered
  <1> QED BY <1>1, <1>2, <1>7, <1>9, <1>10 DEF acc

\* A history whose calls are all answered stays one.
THEOREM SanitizeAnswered ==
    ASSUME NEW U, NEW h \in Seq(Wired(U)), CallsAreAnswered(h)
    PROVE  CallsAreAnswered(Sanitize(h))
  <1>1. PICK f : /\ \A n \in 0 .. Len(h) : RepliedOr(f[n].kept, f[n].pending)
                 /\ f[Len(h)].pending = {} /\ Sanitize(h) = f[Len(h)].kept
    BY AnsweredFold
  <1>2. RepliedOr(Sanitize(h), {})
    <2>1. Len(h) \in 0 .. Len(h)
      BY LenProperties
    <2>2. RepliedOr(f[Len(h)].kept, f[Len(h)].pending)
      BY <1>1, <2>1
    <2> QED BY <1>1, <2>2, Zenon
  <1> QED BY <1>2 DEF RepliedOr, CallsAreAnswered, Replied

\* Of such a history only results can be lost on the way.
LEMMA KeepsSaid ==
    ASSUME NEW U, NEW acc, FoldInv(U, acc), NEW m \in Wired(U), m.role # "assistant" /\ m.role # "tool" => acc.pending = {},
           NEW u, u.role # "tool", Holds(acc.kept, u) \/ m = u
    PROVE  Holds(KeepMessage(acc, m).kept, u)
  <1>1. acc \in Accs(U) /\ acc.kept \in Seq(Wired(U)) /\ acc.pending \in SUBSET U
    BY DEF FoldInv, Accs
  <1>2. m.role \in Roles
    BY DEF Wired
  <1>3. Holds(Append(acc.kept, m), u)
    BY <1>1, HoldsMore
  <1>4. KeepMessage(acc, m).kept = Append(acc.kept, m) \/ (m.role = "tool" /\ KeepMessage(acc, m) = acc)
    <2>1. CASE m.role = "assistant"
      BY <2>1 DEF KeepMessage, Keep
    <2>2. CASE m.role = "tool"
      BY <2>2 DEF KeepMessage, Keep
    <2>3. CASE m.role = "user"
      <3>1. ~Unanswered(acc)
        BY <2>3 DEF Unanswered
      <3> QED BY <2>3, <3>1 DEF KeepMessage, Keep
    <2> QED BY <1>2, <2>1, <2>2, <2>3 DEF Roles
  <1> QED BY <1>3, <1>4

THEOREM SanitizeKeepsSaid ==
    ASSUME NEW U, NEW h \in Seq(Wired(U)), CallsAreAnswered(h), NEW u, u.role # "tool", Holds(h, u)
    PROVE  Holds(Sanitize(h), u)
  <1>0. PICK a \in 1 .. Len(h) : h[a] = u
    BY DEF Holds
  <1>1. PICK f : /\ \A n \in 0 .. Len(h) - 1 : f[n + 1] = KeepMessage(f[n], h[n + 1])
                 /\ \A n \in 0 .. Len(h) : FoldInv(U, f[n]) /\ Awaited(h, n, f[n].pending)
                 /\ Sanitize(h) = f[Len(h)].kept
    BY AnsweredFold
  <1> DEFINE T == {n \in Nat : n \in a .. Len(h) => Holds(f[n].kept, u)}
  <1>2. Len(h) \in Nat /\ 0 \in T
    BY LenProperties
  <1>3. ASSUME NEW n \in Nat, n \in T PROVE n + 1 \in T
    <2>1. CASE n + 1 \in a .. Len(h)
      <3>1. n \in 0 .. Len(h) - 1 /\ n + 1 \in 1 .. Len(h) /\ n \in 0 .. Len(h) /\ n # Len(h)
        BY <1>2, <2>1
      <3>2. h[n + 1] \in Wired(U) /\ FoldInv(U, f[n]) /\ Awaited(h, n, f[n].pending) /\ f[n + 1] = KeepMessage(f[n], h[n + 1])
        BY <1>1, <3>1, ElementOfSeq
      <3>3. Holds(f[n].kept, u) \/ h[n + 1] = u
        BY <1>0, <1>3, <2>1
      <3>4. h[n + 1].role # "tool" => f[n].pending = {}
        BY <1>2, <3>1, <3>2, NothingAwaited
      <3>5. Holds(f[n + 1].kept, u)
        BY <3>2, <3>3, <3>4, KeepsSaid
      <3> QED BY <3>5
    <2> QED BY <2>1
  <1>4. Nat \subseteq T
    <2> HIDE DEF T
    <2> QED BY <1>2, <1>3, Induct
  <1>5. Holds(f[Len(h)].kept, u)
    BY <1>0, <1>2, <1>4
  <1> QED BY <1>1, <1>5

-----------------------------------------------------------------------------
(* What a step of the agent sends.                                          *)

\* The messages of a session, where a result answers one call.
Wire == Wired(CallIds)

LEMMA WireTypes ==
    /\ \A r \in Nat : User(r) \in Wire /\ Assistant(r) \in Wire
    /\ \A r \in Nat, id \in CallIds : ToolResult(id, r) \in Wire
    /\ \A r \in Nat, calls \in Seq(Calls) : ToolCalls(IdsOf(calls), r) \in Wire
  <1>1. \A m \in Messages : m.role = "tool" \/ m \in Wire
    BY DEF Wire, Wired, Messages, Roles
  <1>2. \A r \in Nat, id \in CallIds : ToolResult(id, r) \in Wire
    BY DEF Wire, Wired, Roles, ToolResult
  <1>3. \A r \in Nat : User(r) \in Wire /\ Assistant(r) \in Wire
    BY <1>1, MessageTypes DEF User, Assistant
  <1>4. \A r \in Nat, calls \in Seq(Calls) : ToolCalls(IdsOf(calls), r).role # "tool"
    BY DEF ToolCalls
  <1> QED BY <1>1, <1>2, <1>3, <1>4, MessageTypes

\* The question is asked until it is in the history.
AskInv ==
    /\ history \in Seq(Wire) /\ compacted <= Len(history)
    /\ pc = "idle" => ~pushed
    /\ pc # "idle" /\ ~asks => pushed
    /\ pc \in {"saveCalls", "act", "overflow"} => pushed
    /\ pushed /\ intact => Holds(history, User(run))

\* What saving a message, or none, leaves true.
Extends(h, n, g) ==
    /\ g \in Seq(Wire) /\ n <= Len(g)
    /\ \A u : Holds(h, u) => Holds(g, u)

LEMMA AppendExtends ==
    ASSUME TypeOK, AskInv, NEW m \in Wire
    PROVE  Extends(history, compacted, history) /\ Extends(history, compacted, Append(history, m)) /\ Holds(Append(history, m), m)
  <1>1. history \in Seq(Wire) /\ compacted <= Len(history) /\ compacted \in Nat
    BY DEF AskInv, TypeOK
  <1>2. Append(history, m) \in Seq(Wire) /\ Len(Append(history, m)) = Len(history) + 1 /\ Len(history) \in Nat
    BY <1>1, Appended
  <1>3. compacted <= Len(Append(history, m))
    BY <1>1, <1>2
  <1>4. Holds(Append(history, m), m) /\ \A u : Holds(history, u) => Holds(Append(history, m), u)
    BY <1>1, HoldsMore
  <1> QED BY <1>1, <1>2, <1>3, <1>4 DEF Extends

LEMMA SaveExtends ==
    ASSUME TypeOK, AskInv, NEW m \in Wire, Save(m)
    PROVE  Extends(history, compacted, history') /\ (intact' => intact /\ Holds(history', m))
  <1>1. CASE history' = Append(history, m) /\ intact' = intact
    BY <1>1, AppendExtends
  <1>2. CASE history' = history /\ ~intact'
    BY <1>2, AppendExtends
  <1> QED BY <1>1, <1>2 DEF Save

LEMMA PushExtends ==
    ASSUME TypeOK, AskInv, NEW m \in Wire, NEW kind, Push(m, kind)
    PROVE  Extends(history, compacted, history') /\ (intact' => intact) /\ compacted' = compacted /\ run' = run
  BY SaveExtends DEF Push

LEMMA AskStays ==
    ASSUME AskInv, Extends(history, compacted, history'), compacted' = compacted, run' = run, intact' => intact,
           pushed' = pushed, asks' = asks, pc' = "idle" <=> pc = "idle",
           pc' \in {"saveCalls", "act", "overflow"} => pushed
    PROVE  AskInv'
  BY DEF AskInv, Extends

LEMMA StepAsks ==
    ASSUME TypeOK, AskInv, [Next]_vars
    PROVE  AskInv'
  <1> USE DEF loopVars, sessionVars, countVars
  <1>n. /\ run \in Nat /\ step \in Nat /\ todo \in Seq(Calls) /\ User(run) \in Wire /\ Assistant(run) \in Wire
        /\ User(0) \in Wire /\ Assistant(0) \in Wire
        /\ Extends(history, compacted, history) /\ KeepLast \in Nat /\ compacted \in Nat /\ Len(history) \in Nat
    BY AgentAssumption, WireTypes, AppendExtends, LenProperties DEF TypeOK
  <1>1. CASE StartRun
    BY <1>1 DEF AskInv, StartRun
  <1>2. CASE StartFails
    BY <1>2 DEF AskInv, StartFails
  <1>3. CASE Prepare \/ Loop \/ ActDone
    BY <1>3, <1>n, AskStays DEF Prepare, Loop, ActDone, AskInv
  <1>4. CASE Think
    BY <1>4, <1>n, AskStays DEF Think
  <1>5. CASE Fail \/ StoreRaises \/ ForceStop \/ UNCHANGED vars
    <2>1. /\ pushed' = pushed /\ asks' = asks /\ run' = run /\ intact' = intact /\ compacted' = compacted
          /\ history' = history
          /\ pc' = "idle" <=> pc = "idle"
          /\ pc' \in {"saveCalls", "act", "overflow"} => pc' = pc
      BY <1>5 DEF Fail, StoreRaises, ForceStop, vars
    <2>2. pc' \in {"saveCalls", "act", "overflow"} => pushed
      BY <2>1 DEF AskInv
    <2>3. Extends(history, compacted, history')
      BY <2>1, <1>n
    <2> QED BY <2>1, <2>2, <2>3, AskStays
  <1>6. CASE SaveUser
    <2>1. Extends(history, compacted, history') /\ (intact' => intact /\ Holds(history', User(run)))
      BY <1>6, <1>n, SaveExtends DEF SaveUser
    <2>2. pushed' = TRUE /\ run' = run /\ compacted' = compacted /\ pc' # "idle"
      BY <1>6 DEF SaveUser
    <2> QED BY <2>1, <2>2 DEF AskInv, Extends
  <1>7. CASE SaveCalls
    <2>1. ToolCalls(IdsOf(todo), run) \in Wire
      BY <1>n, WireTypes
    <2>2. Extends(history, compacted, history') /\ (intact' => intact) /\ compacted' = compacted /\ run' = run
      BY <1>7, <2>1, PushExtends DEF SaveCalls
    <2>3. pushed' = pushed /\ asks' = asks /\ pc = "saveCalls" /\ pc' = "act" /\ pushed
      BY <1>7 DEF SaveCalls, AskInv
    <2> QED BY <2>2, <2>3, AskStays
  <1>8. CASE ExecuteTool
    <2>1. Head(todo) \in Calls
      BY <1>8, <1>n DEF ExecuteTool
    <2>2. ToolResult(Head(todo).id, run) \in Wire
      BY <2>1, <1>n, WireTypes DEF Calls
    <2>3. Extends(history, compacted, history') /\ (intact' => intact) /\ compacted' = compacted /\ run' = run
      BY <1>8, <2>2, PushExtends DEF ExecuteTool
    <2>4. pushed' = pushed /\ asks' = asks /\ pc = "act" /\ pc' = "act" /\ pushed
      BY <1>8 DEF ExecuteTool, AskInv
    <2> QED BY <2>3, <2>4, AskStays
  <1>9. CASE SpecialTool
    <2>1. Extends(history, compacted, history') /\ (intact' => intact) /\ compacted' = compacted /\ run' = run
      BY <1>9, <1>n, PushExtends DEF SpecialTool
    <2>2. pushed' = pushed /\ asks' = asks /\ pc = "act" /\ pc' = "act" /\ pushed
      BY <1>9 DEF SpecialTool, AskInv
    <2> QED BY <2>1, <2>2, AskStays
  <1>10. CASE Answer \/ Limit \/ Error
    <2>1. Extends(history, compacted, history') /\ (intact' => intact) /\ compacted' = compacted /\ run' = run
      BY <1>10, <1>n, PushExtends DEF Answer, Limit, Error
    <2>2. pushed' = pushed /\ asks' = asks /\ pc # "idle" /\ pc' \in {"limit", "finally"}
      BY <1>10 DEF Answer, Limit, Error
    <2> QED BY <2>1, <2>2, AskStays
  <1>11. CASE NextStep \/ Recover
    <2>1. compacted' <= Len(history) /\ history' = history /\ run' = run /\ intact' = intact /\ pushed' = pushed
          /\ pc' = "loop"
      BY <1>11, <1>n DEF NextStep, Recover, MayCompact, AskInv
    <2>2. (NextStep => pushed) /\ (Recover => asks' = asks /\ pc # "idle")
      BY DEF NextStep, Recover, AskInv
    <2> QED BY <1>11, <2>1, <2>2 DEF AskInv
  <1>12. CASE Finally
    BY <1>12 DEF Finally, Reset, DropLocals, AskInv
  <1>13. CASE OthersAdd
    <2>1. PICK m \in {User(0), Assistant(0)} : history' = Append(history, m)
      BY <1>13 DEF OthersAdd
    <2>2. Extends(history, compacted, history')
      BY <2>1, <1>n, AppendExtends
    <2>3. /\ pushed' = pushed /\ asks' = asks /\ run' = run /\ intact' = intact /\ compacted' = compacted
          /\ pc' = pc
      BY <1>13 DEF OthersAdd
    <2>4. pc' \in {"saveCalls", "act", "overflow"} => pushed
      BY <2>3 DEF AskInv
    <2> QED BY <2>2, <2>3, <2>4, AskStays
  <1>14. CASE ClearHistory
    <2>1. history' \in Seq(Wire) /\ compacted' <= Len(history') /\ ~intact'
      BY <1>14, EmptySeq DEF ClearHistory
    <2>2. pushed' = pushed /\ asks' = asks /\ pc' = pc
      BY <1>14 DEF ClearHistory
    <2> QED BY <2>1, <2>2 DEF AskInv
  <1> QED
    BY <1>1, <1>2, <1>3, <1>4, <1>5, <1>6, <1>7, <1>8, <1>9, <1>10, <1>11, <1>12, <1>13, <1>14 DEF Next, AgentStep

\* A slice of a history, and where its messages are.
LEMMA LastOfIs ==
    ASSUME NEW S, NEW s \in Seq(S), NEW n \in Nat \ {0}
    PROVE  /\ LastOf(s, n) \in Seq(S)
           /\ \A i \in 1 .. Len(s) : i > Len(s) - n => Holds(LastOf(s, n), s[i])
  <1> DEFINE a == IF Len(s) > n THEN Len(s) - n + 1 ELSE 1
             t == SubSeq(s, a, Len(s))
  <1>1. a \in Int /\ Len(s) \in Int /\ a >= 1 /\ \A i \in a .. Len(s) : s[i] \in S
    BY LenProperties, ElementOfSeq
  <1>2. LastOf(s, n) = t
    BY DEF LastOf
  <1>a. \A i \in 1 .. Len(s) : i > Len(s) - n => i >= a
    OBVIOUS
  <1> HIDE DEF a
  <1>3. /\ t \in Seq(S) /\ Len(t) = IF a <= Len(s) THEN Len(s) - a + 1 ELSE 0
        /\ \A i \in 1 .. Len(s) - a + 1 : t[i] = s[a + i - 1]
    BY <1>1, SubSeqProperties
  <1> HIDE DEF t
  <1>4. ASSUME NEW i \in 1 .. Len(s), i > Len(s) - n PROVE Holds(t, s[i])
    <2>1. i >= a
      BY <1>a, <1>4
    <2>2. i - a + 1 \in 1 .. Len(t) /\ i - a + 1 \in 1 .. Len(s) - a + 1 /\ a + (i - a + 1) - 1 = i
      BY <1>1, <1>3, <2>1
    <2>3. t[i - a + 1] = s[i]
      BY <1>3, <2>2
    <2> QED BY <2>2, <2>3 DEF Holds
  <1> QED BY <1>2, <1>3, <1>4

LEMMA HoldsConcat ==
    ASSUME NEW S, NEW p \in Seq(S), NEW q \in Seq(S), NEW u, Holds(p, u) \/ Holds(q, u)
    PROVE  Holds(p \o q, u)
  <1>1. /\ Len(p \o q) = Len(p) + Len(q) /\ Len(p) \in Nat /\ Len(q) \in Nat
        /\ \A i \in 1 .. Len(p) + Len(q) : (p \o q)[i] = IF i <= Len(p) THEN p[i] ELSE q[i - Len(p)]
    BY ConcatProperties, LenProperties
  <1>2. CASE Holds(p, u)
    <2>1. PICK i \in 1 .. Len(p) : p[i] = u
      BY <1>2 DEF Holds
    <2>2. i \in 1 .. Len(p \o q) /\ (p \o q)[i] = u
      BY <1>1, <2>1
    <2> QED BY <2>2 DEF Holds
  <1>3. CASE Holds(q, u)
    <2>1. PICK i \in 1 .. Len(q) : q[i] = u
      BY <1>3 DEF Holds
    <2>2. i + Len(p) \in 1 .. Len(p \o q) /\ (p \o q)[i + Len(p)] = u
      BY <1>1, <2>1
    <2> QED BY <2>2 DEF Holds
  <1> QED BY <1>2, <1>3

\* What is sent is built from messages of the session; what was said after the
\* last compaction and is in the window is in it.
LEMMA ContextIs ==
    ASSUME TypeOK, AskInv
    PROVE  /\ Context \in Seq(Wire)
           /\ \A i \in 1 .. Len(history) :
                 i > compacted /\ i > Len(history) - Window => Holds(Context, history[i])
  <1>1. /\ history \in Seq(Wire) /\ compacted \in Nat /\ Window \in Nat \ {0} /\ Assistant(0) \in Wire
        /\ Len(history) \in Nat /\ compacted <= Len(history)
    BY AgentAssumption, WireTypes, LenProperties DEF TypeOK, AskInv
  <1>2. CASE compacted > 0
    <2> DEFINE tail == SubSeq(history, compacted + 1, Len(history))
    <2>1. /\ tail \in Seq(Wire) /\ Len(tail) = Len(history) - compacted
          /\ \A i \in 1 .. Len(history) - compacted : tail[i] = history[compacted + i]
      <3>1. \A i \in compacted + 1 .. Len(history) : history[i] \in Wire
        BY <1>1, ElementOfSeq
      <3>2. /\ tail \in Seq(Wire)
            /\ Len(tail) = IF compacted + 1 <= Len(history) THEN Len(history) - (compacted + 1) + 1 ELSE 0
            /\ \A i \in 1 .. Len(history) - (compacted + 1) + 1 : tail[i] = history[compacted + 1 + i - 1]
        BY <1>1, <3>1, SubSeqProperties
      <3> HIDE DEF tail
      <3>3. ASSUME NEW i \in 1 .. Len(history) - compacted PROVE tail[i] = history[compacted + i]
        <4>1. i \in 1 .. Len(history) - (compacted + 1) + 1 /\ compacted + 1 + i - 1 = compacted + i
          BY <1>1
        <4>2. tail[i] = history[compacted + 1 + i - 1]
          BY <3>2, <4>1
        <4> QED BY <4>1, <4>2
      <3>4. Len(tail) = Len(history) - compacted
        BY <1>1, <3>2
      <3> QED BY <3>2, <3>3, <3>4
    <2>2. Context = <<Assistant(0)>> \o LastOf(tail, Window)
      BY <1>2 DEF Context
    <2> HIDE DEF tail
    <2>3. /\ LastOf(tail, Window) \in Seq(Wire)
          /\ \A i \in 1 .. Len(tail) : i > Len(tail) - Window => Holds(LastOf(tail, Window), tail[i])
      BY <1>1, <2>1, LastOfIs
    <2>6. <<Assistant(0)>> \in Seq(Wire)
      BY <1>1
    <2>4. Context \in Seq(Wire)
      BY <2>2, <2>3, <2>6, ConcatProperties
    <2>5. ASSUME NEW i \in 1 .. Len(history), i > compacted, i > Len(history) - Window
          PROVE  Holds(Context, history[i])
      <3>1. i - compacted \in 1 .. Len(tail) /\ i - compacted > Len(tail) - Window /\ tail[i - compacted] = history[i]
        BY <1>1, <2>1, <2>5
      <3>2. Holds(LastOf(tail, Window), history[i])
        BY <2>3, <3>1
      <3> QED BY <2>2, <2>3, <2>6, <3>2, HoldsConcat
    <2> QED BY <2>4, <2>5
  <1>3. CASE ~(compacted > 0)
    <2>1. Context = LastOf(history, Window)
      BY <1>3 DEF Context
    <2> QED BY <1>1, <2>1, LastOfIs
  <1> QED BY <1>2, <1>3

LEMMA AskServes == TypeOK /\ AskInv => RequestSound
  <1> SUFFICES ASSUME TypeOK, AskInv PROVE NoOrphanResult /\ QuestionAsked
    BY DEF RequestSound
  <1> DEFINE s == Sanitize(Context)
             q == User(run)
  <1>1. /\ Context \in Seq(Wire) /\ s \in Seq(Wire) /\ Answering(s) /\ q \in Wire /\ q.role = "user"
        /\ compacted \in Nat /\ Len(history) \in Nat /\ Window \in Nat
    BY ContextIs, SanitizeAnswers, WireTypes, AgentAssumption, LenProperties DEF TypeOK, Wire, AskInv, User
  <1>2. Prompt = IF asks THEN s \o <<q>> ELSE s \o <<>>
    BY DEF Prompt
  <1> HIDE DEF s, q
  <1>3. Prompt = IF asks THEN Append(s, q) ELSE s
    <2>1. s \o <<>> = s
      BY <1>1, ConcatEmptySeq
    <2>2. s \o <<q>> = Append(s, q)
      BY <1>1, AppendIsConcat
    <2> QED BY <1>2, <2>1, <2>2
  <1>4. Prompt \in Seq(Wire) /\ Answering(Prompt)
    BY <1>1, <1>3, PlainAnswering, Appended
  <1>5. NoOrphanResult
    BY <1>4, AnsweringServes, LenProperties DEF NoOrphanResult
  <1>q. ASSUME \/ Holds(Prompt, q)
               \/ \E i \in 1 .. compacted : history[i] = q
               \/ \E i \in 1 .. Len(history) - Window : history[i] = q
        PROVE  QuestionAsked
    BY <1>q DEF QuestionAsked, Holds, q
  <1>6. CASE asks
    <2>1. Holds(Prompt, q)
      BY <1>1, <1>3, <1>6, HoldsMore
    <2> QED BY <1>5, <2>1, <1>q
  <1>7. CASE ~asks
    <2>1. SUFFICES ASSUME pc = "think", intact,
                          ~ \E i \in 1 .. compacted : history[i] = q,
                          ~ \E i \in 1 .. Len(history) - Window : history[i] = q
                   PROVE  Holds(Prompt, q)
      <3>1. CASE pc = "think" /\ intact
        BY <1>5, <1>q, <3>1
      <3>2. CASE ~(pc = "think" /\ intact)
        BY <1>5, <3>2 DEF QuestionAsked
      <3> QED BY <3>1, <3>2
    <2>2. PICK i \in 1 .. Len(history) : history[i] = q
      BY <1>7, <2>1 DEF AskInv, Holds, q
    <2>3. i > compacted /\ i > Len(history) - Window
      BY <1>1, <2>1, <2>2
    <2>4. Holds(Context, q)
      BY <2>2, <2>3, ContextIs
    <2>5. Holds(s, q)
      BY <1>1, <2>4, SanitizeKeepsUsers DEF s, Wire
    <2> QED BY <1>3, <1>7, <2>5
  <1> QED BY <1>5, <1>6, <1>7

\* For every window, compaction and history: no request carries the result of a
\* call it does not carry, nor two results of a call, and as long as no save
\* fails the question of the run is in the request, in the summary, or older
\* than the window (think, _sanitize_history, to_context).
THEOREM RequestsAreSound == Spec => []RequestSound
  <1>1. Init => TypeOK /\ AskInv
    BY InitType, EmptySeq DEF Init, AskInv
  <1>2. TypeOK /\ AskInv /\ [Next]_vars => (TypeOK /\ AskInv)'
    BY StepType, StepAsks
  <1> QED BY <1>1, <1>2, AskServes, PTL DEF Spec

-----------------------------------------------------------------------------
(* Background tasks.  Between its steps every call of a task is answered    *)
(* right behind the message that makes it; while a step acts, the results  *)
(* of its reply come in order.  A compaction may cut anywhere but keeps     *)
(* that, since only whole suffixes are sent.                                *)

Pairs == Nat \X Nat
SubWire == Wired(Pairs)
SubPCs == {"new", "create", "loop", "think", "act", "recover", "answer", "announce", "over", "died"}
SubRecords ==
    [pc : SubPCs, step : 0 .. SubSteps, asks : {"task", "next"}, added : BOOLEAN, recovered : BOOLEAN,
     reply : {"none"}, todo : Nat, history : Seq(SubWire), compacted : Nat, summary : Seq(Nat)]
SubCalls(s, n) == {<<s, i>> : i \in 1 .. n}

\* The calls of the last reply have their results, in order, but for the last
\* unanswered of them; all calls before are answered.
PartlyAnswered(h, s, unanswered) ==
    \E j \in 1 .. Len(h), n \in Nat :
        /\ h[j] = ToolCalls(SubCalls(s, n), 1)
        /\ unanswered \in 0 .. n /\ Len(h) = j + n - unanswered
        /\ \A i \in 1 .. n - unanswered : h[j + i] = ToolResult(<<s, i>>, 1)
        /\ \A k \in 1 .. j - 1 : h[k].role = "assistant" => \A id \in h[k].ids : Replied(h, k, id)

\* One task and its history.
SubHistory(a) ==
    /\ ~a.added => a.history = <<>>
    /\ a.added => Holds(a.history, User(1))
    /\ a.asks = "next" \/ a.pc \in {"act", "recover", "answer"} => a.added
    /\ a.pc # "act" => CallsAreAnswered(a.history)
    /\ a.pc = "act" => PartlyAnswered(a.history, a.step, a.todo)
SubSummary(a) == a.compacted <= Len(a.history) /\ a.summary = [i \in 1 .. a.compacted |-> i]
SubGood(a) == a \in SubRecords /\ SubHistory(a) /\ SubSummary(a)

LEMMA SubWireTypes ==
    /\ User(0) \in SubWire /\ User(1) \in SubWire /\ Assistant(0) \in SubWire /\ Assistant(1) \in SubWire
    /\ User(0).role = "user" /\ User(1).role = "user" /\ Assistant(0).role = "assistant" /\ Assistant(1).role = "assistant"
    /\ Assistant(0).ids = {} /\ Assistant(1).ids = {}
    /\ \A id \in Pairs : ToolResult(id, 1) \in SubWire
    /\ \A s, n \in Nat : ToolCalls(SubCalls(s, n), 1) \in SubWire
  BY DEF SubWire, Wired, Roles, User, Assistant, ToolResult, ToolCalls, SubCalls, Pairs

LEMMA AnsweredIs == \A p : CallsAreAnswered(p) <=> RepliedOr(p, {})
  BY DEF CallsAreAnswered, RepliedOr, Replied

LEMMA PlainAnswered ==
    ASSUME NEW S, NEW p \in Seq(S), NEW m \in S, m.role = "assistant" => m.ids = {}, CallsAreAnswered(p)
    PROVE  CallsAreAnswered(Append(p, m))
  <1>1. RepliedOr(p, {})
    BY AnsweredIs
  <1>2. RepliedOr(Append(p, m), {})
    BY <1>1, PlainReplied
  <1> QED BY <1>2, AnsweredIs

\* A record that only goes on.
LEMMA FreshGood ==
    ASSUME SubSteps \in Nat
    PROVE  SubGood(Fresh) /\ SubGood(Over) /\ SubGood([Fresh EXCEPT !.pc = "create"])
           /\ SubGood([Over EXCEPT !.pc = "died"]) /\ Fresh.pc = "new" /\ Over.pc = "over"
           /\ [Fresh EXCEPT !.pc = "create"].pc = "create" /\ [Over EXCEPT !.pc = "died"].pc = "died"
  <1>1. \A c \in {"new", "over", "create", "died"} : SubGood([Fresh EXCEPT !.pc = c]) /\ [Fresh EXCEPT !.pc = c].pc = c
    <2> SUFFICES ASSUME NEW c \in {"new", "over", "create", "died"}
                 PROVE  SubGood([Fresh EXCEPT !.pc = c]) /\ [Fresh EXCEPT !.pc = c].pc = c
      OBVIOUS
    <2> DEFINE b == [Fresh EXCEPT !.pc = c]
    <2>a. 0 \in 0 .. SubSteps /\ <<>> \in Seq(SubWire) /\ <<>> \in Seq(Nat) /\ c \in SubPCs /\ "new" \in SubPCs
      BY EmptySeq DEF SubPCs
    <2>b. /\ Fresh \in SubRecords /\ Fresh.history = <<>> /\ Fresh.compacted = 0 /\ Fresh.summary = <<>>
          /\ Fresh.added = FALSE /\ Fresh.asks = "task"
      BY <2>a DEF SubRecords, Fresh
    <2>1. /\ b.pc = c /\ b.history = <<>> /\ b.compacted = 0 /\ b.summary = <<>> /\ b.added = FALSE /\ b.asks = "task"
          /\ b \in SubRecords
      BY <2>a, <2>b DEF SubRecords
    <2> HIDE DEF b
    <2>2. SubHistory(b)
      BY <2>1, EmptySeq DEF SubHistory, CallsAreAnswered
    <2>3. [i \in 1 .. 0 |-> i] = <<>>
      OBVIOUS
    <2>4. SubSummary(b)
      BY <2>1, <2>3, EmptySeq DEF SubSummary
    <2> QED BY <2>1, <2>2, <2>4 DEF SubGood, b
  <1>2. Fresh = [Fresh EXCEPT !.pc = "new"]
    BY DEF Fresh
  <1>3. [Over EXCEPT !.pc = "died"] = [Fresh EXCEPT !.pc = "died"]
    BY DEF Over, Fresh
  <1> QED BY <1>1, <1>2, <1>3 DEF Over

LEMMA GoesOn ==
    ASSUME NEW a, SubGood(a), a.pc # "act", NEW c \in {"loop", "think", "announce"}, NEW s \in 0 .. SubSteps
    PROVE  SubGood([a EXCEPT !.pc = c, !.step = s]) /\ [a EXCEPT !.pc = c, !.step = s].pc = c
  <1> DEFINE b == [a EXCEPT !.pc = c, !.step = s]
  <1>1. a \in SubRecords /\ SubHistory(a) /\ SubSummary(a)
    BY DEF SubGood
  <1>2. /\ b \in SubRecords /\ b.pc = c /\ b.history = a.history /\ b.compacted = a.compacted /\ b.summary = a.summary
        /\ b.added = a.added /\ b.asks = a.asks
    BY <1>1 DEF SubRecords, SubPCs
  <1> HIDE DEF b
  <1>3. SubGood(b)
    BY <1>1, <1>2 DEF SubGood, SubHistory, SubSummary
  <1> QED BY <1>2, <1>3 DEF b

\* The task, then the calls or nothing.
LEMMA WithTaskIs ==
    ASSUME NEW a, SubGood(a), a.pc # "act"
    PROVE  /\ WithTask(a) \in Seq(SubWire) /\ Holds(WithTask(a), User(1)) /\ CallsAreAnswered(WithTask(a))
           /\ a.compacted <= Len(WithTask(a)) /\ a.compacted \in Nat
  <1>1. /\ a.history \in Seq(SubWire) /\ CallsAreAnswered(a.history) /\ (a.added => Holds(a.history, User(1)))
        /\ a.compacted <= Len(a.history) /\ a.compacted \in Nat /\ a.added \in BOOLEAN
    BY DEF SubGood, SubHistory, SubSummary, SubRecords
  <1>2. CASE a.added
    BY <1>1, <1>2 DEF WithTask
  <1>3. CASE ~a.added
    <2>1. WithTask(a) = Append(a.history, User(1))
      BY <1>3 DEF WithTask
    <2>2. Append(a.history, User(1)) \in Seq(SubWire) /\ Len(Append(a.history, User(1))) = Len(a.history) + 1 /\ Len(a.history) \in Nat
      BY <1>1, SubWireTypes, Appended
    <2>3. Holds(Append(a.history, User(1)), User(1))
      BY <1>1, SubWireTypes, HoldsMore
    <2>4. CallsAreAnswered(Append(a.history, User(1)))
      BY <1>1, SubWireTypes, PlainAnswered
    <2> QED BY <1>1, <2>1, <2>2, <2>3, <2>4
  <1> QED BY <1>2, <1>3

\* Calls that nothing has answered yet.
LEMMA CallsPartly ==
    ASSUME NEW h \in Seq(SubWire), CallsAreAnswered(h), NEW s \in Nat, NEW n \in Nat
    PROVE  PartlyAnswered(Append(h, ToolCalls(SubCalls(s, n), 1)), s, n)
  <1> DEFINE m == ToolCalls(SubCalls(s, n), 1)
             g == Append(h, m)
  <1>1. m \in SubWire
    BY SubWireTypes
  <1> HIDE DEF m
  <1>2. /\ Len(h) \in Nat /\ Len(g) = Len(h) + 1 /\ g[Len(h) + 1] = m /\ \A i \in 1 .. Len(h) : g[i] = h[i]
    BY <1>1, Appended
  <1>3. ASSUME NEW k \in 1 .. Len(h), g[k].role = "assistant", NEW id \in g[k].ids PROVE Replied(g, k, id)
    <2>1. g[k] = h[k] /\ k \in Nat
      BY <1>2
    <2>2. Replied(h, k, id)
      BY <1>3, <2>1 DEF CallsAreAnswered, Replied
    <2> QED BY <1>1, <2>1, <2>2, RepliedMore
  <1> HIDE DEF g
  <1>4. /\ Len(h) + 1 \in 1 .. Len(g) /\ n \in 0 .. n /\ Len(g) = Len(h) + 1 + n - n
        /\ \A i \in 1 .. n - n : g[Len(h) + 1 + i] = ToolResult(<<s, i>>, 1)
        /\ g[Len(h) + 1] = ToolCalls(SubCalls(s, n), 1)
    BY <1>2 DEF m
  <1>5. \A k \in 1 .. Len(h) + 1 - 1 : g[k].role = "assistant" => \A id \in g[k].ids : Replied(g, k, id)
    BY <1>2, <1>3
  <1>6. PartlyAnswered(g, s, n)
    BY <1>4, <1>5 DEF PartlyAnswered
  <1> QED BY <1>6 DEF g, m

LEMMA ThinkGood ==
    ASSUME NEW a, SubGood(a), a.pc = "think", SubSteps \in Nat
    PROVE  /\ \A n \in Nat \ {0} :
                 LET b == [a EXCEPT !.pc = "act", !.added = TRUE, !.todo = n,
                          !.history = Append(WithTask(a), ToolCalls({<<a.step, i>> : i \in 1 .. n}, 1))]
                 IN  SubGood(b) /\ b.pc = "act"
           /\ \A c \in {"recover", "answer"} :
                 LET b == [a EXCEPT !.pc = c, !.added = TRUE, !.history = WithTask(a)]
                 IN  SubGood(b) /\ b.pc = c
  <1> DEFINE w == WithTask(a)
  <1>1. a \in SubRecords /\ SubHistory(a) /\ SubSummary(a)
    BY DEF SubGood
  <1>2. w \in Seq(SubWire) /\ Holds(w, User(1)) /\ CallsAreAnswered(w) /\ a.compacted <= Len(w) /\ a.compacted \in Nat
    BY WithTaskIs
  <1> HIDE DEF w
  <1>3. ASSUME NEW n \in Nat \ {0}
        PROVE  LET b == [a EXCEPT !.pc = "act", !.added = TRUE, !.todo = n, !.history = Append(w, ToolCalls(SubCalls(a.step, n), 1))]
               IN  SubGood(b) /\ b.pc = "act"
    <2> DEFINE g == Append(w, ToolCalls(SubCalls(a.step, n), 1))
               b == [a EXCEPT !.pc = "act", !.added = TRUE, !.todo = n, !.history = g]
    <2>1. a.step \in Nat
      BY <1>1 DEF SubRecords
    <2>2. ToolCalls(SubCalls(a.step, n), 1) \in SubWire
      BY <2>1, SubWireTypes
    <2>3. g \in Seq(SubWire) /\ Len(g) = Len(w) + 1 /\ Len(w) \in Nat /\ Holds(g, User(1))
      BY <1>2, <2>2, Appended, HoldsMore
    <2>4. PartlyAnswered(g, a.step, n)
      BY <1>2, <2>1, CallsPartly
    <2> HIDE DEF g
    <2>5. /\ b \in SubRecords /\ b.pc = "act" /\ b.added = TRUE /\ b.todo = n /\ b.history = g /\ b.step = a.step
          /\ b.compacted = a.compacted /\ b.summary = a.summary
      BY <1>1, <2>3 DEF SubRecords, SubPCs
    <2> HIDE DEF b
    <2>6. SubGood(b)
      BY <1>1, <1>2, <2>3, <2>4, <2>5 DEF SubGood, SubHistory, SubSummary
    <2> QED BY <2>5, <2>6 DEF b, g
  <1>4. ASSUME NEW c \in {"recover", "answer"}
        PROVE  LET b == [a EXCEPT !.pc = c, !.added = TRUE, !.history = w] IN SubGood(b) /\ b.pc = c
    <2> DEFINE b == [a EXCEPT !.pc = c, !.added = TRUE, !.history = w]
    <2>5. /\ b \in SubRecords /\ b.pc = c /\ b.added = TRUE /\ b.history = w
          /\ b.compacted = a.compacted /\ b.summary = a.summary
      BY <1>1, <1>2 DEF SubRecords, SubPCs
    <2> HIDE DEF b
    <2>6. SubGood(b)
      BY <1>1, <1>2, <2>5 DEF SubGood, SubHistory, SubSummary
    <2> QED BY <2>5, <2>6 DEF b
  <1> QED BY <1>3, <1>4 DEF w, SubCalls

\* A summary is added to the one before.
LEMMA CompactGood ==
    ASSUME NEW a, SubGood(a), SubKeep \in Nat, NEW b \in MayCompactTo(a)
    PROVE  /\ b \in SubRecords /\ SubSummary(b) /\ b.pc = a.pc /\ b.history = a.history /\ b.added = a.added
           /\ b.step = a.step /\ b.asks = a.asks /\ b.todo = a.todo
  <1> DEFINE until == Len(a.history) - SubKeep
  <1>1. a \in SubRecords /\ SubSummary(a) /\ a.compacted \in Nat /\ Len(a.history) \in Nat
    BY LenProperties DEF SubGood, SubRecords
  <1>2. CASE b = a
    BY <1>1, <1>2
  <1>3. CASE b # a
    <2>1. b = Compacted(a) /\ ~(until <= a.compacted)
      BY <1>3 DEF MayCompactTo, Compacted
    <2>2. until \in Nat /\ until > a.compacted /\ until <= Len(a.history)
      BY <1>1, <2>1
    <2>3. b = [a EXCEPT !.compacted = until, !.summary = @ \o [i \in 1 .. until - a.compacted |-> a.compacted + i]]
      BY <2>1 DEF Compacted
    <2> HIDE DEF until
    <2> DEFINE old == [i \in 1 .. a.compacted |-> i]
               more == [i \in 1 .. until - a.compacted |-> a.compacted + i]
               all == [i \in 1 .. until |-> i]
    <2>4. old \in Seq(Nat) /\ Len(old) = a.compacted
      BY <1>1
    <2>5. more \in Seq(Nat) /\ Len(more) = until - a.compacted
      <3>1. \A d, c \in Nat : [i \in 1 .. d |-> c + i] \in Seq(Nat) /\ Len([i \in 1 .. d |-> c + i]) = d
        OBVIOUS
      <3>2. until - a.compacted \in Nat
        BY <1>1, <2>2
      <3> QED BY <1>1, <3>1, <3>2
    <2>6. all \in Seq(Nat) /\ Len(all) = until
      BY <2>2
    <2>7. old \o more = all
      <3>1. /\ old \o more \in Seq(Nat) /\ Len(old \o more) = Len(old) + Len(more)
            /\ \A i \in 1 .. Len(old) + Len(more) : (old \o more)[i] = IF i <= Len(old) THEN old[i] ELSE more[i - Len(old)]
        <4> HIDE DEF old, more
        <4> QED BY <2>4, <2>5, ConcatProperties
      <3>2. ASSUME NEW i \in 1 .. until PROVE (old \o more)[i] = i
        <4>1. i \in 1 .. Len(old) + Len(more)
          BY <1>1, <2>2, <2>4, <2>5
        <4>2. (old \o more)[i] = IF i <= a.compacted THEN old[i] ELSE more[i - a.compacted]
          BY <3>1, <4>1, <2>4
        <4>3. i <= a.compacted => old[i] = i
          BY <1>1
        <4>4. ~(i <= a.compacted) => more[i - a.compacted] = i
          BY <1>1, <2>2
        <4> QED BY <4>2, <4>3, <4>4
      <3>3. Len(old \o more) = until
        BY <1>1, <2>2, <2>4, <2>5, <3>1
      <3>4. \A i \in 1 .. until : all[i] = i
        OBVIOUS
      <3> HIDE DEF old, more, all
      <3> QED BY <2>6, <3>1, <3>2, <3>3, <3>4, SeqEqual
    <2>8. b = [a EXCEPT !.compacted = until, !.summary = all]
      BY <1>1, <2>3, <2>7 DEF SubSummary
    <2>9. /\ b \in SubRecords /\ b.compacted = until /\ b.summary = all /\ b.history = a.history /\ b.added = a.added
          /\ b.step = a.step /\ b.asks = a.asks /\ b.todo = a.todo /\ b.pc = a.pc
      <3> HIDE DEF all
      <3> QED BY <1>1, <2>2, <2>6, <2>8 DEF SubRecords
    <2> QED BY <2>2, <2>9 DEF SubSummary
  <1> QED BY <1>2, <1>3

LEMMA PairsMade ==
    ASSUME NEW s \in Nat, NEW n \in Nat
    PROVE  Cardinality(SubCalls(s, n)) = n
  <1> DEFINE f == [i \in 1 .. n |-> <<s, i>>]
  <1>1. f \in Bijection(1 .. n, SubCalls(s, n))
    <2>1. f \in [1 .. n -> SubCalls(s, n)]
      BY DEF SubCalls
    <2>2. \A i, k \in 1 .. n : f[i] = f[k] => i = k
      OBVIOUS
    <2>3. \A x \in SubCalls(s, n) : \E i \in 1 .. n : f[i] = x
      BY DEF SubCalls
    <2> HIDE DEF f
    <2> QED BY <2>1, <2>2, <2>3 DEF Bijection, Injection, IsInjective, Surjection
  <1>2. IsFiniteSet(1 .. n) /\ Cardinality(1 .. n) = n
    BY FS_Interval
  <1>3. ExistsBijection(1 .. n, SubCalls(s, n))
    BY <1>1 DEF ExistsBijection
  <1> QED BY <1>2, <1>3, FS_Bijection

LEMMA ToolGood ==
    ASSUME NEW a, SubGood(a), a.pc = "act", a.todo > 0
    PROVE  LET made == a.history[CallerOf(a.history, Len(a.history) + 1)].ids
               id == <<a.step, Cardinality(made) - a.todo + 1>>
               b == [a EXCEPT !.todo = @ - 1, !.history = Append(@, ToolResult(id, 1))]
           IN  SubGood(b) /\ b.pc = "act"
  <1> DEFINE h == a.history
             s == a.step
             unanswered == a.todo
             made == h[CallerOf(h, Len(h) + 1)].ids
             id == <<s, Cardinality(made) - unanswered + 1>>
             g == Append(h, ToolResult(id, 1))
             b == [a EXCEPT !.todo = @ - 1, !.history = Append(@, ToolResult(id, 1))]
  <1>1. a \in SubRecords /\ SubHistory(a) /\ SubSummary(a)
    BY DEF SubGood
  <1>2. h \in Seq(SubWire) /\ s \in Nat /\ unanswered \in Nat /\ unanswered > 0 /\ Len(h) \in Nat /\ Holds(h, User(1)) /\ a.compacted <= Len(h)
        /\ a.compacted \in Nat /\ a.added
    BY <1>1, LenProperties DEF SubRecords, SubHistory, SubSummary
  <1>3. PICK j \in 1 .. Len(h), n \in Nat :
        /\ h[j] = ToolCalls(SubCalls(s, n), 1)
        /\ unanswered \in 0 .. n /\ Len(h) = j + n - unanswered
        /\ \A i \in 1 .. n - unanswered : h[j + i] = ToolResult(<<s, i>>, 1)
        /\ \A k \in 1 .. j - 1 : h[k].role = "assistant" => \A x \in h[k].ids : Replied(h, k, x)
    BY <1>1 DEF SubHistory, PartlyAnswered
  <1> HIDE DEF h, s, unanswered
  <1>4. CallsAt(h, j, Len(h) + 1)
    <2>1. h[j].role = "assistant" /\ j \in 1 .. Len(h) + 1 - 1
      BY <1>2, <1>3 DEF ToolCalls
    <2>2. ASSUME NEW k \in j + 1 .. Len(h) + 1 - 1 PROVE h[k].role # "assistant"
      <3>1. k - j \in 1 .. n - unanswered /\ j + (k - j) = k
        BY <1>2, <1>3
      <3>2. h[k] = ToolResult(<<s, k - j>>, 1)
        BY <1>3, <3>1
      <3> QED BY <3>2 DEF ToolResult
    <2> QED BY <2>1, <2>2 DEF CallsAt
  <1>5. made = SubCalls(s, n)
    <2>1. CallerOf(h, Len(h) + 1) = j
      BY <1>2, <1>4, CallerIs
    <2> QED BY <2>1, <1>3 DEF ToolCalls
  <1>6. id = <<s, n - unanswered + 1>> /\ n - unanswered + 1 \in Nat
    BY <1>2, <1>3, <1>5, PairsMade
  <1> HIDE DEF made, id
  <1>7. ToolResult(id, 1) \in SubWire
    BY <1>2, <1>6, SubWireTypes DEF Pairs
  <1>8. /\ g \in Seq(SubWire) /\ Len(g) = Len(h) + 1 /\ g[Len(h) + 1] = ToolResult(id, 1)
        /\ \A i \in 1 .. Len(h) : g[i] = h[i]
    BY <1>2, <1>7, Appended
  <1>9. Holds(g, User(1))
    BY <1>2, <1>7, HoldsMore
  <1>10. ASSUME NEW k \in 1 .. j - 1, g[k].role = "assistant", NEW x \in g[k].ids PROVE Replied(g, k, x)
    <2>1. g[k] = h[k] /\ k \in Nat
      BY <1>2, <1>3, <1>8
    <2>2. Replied(h, k, x)
      BY <1>3, <1>10, <2>1
    <2> QED BY <1>2, <1>7, <2>1, <2>2, RepliedMore
  <1> HIDE DEF g
  <1>11. ASSUME NEW i \in 1 .. n - (unanswered - 1) PROVE g[j + i] = ToolResult(<<s, i>>, 1)
    <2>1. CASE i \in 1 .. n - unanswered
      <3>1. j + i \in 1 .. Len(h)
        BY <1>2, <1>3, <2>1
      <3> QED BY <1>3, <1>8, <2>1, <3>1
    <2>2. CASE i = n - unanswered + 1
      <3>1. j + i = Len(h) + 1
        BY <1>2, <1>3, <2>2
      <3> QED BY <1>6, <1>8, <2>2, <3>1
    <2> QED BY <1>2, <1>3, <2>1, <2>2
  <1>12. PartlyAnswered(g, s, unanswered - 1)
    <2>1. /\ j \in 1 .. Len(g) /\ g[j] = ToolCalls(SubCalls(s, n), 1)
          /\ unanswered - 1 \in 0 .. n /\ Len(g) = j + n - (unanswered - 1)
      BY <1>2, <1>3, <1>8
    <2> QED BY <2>1, <1>10, <1>11 DEF PartlyAnswered
  <1>13. b = [a EXCEPT !.todo = unanswered - 1, !.history = g]
    BY DEF g, h, unanswered
  <1>14. /\ b \in SubRecords /\ b.pc = "act" /\ b.added = a.added /\ b.todo = unanswered - 1 /\ b.history = g /\ b.step = s
         /\ b.compacted = a.compacted /\ b.summary = a.summary
    <2> HIDE DEF b
    <2>1. unanswered - 1 \in Nat
      BY <1>2
    <2> DEFINE less == unanswered - 1
    <2>2. less \in Nat /\ b = [a EXCEPT !.todo = less, !.history = g]
      BY <2>1, <1>13
    <2> HIDE DEF less
    <2>3. b \in SubRecords /\ b.pc = "act" /\ b.added = a.added /\ b.todo = less /\ b.history = g /\ b.step = a.step
          /\ b.compacted = a.compacted /\ b.summary = a.summary
      BY <1>1, <1>8, <2>2 DEF SubRecords
    <2> QED BY <2>3 DEF s, less
  <1> HIDE DEF b
  <1>15. SubGood(b)
    BY <1>1, <1>2, <1>8, <1>9, <1>12, <1>14 DEF SubGood, SubHistory, SubSummary
  <1> QED BY <1>14, <1>15 DEF b, g, id, made, h, s, unanswered

\* All results are there.
LEMMA AllAnswered ==
    ASSUME NEW h \in Seq(SubWire), NEW s \in Nat, PartlyAnswered(h, s, 0)
    PROVE  CallsAreAnswered(h)
  <1>1. PICK j \in 1 .. Len(h), n \in Nat :
        /\ h[j] = ToolCalls(SubCalls(s, n), 1)
        /\ 0 \in 0 .. n /\ Len(h) = j + n - 0
        /\ \A i \in 1 .. n - 0 : h[j + i] = ToolResult(<<s, i>>, 1)
        /\ \A k \in 1 .. j - 1 : h[k].role = "assistant" => \A x \in h[k].ids : Replied(h, k, x)
    BY DEF PartlyAnswered
  <1>2. Len(h) \in Nat /\ Len(h) = j + n
    BY <1>1, LenProperties
  <1>r. \A y : ToolResult(y, 1).role = "tool" /\ ToolResult(y, 1).ids = {y}
    BY DEF ToolResult
  <1>3. ASSUME NEW k \in 1 .. Len(h), h[k].role = "assistant", NEW x \in h[k].ids PROVE Replied(h, k, x)
    <2>a. \A i \in j + 1 .. Len(h) : h[i] = ToolResult(<<s, i - j>>, 1)
      <3> SUFFICES ASSUME NEW i \in j + 1 .. Len(h) PROVE h[i] = ToolResult(<<s, i - j>>, 1)
        OBVIOUS
      <3>1. i - j \in 1 .. n - 0 /\ j + (i - j) = i
        BY <1>1, <1>2
      <3> QED BY <1>1, <3>1
    <2>1. CASE k \in 1 .. j - 1
      BY <1>1, <1>3, <2>1
    <2>2. CASE k = j
      <3>1. PICK i \in 1 .. n : x = <<s, i>>
        BY <1>1, <1>3, <2>2 DEF ToolCalls, SubCalls
      <3>2. j + i \in j + 1 .. Len(h) /\ h[j + i] = ToolResult(<<s, i>>, 1)
        BY <1>1, <1>2, <3>1
      <3>3. \A l \in j + 1 .. j + i : l \in j + 1 .. Len(h)
        BY <1>2, <3>2
      <3>4. \A l \in j + 1 .. Len(h) : h[l].role = "tool"
        BY <2>a, <1>r
      <3>5. h[j + i].role = "tool" /\ h[j + i].ids = {x}
        BY <3>1, <3>2 DEF ToolResult
      <3> QED BY <2>2, <3>2, <3>3, <3>4, <3>5 DEF Replied
    <2>3. CASE k \in j + 1 .. Len(h)
      <3>1. h[k].role = "tool"
        BY <2>a, <2>3, <1>r
      <3> QED BY <3>1, <1>3
    <2> QED BY <1>2, <2>1, <2>2, <2>3
  <1> QED BY <1>3 DEF CallsAreAnswered, Replied

LEMMA NextGood ==
    ASSUME NEW a, SubGood(a), a.pc = "act", a.todo = 0, SubKeep \in Nat, NEW c \in MayCompactTo(a)
    PROVE  LET b == [c EXCEPT !.pc = "loop", !.asks = "next"] IN SubGood(b) /\ b.pc = "loop"
  <1> DEFINE b == [c EXCEPT !.pc = "loop", !.asks = "next"]
  <1>1. /\ c \in SubRecords /\ SubSummary(c) /\ c.history = a.history /\ c.added = a.added
    BY CompactGood
  <1>2. a.history \in Seq(SubWire) /\ PartlyAnswered(a.history, a.step, 0) /\ a.step \in Nat /\ a.added /\ Holds(a.history, User(1))
    BY DEF SubGood, SubHistory, SubRecords
  <1>3. CallsAreAnswered(a.history)
    BY <1>2, AllAnswered
  <1>4. /\ b \in SubRecords /\ b.pc = "loop" /\ b.asks = "next" /\ b.added = c.added /\ b.history = c.history
        /\ b.compacted = c.compacted /\ b.summary = c.summary
    BY <1>1 DEF SubRecords, SubPCs
  <1> HIDE DEF b
  <1>5. SubGood(b)
    BY <1>1, <1>2, <1>3, <1>4 DEF SubGood, SubHistory, SubSummary
  <1> QED BY <1>4, <1>5 DEF b

LEMMA RecoverGood ==
    ASSUME NEW a, SubGood(a), a.pc = "recover", SubKeep \in Nat, NEW c \in MayCompactTo(a)
    PROVE  LET b == [c EXCEPT !.pc = "loop", !.recovered = TRUE] IN SubGood(b) /\ b.pc = "loop"
  <1> DEFINE b == [c EXCEPT !.pc = "loop", !.recovered = TRUE]
  <1>1. /\ c \in SubRecords /\ SubSummary(c) /\ c.history = a.history /\ c.added = a.added /\ c.asks = a.asks
    BY CompactGood
  <1>2. CallsAreAnswered(a.history) /\ a.added /\ Holds(a.history, User(1))
    BY DEF SubGood, SubHistory
  <1>4. /\ b \in SubRecords /\ b.pc = "loop" /\ b.asks = c.asks /\ b.added = c.added /\ b.history = c.history
        /\ b.compacted = c.compacted /\ b.summary = c.summary
    BY <1>1 DEF SubRecords, SubPCs
  <1> HIDE DEF b
  <1>5. SubGood(b)
    BY <1>1, <1>2, <1>4 DEF SubGood, SubHistory, SubSummary
  <1> QED BY <1>4, <1>5 DEF b

LEMMA AnswerGood ==
    ASSUME NEW a, SubGood(a), a.pc = "answer"
    PROVE  LET b == [a EXCEPT !.pc = "announce", !.history = Append(@, Assistant(1))] IN SubGood(b) /\ b.pc = "announce"
  <1> DEFINE g == Append(a.history, Assistant(1))
             b == [a EXCEPT !.pc = "announce", !.history = g]
  <1>1. /\ a \in SubRecords /\ a.history \in Seq(SubWire) /\ CallsAreAnswered(a.history) /\ a.added /\ Holds(a.history, User(1))
        /\ SubSummary(a) /\ a.compacted \in Nat
    BY DEF SubGood, SubHistory, SubRecords
  <1>2. /\ g \in Seq(SubWire) /\ Len(g) = Len(a.history) + 1 /\ Len(a.history) \in Nat /\ Holds(g, User(1))
    BY <1>1, SubWireTypes, Appended, HoldsMore
  <1>3. CallsAreAnswered(g)
    BY <1>1, SubWireTypes, PlainAnswered
  <1> HIDE DEF g
  <1>4. /\ b \in SubRecords /\ b.pc = "announce" /\ b.added = a.added /\ b.history = g
        /\ b.compacted = a.compacted /\ b.summary = a.summary
    BY <1>1, <1>2 DEF SubRecords, SubPCs
  <1> HIDE DEF b
  <1>5. SubGood(b)
    BY <1>1, <1>2, <1>3, <1>4 DEF SubGood, SubHistory, SubSummary
  <1> QED BY <1>4, <1>5 DEF b, g

-----------------------------------------------------------------------------
\* What is left of a history behind a compaction, and the summary before it.
LEMMA SuffixAnswered ==
    ASSUME NEW S, NEW h \in Seq(S), NEW n \in 0 .. Len(h), CallsAreAnswered(h)
    PROVE  LET t == SubSeq(h, n + 1, Len(h)) IN t \in Seq(S) /\ CallsAreAnswered(t)
  <1> DEFINE t == SubSeq(h, n + 1, Len(h))
  <1>1. Len(h) \in Nat /\ n \in Nat
    BY LenProperties
  <1>2. /\ t \in Seq(S) /\ Len(t) = IF n + 1 <= Len(h) THEN Len(h) - (n + 1) + 1 ELSE 0
        /\ \A i \in 1 .. Len(h) - (n + 1) + 1 : t[i] = h[n + 1 + i - 1]
    <2>1. \A i \in n + 1 .. Len(h) : h[i] \in S
      BY <1>1, ElementOfSeq
    <2> QED BY <1>1, <2>1, SubSeqProperties
  <1> HIDE DEF t
  <1>3. Len(t) = Len(h) - n
    <2>1. n <= Len(h) /\ Len(t) = IF n + 1 <= Len(h) THEN Len(h) - (n + 1) + 1 ELSE 0
      BY <1>1, <1>2
    <2> QED BY <1>1, <2>1
  <1>4. ASSUME NEW i \in 1 .. Len(t) PROVE t[i] = h[n + i] /\ n + i \in 1 .. Len(h)
    <2>1. i \in 1 .. Len(h) - (n + 1) + 1 /\ n + 1 + i - 1 = n + i
      BY <1>1, <1>3
    <2>2. t[i] = h[n + 1 + i - 1]
      BY <1>2, <2>1
    <2> QED BY <1>1, <1>3, <2>1, <2>2
  <1>5. ASSUME NEW j \in 1 .. Len(t), t[j].role = "assistant", NEW id \in t[j].ids PROVE Replied(t, j, id)
    <2>1. PICK i \in n + j + 1 .. Len(h) :
            h[i].role = "tool" /\ h[i].ids = {id} /\ \A k \in n + j + 1 .. i : h[k].role = "tool"
      <3>1. n + j \in 1 .. Len(h) /\ h[n + j].role = "assistant" /\ id \in h[n + j].ids
        BY <1>4, <1>5
      <3> QED BY <3>1 DEF CallsAreAnswered
    <2>2. i - n \in j + 1 .. Len(t) /\ n + (i - n) = i
      BY <1>1, <1>3, <2>1
    <2>3. t[i - n] = h[i]
      BY <1>4, <2>2
    <2>4. ASSUME NEW k \in j + 1 .. i - n PROVE t[k].role = "tool"
      <3>1. k \in 1 .. Len(t) /\ n + k \in n + j + 1 .. i
        BY <1>1, <1>3, <2>1, <2>2
      <3> QED BY <1>4, <2>1, <3>1
    <2> QED BY <2>1, <2>2, <2>3, <2>4 DEF Replied
  <1>6. CallsAreAnswered(t)
    BY <1>5 DEF CallsAreAnswered, Replied
  <1> QED BY <1>2, <1>6 DEF t

LEMMA HeadAnswered ==
    ASSUME NEW S, NEW t \in Seq(S), NEW m \in S, m.ids = {}, CallsAreAnswered(t)
    PROVE  <<m>> \o t \in Seq(S) /\ CallsAreAnswered(<<m>> \o t)
  <1> DEFINE c == <<m>> \o t
  <1>1. /\ c \in Seq(S) /\ Len(c) = 1 + Len(t) /\ Len(t) \in Nat
        /\ \A i \in 1 .. 1 + Len(t) : c[i] = IF i <= 1 THEN <<m>>[i] ELSE t[i - 1]
    <2>1. <<m>> \in Seq(S) /\ Len(<<m>>) = 1
      OBVIOUS
    <2> QED BY <2>1, ConcatProperties, LenProperties
  <1>2. c[1] = m
    BY <1>1
  <1> HIDE DEF c
  <1>3. \A i \in 1 .. Len(t) : c[i + 1] = t[i]
    <2> SUFFICES ASSUME NEW i \in 1 .. Len(t) PROVE c[i + 1] = t[i]
      OBVIOUS
    <2>1. i + 1 \in 1 .. 1 + Len(t) /\ ~(i + 1 <= 1) /\ i + 1 - 1 = i
      BY <1>1
    <2>2. c[i + 1] = t[i + 1 - 1]
      BY <1>1, <2>1
    <2> QED BY <2>1, <2>2
  <1>4. ASSUME NEW j \in 1 .. Len(c), c[j].role = "assistant", NEW id \in c[j].ids PROVE Replied(c, j, id)
    <2>1. j # 1
      BY <1>2, <1>4
    <2>2. j - 1 \in 1 .. Len(t) /\ j - 1 + 1 = j
      BY <1>1, <2>1
    <2>3. c[j] = t[j - 1]
      BY <1>3, <2>2
    <2>4. PICK i \in j - 1 + 1 .. Len(t) :
            t[i].role = "tool" /\ t[i].ids = {id} /\ \A k \in j - 1 + 1 .. i : t[k].role = "tool"
      BY <1>4, <2>2, <2>3 DEF CallsAreAnswered
    <2>5. i \in 1 .. Len(t) /\ i + 1 \in j + 1 .. Len(c)
      BY <1>1, <2>2, <2>4
    <2>6. ASSUME NEW k \in j + 1 .. i + 1 PROVE c[k].role = "tool"
      <3>1. k - 1 \in j - 1 + 1 .. i /\ k - 1 \in 1 .. Len(t) /\ k - 1 + 1 = k
        BY <1>1, <2>2, <2>5
      <3>2. c[k] = t[k - 1]
        BY <1>3, <3>1
      <3> QED BY <2>4, <3>1, <3>2
    <2>7. c[i + 1] = t[i]
      BY <1>3, <2>5
    <2> QED BY <2>4, <2>5, <2>6, <2>7 DEF Replied
  <1>5. CallsAreAnswered(c)
    BY <1>4 DEF CallsAreAnswered, Replied
  <1> QED BY <1>1, <1>5 DEF c

\* What is not summarised is in what is sent.
LEMMA SubContextHolds ==
    ASSUME NEW a, a.history \in Seq(SubWire), a.compacted \in Nat, a.compacted <= Len(a.history),
           NEW i \in a.compacted + 1 .. Len(a.history)
    PROVE  Holds(SubContext(a), a.history[i])
  <1> DEFINE h == a.history
             n == a.compacted
             t == SubSeq(h, n + 1, Len(h))
  <1>1. Len(h) \in Nat /\ i \in 1 .. Len(h) /\ n \in Nat /\ n < Len(h)
    BY LenProperties
  <1>2. CASE n = 0
    <2>1. SubContext(a) = h
      BY <1>2 DEF SubContext
    <2> QED BY <1>1, <2>1 DEF Holds
  <1>3. CASE n > 0
    <2>1. SubContext(a) = <<Assistant(0)>> \o t
      BY <1>3 DEF SubContext
    <2>2. /\ t \in Seq(SubWire) /\ Len(t) = Len(h) - n
          /\ \A k \in 1 .. Len(h) - (n + 1) + 1 : t[k] = h[n + 1 + k - 1]
      <3>1. \A k \in n + 1 .. Len(h) : h[k] \in SubWire
        BY <1>1, ElementOfSeq
      <3> HIDE DEF h, n
      <3>2. /\ t \in Seq(SubWire) /\ Len(t) = IF n + 1 <= Len(h) THEN Len(h) - (n + 1) + 1 ELSE 0
            /\ \A k \in 1 .. Len(h) - (n + 1) + 1 : t[k] = h[n + 1 + k - 1]
        BY <1>1, <3>1, SubSeqProperties
      <3> QED BY <1>1, <3>2
    <2>3. i - n \in 1 .. Len(t) /\ t[i - n] = h[i]
      <3>1. i - n \in 1 .. Len(h) - (n + 1) + 1 /\ n + 1 + (i - n) - 1 = i
        BY <1>1
      <3> HIDE DEF h, n, t
      <3>2. t[i - n] = h[n + 1 + (i - n) - 1]
        BY <2>2, <3>1
      <3> QED BY <1>1, <2>2, <3>1, <3>2
    <2> HIDE DEF t, h, n
    <2>4. <<Assistant(0)>> \in Seq(SubWire) /\ Len(<<Assistant(0)>>) = 1
      BY SubWireTypes
    <2>5. /\ Len(<<Assistant(0)>> \o t) = 1 + Len(t) /\ Len(t) \in Nat
          /\ \A k \in 1 .. 1 + Len(t) : (<<Assistant(0)>> \o t)[k] = IF k <= 1 THEN <<Assistant(0)>>[k] ELSE t[k - 1]
      BY <2>2, <2>4, ConcatProperties, LenProperties
    <2>6. i - n + 1 \in 1 .. 1 + Len(t) /\ ~(i - n + 1 <= 1) /\ i - n + 1 - 1 = i - n
      BY <1>1, <2>3, <2>5
    <2>7. (<<Assistant(0)>> \o t)[i - n + 1] = h[i]
      BY <2>3, <2>5, <2>6
    <2>8. Holds(<<Assistant(0)>> \o t, h[i])
      BY <2>5, <2>6, <2>7 DEF Holds
    <2> QED BY <2>1, <2>8 DEF h
  <1> QED BY <1>1, <1>2, <1>3

\* What a task sends.
LEMMA SubAsks ==
    ASSUME NEW a, SubGood(a), a.pc = "think"
    PROVE  /\ ResultsAnswerCalls(SubPrompt(a)) /\ CallsAreAnswered(SubPrompt(a))
           /\ a.compacted > 0 \/ Holds(SubPrompt(a), User(1))
           /\ \A i \in a.compacted + 1 .. Len(a.history) :
                 a.history[i].role # "tool" => Holds(SubPrompt(a), a.history[i])
  <1> DEFINE c == SubContext(a)
             s == Sanitize(c)
             q == User(IF a.asks = "task" THEN 1 ELSE 0)
  <1>1. /\ a.history \in Seq(SubWire) /\ CallsAreAnswered(a.history) /\ a.compacted \in Nat /\ a.compacted <= Len(a.history)
        /\ Len(a.history) \in Nat /\ a.asks \in {"task", "next"}
        /\ a.asks = "next" => Holds(a.history, User(1))
    BY LenProperties DEF SubGood, SubHistory, SubSummary, SubRecords
  <1>2. c \in Seq(SubWire) /\ CallsAreAnswered(c) /\ (a.compacted > 0 \/ c = a.history)
    <2>1. CASE a.compacted > 0
      <3> DEFINE t == SubSeq(a.history, a.compacted + 1, Len(a.history))
      <3>1. a.compacted \in 0 .. Len(a.history)
        BY <1>1
      <3>2. t \in Seq(SubWire) /\ CallsAreAnswered(t)
        BY <1>1, <3>1, SuffixAnswered
      <3>3. c = <<Assistant(0)>> \o t
        BY <2>1 DEF SubContext
      <3> HIDE DEF t, c
      <3> QED BY <2>1, <3>2, <3>3, SubWireTypes, HeadAnswered
    <2>2. CASE ~(a.compacted > 0)
      BY <1>1, <2>2 DEF SubContext
    <2> QED BY <2>1, <2>2
  <1> HIDE DEF c
  <1>3. s \in Seq(SubWire) /\ Answering(s) /\ CallsAreAnswered(s)
    BY <1>2, SanitizeAnswers, SanitizeAnswered DEF SubWire
  <1>4. Holds(c, User(1)) => Holds(s, User(1))
    BY <1>2, SubWireTypes, SanitizeKeepsUsers DEF SubWire
  <1>11. ASSUME NEW i \in a.compacted + 1 .. Len(a.history), a.history[i].role # "tool" PROVE Holds(s, a.history[i])
    <2>1. Holds(c, a.history[i])
      BY <1>1, SubContextHolds DEF c
    <2> QED BY <1>2, <1>11, <2>1, SanitizeKeepsSaid DEF SubWire
  <1> HIDE DEF s
  <1>5. q \in SubWire /\ q.role = "user" /\ (a.asks = "task" => q = User(1))
    BY <1>1, SubWireTypes
  <1>6. SubPrompt(a) = s \o <<q>>
    BY DEF SubPrompt, s, c
  <1> HIDE DEF q
  <1>7. SubPrompt(a) = Append(s, q)
    BY <1>3, <1>5, <1>6, AppendIsConcat
  <1>8. Answering(Append(s, q)) /\ CallsAreAnswered(Append(s, q))
    BY <1>3, <1>5, PlainAnswering, PlainAnswered
  <1>9. ResultsAnswerCalls(Append(s, q))
    BY <1>3, <1>5, <1>8, AnsweringServes, Appended
  <1>10. a.compacted > 0 \/ Holds(Append(s, q), User(1))
    BY <1>1, <1>2, <1>3, <1>4, <1>5, HoldsMore
  <1>12. \A i \in a.compacted + 1 .. Len(a.history) : a.history[i].role # "tool" => Holds(Append(s, q), a.history[i])
    BY <1>3, <1>5, <1>11, HoldsMore
  <1> QED BY <1>7, <1>8, <1>9, <1>10, <1>12

-----------------------------------------------------------------------------
SubNotices == [task : SubTasks, ok : BOOLEAN, spent : BOOLEAN]
\* A notice for each task that has ended.
SubHeard == \A t \in SubTasks : IF sub[t].pc = "over" THEN \E i : Notices(t) = {i} ELSE Notices(t) = {}
SubListed == \A t \in SubTasks : /\ sub[t].pc = "new" => t \notin subTable
                                 /\ sub[t].pc \notin {"new", "over", "died"} => t \in subTable
SubInv ==
    /\ sub \in [SubTasks -> SubRecords] /\ \A t \in SubTasks : SubGood(sub[t])
    /\ subTable \subseteq SubTasks /\ SubListed
    /\ subInbox \in Seq(SubNotices) /\ SubHeard

LEMMA SubServes == SubInv => SubTaskSound
  <1> SUFFICES ASSUME SubInv PROVE SubTaskSound
    OBVIOUS
  <1>1. SubTypeOK
    <2> SUFFICES ASSUME NEW t \in SubTasks
                 PROVE  sub[t].step \in 0 .. SubSteps /\ sub[t].compacted \in 0 .. Len(sub[t].history)
      BY DEF SubTypeOK, SubInv, SubListed
    <2>1. sub[t] \in SubRecords /\ SubSummary(sub[t])
      BY DEF SubInv, SubGood
    <2>2. sub[t].step \in 0 .. SubSteps /\ sub[t].compacted \in Nat /\ sub[t].history \in Seq(SubWire) /\ sub[t].compacted <= Len(sub[t].history)
      BY <2>1 DEF SubRecords, SubSummary
    <2> QED BY <2>2, LenProperties
  <1>2. SubToldOnce
    <2> SUFFICES ASSUME NEW t \in SubTasks PROVE Cardinality(Notices(t)) = IF sub[t].pc = "over" THEN 1 ELSE 0
      BY DEF SubToldOnce
    <2> QED BY FS_Singleton, FS_EmptySet DEF SubInv, SubHeard
  <1>3. SubPromptPaired
    BY SubAsks DEF SubPromptPaired, SubInv
  <1>4. SubNothingForgotten
    BY SubAsks DEF SubNothingForgotten, SubInv, SubGood, SubSummary, Holds
  <1> QED BY <1>1, <1>2, <1>3, <1>4 DEF SubTaskSound

\* A task goes on.
LEMMA SubGoes ==
    ASSUME SubInv, NEW t \in SubTasks, NEW b, SubGood(b), sub' = [sub EXCEPT ![t] = b], subInbox' = subInbox,
           sub[t].pc # "over", b.pc \notin {"new", "over"},
           subTable' = subTable \cup {t} \/ (subTable' = subTable /\ sub[t].pc \notin {"new", "died"})
    PROVE  SubInv'
  <1>1. /\ sub \in [SubTasks -> SubRecords] /\ subTable \subseteq SubTasks /\ SubListed /\ subInbox \in Seq(SubNotices) /\ SubHeard
        /\ \A u \in SubTasks : SubGood(sub[u])
    BY DEF SubInv
  <1>2. b \in SubRecords
    BY DEF SubGood
  <1>3. sub' \in [SubTasks -> SubRecords] /\ sub'[t] = b /\ \A u \in SubTasks \ {t} : sub'[u] = sub[u]
    BY <1>1, <1>2
  <1>4. \A u \in SubTasks : SubGood(sub'[u])
    BY <1>1, <1>3
  <1>5. subTable' \subseteq SubTasks /\ SubListed'
    BY <1>1, <1>3 DEF SubListed
  <1>6. SubHeard'
    <2> SUFFICES ASSUME NEW u \in SubTasks
                 PROVE  IF sub'[u].pc = "over" THEN \E i : Notices(u)' = {i} ELSE Notices(u)' = {}
      BY DEF SubHeard
    <2>1. Notices(u)' = Notices(u)
      BY DEF Notices
    <2>2. sub'[u].pc = "over" <=> sub[u].pc = "over"
      BY <1>3
    <2>3. IF sub[u].pc = "over" THEN \E i : Notices(u) = {i} ELSE Notices(u) = {}
      BY <1>1 DEF SubHeard
    <2> QED BY <2>1, <2>2, <2>3
  <1> QED BY <1>1, <1>3, <1>4, <1>5, <1>6 DEF SubInv

\* A task ends with a notice.
LEMMA SubEnds ==
    ASSUME SubInv, NEW t \in SubTasks, SubSteps \in Nat, sub' = [sub EXCEPT ![t] = Over],
           NEW r \in SubNotices, r.task = t, subInbox' = Append(subInbox, r), subTable' = subTable, sub[t].pc # "over"
    PROVE  SubInv'
  <1>1. /\ sub \in [SubTasks -> SubRecords] /\ subTable \subseteq SubTasks /\ SubListed /\ subInbox \in Seq(SubNotices) /\ SubHeard
        /\ \A u \in SubTasks : SubGood(sub[u])
    BY DEF SubInv
  <1>2. SubGood(Over) /\ Over \in SubRecords /\ Over.pc = "over"
    BY FreshGood DEF SubGood
  <1>3. sub' \in [SubTasks -> SubRecords] /\ sub'[t] = Over /\ \A u \in SubTasks \ {t} : sub'[u] = sub[u]
    BY <1>1, <1>2
  <1>4. \A u \in SubTasks : SubGood(sub'[u])
    BY <1>1, <1>2, <1>3
  <1>5. SubListed'
    BY <1>1, <1>2, <1>3 DEF SubListed
  <1>6. /\ subInbox' \in Seq(SubNotices) /\ Len(subInbox') = Len(subInbox) + 1 /\ Len(subInbox) \in Nat
        /\ subInbox'[Len(subInbox) + 1] = r /\ \A i \in 1 .. Len(subInbox) : subInbox'[i] = subInbox[i]
    BY <1>1, Appended
  <1>7. \A u \in SubTasks \ {t} : Notices(u)' = Notices(u)
    BY <1>6 DEF Notices
  <1>8. Notices(t)' = Notices(t) \cup {Len(subInbox) + 1}
    BY <1>6 DEF Notices
  <1>9. SubHeard'
    <2> SUFFICES ASSUME NEW u \in SubTasks
                 PROVE  IF sub'[u].pc = "over" THEN \E i : Notices(u)' = {i} ELSE Notices(u)' = {}
      BY DEF SubHeard
    <2>1. CASE u = t
      <3>1. Notices(t) = {}
        BY <1>1 DEF SubHeard
      <3>2. Notices(t)' = {Len(subInbox) + 1}
        BY <1>8, <3>1
      <3> QED BY <1>2, <1>3, <2>1, <3>2
    <2>2. CASE u # t
      <3>1. Notices(u)' = Notices(u) /\ sub'[u] = sub[u]
        BY <1>3, <1>7, <2>2
      <3>2. IF sub[u].pc = "over" THEN \E i : Notices(u) = {i} ELSE Notices(u) = {}
        BY <1>1 DEF SubHeard
      <3> QED BY <3>1, <3>2
    <2> QED BY <2>1, <2>2
  <1> QED BY <1>1, <1>3, <1>4, <1>5, <1>6, <1>9 DEF SubInv

LEMMA SubStepKeeps ==
    ASSUME SubInv, [SubNext]_subVars
    PROVE  SubInv'
  <1>1. SubSteps \in Nat /\ SubKeep \in Nat /\ SubBatch \in Nat
    BY SubAssumption
  <1>2. CASE UNCHANGED subVars
    BY <1>2 DEF subVars, SubInv, SubListed, SubHeard, Notices
  <1>3. ASSUME NEW t \in SubTasks, StartTask(t) \/ SubStep(t) PROVE SubInv'
    <2>0. SubGood(sub[t]) /\ sub[t] \in SubRecords
      BY DEF SubInv
    <2>1. CASE StartTask(t)
      <3>1. /\ sub[t].pc = "new" /\ sub' = [sub EXCEPT ![t] = [Fresh EXCEPT !.pc = "create"]]
            /\ subTable' = subTable \cup {t} /\ subInbox' = subInbox
        BY <2>1 DEF StartTask, SubMove
      <3> QED BY <1>1, <3>1, FreshGood, SubGoes
    <2>2. CASE CreateModel(t)
      <3> DEFINE b1 == [sub[t] EXCEPT !.pc = "loop"]
                 b2 == [Over EXCEPT !.pc = "died"]
      <3>1. /\ sub[t].pc = "create" /\ subTable' = subTable /\ subInbox' = subInbox
            /\ \/ sub' = [sub EXCEPT ![t] = b1]
               \/ sub' = [sub EXCEPT ![t] = b2]
        BY <2>2 DEF CreateModel, SubMove
      <3>2. SubGood(b1) /\ b1.pc = "loop"
        <4>1. b1 = [sub[t] EXCEPT !.pc = "loop", !.step = sub[t].step] /\ sub[t].step \in 0 .. SubSteps
          BY <2>0 DEF SubRecords
        <4>2. sub[t].pc # "act"
          BY <3>1
        <4>3. SubGood([sub[t] EXCEPT !.pc = "loop", !.step = sub[t].step]) /\ [sub[t] EXCEPT !.pc = "loop", !.step = sub[t].step].pc = "loop"
          BY <2>0, <4>1, <4>2, GoesOn
        <4> QED BY <4>1, <4>3
      <3>3. SubGood(b2) /\ b2.pc = "died"
        BY <1>1, FreshGood
      <3> HIDE DEF b1, b2
      <3>4. CASE sub' = [sub EXCEPT ![t] = b1]
        BY <3>1, <3>2, <3>4, SubGoes
      <3>5. CASE sub' = [sub EXCEPT ![t] = b2]
        BY <3>1, <3>3, <3>5, SubGoes
      <3> QED BY <3>1, <3>4, <3>5
    <2>3. CASE SubLoop(t)
      <3>0. sub[t].step \in 0 .. SubSteps
        BY <2>0 DEF SubRecords
      <3>1. /\ sub[t].pc = "loop" /\ subTable' = subTable /\ subInbox' = subInbox
        BY <2>3 DEF SubLoop, SubMove
      <3>2. PICK c \in {"think", "announce"}, s \in 0 .. SubSteps : sub' = [sub EXCEPT ![t] = [sub[t] EXCEPT !.pc = c, !.step = s]]
        <4>1. CASE sub[t].step < SubSteps
          <5>1. sub[t].step + 1 \in 0 .. SubSteps
            BY <1>1, <3>0, <4>1
          <5>2. sub' = [sub EXCEPT ![t] = [sub[t] EXCEPT !.pc = "think", !.step = sub[t].step + 1]]
            BY <2>3, <4>1 DEF SubLoop, SubMove
          <5> QED BY <5>1, <5>2
        <4>2. CASE ~(sub[t].step < SubSteps)
          <5>1. sub' = [sub EXCEPT ![t] = [sub[t] EXCEPT !.pc = "announce"]]
            BY <2>3, <4>2 DEF SubLoop, SubMove
          <5>2. [sub[t] EXCEPT !.pc = "announce"] = [sub[t] EXCEPT !.pc = "announce", !.step = sub[t].step]
            BY <2>0 DEF SubRecords
          <5> QED BY <3>0, <5>1, <5>2
        <4> QED BY <4>1, <4>2
      <3> DEFINE b == [sub[t] EXCEPT !.pc = c, !.step = s]
      <3>3. SubGood(b) /\ b.pc = c
        <4>1. sub[t].pc # "act"
          BY <3>1
        <4>2. c \in {"loop", "think", "announce"} /\ s \in 0 .. SubSteps
          OBVIOUS
        <4>3. SubGood([sub[t] EXCEPT !.pc = c, !.step = s]) /\ [sub[t] EXCEPT !.pc = c, !.step = s].pc = c
          <5>1. CASE c = "think"
            <6>1. SubGood([sub[t] EXCEPT !.pc = "think", !.step = s]) /\ [sub[t] EXCEPT !.pc = "think", !.step = s].pc = "think"
              BY <2>0, <4>1, GoesOn
            <6> QED BY <5>1, <6>1
          <5>2. CASE c = "announce"
            <6>1. SubGood([sub[t] EXCEPT !.pc = "announce", !.step = s]) /\ [sub[t] EXCEPT !.pc = "announce", !.step = s].pc = "announce"
              BY <2>0, <4>1, GoesOn
            <6> QED BY <5>2, <6>1
          <5> QED BY <5>1, <5>2
        <4> QED BY <4>3
      <3>4. sub' = [sub EXCEPT ![t] = b]
        BY <3>2
      <3> HIDE DEF b
      <3> QED BY <3>1, <3>3, <3>4, SubGoes
    <2>4. CASE SubThink(t)
      <3> DEFINE calls(n) == [sub[t] EXCEPT !.pc = "act", !.added = TRUE, !.todo = n,
                          !.history = Append(WithTask(sub[t]), ToolCalls({<<sub[t].step, i>> : i \in 1 .. n}, 1))]
                 says(c) == [sub[t] EXCEPT !.pc = c, !.added = TRUE, !.history = WithTask(sub[t])]
      <3>1. /\ sub[t].pc = "think" /\ subTable' = subTable /\ subInbox' = subInbox
            /\ \/ \E n \in 1 .. SubBatch : sub' = [sub EXCEPT ![t] = calls(n)]
               \/ \E c \in {"recover", "answer"} : sub' = [sub EXCEPT ![t] = says(c)]
        <4>1. /\ sub[t].pc = "think"
              /\ \/ \E n \in 1 .. SubBatch : sub' = [sub EXCEPT ![t] = calls(n)]
                 \/ \E text \in {"text", "overflow"} :
                      sub' = [sub EXCEPT ![t] = says(IF text = "overflow" /\ ~sub[t].recovered THEN "recover" ELSE "answer")]
          BY <2>4 DEF SubThink, SubMove
        <4>2. subTable' = subTable /\ subInbox' = subInbox
          BY <2>4 DEF SubThink
        <4> HIDE DEF calls, says
        <4>3. \A text \in {"text", "overflow"} :
                 (IF text = "overflow" /\ ~sub[t].recovered THEN "recover" ELSE "answer") \in {"recover", "answer"}
          OBVIOUS
        <4> QED BY <4>1, <4>2, <4>3
      <3>2. \A n \in 1 .. SubBatch : SubGood(calls(n)) /\ calls(n).pc = "act"
        <4>1. \A n \in 1 .. SubBatch : n \in Nat \ {0}
          BY <1>1
        <4>2. sub[t].pc = "think" /\ SubSteps \in Nat
          BY <1>1, <3>1
        <4> QED BY <2>0, <4>1, <4>2, ThinkGood, Zenon
      <3>3. \A c \in {"recover", "answer"} : SubGood(says(c)) /\ says(c).pc = c
        <4>1. sub[t].pc = "think" /\ SubSteps \in Nat
          BY <1>1, <3>1
        <4> QED BY <2>0, <4>1, ThinkGood, Zenon
      <3> HIDE DEF calls, says
      <3>4. ASSUME NEW n \in 1 .. SubBatch, sub' = [sub EXCEPT ![t] = calls(n)] PROVE SubInv'
        BY <3>1, <3>2, <3>4, SubGoes
      <3>5. ASSUME NEW c \in {"recover", "answer"}, sub' = [sub EXCEPT ![t] = says(c)] PROVE SubInv'
        BY <3>1, <3>3, <3>5, SubGoes
      <3> QED BY <3>1, <3>4, <3>5
    <2>5. CASE SubTool(t)
      <3> DEFINE a == sub[t]
                 made == a.history[CallerOf(a.history, Len(a.history) + 1)].ids
                 id == <<a.step, Cardinality(made) - a.todo + 1>>
                 b == [a EXCEPT !.todo = @ - 1, !.history = Append(@, ToolResult(id, 1))]
      <3>1. a.pc = "act" /\ a.todo > 0 /\ sub' = [sub EXCEPT ![t] = b] /\ subTable' = subTable /\ subInbox' = subInbox
        BY <2>5 DEF SubTool, SubMove
      <3>2. SubGood(b) /\ b.pc = "act"
        BY <2>0, <3>1, ToolGood
      <3> HIDE DEF b
      <3> QED BY <3>1, <3>2, SubGoes
    <2>6. CASE SubNextStep(t)
      <3>1. PICK c \in MayCompactTo(sub[t]) : sub' = [sub EXCEPT ![t] = [c EXCEPT !.pc = "loop", !.asks = "next"]]
        BY <2>6 DEF SubNextStep, SubMove
      <3>2. sub[t].pc = "act" /\ sub[t].todo = 0 /\ subTable' = subTable /\ subInbox' = subInbox
        BY <2>6 DEF SubNextStep, SubMove
      <3> DEFINE b == [c EXCEPT !.pc = "loop", !.asks = "next"]
      <3>3. SubGood(b) /\ b.pc = "loop"
        BY <1>1, <2>0, <3>2, NextGood
      <3>4. sub' = [sub EXCEPT ![t] = b]
        BY <3>1
      <3> HIDE DEF b
      <3> QED BY <3>2, <3>3, <3>4, SubGoes
    <2>7. CASE SubRecover(t)
      <3>1. PICK c \in MayCompactTo(sub[t]) : sub' = [sub EXCEPT ![t] = [c EXCEPT !.pc = "loop", !.recovered = TRUE]]
        BY <2>7 DEF SubRecover, SubMove
      <3>2. sub[t].pc = "recover" /\ subTable' = subTable /\ subInbox' = subInbox
        BY <2>7 DEF SubRecover, SubMove
      <3> DEFINE b == [c EXCEPT !.pc = "loop", !.recovered = TRUE]
      <3>3. SubGood(b) /\ b.pc = "loop"
        BY <1>1, <2>0, <3>2, RecoverGood
      <3>4. sub' = [sub EXCEPT ![t] = b]
        BY <3>1
      <3> HIDE DEF b
      <3> QED BY <3>2, <3>3, <3>4, SubGoes
    <2>8. CASE SubAnswer(t)
      <3> DEFINE b == [sub[t] EXCEPT !.pc = "announce", !.history = Append(@, Assistant(1))]
      <3>1. sub[t].pc = "answer" /\ sub' = [sub EXCEPT ![t] = b] /\ subTable' = subTable /\ subInbox' = subInbox
        BY <2>8 DEF SubAnswer, SubMove
      <3>2. SubGood(b) /\ b.pc = "announce"
        BY <2>0, <3>1, AnswerGood
      <3> HIDE DEF b
      <3> QED BY <3>1, <3>2, SubGoes
    <2>9. CASE SubAnnounce(t)
      <3> DEFINE r == [task |-> t, ok |-> TRUE, spent |-> sub[t].step >= SubSteps]
      <3>1. sub[t].pc = "announce" /\ sub' = [sub EXCEPT ![t] = Over] /\ subTable' = subTable /\ subInbox' = Append(subInbox, r)
        BY <2>9 DEF SubAnnounce, SubMove
      <3>2. r \in SubNotices /\ r.task = t
        BY DEF SubNotices
      <3> HIDE DEF r
      <3> QED BY <1>1, <3>1, <3>2, SubEnds
    <2>10. CASE SubFails(t)
      <3> DEFINE r == [task |-> t, ok |-> FALSE, spent |-> FALSE]
      <3>1. sub[t].pc \in {"think", "act"} /\ sub' = [sub EXCEPT ![t] = Over] /\ subTable' = subTable /\ subInbox' = Append(subInbox, r)
        BY <2>10 DEF SubFails, SubMove
      <3>2. r \in SubNotices /\ r.task = t
        BY DEF SubNotices
      <3> HIDE DEF r
      <3> QED BY <1>1, <3>1, <3>2, SubEnds
    <2>11. CASE SubDone(t)
      BY <2>11 DEF SubDone, SubInv, SubListed, SubHeard, Notices
    <2> QED BY <1>3, <2>1, <2>2, <2>3, <2>4, <2>5, <2>6, <2>7, <2>8, <2>9, <2>10, <2>11 DEF SubStep
  <1> QED BY <1>2, <1>3 DEF SubNext

LEMMA SubInitInv == SubInit => SubInv
  <1> SUFFICES ASSUME SubInit PROVE SubInv
    OBVIOUS
  <1>1. SubGood(Fresh) /\ Fresh.pc = "new" /\ Fresh \in SubRecords
    BY SubAssumption, FreshGood DEF SubGood
  <1>2. sub \in [SubTasks -> SubRecords] /\ \A t \in SubTasks : sub[t] = Fresh
    BY <1>1 DEF SubInit
  <1>3. subTable = {} /\ subInbox = <<>> /\ subInbox \in Seq(SubNotices) /\ Len(subInbox) = 0
    BY EmptySeq DEF SubInit
  <1>4. SubHeard /\ SubListed
    BY <1>1, <1>2, <1>3 DEF SubHeard, SubListed, Notices
  <1> QED BY <1>1, <1>2, <1>3, <1>4 DEF SubInv

\* For any tasks, step budget, batch and compaction: the parent of a background
\* task hears exactly once how it ended, every request of the task pairs calls
\* and results and asks the task or has it summarised, and what was said is
\* summarised once or in the request, but for results that a compaction cut off
\* from their call (SubAgent.run, _announce_result, _compact_history).
THEOREM SubTasksAreSound == SubSpec => []SubTaskSound
  BY SubInitInv, SubStepKeeps, SubServes, PTL DEF SubSpec

-----------------------------------------------------------------------------
(***************************************************************************)
(* The consolidation that a run of the agent leaves behind: it is not      *)
(* waited for, and meets those of other runs and sessions.                 *)
(***************************************************************************)

MemSteps == {"none", "memory", "history", "ask", "write", "write history", "agent", "ask agent", "write agent", "mark"}
Notes == Chats \X (1 .. MaxSaid)
MemRecords == [pc : MemSteps, chat : Chats \cup {NoChat}, batch : SUBSET Notes, read : SUBSET Notes, log : SUBSET Notes,
               answer : SUBSET Memories]
MemFiles == [Memories -> SUBSET Notes]

MemShape ==
    /\ said \in [Chats -> Seq(Nat)] /\ mark \in [Chats -> Int] /\ counted \in [Chats -> Nat]
    /\ files \in MemFiles /\ missed \in MemFiles /\ memory \in [MemTasks -> MemRecords]
    /\ memUsed \in [said : 0 .. MaxSaid, faults : Nat] /\ calm \in [Chats -> BOOLEAN]

\* Every message has a number of its own, and a consolidation that runs is
\* about messages of a session.
MemCounts ==
    /\ \A s \in Chats :
        /\ counted[s] <= memUsed.said /\ Len(said[s]) <= counted[s]
        /\ \A i \in 1 .. Len(said[s]) : said[s][i] \in 1 .. counted[s]
        /\ -KeepCount <= mark[s] /\ mark[s] <= MaxSaid
    /\ \A t \in MemTasks : IF memory[t].pc = "none" THEN memory[t] = NoTask
                           ELSE memory[t].chat \in Chats /\ memory[t].batch # {}

\* Consolidations that overlap disturb each other.
MemAlone == \A t, u \in InFlight : t # u => ~calm[memory[t].chat]

\* The messages from the mark to those that are kept.
ToTake(s) == {<<s, said[s][i]>> : i \in mark[s] + 1 .. Len(said[s]) - KeepCount}
Passed(s) == {<<s, said[s][i]>> : i \in 1 .. mark[s]}

\* In a calm session the mark is in range, and the batch that is under way is
\* what lies between the mark and the messages that are kept.
MemRange ==
    \A s \in Chats : calm[s] =>
        /\ 0 <= mark[s] /\ (mark[s] > 0 => mark[s] <= Len(said[s]) - KeepCount)
        /\ \A t \in MemTasks : memory[t].chat = s => Len(said[s]) > KeepCount /\ memory[t].batch = ToTake(s)

\* What a consolidation has read is not older than the file, and of a file
\* that is behind it its batch is in the file, or known to be missed.
Held(f) == files[f] \cup missed[f]
Behind(m, f) ==
    \/ m.pc = "write" /\ f \in {"memory", "history"} \ m.answer
    \/ m.pc = "write history" /\ (f = "memory" \/ (f = "history" /\ f \notin m.answer))
    \/ m.pc \in {"agent", "ask agent"} /\ f \in {"memory", "history"}
    \/ m.pc = "write agent" /\ (f \in {"memory", "history"} \/ f \notin m.answer)
    \/ m.pc = "mark"
MemTold(m) ==
    /\ m.pc \in {"history", "ask", "write"} => files["memory"] \subseteq m.read
    /\ m.pc \in {"ask", "write", "write history"} => files["history"] \subseteq m.log
    /\ m.pc \in {"ask agent", "write agent"} => files["agent"] \subseteq m.read
    /\ \A f \in Memories : Behind(m, f) => m.batch \subseteq Held(f)
MemKept ==
    (\A s \in Chats : calm[s]) =>
        /\ \A s \in Chats, f \in Memories : Passed(s) \subseteq Held(f)
        /\ \A t \in MemTasks : MemTold(memory[t])

MemInv == MemShape /\ MemCounts /\ MemAlone /\ MemRange /\ MemKept

\* What a step makes of a consolidation.
MemBecomes(t, r) == memory' = [memory EXCEPT ![t] = r]
MemReads(t, to, x) == memory' = [memory EXCEPT ![t].pc = to, ![t].read = x]
MemLogs(t, to, x) == memory' = [memory EXCEPT ![t].pc = to, ![t].log = x]

LEMMA MemFacts == NoChat \notin Chats /\ KeepCount \in Nat /\ MaxSaid \in Nat /\ MaxMemFaults \in Nat
  BY MemoryAssumption DEF MemoryAssumption

\* Least and greatest of two numbers, and so the ends of a slice.
LEMMA LeastOf == ASSUME NEW a \in Int, NEW b \in Int PROVE Min({a, b}) = IF a <= b THEN a ELSE b
  <1>1. \E x \in {a, b} : \A y \in {a, b} : x =< y
    OBVIOUS
  <1>2. Min({a, b}) \in {a, b} /\ \A y \in {a, b} : Min({a, b}) =< y
    BY <1>1, Zenon DEF Min
  <1> QED BY <1>2

LEMMA GreatestOf == ASSUME NEW a \in Int, NEW b \in Int PROVE Max({a, b}) = IF a >= b THEN a ELSE b
  <1>1. \E x \in {a, b} : \A y \in {a, b} : x >= y
    OBVIOUS
  <1>2. Max({a, b}) \in {a, b} /\ \A y \in {a, b} : Max({a, b}) >= y
    BY <1>1, Zenon DEF Max
  <1> QED BY <1>2

LEMMA PlaceIs == ASSUME NEW i \in Int, NEW n \in Nat
    PROVE  Place(i, n) = IF i < 0 THEN (IF n + i >= 0 THEN n + i ELSE 0) ELSE (IF i <= n THEN i ELSE n)
  <1>1. Max({n + i, 0}) = IF n + i >= 0 THEN n + i ELSE 0
    BY GreatestOf
  <1>2. Min({i, n}) = IF i <= n THEN i ELSE n
    BY LeastOf
  <1> QED BY <1>1, <1>2 DEF Place

LEMMA MemNoTask ==
    /\ NoTask \in MemRecords /\ NoTask.pc = "none" /\ NoTask.chat = NoChat
  BY DEF NoTask, MemRecords, MemSteps

LEMMA MemInitInv == MemInit => MemInv
  <1> SUFFICES ASSUME MemInit PROVE MemInv
    OBVIOUS
  <1>1. /\ \A t \in MemTasks : memory[t] = NoTask
        /\ \A s \in Chats : said[s] = <<>> /\ mark[s] = 0 /\ counted[s] = 0 /\ calm[s] = TRUE
        /\ memory \in [MemTasks -> MemRecords]
    BY MemNoTask DEF MemInit
  <1>2. /\ memUsed.said = 0 /\ memUsed \in [said : 0 .. MaxSaid, faults : Nat]
        /\ files \in MemFiles /\ missed \in MemFiles
    BY MemFacts DEF MemInit, MemFiles
  <1>3. MemShape
    BY <1>1, <1>2 DEF MemInit, MemShape
  <1>4. MemCounts
    BY <1>1, <1>2, MemNoTask, MemFacts DEF MemCounts
  <1>5. MemAlone
    BY <1>1, MemNoTask DEF MemAlone, InFlight
  <1>6. MemRange
    BY <1>1, MemNoTask, MemFacts DEF MemRange
  <1>7. MemKept
    <2>1. \A s \in Chats : Passed(s) = {}
      BY <1>1 DEF Passed
    <2>2. \A t \in MemTasks : memory[t].pc = "none"
      BY <1>1, MemNoTask
    <2> QED BY <2>1, <2>2 DEF MemKept, MemTold, Behind
  <1> QED BY <1>3, <1>4, <1>5, <1>6, <1>7 DEF MemInv

\* With every session calm, the mark of each is at the end of what was taken
\* out of it, so MemSound speaks of the same messages.
LEMMA MemServes == MemInv => MemSound
  <1> SUFFICES ASSUME MemInv PROVE MemSound
    OBVIOUS
  <1>1. MemTypeOK
    <2>1. ASSUME NEW s \in Chats
          PROVE  said[s] \in Seq(1 .. counted[s]) /\ counted[s] \in 0 .. MaxSaid /\ mark[s] \in -KeepCount .. MaxSaid
      <3>1. /\ said[s] \in Seq(Nat) /\ \A i \in 1 .. Len(said[s]) : said[s][i] \in 1 .. counted[s]
            /\ counted[s] \in Nat /\ mark[s] \in Int /\ counted[s] <= memUsed.said /\ memUsed.said \in 0 .. MaxSaid
            /\ -KeepCount <= mark[s] /\ mark[s] <= MaxSaid
        BY DEF MemInv, MemShape, MemCounts
      <3>2. said[s] \in [1 .. Len(said[s]) -> 1 .. counted[s]] /\ Len(said[s]) \in Nat
        BY <3>1, LenProperties
      <3>3. said[s] \in Seq(1 .. counted[s])
        BY <3>2, SeqDef
      <3> QED BY <3>1, <3>3, MemFacts
    <2>2. \A f \in Memories : (files[f] \cup missed[f]) \subseteq Chats \X (1 .. MaxSaid)
      BY DEF MemInv, MemShape, MemFiles, Notes
    <2>3. \A t \in MemTasks : memory[t] # NoTask => memory[t].chat \in Chats /\ memory[t].batch # {}
      BY DEF MemInv, MemCounts
    <2> QED BY <2>1, <2>2, <2>3 DEF MemTypeOK
  <1>2. MemMarkInRange
    <2> SUFFICES ASSUME NEW s \in Chats, calm[s] PROVE mark[s] \in 0 .. Max({0, Length(s) - KeepCount})
      BY DEF MemMarkInRange
    <2>1. Len(said[s]) \in Nat /\ mark[s] \in Int
      BY DEF MemInv, MemShape
    <2>2. Max({0, Len(said[s]) - KeepCount}) = IF 0 >= Len(said[s]) - KeepCount THEN 0 ELSE Len(said[s]) - KeepCount
      BY <2>1, GreatestOf, MemFacts
    <2> QED BY <2>1, <2>2, MemFacts DEF MemInv, MemRange, Length
  <1>3. MemRemembered
    <2> SUFFICES ASSUME \A s \in Chats : calm[s], NEW s \in Chats, NEW f \in Memories
                 PROVE  Marked(s) \subseteq files[f] \cup missed[f]
      BY DEF MemRemembered
    <2>1. Passed(s) \subseteq files[f] \cup missed[f]
      BY DEF MemInv, MemKept, Held
    <2>2. Len(said[s]) \in Nat /\ mark[s] \in Int
      BY DEF MemInv, MemShape
    <2>3. Min({Len(said[s]), mark[s]}) \in Int /\ Min({Len(said[s]), mark[s]}) <= mark[s]
      BY <2>2, LeastOf
    <2>4. 1 .. Min({Len(said[s]), mark[s]}) \subseteq 1 .. mark[s]
      BY <2>2, <2>3
    <2> QED BY <2>1, <2>4 DEF Marked, Passed, Length
  <1> QED BY <1>1, <1>2, <1>3 DEF MemSound

LEMMA DisturbCalms ==
    ASSUME MemShape, NEW X, Disturb(X)
    PROVE  calm' \in [Chats -> BOOLEAN] /\ \A s \in Chats : calm'[s] => calm[s] /\ s \notin X
  <1>1. \A s \in Chats : (calm[s] /\ s \notin X) \in BOOLEAN
    OBVIOUS
  <1> QED BY <1>1 DEF Disturb

\* One consolidation changes; which fields it keeps.
LEMMA TaskSet ==
    ASSUME MemShape, NEW t \in MemTasks, NEW r \in MemRecords, memory' = [memory EXCEPT ![t] = r]
    PROVE  /\ memory' \in [MemTasks -> MemRecords] /\ memory'[t] = r
           /\ \A u \in MemTasks : u # t => memory'[u] = memory[u]
  BY DEF MemShape

LEMMA GotoIs ==
    ASSUME MemShape, NEW t \in MemTasks, NEW to \in MemSteps, MemGoto(t, to)
    PROVE  \E r \in MemRecords :
             /\ MemBecomes(t, r) /\ r.pc = to /\ r.chat = memory[t].chat
             /\ r.batch = memory[t].batch /\ r.read = memory[t].read /\ r.log = memory[t].log
              /\ r.answer = memory[t].answer
  <1>1. PICK m, r : m = memory[t] /\ r = [m EXCEPT !.pc = to]
    OBVIOUS
  <1>2. m \in MemRecords
    BY <1>1 DEF MemShape
  <1>3. /\ r \in MemRecords /\ r.pc = to /\ r.chat = m.chat /\ r.batch = m.batch /\ r.read = m.read
        /\ r.log = m.log /\ r.answer = m.answer
    BY <1>1, <1>2 DEF MemRecords
  <1>4. memory' = [memory EXCEPT ![t] = r]
    BY <1>1 DEF MemGoto
  <1>5. MemBecomes(t, r)
    BY <1>4 DEF MemBecomes
  <1> QED BY <1>1, <1>3, <1>5

\* A message that is said, or a history that is cleared: what is under way
\* disturbs its session or is about another one.
LEMMA SaidKeeps ==
    ASSUME MemInv, NEW s \in Chats,
           said' \in [Chats -> Seq(Nat)], mark' \in [Chats -> Int], counted' \in [Chats -> Nat],
           memUsed' \in [said : 0 .. MaxSaid, faults : Nat], MemCounts',
           \A u \in Chats : u # s => said'[u] = said[u] /\ mark'[u] = mark[u],
           calm[s] => /\ 0 <= mark'[s] /\ (mark'[s] > 0 => mark'[s] <= Len(said'[s]) - KeepCount)
                      /\ \A i \in 1 .. mark'[s] : i <= mark[s] /\ said'[s][i] = said[s][i],
           Disturb(IF Working(s) # {} THEN {s} ELSE {}), UNCHANGED <<files, missed, memory>>
    PROVE  MemInv'
  <1>1. PICK X : X = (IF Working(s) # {} THEN {s} ELSE {})
    OBVIOUS
  <1>2. calm' \in [Chats -> BOOLEAN] /\ \A u \in Chats : calm'[u] => calm[u] /\ u \notin X
    BY <1>1, DisturbCalms DEF MemInv
  <1>3. MemShape'
    BY <1>2 DEF MemInv, MemShape
  <1>4. MemAlone'
    <2>1. \A t \in MemTasks : memory[t].pc # "none" => memory[t].chat \in Chats
      BY DEF MemInv, MemCounts
    <2>2. InFlight' = InFlight
      BY DEF InFlight
    <2> QED BY <1>2, <2>1, <2>2 DEF MemInv, MemAlone, InFlight
  <1>5. MemRange'
    <2> SUFFICES ASSUME NEW u \in Chats, calm'[u]
        PROVE  /\ 0 <= mark'[u] /\ (mark'[u] > 0 => mark'[u] <= Len(said'[u]) - KeepCount)
               /\ \A t \in MemTasks : memory'[t].chat = u => Len(said'[u]) > KeepCount /\ memory'[t].batch = ToTake(u)'
      BY DEF MemRange
    <2>1. CASE u = s
      <3>1. \A t \in MemTasks : memory'[t].chat # s
        BY <1>1, <1>2, <2>1 DEF Working
      <3> QED BY <1>2, <2>1, <3>1
    <2>2. CASE u # s
      <3>1. ToTake(u)' = ToTake(u)
        BY <2>2 DEF ToTake
      <3> QED BY <1>2, <2>2, <3>1 DEF MemInv, MemRange
    <2> QED BY <2>1, <2>2
  <1>6. MemKept'
    <2> SUFFICES ASSUME \A u \in Chats : calm'[u]
        PROVE  /\ \A u \in Chats, f \in Memories : Passed(u)' \subseteq Held(f)'
               /\ \A t \in MemTasks : MemTold(memory[t])'
      BY DEF MemKept
    <2>1. \A u \in Chats : calm[u]
      BY <1>2
    <2>2. \A u \in Chats : Passed(u)' \subseteq Passed(u)
      <3> SUFFICES ASSUME NEW u \in Chats PROVE Passed(u)' \subseteq Passed(u)
        OBVIOUS
      <3>1. CASE u = s
        <4>1. mark[s] \in Int /\ mark'[s] \in Int
          BY DEF MemInv, MemShape
        <4>2. \A i \in 1 .. mark'[s] : i \in 1 .. mark[s] /\ said'[s][i] = said[s][i]
          BY <2>1, <4>1
        <4> QED BY <3>1, <4>2 DEF Passed
      <3>2. CASE u # s
        BY <3>2 DEF Passed
      <3> QED BY <3>1, <3>2
    <2>3. \A t \in MemTasks : MemTold(memory[t])'
      BY <2>1 DEF MemInv, MemKept, MemTold, Behind, Held
    <2> QED BY <2>1, <2>2, <2>3 DEF MemInv, MemKept, Held
  <1> QED BY <1>3, <1>4, <1>5, <1>6 DEF MemInv

LEMMA SayKeeps == ASSUME MemInv, NEW s \in Chats, Say(s) PROVE MemInv'
  <1>1. PICK c, l : c = counted[s] + 1 /\ l = Append(said[s], c)
    OBVIOUS
  <1>2. /\ counted' = [counted EXCEPT ![s] = c] /\ said' = [said EXCEPT ![s] = l]
        /\ memUsed.said < MaxSaid /\ memUsed' = [memUsed EXCEPT !.said = @ + 1]
        /\ Disturb(IF Working(s) # {} THEN {s} ELSE {}) /\ UNCHANGED <<mark, files, missed, memory>>
    BY <1>1 DEF Say
  <1>3. /\ said[s] \in Seq(Nat) /\ counted[s] \in Nat /\ mark[s] \in Int /\ Len(said[s]) \in Nat
        /\ memUsed \in [said : 0 .. MaxSaid, faults : Nat] /\ memUsed.said \in Int
        /\ said \in [Chats -> Seq(Nat)] /\ counted \in [Chats -> Nat] /\ mark \in [Chats -> Int]
    BY DEF MemInv, MemShape
  <1>4. /\ c \in Nat /\ l \in Seq(Nat) /\ Len(l) = Len(said[s]) + 1 /\ l[Len(l)] = c
        /\ \A i \in 1 .. Len(said[s]) : l[i] = said[s][i]
    BY <1>1, <1>3
  <1>5. /\ said' \in [Chats -> Seq(Nat)] /\ said'[s] = l /\ counted' \in [Chats -> Nat] /\ counted'[s] = c
        /\ \A u \in Chats : u # s => said'[u] = said[u] /\ counted'[u] = counted[u]
    BY <1>2, <1>3, <1>4
  <1>6. memUsed'.said = memUsed.said + 1 /\ memUsed' \in [said : 0 .. MaxSaid, faults : Nat]
    <2>1. memUsed.said + 1 \in 0 .. MaxSaid
      BY <1>2, <1>3, MemFacts
    <2> QED BY <1>2, <1>3, <2>1
  <1>7. MemCounts'
    <2>1. ASSUME NEW u \in Chats PROVE
          /\ counted'[u] <= memUsed'.said /\ Len(said'[u]) <= counted'[u]
          /\ \A i \in 1 .. Len(said'[u]) : said'[u][i] \in 1 .. counted'[u]
          /\ -KeepCount <= mark'[u] /\ mark'[u] <= MaxSaid
      <3>1. /\ counted[u] <= memUsed.said /\ Len(said[u]) <= counted[u] /\ counted[u] \in Nat
            /\ \A i \in 1 .. Len(said[u]) : said[u][i] \in 1 .. counted[u]
            /\ -KeepCount <= mark[u] /\ mark[u] <= MaxSaid
        BY DEF MemInv, MemCounts, MemShape
      <3>2. CASE u # s
        BY <1>2, <1>3, <1>5, <1>6, <3>1, <3>2
      <3>3. CASE u = s
        <4>1. \A i \in 1 .. Len(l) : i \in 1 .. Len(said[s]) \/ i = Len(l)
          BY <1>3, <1>4
        <4>2. \A i \in 1 .. Len(l) : l[i] \in 1 .. c
          BY <1>1, <1>3, <1>4, <3>1, <3>3, <4>1
        <4> QED BY <1>1, <1>2, <1>3, <1>4, <1>5, <1>6, <3>1, <3>3, <4>2
      <3> QED BY <3>2, <3>3
    <2> QED BY <1>2, <2>1 DEF MemInv, MemCounts
  <1>8. calm[s] => /\ 0 <= mark'[s] /\ (mark'[s] > 0 => mark'[s] <= Len(said'[s]) - KeepCount)
                   /\ \A i \in 1 .. mark'[s] : i <= mark[s] /\ said'[s][i] = said[s][i]
    <2> SUFFICES ASSUME calm[s]
                 PROVE  /\ 0 <= mark'[s] /\ (mark'[s] > 0 => mark'[s] <= Len(said'[s]) - KeepCount)
                        /\ \A i \in 1 .. mark'[s] : i <= mark[s] /\ said'[s][i] = said[s][i]
      OBVIOUS
    <2>1. 0 <= mark[s] /\ (mark[s] > 0 => mark[s] <= Len(said[s]) - KeepCount)
      BY DEF MemInv, MemRange
    <2>2. mark'[s] = mark[s] /\ said'[s] = l /\ mark[s] <= Len(said[s])
      BY <1>2, <1>3, <1>5, <2>1, MemFacts
    <2>3. 0 <= mark'[s] /\ (mark'[s] > 0 => mark'[s] <= Len(said'[s]) - KeepCount)
      BY <1>3, <1>4, <2>1, <2>2, MemFacts
    <2>4. \A i \in 1 .. mark'[s] : i <= mark[s] /\ said'[s][i] = said[s][i]
      BY <1>3, <1>4, <2>1, <2>2
    <2> QED BY <2>3, <2>4
  <1> QED BY <1>2, <1>3, <1>5, <1>6, <1>7, <1>8, SaidKeeps

LEMMA FaultIs ==
    ASSUME MemShape, MemFault
    PROVE  memUsed' \in [said : 0 .. MaxSaid, faults : Nat] /\ memUsed'.said = memUsed.said
  <1>1. memUsed \in [said : 0 .. MaxSaid, faults : Nat] /\ memUsed.faults + 1 \in Nat
    BY DEF MemShape
  <1> QED BY <1>1 DEF MemFault

LEMMA ClearKeeps == ASSUME MemInv, NEW s \in Chats, ClearChat(s) PROVE MemInv'
  <1>1. /\ said' = [said EXCEPT ![s] = <<>>] /\ mark' = [mark EXCEPT ![s] = 0]
        /\ Disturb(IF Working(s) # {} THEN {s} ELSE {}) /\ UNCHANGED <<files, missed, memory, counted>>
        /\ memUsed' \in [said : 0 .. MaxSaid, faults : Nat] /\ memUsed'.said = memUsed.said
    BY FaultIs DEF ClearChat, MemInv
  <1>2. /\ said' \in [Chats -> Seq(Nat)] /\ said'[s] = <<>> /\ mark' \in [Chats -> Int] /\ mark'[s] = 0
        /\ \A u \in Chats : u # s => said'[u] = said[u] /\ mark'[u] = mark[u]
        /\ counted' \in [Chats -> Nat]
    BY <1>1, EmptySeq DEF MemInv, MemShape
  <1>3. MemCounts'
    <2>1. ASSUME NEW u \in Chats PROVE
          /\ counted'[u] <= memUsed'.said /\ Len(said'[u]) <= counted'[u]
          /\ \A i \in 1 .. Len(said'[u]) : said'[u][i] \in 1 .. counted'[u]
          /\ -KeepCount <= mark'[u] /\ mark'[u] <= MaxSaid
      <3>1. CASE u = s
        <4>1. counted[s] <= memUsed.said /\ counted[s] \in Nat
          BY DEF MemInv, MemCounts, MemShape
        <4> QED BY <1>1, <1>2, <3>1, <4>1, MemFacts
      <3>2. CASE u # s
        BY <1>1, <1>2, <3>2 DEF MemInv, MemCounts
      <3> QED BY <3>1, <3>2
    <2> QED BY <1>1, <2>1 DEF MemInv, MemCounts
  <1>4. 0 <= mark'[s] /\ ~(mark'[s] > 0) /\ 1 .. mark'[s] = {}
    BY <1>2
  <1> QED BY <1>1, <1>2, <1>3, <1>4, SaidKeeps

LEMMA Flying ==
    ASSUME MemInv, NEW t \in MemTasks
    PROVE  /\ memory[t].pc # "none" <=> memory[t].chat \in Chats
           /\ memory[t].pc # "none" <=> t \in InFlight
  <1>1. IF memory[t].pc = "none" THEN memory[t] = NoTask ELSE memory[t].chat \in Chats
    BY DEF MemInv, MemCounts
  <1> QED BY <1>1, MemNoTask, MemFacts DEF InFlight

\* With all sessions calm there is one consolidation at most.
LEMMA OneFlies ==
    ASSUME MemInv, \A s \in Chats : calm[s], NEW t \in MemTasks, NEW u \in MemTasks, t # u, memory[t].pc # "none"
    PROVE  memory[u].pc = "none"
  BY Flying DEF MemInv, MemAlone

\* A consolidation that goes on with its batch.
LEMMA BatchGoesOn ==
    ASSUME MemInv, NEW t \in MemTasks, memory[t].pc # "none",
           NEW r \in MemRecords, memory' = [memory EXCEPT ![t] = r],
           r.pc # "none", r.chat = memory[t].chat, r.batch = memory[t].batch,
           UNCHANGED <<said, mark, counted>>, files' \in MemFiles, missed' \in MemFiles,
           memUsed' \in [said : 0 .. MaxSaid, faults : Nat], memUsed'.said = memUsed.said,
           calm' \in [Chats -> BOOLEAN], \A s \in Chats : calm'[s] => calm[s],
           (\A s \in Chats : calm'[s]) =>
               /\ \A f \in Memories : Held(f) \subseteq Held(f)'
               /\ MemTold(r)'
    PROVE  MemInv'
  <1>1. /\ memory' \in [MemTasks -> MemRecords] /\ memory'[t] = r
        /\ \A u \in MemTasks : u # t => memory'[u] = memory[u]
    BY TaskSet DEF MemInv
  <1>2. MemShape'
    BY <1>1 DEF MemInv, MemShape
  <1>3. MemCounts'
    <2>1. \A s \in Chats :
          /\ counted'[s] <= memUsed'.said /\ Len(said'[s]) <= counted'[s]
          /\ \A i \in 1 .. Len(said'[s]) : said'[s][i] \in 1 .. counted'[s]
          /\ -KeepCount <= mark'[s] /\ mark'[s] <= MaxSaid
      BY DEF MemInv, MemCounts
    <2>2. \A u \in MemTasks : IF memory'[u].pc = "none" THEN memory'[u] = NoTask
                              ELSE memory'[u].chat \in Chats /\ memory'[u].batch # {}
      BY <1>1 DEF MemInv, MemCounts
    <2> QED BY <2>1, <2>2 DEF MemCounts
  <1>4. \A u \in MemTasks : memory'[u].chat = memory[u].chat /\ memory'[u].batch = memory[u].batch
                            /\ (memory'[u].pc = "none" <=> memory[u].pc = "none")
    BY <1>1
  <1>5. MemAlone'
    <2>1. InFlight' = InFlight
      BY <1>4 DEF InFlight
    <2> QED BY <1>4, <2>1, Flying DEF MemInv, MemAlone, InFlight
  <1>6. MemRange'
    <2>1. \A s \in Chats : ToTake(s)' = ToTake(s)
      BY DEF ToTake
    <2> QED BY <1>4, <2>1 DEF MemInv, MemRange
  <1>7. MemKept'
    <2> SUFFICES ASSUME \A s \in Chats : calm'[s]
        PROVE  /\ \A s \in Chats, f \in Memories : Passed(s)' \subseteq Held(f)'
               /\ \A u \in MemTasks : MemTold(memory[u])'
      BY DEF MemKept
    <2>1. \A s \in Chats : Passed(s)' = Passed(s)
      BY DEF Passed
    <2>2. \A u \in MemTasks : u # t => memory'[u].pc = "none"
      BY <1>4, OneFlies
    <2>3. \A u \in MemTasks : MemTold(memory[u])'
      BY <1>1, <2>2 DEF MemTold, Behind
    <2> QED BY <2>1, <2>3 DEF MemInv, MemKept
  <1> QED BY <1>2, <1>3, <1>5, <1>6, <1>7 DEF MemInv

\* A consolidation that is over, with its mark moved or not.
LEMMA BatchOver ==
    ASSUME MemInv, NEW t \in MemTasks, memory[t].pc # "none", memory' = [memory EXCEPT ![t] = NoTask],
           NEW s \in Chats, s = memory[t].chat, mark' \in [Chats -> Int],
           \A u \in Chats : u # s => mark'[u] = mark[u],
           -KeepCount <= mark'[s], mark'[s] <= MaxSaid,
           calm[s] => 0 <= mark'[s] /\ (mark'[s] > 0 => mark'[s] <= Len(said[s]) - KeepCount),
           files' \in MemFiles, missed' \in MemFiles, \A f \in Memories : Held(f) \subseteq Held(f)',
           (\A u \in Chats : calm[u]) => \A f \in Memories : Passed(s)' \subseteq Held(f)',
           UNCHANGED <<said, counted, calm>>,
           memUsed' \in [said : 0 .. MaxSaid, faults : Nat], memUsed'.said = memUsed.said
    PROVE  MemInv'
  <1>1. /\ memory' \in [MemTasks -> MemRecords] /\ memory'[t] = NoTask
        /\ \A u \in MemTasks : u # t => memory'[u] = memory[u]
    BY TaskSet, MemNoTask DEF MemInv
  <1>2. MemShape'
    BY <1>1 DEF MemInv, MemShape
  <1>3. MemCounts'
    <2>1. \A u \in Chats :
          /\ counted'[u] <= memUsed'.said /\ Len(said'[u]) <= counted'[u]
          /\ \A i \in 1 .. Len(said'[u]) : said'[u][i] \in 1 .. counted'[u]
          /\ -KeepCount <= mark'[u] /\ mark'[u] <= MaxSaid
      BY DEF MemInv, MemCounts
    <2>2. \A u \in MemTasks : IF memory'[u].pc = "none" THEN memory'[u] = NoTask
                              ELSE memory'[u].chat \in Chats /\ memory'[u].batch # {}
      BY <1>1, MemNoTask DEF MemInv, MemCounts
    <2> QED BY <2>1, <2>2 DEF MemCounts
  <1>4. \A u \in MemTasks : memory'[u].pc # "none" => u # t /\ memory'[u] = memory[u]
    BY <1>1, MemNoTask
  <1>5. MemAlone'
    BY <1>4 DEF MemInv, MemAlone, InFlight
  <1>6. MemRange'
    <2> SUFFICES ASSUME NEW u \in Chats, calm[u]
        PROVE  /\ 0 <= mark'[u] /\ (mark'[u] > 0 => mark'[u] <= Len(said'[u]) - KeepCount)
               /\ \A v \in MemTasks : memory'[v].chat = u => Len(said'[u]) > KeepCount /\ memory'[v].batch = ToTake(u)'
      BY DEF MemRange
    <2>1. CASE u = s
      <3>1. \A v \in MemTasks : v # t => memory[v].chat # s
        BY <2>1, Flying DEF MemInv, MemAlone
      <3>2. \A v \in MemTasks : memory'[v].chat # s
        BY <1>1, <3>1, MemNoTask, MemFacts
      <3> QED BY <2>1, <3>2
    <2>2. CASE u # s
      <3>1. ToTake(u)' = ToTake(u)
        BY <2>2 DEF ToTake
      <3>2. \A v \in MemTasks : memory'[v].chat = u => memory'[v] = memory[v]
        BY <1>1, MemNoTask, MemFacts
      <3> QED BY <2>2, <3>1, <3>2 DEF MemInv, MemRange
    <2> QED BY <2>1, <2>2
  <1>7. MemKept'
    <2> SUFFICES ASSUME \A u \in Chats : calm[u]
        PROVE  /\ \A u \in Chats, f \in Memories : Passed(u)' \subseteq Held(f)'
               /\ \A u \in MemTasks : MemTold(memory[u])'
      BY DEF MemKept
    <2>1. \A u \in Chats : u # s => Passed(u)' = Passed(u)
      BY DEF Passed
    <2>2. \A u \in MemTasks : memory'[u].pc = "none"
      BY <1>1, MemNoTask, OneFlies
    <2>3. \A u \in MemTasks : MemTold(memory[u])'
      BY <2>2 DEF MemTold, Behind
    <2> QED BY <2>1, <2>3 DEF MemInv, MemKept
  <1> QED BY <1>2, <1>3, <1>5, <1>6, <1>7 DEF MemInv

\* The text of a write, and the file it goes to.
LEMMA WritesAre ==
    ASSUME MemShape, NEW m \in MemRecords
    PROVE  /\ Target(m.pc) \in Memories /\ NewText(m) \in SUBSET Notes /\ m.batch \subseteq NewText(m)
           /\ m.answer \subseteq Memories
           /\ m.pc = "write" => Target(m.pc) = "memory" /\ After(m.pc) = "write history" /\ m.read \subseteq NewText(m)
           /\ m.pc = "write history" => Target(m.pc) = "history" /\ After(m.pc) = "agent" /\ m.log \subseteq NewText(m)
           /\ m.pc = "write agent" => Target(m.pc) = "agent" /\ After(m.pc) = "mark" /\ m.read \subseteq NewText(m)
  <1>1. m.batch \in SUBSET Notes /\ m.read \in SUBSET Notes /\ m.log \in SUBSET Notes /\ m.answer \subseteq Memories
    BY DEF MemRecords
  <1>2. Target(m.pc) \in Memories
    BY DEF Target, Memories
  <1>3. /\ m.pc = "write" => Target(m.pc) = "memory" /\ After(m.pc) = "write history"
        /\ m.pc = "write history" => Target(m.pc) = "history" /\ After(m.pc) = "agent"
        /\ m.pc = "write agent" => Target(m.pc) = "agent" /\ After(m.pc) = "mark"
    BY DEF Target, After
  <1> QED BY <1>1, <1>2, <1>3 DEF NewText

\* A file that is replaced, with what it loses noted.
LEMMA FilesSet ==
    ASSUME MemShape, NEW f \in Memories, NEW X \in SUBSET Notes, NEW Y \in SUBSET Notes,
           files' = [files EXCEPT ![f] = X], missed' = [missed EXCEPT ![f] = Y],
           Held(f) \subseteq X \cup Y
    PROVE  /\ files' \in MemFiles /\ missed' \in MemFiles /\ files'[f] = X /\ missed'[f] = Y
           /\ \A g \in Memories : Held(g) \subseteq Held(g)'
           /\ \A g \in Memories : g # f => files'[g] = files[g] /\ missed'[g] = missed[g]
  <1>1. files \in [Memories -> SUBSET Notes] /\ missed \in [Memories -> SUBSET Notes]
    BY DEF MemShape, MemFiles
  <1>2. /\ files' \in MemFiles /\ missed' \in MemFiles /\ files'[f] = X /\ missed'[f] = Y
        /\ \A g \in Memories : g # f => files'[g] = files[g] /\ missed'[g] = missed[g]
    BY <1>1 DEF MemFiles
  <1>3. \A g \in Memories : Held(g) \subseteq Held(g)'
    BY <1>2 DEF Held
  <1> QED BY <1>2, <1>3

LEMMA RaisesKeep == ASSUME MemInv, NEW t \in MemTasks, FileRaises(t) PROVE MemInv'
  <1>1. /\ memory[t].pc # "none" /\ memory' = [memory EXCEPT ![t] = NoTask]
        /\ UNCHANGED <<said, mark, counted, calm>>
        /\ memUsed' \in [said : 0 .. MaxSaid, faults : Nat] /\ memUsed'.said = memUsed.said
    <2>1. memory[t].pc # "none"
      <3>1. memory[t].pc \in {"memory", "history", "agent"} \/ memory[t].pc \in WriteSteps
        BY Zenon DEF FileRaises
      <3> QED BY <3>1 DEF WriteSteps
    <2>2. MemFault /\ memory' = [memory EXCEPT ![t] = NoTask] /\ UNCHANGED <<said, mark, counted, calm>>
      BY DEF FileRaises
    <2> QED BY <2>1, <2>2, FaultIs DEF MemInv
  <1>2. PICK s \in Chats : s = memory[t].chat
    BY <1>1, Flying
  <1>3. /\ mark' \in [Chats -> Int] /\ -KeepCount <= mark'[s] /\ mark'[s] <= MaxSaid
        /\ calm[s] => 0 <= mark'[s] /\ (mark'[s] > 0 => mark'[s] <= Len(said[s]) - KeepCount)
    BY <1>1 DEF MemInv, MemShape, MemCounts, MemRange
  <1>4. files' \in MemFiles /\ missed' \in MemFiles /\ \A f \in Memories : Held(f) \subseteq Held(f)'
    <2>1. CASE UNCHANGED <<files, missed>>
      BY <2>1 DEF MemInv, MemShape, Held
    <2>2. CASE ~UNCHANGED <<files, missed>>
      <3>1. PICK m \in MemRecords : m = memory[t]
        BY DEF MemInv, MemShape
      <3>2. PICK f \in Memories : f = Target(m.pc)
        BY <3>1, WritesAre DEF MemInv
      <3>3. PICK rest \in {files[f]} \cup SUBSET NewText(m) :
              /\ files' = [files EXCEPT ![f] = rest]
              /\ missed' = [missed EXCEPT ![f] = @ \cup (files[f] \ rest)]
        BY <2>2, <3>1, <3>2 DEF FileRaises
      <3>4. files[f] \in SUBSET Notes /\ missed[f] \in SUBSET Notes /\ NewText(m) \in SUBSET Notes
        BY <3>1, WritesAre DEF MemInv, MemShape, MemFiles
      <3>5. rest \in SUBSET Notes /\ missed[f] \cup (files[f] \ rest) \in SUBSET Notes
        BY <3>3, <3>4
      <3>6. missed' = [missed EXCEPT ![f] = missed[f] \cup (files[f] \ rest)]
        BY <3>3
      <3>7. Held(f) \subseteq rest \cup (missed[f] \cup (files[f] \ rest))
        BY DEF Held
      <3> QED BY <3>3, <3>5, <3>6, <3>7, FilesSet DEF MemInv
    <2> QED BY <2>1, <2>2
  <1>5. Passed(s)' = Passed(s)
    BY <1>1 DEF Passed
  <1>6. (\A u \in Chats : calm[u]) => \A f \in Memories : Passed(s)' \subseteq Held(f)'
    BY <1>4, <1>5 DEF MemInv, MemKept
  <1> QED BY <1>1, <1>2, <1>3, <1>4, <1>6, BatchOver

LEMMA MarkKeeps == ASSUME MemInv, NEW t \in MemTasks, MoveMark(t) PROVE MemInv'
  <1>1. /\ memory[t].pc = "mark" /\ memory' = [memory EXCEPT ![t] = NoTask]
        /\ UNCHANGED <<said, files, missed, counted, memUsed, calm>>
    BY DEF MoveMark
  <1>2. PICK s \in Chats : s = memory[t].chat
    BY <1>1, Flying
  <1>3. PICK n \in Nat : n = Len(said[s])
    BY DEF MemInv, MemShape
  <1>4. mark' = [mark EXCEPT ![s] = n - KeepCount]
    BY <1>1, <1>2, <1>3 DEF MoveMark, Length
  <1>5. n <= MaxSaid /\ memUsed' \in [said : 0 .. MaxSaid, faults : Nat]
    <2>1. /\ memUsed \in [said : 0 .. MaxSaid, faults : Nat] /\ counted[s] \in Nat
          /\ n <= counted[s] /\ counted[s] <= memUsed.said
      BY <1>3 DEF MemInv, MemShape, MemCounts
    <2>2. memUsed.said \in 0 .. MaxSaid
      BY <2>1
    <2> QED BY <1>1, <2>1, <2>2, MemFacts
  <1>6. /\ mark' \in [Chats -> Int] /\ mark'[s] = n - KeepCount
        /\ \A u \in Chats : u # s => mark'[u] = mark[u]
    BY <1>4, MemFacts DEF MemInv, MemShape
  <1>7. -KeepCount <= mark'[s] /\ mark'[s] <= MaxSaid
    BY <1>5, <1>6, MemFacts
  <1>8. calm[s] => 0 <= mark'[s] /\ (mark'[s] > 0 => mark'[s] <= Len(said[s]) - KeepCount)
    BY <1>2, <1>3, <1>6, MemFacts DEF MemInv, MemRange
  <1>9. ASSUME \A u \in Chats : calm[u] PROVE \A f \in Memories : Passed(s)' \subseteq Held(f)'
    <2>1. MemTold(memory[t]) /\ \A f \in Memories : Passed(s) \subseteq Held(f)
      BY <1>9 DEF MemInv, MemKept
    <2>2. \A f \in Memories : memory[t].batch \subseteq Held(f)
      BY <1>1, <2>1 DEF MemTold, Behind
    <2>3. memory[t].batch = ToTake(s) /\ mark[s] \in Int
      BY <1>2, <1>9 DEF MemInv, MemRange, MemShape
    <2>4. \A i \in 1 .. n - KeepCount : i \in 1 .. mark[s] \/ i \in mark[s] + 1 .. n - KeepCount
      BY <2>3, MemFacts
    <2>5. Passed(s)' \subseteq Passed(s) \cup ToTake(s)
      BY <1>1, <1>3, <1>6, <2>4 DEF Passed, ToTake
    <2>6. \A f \in Memories : Held(f)' = Held(f)
      BY <1>1 DEF Held
    <2> QED BY <2>1, <2>2, <2>3, <2>5, <2>6
  <1>10. files' \in MemFiles /\ missed' \in MemFiles /\ \A f \in Memories : Held(f) \subseteq Held(f)'
    BY <1>1 DEF Held, MemInv, MemShape
  <1> QED BY <1>1, <1>2, <1>5, <1>6, <1>7, <1>8, <1>9, <1>10, BatchOver

\* What a read, and what a write, makes of a consolidation.
LEMMA ReadIs ==
    ASSUME MemShape, NEW t \in MemTasks, NEW to \in MemSteps, NEW x \in SUBSET Notes,
           MemReads(t, to, x)
    PROVE  \E r \in MemRecords :
             /\ MemBecomes(t, r) /\ r.pc = to /\ r.chat = memory[t].chat
             /\ r.batch = memory[t].batch /\ r.read = x /\ r.log = memory[t].log
  <1>1. PICK m, p, q : m = memory[t] /\ p = [m EXCEPT !.pc = to] /\ q = [p EXCEPT !.read = x]
    OBVIOUS
  <1>2. p \in MemRecords /\ p.pc = to /\ p.chat = m.chat /\ p.batch = m.batch /\ p.log = m.log
    BY <1>1 DEF MemShape, MemRecords
  <1>3. q \in MemRecords /\ q.pc = to /\ q.chat = m.chat /\ q.batch = m.batch /\ q.read = x /\ q.log = m.log
    BY <1>1, <1>2 DEF MemRecords
  <1>4. memory' = [memory EXCEPT ![t] = q]
    BY <1>1 DEF MemShape, MemReads, MemLogs
  <1>5. MemBecomes(t, q)
    BY <1>4 DEF MemBecomes
  <1> QED BY <1>1, <1>3, <1>5

LEMMA LogIs ==
    ASSUME MemShape, NEW t \in MemTasks, NEW to \in MemSteps, NEW x \in SUBSET Notes,
           MemLogs(t, to, x)
    PROVE  \E r \in MemRecords :
             /\ MemBecomes(t, r) /\ r.pc = to /\ r.chat = memory[t].chat
             /\ r.batch = memory[t].batch /\ r.read = memory[t].read /\ r.log = x
  <1>1. PICK m, p, q : m = memory[t] /\ p = [m EXCEPT !.pc = to] /\ q = [p EXCEPT !.log = x]
    OBVIOUS
  <1>2. p \in MemRecords /\ p.pc = to /\ p.chat = m.chat /\ p.batch = m.batch /\ p.read = m.read
    BY <1>1 DEF MemShape, MemRecords
  <1>3. q \in MemRecords /\ q.pc = to /\ q.chat = m.chat /\ q.batch = m.batch /\ q.read = m.read /\ q.log = x
    BY <1>1, <1>2 DEF MemRecords
  <1>4. memory' = [memory EXCEPT ![t] = q]
    BY <1>1 DEF MemShape, MemReads, MemLogs
  <1>5. MemBecomes(t, q)
    BY <1>4 DEF MemBecomes
  <1> QED BY <1>1, <1>3, <1>5

\* The steps of a consolidation have names.
LEMMA StepNames ==
    /\ "history" \in MemSteps /\ "ask" \in MemSteps /\ "write" \in MemSteps /\ "write history" \in MemSteps
    /\ "agent" \in MemSteps /\ "ask agent" \in MemSteps /\ "write agent" \in MemSteps /\ "mark" \in MemSteps
    /\ "memory" \in MemSteps
  BY DEF MemSteps

\* Where the sessions stay calm, what was told is still told.
LEMMA MemReadKeeps == ASSUME MemInv, NEW t \in MemTasks, ReadFile(t) PROVE MemInv'
  <1>0. MemShape
    BY DEF MemInv
  <1>1. PICK m : m = memory[t]
    OBVIOUS
  <1>2. /\ UNCHANGED <<said, mark, files, missed, counted, memUsed, calm>>
        /\ files \in MemFiles /\ missed \in MemFiles /\ memUsed \in [said : 0 .. MaxSaid, faults : Nat] /\ calm \in [Chats -> BOOLEAN]
        /\ files["memory"] \in SUBSET Notes /\ files["history"] \in SUBSET Notes /\ files["agent"] \in SUBSET Notes
    BY DEF ReadFile, MemInv, MemShape, MemFiles, Memories
  <1>3. (\A s \in Chats : calm[s]) => MemTold(m)
    BY <1>1 DEF MemInv, MemKept
  <1>4. PICK r \in MemRecords :
          /\ m.pc # "none" /\ MemBecomes(t, r) /\ r.pc # "none"
          /\ r.chat = m.chat /\ r.batch = m.batch /\ (MemTold(m) => MemTold(r))
    <2>1. CASE m.pc = "memory"
      <3>1. MemReads(t, "history", files["memory"])
        BY <1>1, <2>1 DEF ReadFile, MemReads
      <3>2. PICK x \in SUBSET Notes : x = files["memory"]
        BY <1>2
      <3>3. PICK to \in MemSteps : to = "history"
        BY StepNames
      <3>4. MemReads(t, to, x)
        BY <3>1, <3>2, <3>3
      <3>5. PICK r \in MemRecords :
              /\ MemBecomes(t, r) /\ r.pc = to /\ r.chat = memory[t].chat
              /\ r.batch = memory[t].batch /\ r.read = x /\ r.log = memory[t].log
        BY <1>0, <3>4, ReadIs
      <3> QED BY <1>1, <2>1, <3>2, <3>3, <3>5 DEF MemTold, Behind
    <2>2. CASE m.pc = "history"
      <3>1. MemLogs(t, "ask", files["history"])
        BY <1>1, <2>2 DEF ReadFile, MemLogs
      <3>2. PICK x \in SUBSET Notes : x = files["history"]
        BY <1>2
      <3>3. PICK to \in MemSteps : to = "ask"
        BY StepNames
      <3>4. MemLogs(t, to, x)
        BY <3>1, <3>2, <3>3
      <3>5. PICK r \in MemRecords :
              /\ MemBecomes(t, r) /\ r.pc = to /\ r.chat = memory[t].chat
              /\ r.batch = memory[t].batch /\ r.read = memory[t].read /\ r.log = x
        BY <1>0, <3>4, LogIs
      <3> QED BY <1>1, <2>2, <3>2, <3>3, <3>5 DEF MemTold, Behind
    <2>3. CASE m.pc = "agent"
      <3>1. MemReads(t, "ask agent", files["agent"])
        BY <1>1, <2>3 DEF ReadFile, MemReads
      <3>2. PICK x \in SUBSET Notes : x = files["agent"]
        BY <1>2
      <3>3. PICK to \in MemSteps : to = "ask agent"
        BY StepNames
      <3>4. MemReads(t, to, x)
        BY <3>1, <3>2, <3>3
      <3>5. PICK r \in MemRecords :
              /\ MemBecomes(t, r) /\ r.pc = to /\ r.chat = memory[t].chat
              /\ r.batch = memory[t].batch /\ r.read = x /\ r.log = memory[t].log
        BY <1>0, <3>4, ReadIs
      <3> QED BY <1>1, <2>3, <3>2, <3>3, <3>5 DEF MemTold, Behind
    <2> QED BY <1>1, <2>1, <2>2, <2>3 DEF ReadFile
  <1>5. \A f \in Memories : Held(f)' = Held(f)
    BY <1>2 DEF Held
  <1>6. (\A s \in Chats : calm[s]) => MemTold(r)'
    BY <1>2, <1>3, <1>4, <1>5 DEF MemTold, Behind
  <1> QED BY <1>1, <1>2, <1>4, <1>5, <1>6, BatchGoesOn DEF MemBecomes

\* An answer, and what comes with it.
MemAnswers(t, to, x) == memory' = [memory EXCEPT ![t].pc = to, ![t].answer = x]
LEMMA AnswerIs ==
    ASSUME MemShape, NEW t \in MemTasks, NEW to \in MemSteps, NEW x \in SUBSET Memories,
           MemAnswers(t, to, x)
    PROVE  \E r \in MemRecords :
             /\ MemBecomes(t, r) /\ r.pc = to /\ r.chat = memory[t].chat
             /\ r.batch = memory[t].batch /\ r.read = memory[t].read /\ r.log = memory[t].log /\ r.answer = x
  <1>1. PICK m, p, q : m = memory[t] /\ p = [m EXCEPT !.pc = to] /\ q = [p EXCEPT !.answer = x]
    OBVIOUS
  <1>2. p \in MemRecords /\ p.pc = to /\ p.chat = m.chat /\ p.batch = m.batch /\ p.read = m.read /\ p.log = m.log
    BY <1>1 DEF MemShape, MemRecords
  <1>3. /\ q \in MemRecords /\ q.pc = to /\ q.chat = m.chat /\ q.batch = m.batch /\ q.read = m.read
        /\ q.log = m.log /\ q.answer = x
    BY <1>1, <1>2 DEF MemRecords
  <1>4. memory' = [memory EXCEPT ![t] = q]
    BY <1>1 DEF MemShape, MemAnswers
  <1>5. MemBecomes(t, q)
    BY <1>4 DEF MemBecomes
  <1> QED BY <1>1, <1>3, <1>5

LEMMA ExtractKeeps == ASSUME MemInv, NEW t \in MemTasks, Extract(t) PROVE MemInv'
  <1>0. MemShape
    BY DEF MemInv
  <1>1. PICK m \in MemRecords : m = memory[t]
    BY <1>0 DEF MemShape
  <1>2. /\ UNCHANGED <<said, mark, files, counted, calm>> /\ calm \in [Chats -> BOOLEAN]
        /\ files \in [Memories -> SUBSET Notes] /\ missed \in [Memories -> SUBSET Notes]
        /\ m.batch \in SUBSET Notes
    BY <1>1 DEF Extract, MemInv, MemShape, MemFiles, MemRecords
  <1>3. PICK wanted \in SUBSET Memories : wanted = IF m.pc = "ask" THEN {"memory", "history"} ELSE {"agent"}
    BY DEF Memories
  <1>4. PICK to \in MemSteps : to = IF m.pc = "ask" THEN "write" ELSE "write agent"
    BY StepNames
  <1>5. PICK answer \in SUBSET wanted :
          /\ IF answer = wanted THEN UNCHANGED memUsed ELSE MemFault
          /\ MemAnswers(t, to, answer)
          /\ missed' = [f \in Memories |-> IF f \in wanted \ answer THEN missed[f] \cup m.batch ELSE missed[f]]
    <2>1. PICK answer \in SUBSET (IF memory[t].pc = "ask" THEN {"memory", "history"} ELSE {"agent"}) :
          /\ IF answer = (IF memory[t].pc = "ask" THEN {"memory", "history"} ELSE {"agent"})
             THEN UNCHANGED memUsed ELSE MemFault
          /\ memory' = [memory EXCEPT ![t].pc = IF memory[t].pc = "ask" THEN "write" ELSE "write agent",
                                     ![t].answer = answer]
          /\ missed' = [f \in Memories |-> IF f \in (IF memory[t].pc = "ask" THEN {"memory", "history"} ELSE {"agent"}) \ answer
                                        THEN missed[f] \cup memory[t].batch ELSE missed[f]]
      BY Zenon DEF Extract
    <2>2. wanted = (IF memory[t].pc = "ask" THEN {"memory", "history"} ELSE {"agent"})
      BY <1>1, <1>3
    <2>3. to = (IF memory[t].pc = "ask" THEN "write" ELSE "write agent")
      BY <1>1, <1>4
    <2>4. MemAnswers(t, to, answer)
      BY <2>1, <2>3, Zenon DEF MemAnswers
    <2> QED BY <1>1, <2>1, <2>2, <2>4
  <1>6. m.pc \in {"ask", "ask agent"}
    BY <1>1 DEF Extract
  <1>7. memUsed' \in [said : 0 .. MaxSaid, faults : Nat] /\ memUsed'.said = memUsed.said
    <2>1. CASE answer = wanted
      BY <1>0, <1>5, <2>1 DEF MemShape
    <2>2. CASE answer # wanted
      BY <1>0, <1>5, <2>2, FaultIs
    <2> QED BY <2>1, <2>2
  <1>8. PICK r \in MemRecords :
          /\ MemBecomes(t, r) /\ r.pc = to /\ r.chat = m.chat
          /\ r.batch = m.batch /\ r.read = m.read /\ r.log = m.log /\ r.answer = answer
    <2>1. answer \in SUBSET Memories
      BY <1>3, <1>5
    <2> QED BY <1>0, <1>1, <1>5, <2>1, AnswerIs
  <1>9. /\ missed' \in MemFiles /\ files' \in MemFiles
        /\ \A f \in Memories : Held(f) \subseteq Held(f)' /\ (f \in wanted \ answer => m.batch \subseteq Held(f)')
    <2>1. \A f \in Memories : missed'[f] = IF f \in wanted \ answer THEN missed[f] \cup m.batch ELSE missed[f]
      BY <1>5
    <2>2. missed' \in MemFiles
      BY <1>2, <1>5 DEF MemFiles
    <2> QED BY <1>2, <2>1, <2>2 DEF Held, MemFiles
  <1>10. ASSUME \A s \in Chats : calm[s] PROVE MemTold(r)'
    <2>1. MemTold(m)
      BY <1>1, <1>10 DEF MemInv, MemKept
    <2>2. CASE m.pc = "ask"
      <3>1. /\ files["memory"] \subseteq r.read /\ files["history"] \subseteq r.log /\ r.pc = "write"
            /\ wanted = {"memory", "history"}
        BY <1>3, <1>4, <1>8, <2>1, <2>2 DEF MemTold
      <3>2. \A f \in Memories : Behind(r, f) => f \in wanted \ answer
        BY <1>8, <3>1 DEF Behind
      <3> QED BY <1>2, <1>8, <1>9, <3>1, <3>2 DEF MemTold, Behind
    <2>3. CASE m.pc = "ask agent"
      <3>1. files["agent"] \subseteq r.read /\ r.pc = "write agent" /\ wanted = {"agent"}
        BY <1>3, <1>4, <1>8, <2>1, <2>3 DEF MemTold
      <3>2. \A f \in Memories : Behind(r, f) => Behind(m, f) \/ f \in wanted \ answer
        BY <1>8, <2>3, <3>1 DEF Behind, Memories
      <3>3. \A f \in Memories : Behind(r, f) => m.batch \subseteq Held(f)'
        BY <1>9, <2>1, <3>2 DEF MemTold
      <3> QED BY <1>2, <1>8, <3>1, <3>3 DEF MemTold, Behind
    <2> QED BY <1>6, <2>2, <2>3
  <1>11. memory' = [memory EXCEPT ![t] = r] /\ r.pc # "none" /\ memory[t].pc # "none"
    BY <1>1, <1>4, <1>6, <1>8 DEF MemBecomes
  <1> QED BY <1>1, <1>2, <1>7, <1>8, <1>9, <1>10, <1>11, BatchGoesOn

LEMMA WriteKeeps == ASSUME MemInv, NEW t \in MemTasks, WriteFile(t) PROVE MemInv'
  <1>0. MemShape
    BY DEF MemInv
  <1>1. PICK m \in MemRecords : m = memory[t]
    BY <1>0 DEF MemShape
  <1>2. /\ UNCHANGED <<said, mark, counted, memUsed, calm>>
        /\ memUsed \in [said : 0 .. MaxSaid, faults : Nat] /\ calm \in [Chats -> BOOLEAN]
        /\ files \in MemFiles /\ missed \in MemFiles
    BY DEF WriteFile, MemInv, MemShape
  <1>3. PICK f \in Memories, text \in SUBSET Notes, to \in MemSteps :
          f = Target(m.pc) /\ text = NewText(m) /\ to = After(m.pc)
    <2>1. After(m.pc) \in MemSteps
      BY StepNames DEF After
    <2> QED BY <1>0, <2>1, WritesAre
  <1>4. /\ m.pc \in {"write", "write history", "write agent"} /\ MemGoto(t, to)
        /\ IF f \in m.answer THEN files' = [files EXCEPT ![f] = text] /\ missed' = [missed EXCEPT ![f] = @ \ text]
           ELSE UNCHANGED <<files, missed>>
    <2>1. m.pc \in {"write", "write history", "write agent"}
      <3>1. memory[t].pc \in WriteSteps
        BY Zenon DEF WriteFile
      <3> QED BY <1>1, <3>1 DEF WriteSteps
    <2>2. MemGoto(t, After(memory[t].pc)) /\
          IF Target(memory[t].pc) \in memory[t].answer
          THEN /\ files' = [files EXCEPT ![Target(memory[t].pc)] = NewText(memory[t])]
               /\ missed' = [missed EXCEPT ![Target(memory[t].pc)] = @ \ NewText(memory[t])]
          ELSE UNCHANGED <<files, missed>>
      BY Zenon DEF WriteFile
    <2>3. f = Target(memory[t].pc) /\ text = NewText(memory[t]) /\ to = After(memory[t].pc)
      BY <1>1, <1>3
    <2> QED BY <1>1, <2>1, <2>2, <2>3
  <1>5. PICK r \in MemRecords :
          /\ MemBecomes(t, r) /\ r.pc = to /\ r.chat = m.chat
          /\ r.batch = m.batch /\ r.read = m.read /\ r.log = m.log /\ r.answer = m.answer
    BY <1>0, <1>1, <1>4, GotoIs
  <1>6. /\ m.batch \subseteq text
        /\ m.pc = "write" => f = "memory" /\ to = "write history" /\ m.read \subseteq text
        /\ m.pc = "write history" => f = "history" /\ to = "agent" /\ m.log \subseteq text
        /\ m.pc = "write agent" => f = "agent" /\ to = "mark" /\ m.read \subseteq text
    BY <1>0, <1>3, WritesAre
  <1>7. /\ files' \in MemFiles /\ missed' \in MemFiles
        /\ f \in m.answer => files'[f] = text
        /\ \A g \in Memories : g # f => files'[g] = files[g] /\ missed'[g] = missed[g]
        /\ f \notin m.answer => files'[f] = files[f]
    <2>1. CASE f \in m.answer
      BY <1>2, <1>4, <2>1 DEF MemFiles
    <2>2. CASE f \notin m.answer
      BY <1>2, <1>4, <2>2
    <2> QED BY <2>1, <2>2
  <1>8. ASSUME \A s \in Chats : calm[s] PROVE \A g \in Memories : Held(g) \subseteq Held(g)'
    <2>1. MemTold(m)
      BY <1>1, <1>8 DEF MemInv, MemKept
    <2>2. CASE f \in m.answer
      <3>1. missed'[f] = missed[f] \ text
        BY <1>2, <1>4, <2>2 DEF MemFiles
      <3>2. files[f] \subseteq text
        BY <1>4, <1>6, <2>1 DEF MemTold
      <3> QED BY <1>7, <2>2, <3>1, <3>2 DEF Held
    <2>3. CASE f \notin m.answer
      BY <1>4, <2>3 DEF Held
    <2> QED BY <2>2, <2>3
  <1>9. ASSUME \A s \in Chats : calm[s] PROVE MemTold(r)'
    <2>1. MemTold(m) /\ \A g \in Memories : Held(g) \subseteq Held(g)'
      BY <1>1, <1>8, <1>9 DEF MemInv, MemKept
    <2>2. m.batch \subseteq Held(f)'
      <3>1. CASE f \in m.answer
        BY <1>6, <1>7, <3>1 DEF Held
      <3>2. CASE f \notin m.answer
        <4>1. Behind(m, f)
          BY <1>4, <1>6, <3>2 DEF Behind
        <4> QED BY <2>1, <4>1 DEF MemTold
      <3> QED BY <3>1, <3>2
    <2>3. \A g \in Memories : Behind(r, g) => g = f \/ Behind(m, g)
      <3>1. CASE m.pc = "write"
        BY <1>5, <1>6, <3>1 DEF Behind
      <3>2. CASE m.pc = "write history"
        <4>1. r.pc = "agent" /\ f = "history"
          BY <1>5, <1>6, <3>2
        <4>2. \A g \in Memories : Behind(r, g) => g = "memory" \/ g = "history"
          BY <4>1 DEF Behind
        <4>3. \A g : g = "memory" => Behind(m, g)
          BY <3>2 DEF Behind
        <4> QED BY <4>1, <4>2, <4>3
      <3>3. CASE m.pc = "write agent"
        BY <1>5, <1>6, <3>3 DEF Behind, Memories
      <3> QED BY <1>4, <3>1, <3>2, <3>3
    <2>4. \A g \in Memories : Behind(r, g) => r.batch \subseteq Held(g)'
      BY <1>5, <2>1, <2>2, <2>3 DEF MemTold
    <2>5. CASE m.pc = "write"
      <3>1. r.pc = "write history" /\ files["history"] \subseteq r.log
        BY <1>5, <1>6, <2>1, <2>5 DEF MemTold
      <3>2. files'["history"] = files["history"]
        BY <1>6, <1>7, <2>5 DEF Memories
      <3> QED BY <2>4, <3>1, <3>2 DEF MemTold, Behind
    <2>6. CASE m.pc = "write history"
      BY <1>5, <1>6, <2>4, <2>6 DEF MemTold, Behind
    <2>7. CASE m.pc = "write agent"
      BY <1>5, <1>6, <2>4, <2>7 DEF MemTold, Behind
    <2> QED BY <1>4, <2>5, <2>6, <2>7
  <1>10. memory' = [memory EXCEPT ![t] = r] /\ r.pc # "none" /\ memory[t].pc # "none"
    BY <1>1, <1>4, <1>5, <1>6 DEF MemBecomes
  <1> QED BY <1>1, <1>2, <1>5, <1>7, <1>8, <1>9, <1>10, BatchGoesOn

\* What is to be consolidated is said, and in a calm session it lies between
\* the mark and what is kept.
LEMMA ToConsolidateIs ==
    ASSUME MemInv, NEW s \in Chats
    PROVE  /\ ToConsolidate(s) \subseteq 1 .. MaxSaid
           /\ calm[s] /\ Len(said[s]) > KeepCount /\ Len(said[s]) - mark[s] > 0 =>
                {<<s, n>> : n \in ToConsolidate(s)} = ToTake(s)
  <1>1. PICK n \in Nat : n = Len(said[s])
    BY DEF MemInv, MemShape
  <1>2. mark[s] \in Int /\ -KeepCount \in Int
    BY MemFacts DEF MemInv, MemShape
  <1>3. PICK a \in Nat, b \in Nat :
          /\ a = Place(mark[s], n) /\ b = (IF KeepCount = 0 THEN n ELSE Place(-KeepCount, n))
          /\ a <= n /\ b <= n
          /\ 0 <= mark[s] /\ mark[s] < n => a = mark[s]
          /\ n > KeepCount => b = n - KeepCount
    <2>1. /\ Place(mark[s], n) = IF mark[s] < 0 THEN (IF n + mark[s] >= 0 THEN n + mark[s] ELSE 0)
                                 ELSE (IF mark[s] <= n THEN mark[s] ELSE n)
          /\ Place(-KeepCount, n) = IF -KeepCount < 0 THEN (IF n + (-KeepCount) >= 0 THEN n + (-KeepCount) ELSE 0)
                                    ELSE (IF -KeepCount <= n THEN -KeepCount ELSE n)
      BY <1>2, PlaceIs
    <2> QED BY <1>2, <2>1, MemFacts
  <1>4. ToConsolidate(s) = {said[s][i] : i \in a + 1 .. b}
    BY <1>1, <1>3 DEF ToConsolidate, Length
  <1>5. \A i \in a + 1 .. b : i \in 1 .. n
    BY <1>3
  <1>6. \A i \in 1 .. n : said[s][i] \in 1 .. MaxSaid
    <2>1. /\ \A i \in 1 .. n : said[s][i] \in 1 .. counted[s]
          /\ counted[s] \in Nat /\ counted[s] <= memUsed.said /\ memUsed.said \in 0 .. MaxSaid
      BY <1>1 DEF MemInv, MemShape, MemCounts
    <2> QED BY <2>1, MemFacts
  <1>7. ASSUME calm[s], n > KeepCount, n - mark[s] > 0
        PROVE  {<<s, k>> : k \in ToConsolidate(s)} = ToTake(s)
    <2>1. 0 <= mark[s]
      BY <1>7 DEF MemInv, MemRange
    <2>2. a = mark[s] /\ b = n - KeepCount
      BY <1>2, <1>3, <1>7, <2>1
    <2>3. ToConsolidate(s) = {said[s][i] : i \in mark[s] + 1 .. Len(said[s]) - KeepCount}
      BY <1>1, <1>4, <2>2
    <2> QED BY <2>3 DEF ToTake
  <1> QED BY <1>1, <1>4, <1>5, <1>6, <1>7

LEMMA ConsolidateKeeps ==
    ASSUME MemInv, NEW t \in MemTasks, NEW s \in Chats, Consolidate(t, s) PROVE MemInv'
  <1>1. /\ memory[t] = NoTask /\ UNCHANGED <<said, mark, files, missed, counted, memUsed>>
        /\ Len(said[s]) > KeepCount /\ Len(said[s]) - mark[s] > 0 /\ ToConsolidate(s) # {}
    BY DEF Consolidate, Length
  <1>2. PICK X : X = (IF InFlight = {} THEN {} ELSE {s} \cup {memory[u].chat : u \in InFlight})
    OBVIOUS
  <1>3. calm' \in [Chats -> BOOLEAN] /\ \A w \in Chats : calm'[w] => calm[w] /\ w \notin X
    BY <1>2, DisturbCalms DEF Consolidate, MemInv
  <1>4. PICK B : B = {<<s, n>> : n \in ToConsolidate(s)}
    OBVIOUS
  <1>5. B \in SUBSET Notes /\ B # {}
    <2>1. PICK C : C = ToConsolidate(s)
      OBVIOUS
    <2>2. C \subseteq 1 .. MaxSaid /\ C # {}
      BY <1>1, <2>1, ToConsolidateIs
    <2>3. B = {<<s, n>> : n \in C}
      BY <1>4, <2>1
    <2>4. \A n \in C : <<s, n>> \in Notes
      BY <2>2 DEF Notes
    <2> QED BY <2>2, <2>3, <2>4
  <1>6. PICK p, q, r : p = [NoTask EXCEPT !.pc = "memory"] /\ q = [p EXCEPT !.chat = s] /\ r = [q EXCEPT !.batch = B]
    OBVIOUS
  <1>7. r \in MemRecords /\ r.pc = "memory" /\ r.chat = s /\ r.batch = B
    <2>1. p \in MemRecords /\ p.pc = "memory"
      <3>1. "memory" \in MemSteps
        BY StepNames
      <3> QED BY <1>6, <3>1, MemNoTask DEF MemRecords
    <2>2. q \in MemRecords /\ q.pc = "memory" /\ q.chat = s
      BY <1>6, <2>1 DEF MemRecords
    <2> QED BY <1>5, <1>6, <2>2 DEF MemRecords
  <1>8. memory' = [memory EXCEPT ![t] = r]
    BY <1>4, <1>6 DEF Consolidate
  <1>9. /\ memory' \in [MemTasks -> MemRecords] /\ memory'[t] = r
        /\ \A u \in MemTasks : u # t => memory'[u] = memory[u]
    BY <1>7, <1>8, TaskSet DEF MemInv
  <1>10. MemShape'
    BY <1>1, <1>3, <1>9 DEF MemInv, MemShape
  <1>11. MemCounts'
    <2>1. \A u \in Chats :
          /\ counted'[u] <= memUsed'.said /\ Len(said'[u]) <= counted'[u]
          /\ \A i \in 1 .. Len(said'[u]) : said'[u][i] \in 1 .. counted'[u]
          /\ -KeepCount <= mark'[u] /\ mark'[u] <= MaxSaid
      BY <1>1 DEF MemInv, MemCounts
    <2>2. \A u \in MemTasks : IF memory'[u].pc = "none" THEN memory'[u] = NoTask
                              ELSE memory'[u].chat \in Chats /\ memory'[u].batch # {}
      BY <1>5, <1>7, <1>9 DEF MemInv, MemCounts
    <2> QED BY <2>1, <2>2 DEF MemCounts
  <1>12. \A u \in MemTasks : u # t /\ memory'[u].pc # "none" =>
             u \in InFlight /\ ~calm'[s] /\ ~calm'[memory'[u].chat] /\ memory'[u].chat \in Chats
    BY <1>2, <1>3, <1>9, Flying DEF InFlight
  <1>13. MemAlone'
    BY <1>7, <1>9, <1>12 DEF MemAlone, InFlight
  <1>14. MemRange'
    <2> SUFFICES ASSUME NEW u \in Chats, calm'[u]
        PROVE  /\ 0 <= mark[u] /\ (mark[u] > 0 => mark[u] <= Len(said[u]) - KeepCount)
               /\ \A v \in MemTasks : memory'[v].chat = u => Len(said[u]) > KeepCount /\ memory'[v].batch = ToTake(u)'
      BY <1>1 DEF MemRange
    <2>1. ToTake(u)' = ToTake(u)
      BY <1>1 DEF ToTake
    <2>2. ASSUME NEW v \in MemTasks, memory'[v].chat = u
          PROVE  Len(said[u]) > KeepCount /\ memory'[v].batch = ToTake(u)
      <3>1. CASE v = t
        BY <1>1, <1>3, <1>4, <1>7, <1>9, <2>2, <3>1, ToConsolidateIs
      <3>2. CASE v # t
        BY <1>3, <1>9, <2>2, <3>2 DEF MemInv, MemRange
      <3> QED BY <3>1, <3>2
    <2> QED BY <1>3, <2>1, <2>2 DEF MemInv, MemRange
  <1>15. MemKept'
    <2> SUFFICES ASSUME \A u \in Chats : calm'[u]
        PROVE  /\ \A u \in Chats, f \in Memories : Passed(u)' \subseteq Held(f)'
               /\ \A u \in MemTasks : MemTold(memory[u])'
      BY DEF MemKept
    <2>1. \A u \in Chats : Passed(u)' = Passed(u)
      BY <1>1 DEF Passed
    <2>2. \A u \in MemTasks : memory'[u].pc = "none" \/ memory'[u].pc = "memory"
      BY <1>7, <1>9, <1>12
    <2>3. \A u \in MemTasks : MemTold(memory[u])'
      BY <2>2 DEF MemTold, Behind
    <2> QED BY <1>1, <1>3, <2>1, <2>3 DEF MemInv, MemKept, Held
  <1> QED BY <1>10, <1>11, <1>13, <1>14, <1>15 DEF MemInv

\* The mark and the three files agree, for any number of sessions and
\* consolidations: while these do not overlap and the sessions rest, what the
\* mark has passed is in all three files, but for what an answer left out of one
\* and what one held when a write to it failed; and the mark is in range
\* (consolidate_memory, _extract, _write_file).
THEOREM MemoryIsSound == MemSpec => []MemSound
  <1>1. ASSUME MemInv, [MemNext]_memVars PROVE MemInv'
    <2>1. CASE UNCHANGED memVars
      <3>1. UNCHANGED <<said, mark, files, missed, memory, counted, memUsed, calm>>
        BY <2>1 DEF memVars
      <3>2. MemShape' /\ MemCounts' /\ MemAlone'
        BY <1>1, <3>1 DEF MemInv, MemShape, MemCounts, MemAlone, InFlight
      <3>3. \A s \in Chats : ToTake(s)' = ToTake(s) /\ Passed(s)' = Passed(s)
        BY <3>1 DEF ToTake, Passed
      <3>4. MemRange'
        BY <1>1, <3>1, <3>3 DEF MemInv, MemRange
      <3>5. MemKept'
        BY <1>1, <3>1, <3>3 DEF MemInv, MemKept, MemTold, Behind, Held
      <3> QED BY <3>2, <3>4, <3>5 DEF MemInv
    <2>2. CASE MemNext
      BY <1>1, <2>2, SayKeeps, ClearKeeps, ConsolidateKeeps, MemReadKeeps, ExtractKeeps,
         WriteKeeps, RaisesKeep, MarkKeeps DEF MemNext, MemStep
    <2> QED BY <1>1, <2>1, <2>2
  <1> QED BY <1>1, MemInitInv, MemServes, PTL DEF MemSpec

-----------------------------------------------------------------------------
(***************************************************************************)
(* Recursive functions.  What the definition of a recursive function       *)
(* chooses is known to exist only when it is shown that it does: step      *)
(* after step, upwards from 0 or downwards from the last number.           *)
(***************************************************************************)

\* Upwards to n.
LEMMA UpTo0 == ASSUME NEW n \in Nat, NEW T, 0 \in T, \A k \in 0 .. n - 1 : k \in T => k + 1 \in T PROVE 0 .. n \subseteq T
  <1> DEFINE U == {k \in Nat : k <= n => k \in T}
  <1>1. 0 \in U
    OBVIOUS
  <1>2. ASSUME NEW k \in Nat, k \in U PROVE k + 1 \in U
    <2>1. CASE k + 1 <= n
      BY <1>2, <2>1
    <2>2. CASE ~(k + 1 <= n)
      BY <2>2
    <2> QED BY <2>1, <2>2
  <1> HIDE DEF U
  <1>3. Nat \subseteq U
    BY <1>1, <1>2, Induct
  <1> QED BY <1>3 DEF U
\* Downwards to 1, from every later number.
LEMMA DownTo1 == ASSUME NEW n \in Nat, NEW T, \A k \in 1 .. n : (\A j \in k + 1 .. n : j \in T) => k \in T PROVE 1 .. n \subseteq T
  <1> DEFINE U == {m \in 0 .. n : \A j \in n - m + 1 .. n : j \in T}
  <1>1. 0 \in U
    OBVIOUS
  <1>2. ASSUME NEW m \in 0 .. n - 1, m \in U PROVE m + 1 \in U
    <2>1. n - m \in 1 .. n /\ \A j \in (n - m) + 1 .. n : j \in T
      BY <1>2
    <2>2. n - m \in T
      BY <2>1
    <2>3. \A j \in n - (m + 1) + 1 .. n : j = n - m \/ j \in n - m + 1 .. n
      OBVIOUS
    <2> QED BY <2>1, <2>2, <2>3
  <1>3. n \in U
    <2> HIDE DEF U
    <2>1. 0 .. n \subseteq U
      BY <1>1, <1>2, UpTo0
    <2> QED BY <2>1
  <1> QED BY <1>3

\* Every value follows from the one before.
Follows(f, V, base, n, G) ==
    f \in [0 .. n -> V] /\ f[0] = base /\ \A k \in 1 .. n : f[k] = G[<<k, f[k - 1]>>]
LEMMA Recursion ==
    ASSUME NEW V, NEW base \in V, NEW n \in Nat, NEW G \in [(1 .. n) \X V -> V]
    PROVE  \E f : Follows(f, V, base, n, G)
  <1> DEFINE T == {m \in 0 .. n : \E f \in [0 .. m -> V] : f[0] = base /\ \A k \in 1 .. m : f[k] = G[<<k, f[k - 1]>>]}
  <1>1. 0 \in T
    <2> DEFINE g == [k \in 0 .. 0 |-> base]
    <2>1. g \in [0 .. 0 -> V] /\ g[0] = base
      OBVIOUS
    <2>2. \A k \in 1 .. 0 : FALSE
      OBVIOUS
    <2> HIDE DEF g
    <2> QED BY <2>1, <2>2
  <1>2. ASSUME NEW m \in 0 .. n - 1, m \in T PROVE m + 1 \in T
    <2>1. PICK f \in [0 .. m -> V] : f[0] = base /\ \A k \in 1 .. m : f[k] = G[<<k, f[k - 1]>>]
      BY <1>2
    <2> DEFINE last == G[<<m + 1, f[m]>>]
               g == [k \in 0 .. m + 1 |-> IF k = m + 1 THEN last ELSE f[k]]
    <2>2. last \in V
      OBVIOUS
    <2>3. g \in [0 .. m + 1 -> V]
      <3> HIDE DEF last
      <3> QED BY <2>2
    <2>4. g[0] = base
      BY <2>1
    <2>5. ASSUME NEW k \in 1 .. m + 1 PROVE g[k] = G[<<k, g[k - 1]>>]
      <3>1. CASE k = m + 1
        <4>1. g[m + 1] = last /\ g[m] = f[m] /\ k - 1 = m
          BY <3>1
        <4> QED BY <4>1, <3>1
      <3>2. CASE k \in 1 .. m
        <4>1. g[k] = f[k] /\ g[k - 1] = f[k - 1]
          BY <3>2
        <4> QED BY <4>1, <3>2, <2>1
      <3> QED BY <3>1, <3>2
    <2> HIDE DEF g
    <2>6. m + 1 \in 0 .. n
      OBVIOUS
    <2> QED BY <2>3, <2>4, <2>5, <2>6
  <1>3. n \in T
    <2> HIDE DEF T
    <2>1. 0 .. n \subseteq T
      BY <1>1, <1>2, UpTo0
    <2> QED BY <2>1
  <1>4. PICK f \in [0 .. n -> V] : f[0] = base /\ \A k \in 1 .. n : f[k] = G[<<k, f[k - 1]>>]
    BY <1>3
  <1>5. Follows(f, V, base, n, G)
    BY <1>4 DEF Follows
  <1> QED BY <1>5

\* Every value follows from one further on.
Precedes(f, V, base, n, G, next) ==
    f \in [1 .. n + 1 -> V] /\ f[n + 1] = base /\ \A k \in 1 .. n : f[k] = G[<<k, f[next[k]]>>]
LEMMA RecursionDown ==
    ASSUME NEW V, NEW base \in V, NEW n \in Nat, NEW G \in [(1 .. n) \X V -> V],
           NEW next \in [1 .. n -> 1 .. n + 1], \A k \in 1 .. n : next[k] > k
    PROVE  \E f : Precedes(f, V, base, n, G, next)
  <1> DEFINE T == {m \in 0 .. n : \E f \in [n + 1 - m .. n + 1 -> V] :
                       f[n + 1] = base /\ \A k \in n + 1 - m .. n : f[k] = G[<<k, f[next[k]]>>]}
  <1>1. 0 \in T
    <2> DEFINE g == [k \in n + 1 - 0 .. n + 1 |-> base]
    <2>1. g \in [n + 1 - 0 .. n + 1 -> V] /\ g[n + 1] = base
      OBVIOUS
    <2>2. \A k \in n + 1 - 0 .. n : FALSE
      OBVIOUS
    <2> HIDE DEF g
    <2> QED BY <2>1, <2>2
  <1>2. ASSUME NEW m \in 0 .. n - 1, m \in T PROVE m + 1 \in T
    <2>1. PICK f \in [n + 1 - m .. n + 1 -> V] : f[n + 1] = base /\ \A k \in n + 1 - m .. n : f[k] = G[<<k, f[next[k]]>>]
      BY <1>2
    <2> DEFINE i == n - m
               first == G[<<i, f[next[i]]>>]
               g == [k \in i .. n + 1 |-> IF k = i THEN first ELSE f[k]]
    <2>2. i \in 1 .. n /\ next[i] \in i + 1 .. n + 1 /\ i + 1 = n + 1 - m
      OBVIOUS
    <2>3. first \in V
      BY <2>2
    <2>4. g \in [i .. n + 1 -> V] /\ g[n + 1] = base
      <3>1. \A k \in i .. n + 1 : k = i \/ k \in n + 1 - m .. n + 1
        BY <2>2
      <3>2. n + 1 \in i .. n + 1 /\ n + 1 # i
        BY <2>2
      <3> HIDE DEF first, i
      <3>3. \A k \in i .. n + 1 : (IF k = i THEN first ELSE f[k]) \in V
        BY <2>1, <2>3, <3>1
      <3> QED BY <2>1, <3>2, <3>3
    <2>5. ASSUME NEW k \in i .. n PROVE g[k] = G[<<k, g[next[k]]>>]
      <3>0. next[k] \in k + 1 .. n + 1
        BY <2>2
      <3>1. CASE k = i
        <4>1. g[i] = first /\ g[next[i]] = f[next[i]]
          BY <2>2, <3>0, <3>1
        <4> QED BY <4>1, <3>1
      <3>2. CASE k \in i + 1 .. n
        <4>1. g[k] = f[k] /\ g[next[k]] = f[next[k]]
          BY <2>2, <3>0, <3>2
        <4> QED BY <4>1, <3>2, <2>1, <2>2
      <3>3. k = i \/ k \in i + 1 .. n
        BY <2>2
      <3> HIDE DEF g, first
      <3> QED BY <3>1, <3>2, <3>3
    <2> HIDE DEF g
    <2>6. m + 1 \in 0 .. n /\ i = n + 1 - (m + 1)
      OBVIOUS
    <2> QED BY <2>4, <2>5, <2>6
  <1>3. n \in T
    <2> HIDE DEF T
    <2>1. 0 .. n \subseteq T
      BY <1>1, <1>2, UpTo0
    <2> QED BY <2>1
  <1>4. PICK f \in [1 .. n + 1 -> V] : f[n + 1] = base /\ \A k \in 1 .. n : f[k] = G[<<k, f[next[k]]>>]
    BY <1>3
  <1>5. Precedes(f, V, base, n, G, next)
    BY <1>4 DEF Precedes
  <1> QED BY <1>5

-----------------------------------------------------------------------------
(*****************************************************************************)
(* The tools on files: a file that is read page by page loses no line, and   *)
(* an edit is made whole or not at all.                                      *)
(*****************************************************************************)

LEMMA MinOf2 == ASSUME NEW a \in Int, NEW b \in Int PROVE Min({a, b}) \in {a, b} /\ Min({a, b}) <= a /\ Min({a, b}) <= b
  <1> DEFINE x == IF a <= b THEN a ELSE b
  <1>1. x \in {a, b} /\ \A y \in {a, b} : x =< y
    OBVIOUS
  <1> HIDE DEF x
  <1>2. Min({a, b}) \in {a, b} /\ \A y \in {a, b} : Min({a, b}) =< y
    BY <1>1, Zenon DEF Min
  <1> QED BY <1>2
LEMMA MaxOfUpTo == ASSUME NEW n \in Nat, NEW S \in SUBSET (0 .. n), S # {} PROVE Max(S) \in S /\ \A y \in S : Max(S) >= y
  <1> DEFINE T == {n - k : k \in S}
  <1>1. T \subseteq Nat /\ T # {}
    <2>1. \A k \in S : n - k \in Nat
      OBVIOUS
    <2>2. PICK k \in S : TRUE
      OBVIOUS
    <2>3. n - k \in T
      OBVIOUS
    <2> QED BY <2>1, <2>3
  <1>2. PICK t \in T : \A u \in T : t <= u
    <2> HIDE DEF T
    <2> QED BY <1>1, NatMin
  <1>3. PICK k \in S : t = n - k
    OBVIOUS
  <1>4. \A y \in S : k >= y
    <2> SUFFICES ASSUME NEW y \in S PROVE k >= y
      OBVIOUS
    <2>1. n - y \in T
      OBVIOUS
    <2>2. n - k <= n - y
      BY <2>1, <1>2, <1>3
    <2> QED BY <2>2
  <1> QED BY <1>4, Zenon DEF Max

\* The size of a page, and that of a page of one line.
LEMMA LineIs == ASSUME NEW file \in Seq(Nat), NEW i \in 1 .. Len(file) PROVE LineSize(file, i) \in Nat /\ LineSize(file, i) <= LineLimit
  <1>1. file[i] \in Nat /\ LineLimit \in Nat
    BY OneLineFits
  <1>2. file[i] \in Int /\ LineLimit \in Int
    BY <1>1
  <1>3. LineSize(file, i) \in {file[i], LineLimit} /\ LineSize(file, i) <= LineLimit
    BY <1>2, MinOf2 DEF LineSize
  <1> QED BY <1>1, <1>3
LEMMA PageIs ==
    ASSUME NEW file \in Seq(Nat), NEW off \in Nat \ {0}, NEW n \in Nat, off + n <= Len(file) + 1
    PROVE  PageBytes(file, off, n) \in Int /\ (n = 1 => PageBytes(file, off, n) <= LineLimit)
  <1> DEFINE W == [k \in 1 .. n |-> LineSize(file, off + k - 1)]
             G == [p \in (1 .. n) \X Nat |-> p[2] + W[p[1]]]
             F(f) == [k \in 0 .. n |-> IF k = 0 THEN 0 ELSE f[k - 1] + LineSize(file, off + k - 1)]
             g == CHOOSE f : f = F(f)
  <1>0. Len(file) \in Nat
    OBVIOUS
  <1>1. \A k \in 1 .. n : LineSize(file, off + k - 1) \in Nat /\ LineSize(file, off + k - 1) <= LineLimit
    <2> SUFFICES ASSUME NEW k \in 1 .. n PROVE LineSize(file, off + k - 1) \in Nat /\ LineSize(file, off + k - 1) <= LineLimit
      OBVIOUS
    <2>1. off + k - 1 \in 1 .. Len(file)
      BY <1>0
    <2> QED BY <2>1, LineIs
  <1>2. G \in [(1 .. n) \X Nat -> Nat]
    <2>1. \A p \in (1 .. n) \X Nat : p[1] \in 1 .. n /\ p[2] \in Nat
      OBVIOUS
    <2>2. W \in [1 .. n -> Nat]
      BY <1>1
    <2> HIDE DEF W
    <2>3. \A p \in (1 .. n) \X Nat : p[2] + W[p[1]] \in Nat
      BY <2>1, <2>2
    <2> QED BY <2>3
  <1>3. PICK f \in [0 .. n -> Nat] : f[0] = 0 /\ \A k \in 1 .. n : f[k] = G[<<k, f[k - 1]>>]
    <2>1. 0 \in Nat
      OBVIOUS
    <2> HIDE DEF G
    <2>2. \E f : Follows(f, Nat, 0, n, G)
      BY <1>2, <2>1, Recursion
    <2> QED BY <2>2 DEF Follows
  <1>4. \A k \in 1 .. n : f[k] = f[k - 1] + LineSize(file, off + k - 1)
    <2> SUFFICES ASSUME NEW k \in 1 .. n PROVE f[k] = f[k - 1] + LineSize(file, off + k - 1)
      OBVIOUS
    <2>1. <<k, f[k - 1]>> \in (1 .. n) \X Nat
      OBVIOUS
    <2> QED BY <2>1, <1>3
  <1>5. f = F(f)
    BY <1>3, <1>4
  <1>6. g = F(g)
    <2> HIDE DEF F
    <2> QED BY <1>5, Zenon
  <1>7. PageBytes(file, off, n) = g[n] + n - 1
    BY DEF PageBytes
  <1> HIDE DEF g
  <1>11. \A k \in 1 .. n : g[k] = g[k - 1] + LineSize(file, off + k - 1)
    <2> SUFFICES ASSUME NEW k \in 1 .. n PROVE g[k] = g[k - 1] + LineSize(file, off + k - 1)
      OBVIOUS
    <2>1. k \in 0 .. n /\ k # 0
      OBVIOUS
    <2> QED BY <2>1, <1>6, Zenon
  <1> DEFINE T == {k \in 0 .. n : g[k] \in Nat}
  <1>8. 0 .. n \subseteq T
    <2>1. 0 \in T
      BY <1>6
    <2>2. ASSUME NEW k \in 0 .. n - 1, k \in T PROVE k + 1 \in T
      <3>1. k + 1 \in 1 .. n /\ (k + 1) - 1 = k
        OBVIOUS
      <3> DEFINE size == LineSize(file, off + (k + 1) - 1)
      <3>2. g[k + 1] = g[k] + size
        BY <1>11, <3>1
      <3>3. size \in Nat
        BY <1>1, <3>1
      <3>4. g[k] \in Nat /\ k + 1 \in 0 .. n
        BY <2>2
      <3> HIDE DEF size
      <3>5. g[k + 1] \in Nat
        <4> HIDE DEF T
        <4>1. \A a, b, d : a = b + d /\ b \in Nat /\ d \in Nat => a \in Nat
          OBVIOUS
        <4> QED BY <3>2, <3>3, <3>4, <4>1, Zenon
      <3> QED BY <3>4, <3>5
    <2> HIDE DEF T
    <2> QED BY <2>1, <2>2, UpTo0
  <1>9. g[n] \in Nat
    BY <1>8
  <1>10. ASSUME n = 1 PROVE g[n] <= LineLimit
    <2>1. g[0] = 0 /\ g[1] = g[0] + LineSize(file, off + 1 - 1)
      BY <1>6, <1>10
    <2> QED BY <2>1, <1>1, <1>10
  <1> QED BY <1>7, <1>9, <1>10

\* How many lines a page takes, and how many of them are seen.
LEMMA TakesFits ==
    ASSUME NEW file \in Seq(Nat), NEW off \in Nat \ {0}, NEW lim \in 1 .. PageLimit, off <= Len(file) + 1
    PROVE  /\ PageTakes(file, off, lim) \in Nat /\ off + PageTakes(file, off, lim) <= Len(file) + 1
           /\ off <= Len(file) => PageTakes(file, off, lim) >= 1
  <1> DEFINE M == Min({lim, Len(file) - off + 1})
             S == {0} \cup {n \in 1 .. M : PageBytes(file, off, n) <= ByteLimit}
  <1>0. Len(file) \in Nat /\ PageLimit \in Nat /\ ByteLimit \in Nat /\ LineLimit \in Nat /\ LineLimit <= ByteLimit
    BY OneLineFits
  <1>1. M \in Nat /\ M <= Len(file) - off + 1 /\ (off <= Len(file) => M >= 1)
    <2>1. lim \in Int /\ Len(file) - off + 1 \in Int
      BY <1>0
    <2>2. M \in {lim, Len(file) - off + 1} /\ M <= Len(file) - off + 1
      BY <2>1, MinOf2
    <2> QED BY <1>0, <2>2
  <1> HIDE DEF M
  <1>2. S \in SUBSET (0 .. M) /\ S # {} /\ 0 \in S
    BY <1>1
  <1>3. Max(S) \in S /\ \A y \in S : Max(S) >= y
    <2> HIDE DEF S
    <2> QED BY <1>1, <1>2, MaxOfUpTo
  <1>4. off <= Len(file) => 1 \in S
    <2> SUFFICES ASSUME off <= Len(file) PROVE 1 \in S
      OBVIOUS
    <2>1. PageBytes(file, off, 1) \in Int /\ PageBytes(file, off, 1) <= LineLimit
      BY <1>0, PageIs
    <2>2. PageBytes(file, off, 1) <= ByteLimit
      BY <2>1, <1>0
    <2> QED BY <1>1, <2>2
  <1>5. PageTakes(file, off, lim) = Max(S)
    BY DEF PageTakes, M
  <1> QED BY <1>0, <1>1, <1>2, <1>3, <1>4, <1>5
LEMMA SeenFits ==
    ASSUME NEW file \in Seq(Nat), NEW off \in Nat \ {0}, NEW n \in Nat, off + n <= Len(file) + 1
    PROVE  /\ Seen(file, off, n) \in 0 .. n
           /\ n >= 1 => Seen(file, off, n) >= 1
           /\ NoteSeen(file, off, n) => Seen(file, off, n) = n
  <1> DEFINE FitsIn(m) == Before2 + m <= PageLimit /\ HeadBytes + PageBytes(file, off, m) + m * NumberBytes <= ByteLimit
             S == {0} \cup {m \in 1 .. n : FitsIn(m)}
  <1>0. /\ Len(file) \in Nat /\ PageLimit \in Nat /\ ByteLimit \in Nat /\ LineLimit \in Nat /\ NumberBytes \in Nat /\ HeadBytes \in Nat
        /\ PageLimit > 2 /\ HeadBytes + NumberBytes + LineLimit <= ByteLimit
    BY OneLineFits
  <1>1. S \in SUBSET (0 .. n) /\ S # {}
    OBVIOUS
  <1>2. Max(S) \in S /\ \A y \in S : Max(S) >= y
    <2> HIDE DEF S
    <2> QED BY <1>1, MaxOfUpTo
  <1>3. ~SentWhole(file, off, n) => Seen(file, off, n) = Max(S)
    BY DEF Seen
  <1>4. SentWhole(file, off, n) => Seen(file, off, n) = n
    BY DEF Seen
  <1>5. n >= 1 => 1 \in S
    <2> SUFFICES ASSUME n >= 1 PROVE FitsIn(1)
      OBVIOUS
    <2>1. PageBytes(file, off, 1) \in Int /\ PageBytes(file, off, 1) <= LineLimit
      BY <1>0, PageIs
    <2>2. 1 * NumberBytes = NumberBytes
      BY <1>0
    <2> QED BY <2>1, <2>2, <1>0 DEF Before2
  <1>6. ASSUME ~SentWhole(file, off, n), NoteSeen(file, off, n) PROVE n \in S
    <2>1. TextBytes(file, off, n) <= ByteLimit /\ Before2 + n + 2 <= PageLimit
      BY <1>6 DEF NoteSeen
    <2>2. CASE n = 0
      BY <2>2
    <2>3. CASE n >= 1
      <3>1. PageBytes(file, off, n) \in Int
        BY PageIs
      <3> DEFINE x == n * NumberBytes
      <3>2. x \in Int
        BY <1>0
      <3> HIDE DEF x
      <3>3. HeadBytes + PageBytes(file, off, n) + x <= ByteLimit
        BY <2>1, <3>1, <3>2, <1>0 DEF TextBytes, TailLines, x
      <3>4. Before2 + n <= PageLimit
        BY <2>1, <1>0 DEF Before2
      <3> QED BY <2>3, <3>3, <3>4 DEF x
    <2> QED BY <2>2, <2>3
  <1> HIDE DEF S
  <1>7. Max(S) \in 0 .. n
    BY <1>1, <1>2
  <1>8. n >= 1 => Max(S) >= 1
    BY <1>2, <1>5, <1>7
  <1>9. ~SentWhole(file, off, n) /\ NoteSeen(file, off, n) => Max(S) = n
    BY <1>2, <1>6, <1>7
  <1> QED BY <1>3, <1>4, <1>7, <1>8, <1>9

-----------------------------------------------------------------------------
\* What was seen is of the file, and has no gap before the next offset.
PageInv ==
    /\ readFile \in Seq(Nat)
    /\ reader \in [at : Nat \ {0}, seen : SUBSET (1 .. Len(readFile)), done : BOOLEAN]
    /\ \A i \in 1 .. reader.at - 1 : i \in reader.seen
    /\ reader.done => reader.seen = 1 .. Len(readFile)

LEMMA InitPages == FileInit => PageInv
  <1> SUFFICES ASSUME FileInit PROVE PageInv
    OBVIOUS
  <1>1. readFile \in Seq(Nat) /\ reader = [at |-> 1, seen |-> {}, done |-> FALSE]
    BY FileAssumption DEF FileInit
  <1> QED BY <1>1 DEF PageInv

LEMMA StepPage ==
    ASSUME PageInv, NEW lim \in 1 .. PageLimit, ReadPage(lim)
    PROVE  PageInv'
  <1> DEFINE off == reader.at
             n == PageTakes(readFile, off, lim)
             s == Seen(readFile, off, n)
             seen == off .. off + s - 1
  <1>0. off \in Nat \ {0} /\ Len(readFile) \in Nat /\ readFile \in Seq(Nat) /\ readFile' = readFile /\ ~reader.done
        /\ (readFile = <<>> => Len(readFile) = 0)
    BY DEF PageInv, ReadPage
  <1>1. CASE OutOfRange(readFile, off)
    <2>1. reader' = [reader EXCEPT !.done = TRUE] /\ off > Len(readFile)
      BY <1>0, <1>1 DEF ReadPage, OutOfRange
    <2>2. \A i \in 1 .. Len(readFile) : i \in reader.seen
      BY <1>0, <2>1 DEF PageInv
    <2>3. reader.seen = 1 .. Len(readFile)
      BY <2>2 DEF PageInv
    <2> QED BY <1>0, <2>1, <2>3 DEF PageInv
  <1>2. CASE ~OutOfRange(readFile, off)
    <2>1. off <= Len(readFile) + 1
      BY <1>0, <1>2 DEF OutOfRange
    <2>2. n \in Nat /\ off + n <= Len(readFile) + 1
      BY <1>0, <2>1, TakesFits
    <2>3. reader' = [at |-> IF NoteSeen(readFile, off, n) THEN off + n ELSE off + s,
                     seen |-> reader.seen \cup seen,
                     done |-> NoteSeen(readFile, off, n) /\ ~HasMore(readFile, off, n)]
      BY <1>2 DEF ReadPage, NextOffset, MoreNoted
    <2> HIDE DEF n, off
    <2>4. s \in 0 .. n /\ (NoteSeen(readFile, off, n) => s = n)
      BY <1>0, <2>2, SeenFits
    <2> HIDE DEF s
    <2>5. reader'.at = off + s
      BY <2>3, <2>4
    <2>6. reader'.seen = reader.seen \cup seen /\ reader'.done \in BOOLEAN
      BY <2>3
    <2>6a. reader' \in [at : Nat \ {0}, seen : SUBSET (1 .. Len(readFile)), done : BOOLEAN]
      <3> DEFINE X == reader.seen \cup seen
                 D == NoteSeen(readFile, off, n) /\ ~HasMore(readFile, off, n)
                 A == IF NoteSeen(readFile, off, n) THEN off + n ELSE off + s
      <3>1. X \subseteq 1 .. Len(readFile)
        BY <1>0, <2>2, <2>4 DEF PageInv
      <3>2. A \in Nat \ {0} /\ D \in BOOLEAN
        BY <1>0, <2>2, <2>4
      <3>3. reader' = [at |-> A, seen |-> X, done |-> D]
        BY <2>3
      <3> HIDE DEF X, D, A
      <3> QED BY <3>1, <3>2, <3>3
    <2>7. \A i \in 1 .. off + s - 1 : i \in reader.seen \cup seen
      <3> SUFFICES ASSUME NEW i \in 1 .. off + s - 1 PROVE i \in reader.seen \cup seen
        OBVIOUS
      <3>1. CASE i < off
        BY <1>0, <3>1 DEF PageInv, off
      <3>2. CASE i >= off
        BY <1>0, <2>4, <2>2, <3>2
      <3> QED BY <3>1, <3>2, <1>0, <2>4, <2>2
    <2>8. ASSUME reader'.done PROVE reader'.seen = 1 .. Len(readFile)
      <3>1. NoteSeen(readFile, off, n) /\ ~HasMore(readFile, off, n)
        BY <2>3, <2>8
      <3>2. s = n /\ off + n > Len(readFile)
        BY <3>1, <2>4, <1>0, <2>2 DEF HasMore
      <3>3. \A i \in 1 .. Len(readFile) : i \in 1 .. off + s - 1
        BY <3>2, <1>0, <2>2
      <3> QED BY <3>3, <2>6, <2>6a, <2>7
    <2>9. \A i \in 1 .. reader'.at - 1 : i \in reader'.seen
      <3> HIDE DEF seen
      <3>1. \A i \in 1 .. off + s - 1 : i \in reader'.seen
        BY <2>6, <2>7
      <3>2. reader'.at - 1 = off + s - 1
        BY <2>5, <2>4, <2>2, <1>0
      <3> QED BY <3>1, <3>2
    <2> QED BY <1>0, <2>6a, <2>8, <2>9 DEF PageInv
  <1> QED BY <1>1, <1>2

LEMMA PagesFollow == PageInv => PagesCover
  <1> SUFFICES ASSUME PageInv PROVE PagesCover
    OBVIOUS
  <1>1. DOMAIN readFile = 1 .. Len(readFile) /\ readFile \in Seq(Nat) /\ Len(readFile) \in Nat /\ reader.at \in Nat \ {0}
    <2>1. readFile \in Seq(Nat) /\ reader \in [at : Nat \ {0}, seen : SUBSET (1 .. Len(readFile)), done : BOOLEAN]
      BY DEF PageInv
    <2>2. reader.at \in Nat \ {0}
      BY <2>1
    <2>3. DOMAIN readFile = 1 .. Len(readFile) /\ Len(readFile) \in Nat
      BY <2>1
    <2> QED BY <2>1, <2>2, <2>3, Zenon
  <1>2. ASSUME NEW lim \in 1 .. PageLimit, ~OutOfRange(readFile, reader.at), readFile # <<>>
        PROVE  Seen(readFile, reader.at, PageTakes(readFile, reader.at, lim)) > 0
    <2>1. reader.at <= Len(readFile)
      BY <1>1, <1>2 DEF OutOfRange
    <2> DEFINE n == PageTakes(readFile, reader.at, lim)
    <2>2. n \in Nat /\ reader.at + n <= Len(readFile) + 1 /\ n >= 1
      BY <1>1, <2>1, TakesFits
    <2> HIDE DEF n
    <2>3. Seen(readFile, reader.at, n) \in 0 .. n /\ Seen(readFile, reader.at, n) >= 1
      BY <1>1, <2>2, SeenFits
    <2> QED BY <2>2, <2>3 DEF n
  <1> QED BY <1>1, <1>2 DEF PageInv, PagesCover

\* The places that are counted: from the left, none within another, and none
\* is left that is within none.
CountBody(text, old, f, i) ==
    IF i \in Starts(text, old) THEN {i} \cup f[i + Len(old)]
    ELSE IF i <= Len(text) THEN f[i + 1] ELSE {}
CountIter(text, old) == CHOOSE f : f = [i \in 1 .. Len(text) + 1 |-> CountBody(text, old, f, i)]
LEMMA CountedIs == ASSUME NEW text, NEW old PROVE Counted(text, old) = CountIter(text, old)[1]
  BY DEF Counted, CountIter, CountBody
LEMMA StartsFit ==
    ASSUME NEW text \in Seq(Nat), NEW old \in Seq(Nat), old # <<>>
    PROVE  Len(text) \in Nat /\ Len(old) \in Nat \ {0} /\ \A i \in Starts(text, old) : i \in 1 .. Len(text) /\ i + Len(old) \in i + 1 .. Len(text) + 1
  <1>1. Len(text) \in Nat /\ Len(old) \in Nat \ {0}
    BY EmptySeq
  <1>2. \A i \in Starts(text, old) : i \in 1 .. Len(text) - Len(old) + 1
    BY DEF Starts
  <1> QED BY <1>1, <1>2
LEMMA CountIterIs ==
    ASSUME NEW text \in Seq(Nat), NEW old \in Seq(Nat), old # <<>>
    PROVE  CountIter(text, old) = [i \in 1 .. Len(text) + 1 |-> CountBody(text, old, CountIter(text, old), i)]
  <1> DEFINE N == Len(text)
             St == Starts(text, old)
             next == [i \in 1 .. N |-> IF i \in St THEN i + Len(old) ELSE i + 1]
             G == [p \in (1 .. N) \X SUBSET Nat |-> IF p[1] \in St THEN {p[1]} \cup p[2] ELSE p[2]]
  <1>1. N \in Nat /\ Len(old) \in Nat \ {0} /\ \A i \in St : i \in 1 .. N /\ i + Len(old) \in i + 1 .. N + 1
    BY StartsFit
  <1> HIDE DEF N, St
  <1>2. next \in [1 .. N -> 1 .. N + 1] /\ \A i \in 1 .. N : next[i] > i
    BY <1>1
  <1>3. G \in [(1 .. N) \X SUBSET Nat -> SUBSET Nat]
    <2>1. \A p \in (1 .. N) \X SUBSET Nat : p[1] \in Nat /\ p[2] \in SUBSET Nat
      OBVIOUS
    <2>2. \A p \in (1 .. N) \X SUBSET Nat : {p[1]} \cup p[2] \in SUBSET Nat
      BY <2>1
    <2> QED BY <2>1, <2>2
  <1>4. {} \in SUBSET Nat
    OBVIOUS
  <1>5. \E f : Precedes(f, SUBSET Nat, {}, N, G, next)
    <2> HIDE DEF G, next
    <2> QED BY <1>1, <1>2, <1>3, <1>4, RecursionDown
  <1>6. PICK f : Precedes(f, SUBSET Nat, {}, N, G, next)
    BY <1>5
  <1>7. ASSUME NEW i \in 1 .. N + 1 PROVE f[i] = CountBody(text, old, f, i)
    <2>1. CASE i = N + 1
      <3>1. i \notin St /\ ~(i <= N)
        BY <1>1, <2>1
      <3> QED BY <3>1, <2>1, <1>6 DEF Precedes, CountBody, St, N
    <2>2. CASE i \in 1 .. N
      <3>1. next[i] \in 1 .. N + 1
        BY <1>2, <2>2
      <3>2. f[next[i]] \in SUBSET Nat /\ f[i] = G[<<i, f[next[i]]>>]
        <4> HIDE DEF next, G
        <4> QED BY <3>1, <2>2, <1>6 DEF Precedes
      <3>3. G[<<i, f[next[i]]>>] = IF i \in St THEN {i} \cup f[next[i]] ELSE f[next[i]]
        <4> DEFINE v == f[next[i]]
        <4> HIDE DEF v
        <4>1. v \in SUBSET Nat
          BY <3>2 DEF v
        <4>2. <<i, v>> \in (1 .. N) \X SUBSET Nat /\ <<i, v>>[1] = i /\ <<i, v>>[2] = v
          BY <4>1, <2>2
        <4>3. G[<<i, v>>] = IF i \in St THEN {i} \cup v ELSE v
          BY <4>2
        <4> QED BY <4>3 DEF v
      <3>4. next[i] = IF i \in St THEN i + Len(old) ELSE i + 1
        BY <2>2
      <3>5. i <= N
        BY <1>1, <2>2
      <3> HIDE DEF next, G
      <3> QED BY <3>2, <3>3, <3>4, <3>5 DEF CountBody, St, N
    <2> QED BY <2>1, <2>2, <1>1
  <1>8. f = [i \in 1 .. N + 1 |-> CountBody(text, old, f, i)]
    <2>1. f = [i \in 1 .. N + 1 |-> f[i]]
      <3> HIDE DEF next, G
      <3> QED BY <1>6 DEF Precedes
    <2> QED BY <2>1, <1>7
  <1>9. \E g : g = [i \in 1 .. Len(text) + 1 |-> CountBody(text, old, g, i)]
    BY <1>8 DEF N
  <1> QED BY <1>9, Zenon DEF CountIter

\* What is to be counted from i on.
CountedFrom(text, old, i, at) ==
    /\ at \subseteq Starts(text, old) /\ (\A x \in at : x >= i) /\ Apart(at, old)
    /\ \A x \in Starts(text, old) : x >= i /\ x \notin at => \E y \in at : ~Apart({x, y}, old)
LEMMA OneMore ==
    ASSUME NEW text \in Seq(Nat), NEW old \in Seq(Nat), old # <<>>, NEW i \in Starts(text, old), NEW at,
           CountedFrom(text, old, i + Len(old), at)
    PROVE  CountedFrom(text, old, i, {i} \cup at)
  <1> DEFINE St == Starts(text, old)
             L == Len(old)
             all == {i} \cup at
  <1>1. Len(text) \in Nat /\ L \in Nat \ {0} /\ \A x \in St : x \in Nat
    BY StartsFit
  <1>2. i \in St /\ at \subseteq St /\ (\A x \in at : x >= i + L)
    BY DEF CountedFrom
  <1> HIDE DEF St, L
  <1>3. Apart(all, old)
    <2>1. ASSUME NEW x \in all, NEW y \in all, x < y PROVE x + L <= y
      <3>1. CASE x = i
        BY <1>1, <1>2, <2>1, <3>1
      <3>2. CASE x \in at /\ y \in at
        BY <2>1, <3>2 DEF CountedFrom, Apart, L
      <3>3. CASE x \in at /\ y = i
        BY <1>1, <1>2, <2>1, <3>3
      <3> QED BY <3>1, <3>2, <3>3
    <2> HIDE DEF all
    <2> QED BY <2>1 DEF Apart, L
  <1>4. ASSUME NEW x \in St, x >= i, x \notin all PROVE \E y \in all : ~Apart({x, y}, old)
    <2>1. CASE x >= i + L
      <3>1. \E y \in at : ~Apart({x, y}, old)
        BY <1>4, <2>1 DEF CountedFrom, St, L
      <3> QED BY <3>1
    <2>2. CASE x < i + L
      <3>1. i < x /\ ~(i + L <= x) /\ i \in {x, i} /\ x \in {x, i}
        BY <1>1, <1>2, <1>4, <2>2
      <3>2. ~Apart({x, i}, old)
        BY <3>1 DEF Apart, L
      <3> QED BY <3>2
    <2>3. x \in Nat /\ i \in Nat /\ L \in Nat
      BY <1>1, <1>2
    <2>4. x >= i + L \/ x < i + L
      BY <2>3
    <2> QED BY <2>1, <2>2, <2>4
  <1>5. all \subseteq St /\ \A x \in all : x >= i
    BY <1>1, <1>2
  <1> HIDE DEF all
  <1>6. CountedFrom(text, old, i, all)
    BY <1>3, <1>4, <1>5 DEF CountedFrom, St
  <1> QED BY <1>6 DEF all
LEMMA CountedFits ==
    ASSUME NEW text \in Seq(Nat), NEW old \in Seq(Nat), old # <<>>
    PROVE  CountedFrom(text, old, 1, Counted(text, old))
  <1> DEFINE N == Len(text)
             g == CountIter(text, old)
             T == {i \in 1 .. N + 1 : CountedFrom(text, old, i, g[i])}
  <1>1. N \in Nat /\ Len(old) \in Nat \ {0} /\ \A i \in Starts(text, old) : i \in 1 .. N /\ i + Len(old) \in i + 1 .. N + 1
    BY StartsFit
  <1>2. \A i \in 1 .. N + 1 : g[i] = CountBody(text, old, g, i)
    <2> HIDE DEF g
    <2>1. g = [i \in 1 .. N + 1 |-> CountBody(text, old, g, i)]
      BY CountIterIs DEF g
    <2> QED BY <2>1
  <1> HIDE DEF N, g
  <1>3. ASSUME NEW i \in 1 .. N + 1, \A j \in i + 1 .. N + 1 : j \in T PROVE i \in T
    <2>1. CASE i \in Starts(text, old)
      <3>1. i + Len(old) \in T
        BY <1>1, <1>3, <2>1
      <3>2. CountedFrom(text, old, i, {i} \cup g[i + Len(old)])
        BY <2>1, <3>1, OneMore
      <3>3. g[i] = {i} \cup g[i + Len(old)]
        BY <1>2, <2>1 DEF CountBody
      <3> QED BY <3>2, <3>3
    <2>2. CASE i \notin Starts(text, old) /\ i <= N
      <3>1. i + 1 \in T
        BY <1>1, <1>3, <2>2
      <3>2. g[i] = g[i + 1]
        BY <1>2, <2>2 DEF CountBody, N
      <3>3. CountedFrom(text, old, i + 1, g[i])
        BY <3>1, <3>2
      <3>4. \A x \in Starts(text, old) : x \in Nat /\ (x >= i => x >= i + 1)
        BY <1>1, <2>2
      <3>5. \A x \in g[i] : x >= i
        BY <3>3, <3>4, <1>1 DEF CountedFrom
      <3> QED BY <3>3, <3>4, <3>5 DEF CountedFrom
    <2>3. CASE i \notin Starts(text, old) /\ ~(i <= N)
      <3>1. g[i] = {}
        BY <1>2, <2>3 DEF CountBody, N
      <3>2. \A x \in Starts(text, old) : ~(x >= i)
        BY <1>1, <2>3
      <3> QED BY <3>1, <3>2 DEF CountedFrom, Apart
    <2> QED BY <2>1, <2>2, <2>3
  <1>4. N + 1 \in Nat
    BY <1>1
  <1>5. 1 .. N + 1 \subseteq T
    <2> HIDE DEF T
    <2> QED BY <1>3, <1>4, DownTo1
  <1>6. 1 \in T
    BY <1>1, <1>5
  <1> QED BY <1>6, CountedIs DEF g

\* The text that a replacement makes is a text.
PutBody(text, at, old, new, f, i) ==
    IF i \in at THEN new \o f[i + Len(old)]
    ELSE IF i <= Len(text) THEN <<text[i]>> \o f[i + 1] ELSE <<>>
PutIter(text, at, old, new) == CHOOSE f : f = [i \in 1 .. Len(text) + 1 |-> PutBody(text, at, old, new, f, i)]
LEMMA PutIs == ASSUME NEW text, NEW at, NEW old, NEW new PROVE WithReplaced(text, at, old, new) = PutIter(text, at, old, new)[1]
  BY DEF WithReplaced, PutIter, PutBody
LEMMA PutType ==
    ASSUME NEW text \in Seq(Nat), NEW old \in Seq(Nat), old # <<>>, NEW new \in Seq(Nat), NEW at \in SUBSET Starts(text, old)
    PROVE  WithReplaced(text, at, old, new) \in Seq(Nat)
  <1> DEFINE N == Len(text)
             V == Seq(Nat)
             next == [i \in 1 .. N |-> IF i \in at THEN i + Len(old) ELSE i + 1]
             G == [p \in (1 .. N) \X V |-> IF p[1] \in at THEN new \o p[2] ELSE <<text[p[1]]>> \o p[2]]
             g == PutIter(text, at, old, new)
  <1>1. N \in Nat /\ Len(old) \in Nat \ {0} /\ \A i \in at : i \in 1 .. N /\ i + Len(old) \in i + 1 .. N + 1
    BY StartsFit
  <1>1a. \A i \in 1 .. N : text[i] \in Nat
    OBVIOUS
  <1> HIDE DEF N
  <1>2. next \in [1 .. N -> 1 .. N + 1] /\ \A i \in 1 .. N : next[i] > i
    BY <1>1
  <1>3. G \in [(1 .. N) \X V -> V]
    <2>1. \A p \in (1 .. N) \X V : p[1] \in 1 .. N /\ p[2] \in V
      OBVIOUS
    <2>2. \A p \in (1 .. N) \X V : (IF p[1] \in at THEN new \o p[2] ELSE <<text[p[1]]>> \o p[2]) \in V
      <3> SUFFICES ASSUME NEW p \in (1 .. N) \X V PROVE new \o p[2] \in V /\ <<text[p[1]]>> \o p[2] \in V
        BY Zenon
      <3>1. p[1] \in 1 .. N /\ p[2] \in V
        BY <2>1
      <3>2. <<text[p[1]]>> \in V
        <4>1. text[p[1]] \in Nat
          BY <3>1, <1>1a
        <4> QED BY <4>1
      <3> QED BY <3>1, <3>2, ConcatProperties
    <2> HIDE DEF V
    <2> QED BY <2>2
  <1>4. <<>> \in V
    OBVIOUS
  <1>5. \E f : Precedes(f, V, <<>>, N, G, next)
    <2> HIDE DEF G, next, V
    <2> QED BY <1>1, <1>2, <1>3, <1>4, RecursionDown
  <1>6. PICK f : Precedes(f, V, <<>>, N, G, next)
    BY <1>5
  <1>7. ASSUME NEW i \in 1 .. N + 1 PROVE f[i] = PutBody(text, at, old, new, f, i)
    <2>1. CASE i = N + 1
      <3>1. i \notin at /\ ~(i <= N)
        BY <1>1, <2>1
      <3> QED BY <3>1, <2>1, <1>6 DEF Precedes, PutBody, N
    <2>2. CASE i \in 1 .. N
      <3>1. next[i] \in 1 .. N + 1
        BY <1>2, <2>2
      <3>2. f[next[i]] \in V /\ f[i] = G[<<i, f[next[i]]>>]
        <4> HIDE DEF next, G, V
        <4> QED BY <3>1, <2>2, <1>6 DEF Precedes
      <3>3. G[<<i, f[next[i]]>>] = IF i \in at THEN new \o f[next[i]] ELSE <<text[i]>> \o f[next[i]]
        <4> DEFINE v == f[next[i]]
        <4> HIDE DEF v, V
        <4>1. v \in V
          BY <3>2 DEF v
        <4>2. <<i, v>> \in (1 .. N) \X V /\ <<i, v>>[1] = i /\ <<i, v>>[2] = v
          BY <4>1, <2>2
        <4>3. G[<<i, v>>] = IF i \in at THEN new \o v ELSE <<text[i]>> \o v
          BY <4>2, Zenon
        <4> QED BY <4>3 DEF v
      <3>4. next[i] = IF i \in at THEN i + Len(old) ELSE i + 1
        BY <2>2
      <3>5. i <= N
        BY <1>1, <2>2
      <3> HIDE DEF next, G
      <3> QED BY <3>2, <3>3, <3>4, <3>5 DEF PutBody, N
    <2> QED BY <2>1, <2>2, <1>1
  <1>8. f = [i \in 1 .. N + 1 |-> PutBody(text, at, old, new, f, i)]
    <2>1. f = [i \in 1 .. N + 1 |-> f[i]]
      <3> HIDE DEF next, G, V
      <3> QED BY <1>6 DEF Precedes
    <2> QED BY <2>1, <1>7
  <1>9. g = [i \in 1 .. N + 1 |-> PutBody(text, at, old, new, g, i)]
    <2>1. \E h : h = [i \in 1 .. Len(text) + 1 |-> PutBody(text, at, old, new, h, i)]
      BY <1>8 DEF N
    <2>2. PutIter(text, at, old, new) = [i \in 1 .. Len(text) + 1 |-> PutBody(text, at, old, new, PutIter(text, at, old, new), i)]
      BY <2>1, Zenon DEF PutIter
    <2> QED BY <2>2 DEF N
  <1> HIDE DEF g, G, next
  <1> DEFINE T == {i \in 1 .. N + 1 : g[i] \in V}
  <1>10. ASSUME NEW i \in 1 .. N + 1, \A j \in i + 1 .. N + 1 : j \in T PROVE i \in T
    <2>0. g[i] = PutBody(text, at, old, new, g, i)
      BY <1>9
    <2>1. CASE i \in at
      <3>1. i + Len(old) \in T
        BY <1>1, <1>10, <2>1
      <3>2. g[i] = new \o g[i + Len(old)]
        BY <2>0, <2>1 DEF PutBody
      <3>3. new \o g[i + Len(old)] \in V
        BY <3>1, ConcatProperties
      <3> QED BY <3>2, <3>3
    <2>2. CASE i \notin at /\ i <= N
      <3>1. i + 1 \in T /\ i \in 1 .. N
        BY <1>1, <1>10, <2>2
      <3>2. g[i] = <<text[i]>> \o g[i + 1]
        BY <2>0, <2>2 DEF PutBody, N
      <3>3. <<text[i]>> \in V
        <4>1. text[i] \in Nat
          BY <3>1, <1>1a
        <4> QED BY <4>1
      <3>4. <<text[i]>> \o g[i + 1] \in V
        BY <3>1, <3>3, ConcatProperties
      <3> QED BY <3>2, <3>4
    <2>3. CASE i \notin at /\ ~(i <= N)
      <3>1. g[i] = <<>>
        BY <2>0, <2>3 DEF PutBody, N
      <3> QED BY <3>1, <1>4
    <2> QED BY <2>1, <2>2, <2>3
  <1>11. N + 1 \in Nat
    BY <1>1
  <1>12. 1 .. N + 1 \subseteq T
    <2> HIDE DEF T
    <2> QED BY <1>10, <1>11, DownTo1
  <1>13. 1 \in T
    BY <1>1, <1>12
  <1> QED BY <1>13, PutIs DEF g

\* A step that is not refused replaces what is counted.
LEMMA EditIs ==
    ASSUME NEW text \in Seq(Nat), NEW s \in EditStep, ~Refused(text, s)
    PROVE  /\ EditOnce(text, s) \in Seq(Nat)
           /\ Substituted(text, EditOnce(text, s), s)
  <1> DEFINE at == Counted(text, s.old)
             St == Starts(text, s.old)
  <1>1. s.old \in Seq(Nat) /\ s.new \in Seq(Nat) /\ s.all \in BOOLEAN /\ s.old # <<>> /\ St # {} /\ ~(Cardinality(at) > 1 /\ ~s.all)
    BY DEF EditStep, Refused
  <1>2. CountedFrom(text, s.old, 1, at)
    BY <1>1, CountedFits
  <1>3. Len(text) \in Nat /\ \A i \in St : i \in 1 .. Len(text)
    BY <1>1, StartsFit
  <1> HIDE DEF at, St
  <1>4. at \subseteq St /\ Apart(at, s.old) /\ \A i \in St \ at : \E j \in at : ~Apart({i, j}, s.old)
    <2>1. \A i \in St : i >= 1
      BY <1>3
    <2> QED BY <1>2, <2>1 DEF CountedFrom, St
  <1>5. at # {}
    BY <1>1, <1>4
  <1>6. IsFiniteSet(at) /\ Cardinality(at) \in Nat
    <2>1. IsFiniteSet(1 .. Len(text))
      BY <1>3, FS_Interval
    <2>2. at \in SUBSET (1 .. Len(text))
      BY <1>3, <1>4
    <2> QED BY <2>1, <2>2, FS_Subset, FS_CardinalityType
  <1>7. ~s.all => Cardinality(at) = 1
    <2> SUFFICES ASSUME ~s.all PROVE Cardinality(at) = 1
      OBVIOUS
    <2>1. Cardinality(at) # 0
      BY <1>5, <1>6, FS_EmptySet
    <2>2. ~(Cardinality(at) > 1)
      BY <1>1
    <2> QED BY <1>6, <2>1, <2>2
  <1>8. EditOnce(text, s) = WithReplaced(text, at, s.old, s.new)
    <2>1. CASE s.all
      BY <2>1 DEF EditOnce, at
    <2>2. CASE ~s.all
      <3>1. PICK x : at = {x}
        BY <1>6, <1>7, <2>2, FS_Singleton
      <3>2. x \in Int
        BY <1>3, <1>4, <3>1
      <3>3. Min({x, x}) \in {x, x}
        BY <3>2, MinOf2
      <3>4. {x, x} = {x}
        OBVIOUS
      <3>5. Min(at) = x
        BY <3>1, <3>3, <3>4
      <3>6. EditOnce(text, s) = WithReplaced(text, {Min(at)}, s.old, s.new)
        BY <2>2 DEF EditOnce, at
      <3> QED BY <3>1, <3>5, <3>6
    <2> QED BY <2>1, <2>2
  <1>9. EditOnce(text, s) \in Seq(Nat)
    BY <1>1, <1>4, <1>8, PutType DEF St
  <1>10. Substituted(text, EditOnce(text, s), s)
    BY <1>4, <1>5, <1>7, <1>8 DEF Substituted, St
  <1> QED BY <1>9, <1>10

\* A file as the steps leave it.
StepResult == [ok : BOOLEAN, text : Seq(Nat)]
Stepped(r, s) ==
    IF ~r.ok \/ Refused(r.text, s) THEN [ok |-> FALSE, text |-> r.text]
    ELSE [ok |-> TRUE, text |-> EditOnce(r.text, s)]
LEMMA SteppedType == ASSUME NEW r \in StepResult, NEW s \in EditStep PROVE Stepped(r, s) \in StepResult
  <1>1. r.text \in Seq(Nat)
    BY DEF StepResult
  <1>2. ~Refused(r.text, s) => EditOnce(r.text, s) \in Seq(Nat)
    BY <1>1, EditIs
  <1> QED BY <1>1, <1>2 DEF Stepped, StepResult
LEMMA EachIs ==
    ASSUME NEW text \in Seq(Nat), NEW steps \in Seq(EditStep)
    PROVE  /\ AfterEach(text, steps) \in [0 .. Len(steps) -> StepResult]
           /\ AfterEach(text, steps)[0] = [ok |-> TRUE, text |-> text]
           /\ \A k \in 1 .. Len(steps) : AfterEach(text, steps)[k] = Stepped(AfterEach(text, steps)[k - 1], steps[k])
  <1> DEFINE n == Len(steps)
             base == [ok |-> TRUE, text |-> text]
             G == [p \in (1 .. n) \X StepResult |-> Stepped(p[2], steps[p[1]])]
             F(f) == [k \in 0 .. n |-> IF k = 0 THEN base ELSE Stepped(f[k - 1], steps[k])]
             g == CHOOSE f : f = F(f)
  <1>1. n \in Nat /\ base \in StepResult /\ \A k \in 1 .. n : steps[k] \in EditStep
    BY DEF StepResult
  <1> HIDE DEF n, base
  <1>2. G \in [(1 .. n) \X StepResult -> StepResult]
    <2>1. \A p \in (1 .. n) \X StepResult : p[1] \in 1 .. n /\ p[2] \in StepResult
      OBVIOUS
    <2>2. ASSUME NEW p \in (1 .. n) \X StepResult PROVE Stepped(p[2], steps[p[1]]) \in StepResult
      BY <1>1, <2>1, SteppedType
    <2> QED BY <2>2
  <1>3. PICK f : Follows(f, StepResult, base, n, G)
    <2> HIDE DEF G
    <2> QED BY <1>1, <1>2, Recursion
  <1>4. \A k \in 1 .. n : f[k] = Stepped(f[k - 1], steps[k]) /\ f[k - 1] \in StepResult
    <2> SUFFICES ASSUME NEW k \in 1 .. n PROVE f[k] = Stepped(f[k - 1], steps[k]) /\ f[k - 1] \in StepResult
      OBVIOUS
    <2> DEFINE v == f[k - 1]
    <2>1. v \in StepResult /\ f[k] = G[<<k, v>>]
      <3> HIDE DEF G
      <3>1. k - 1 \in 0 .. n
        BY <1>1
      <3> QED BY <3>1, <1>3 DEF Follows
    <2> HIDE DEF v
    <2>2. <<k, v>> \in (1 .. n) \X StepResult /\ <<k, v>>[1] = k /\ <<k, v>>[2] = v
      BY <2>1
    <2>3. G[<<k, v>>] = Stepped(v, steps[k])
      BY <2>2, Zenon
    <2> QED BY <2>1, <2>3 DEF v
  <1>5. f = F(f) /\ f \in [0 .. n -> StepResult]
    <2> HIDE DEF G
    <2>1. f \in [0 .. n -> StepResult] /\ f[0] = base
      BY <1>3 DEF Follows
    <2> QED BY <2>1, <1>1, <1>4
  <1>6. g = F(g)
    <2> HIDE DEF F
    <2> QED BY <1>5, Zenon
  <1>7. AfterEach(text, steps) = g
    BY DEF AfterEach, Stepped, n, base
  <1> HIDE DEF g, F
  <1>8. \A k \in 0 .. n : g[k] = IF k = 0 THEN base ELSE Stepped(g[k - 1], steps[k])
    BY <1>6 DEF F
  <1> DEFINE T == {k \in 0 .. n : g[k] \in StepResult}
  <1>9. 0 .. n \subseteq T
    <2>1. 0 \in T
      BY <1>1, <1>8
    <2>2. ASSUME NEW k \in 0 .. n - 1, k \in T PROVE k + 1 \in T
      <3>1. k + 1 \in 1 .. n /\ (k + 1) - 1 = k /\ k + 1 # 0 /\ k + 1 \in 0 .. n
        BY <1>1
      <3>2. g[k + 1] = Stepped(g[k], steps[k + 1])
        BY <1>8, <3>1
      <3>3. g[k + 1] \in StepResult
        BY <1>1, <2>2, <3>1, <3>2, SteppedType
      <3> QED BY <3>1, <3>3
    <2> HIDE DEF T
    <2> QED BY <1>1, <2>1, <2>2, UpTo0
  <1>10. g \in [0 .. n -> StepResult]
    <2>1. g = [k \in 0 .. n |-> g[k]]
      BY <1>6 DEF F
    <2> HIDE DEF T
    <2>2. \A k \in 0 .. n : g[k] \in StepResult
      BY <1>9 DEF T
    <2> QED BY <2>1, <2>2
  <1>11. g[0] = base /\ \A k \in 1 .. n : g[k] = Stepped(g[k - 1], steps[k])
    BY <1>1, <1>8
  <1> QED BY <1>7, <1>10, <1>11 DEF n, base

\* Steps that all succeeded are made on the result of the one before.
LEMMA StepsAreMade ==
    ASSUME NEW text \in Seq(Nat), NEW steps \in Seq(EditStep), AfterSteps(text, steps).ok
    PROVE  \A k \in 1 .. Len(steps) : Substituted(AfterEach(text, steps)[k - 1].text, AfterEach(text, steps)[k].text, steps[k])
  <1> DEFINE n == Len(steps)
             g == AfterEach(text, steps)
  <1>1. n \in Nat /\ g \in [0 .. n -> StepResult] /\ (\A k \in 1 .. n : g[k] = Stepped(g[k - 1], steps[k])) /\ g[n].ok
        /\ \A k \in 1 .. n : steps[k] \in EditStep
    <2>1. g \in [0 .. n -> StepResult] /\ \A k \in 1 .. n : g[k] = Stepped(g[k - 1], steps[k])
      BY EachIs
    <2>2. g[n].ok
      BY DEF AfterSteps
    <2>3. n \in Nat /\ \A k \in 1 .. n : steps[k] \in EditStep
      OBVIOUS
    <2> HIDE DEF g, n
    <2> QED BY <2>1, <2>2, <2>3
  <1> HIDE DEF g, n
  <1> DEFINE T == {m \in 0 .. n : g[n - m].ok}
  <1>2. 0 .. n \subseteq T
    <2>1. 0 \in T
      BY <1>1
    <2>2. ASSUME NEW m \in 0 .. n - 1, m \in T PROVE m + 1 \in T
      <3>1. n - m \in 1 .. n /\ (n - m) - 1 = n - (m + 1) /\ m + 1 \in 0 .. n /\ n - (m + 1) \in 0 .. n
        BY <1>1
      <3>2. g[n - m] = Stepped(g[n - (m + 1)], steps[n - m])
        BY <1>1, <3>1
      <3>3. g[n - m].ok
        BY <2>2
      <3>4. g[n - (m + 1)].ok
        BY <3>2, <3>3 DEF Stepped
      <3> QED BY <3>1, <3>4
    <2> HIDE DEF T
    <2> QED BY <1>1, <2>1, <2>2, UpTo0
  <1>3. ASSUME NEW k \in 1 .. n PROVE Substituted(g[k - 1].text, g[k].text, steps[k])
    <2>1. n - k \in T
      <3> HIDE DEF T
      <3>1. n - k \in 0 .. n
        BY <1>1
      <3> QED BY <3>1, <1>2
    <2>2. n - (n - k) = k
      BY <1>1
    <2>3. g[k].ok
      BY <2>1, <2>2
    <2>4. g[k - 1] \in StepResult /\ g[k] = Stepped(g[k - 1], steps[k]) /\ steps[k] \in EditStep
      <3>1. k - 1 \in 0 .. n
        BY <1>1
      <3> QED BY <3>1, <1>1
    <2>5. ~Refused(g[k - 1].text, steps[k]) /\ g[k].text = EditOnce(g[k - 1].text, steps[k])
      BY <2>3, <2>4 DEF Stepped
    <2>6. g[k - 1].text \in Seq(Nat)
      BY <2>4 DEF StepResult
    <2> QED BY <2>4, <2>5, <2>6, EditIs
  <1> QED BY <1>3 DEF g, n

\* The place of an insertion exists: the numbers of the lines have no gap.
LEMMA PlaceFits ==
    ASSUME NEW text \in Seq(Nat), NEW position \in Nat, position <= Cardinality(LinesOf(text))
    PROVE  PlaceOf(text, position) \in 0 .. Len(text)
  <1> DEFINE N == Len(text)
             Li == LinesOf(text)
             upTo(i) == {j \in Li : j <= i}
             T == {i \in Nat : i <= N /\ Cardinality(upTo(i)) >= position}
  <1>1. N \in Nat /\ Li \subseteq 1 .. N
    BY DEF LinesOf
  <1> HIDE DEF N, Li
  <1>2. ASSUME NEW i \in Int PROVE IsFiniteSet(upTo(i)) /\ Cardinality(upTo(i)) \in Nat
    <2>1. IsFiniteSet(1 .. N)
      BY <1>1, FS_Interval
    <2>2. upTo(i) \in SUBSET (1 .. N)
      BY <1>1
    <2> QED BY <2>1, <2>2, FS_Subset, FS_CardinalityType
  <1>3. N \in T
    <2>1. upTo(N) = Li
      <3>1. \A j : j \in upTo(N) <=> j \in Li
        <4>1. \A j \in Li : j <= N
          BY <1>1
        <4> QED BY <4>1
      <3> HIDE DEF upTo
      <3> QED BY <3>1
    <2>2. position <= Cardinality(Li)
      BY DEF Li
    <2>3. Cardinality(upTo(N)) >= position
      <3> HIDE DEF upTo
      <3>0. N \in Int
        BY <1>1
      <3>1. Cardinality(Li) \in Nat
        BY <3>0, <1>2, <2>1
      <3> QED BY <2>1, <2>2, <3>1
    <2> HIDE DEF upTo
    <2> QED BY <1>1, <2>3
  <1>4. PICK i \in T : \A y \in T : i <= y
    <2>1. T \subseteq Nat /\ T # {}
      BY <1>3
    <2> HIDE DEF T
    <2> QED BY <2>1, NatMin
  <1>5. i \in {0} \cup Li /\ Cardinality(upTo(i)) = position
    <2>1. CASE i = 0
      <3>1. upTo(i) = {}
        <4>0. \A j \in Li : ~(j <= 0)
          BY <1>1
        <4>1. \A j : j \notin upTo(i)
          BY <4>0, <2>1
        <4> HIDE DEF upTo
        <4> QED BY <4>1
      <3>2. Cardinality(upTo(i)) = 0
        BY <3>1, FS_EmptySet
      <3> QED BY <2>1, <3>2, <1>4
    <2>2. CASE i # 0
      <3>1. i - 1 \in Nat /\ i - 1 < i /\ i <= N /\ i \in Nat
        BY <1>4, <2>2
      <3>2. Cardinality(upTo(i - 1)) < position
        <4>1. i - 1 \notin T
          BY <1>4, <3>1
        <4>2. i - 1 <= N
          BY <1>1, <3>1
        <4>3. Cardinality(upTo(i - 1)) \in Nat
          <5>1. i - 1 \in Int
            BY <3>1
          <5> HIDE DEF upTo
          <5> QED BY <5>1, <1>2
        <4>4. ~(Cardinality(upTo(i - 1)) >= position)
          <5> HIDE DEF upTo
          <5> QED BY <3>1, <4>1, <4>2
        <4> QED BY <4>3, <4>4
      <3>3. i \in Li
        <4> SUFFICES ASSUME i \notin Li PROVE FALSE
          OBVIOUS
        <4>1. upTo(i) = upTo(i - 1)
          <5>0. \A j \in Li : j <= i <=> j <= i - 1
            <6>1. \A j \in Li : j \in Nat /\ j # i
              BY <1>1
            <6>2. \A j \in Nat : j # i => (j <= i <=> j <= i - 1)
              BY <3>1
            <6> QED BY <6>1, <6>2
          <5>1. \A j : j \in upTo(i) <=> j \in upTo(i - 1)
            BY <5>0
          <5> HIDE DEF upTo
          <5> QED BY <5>1
        <4>2. Cardinality(upTo(i)) >= position
          BY <1>4
        <4>3. Cardinality(upTo(i)) \in Nat
          <5>1. i \in Int
            BY <3>1
          <5> HIDE DEF upTo
          <5> QED BY <5>1, <1>2
        <4> HIDE DEF upTo
        <4> QED BY <3>2, <4>1, <4>2, <4>3
      <3>4. upTo(i) = upTo(i - 1) \cup {i} /\ i \notin upTo(i - 1)
        <4>0. \A j \in Li : j <= i <=> j <= i - 1 \/ j = i
          <5>1. \A j \in Li : j \in Nat
            BY <1>1
          <5>2. \A j \in Nat : (j <= i <=> j <= i - 1 \/ j = i)
            BY <3>1
          <5> QED BY <5>1, <5>2
        <4>1. \A j : j \in upTo(i) <=> (j \in upTo(i - 1) \/ j = i)
          BY <4>0, <3>3
        <4>2. i \notin upTo(i - 1)
          BY <3>1
        <4> HIDE DEF upTo
        <4> QED BY <4>1, <4>2
      <3>5. Cardinality(upTo(i)) = Cardinality(upTo(i - 1)) + 1
        <4>0. i - 1 \in Int
          BY <3>1
        <4> HIDE DEF upTo
        <4>1. IsFiniteSet(upTo(i - 1))
          BY <1>2, <4>0
        <4> QED BY <3>4, <4>1, FS_AddElement
      <3>6. Cardinality(upTo(i)) >= position
        BY <1>4
      <3>7. Cardinality(upTo(i - 1)) \in Nat
        <4>1. i - 1 \in Int
          BY <3>1
        <4> HIDE DEF upTo
        <4> QED BY <1>2, <4>1
      <3> HIDE DEF upTo
      <3> QED BY <3>2, <3>3, <3>5, <3>6, <3>7
    <2> QED BY <2>1, <2>2
  <1>6. PlaceOf(text, position) \in {0} \cup Li
    <2>1. \E x \in {0} \cup LinesOf(text) : Cardinality({j \in LinesOf(text) : j <= x}) = position
      BY <1>5 DEF Li
    <2>2. PlaceOf(text, position) \in {0} \cup LinesOf(text)
      BY <2>1, Zenon DEF PlaceOf
    <2> QED BY <2>2 DEF Li
  <1>7. PlaceOf(text, position) \in 0 .. N
    <2>1. \A x \in {0} \cup Li : x \in 0 .. N
      BY <1>1
    <2> QED BY <1>6, <2>1
  <1> QED BY <1>7 DEF N

LEMMA TextIs == ASSUME NEW file \in Seq(Nat) \cup {Absent} PROVE TextOf(file) \in Seq(Nat)
  <1>1. CASE file = Absent
    BY <1>1 DEF TextOf
  <1>2. CASE file # Absent
    <2> DEFINE n == Len(file)
               t == [i \in 1 .. n |-> IF file[i] = CrLf THEN Lf ELSE file[i]]
    <2>1. n \in Nat /\ DOMAIN file = 1 .. n /\ \A i \in 1 .. n : file[i] \in Nat
      BY <1>2
    <2>2. TextOf(file) = t
      BY <1>2, <2>1 DEF TextOf
    <2> HIDE DEF n
    <2>3. t \in [1 .. n -> Nat]
      BY <2>1 DEF Lf
    <2> HIDE DEF t
    <2>4. t \in Seq(Nat)
      BY <2>1, <2>3, SeqDef
    <2> QED BY <2>2, <2>4
  <1> QED BY <1>1, <1>2

\* The file is a text or absent, and the last call left it as EditsAtomic says.
EditInv == editFile \in Seq(Nat) \cup {Absent} /\ edits \in Nat /\ EditsAtomic

\* A write, whole or not.
LEMMA SaveMakes ==
    ASSUME NEW tool, NEW steps, NEW kept \in Seq(Nat), NEW text \in Seq(Nat), SavesText(tool, steps, kept, text)
    PROVE  /\ editFile' \in Seq(Nat)
           /\ lastEdit'.tool = tool /\ lastEdit'.before = editFile /\ lastEdit'.steps = steps
           /\ lastEdit'.kept = kept /\ lastEdit'.text = text /\ (lastEdit'.ok \/ lastEdit'.torn)
           /\ lastEdit'.ok => editFile' = lastEdit'.kept \o lastEdit'.text
           /\ lastEdit'.torn => \E n \in 0 .. Len(lastEdit'.text) : editFile' = lastEdit'.kept \o SubSeq(lastEdit'.text, 1, n)
  <1>1. PICK n \in 0 .. Len(text), ok \in BOOLEAN :
          /\ ok => n = Len(text)
          /\ editFile' = kept \o SubSeq(text, 1, n)
          /\ lastEdit' = [tool |-> tool, ok |-> ok, torn |-> ~ok, before |-> editFile, steps |-> steps,
                          kept |-> kept, text |-> text]
    BY DEF SavesText
  <1>2. /\ lastEdit'.tool = tool /\ lastEdit'.before = editFile /\ lastEdit'.steps = steps
        /\ lastEdit'.kept = kept /\ lastEdit'.text = text /\ lastEdit'.ok = ok /\ lastEdit'.torn = ~ok
    BY <1>1
  <1>3. SubSeq(text, 1, n) \in Seq(Nat)
    <2>1. \A i \in 1 .. n : text[i] \in Nat
      BY <1>1
    <2>2. 1 \in Int /\ n \in Int
      BY <1>1
    <2> QED BY <2>1, <2>2, SubSeqProperties
  <1>4. editFile' \in Seq(Nat)
    BY <1>1, <1>3, ConcatProperties
  <1>5. ok => SubSeq(text, 1, n) = text
    BY <1>1
  <1> QED BY <1>1, <1>2, <1>4, <1>5

\* An edit that is refused.
LEMMA RefuseMakes ==
    ASSUME NEW tool, Refuses(tool)
    PROVE  ~lastEdit'.ok /\ ~lastEdit'.torn /\ lastEdit'.before = editFile
  BY DEF Refuses, NoEdit

LEMMA StepReplace ==
    ASSUME EditInv, NEW call \in EditCalls, ReplaceText(call)
    PROVE  EditInv'
  <1> DEFINE text == TextOf(editFile)
             steps == call.steps
             r == AfterSteps(text, steps)
             ok == editFile # Absent /\ r.ok /\ r.text # text
  <1>1. steps \in Seq(EditStep) /\ editFile \in Seq(Nat) \cup {Absent} /\ edits' \in Nat
    BY FileAssumption DEF ReplaceText, EditInv
  <1>2. text \in Seq(Nat)
    BY <1>1, TextIs
  <1>3. r \in StepResult /\ r = AfterEach(text, steps)[Len(steps)]
    <2>1. Len(steps) \in 0 .. Len(steps)
      BY <1>1
    <2>2. AfterEach(text, steps) \in [0 .. Len(steps) -> StepResult]
      BY <1>1, <1>2, EachIs
    <2> QED BY <2>1, <2>2 DEF AfterSteps
  <1>4. CASE ok
    <2>1. SavesText("replace", steps, <<>>, r.text)
      BY <1>4 DEF ReplaceText, Outcome
    <2>2. r.text \in Seq(Nat) /\ r.ok
      BY <1>3, <1>4 DEF StepResult
    <2>3. \A k \in 1 .. Len(steps) : Substituted(AfterEach(text, steps)[k - 1].text, AfterEach(text, steps)[k].text, steps[k])
      BY <1>1, <1>2, <2>2, StepsAreMade
    <2>4. /\ editFile' \in Seq(Nat)
          /\ lastEdit'.before = editFile /\ lastEdit'.steps = steps
          /\ lastEdit'.kept = <<>> /\ lastEdit'.text = r.text /\ (lastEdit'.ok \/ lastEdit'.torn)
          /\ lastEdit'.ok => editFile' = lastEdit'.kept \o lastEdit'.text
          /\ lastEdit'.torn => \E n \in 0 .. Len(lastEdit'.text) : editFile' = lastEdit'.kept \o SubSeq(lastEdit'.text, 1, n)
      <3>1. PICK t, s, none : t = r.text /\ s = steps /\ none = <<>>
        OBVIOUS
      <3>2. t \in Seq(Nat) /\ none \in Seq(Nat) /\ SavesText("replace", s, none, t)
        BY <2>1, <2>2, <3>1
      <3> HIDE DEF r, text, steps, ok
      <3>3. /\ editFile' \in Seq(Nat)
            /\ lastEdit'.before = editFile /\ lastEdit'.steps = s
            /\ lastEdit'.kept = none /\ lastEdit'.text = t /\ (lastEdit'.ok \/ lastEdit'.torn)
            /\ lastEdit'.ok => editFile' = lastEdit'.kept \o lastEdit'.text
            /\ lastEdit'.torn => \E n \in 0 .. Len(lastEdit'.text) : editFile' = lastEdit'.kept \o SubSeq(lastEdit'.text, 1, n)
        BY <3>2, SaveMakes
      <3> QED BY <3>1, <3>3, Zenon
    <2>5. AfterEach(TextOf(lastEdit'.before), lastEdit'.steps) = AfterEach(text, steps)
      BY <2>4
    <2>6. lastEdit'.text = AfterEach(text, steps)[Len(steps)].text
      BY <1>3, <2>4
    <2> HIDE DEF r
    <2>7. EditsAtomic'
      BY <2>3, <2>4, <2>5, <2>6, Zenon DEF EditsAtomic
    <2> QED BY <1>1, <2>4, <2>7 DEF EditInv
  <1>5. CASE ~ok
    <2>1. editFile' = editFile /\ Refuses("replace")
      BY <1>5 DEF ReplaceText, Outcome
    <2> HIDE DEF ok
    <2> QED BY <1>1, <2>1, RefuseMakes DEF EditInv, EditsAtomic
  <1> QED BY <1>4, <1>5

LEMMA StepInsert ==
    ASSUME EditInv, NEW call \in EditCalls, InsertText(call)
    PROVE  EditInv'
  <1> DEFINE text == TextOf(editFile)
             ok == editFile # Absent /\ call.position <= Cardinality(LinesOf(text))
             at == PlaceOf(text, call.position)
             new == SubSeq(text, 1, at) \o Ended(call.text) \o SubSeq(text, at + 1, Len(text))
  <1>1. /\ call.tool = "insert" /\ editFile \in Seq(Nat) \cup {Absent} /\ edits' \in Nat
        /\ call.position \in Nat /\ call.text \in Seq(Nat)
    BY FileAssumption DEF InsertText, EditInv
  <1>2. text \in Seq(Nat)
    BY <1>1, TextIs
  <1>3. IF ok THEN SavesText("insert", <<>>, <<>>, new) ELSE UNCHANGED editFile /\ Refuses("insert")
    BY DEF InsertText
  <1>4. Ended(call.text) \in Seq(Nat)
    <2>1. Append(call.text, Lf) \in Seq(Nat)
      BY <1>1 DEF Lf
    <2> QED BY <1>1, <2>1 DEF Ended
  <1> HIDE DEF text
  <1>5. ok => new \in Seq(Nat)
    <2> SUFFICES ASSUME ok PROVE new \in Seq(Nat)
      OBVIOUS
    <2>1. at \in 0 .. Len(text)
      BY <1>1, <1>2, PlaceFits
    <2> HIDE DEF at
    <2>2. Len(text) \in Nat /\ \A i \in 1 .. Len(text) : text[i] \in Nat
      BY <1>2
    <2>3. SubSeq(text, 1, at) \in Seq(Nat)
      <3>1. \A i \in 1 .. at : text[i] \in Nat
        BY <2>1, <2>2
      <3>2. 1 \in Int /\ at \in Int
        BY <2>1
      <3> QED BY <3>1, <3>2, SubSeqProperties
    <2>4. SubSeq(text, at + 1, Len(text)) \in Seq(Nat)
      <3>1. \A i \in at + 1 .. Len(text) : text[i] \in Nat
        BY <2>1, <2>2
      <3>2. at + 1 \in Int /\ Len(text) \in Int
        BY <2>1, <2>2
      <3> QED BY <3>1, <3>2, SubSeqProperties
    <2>5. SubSeq(text, 1, at) \o Ended(call.text) \in Seq(Nat)
      BY <1>4, <2>3, ConcatProperties
    <2> QED BY <2>4, <2>5, ConcatProperties
  <1> HIDE DEF new
  <1>6. CASE ok
    <2>1. PICK none : none = <<>> /\ none \in Seq(Nat)
      BY EmptySeq
    <2>2. SavesText("insert", none, none, new)
      BY <1>3, <1>6, <2>1
    <2> HIDE DEF ok
    <2>3. /\ editFile' \in Seq(Nat) /\ lastEdit'.tool = "insert" /\ (lastEdit'.ok \/ lastEdit'.torn)
          /\ lastEdit'.ok => editFile' = lastEdit'.kept \o lastEdit'.text
          /\ lastEdit'.torn => \E n \in 0 .. Len(lastEdit'.text) : editFile' = lastEdit'.kept \o SubSeq(lastEdit'.text, 1, n)
      BY <1>5, <1>6, <2>1, <2>2, SaveMakes
    <2> QED BY <1>1, <2>3 DEF EditInv, EditsAtomic
  <1>7. CASE ~ok
    <2>1. UNCHANGED editFile /\ Refuses("insert")
      BY <1>3, <1>7
    <2> HIDE DEF ok
    <2> QED BY <1>1, <2>1, RefuseMakes DEF EditInv, EditsAtomic
  <1> QED BY <1>6, <1>7

LEMMA StepWrite ==
    ASSUME EditInv, NEW call \in EditCalls, WriteText(call)
    PROVE  EditInv'
  <1>1. call.text \in Seq(Nat) /\ editFile \in Seq(Nat) \cup {Absent} /\ edits' \in Nat
    BY FileAssumption DEF WriteText, EditInv
  <1>2. PICK kept : kept = IF call.append /\ editFile # Absent THEN editFile ELSE <<>>
    OBVIOUS
  <1>3. kept \in Seq(Nat)
    BY <1>1, <1>2
  <1>4. PICK none : none = <<>>
    OBVIOUS
  <1>5. SavesText("write", none, kept, call.text)
    BY <1>2, <1>4 DEF WriteText
  <1>6. /\ editFile' \in Seq(Nat) /\ lastEdit'.tool = "write" /\ (lastEdit'.ok \/ lastEdit'.torn)
        /\ lastEdit'.ok => editFile' = lastEdit'.kept \o lastEdit'.text
        /\ lastEdit'.torn => \E n \in 0 .. Len(lastEdit'.text) : editFile' = lastEdit'.kept \o SubSeq(lastEdit'.text, 1, n)
    BY <1>1, <1>3, <1>5, SaveMakes
  <1> QED BY <1>1, <1>6 DEF EditInv, EditsAtomic

\* Paging loses no line of a file and comes to its end; an edit that is refused
\* leaves the file, one that succeeds is all its steps, and one whose write fails
\* leaves a beginning of the new text; for every file, every limit and every
\* sequence of calls (file_read, file_replace_multi_text, ToolsFactory.execute).
THEOREM FileToolsAreSound == FileSpec => []FileToolsSound
  <1>1. FileInit => PageInv /\ EditInv
    <2> SUFFICES ASSUME FileInit PROVE PageInv /\ EditInv
      OBVIOUS
    <2>1. editFile \in Seq(Nat) \cup {Absent} /\ edits = 0 /\ lastEdit.ok = FALSE /\ lastEdit.torn = FALSE
      BY FileAssumption DEF FileInit, NoEdit
    <2>2. ~(edits > 0)
      BY <2>1
    <2>3. EditsAtomic
      BY <2>1, <2>2, Zenon DEF EditsAtomic
    <2> QED BY <2>1, <2>3, InitPages DEF EditInv
  <1>2. PageInv /\ EditInv /\ [FileNext]_fileVars => (PageInv /\ EditInv)'
    <2> SUFFICES ASSUME PageInv, EditInv, [FileNext]_fileVars PROVE (PageInv /\ EditInv)'
      OBVIOUS
    <2>1. ASSUME UNCHANGED <<readFile, reader>> PROVE PageInv'
      BY <2>1 DEF PageInv
    <2>2. ASSUME UNCHANGED <<editFile, lastEdit, edits>> PROVE EditInv'
      BY <2>2 DEF EditInv, EditsAtomic
    <2>3. ASSUME NEW lim \in 1 .. PageLimit, ReadPage(lim) PROVE (PageInv /\ EditInv)'
      <3>1. UNCHANGED <<editFile, lastEdit, edits>>
        BY <2>3 DEF ReadPage
      <3> QED BY <2>2, <2>3, <3>1, StepPage
    <2>4. ASSUME NEW call \in EditCalls, ReplaceText(call) \/ InsertText(call) \/ WriteText(call) PROVE (PageInv /\ EditInv)'
      <3>1. UNCHANGED <<readFile, reader>>
        BY <2>4 DEF ReplaceText, InsertText, WriteText
      <3> QED BY <2>1, <2>4, <3>1, StepReplace, StepInsert, StepWrite
    <2>5. CASE UNCHANGED fileVars
      BY <2>1, <2>2, <2>5 DEF fileVars
    <2> QED BY <2>3, <2>4, <2>5 DEF FileNext, PageNext, EditNext
  <1>3. PageInv /\ EditInv => FileToolsSound
    BY PagesFollow DEF FileToolsSound, EditInv
  <1>4. QED
    BY <1>1, <1>2, <1>3, PTL DEF FileSpec

-----------------------------------------------------------------------------
(*****************************************************************************)
(* Patches: every chunk is put where its lines are found, from the last to   *)
(* the first, which gives the same lines as from the first to the last.      *)
(*****************************************************************************)

FileLines == Seq(Int)
PatchChunk == [context : Int, old : FileLines, new : FileLines]
Piece == [at : Nat \ {0}, size : Nat, new : FileLines]
PlanState == [ok : BOOLEAN, from : Nat \ {0}, plan : Seq(Piece)]

\* What is found is there, and not before the place from which it is sought.
LEMMA SeekFits ==
    ASSUME NEW lines \in FileLines, NEW pattern \in FileLines, NEW from \in Nat \ {0}
    PROVE  LET i == Seek(lines, pattern, from) IN
           /\ i \in Nat
           /\ i # 0 => /\ pattern # <<>> /\ i >= from /\ i + Len(pattern) <= Len(lines) + 1
                       /\ \A j \in 1 .. Len(pattern) : SameLine(lines[i + j - 1], pattern[j], TRUE)
  <1> DEFINE exact == Matches(lines, pattern, from, FALSE)
             any == Matches(lines, pattern, from, TRUE)
             i == Seek(lines, pattern, from)
  <1>1. Len(lines) \in Nat /\ Len(pattern) \in Nat
    BY DEF FileLines
  <1>2. exact \subseteq any
    BY DEF Matches, SameLine
  <1>3. any \subseteq Nat /\ \A k \in any : k # 0 /\ k >= from /\ k + Len(pattern) <= Len(lines) + 1
    <2> DEFINE last == Len(lines) - Len(pattern) + 1
    <2>1. \A k \in any : k \in from .. last
      BY DEF Matches
    <2>2. last \in Int /\ \A k \in Int : k <= last => k + Len(pattern) <= Len(lines) + 1
      BY <1>1
    <2> HIDE DEF any, last
    <2>3. ASSUME NEW k \in any PROVE k \in Nat /\ k # 0 /\ k >= from /\ k + Len(pattern) <= Len(lines) + 1
      <3>1. k \in from .. last
        BY <2>1
      <3>2. k \in Int /\ k >= from /\ k <= last
        BY <2>2, <3>1
      <3> QED BY <2>2, <3>2
    <2> QED BY <2>3
  <1>4. \A k \in any : \A j \in 1 .. Len(pattern) : SameLine(lines[k + j - 1], pattern[j], TRUE)
    BY DEF Matches
  <1>5. ASSUME NEW S, S \subseteq Nat, S # {} PROVE Lowest(S) \in S
    <2>1. \E x \in S : \A y \in S : x <= y
      BY <1>5, NatMin
    <2> QED BY <2>1, Zenon DEF Lowest
  <1>6. i = IF pattern = <<>> \/ any = {} THEN 0 ELSE IF exact # {} THEN Lowest(exact) ELSE Lowest(any)
    BY DEF Seek
  <1> HIDE DEF exact, any, i
  <1>7. i = 0 \/ (pattern # <<>> /\ i \in any)
    <2>1. CASE pattern = <<>> \/ any = {}
      BY <1>6, <2>1
    <2>2. CASE pattern # <<>> /\ any # {} /\ exact # {}
      BY <1>2, <1>3, <1>5, <1>6, <2>2
    <2>3. CASE pattern # <<>> /\ any # {} /\ exact = {}
      BY <1>2, <1>3, <1>5, <1>6, <2>3
    <2> QED BY <2>1, <2>2, <2>3
  <1>8. i \in Nat
    <2>1. 0 \in Nat /\ \A k \in any : k \in Nat
      BY <1>3
    <2> QED BY <1>7, <2>1
  <1>9. i # 0 => /\ pattern # <<>> /\ i >= from /\ i + Len(pattern) <= Len(lines) + 1
                 /\ \A j \in 1 .. Len(pattern) : SameLine(lines[i + j - 1], pattern[j], TRUE)
    BY <1>3, <1>4, <1>7
  <1> QED BY <1>8, <1>9 DEF i

\* A chunk, placed: behind the others, on lines that match its own.
PlacedIn(lines, c, done, r, p) ==
    /\ r.ok => done.ok
    /\ r.from >= done.from
    /\ p \in Piece /\ p.at + p.size <= Len(lines) + 1
    /\ r.plan = Append(done.plan, p)
    /\ p.size > 0 => /\ p.at >= done.from /\ p.at + p.size <= r.from
                     /\ \A i \in 1 .. p.size : SameLine(lines[p.at + i - 1], c.old[i], TRUE)

LEMMA FrontIs == ASSUME NEW s \in FileLines, s # <<>>
    PROVE Front(s) \in FileLines /\ Len(Front(s)) = Len(s) - 1 /\ \A i \in 1 .. Len(s) - 1 : Front(s)[i] = s[i]
  <1>1. Len(s) \in Nat \ {0} /\ \A i \in 1 .. Len(s) - 1 : s[i] \in Int
    BY EmptySeq DEF FileLines
  <1>2. 1 \in Int /\ Len(s) - 1 \in Int
    BY <1>1
  <1>3. /\ SubSeq(s, 1, Len(s) - 1) \in Seq(Int)
        /\ Len(SubSeq(s, 1, Len(s) - 1)) = IF 1 <= Len(s) - 1 THEN (Len(s) - 1) - 1 + 1 ELSE 0
        /\ \A i \in 1 .. (Len(s) - 1) - 1 + 1 : SubSeq(s, 1, Len(s) - 1)[i] = s[1 + i - 1]
    BY <1>1, <1>2, SubSeqProperties
  <1> DEFINE t == SubSeq(s, 1, Len(s) - 1)
  <1> HIDE DEF t
  <1>3a. Len(t) = (IF 1 <= Len(s) - 1 THEN (Len(s) - 1) - 1 + 1 ELSE 0) /\ \A i \in 1 .. (Len(s) - 1) - 1 + 1 : t[i] = s[1 + i - 1]
    BY <1>3 DEF t
  <1>4. Len(t) = Len(s) - 1 /\ \A i \in 1 .. Len(s) - 1 : t[i] = s[i]
    <2>1. Len(t) = Len(s) - 1
      <3>1. CASE 1 <= Len(s) - 1
        <4>1. Len(t) = (Len(s) - 1) - 1 + 1
          BY <1>3a, <3>1
        <4> QED BY <1>1, <4>1
      <3>2. CASE ~(1 <= Len(s) - 1)
        <4>1. Len(t) = 0
          BY <1>3a, <3>2
        <4>2. Len(s) = 1
          <5>1. \A n \in Nat \ {0} : ~(1 <= n - 1) => n = 1
            OBVIOUS
          <5> QED BY <1>1, <3>2, <5>1
        <4> QED BY <4>1, <4>2
      <3> QED BY <3>1, <3>2
    <2>2. ASSUME NEW i \in 1 .. Len(s) - 1 PROVE t[i] = s[i]
      <3>1. i \in 1 .. (Len(s) - 1) - 1 + 1 /\ 1 + i - 1 = i
        BY <1>1
      <3> QED BY <1>3a, <3>1
    <2> QED BY <2>1, <2>2
  <1> QED BY <1>3, <1>4 DEF Front, FileLines, t

LEMMA ChunkPlaced ==
    ASSUME NEW lines \in FileLines, NEW c \in PatchChunk, NEW done \in PlanState
    PROVE  LET r == PlanChunk(lines, done, c) IN
           /\ r \in PlanState
           /\ r.ok => \E p : PlacedIn(lines, c, done, r, p)
  <1> DEFINE context == Seek(lines, <<c.context>>, done.from)
             from == IF c.context = -1 THEN done.from ELSE context + 1
             found == Seek(lines, c.old, from)
             short == found = 0 /\ Last(c.old) = 0
             new == IF short /\ c.new # <<>> /\ Last(c.new) = 0 THEN Front(c.new) ELSE c.new
             size == IF short THEN Len(c.old) - 1 ELSE Len(c.old)
             at == IF short THEN Seek(lines, Front(c.old), from) ELSE found
             end == IF lines # <<>> /\ Last(lines) = 0 THEN Len(lines) ELSE Len(lines) + 1
             r == PlanChunk(lines, done, c)
             lost == ~done.ok \/ (c.context # -1 /\ context = 0)
  <1>1. c.context \in Int /\ c.old \in FileLines /\ c.new \in FileLines /\ done.ok \in BOOLEAN /\ done.from \in Nat \ {0} /\ done.plan \in Seq(Piece)
    BY DEF PatchChunk, PlanState
  <1>2. r = IF lost THEN Failed
            ELSE IF c.old = <<>>
                 THEN [ok |-> TRUE, from |-> from, plan |-> Append(done.plan, [at |-> end, size |-> 0, new |-> c.new])]
            ELSE IF at = 0 THEN Failed
            ELSE [ok |-> TRUE, from |-> at + size, plan |-> Append(done.plan, [at |-> at, size |-> size, new |-> new])]
    BY DEF PlanChunk
  <1>3. Failed \in PlanState /\ ~Failed.ok
    BY DEF Failed, PlanState
  <1>4. ~lost => done.ok /\ from \in Nat \ {0} /\ from >= done.from
    <2> SUFFICES ASSUME ~lost PROVE done.ok /\ from \in Nat \ {0} /\ from >= done.from
      OBVIOUS
    <2>1. <<c.context>> \in FileLines
      BY <1>1 DEF FileLines
    <2>2. context \in Nat /\ (context # 0 => context >= done.from)
      BY <1>1, <2>1, SeekFits
    <2> HIDE DEF context
    <2> QED BY <1>1, <2>2
  <1>5. end \in Nat \ {0} /\ end <= Len(lines) + 1
    <2>1. Len(lines) \in Nat /\ (lines # <<>> => Len(lines) # 0)
      BY EmptySeq DEF FileLines
    <2> QED BY <2>1
  <1> HIDE DEF r, context, lost, end
  <1>6. CASE lost
    BY <1>2, <1>3, <1>6 DEF r
  <1>7. CASE ~lost /\ c.old = <<>>
    <2> DEFINE p == [at |-> end, size |-> 0, new |-> c.new]
    <2>1. p \in Piece
      BY <1>1, <1>5 DEF Piece
    <2>2. r = [ok |-> TRUE, from |-> from, plan |-> Append(done.plan, p)]
      BY <1>2, <1>7
    <2>3. p.at = end /\ p.size = 0
      OBVIOUS
    <2> HIDE DEF p, from
    <2>4. Append(done.plan, p) \in Seq(Piece)
      BY <1>1, <2>1, AppendProperties
    <2>5. r \in PlanState
      BY <1>4, <1>7, <2>2, <2>4 DEF PlanState
    <2>6. p.at + p.size <= Len(lines) + 1 /\ ~(p.size > 0)
      <3>1. Len(lines) \in Nat
        BY DEF FileLines
      <3> QED BY <1>5, <2>3, <3>1
    <2>7. PlacedIn(lines, c, done, r, p)
      BY <1>4, <1>7, <2>1, <2>2, <2>6 DEF PlacedIn
    <2> QED BY <2>5, <2>7 DEF r
  <1>8. CASE ~lost /\ c.old # <<>> /\ at = 0
    <2> HIDE DEF at
    <2> QED BY <1>2, <1>3, <1>8 DEF r
  <1>9. CASE ~lost /\ c.old # <<>> /\ at # 0
    <2> DEFINE p == [at |-> at, size |-> size, new |-> new]
    <2>0. from \in Nat \ {0} /\ from >= done.from /\ done.ok
      BY <1>4, <1>9
    <2>1. r = [ok |-> TRUE, from |-> at + size, plan |-> Append(done.plan, p)]
      <3> HIDE DEF at, size, new
      <3> QED BY <1>2, <1>9
    <2> HIDE DEF from
    <2>2. /\ at \in Nat \ {0} /\ size \in Nat /\ at >= from /\ at + size <= Len(lines) + 1
          /\ \A i \in 1 .. size : SameLine(lines[at + i - 1], c.old[i], TRUE)
      <3>1. CASE short
        <4> DEFINE old == Front(c.old)
        <4>1. old \in FileLines /\ Len(old) = Len(c.old) - 1 /\ (\A i \in 1 .. Len(c.old) - 1 : old[i] = c.old[i]) /\ Len(c.old) \in Nat \ {0}
          BY <1>1, <1>9, FrontIs, EmptySeq DEF FileLines
        <4> HIDE DEF old
        <4> DEFINE i == Seek(lines, old, from)
        <4>2. /\ i \in Nat
              /\ i # 0 =>
                    /\ i >= from /\ i + Len(old) <= Len(lines) + 1
                    /\ \A j \in 1 .. Len(old) : SameLine(lines[i + j - 1], old[j], TRUE)
          BY <2>0, <4>1, SeekFits
        <4>3. at = i /\ size = Len(old)
          BY <3>1, <4>1 DEF old
        <4> HIDE DEF at, size, i
        <4>4. i # 0
          BY <1>9, <4>3
        <4>5. i \in Nat \ {0} /\ Len(old) \in Nat /\ i >= from
          BY <4>1, <4>2, <4>4
        <4>6. \A j \in 1 .. Len(old) : SameLine(lines[i + j - 1], c.old[j], TRUE)
          BY <4>1, <4>2, <4>4
        <4> QED BY <4>2, <4>3, <4>4, <4>5, <4>6
      <3>2. CASE ~short
        <4>1. Len(c.old) \in Nat \ {0}
          BY <1>1, <1>9, EmptySeq DEF FileLines
        <4> DEFINE i == Seek(lines, c.old, from)
        <4>2. /\ i \in Nat
              /\ i # 0 =>
                    /\ i >= from /\ i + Len(c.old) <= Len(lines) + 1
                    /\ \A j \in 1 .. Len(c.old) : SameLine(lines[i + j - 1], c.old[j], TRUE)
          BY <1>1, <2>0, SeekFits
        <4>3. at = i /\ size = Len(c.old)
          BY <3>2
        <4> HIDE DEF at, size, i
        <4>4. i # 0
          BY <1>9, <4>3
        <4>5. i \in Nat \ {0} /\ Len(c.old) \in Nat /\ i >= from
          BY <4>1, <4>2, <4>4
        <4> QED BY <4>2, <4>3, <4>4, <4>5
      <3> QED BY <3>1, <3>2
    <2>3. new \in FileLines
      <3>1. c.new # <<>> => Front(c.new) \in FileLines
        BY <1>1, FrontIs
      <3> HIDE DEF short
      <3> QED BY <1>1, <3>1
    <2> HIDE DEF at, size, new
    <2>4. p \in Piece /\ p.at = at /\ p.size = size
      BY <2>2, <2>3 DEF Piece
    <2> HIDE DEF p
    <2>5. Append(done.plan, p) \in Seq(Piece)
      BY <1>1, <2>4, AppendProperties
    <2>6. at + size \in Nat \ {0} /\ at + size >= done.from /\ at >= done.from
      BY <1>1, <2>0, <2>2
    <2>7. r \in PlanState
      BY <2>1, <2>5, <2>6 DEF PlanState
    <2>8. PlacedIn(lines, c, done, r, p)
      <3>1. r.ok /\ r.from = at + size /\ r.plan = Append(done.plan, p)
        BY <2>1
      <3>2. \A i \in 1 .. p.size : SameLine(lines[p.at + i - 1], c.old[i], TRUE)
        BY <2>2, <2>4
      <3>3. r.from >= done.from /\ p.at + p.size <= Len(lines) + 1 /\ p.at >= done.from /\ p.at + p.size <= r.from
        BY <2>2, <2>4, <2>6, <3>1
      <3> QED BY <2>0, <2>4, <3>1, <3>2, <3>3 DEF PlacedIn
    <2> QED BY <2>7, <2>8 DEF r
  <1> QED BY <1>6, <1>7, <1>8, <1>9

\* A plan in order is a plan: every rank is that of one piece.
LEMMA RankIs ==
    ASSUME NEW plan \in Seq(Piece), NEW k \in 1 .. Len(plan)
    PROVE  \E i \in 1 .. Len(plan) : Cardinality({j \in 1 .. Len(plan) : Earlier(plan, j, i)}) = k - 1
  <1> DEFINE n == Len(plan)
             D == 1 .. n
             before2(i) == {j \in D : Earlier(plan, j, i)}
             f == [i \in D |-> Cardinality(before2(i))]
  <1>1. n \in Nat /\ \A i \in D : plan[i].at \in Nat /\ i \in Nat
    <2>1. \A i \in D : plan[i] \in Piece /\ i \in Nat
      OBVIOUS
    <2>2. \A p \in Piece : p.at \in Nat
      BY DEF Piece
    <2> QED BY <2>1, <2>2
  <1>2. IsFiniteSet(D) /\ Cardinality(D) = n
    <2>1. n \in Int /\ 1 \in Int
      BY <1>1
    <2> QED BY <1>1, <2>1, FS_Interval
  <1>3. IsFiniteSet(0 .. n - 1) /\ Cardinality(0 .. n - 1) = n
    <2>1. n - 1 \in Int /\ 0 \in Int
      BY <1>1
    <2>2. IsFiniteSet(0 .. n - 1) /\ Cardinality(0 .. n - 1) = IF 0 > n - 1 THEN 0 ELSE (n - 1) - 0 + 1
      BY <2>1, FS_Interval
    <2>3. (IF 0 > n - 1 THEN 0 ELSE (n - 1) - 0 + 1) = n
      BY <1>1
    <2> QED BY <2>2, <2>3
  <1> HIDE DEF n
  <1>4. \A i, j \in D : i # j => Earlier(plan, i, j) \/ Earlier(plan, j, i)
    BY <1>1 DEF Earlier
  <1>5. \A i, j \in D : Earlier(plan, i, j) => ~Earlier(plan, j, i) /\ ~Earlier(plan, i, i)
    BY <1>1 DEF Earlier
  <1>5a. \A i \in D : ~Earlier(plan, i, i)
    BY <1>1 DEF Earlier
  <1>6. \A i, j, l \in D : Earlier(plan, i, j) /\ Earlier(plan, j, l) => Earlier(plan, i, l)
    BY <1>1 DEF Earlier
  <1> HIDE DEF D
  <1>7. ASSUME NEW i \in D PROVE IsFiniteSet(before2(i)) /\ Cardinality(before2(i)) \in 0 .. n - 1
    <2>1. before2(i) \in SUBSET D /\ i \notin before2(i)
      BY <1>5a
    <2> HIDE DEF before2
    <2>2. IsFiniteSet(before2(i)) /\ Cardinality(before2(i)) <= n /\ Cardinality(before2(i)) \in Nat /\ (Cardinality(before2(i)) = n => before2(i) = D)
      BY <1>2, <2>1, FS_Subset, FS_CardinalityType
    <2>3. Cardinality(before2(i)) # n
      BY <2>1, <2>2
    <2>4. \A c \in Nat : c <= n /\ c # n => c \in 0 .. n - 1
      BY <1>1
    <2> QED BY <2>2, <2>3, <2>4
  <1>8. ASSUME NEW i \in D, NEW j \in D, Earlier(plan, i, j) PROVE Cardinality(before2(i)) # Cardinality(before2(j))
    <2>1. before2(i) \in SUBSET before2(j) /\ i \in before2(j) /\ i \notin before2(i)
      BY <1>5a, <1>6, <1>8
    <2> HIDE DEF before2
    <2>2. IsFiniteSet(before2(j))
      BY <1>7
    <2>3. Cardinality(before2(j)) = Cardinality(before2(i)) => before2(j) = before2(i)
      BY <2>1, <2>2, FS_Subset
    <2> QED BY <2>1, <2>3
  <1>9. f \in [D -> 0 .. n - 1]
    BY <1>7
  <1>10. \A i, j \in D : f[i] = f[j] => i = j
    <2> SUFFICES ASSUME NEW i \in D, NEW j \in D, i # j PROVE f[i] # f[j]
      OBVIOUS
    <2>1. f[i] = Cardinality(before2(i)) /\ f[j] = Cardinality(before2(j))
      OBVIOUS
    <2> HIDE DEF f, before2
    <2> QED BY <1>4, <1>8, <2>1
  <1> HIDE DEF f
  <1>11. f \in Injection(D, 0 .. n - 1)
    BY <1>9, <1>10 DEF Injection, IsInjective
  <1>12. f \in Surjection(D, 0 .. n - 1)
    BY <1>2, <1>3, <1>11, FS_Injection
  <1>13. k - 1 \in 0 .. n - 1
    BY <1>1 DEF n
  <1>14. PICK i \in D : f[i] = k - 1
    BY <1>12, <1>13 DEF Surjection
  <1> QED BY <1>14 DEF f, D, n

LEMMA SortedIs ==
    ASSUME NEW plan \in Seq(Piece)
    PROVE  /\ Sorted(plan) \in Seq(Piece) /\ Len(Sorted(plan)) = Len(plan)
           /\ \A k \in 1 .. Len(plan) : \E i \in 1 .. Len(plan) : Sorted(plan)[k] = plan[i]
  <1> DEFINE n == Len(plan)
             R(i) == Cardinality({j \in 1 .. n : Earlier(plan, j, i)})
             f(k) == CHOOSE i \in 1 .. n : R(i) = k - 1
             s == [k \in 1 .. n |-> plan[f(k)]]
  <1>1. \A k \in 1 .. n : f(k) \in 1 .. n
    <2> SUFFICES ASSUME NEW k \in 1 .. n PROVE f(k) \in 1 .. n
      OBVIOUS
    <2>1. \E i \in 1 .. n : R(i) = k - 1
      BY RankIs
    <2> HIDE DEF R
    <2> QED BY <2>1, Zenon
  <1>2. n \in Nat /\ \A i \in 1 .. n : plan[i] \in Piece
    OBVIOUS
  <1>3. Sorted(plan) = s
    BY DEF Sorted
  <1> HIDE DEF n, f
  <1>4. s \in [1 .. n -> Piece]
    BY <1>1, <1>2
  <1>5. \A k \in 1 .. n : s[k] = plan[f(k)]
    OBVIOUS
  <1> HIDE DEF s
  <1>6. s \in Seq(Piece) /\ Len(s) = n
    BY <1>2, <1>4, SeqDef
  <1> QED BY <1>1, <1>3, <1>5, <1>6 DEF n

\* What has been planned of the chunks so far.
PlannedTo(lines, chunks, r, k) ==
    /\ r \in PlanState
    /\ r.ok => /\ Len(r.plan) = k
               /\ \A j \in 1 .. k :
                     /\ r.plan[j].at + r.plan[j].size <= Len(lines) + 1
                     /\ r.plan[j].size > 0 =>
                           /\ r.plan[j].at + r.plan[j].size <= r.from
                           /\ \A i \in 1 .. r.plan[j].size : SameLine(lines[r.plan[j].at + i - 1], chunks[j].old[i], TRUE)
                           /\ \A i \in 1 .. j - 1 : r.plan[i].size > 0 => r.plan[i].at + r.plan[i].size <= r.plan[j].at

LEMMA PlannedOneMore ==
    ASSUME NEW lines \in FileLines, NEW chunks \in Seq(PatchChunk), NEW k \in 1 .. Len(chunks), NEW done,
           PlannedTo(lines, chunks, done, k - 1)
    PROVE  PlannedTo(lines, chunks, PlanChunk(lines, done, chunks[k]), k)
  <1> DEFINE c == chunks[k]
             r == PlanChunk(lines, done, c)
  <1>1. c \in PatchChunk /\ done \in PlanState /\ k \in Nat \ {0}
    BY DEF PlannedTo
  <1> HIDE DEF c
  <1>2. r \in PlanState /\ (r.ok => \E p : PlacedIn(lines, c, done, r, p))
    BY <1>1, ChunkPlaced
  <1> HIDE DEF r
  <1>3. CASE ~r.ok
    BY <1>2, <1>3 DEF PlannedTo, r, c
  <1>4. CASE r.ok
    <2>1. PICK p : PlacedIn(lines, c, done, r, p)
      BY <1>2, <1>4
    <2>2. done.ok /\ p \in Piece /\ p.at + p.size <= Len(lines) + 1 /\ r.plan = Append(done.plan, p) /\ r.from >= done.from
      BY <1>4, <2>1 DEF PlacedIn
    <2>3. done.plan \in Seq(Piece) /\ Len(done.plan) = k - 1 /\ r.from \in Int /\ done.from \in Int
      BY <1>1, <1>2, <2>2 DEF PlannedTo, PlanState
    <2>4. Len(r.plan) = k /\ r.plan[k] = p /\ \A j \in 1 .. k - 1 : r.plan[j] = done.plan[j] /\ done.plan[j] \in Piece
      <3>1. Len(r.plan) = Len(done.plan) + 1 /\ r.plan[Len(done.plan) + 1] = p /\ \A j \in 1 .. Len(done.plan) : r.plan[j] = done.plan[j]
        BY <2>2, <2>3, AppendProperties
      <3>2. \A j \in 1 .. Len(done.plan) : done.plan[j] \in Piece
        BY <2>3
      <3>3. Len(done.plan) + 1 = k
        BY <1>1, <2>3
      <3> QED BY <2>3, <3>1, <3>2, <3>3
    <2>5. ASSUME NEW j \in 1 .. k PROVE r.plan[j].at + r.plan[j].size <= Len(lines) + 1
      <3>1. CASE j = k
        BY <2>2, <2>4, <3>1
      <3>2. CASE j \in 1 .. k - 1
        BY <2>2, <2>4, <3>2 DEF PlannedTo
      <3> QED BY <1>1, <3>1, <3>2
    <2>6. ASSUME NEW j \in 1 .. k, r.plan[j].size > 0
          PROVE  /\ r.plan[j].at + r.plan[j].size <= r.from
                 /\ \A i \in 1 .. r.plan[j].size : SameLine(lines[r.plan[j].at + i - 1], chunks[j].old[i], TRUE)
                 /\ \A i \in 1 .. j - 1 : r.plan[i].size > 0 => r.plan[i].at + r.plan[i].size <= r.plan[j].at
      <3>1. CASE j = k
        <4>1. p.size > 0 /\ r.plan[j] = p
          BY <2>4, <2>6, <3>1
        <4>2. p.at >= done.from /\ p.at + p.size <= r.from /\ \A i \in 1 .. p.size : SameLine(lines[p.at + i - 1], c.old[i], TRUE)
          BY <2>1, <4>1 DEF PlacedIn
        <4>3. ASSUME NEW i \in 1 .. k - 1, r.plan[i].size > 0 PROVE r.plan[i].at + r.plan[i].size <= p.at
          <5>1. r.plan[i] = done.plan[i] /\ done.plan[i] \in Piece
            BY <2>4
          <5>2. done.plan[i].at + done.plan[i].size <= done.from
            BY <2>2, <4>3, <5>1 DEF PlannedTo
          <5>3. done.plan[i].at + done.plan[i].size \in Int /\ p.at \in Int
            BY <2>2, <5>1 DEF Piece
          <5> QED BY <2>3, <4>2, <5>1, <5>2, <5>3
        <4> QED BY <3>1, <4>1, <4>2, <4>3 DEF c
      <3>2. CASE j \in 1 .. k - 1
        <4>1. r.plan[j] = done.plan[j] /\ done.plan[j].size > 0
          BY <2>4, <2>6, <3>2
        <4>2. /\ done.plan[j].at + done.plan[j].size <= done.from
              /\ \A i \in 1 .. done.plan[j].size : SameLine(lines[done.plan[j].at + i - 1], chunks[j].old[i], TRUE)
              /\ \A i \in 1 .. j - 1 : done.plan[i].size > 0 => done.plan[i].at + done.plan[i].size <= done.plan[j].at
          BY <2>2, <3>2, <4>1 DEF PlannedTo
        <4>3. done.plan[j].at + done.plan[j].size \in Int
          <5>1. done.plan[j] \in Piece
            BY <2>4, <3>2
          <5> QED BY <5>1 DEF Piece
        <4>4. r.plan[j].at + r.plan[j].size <= r.from
          BY <2>2, <2>3, <4>1, <4>2, <4>3
        <4>5. ASSUME NEW i \in 1 .. j - 1, r.plan[i].size > 0 PROVE r.plan[i].at + r.plan[i].size <= r.plan[j].at
          <5>1. i \in 1 .. k - 1
            BY <1>1, <3>2
          <5>2. r.plan[i] = done.plan[i]
            BY <2>4, <5>1
          <5> QED BY <4>1, <4>2, <4>5, <5>2
        <4> QED BY <4>1, <4>2, <4>4, <4>5
      <3>3. j = k \/ j \in 1 .. k - 1
        BY <1>1
      <3> QED BY <3>1, <3>2, <3>3
    <2>7. PlannedTo(lines, chunks, r, k)
      BY <1>2, <2>4, <2>5, <2>6 DEF PlannedTo
    <2> QED BY <2>7 DEF r, c
  <1> QED BY <1>3, <1>4

LEMMA PlanFits ==
    ASSUME NEW lines \in FileLines, NEW chunks \in Seq(PatchChunk)
    PROVE  PlannedTo(lines, chunks, Plan(lines, chunks), Len(chunks))
  <1> DEFINE n == Len(chunks)
             base == [ok |-> TRUE, from |-> 1, plan |-> <<>>]
             G == [p \in (1 .. n) \X PlanState |-> PlanChunk(lines, p[2], chunks[p[1]])]
             F(f) == [k \in 0 .. n |-> IF k = 0 THEN base ELSE PlanChunk(lines, f[k - 1], chunks[k])]
             g == CHOOSE f : f = F(f)
  <1>0. <<>> \in Seq(Piece) /\ Len(<<>>) = 0
    BY EmptySeq
  <1>1. n \in Nat /\ base \in PlanState /\ \A k \in 1 .. n : chunks[k] \in PatchChunk
    BY <1>0 DEF PlanState
  <1>1a. PlannedTo(lines, chunks, base, 0)
    BY <1>0, <1>1 DEF PlannedTo
  <1> HIDE DEF n, base
  <1>2. G \in [(1 .. n) \X PlanState -> PlanState]
    <2>1. \A p \in (1 .. n) \X PlanState : p[1] \in 1 .. n /\ p[2] \in PlanState
      OBVIOUS
    <2>2. ASSUME NEW p \in (1 .. n) \X PlanState PROVE PlanChunk(lines, p[2], chunks[p[1]]) \in PlanState
      BY <1>1, <2>1, ChunkPlaced
    <2> QED BY <2>2
  <1>3. PICK f : Follows(f, PlanState, base, n, G)
    <2> HIDE DEF G
    <2> QED BY <1>1, <1>2, Recursion
  <1>4. \A k \in 1 .. n : f[k] = PlanChunk(lines, f[k - 1], chunks[k]) /\ f[k - 1] \in PlanState
    <2> SUFFICES ASSUME NEW k \in 1 .. n PROVE f[k] = PlanChunk(lines, f[k - 1], chunks[k]) /\ f[k - 1] \in PlanState
      OBVIOUS
    <2> DEFINE v == f[k - 1]
    <2>1. v \in PlanState /\ f[k] = G[<<k, v>>]
      <3> HIDE DEF G
      <3>1. k - 1 \in 0 .. n
        BY <1>1
      <3> QED BY <3>1, <1>3 DEF Follows
    <2> HIDE DEF v
    <2>2. <<k, v>> \in (1 .. n) \X PlanState /\ <<k, v>>[1] = k /\ <<k, v>>[2] = v
      BY <2>1
    <2>3. G[<<k, v>>] = PlanChunk(lines, v, chunks[k])
      BY <2>2, Zenon
    <2> QED BY <2>1, <2>3 DEF v
  <1>5. f = F(f)
    <2> HIDE DEF G
    <2>1. f \in [0 .. n -> PlanState] /\ f[0] = base
      BY <1>3 DEF Follows
    <2> QED BY <2>1, <1>1, <1>4
  <1>6. g = F(g)
    <2> HIDE DEF F
    <2> QED BY <1>5, Zenon
  <1>7. Plan(lines, chunks) = g[n]
    BY DEF Plan, n, base
  <1> HIDE DEF g, F
  <1>8. \A k \in 0 .. n : g[k] = IF k = 0 THEN base ELSE PlanChunk(lines, g[k - 1], chunks[k])
    BY <1>6 DEF F
  <1> DEFINE T == {k \in 0 .. n : PlannedTo(lines, chunks, g[k], k)}
  <1>9. 0 .. n \subseteq T
    <2>1. 0 \in T
      BY <1>1, <1>1a, <1>8
    <2>2. ASSUME NEW k \in 0 .. n - 1, k \in T PROVE k + 1 \in T
      <3>1. k + 1 \in 1 .. n /\ (k + 1) - 1 = k /\ k + 1 # 0 /\ k + 1 \in 0 .. n
        BY <1>1
      <3>2. g[k + 1] = PlanChunk(lines, g[k], chunks[k + 1])
        BY <1>8, <3>1
      <3>3. PlannedTo(lines, chunks, g[k], (k + 1) - 1)
        BY <2>2, <3>1
      <3>4. PlannedTo(lines, chunks, PlanChunk(lines, g[k], chunks[k + 1]), k + 1)
        BY <3>1, <3>3, PlannedOneMore DEF n
      <3> QED BY <3>1, <3>2, <3>4
    <2> HIDE DEF T
    <2> QED BY <1>1, <2>1, <2>2, UpTo0
  <1>10. n \in T
    <2>1. n \in 0 .. n
      BY <1>1
    <2> HIDE DEF T
    <2> QED BY <1>9, <2>1
  <1> QED BY <1>7, <1>10 DEF n
LEMMA PlanMatches ==
    ASSUME NEW lines \in FileLines, NEW chunks \in Seq(PatchChunk), Plan(lines, chunks).ok
    PROVE  LET plan == Plan(lines, chunks).plan IN
           /\ plan \in Seq(Piece) /\ PlacesMatch(lines, chunks, plan)
           /\ \A j \in 1 .. Len(plan) : plan[j].at + plan[j].size <= Len(lines) + 1
  <1> DEFINE r == Plan(lines, chunks)
             plan == r.plan
  <1>1. PlannedTo(lines, chunks, r, Len(chunks))
    BY PlanFits
  <1> HIDE DEF r
  <1>2. r.ok
    BY DEF r
  <1>3. plan \in Seq(Piece) /\ Len(plan) = Len(chunks) /\ DOMAIN plan = 1 .. Len(plan)
    BY <1>1, <1>2 DEF PlannedTo, PlanState
  <1>4. PlacesMatch(lines, chunks, plan)
    BY <1>1, <1>2, <1>3 DEF PlannedTo, PlacesMatch
  <1>5. \A j \in 1 .. Len(plan) : plan[j].at + plan[j].size <= Len(lines) + 1
    BY <1>1, <1>2, <1>3 DEF PlannedTo
  <1> QED BY <1>3, <1>4, <1>5 DEF r

\* A slice within its sequence, or none.
LEMMA SliceIs ==
    ASSUME NEW s \in FileLines, NEW m \in Nat \ {0}, NEW n \in Nat, n <= Len(s)
    PROVE  LET t == SubSeq(s, m, n) IN
           /\ t \in FileLines /\ Len(t) \in Nat
           /\ m <= n + 1 => Len(t) = n - m + 1 /\ \A i \in 1 .. n - m + 1 : t[i] = s[m + i - 1]
  <1> DEFINE t == SubSeq(s, m, n)
  <1>1. \A i \in m .. n : s[i] \in Int
    BY DEF FileLines
  <1>2. m \in Int /\ n \in Int
    OBVIOUS
  <1>3. /\ t \in Seq(Int)
        /\ Len(t) = IF m <= n THEN n - m + 1 ELSE 0
        /\ \A i \in 1 .. n - m + 1 : t[i] = s[m + i - 1]
    BY <1>1, <1>2, SubSeqProperties
  <1> HIDE DEF t
  <1>4. m <= n + 1 => Len(t) = n - m + 1
    <2>1. CASE m <= n
      <3>1. Len(t) = n - m + 1
        BY <1>3, <2>1
      <3> QED BY <3>1
    <2>2. CASE ~(m <= n)
      <3>1. Len(t) = 0
        BY <1>3, <2>2
      <3>2. m <= n + 1 => n - m + 1 = 0
        BY <2>2
      <3> QED BY <3>1, <3>2
    <2> QED BY <2>1, <2>2
  <1>5. Len(t) \in Nat
    BY <1>3
  <1> QED BY <1>3, <1>4, <1>5 DEF t, FileLines

\* The end of two sequences, from a place in the first.
LEMMA EndOfBoth ==
    ASSUME NEW p \in FileLines, NEW z \in FileLines, NEW f \in Nat \ {0}, f <= Len(p) + 1
    PROVE  SubSeq(p \o z, f, Len(p \o z)) = SubSeq(p, f, Len(p)) \o z
  <1> DEFINE y == p \o z
             a == SubSeq(y, f, Len(y))
             q == SubSeq(p, f, Len(p))
             b == q \o z
  <1>1. Len(p) \in Nat /\ Len(z) \in Nat
    BY DEF FileLines
  <1>2. /\ y \in FileLines /\ Len(y) = Len(p) + Len(z)
        /\ \A i \in 1 .. Len(p) + Len(z) : y[i] = IF i <= Len(p) THEN p[i] ELSE z[i - Len(p)]
    BY ConcatProperties DEF FileLines
  <1>3. q \in FileLines /\ Len(q) = Len(p) - f + 1 /\ \A i \in 1 .. Len(p) - f + 1 : q[i] = p[f + i - 1]
    BY <1>1, SliceIs
  <1>4. /\ b \in FileLines /\ Len(b) = Len(q) + Len(z)
        /\ \A i \in 1 .. Len(q) + Len(z) : b[i] = IF i <= Len(q) THEN q[i] ELSE z[i - Len(q)]
    BY <1>3, ConcatProperties DEF FileLines
  <1> HIDE DEF y
  <1>5. Len(y) \in Nat /\ f <= Len(y) + 1
    BY <1>1, <1>2
  <1>6. a \in FileLines /\ Len(a) = Len(y) - f + 1 /\ \A i \in 1 .. Len(y) - f + 1 : a[i] = y[f + i - 1]
    BY <1>2, <1>5, SliceIs
  <1> HIDE DEF a, q, b
  <1>7. Len(a) = Len(b)
    BY <1>1, <1>2, <1>3, <1>4, <1>6
  <1>8. ASSUME NEW i \in 1 .. Len(a) PROVE a[i] = b[i]
    <2>0. Len(a) = Len(y) - f + 1 /\ Len(y) = Len(p) + Len(z) /\ Len(q) = Len(p) - f + 1
      BY <1>2, <1>3, <1>6
    <2>1. i \in Nat /\ i \in 1 .. Len(y) - f + 1 /\ f + i - 1 \in 1 .. Len(p) + Len(z) /\ i \in 1 .. Len(q) + Len(z)
      BY <1>1, <2>0
    <2>2. a[i] = y[f + i - 1]
      BY <1>6, <2>1
    <2>3. y[f + i - 1] = IF f + i - 1 <= Len(p) THEN p[f + i - 1] ELSE z[(f + i - 1) - Len(p)]
      BY <1>2, <2>1
    <2>4. b[i] = IF i <= Len(q) THEN q[i] ELSE z[i - Len(q)]
      BY <1>4, <2>1
    <2>5. (f + i - 1 <= Len(p)) <=> (i <= Len(q))
      BY <1>1, <2>0, <2>1
    <2>6. i <= Len(q) => q[i] = p[f + i - 1]
      <3>1. i <= Len(q) => i \in 1 .. Len(p) - f + 1
        BY <1>1, <2>0, <2>1
      <3> QED BY <1>3, <3>1
    <2>7. (f + i - 1) - Len(p) = i - Len(q)
      BY <1>1, <2>0, <2>1
    <2> QED BY <2>2, <2>3, <2>4, <2>5, <2>6, <2>7
  <1> QED BY <1>4, <1>6, <1>7, <1>8, SeqEqual DEF FileLines, a, b, q, y

\* Two sequences of lines that begin alike.
Alike(a, b, n) == n <= Len(a) /\ n <= Len(b) /\ \A i \in 1 .. n : a[i] = b[i]

LEMMA AlikeSlices ==
    ASSUME NEW a \in FileLines, NEW b \in FileLines, NEW n \in Nat, Alike(a, b, n), NEW f \in Nat \ {0}, f <= n + 1
    PROVE  SubSeq(a, f, n) = SubSeq(b, f, n)
  <1>0. n <= Len(a) /\ n <= Len(b) /\ \A i \in 1 .. n : a[i] = b[i]
    BY DEF Alike
  <1> DEFINE s == SubSeq(a, f, n)
             t == SubSeq(b, f, n)
  <1>1. s \in FileLines /\ Len(s) = n - f + 1 /\ \A i \in 1 .. n - f + 1 : s[i] = a[f + i - 1]
    BY <1>0, SliceIs
  <1>2. t \in FileLines /\ Len(t) = n - f + 1 /\ \A i \in 1 .. n - f + 1 : t[i] = b[f + i - 1]
    BY <1>0, SliceIs
  <1> HIDE DEF s, t
  <1>3. ASSUME NEW i \in 1 .. n - f + 1 PROVE s[i] = t[i]
    <2>1. f + i - 1 \in 1 .. n
      OBVIOUS
    <2> QED BY <1>0, <1>1, <1>2, <2>1
  <1> QED BY <1>1, <1>2, <1>3, SeqEqual DEF FileLines, s, t

Cat(s, t) == s \o t
LEMMA CatIs ==
    ASSUME NEW s \in FileLines, NEW t \in FileLines, NEW u \in FileLines
    PROVE  Cat(s, t) \in FileLines /\ Cat(Cat(s, t), u) = Cat(s, Cat(t, u))
  BY ConcatAssociative, ConcatProperties DEF FileLines, Cat

\* One piece put in place: what is before it stays, and from any place before it
\* on there are the lines up to it, the new lines, and what comes behind.
LEMMA ReplacedIs ==
    ASSUME NEW lines \in FileLines, NEW x \in FileLines, NEW p \in Piece, Alike(x, lines, p.at - 1)
    PROVE  LET y == Replaced(x, p) IN
           /\ y \in FileLines
           /\ Alike(y, lines, p.at - 1)
           /\ \A f \in Nat \ {0} : f <= p.at =>
                 SubSeq(y, f, Len(y)) = (SubSeq(lines, f, p.at - 1) \o p.new) \o SubSeq(x, p.at + p.size, Len(x))
  <1> DEFINE n == p.at - 1
             a == SubSeq(x, 1, n)
             c == SubSeq(x, p.at + p.size, Len(x))
             y == Replaced(x, p)
  <1>1. p.at \in Nat \ {0} /\ p.size \in Nat /\ p.new \in FileLines
    BY DEF Piece
  <1>2. n \in Nat /\ p.at + p.size \in Nat \ {0} /\ Len(x) \in Nat
    BY <1>1 DEF FileLines
  <1>3. n <= Len(x) /\ n <= Len(lines) /\ \A i \in 1 .. n : x[i] = lines[i]
    BY DEF Alike
  <1>4. y = (a \o p.new) \o c
    <2>1. (IF n < Len(x) THEN n ELSE Len(x)) = n
      BY <1>2, <1>3
    <2>2. UpTo(x, p.at - 1) = a
      BY <2>1, Zenon DEF UpTo
    <2> QED BY <2>2, Zenon DEF Replaced
  <1> HIDE DEF y
  <1>5. a \in FileLines /\ Len(a) = n /\ \A i \in 1 .. n : a[i] = x[i]
    <2>0. n <= Len(x) /\ 1 <= n + 1
      BY <1>2, <1>3
    <2>1. a \in FileLines /\ Len(a) = n - 1 + 1 /\ \A i \in 1 .. n - 1 + 1 : a[i] = x[1 + i - 1]
      <3> HIDE DEF n
      <3> QED BY <2>0, <1>2, SliceIs
    <2>2. n - 1 + 1 = n /\ \A i \in 1 .. n : 1 + i - 1 = i
      BY <1>2
    <2> HIDE DEF a, n
    <2>3. Len(a) = n
      BY <1>2, <2>1
    <2>4. ASSUME NEW i \in 1 .. n PROVE a[i] = x[i]
      <3>1. i \in 1 .. n - 1 + 1 /\ 1 + i - 1 = i
        BY <1>2
      <3> QED BY <2>1, <3>1
    <2> QED BY <2>1, <2>3, <2>4
  <1>6. c \in FileLines
    <2>1. Len(x) <= Len(x)
      BY <1>2
    <2> HIDE DEF n
    <2> QED BY <1>2, <2>1, SliceIs
  <1> HIDE DEF n, a, c
  <1> DEFINE z == p.new \o c
  <1>7. z \in FileLines /\ y = a \o z
    <2>1. z \in FileLines
      BY <1>1, <1>6, ConcatProperties DEF FileLines
    <2>2. (a \o p.new) \o c = a \o z
      <3>1. Cat(Cat(a, p.new), c) = Cat(a, Cat(p.new, c))
        BY <1>1, <1>5, <1>6, CatIs
      <3> QED BY <3>1 DEF Cat
    <2> QED BY <1>4, <2>1, <2>2
  <1> HIDE DEF z
  <1>8. y \in FileLines /\ Len(y) = n + Len(z) /\ \A i \in 1 .. n + Len(z) : y[i] = IF i <= n THEN a[i] ELSE z[i - n]
    BY <1>5, <1>7, ConcatProperties DEF FileLines
  <1>9. Alike(y, lines, n)
    <2>1. Len(z) \in Nat
      BY <1>7 DEF FileLines
    <2>2. n <= Len(y)
      BY <1>2, <1>8, <2>1
    <2>3. ASSUME NEW i \in 1 .. n PROVE y[i] = lines[i]
      <3>1. i \in 1 .. n + Len(z) /\ i <= n
        BY <1>2, <2>1
      <3> QED BY <1>3, <1>5, <1>8, <3>1
    <2> QED BY <1>3, <2>2, <2>3 DEF Alike
  <1>10. ASSUME NEW f \in Nat \ {0}, f <= n + 1
         PROVE  SubSeq(y, f, Len(y)) = (SubSeq(lines, f, n) \o p.new) \o c
    <2>1. SubSeq(y, f, Len(y)) = SubSeq(a, f, n) \o z
      BY <1>5, <1>7, <1>10, EndOfBoth
    <2>2. Alike(a, lines, n)
      <3>1. n <= n
        BY <1>2
      <3>2. \A i \in 1 .. n : a[i] = lines[i]
        BY <1>3, <1>5
      <3> QED BY <1>3, <1>5, <3>1, <3>2 DEF Alike
    <2>3. SubSeq(a, f, n) = SubSeq(lines, f, n)
      BY <1>2, <1>5, <1>10, <2>2, AlikeSlices
    <2>4. SubSeq(lines, f, n) \in FileLines
      BY <1>2, <1>3, SliceIs
    <2>5. SubSeq(lines, f, n) \o z = (SubSeq(lines, f, n) \o p.new) \o c
      <3> DEFINE q == SubSeq(lines, f, n)
      <3> HIDE DEF q
      <3>1. Cat(Cat(q, p.new), c) = Cat(q, Cat(p.new, c))
        BY <1>1, <1>6, <2>4, CatIs DEF q
      <3> QED BY <3>1 DEF Cat, q, z
    <2> QED BY <2>1, <2>3, <2>5
  <1>11. \A f \in Nat \ {0} : f <= p.at => f <= n + 1
    BY <1>1 DEF n
  <1> QED BY <1>8, <1>9, <1>10, <1>11 DEF y, n, c

-----------------------------------------------------------------------------
\* The pieces of a plan, one behind the other, within the lines.
InLine(lines, s) ==
    s \in Seq(Piece) /\ Disjoint(s) /\ \A j \in 1 .. Len(s) : s[j].at + s[j].size <= Len(lines) + 1

\* The lines with the pieces from k on put in place.
BehindOf(lines, s, a) ==
    \A k \in 1 .. Len(s) + 1 : a[k] = IF k > Len(s) THEN lines ELSE Replaced(a[k + 1], s[k])
LEMMA ReplacedFits == ASSUME NEW x \in FileLines, NEW p \in Piece PROVE Replaced(x, p) \in FileLines
  <1> DEFINE n == p.at - 1
             m == IF n < Len(x) THEN n ELSE Len(x)
             q == p.at + p.size
             a == SubSeq(x, 1, m)
             c == SubSeq(x, q, Len(x))
  <1>1. n \in Nat /\ q \in Nat \ {0} /\ p.new \in FileLines /\ Len(x) \in Nat
    BY DEF Piece, FileLines
  <1>2. m \in Nat /\ m <= Len(x) /\ Len(x) <= Len(x)
    BY <1>1
  <1>3. Replaced(x, p) = (a \o p.new) \o c
    BY Zenon DEF Replaced, UpTo
  <1> HIDE DEF m, q
  <1>4. a \in FileLines /\ c \in FileLines
    BY <1>1, <1>2, SliceIs
  <1> HIDE DEF a, c
  <1> QED BY <1>1, <1>3, <1>4, ConcatProperties DEF FileLines

LEMMA ApplyPlanIs ==
    ASSUME NEW lines \in FileLines, NEW s \in Seq(Piece)
    PROVE  ApplyPlan(lines, s) \in FileLines /\ \E a : BehindOf(lines, s, a) /\ ApplyPlan(lines, s) = a[1]
  <1> DEFINE n == Len(s)
             next == [k \in 1 .. n |-> k + 1]
             G == [p \in (1 .. n) \X FileLines |-> Replaced(p[2], s[p[1]])]
             F(f) == [k \in 1 .. n + 1 |-> IF k > n THEN lines ELSE Replaced(f[k + 1], s[k])]
             g == CHOOSE f : f = F(f)
  <1>1. n \in Nat /\ \A k \in 1 .. n : s[k] \in Piece
    OBVIOUS
  <1>2. G \in [(1 .. n) \X FileLines -> FileLines]
    <2>1. \A p \in (1 .. n) \X FileLines : p[1] \in 1 .. n /\ p[2] \in FileLines
      OBVIOUS
    <2>2. ASSUME NEW p \in (1 .. n) \X FileLines PROVE Replaced(p[2], s[p[1]]) \in FileLines
      BY <1>1, <2>1, ReplacedFits
    <2> QED BY <2>2
  <1>3. next \in [1 .. n -> 1 .. n + 1] /\ \A k \in 1 .. n : next[k] > k
    BY <1>1
  <1>4. PICK f : Precedes(f, FileLines, lines, n, G, next)
    <2> HIDE DEF G, n, next
    <2> QED BY <1>1, <1>2, <1>3, RecursionDown
  <1>5. \A k \in 1 .. n : f[k] = Replaced(f[k + 1], s[k])
    <2> SUFFICES ASSUME NEW k \in 1 .. n PROVE f[k] = Replaced(f[k + 1], s[k])
      OBVIOUS
    <2> DEFINE v == f[k + 1]
    <2>1. v \in FileLines /\ f[k] = G[<<k, v>>]
      <3>1. next[k] = k + 1 /\ k + 1 \in 1 .. n + 1
        BY <1>1
      <3> HIDE DEF G, next
      <3> QED BY <3>1, <1>4 DEF Precedes
    <2> HIDE DEF v
    <2>2. <<k, v>> \in (1 .. n) \X FileLines /\ <<k, v>>[1] = k /\ <<k, v>>[2] = v
      BY <2>1
    <2>3. G[<<k, v>>] = Replaced(v, s[k])
      BY <2>2, Zenon
    <2> QED BY <2>1, <2>3 DEF v
  <1>6. f = F(f)
    <2> HIDE DEF G, next
    <2>1. f \in [1 .. n + 1 -> FileLines] /\ f[n + 1] = lines
      BY <1>4 DEF Precedes
    <2>2. \A k \in 1 .. n + 1 : k > n => k = n + 1
      BY <1>1
    <2>3. \A k \in 1 .. n + 1 : ~(k > n) => k \in 1 .. n
      BY <1>1
    <2> HIDE DEF n
    <2> QED BY <2>1, <2>2, <2>3, <1>5
  <1>7. g = F(g)
    <2> HIDE DEF F
    <2> QED BY <1>6, Zenon
  <1>8. ApplyPlan(lines, s) = g[1]
    BY DEF ApplyPlan, n
  <1> HIDE DEF g, F
  <1>9. BehindOf(lines, s, g)
    BY <1>7 DEF F, BehindOf, n
  <1> HIDE DEF n
  <1>9a. \A k \in 1 .. n + 1 : g[k] = IF k > n THEN lines ELSE Replaced(g[k + 1], s[k])
    BY <1>9 DEF BehindOf, n
  <1> DEFINE T == {k \in 1 .. n + 1 : g[k] \in FileLines}
  <1>10. 1 .. n + 1 \subseteq T
    <2>1. ASSUME NEW k \in 1 .. n + 1, \A j \in k + 1 .. n + 1 : j \in T PROVE k \in T
      <3>1. CASE k > n
        BY <1>9a, <3>1
      <3>2. CASE ~(k > n)
        <4>1. k \in 1 .. n /\ k + 1 \in k + 1 .. n + 1
          BY <1>1, <3>2
        <4> DEFINE x == g[k + 1]
        <4>2. x \in FileLines /\ g[k] = Replaced(x, s[k]) /\ s[k] \in Piece
          BY <1>1, <1>9a, <2>1, <3>2, <4>1
        <4> HIDE DEF x
        <4>3. Replaced(x, s[k]) \in FileLines
          BY <4>2, ReplacedFits
        <4> QED BY <4>2, <4>3
      <3> QED BY <3>1, <3>2
    <2> HIDE DEF T
    <2>2. n + 1 \in Nat
      BY <1>1
    <2> QED BY <2>1, <2>2, DownTo1
  <1>11. g[1] \in FileLines
    <2>1. 1 \in 1 .. n + 1
      BY <1>1
    <2> QED BY <1>10, <2>1
  <1> QED BY <1>8, <1>9, <1>11

\* The lines up to the piece k, with the pieces before it put in place.
Ahead == [out : FileLines, from : Nat \ {0}]
AheadOf(lines, s, t) ==
    /\ t[0] = [out |-> <<>>, from |-> 1]
    /\ \A k \in 1 .. Len(s) :
          /\ t[k - 1] \in Ahead /\ t[k] \in Ahead
          /\ t[k].out = (t[k - 1].out \o SubSeq(lines, t[k - 1].from, s[k].at - 1)) \o s[k].new
          /\ t[k].from = s[k].at + s[k].size
LEMMA SplicedIs ==
    ASSUME NEW lines \in FileLines, NEW s, InLine(lines, s)
    PROVE  \E t : AheadOf(lines, s, t) /\ Spliced(lines, s) = t[Len(s)].out \o SubSeq(lines, t[Len(s)].from, Len(lines))
  <1> DEFINE n == Len(s)
             base == [out |-> <<>>, from |-> 1]
             With(v, k) == [out |-> v.out \o SubSeq(lines, v.from, s[k].at - 1) \o s[k].new, from |-> s[k].at + s[k].size]
             G == [p \in (1 .. n) \X Ahead |-> With(p[2], p[1])]
             F(f) == [k \in 0 .. n |-> IF k = 0 THEN base ELSE With(f[k - 1], k)]
             g == CHOOSE f : f = F(f)
  <1>1. n \in Nat /\ s \in Seq(Piece) /\ (\A k \in 1 .. n : s[k] \in Piece) /\ base \in Ahead
    BY EmptySeq DEF InLine, Ahead, FileLines
  <1>2. ASSUME NEW k \in 1 .. n, NEW v \in Ahead PROVE With(v, k) \in Ahead
    <2>1. s[k].at - 1 \in Nat /\ s[k].at - 1 <= Len(lines) /\ s[k].new \in FileLines /\ s[k].at + s[k].size \in Nat \ {0}
      <3>1. s[k] \in Piece /\ s[k].at + s[k].size <= Len(lines) + 1 /\ Len(lines) \in Nat
        BY <1>1 DEF InLine, FileLines
      <3> QED BY <3>1 DEF Piece
    <2>2. v.out \in FileLines /\ v.from \in Nat \ {0}
      BY DEF Ahead
    <2> DEFINE b == SubSeq(lines, v.from, s[k].at - 1)
    <2>3. b \in FileLines
      BY <2>1, <2>2, SliceIs
    <2> HIDE DEF b
    <2> DEFINE o == v.out \o b \o s[k].new
    <2>4. o \in FileLines
      BY <2>1, <2>2, <2>3, ConcatProperties DEF FileLines
    <2>5. With(v, k) = [out |-> o, from |-> s[k].at + s[k].size]
      BY DEF b
    <2> HIDE DEF o, With
    <2> QED BY <2>1, <2>4, <2>5 DEF Ahead
  <1> HIDE DEF n, base
  <1>3. G \in [(1 .. n) \X Ahead -> Ahead]
    <2>1. \A p \in (1 .. n) \X Ahead : p[1] \in 1 .. n /\ p[2] \in Ahead
      OBVIOUS
    <2> HIDE DEF With
    <2>2. ASSUME NEW p \in (1 .. n) \X Ahead PROVE With(p[2], p[1]) \in Ahead
      BY <1>2, <2>1
    <2> QED BY <2>2
  <1>4. PICK f : Follows(f, Ahead, base, n, G)
    <2> HIDE DEF G
    <2> QED BY <1>1, <1>3, Recursion
  <1> HIDE DEF With
  <1>5. \A k \in 1 .. n : f[k] = With(f[k - 1], k) /\ f[k - 1] \in Ahead /\ f[k] \in Ahead
    <2> SUFFICES ASSUME NEW k \in 1 .. n PROVE f[k] = With(f[k - 1], k) /\ f[k - 1] \in Ahead /\ f[k] \in Ahead
      OBVIOUS
    <2> DEFINE v == f[k - 1]
    <2>1. v \in Ahead /\ f[k] = G[<<k, v>>] /\ f[k] \in Ahead
      <3> HIDE DEF G
      <3>1. k - 1 \in 0 .. n /\ k \in 0 .. n
        BY <1>1
      <3> QED BY <3>1, <1>4 DEF Follows
    <2> HIDE DEF v
    <2>2. <<k, v>> \in (1 .. n) \X Ahead /\ <<k, v>>[1] = k /\ <<k, v>>[2] = v
      BY <2>1
    <2>3. G[<<k, v>>] = With(v, k)
      BY <2>2, Zenon
    <2> QED BY <2>1, <2>3 DEF v
  <1>6. f = F(f)
    <2> HIDE DEF G
    <2>1. f \in [0 .. n -> Ahead] /\ f[0] = base
      BY <1>4 DEF Follows
    <2> QED BY <2>1, <1>1, <1>5
  <1>7. g = F(g)
    <2> HIDE DEF F
    <2> QED BY <1>6, Zenon
  <1>8. Spliced(lines, s) = g[n].out \o SubSeq(lines, g[n].from, Len(lines))
    BY DEF Spliced, n, base, With
  <1> HIDE DEF g, F
  <1>9. \A k \in 0 .. n : g[k] = IF k = 0 THEN base ELSE With(g[k - 1], k)
    BY <1>7 DEF F
  <1> DEFINE T == {k \in 0 .. n : g[k] \in Ahead}
  <1>10. 0 .. n \subseteq T
    <2>1. 0 \in T
      BY <1>1, <1>9
    <2>2. ASSUME NEW k \in 0 .. n - 1, k \in T PROVE k + 1 \in T
      <3>1. k + 1 \in 1 .. n /\ (k + 1) - 1 = k /\ k + 1 # 0 /\ k + 1 \in 0 .. n
        BY <1>1
      <3> DEFINE v == g[k]
      <3>2. g[k + 1] = With(v, k + 1) /\ v \in Ahead
        BY <1>9, <2>2, <3>1
      <3> HIDE DEF v
      <3>3. With(v, k + 1) \in Ahead
        BY <1>2, <3>1, <3>2 DEF n
      <3> QED BY <3>1, <3>2, <3>3
    <2> HIDE DEF T
    <2> QED BY <1>1, <2>1, <2>2, UpTo0
  <1>11. AheadOf(lines, s, g)
    <2>1. g[0] = base
      BY <1>1, <1>9
    <2>2. ASSUME NEW k \in 1 .. n
          PROVE  /\ g[k - 1] \in Ahead /\ g[k] \in Ahead
                 /\ g[k].out = (g[k - 1].out \o SubSeq(lines, g[k - 1].from, s[k].at - 1)) \o s[k].new
                 /\ g[k].from = s[k].at + s[k].size
      <3>1. k \in 0 .. n /\ k - 1 \in 0 .. n /\ k # 0
        BY <1>1
      <3>2. g[k] = With(g[k - 1], k) /\ g[k - 1] \in Ahead /\ g[k] \in Ahead
        <4>1. \A j \in 0 .. n : g[j] \in Ahead
          BY <1>10
        <4> HIDE DEF T
        <4> QED BY <1>9, <3>1, <4>1
      <3> DEFINE v == g[k - 1]
      <3> HIDE DEF v
      <3>3. With(v, k).out = (v.out \o SubSeq(lines, v.from, s[k].at - 1)) \o s[k].new /\ With(v, k).from = s[k].at + s[k].size
        BY DEF With
      <3> QED BY <3>2, <3>3 DEF v
    <2> QED BY <2>1, <2>2 DEF AheadOf, n, base
  <1> QED BY <1>8, <1>11 DEF n

\* From the last to the first or from the first to the last: the same lines.
LEMMA AppliedIsSpliced ==
    ASSUME NEW lines \in FileLines, NEW s, InLine(lines, s)
    PROVE  ApplyPlan(lines, s) = Spliced(lines, s)
  <1> DEFINE n == Len(s)
  <1>1. n \in Nat /\ Len(lines) \in Nat
    BY DEF InLine, FileLines
  <1>2. \A k \in 1 .. n : s[k] \in Piece /\ s[k].at \in Nat \ {0} /\ s[k].size \in Nat /\ s[k].new \in FileLines /\ s[k].at + s[k].size <= Len(lines) + 1
    <2>1. \A k \in 1 .. n : s[k] \in Piece
      BY DEF InLine
    <2> QED BY <2>1 DEF Piece, InLine
  <1>3. \A i, j \in 1 .. n : i < j => s[i].at + s[i].size <= s[j].at
    <2>1. DOMAIN s = 1 .. n
      BY DEF InLine
    <2> QED BY <2>1 DEF InLine, Disjoint
  <1>4. PICK a : BehindOf(lines, s, a) /\ ApplyPlan(lines, s) = a[1]
    BY ApplyPlanIs DEF InLine
  <1>5. PICK t : AheadOf(lines, s, t) /\ Spliced(lines, s) = t[n].out \o SubSeq(lines, t[n].from, Len(lines))
    BY SplicedIs
  <1> HIDE DEF n
  <1>6. a[n + 1] = lines /\ \A k \in 1 .. n : a[k] = Replaced(a[k + 1], s[k])
    <2>1. n + 1 \in 1 .. n + 1 /\ n + 1 > n
      BY <1>1
    <2>2. \A k \in 1 .. n : k \in 1 .. n + 1 /\ ~(k > n)
      BY <1>1
    <2> QED BY <1>4, <2>1, <2>2 DEF BehindOf, n
  <1>7. /\ t[0] = [out |-> <<>>, from |-> 1]
        /\ \A k \in 1 .. n : /\ t[k - 1] \in Ahead /\ t[k] \in Ahead
                             /\ t[k].out = (t[k - 1].out \o SubSeq(lines, t[k - 1].from, s[k].at - 1)) \o s[k].new
                             /\ t[k].from = s[k].at + s[k].size
    BY <1>5 DEF AheadOf, n
  <1> DEFINE T == {k \in 1 .. n : a[k + 1] \in FileLines /\ Alike(a[k + 1], lines, s[k].at - 1)}
  <1>8. 1 .. n \subseteq T
    <2>1. ASSUME NEW k \in 1 .. n, \A j \in k + 1 .. n : j \in T PROVE k \in T
      <3>1. CASE k = n
        <4>1. s[n].at - 1 <= Len(lines)
          BY <1>1, <1>2, <3>1
        <4>2. Alike(lines, lines, s[n].at - 1)
          BY <4>1 DEF Alike
        <4> QED BY <1>6, <3>1, <4>2
      <3>2. CASE k # n
        <4>1. k + 1 \in 1 .. n /\ k + 1 \in k + 1 .. n /\ k < k + 1
          BY <1>1, <3>2
        <4> DEFINE x == a[(k + 1) + 1]
                   p == s[k + 1]
        <4>2. x \in FileLines /\ p \in Piece /\ Alike(x, lines, p.at - 1) /\ a[k + 1] = Replaced(x, p)
          BY <1>2, <1>6, <2>1, <4>1
        <4> HIDE DEF x, p
        <4>3. Replaced(x, p) \in FileLines /\ Alike(Replaced(x, p), lines, p.at - 1)
          BY <4>2, ReplacedIs
        <4>4. s[k].at - 1 <= p.at - 1 /\ s[k].at - 1 \in Nat /\ p.at - 1 \in Nat
          <5>1. s[k].at + s[k].size <= s[k + 1].at
            BY <1>3, <4>1
          <5>2. s[k].at \in Nat \ {0} /\ s[k].size \in Nat /\ s[k + 1].at \in Nat \ {0}
            BY <1>2, <4>1
          <5> QED BY <5>1, <5>2 DEF p
        <4> DEFINE y == a[k + 1]
                   m == s[k].at - 1
        <4>5. Alike(y, lines, m)
          <5>1. Len(y) \in Nat /\ Alike(y, lines, p.at - 1)
            BY <4>2, <4>3 DEF FileLines
          <5>2. m <= p.at - 1 /\ m \in Nat /\ p.at - 1 \in Nat
            BY <4>4
          <5> HIDE DEF y, m
          <5> QED BY <1>1, <5>1, <5>2 DEF Alike
        <4> QED BY <4>2, <4>3, <4>5
      <3> QED BY <3>1, <3>2
    <2> HIDE DEF T
    <2> QED BY <1>1, <2>1, DownTo1
  <1> DEFINE W(k) == t[k].out \o SubSeq(a[k + 1], t[k].from, Len(a[k + 1]))
  <1>9. ASSUME NEW k \in 1 .. n PROVE W(k - 1) = W(k)
    <2> DEFINE x == a[k + 1]
               p == s[k]
               v == t[k - 1]
               y == a[k]
               b == SubSeq(lines, v.from, p.at - 1)
               c == SubSeq(x, p.at + p.size, Len(x))
    <2>1. k - 1 + 1 = k /\ k \in Nat \ {0}
      OBVIOUS
    <2>2. x \in FileLines /\ p \in Piece /\ Alike(x, lines, p.at - 1) /\ y = Replaced(x, p)
      BY <1>2, <1>6, <1>8
    <2>3. v \in Ahead /\ v.out \in FileLines /\ v.from \in Nat \ {0}
      BY <1>7 DEF Ahead
    <2>4. v.from <= p.at
      <3>1. CASE k = 1
        <4>1. v.from = 1
          BY <1>7, <3>1
        <4> QED BY <1>2, <4>1
      <3>2. CASE k # 1
        <4>1. k - 1 \in 1 .. n /\ k - 1 < k
          BY <1>1, <3>2
        <4>2. v.from = s[k - 1].at + s[k - 1].size
          BY <1>7, <4>1
        <4> QED BY <1>3, <4>1, <4>2
      <3> QED BY <3>1, <3>2
    <2>5. t[k].out = (v.out \o b) \o p.new /\ t[k].from = p.at + p.size
      BY <1>7
    <2>6. p.at - 1 \in Nat /\ p.at - 1 <= Len(lines) /\ p.at + p.size \in Nat \ {0} /\ p.new \in FileLines
      <3>1. p.at \in Nat \ {0} /\ p.size \in Nat /\ p.new \in FileLines /\ p.at + p.size <= Len(lines) + 1
        BY <1>2
      <3> HIDE DEF p
      <3> QED BY <1>1, <3>1
    <2>7. W(k - 1) = v.out \o SubSeq(y, v.from, Len(y)) /\ W(k) = ((v.out \o b) \o p.new) \o c
      BY <2>1, <2>5
    <2> HIDE DEF x, p, v, y, W
    <2>8. SubSeq(y, v.from, Len(y)) = (b \o p.new) \o c
      BY <2>2, <2>3, <2>4, ReplacedIs
    <2>9. b \in FileLines /\ c \in FileLines
      <3>1. Len(x) \in Nat /\ Len(x) <= Len(x)
        BY <2>2 DEF FileLines
      <3> QED BY <2>2, <2>3, <2>6, <3>1, SliceIs
    <2> HIDE DEF b, c
    <2> DEFINE o == v.out
               w == p.new
    <2>10. o \in FileLines /\ w \in FileLines
      BY <2>3, <2>6
    <2>11. W(k - 1) = o \o ((b \o w) \o c) /\ W(k) = ((o \o b) \o w) \o c
      BY <2>7, <2>8
    <2> HIDE DEF o, w
    <2>12. Cat(o, b) \in FileLines /\ Cat(b, w) \in FileLines /\ Cat(Cat(o, b), w) = Cat(o, Cat(b, w))
      BY <2>9, <2>10, CatIs
    <2>13. Cat(Cat(o, Cat(b, w)), c) = Cat(o, Cat(Cat(b, w), c))
      BY <2>9, <2>10, <2>12, CatIs
    <2>14. Cat(Cat(Cat(o, b), w), c) = Cat(o, Cat(Cat(b, w), c))
      BY <2>12, <2>13
    <2>15. ((o \o b) \o w) \o c = o \o ((b \o w) \o c)
      BY <2>14, Zenon DEF Cat
    <2> QED BY <2>11, <2>15, Zenon
  <1>10. W(n) = Spliced(lines, s)
    BY <1>5, <1>6
  <1>11. W(0) = ApplyPlan(lines, s)
    <2>1. a[1] \in FileLines
      <3>1. CASE n = 0
        BY <1>6, <3>1
      <3>2. CASE n # 0
        <4>1. 1 \in 1 .. n
          BY <1>1, <3>2
        <4>2. a[1 + 1] \in FileLines /\ a[1] = Replaced(a[1 + 1], s[1]) /\ s[1] \in Piece
          BY <1>2, <1>6, <1>8, <4>1
        <4> QED BY <4>2, ReplacedFits
      <3> QED BY <3>1, <3>2
    <2>2. t[0].out = <<>> /\ t[0].from = 1 /\ 0 + 1 = 1
      BY <1>7
    <2> DEFINE y == a[1]
    <2> HIDE DEF y
    <2>3. <<>> \o SubSeq(y, 1, Len(y)) = y
      BY <2>1, SubSeqFull, ConcatEmptySeq DEF y, FileLines
    <2> QED BY <1>4, <2>2, <2>3 DEF y
  <1> DEFINE S == {k \in 0 .. n : W(k) = W(0)}
  <1> HIDE DEF W, T
  <1>12. 0 .. n \subseteq S
    <2>1. 0 \in S
      BY <1>1
    <2>2. ASSUME NEW k \in 0 .. n - 1, k \in S PROVE k + 1 \in S
      <3>1. k + 1 \in 1 .. n /\ (k + 1) - 1 = k /\ k + 1 \in 0 .. n
        BY <1>1
      <3>2. W((k + 1) - 1) = W(k + 1)
        BY <1>9, <3>1, Zenon
      <3> QED BY <2>2, <3>1, <3>2
    <2> HIDE DEF S
    <2> QED BY <1>1, <2>1, <2>2, UpTo0
  <1> QED BY <1>1, <1>10, <1>11, <1>12

HunkType == [type : {"add", "delete", "update"}, path : PatchFiles, to : PatchFiles \cup {NoFile},
             lines : FileLines, chunks : Seq(PatchChunk)]
ChangeType == [type : {"add", "delete", "update", "move"}, path : PatchFiles, to : PatchFiles,
               content : FileLines \cup {NoFile}]

\* Parsing: a line that belongs to a section finds its section.
ParseInv ==
    /\ patch \in Seq(PatchLine) /\ pos \in Nat \ {0} /\ hunks \in Seq(HunkType)
    /\ mode \in {"between", "adding", "moving", "updating", "chunk"}
    /\ mode # "between" => hunks # <<>>
    /\ mode = "moving" => LastHunk.type = "update"
    /\ mode = "chunk" => LastHunk.chunks # <<>>
    /\ \A k \in 1 .. Len(hunks) : hunks[k].to # NoFile => hunks[k].type = "update"

\* What a change is of its hunk, for the files as they were.
ChangeFits(h, c) ==
    /\ c.path = h.path /\ (c.type # "move" => c.to = c.path)
    /\ c.type \in {"update", "move"} =>
          LET lines == before[h.path] IN
          /\ lines \in FileLines /\ Plan(lines, h.chunks).ok
          /\ c.content = Rejoined(ApplyPlan(lines, Sorted(Plan(lines, h.chunks).plan)))

\* What is on the disk of the changes that have been written.
OnDisk(c) ==
    /\ c.type # "delete" => disk[c.to] = c.content
    /\ c.type \in {"delete", "move"} => disk[c.path] = NoFile
TouchedBy(k, w) ==
    \E j \in k + 1 .. w : {changes[j].path, changes[j].to} \cap {changes[k].path, changes[k].to} # {}

WriteInv ==
    /\ before \in [PatchFiles -> FileLines \cup {NoFile}]
    /\ disk \in [PatchFiles -> FileLines \cup {NoFile, TornFile}]
    /\ changes \in Seq(ChangeType) /\ Len(changes) <= Len(hunks)
    /\ written \in 0 .. Len(changes) /\ result \in {"none", "rejected", "error", "success"}
    /\ pos <= Len(patch) => changes = <<>>
    /\ Len(changes) < Len(hunks) => written = 0
    /\ result = "rejected" => written = 0
    /\ result = "success" => written = Len(changes)
    /\ written = 0 /\ result # "error" => disk = before
    /\ \A k \in 1 .. Len(changes) : ChangeFits(hunks[k], changes[k])
    /\ result # "error" =>
          \A k \in 1 .. written : ~TouchedBy(k, written) /\ ~MovedOntoItself(changes[k]) => OnDisk(changes[k])

LEMMA LastSet == ASSUME NEW S, NEW s \in Seq(S), s # <<>>, NEW h \in S
    PROVE  LET t == [s EXCEPT ![Len(s)] = h] IN
           t \in Seq(S) /\ Len(t) = Len(s) /\ t # <<>> /\ Len(s) \in 1 .. Len(s) /\ t[Len(s)] = h /\ s[Len(s)] \in S
           /\ \A k \in 1 .. Len(s) : k # Len(s) => t[k] = s[k]
  <1> DEFINE n == Len(s)
             t == [s EXCEPT ![n] = h]
  <1>1. n \in Nat \ {0} /\ s \in [1 .. n -> S]
    BY EmptySeq
  <1> HIDE DEF n
  <1>2. t \in [1 .. n -> S] /\ t[n] = h /\ n \in 1 .. n /\ s[n] \in S /\ \A k \in 1 .. n : k # n => t[k] = s[k]
    BY <1>1
  <1> HIDE DEF t
  <1>3. t \in Seq(S) /\ Len(t) = n
    <2>1. n \in Nat
      BY <1>1
    <2> QED BY <1>2, <2>1, SeqDef
  <1>4. t # <<>>
    BY <1>1, <1>3, EmptySeq
  <1> QED BY <1>1, <1>2, <1>3, <1>4, Zenon DEF n, t

LEMMA PatchHunk == ASSUME NEW h \in HunkType
    PROVE /\ h.type \in {"add", "delete", "update"} /\ h.path \in PatchFiles /\ h.to \in PatchFiles \cup {NoFile}
          /\ h.lines \in FileLines /\ h.chunks \in Seq(PatchChunk)
          /\ \A p \in PatchFiles : [h EXCEPT !.to = p] \in HunkType /\ [h EXCEPT !.to = p].type = h.type
          /\ \A l \in FileLines : [h EXCEPT !.lines = l] \in HunkType /\ [h EXCEPT !.lines = l].type = h.type /\ [h EXCEPT !.lines = l].to = h.to
          /\ \A c \in Seq(PatchChunk) : /\ [h EXCEPT !.chunks = c] \in HunkType /\ [h EXCEPT !.chunks = c].type = h.type
                                        /\ [h EXCEPT !.chunks = c].to = h.to /\ [h EXCEPT !.chunks = c].chunks = c
  BY DEF HunkType

LEMMA NewHunk == ASSUME NEW type \in {"add", "delete", "update"}, NEW path \in PatchFiles
    PROVE Hunk(type, path) \in HunkType /\ Hunk(type, path).type = type /\ Hunk(type, path).to = NoFile
  <1>1. <<>> \in FileLines /\ <<>> \in Seq(PatchChunk)
    BY EmptySeq DEF FileLines
  <1> QED BY <1>1 DEF Hunk, HunkType

\* The last hunk, replaced by one of the same type.
LEMMA HunkSet == ASSUME ParseInv, mode # "between", NEW h \in HunkType, h.to # NoFile => h.type = "update", hunks' = WithHunk(h)
    PROVE  /\ hunks' \in Seq(HunkType) /\ hunks' # <<>> /\ LastHunk' = h
           /\ \A k \in 1 .. Len(hunks') : hunks'[k].to # NoFile => hunks'[k].type = "update"
  <1>1. hunks \in Seq(HunkType) /\ hunks # <<>>
    BY DEF ParseInv
  <1>2. /\ hunks' \in Seq(HunkType) /\ Len(hunks') = Len(hunks) /\ hunks' # <<>> /\ hunks'[Len(hunks)] = h
        /\ \A k \in 1 .. Len(hunks) : k # Len(hunks) => hunks'[k] = hunks[k]
    BY <1>1, LastSet DEF WithHunk
  <1> QED BY <1>2 DEF ParseInv, LastHunk

LEMMA LastFits == ASSUME ParseInv, mode # "between"
    PROVE LastHunk \in HunkType /\ (LastHunk.to # NoFile => LastHunk.type = "update")
  <1>1. hunks \in Seq(HunkType) /\ hunks # <<>>
    BY DEF ParseInv
  <1>2. Len(hunks) \in 1 .. Len(hunks) /\ hunks[Len(hunks)] \in HunkType
    <2>1. Len(hunks) \in Nat \ {0}
      BY <1>1, EmptySeq
    <2> QED BY <1>1, <2>1
  <1> QED BY <1>2 DEF ParseInv, LastHunk

LEMMA PatchLineIs == ASSUME NEW line \in PatchLine
    PROVE  /\ line.kind \in {"add", "delete", "update", "move"} => line.at \in PatchFiles
           /\ line.kind \in {"chunk", "keep", "del", "ins", "eof"} => line.at \in Int
           /\ line.kind \in {"add", "delete", "update", "move", "chunk", "keep", "del", "ins", "eof"}
  BY DEF PatchLine

LEMMA PatchInitFits == PatchInit => ParseInv /\ WriteInv
  <1> SUFFICES ASSUME PatchInit PROVE ParseInv /\ WriteInv
    OBVIOUS
  <1>1. <<>> \in Seq(HunkType) /\ <<>> \in Seq(ChangeType) /\ Len(<<>>) = 0
    BY EmptySeq
  <1>2. ParseInv
    BY <1>1, PatchAssumption DEF PatchInit, ParseInv
  <1>3. before \in [PatchFiles -> FileLines \cup {NoFile}] /\ disk \in [PatchFiles -> FileLines \cup {NoFile, TornFile}]
    BY PatchAssumption DEF PatchInit, FileLines
  <1>4. WriteInv
    BY <1>1, <1>3 DEF PatchInit, WriteInv
  <1> QED BY <1>2, <1>4

LEMMA ParseStep == ASSUME ParseInv, ParseLine PROVE ParseInv'
  <1> DEFINE line == patch[pos]
  <1>1. pos \in Nat \ {0} /\ pos <= Len(patch) /\ patch' = patch /\ pos' = pos + 1 /\ patch \in Seq(PatchLine) /\ hunks \in Seq(HunkType)
    BY DEF ParseInv, ParseLine
  <1>2. line \in PatchLine
    BY <1>1
  <1> HIDE DEF line
  <1>3. patch' \in Seq(PatchLine) /\ pos' \in Nat \ {0}
    BY <1>1
  <1>4. CASE ParseHeader(line)
    <2>1. line.kind \in {"add", "delete", "update"} /\ line.at \in PatchFiles
      BY <1>2, <1>4, PatchLineIs DEF ParseHeader
    <2> DEFINE h == Hunk(line.kind, line.at)
    <2>2. h \in HunkType /\ h.type = line.kind /\ h.to = NoFile
      BY <2>1, NewHunk
    <2>3. hunks' = Append(hunks, h) /\ mode' = IF line.kind = "add" THEN "adding" ELSE IF line.kind = "update" THEN "moving" ELSE "between"
      BY <1>4 DEF ParseHeader
    <2> HIDE DEF h
    <2>4. /\ hunks' \in Seq(HunkType) /\ Len(hunks') = Len(hunks) + 1 /\ hunks'[Len(hunks) + 1] = h
          /\ \A k \in 1 .. Len(hunks) : hunks'[k] = hunks[k]
      BY <1>1, <2>2, <2>3, AppendProperties
    <2>5. hunks' # <<>> /\ Len(hunks) \in Nat
      BY <1>1, <2>4, EmptySeq
    <2>6. LastHunk' = h
      BY <2>4 DEF LastHunk
    <2>7. \A k \in 1 .. Len(hunks') : hunks'[k].to # NoFile => hunks'[k].type = "update"
      <3> SUFFICES ASSUME NEW k \in 1 .. Len(hunks') PROVE hunks'[k].to # NoFile => hunks'[k].type = "update"
        OBVIOUS
      <3>1. k = Len(hunks) + 1 \/ k \in 1 .. Len(hunks)
        BY <2>4, <2>5
      <3>2. CASE k = Len(hunks) + 1
        BY <2>2, <2>4, <3>2
      <3>3. CASE k \in 1 .. Len(hunks)
        BY <2>4, <3>3 DEF ParseInv
      <3> QED BY <3>1, <3>2, <3>3
    <2>8. mode' \in {"between", "adding", "moving", "updating", "chunk"} /\ mode' # "chunk" /\ (mode' = "moving" => line.kind = "update")
      BY <2>3
    <2> QED BY <1>3, <2>2, <2>4, <2>5, <2>6, <2>7, <2>8 DEF ParseInv
  <1>5. CASE ParseStars(line)
    <2>1. CASE line.kind = "move" /\ mode = "moving"
      <3> DEFINE h == [LastHunk EXCEPT !.to = line.at]
      <3>1. hunks' = WithHunk(h) /\ mode' = "updating"
        BY <1>5, <2>1 DEF ParseStars
      <3>2. line.at \in PatchFiles
        BY <1>2, <2>1, PatchLineIs
      <3>3. LastHunk \in HunkType /\ LastHunk.type = "update"
        BY <2>1, LastFits DEF ParseInv
      <3>4. h \in HunkType /\ h.type = "update"
        BY <3>2, <3>3, PatchHunk
      <3> HIDE DEF h
      <3>5. hunks' \in Seq(HunkType) /\ hunks' # <<>> /\ \A k \in 1 .. Len(hunks') : hunks'[k].to # NoFile => hunks'[k].type = "update"
        BY <2>1, <3>1, <3>4, HunkSet
      <3> QED BY <1>3, <3>1, <3>5 DEF ParseInv
    <2>2. CASE ~(line.kind = "move" /\ mode = "moving")
      <3>1. hunks' = hunks /\ mode' = "between"
        BY <1>5, <2>2 DEF ParseStars
      <3> QED BY <1>3, <3>1 DEF ParseInv
    <2> QED BY <2>1, <2>2
  <1>6. CASE ParseAdded(line)
    <2>1. mode = "adding" /\ mode' = mode /\ line.kind \notin {"add", "delete", "update", "move", "eof"}
      BY <1>6 DEF ParseAdded
    <2>2. CASE line.kind = "ins"
      <3> DEFINE l == Append(LastHunk.lines, line.at)
                 h == [LastHunk EXCEPT !.lines = l]
      <3>1. hunks' = WithHunk(h)
        BY <1>6, <2>2 DEF ParseAdded
      <3>2. line.at \in Int
        BY <1>2, <2>2, PatchLineIs
      <3>3. LastHunk \in HunkType /\ (LastHunk.to # NoFile => LastHunk.type = "update") /\ LastHunk.lines \in FileLines
        BY <2>1, LastFits, PatchHunk
      <3>4. l \in FileLines
        BY <3>2, <3>3, AppendProperties DEF FileLines
      <3> HIDE DEF l
      <3>5. h \in HunkType /\ h.type = LastHunk.type /\ h.to = LastHunk.to
        BY <3>3, <3>4, PatchHunk
      <3> HIDE DEF h
      <3>6. hunks' \in Seq(HunkType) /\ hunks' # <<>> /\ \A k \in 1 .. Len(hunks') : hunks'[k].to # NoFile => hunks'[k].type = "update"
        BY <2>1, <3>1, <3>3, <3>5, HunkSet
      <3> QED BY <1>3, <2>1, <3>6 DEF ParseInv
    <2>3. CASE line.kind # "ins"
      <3>1. hunks' = hunks
        BY <1>6, <2>3 DEF ParseAdded
      <3> QED BY <1>3, <2>1, <3>1 DEF ParseInv
    <2> QED BY <2>2, <2>3
  <1>7. CASE ParseChunk(line)
    <2>0. mode \in {"moving", "updating", "chunk"} /\ line.kind \in {"chunk", "keep", "del", "ins"} /\ line.at \in Int
      BY <1>2, <1>7, PatchLineIs DEF ParseChunk
    <2>1. LastHunk \in HunkType /\ (LastHunk.to # NoFile => LastHunk.type = "update") /\ LastHunk.chunks \in Seq(PatchChunk)
      BY <2>0, LastFits, PatchHunk
    <2>2. CASE line.kind = "chunk"
      <3> DEFINE c == Append(LastHunk.chunks, Chunk(line.at))
                 h == [LastHunk EXCEPT !.chunks = c]
      <3>1. hunks' = WithHunk(h) /\ mode' = "chunk"
        BY <1>7, <2>2 DEF ParseChunk
      <3>2. Chunk(line.at) \in PatchChunk
        <4>1. <<>> \in FileLines
          BY EmptySeq DEF FileLines
        <4> QED BY <2>0, <4>1 DEF Chunk, PatchChunk
      <3>3. c \in Seq(PatchChunk) /\ c # <<>>
        <4> DEFINE x == Chunk(line.at)
                   u == LastHunk.chunks
        <4> HIDE DEF x, u
        <4>1. Append(u, x) \in Seq(PatchChunk) /\ Len(Append(u, x)) = Len(u) + 1 /\ Len(u) \in Nat
          BY <2>1, <3>2, AppendProperties DEF x, u
        <4>2. Append(u, x) # <<>>
          BY <4>1, EmptySeq
        <4> QED BY <4>1, <4>2 DEF x, u
      <3> HIDE DEF c
      <3>4. h \in HunkType /\ h.type = LastHunk.type /\ h.to = LastHunk.to /\ h.chunks = c
        BY <2>1, <3>3, PatchHunk
      <3> HIDE DEF h
      <3>5. hunks' \in Seq(HunkType) /\ hunks' # <<>> /\ LastHunk' = h /\ \A k \in 1 .. Len(hunks') : hunks'[k].to # NoFile => hunks'[k].type = "update"
        BY <2>0, <2>1, <3>1, <3>4, HunkSet
      <3> QED BY <1>3, <3>1, <3>3, <3>4, <3>5 DEF ParseInv
    <2>3. CASE line.kind # "chunk" /\ mode # "chunk"
      <3>1. hunks' = hunks /\ mode' = "updating"
        BY <1>7, <2>3 DEF ParseChunk
      <3>2. hunks # <<>>
        BY <2>0 DEF ParseInv
      <3> QED BY <1>3, <3>1, <3>2 DEF ParseInv
    <2>4. CASE line.kind # "chunk" /\ mode = "chunk"
      <3> DEFINE u == LastHunk.chunks
                 x == LastChunk
                 y == WithLine(x, line.kind, line.at)
                 c == [u EXCEPT ![Len(u)] = y]
                 h == [LastHunk EXCEPT !.chunks = c]
      <3>1. hunks' = WithHunk(h) /\ mode' = "chunk"
        BY <1>7, <2>4 DEF ParseChunk, WithChunk
      <3>2. u \in Seq(PatchChunk) /\ u # <<>>
        BY <2>1, <2>4 DEF ParseInv
      <3>3. x \in PatchChunk
        <4>1. Len(u) \in 1 .. Len(u)
          <5>1. Len(u) \in Nat \ {0}
            BY <3>2, EmptySeq
          <5> QED BY <5>1
        <4>2. u[Len(u)] \in PatchChunk
          <5> HIDE DEF u
          <5> QED BY <3>2, <4>1
        <4> QED BY <4>2 DEF LastChunk
      <3> HIDE DEF x, u
      <3>4. y \in PatchChunk
        <4>1. x.old \in FileLines /\ x.new \in FileLines
          BY <3>3 DEF PatchChunk
        <4> DEFINE o == IF line.kind = "ins" THEN x.old ELSE Append(x.old, line.at)
                   w == IF line.kind = "del" THEN x.new ELSE Append(x.new, line.at)
        <4>2. o \in FileLines /\ w \in FileLines
          BY <2>0, <4>1, AppendProperties DEF FileLines
        <4>3. y = [x EXCEPT !.old = o, !.new = w]
          BY DEF WithLine
        <4> HIDE DEF o, w, y
        <4> QED BY <3>3, <4>2, <4>3 DEF PatchChunk
      <3> HIDE DEF y
      <3>5. c \in Seq(PatchChunk) /\ c # <<>>
        BY <3>2, <3>4, LastSet
      <3> HIDE DEF c
      <3>6. h \in HunkType /\ h.type = LastHunk.type /\ h.to = LastHunk.to /\ h.chunks = c
        BY <2>1, <3>5, PatchHunk
      <3> HIDE DEF h
      <3>7. hunks' \in Seq(HunkType) /\ hunks' # <<>> /\ LastHunk' = h /\ \A k \in 1 .. Len(hunks') : hunks'[k].to # NoFile => hunks'[k].type = "update"
        BY <2>0, <2>1, <3>1, <3>6, HunkSet
      <3> QED BY <1>3, <3>1, <3>5, <3>6, <3>7 DEF ParseInv
    <2> QED BY <2>2, <2>3, <2>4
  <1>8. CASE ParseOutside(line)
    <2>1. hunks' = hunks /\ mode' = mode
      BY <1>8 DEF ParseOutside
    <2> QED BY <1>3, <2>1 DEF ParseInv, LastHunk
  <1> QED BY <1>4, <1>5, <1>6, <1>7, <1>8 DEF ParseLine, line

\* While the files are as they were, so is everything about the changes.
LEMMA ParsedWrite == ASSUME ParseInv, WriteInv, ParseLine PROVE WriteInv'
  <1>1. /\ pos <= Len(patch) /\ changes' = changes /\ written' = written /\ result' = result /\ result = "none"
        /\ disk' = disk /\ before' = before /\ pos' = pos + 1 /\ patch' = patch
    BY DEF ParseLine
  <1>2. changes = <<>> /\ Len(changes) = 0 /\ written = 0
    <2>1. changes = <<>>
      BY <1>1 DEF WriteInv
    <2>2. Len(changes) = 0
      BY <2>1
    <2> QED BY <2>1, <2>2 DEF WriteInv
  <1>3. Len(hunks') \in Nat
    <2>1. ParseInv'
      BY ParseStep
    <2> QED BY <2>1 DEF ParseInv
  <1>4. disk = before
    BY <1>1, <1>2 DEF WriteInv
  <1> QED BY <1>1, <1>2, <1>3, <1>4 DEF WriteInv

LEMMA RejoinedFits == ASSUME NEW l \in FileLines PROVE Rejoined(l) \in FileLines
  <1>1. l # <<>> => Front(l) \in FileLines
    BY FrontIs
  <1> QED BY <1>1 DEF Rejoined

LEMMA ChangeIs ==
    ASSUME NEW h \in HunkType, NEW content \in FileLines \cup {NoFile}, h.to # NoFile => h.type = "update", Change(h, content)
    PROVE  \E c \in ChangeType :
              /\ changes' = Append(changes, c) /\ c.path = h.path /\ c.content = content
              /\ c.type # "move" => c.to = c.path
              /\ c.type = IF h.to # NoFile THEN "move" ELSE h.type
  <1> DEFINE type == IF h.to # NoFile THEN "move" ELSE h.type
             to == IF h.to # NoFile THEN h.to ELSE h.path
             c == [type |-> type, path |-> h.path, to |-> to, content |-> content]
  <1>1. type \in {"add", "delete", "update", "move"} /\ to \in PatchFiles /\ h.path \in PatchFiles /\ (type # "move" => to = h.path)
    BY PatchHunk
  <1>2. changes' = Append(changes, c)
    BY DEF Change
  <1> HIDE DEF type, to
  <1>3. c \in ChangeType /\ c.path = h.path /\ c.content = content /\ c.type = type /\ c.to = to
    BY <1>1 DEF ChangeType
  <1> HIDE DEF c
  <1> QED BY <1>1, <1>2, <1>3 DEF type

LEMMA VerifyStep == ASSUME ParseInv, WriteInv, VerifyHunk PROVE WriteInv'
  <1> DEFINE h == hunks[Len(changes) + 1]
             n == Len(changes)
  <1>1. /\ result = "none" /\ pos > Len(patch) /\ n < Len(hunks) /\ disk' = disk /\ before' = before /\ patch' = patch
        /\ pos' = pos /\ hunks' = hunks /\ written' = written
    BY DEF VerifyHunk
  <1>2. n \in Nat /\ Len(hunks) \in Nat /\ changes \in Seq(ChangeType) /\ hunks \in Seq(HunkType)
    BY DEF WriteInv, ParseInv
  <1>3. n + 1 \in 1 .. Len(hunks) /\ pos \in Nat /\ Len(patch) \in Nat
    BY <1>1, <1>2 DEF ParseInv
  <1>4. h \in HunkType /\ (h.to # NoFile => h.type = "update") /\ h.path \in PatchFiles /\ h.type \in {"add", "delete", "update"} /\ h.chunks \in Seq(PatchChunk)
    <2>1. h \in HunkType /\ (h.to # NoFile => h.type = "update")
      BY <1>2, <1>3 DEF ParseInv
    <2> HIDE DEF h
    <2> QED BY <2>1, PatchHunk
  <1>5. written = 0 /\ disk = before
    BY <1>1 DEF WriteInv
  <1> DEFINE lines == before[h.path]
             plan == Plan(lines, h.chunks)
             done == Rejoined(ApplyPlan(lines, Sorted(plan.plan)))
  <1>6. lines \in FileLines \cup {NoFile}
    <2> HIDE DEF h
    <2> QED BY <1>4 DEF WriteInv
  <1>7. CASE Reject
    <2>1. result' = "rejected" /\ changes' = changes
      BY <1>7 DEF Reject
    <2> QED BY <1>1, <1>5, <2>1 DEF WriteInv, ChangeFits, OnDisk, TouchedBy
  <1>8. ASSUME NEW content \in FileLines \cup {NoFile}, Change(h, content), result' = result,
               h.type = "update" => lines \in FileLines /\ plan.ok /\ content = done
        PROVE  WriteInv'
    <2> HIDE DEF h, plan, done
    <2>1. PICK c \in ChangeType :
              /\ changes' = Append(changes, c) /\ c.path = h.path /\ c.content = content
              /\ c.type # "move" => c.to = c.path
              /\ c.type = IF h.to # NoFile THEN "move" ELSE h.type
      BY <1>4, <1>8, ChangeIs
    <2>2. changes' \in Seq(ChangeType) /\ Len(changes') = n + 1 /\ changes'[n + 1] = c /\ \A k \in 1 .. n : changes'[k] = changes[k]
      BY <1>2, <2>1, AppendProperties
    <2>3. c.type \in {"update", "move"} => h.type = "update"
      BY <1>4, <2>1
    <2>4. ChangeFits(h, c)
      BY <1>8, <2>1, <2>3 DEF ChangeFits, plan, done
    <2> HIDE DEF n
    <2>5. ASSUME NEW k \in 1 .. n + 1 PROVE ChangeFits(hunks[k], changes'[k])
      <3>1. CASE k = n + 1
        BY <2>2, <2>4, <3>1 DEF h, n
      <3>2. CASE k \in 1 .. n
        BY <2>2, <3>2 DEF WriteInv, n
      <3>3. k = n + 1 \/ k \in 1 .. n
        BY <1>2
      <3> QED BY <3>1, <3>2, <3>3
    <2>6. \A k \in 1 .. Len(changes') : ChangeFits(hunks[k], changes[k])'
      <3>1. \A k \in 1 .. Len(changes') : ChangeFits(hunks[k], changes'[k])
        BY <2>2, <2>5
      <3> QED BY <1>1, <3>1 DEF ChangeFits
    <2>7. n + 1 <= Len(hunks) /\ 0 \in 0 .. n + 1
      BY <1>1, <1>2
    <2>8. \A k \in 1 .. 0 : FALSE
      OBVIOUS
    <2>9. ~(pos <= Len(patch))
      BY <1>1, <1>3
    <2> QED BY <1>1, <1>5, <1>8, <2>2, <2>6, <2>7, <2>8, <2>9 DEF WriteInv
  <1>9. CASE h.type = "add"
    <2>1. Change(h, Rejoined(h.lines)) /\ result' = result
      BY <1>9 DEF VerifyHunk
    <2> HIDE DEF h, lines, plan, done
    <2>2. h.lines \in FileLines
      BY <1>4, PatchHunk
    <2>3. Rejoined(h.lines) \in FileLines \cup {NoFile} /\ h.type # "update"
      BY <1>9, <2>2, RejoinedFits
    <2> QED BY <1>8, <2>1, <2>3
  <1>10. CASE h.type # "add" /\ disk[h.path] = NoFile
    <2>1. Reject
      BY <1>10 DEF VerifyHunk
    <2> QED BY <1>7, <2>1
  <1>11. CASE h.type = "delete" /\ disk[h.path] # NoFile
    <2>1. Change(h, NoFile) /\ result' = result
      BY <1>11 DEF VerifyHunk
    <2> HIDE DEF h, lines, plan, done
    <2>2. NoFile \in FileLines \cup {NoFile} /\ h.type # "update"
      BY <1>11
    <2> QED BY <1>8, <2>1, <2>2
  <1>12. CASE h.type = "update" /\ disk[h.path] # NoFile
    <2>1. IF plan.ok THEN Change(h, done) /\ result' = result ELSE Reject
      BY <1>5, <1>12 DEF VerifyHunk
    <2>2. lines \in FileLines
      BY <1>5, <1>6, <1>12
    <2>3. CASE plan.ok
      <3>1. done \in FileLines
        <4> HIDE DEF h, lines
        <4>1. plan.plan \in Seq(Piece)
          BY <1>4, <2>2, <2>3, PlanMatches
        <4> DEFINE s == Sorted(plan.plan)
        <4>2. s \in Seq(Piece)
          <5> DEFINE u == plan.plan
          <5> HIDE DEF u
          <5> QED BY <4>1, SortedIs DEF u
        <4> HIDE DEF s
        <4>3. ApplyPlan(lines, s) \in FileLines
          BY <2>2, <4>2, ApplyPlanIs
        <4>4. Rejoined(ApplyPlan(lines, s)) \in FileLines
          BY <4>3, RejoinedFits
        <4> QED BY <4>4 DEF s
      <3>2. Change(h, done) /\ result' = result
        BY <2>1, <2>3
      <3> HIDE DEF h, lines, plan, done
      <3> QED BY <1>8, <2>2, <2>3, <3>1, <3>2
    <2>4. CASE ~plan.ok
      BY <1>7, <2>1, <2>4
    <2> QED BY <2>3, <2>4
  <1> HIDE DEF h
  <1> QED BY <1>4, <1>9, <1>10, <1>11, <1>12

LEMMA NoHunksStep == ASSUME WriteInv, NoHunks PROVE WriteInv'
  <1>1. /\ hunks = <<>> /\ result' = "rejected" /\ result = "none" /\ UNCHANGED <<disk, before, patch, pos, hunks, changes, written>>
    BY DEF NoHunks
  <1>2. Len(hunks) = 0
    BY <1>1
  <1>3. written = 0
    BY <1>2 DEF WriteInv
  <1> QED BY <1>1, <1>3 DEF WriteInv, ChangeFits, OnDisk, TouchedBy

LEMMA SucceedStep == ASSUME WriteInv, Succeed PROVE WriteInv'
  <1>1. result' = "success" /\ result = "none" /\ written = Len(changes) /\ UNCHANGED <<disk, before, patch, pos, hunks, changes, written>>
    BY DEF Succeed, Writing
  <1> QED BY <1>1 DEF WriteInv, ChangeFits, OnDisk, TouchedBy

LEMMA ChangeParts == ASSUME NEW c \in ChangeType
    PROVE c.type \in {"add", "delete", "update", "move"} /\ c.path \in PatchFiles /\ c.to \in PatchFiles /\ c.content \in FileLines \cup {NoFile}
  BY DEF ChangeType

LEMMA WriteStep == ASSUME ParseInv, WriteInv, WriteChange PROVE WriteInv'
  <1> DEFINE w == written + 1
             c == changes[w]
  <1>1. /\ result = "none" /\ pos > Len(patch) /\ Len(changes) = Len(hunks) /\ written < Len(changes)
        /\ UNCHANGED <<before, patch, pos, hunks, changes, result>> /\ written' = w
    BY DEF WriteChange, Writing
  <1>2. disk' = IF c.type \in {"add", "update"} THEN [disk EXCEPT ![c.path] = c.content]
                ELSE IF c.type = "move" THEN [disk EXCEPT ![c.to] = c.content, ![c.path] = NoFile]
                ELSE [disk EXCEPT ![c.path] = NoFile]
    BY DEF WriteChange
  <1>3. changes \in Seq(ChangeType) /\ Len(changes) \in Nat /\ written \in Nat /\ w \in 1 .. Len(changes) /\ disk \in [PatchFiles -> FileLines \cup {NoFile, TornFile}]
    BY <1>1 DEF WriteInv
  <1> HIDE DEF w
  <1>4. c \in ChangeType /\ (c.type # "move" => c.to = c.path)
    BY <1>3 DEF WriteInv, ChangeFits
  <1> HIDE DEF c
  <1>5. c.type \in {"add", "delete", "update", "move"} /\ c.path \in PatchFiles /\ c.to \in PatchFiles /\ c.content \in FileLines \cup {NoFile}
    BY <1>4, ChangeParts
  <1>6. disk' \in [PatchFiles -> FileLines \cup {NoFile, TornFile}]
    BY <1>2, <1>3, <1>5
  <1>7. \A f \in PatchFiles : f \notin {c.path, c.to} => disk'[f] = disk[f]
    BY <1>2, <1>3, <1>4, <1>5
  <1>8. ~MovedOntoItself(c) => (c.type # "delete" => disk'[c.to] = c.content) /\ (c.type \in {"delete", "move"} => disk'[c.path] = NoFile)
    BY <1>2, <1>3, <1>4, <1>5 DEF MovedOntoItself
  <1>9. ASSUME NEW k \in 1 .. w, ~TouchedBy(k, w), ~MovedOntoItself(changes[k]) PROVE OnDisk(changes[k])'
    <2> DEFINE d == changes[k]
    <2>0. k \in 1 .. Len(changes)
      BY <1>3
    <2>1. d \in ChangeType /\ changes'[k] = d
      BY <1>1, <1>3, <2>0
    <2>2. d.path \in PatchFiles /\ d.to \in PatchFiles
      BY <2>1, ChangeParts
    <2>3. (d.type # "delete" => disk'[d.to] = d.content) /\ (d.type \in {"delete", "move"} => disk'[d.path] = NoFile)
      <3>1. CASE k = w
        <4>1. d = c
          BY <3>1 DEF c
        <4>2. ~MovedOntoItself(c)
          BY <1>9, <4>1
        <4> QED BY <1>8, <4>1, <4>2
      <3>2. CASE k # w
        <4>1. k \in 1 .. written /\ w \in k + 1 .. w
          BY <1>3, <3>2 DEF w
        <4>2. {c.path, c.to} \cap {d.path, d.to} = {}
          BY <1>9, <4>1 DEF TouchedBy, c
        <4>3. ~TouchedBy(k, written)
          <5>1. \A j \in k + 1 .. written : j \in k + 1 .. w
            BY <1>3 DEF w
          <5> QED BY <1>9, <5>1 DEF TouchedBy
        <4>4. OnDisk(d)
          BY <1>1, <1>9, <4>1, <4>3 DEF WriteInv
        <4>5. disk'[d.to] = disk[d.to] /\ disk'[d.path] = disk[d.path]
          BY <1>7, <2>2, <4>2
        <4> QED BY <4>4, <4>5 DEF OnDisk
      <3> QED BY <3>1, <3>2
    <2> HIDE DEF d
    <2> QED BY <2>1, <2>3 DEF OnDisk, d
  <1>10. \A k \in 1 .. w : (~TouchedBy(k, written) /\ ~MovedOntoItself(changes[k]) => OnDisk(changes[k]))'
    <2> SUFFICES ASSUME NEW k \in 1 .. w PROVE (~TouchedBy(k, written) /\ ~MovedOntoItself(changes[k]) => OnDisk(changes[k]))'
      OBVIOUS
    <2>1. TouchedBy(k, w) <=> TouchedBy(k, written)'
      BY <1>1 DEF TouchedBy
    <2>2. MovedOntoItself(changes[k]) <=> MovedOntoItself(changes[k])'
      BY <1>1 DEF MovedOntoItself
    <2> QED BY <1>9, <2>1, <2>2
  <1>11. \A k \in 1 .. Len(changes) : ChangeFits(hunks[k], changes[k])'
    BY <1>1 DEF WriteInv, ChangeFits
  <1>12. w # 0 /\ w \in 0 .. Len(changes) /\ ~(pos <= Len(patch)) /\ ~(Len(changes) < Len(hunks))
    <2>1. pos \in Nat /\ Len(patch) \in Nat /\ Len(hunks) \in Nat
      BY DEF ParseInv
    <2> QED BY <1>1, <1>3, <2>1
  <1>13. /\ before' \in [PatchFiles -> FileLines \cup {NoFile}] /\ changes' \in Seq(ChangeType) /\ Len(changes') <= Len(hunks')
         /\ written' \in 0 .. Len(changes') /\ result' = "none"
         /\ written' # 0 /\ ~(pos' <= Len(patch')) /\ ~(Len(changes') < Len(hunks'))
    <2>1. before' = before /\ changes' = changes /\ hunks' = hunks /\ written' = w /\ result' = result /\ result = "none" /\ pos' = pos /\ patch' = patch
      BY <1>1
    <2> QED BY <2>1, <1>12 DEF WriteInv
  <1>14. \A k \in 1 .. Len(changes') : ChangeFits(hunks[k], changes[k])'
    BY <1>1, <1>11
  <1>15. \A k \in 1 .. written' : (~TouchedBy(k, written) /\ ~MovedOntoItself(changes[k]) => OnDisk(changes[k]))'
    BY <1>1, <1>10
  <1> QED BY <1>6, <1>13, <1>14, <1>15 DEF WriteInv

LEMMA FailStep == ASSUME ParseInv, WriteInv, WriteFails PROVE WriteInv'
  <1> DEFINE c == changes[written + 1]
  <1>1. /\ result = "none" /\ Len(changes) = Len(hunks) /\ written < Len(changes) /\ result' = "error"
        /\ UNCHANGED <<before, patch, pos, hunks, changes, written>>
    BY DEF WriteFails, Writing
  <1>2. disk' = disk \/ disk' = [disk EXCEPT ![c.to] = c.content] \/ disk' = [disk EXCEPT ![c.to] = TornFile]
    BY DEF WriteFails
  <1>3. changes \in Seq(ChangeType) /\ Len(changes) \in Nat /\ written + 1 \in 1 .. Len(changes) /\ disk \in [PatchFiles -> FileLines \cup {NoFile, TornFile}]
    BY <1>1 DEF WriteInv
  <1>4. c \in ChangeType
    BY <1>3
  <1> HIDE DEF c
  <1>5. c.to \in PatchFiles /\ c.content \in FileLines \cup {NoFile}
    BY <1>4, ChangeParts
  <1>6. disk' \in [PatchFiles -> FileLines \cup {NoFile, TornFile}]
    BY <1>2, <1>3, <1>5
  <1> QED BY <1>1, <1>6 DEF WriteInv, ChangeFits

\* The theorem's three parts.
LEMMA PatchHolds == ASSUME ParseInv, WriteInv PROVE PatchSound
  <1>1. RejectedLeavesFiles
    BY DEF WriteInv, RejectedLeavesFiles
  <1>2. SuccessIsWritten
    <2> SUFFICES ASSUME result = "success", NEW k \in 1 .. Len(changes), ~TouchedLater(k), ~MovedOntoItself(changes[k])
                 PROVE  OnDisk(changes[k])
      BY DEF SuccessIsWritten, OnDisk
    <2>1. written = Len(changes) /\ result # "error"
      BY DEF WriteInv
    <2>2. ~TouchedBy(k, written)
      BY <2>1 DEF TouchedBy, TouchedLater
    <2> QED BY <2>1, <2>2 DEF WriteInv
  <1>3. ChangesAreChunks
    <2> SUFFICES ASSUME NEW k \in 1 .. Len(changes), changes[k].type \in {"update", "move"}
                 PROVE  LET h == hunks[k]
                            lines == before[h.path]
                            plan == Plan(lines, h.chunks).plan
                        IN  /\ PlacesMatch(lines, h.chunks, plan)
                            /\ Disjoint(Sorted(plan)) => changes[k].content = Rejoined(Spliced(lines, Sorted(plan)))
      <3>1. DOMAIN changes = 1 .. Len(changes)
        BY DEF WriteInv
      <3> QED BY <3>1 DEF ChangesAreChunks
    <2> DEFINE h == hunks[k]
               lines == before[h.path]
               chunks == h.chunks
               plan == Plan(lines, chunks).plan
               s == Sorted(plan)
    <2>1. ChangeFits(hunks[k], changes[k])
      BY DEF WriteInv
    <2>2. lines \in FileLines /\ Plan(lines, chunks).ok /\ changes[k].content = Rejoined(ApplyPlan(lines, s))
      BY <2>1 DEF ChangeFits
    <2>3. chunks \in Seq(PatchChunk)
      <3>1. k \in 1 .. Len(hunks) /\ hunks \in Seq(HunkType)
        BY DEF ParseInv, WriteInv
      <3>2. h \in HunkType
        BY <3>1
      <3> HIDE DEF h
      <3> QED BY <3>2, PatchHunk
    <2> HIDE DEF lines, chunks
    <2>4. plan \in Seq(Piece) /\ PlacesMatch(lines, chunks, plan) /\ \A j \in 1 .. Len(plan) : plan[j].at + plan[j].size <= Len(lines) + 1
      BY <2>2, <2>3, PlanMatches
    <2> HIDE DEF plan
    <2>5. s \in Seq(Piece) /\ Len(s) = Len(plan) /\ \A j \in 1 .. Len(plan) : \E i \in 1 .. Len(plan) : s[j] = plan[i]
      BY <2>4, SortedIs
    <2> HIDE DEF s
    <2>6. Disjoint(s) => InLine(lines, s)
      BY <2>4, <2>5 DEF InLine
    <2>7. Disjoint(s) => ApplyPlan(lines, s) = Spliced(lines, s)
      BY <2>2, <2>6, AppliedIsSpliced
    <2> QED BY <2>2, <2>4, <2>7 DEF lines, chunks, plan, s
  <1> QED BY <1>1, <1>2, <1>3 DEF PatchSound

\* A patch that is rejected has changed no file; what is written is the files with
\* the chunks put in place, as they were when the patch came; and success means
\* that the changes are on the disk, but for those a later one touched.
THEOREM PatchIsSound == PatchSpec => []PatchSound
  <1>1. PatchInit => ParseInv /\ WriteInv
    BY PatchInitFits
  <1>2. ParseInv /\ WriteInv /\ [PatchNext]_patchVars => ParseInv' /\ WriteInv'
    <2> SUFFICES ASSUME ParseInv, WriteInv, [PatchNext]_patchVars PROVE ParseInv' /\ WriteInv'
      OBVIOUS
    <2>1. CASE ParseLine
      BY <2>1, ParseStep, ParsedWrite
    <2>2. CASE UNCHANGED patchVars
      BY <2>2 DEF patchVars, ParseInv, WriteInv, LastHunk, ChangeFits, OnDisk, TouchedBy, MovedOntoItself
    <2>3. UNCHANGED <<patch, pos, mode, hunks>> => ParseInv'
      BY DEF ParseInv, LastHunk
    <2>4. CASE VerifyHunk
      <3>1. UNCHANGED <<patch, pos, mode, hunks>>
        BY <2>4 DEF VerifyHunk
      <3> QED BY <2>3, <2>4, <3>1, VerifyStep
    <2>5. CASE NoHunks
      <3>1. UNCHANGED <<patch, pos, mode, hunks>>
        BY <2>5 DEF NoHunks
      <3> QED BY <2>3, <2>5, <3>1, NoHunksStep
    <2>6. CASE WriteChange
      <3>1. UNCHANGED <<patch, pos, mode, hunks>>
        BY <2>6 DEF WriteChange
      <3> QED BY <2>3, <2>6, <3>1, WriteStep
    <2>7. CASE WriteFails
      <3>1. UNCHANGED <<patch, pos, mode, hunks>>
        BY <2>7 DEF WriteFails
      <3> QED BY <2>3, <2>7, <3>1, FailStep
    <2>8. CASE Succeed
      <3>1. UNCHANGED <<patch, pos, mode, hunks>>
        BY <2>8 DEF Succeed
      <3> QED BY <2>3, <2>8, <3>1, SucceedStep
    <2> QED BY <2>1, <2>2, <2>4, <2>5, <2>6, <2>7, <2>8 DEF PatchNext
  <1>3. ParseInv /\ WriteInv => PatchSound
    BY PatchHolds
  <1> QED BY <1>1, <1>2, <1>3, PTL DEF PatchSpec
=============================================================================
