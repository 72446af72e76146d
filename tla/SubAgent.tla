----------------------------- MODULE SubAgent -----------------------------
(***************************************************************************)
(* Background tasks of an agent (agents/core/subagent.py).  spawn creates  *)
(* an asyncio task per call and promises a notice; the task runs its own   *)
(* think/act loop on a history of its own and pushes what came of it into  *)
(* the inbound queue of the bus, as a message of the parent's session.     *)
(***************************************************************************)
EXTENDS HistorySanitizer, FiniteSets

CONSTANTS
    SubTasks,    \* ids of the tasks
    SubSteps,    \* _max_steps
    SubKeep,     \* keep_last_n of _handle_context_overflow
    SubBatch     \* bound: tool calls in one reply

ASSUME SubAssumption ==
    /\ SubSteps \in Nat \ {0} /\ SubKeep \in Nat /\ SubBatch \in Nat \ {0}
    /\ SubTasks \cap Nat = {}

VARIABLES
    subTable,   \* _running_tasks
    sub,        \* the SubAgent of each task, with the locals of run()
    subInbox    \* MESSAGE_BUS.inbound: [task, ok, spent] of each notice

subVars == <<subTable, sub, subInbox>>

-----------------------------------------------------------------------------
\* summary: positions of the messages that compaction stands for, in the
\* order in which they were summarised.
Fresh == [pc |-> "new", step |-> 0, asks |-> "task", added |-> FALSE, recovered |-> FALSE,
          reply |-> "none", todo |-> 0, history |-> <<>>, compacted |-> 0, summary |-> <<>>]
Over == [Fresh EXCEPT !.pc = "over"]

\* _build_session_for_context: Session.to_context
SubContext(a) ==
    IF a.compacted > 0
    THEN <<Assistant(0)>> \o SubSeq(a.history, a.compacted + 1, Len(a.history))
    ELSE a.history

\* Mutant of SubPrompt: the history is sent as it is.
SubPrompt_Raw(a) == SubContext(a) \o <<User(IF a.asks = "task" THEN 1 ELSE 0)>>

\* The history, and the question behind it.
SubPrompt(a) == Sanitize(SubContext(a)) \o <<User(IF a.asks = "task" THEN 1 ELSE 0)>>

\* The task is put in front of the first reply.
WithTask(a) == IF a.added THEN a.history ELSE Append(a.history, User(1))

\* Mutants of Compacted: short histories are compacted too; the summary
\* replaces the one before.
Compacted_Short(a) ==
    LET until == Len(a.history) - SubKeep
    IN  [a EXCEPT !.compacted = until,
                  !.summary = @ \o [i \in 1 .. until - a.compacted |-> a.compacted + i]]
Compacted_Replaces(a) ==
    LET until == Len(a.history) - SubKeep
    IN  IF until <= a.compacted THEN a
        ELSE [a EXCEPT !.compacted = until,
                       !.summary = [i \in 1 .. until - a.compacted |-> a.compacted + i]]

\* _compact_history; start and compact_until as in the code.
Compacted(a) ==
    LET until == Len(a.history) - SubKeep
    IN  IF until <= a.compacted THEN a
        ELSE [a EXCEPT !.compacted = until,
                       !.summary = @ \o [i \in 1 .. until - a.compacted |-> a.compacted + i]]

\* _handle_context_overflow: the summary may fail.  Pruning changes contents.
MayCompactTo(a) == {a, Compacted(a)}

SubMove(t, from, to) == sub[t].pc = from /\ sub' = [sub EXCEPT ![t] = to]

-----------------------------------------------------------------------------
SubInit ==
    /\ subTable = {}
    /\ sub = [t \in SubTasks |-> Fresh]
    /\ subInbox = <<>>

\* start_task
StartTask(t) ==
    /\ SubMove(t, "new", [Fresh EXCEPT !.pc = "create"])
    /\ subTable' = subTable \cup {t}
    /\ UNCHANGED subInbox

\* llm_factory.create_model is outside the try: the task ends, nobody is told.
CreateModel(t) ==
    /\ \/ SubMove(t, "create", [sub[t] EXCEPT !.pc = "loop"])
       \/ SubMove(t, "create", [Over EXCEPT !.pc = "died"])
    /\ UNCHANGED <<subTable, subInbox>>

\* The condition of the loop, and think() up to the request.
SubLoop(t) ==
    /\ LET a == sub[t] IN
        IF a.step < SubSteps
        THEN SubMove(t, "loop", [a EXCEPT !.pc = "think", !.step = @ + 1])
        ELSE SubMove(t, "loop", [a EXCEPT !.pc = "announce"])
    /\ UNCHANGED <<subTable, subInbox>>

\* The model's reply: tool calls, a text, or a text that tells of an overflow.
SubThink(t) ==
    /\ LET a == sub[t]
           calls(n) == ToolCalls({<<a.step, i>> : i \in 1 .. n}, 1) IN
        \/ \E n \in 1 .. SubBatch :
            SubMove(t, "think",
                [a EXCEPT !.pc = "act", !.added = TRUE, !.todo = n,
                          !.history = Append(WithTask(a), calls(n))])
        \/ \E text \in {"text", "overflow"} :
            SubMove(t, "think",
                [a EXCEPT !.pc = IF text = "overflow" /\ ~a.recovered THEN "recover" ELSE "answer",
                          !.added = TRUE, !.history = WithTask(a)])
    /\ UNCHANGED <<subTable, subInbox>>

\* execute_tool; the results come in the order of the calls.
SubTool(t) ==
    /\ LET a == sub[t]
           made == a.history[CallerOf(a.history, Len(a.history) + 1)].ids
           id == <<a.step, Cardinality(made) - a.todo + 1>> IN
        /\ a.todo > 0
        /\ SubMove(t, "act", [a EXCEPT !.todo = @ - 1, !.history = Append(@, ToolResult(id, 1))])
    /\ UNCHANGED <<subTable, subInbox>>

\* The end of a step with tools.
SubNextStep(t) ==
    /\ sub[t].todo = 0
    /\ \E a \in MayCompactTo(sub[t]) :
        SubMove(t, "act", [a EXCEPT !.pc = "loop", !.asks = "next"])
    /\ UNCHANGED <<subTable, subInbox>>

\* The first overflow: compaction is forced and the same question is asked.
SubRecover(t) ==
    /\ \E a \in MayCompactTo(sub[t]) :
        SubMove(t, "recover", [a EXCEPT !.pc = "loop", !.recovered = TRUE])
    /\ UNCHANGED <<subTable, subInbox>>

SubAnswer(t) ==
    /\ SubMove(t, "answer", [sub[t] EXCEPT !.pc = "announce", !.history = Append(@, Assistant(1))])
    /\ UNCHANGED <<subTable, subInbox>>

\* _announce_result, and the finally: reset().
SubAnnounce(t) ==
    /\ subInbox' = Append(subInbox, [task |-> t, ok |-> TRUE, spent |-> sub[t].step >= SubSteps])
    /\ SubMove(t, "announce", Over)
    /\ UNCHANGED subTable

\* Mutant of SubFails: the error is only logged.
SubFails_Silent(t) ==
    /\ sub[t].pc = "act" => sub[t].todo > 0
    /\ SubMove(t, "think", Over) \/ SubMove(t, "act", Over)
    /\ UNCHANGED <<subInbox, subTable>>

\* The request or a tool raises.
SubFails(t) ==
    /\ sub[t].pc = "act" => sub[t].todo > 0
    /\ \/ SubMove(t, "think", Over)
       \/ SubMove(t, "act", Over)
    /\ subInbox' = Append(subInbox, [task |-> t, ok |-> FALSE, spent |-> FALSE])
    /\ UNCHANGED subTable

\* The done callback of the asyncio task.
SubDone(t) ==
    /\ t \in subTable /\ sub[t].pc \in {"over", "died"}
    /\ subTable' = subTable \ {t}
    /\ UNCHANGED <<sub, subInbox>>

SubStep(t) ==
    \/ CreateModel(t) \/ SubLoop(t) \/ SubThink(t) \/ SubTool(t) \/ SubNextStep(t)
    \/ SubRecover(t) \/ SubAnswer(t) \/ SubAnnounce(t) \/ SubFails(t) \/ SubDone(t)

SubNext == \E t \in SubTasks : StartTask(t) \/ SubStep(t)

SubSpec == SubInit /\ [][SubNext]_subVars

-----------------------------------------------------------------------------
Notices(t) == {i \in 1 .. Len(subInbox) : subInbox[i].task = t}

SubTypeOK ==
    /\ subTable \subseteq SubTasks
    /\ \A t \in SubTasks :
        /\ sub[t].step \in 0 .. SubSteps
        /\ sub[t].compacted \in 0 .. Len(sub[t].history)
        /\ sub[t].pc = "new" => t \notin subTable
        /\ sub[t].pc \notin {"new", "over", "died"} => t \in subTable

\* The parent, who was promised a notice, gets exactly one for a task that
\* has ended, whatever failed on the way; none while it runs.  The exception
\* is a model that cannot be created, which nobody hears of (subagent.py:288).
SubToldOnce ==
    \A t \in SubTasks : Cardinality(Notices(t)) = IF sub[t].pc = "over" THEN 1 ELSE 0

\* No request of a task holds a call without its result or a result without
\* its call, also when compaction cut the history between the two and a tool
\* failed behind other calls (subagent.py:467, openai_llm.py:70).
SubPromptPaired ==
    \A t \in SubTasks : sub[t].pc = "think" =>
        ResultsAnswerCalls(SubPrompt(sub[t])) /\ CallsAreAnswered(SubPrompt(sub[t]))

\* What the compaction stands for was summarised once, in order, and what it
\* does not is in the request, unless it is a tool's result: with pairs, that
\* leaves out only the results whose call was summarised without them, for
\* keep_last_n may cut between the two and _sanitize_history then drops them
\* (subagent.py:464-470).  The task is the question, in the history, or
\* summarised.
SubNothingForgotten ==
    \A t \in SubTasks : LET a == sub[t] IN
        /\ a.summary = [i \in 1 .. a.compacted |-> i]
        /\ a.pc = "think" =>
              /\ \/ a.compacted > 0
                 \/ \E i \in 1 .. Len(SubPrompt(a)) : SubPrompt(a)[i] = User(1)
              /\ \A i \in a.compacted + 1 .. Len(a.history) : a.history[i].role # "tool" =>
                    \E k \in 1 .. Len(SubPrompt(a)) : SubPrompt(a)[k] = a.history[i]

\* The requests of a task are well formed and hold or summarise what was said,
\* and the parent hears once how it ended.
SubTaskSound == SubTypeOK /\ SubToldOnce /\ SubPromptPaired /\ SubNothingForgotten
============================================================================
