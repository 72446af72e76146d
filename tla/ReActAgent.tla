---------------------------- MODULE ReActAgent ----------------------------
(***************************************************************************)
(* One ReActAgent through its runs (agents/core/react.py and base.py): the *)
(* think/act loop, the session history it writes one awaited save at a     *)
(* time, and what others do to that session and to the agent meanwhile.    *)
(* A tool call is the run and step that made it and its place in the reply.*)
(***************************************************************************)
EXTENDS HistorySanitizer

CONSTANTS
    MaxSteps,    \* _max_steps
    KeepLast,    \* max(6, compaction_keep_last_n)
    Window,      \* max_messages of get_context
    Batches,     \* the tool lists a reply can hold, as sequences of ToolKinds
    MaxRuns,     \* bound: runs of the agent
    MaxEvents    \* bound: acts of others and failing stores, together

ToolKinds == {"tool", "ask_question", "terminate"}

ASSUME AgentAssumption ==
    /\ MaxSteps \in Nat \ {0} /\ KeepLast \in Nat /\ Window \in Nat \ {0}
    /\ Batches \subseteq Seq(ToolKinds) /\ <<>> \notin Batches
    /\ MaxRuns \in Nat /\ MaxEvents \in Nat

VARIABLES
    state,      \* _state
    step,       \* _current_step
    stop,       \* _stop_requested
    pc,         \* where run() is
    asks,       \* question # "": the next request carries the question
    pushed,     \* had_push_user_message
    recovered,  \* context_overflow_recovered
    reply,      \* what the model answered in this step
    todo,       \* tool calls that act() has not come to yet
    history,    \* Session.messages
    compacted,  \* Session.last_compacted
    shown,      \* what this run pushed to the outbound queue
    run,        \* runs started so far
    outside,    \* acts of others so far
    faults,     \* failing stores so far
    intact      \* no save was lost and the history was never cleared

loopVars == <<state, step, stop, asks, pushed, recovered>>
sessionVars == <<history, compacted>>
countVars == <<run, outside, faults>>
vars == <<loopVars, pc, reply, todo, sessionVars, shown, countVars, intact>>

PCs == {"idle", "prepare", "loop", "think", "saveUser", "saveCalls", "act",
        "overflow", "recover", "answer", "limit", "error", "finally"}

CallIds == Nat \X Nat \X (Nat \ {0})
Calls == [id : CallIds, tool : ToolKinds]
Messages == [role : {"user", "assistant", "tool"}, ids : SUBSET CallIds, run : Nat]

CallsOf(batch) == [i \in 1 .. Len(batch) |-> [id |-> <<run, step, i>>, tool |-> batch[i]]]
IdsOf(calls) == {calls[i].id : i \in 1 .. Len(calls)}

Init ==
    /\ state = "IDLE" /\ step = 0 /\ stop = FALSE
    /\ pc = "idle"
    /\ asks = FALSE /\ pushed = FALSE /\ recovered = FALSE
    /\ reply = "none" /\ todo = <<>>
    /\ history = <<>> /\ compacted = 0
    /\ shown = <<>>
    /\ run = 0 /\ outside = 0 /\ faults = 0
    /\ intact = TRUE

----------------------------------------------------------------------------
(* The session.                                                            *)

LastOf(s, n) == SubSeq(s, IF Len(s) > n THEN Len(s) - n + 1 ELSE 1, Len(s))

\* Session.to_context: the summary, if there is one, and the messages behind
\* it; what the chat model then makes of it; the question comes last.
Context ==
    IF compacted > 0
    THEN <<Assistant(0)>> \o LastOf(SubSeq(history, compacted + 1, Len(history)), Window)
    ELSE LastOf(history, Window)

Prompt == Sanitize(Context) \o IF asks THEN <<User(run)>> ELSE <<>>

\* SESSION_MANAGER.add_message: a store that fails is logged, and False,
\* which no caller looks at, is returned.
Save(m) ==
    \/ history' = Append(history, m) /\ UNCHANGED <<faults, intact>>
    \/ /\ outside + faults < MaxEvents
       /\ faults' = faults + 1 /\ intact' = FALSE /\ UNCHANGED history

Notify(kind) == shown' = Append(shown, kind)

\* push_history_message_and_notify_user
Push(m, kind) == Save(m) /\ Notify(kind) /\ UNCHANGED <<compacted, run, outside>>

\* _handle_context_overflow: compact_session if asked to, and if the summary
\* succeeds.  prune_session changes contents only.
MayCompact ==
    LET until == Len(history) - KeepLast
    IN  \/ UNCHANGED compacted
        \/ until > compacted /\ compacted' = until

----------------------------------------------------------------------------
(* The run.  Every action ends where run() awaits something others can see.*)

Reset == state' = "IDLE" /\ step' = 0 /\ stop' = FALSE

\* run() up to its first await.  The agent is reset if it is not IDLE.
StartRun ==
    /\ pc = "idle" /\ run < MaxRuns
    /\ run' = run + 1
    /\ state' = "RUNNING"
    /\ IF state = "IDLE" THEN UNCHANGED <<step, stop>> ELSE step' = 0 /\ stop' = FALSE
    /\ asks' = TRUE /\ pushed' = FALSE /\ recovered' = FALSE
    /\ shown' = <<>>
    /\ pc' = "prepare"
    /\ UNCHANGED <<reply, todo, sessionVars, outside, faults, intact>>

\* create_model raises before the try: nothing is pushed, nothing is reset.
StartFails ==
    /\ pc = "idle" /\ run < MaxRuns
    /\ run' = run + 1
    /\ state' = "RUNNING"
    /\ IF state = "IDLE" THEN UNCHANGED <<step, stop>> ELSE step' = 0 /\ stop' = FALSE
    /\ UNCHANGED <<asks, pushed, recovered, pc, reply, todo, sessionVars, shown,
                   outside, faults, intact>>

\* MCP tools are registered, the system prompt is built.
Prepare ==
    /\ pc = "prepare" /\ pc' = "loop"
    /\ UNCHANGED <<loopVars, reply, todo, sessionVars, shown, countVars, intact>>

\* Mutant of MayLoop: max_steps is reached and one more step is made.
MayLoop_OneMore == step <= MaxSteps /\ state # "FINISHED" /\ ~stop

MayLoop == step < MaxSteps /\ state # "FINISHED" /\ ~stop

\* The condition of the loop, and think() up to the call of the model.
Loop ==
    /\ pc = "loop"
    /\ \/ MayLoop /\ step' = step + 1 /\ pc' = "think"
       \/ ~MayLoop /\ pc' = "limit" /\ UNCHANGED step
    /\ UNCHANGED <<state, stop, asks, pushed, recovered, reply, todo, sessionVars,
                   shown, countVars, intact>>

\* Mutant of Think: tool calls are saved without the question before them.
Think_CallsOnly ==
    /\ pc = "think"
    /\ \/ \E b \in Batches : reply' = "calls" /\ todo' = CallsOf(b)
       \/ reply' \in {"text", "overflow"} /\ UNCHANGED todo
    /\ pc' = IF reply' = "calls" THEN "saveCalls"
             ELSE IF ~pushed THEN "saveUser"
             ELSE IF reply' = "overflow" /\ ~recovered THEN "recover" ELSE "answer"
    /\ UNCHANGED <<loopVars, sessionVars, shown, countVars, intact>>

\* The model answers with tool calls, with a text, or with the text that
\* stands for a context overflow.
Think ==
    /\ pc = "think"
    /\ \/ \E b \in Batches : reply' = "calls" /\ todo' = CallsOf(b)
       \/ reply' \in {"text", "overflow"} /\ UNCHANGED todo
    /\ pc' = IF ~pushed THEN "saveUser"
             ELSE IF reply' = "calls" THEN "saveCalls"
             ELSE IF reply' = "overflow" /\ ~recovered THEN "recover" ELSE "answer"
    /\ UNCHANGED <<loopVars, sessionVars, shown, countVars, intact>>

\* The first reply of a run also saves the question.
SaveUser ==
    /\ pc = "saveUser"
    /\ Save(User(run))
    /\ pushed' = TRUE
    /\ pc' = IF reply = "calls" THEN "saveCalls"
             ELSE IF reply = "overflow" /\ ~recovered THEN "recover" ELSE "answer"
    /\ UNCHANGED <<state, step, stop, asks, recovered, reply, todo, compacted, shown,
                   run, outside>>

SaveCalls ==
    /\ pc = "saveCalls"
    /\ Push(ToolCalls(IdsOf(todo), run), "calls")
    /\ pc' = "act"
    /\ UNCHANGED <<loopVars, reply, todo>>

\* Mutant of ExecuteTool: the result is pushed under the id of the last call.
ExecuteTool_LastId ==
    /\ pc = "act" /\ todo # <<>> /\ Head(todo).tool = "tool"
    /\ Push(ToolResult(<<run, step, 1>>, run), "result")
    /\ todo' = Tail(todo)
    /\ UNCHANGED <<loopVars, pc, reply>>

\* execute_tool and the push of its result.
ExecuteTool ==
    /\ pc = "act" /\ todo # <<>> /\ Head(todo).tool = "tool"
    /\ Push(ToolResult(Head(todo).id, run), "result")
    /\ todo' = Tail(todo)
    /\ UNCHANGED <<loopVars, pc, reply>>

\* _handle_special_tool: the calls behind it are still made.
SpecialTool ==
    /\ pc = "act" /\ todo # <<>> /\ Head(todo).tool # "tool"
    /\ IF Head(todo).tool = "ask_question"
       THEN Push(Assistant(run), "question")
       ELSE UNCHANGED <<sessionVars, shown, countVars, intact>>
    /\ state' = "FINISHED"
    /\ todo' = Tail(todo)
    /\ UNCHANGED <<step, stop, asks, pushed, recovered, pc, reply>>

ActDone ==
    /\ pc = "act" /\ todo = <<>> /\ pc' = "overflow"
    /\ UNCHANGED <<loopVars, reply, todo, sessionVars, shown, countVars, intact>>

\* The end of the body: the check for an overflow, and question = "".
NextStep ==
    /\ pc = "overflow" /\ MayCompact
    /\ asks' = FALSE
    /\ pc' = "loop"
    /\ UNCHANGED <<state, step, stop, pushed, recovered, reply, todo, history, shown,
                   countVars, intact>>

\* Mutant of Recover: the attempt is taken back and not remembered.
Recover_Free ==
    /\ pc = "recover" /\ MayCompact
    /\ step' = step - 1
    /\ pc' = "loop"
    /\ UNCHANGED <<state, stop, asks, pushed, recovered, reply, todo, history, shown,
                   countVars, intact>>

\* The first context overflow of a run: compact, and ask again (continue).
Recover ==
    /\ pc = "recover" /\ MayCompact
    /\ recovered' = TRUE
    /\ pc' = "loop"
    /\ UNCHANGED <<state, step, stop, asks, pushed, reply, todo, history, shown,
                   countVars, intact>>

\* The final answer; break.
Answer ==
    /\ pc = "answer"
    /\ Push(Assistant(run), "answer")
    /\ pc' = "limit"
    /\ UNCHANGED <<loopVars, reply, todo>>

\* Mutant of Limit: > for >=.
Limit_Beyond ==
    /\ pc = "limit"
    /\ IF step > MaxSteps
       THEN Push(Assistant(run), "limit")
       ELSE UNCHANGED <<sessionVars, shown, countVars, intact>>
    /\ pc' = "finally"
    /\ UNCHANGED <<loopVars, reply, todo>>

\* The notice that the step budget is spent, if it is.
Limit ==
    /\ pc = "limit"
    /\ IF step >= MaxSteps
       THEN Push(Assistant(run), "limit")
       ELSE UNCHANGED <<sessionVars, shown, countVars, intact>>
    /\ pc' = "finally"
    /\ UNCHANGED <<loopVars, reply, todo>>

\* Something in the try raises: the prompts, the model, a tool (the calls
\* behind it are not made).
Fail ==
    /\ \/ pc \in {"prepare", "think"}
       \/ pc = "act" /\ todo # <<>> /\ Head(todo).tool = "tool"
    /\ pc' = "error"
    /\ UNCHANGED <<loopVars, reply, todo, sessionVars, shown, countVars, intact>>

\* get_session raises inside add_message or compact_session.
StoreRaises ==
    /\ outside + faults < MaxEvents
    /\ pc \in {"think", "saveUser", "saveCalls", "overflow", "recover", "answer", "error"}
    /\ faults' = faults + 1
    /\ pc' = IF pc = "error" THEN "finally" ELSE "error"
    /\ UNCHANGED <<loopVars, reply, todo, sessionVars, shown, run, outside, intact>>

\* except Exception
Error ==
    /\ pc = "error"
    /\ state' = "ERROR"
    /\ Push(Assistant(run), "error")
    /\ pc' = "finally"
    /\ UNCHANGED <<step, stop, asks, pushed, recovered, reply, todo>>

\* run() has returned or raised.
DropLocals ==
    /\ pc' = "idle" /\ reply' = "none" /\ todo' = <<>> /\ shown' = <<>>
    /\ asks' = FALSE /\ pushed' = FALSE /\ recovered' = FALSE

\* Mutant of Finally: the reset forgets _current_step.
Finally_KeepsStep ==
    /\ pc = "finally"
    /\ state' = "IDLE" /\ stop' = FALSE
    /\ DropLocals
    /\ UNCHANGED <<step, sessionVars, countVars, intact>>

\* Mutant of Finally: the reset forgets _stop_requested.
Finally_KeepsStop ==
    /\ pc = "finally"
    /\ state' = "IDLE" /\ step' = 0
    /\ DropLocals
    /\ UNCHANGED <<stop, sessionVars, countVars, intact>>

\* finally: reset().
Finally ==
    /\ pc = "finally"
    /\ Reset
    /\ DropLocals
    /\ UNCHANGED <<sessionVars, countVars, intact>>

----------------------------------------------------------------------------
(* Others.                                                                 *)

\* /stop finds the agent among the running ones.
ForceStop ==
    /\ pc # "idle" /\ ~stop
    /\ stop' = TRUE
    /\ UNCHANGED <<state, step, asks, pushed, recovered, pc, reply, todo, sessionVars,
                   shown, countVars, intact>>

\* A reminder or the Restful chat adds a message to the session.
OthersAdd ==
    /\ outside + faults < MaxEvents
    /\ outside' = outside + 1
    /\ \E m \in {User(0), Assistant(0)} : history' = Append(history, m)
    /\ UNCHANGED <<loopVars, pc, reply, todo, compacted, shown, run, faults, intact>>

\* SESSION_MANAGER.clear_history
ClearHistory ==
    /\ outside + faults < MaxEvents
    /\ outside' = outside + 1
    /\ history' = <<>> /\ compacted' = 0 /\ intact' = FALSE
    /\ UNCHANGED <<loopVars, pc, reply, todo, shown, run, faults>>

AgentStep ==
    \/ Prepare \/ Loop \/ Think \/ SaveUser \/ SaveCalls
    \/ ExecuteTool \/ SpecialTool \/ ActDone \/ NextStep \/ Recover
    \/ Answer \/ Limit \/ Fail \/ StoreRaises \/ Error \/ Finally

Next == StartRun \/ StartFails \/ AgentStep \/ ForceStop \/ OthersAdd \/ ClearHistory

Spec == Init /\ [][Next]_vars

\* The event loop resumes run(), and every model, tool and store call it
\* awaits returns or raises.
FairSpec == Spec /\ WF_vars(AgentStep)

----------------------------------------------------------------------------
\* Every variable has its type.
TypeOK ==
    /\ state \in {"IDLE", "RUNNING", "FINISHED", "ERROR"}
    /\ step \in 0 .. MaxSteps
    /\ stop \in BOOLEAN /\ asks \in BOOLEAN /\ pushed \in BOOLEAN /\ recovered \in BOOLEAN
    /\ pc \in PCs
    /\ reply \in {"none", "calls", "text", "overflow"}
    /\ todo \in Seq(Calls)
    /\ history \in Seq(Messages) /\ compacted \in Nat
    /\ shown \in Seq({"calls", "result", "question", "answer", "limit", "error"})
    /\ run \in 0 .. MaxRuns /\ outside \in Nat /\ faults \in Nat
    /\ intact \in BOOLEAN

\* Whatever was compacted away, cut off by the window, cleared, lost or put
\* in between, a request never carries the result of a call it does not
\* carry, nor two results of one call (openai_llm.py:76).
NoOrphanResult == ResultsAnswerCalls(Prompt)

\* As long as nothing is lost the history itself is sound: a result stands
\* behind the message that made the call, in the same run, whatever others
\* write in between, and no call has two results (react.py:197-199, 286-296).
ResultsBelong ==
    intact => \A i \in 1 .. Len(history) : history[i].role = "tool" =>
        \E j \in 1 .. i - 1 :
            /\ history[i].ids \subseteq history[j].ids
            /\ history[j].role = "assistant" /\ history[j].run = history[i].run
            /\ \A k \in 1 .. Len(history) :
                  k # i /\ history[k].role = "tool" => history[k].ids # history[i].ids

\* What the user asked is before the model in every step of the run, although
\* the question is passed in the first step only: it is in the prompt, in the
\* summary that opens it, or older than the last Window messages (react.py:
\* 194-202, 220-221; session.py:55-65).
QuestionAsked ==
    pc = "think" /\ intact =>
        \/ \E i \in 1 .. Len(Prompt) : Prompt[i] = User(run)
        \/ \E i \in 1 .. compacted : history[i] = User(run)
        \/ \E i \in 1 .. Len(history) - Window : history[i] = User(run)

Closing == {"answer", "limit", "error", "question"}

\* A run that nobody stopped does not end in silence: unless the model ended
\* it by a special tool or the store failed, the last thing the user saw is
\* an answer, the notice of the limit or an error (react.py:210-232).
AnsweredAtEnd ==
    pc = "finally" /\ ~stop /\ state # "FINISHED" /\ faults = 0 =>
        shown # <<>> /\ Last(shown) \in Closing

\* The user is told that the limit is reached only when this run made all its
\* steps: each showed calls or an answer, except one recovered overflow
\* (base.py:171-181, react.py:188-226).
LimitIsSpent ==
    (\E i \in 1 .. Len(shown) : shown[i] = "limit") =>
        Cardinality({i \in 1 .. Len(shown) : shown[i] \in {"calls", "answer"}})
          + (IF recovered THEN 1 ELSE 0) = MaxSteps

\* What a step sends is usable and to the point.
RequestSound == NoOrphanResult /\ QuestionAsked

\* A run says how it ended, and does not end before its time.
EndIsSaid == AnsweredAtEnd /\ LimitIsSpent

\* _sanitize_history says that tool calls and results are paired in what is
\* sent (openai_llm.py:76).
PromptIsPaired == pc = "think" => CallsAreAnswered(Prompt)

\* Seen from the bus the agent is the one of AgentRun.
Contract == INSTANCE AgentRun WITH running <- pc # "idle"
ImplementsRun == Contract!Spec

\* A run ends: no reply, overflow, failing store or message of others keeps
\* the loop going (react.py:188-241).
RunEnds == pc # "idle" ~> pc = "idle"
============================================================================
