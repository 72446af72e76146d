------------------------- MODULE HistorySanitizer -------------------------
(***************************************************************************)
(* OpenAILLM._sanitize_history: what becomes of a session's history on its *)
(* way into a request.  A message is its role, the ids of the tool calls   *)
(* it makes (role assistant) or answers (role tool), and the run that      *)
(* wrote it (0: somebody else).  Contents are left out.                    *)
(***************************************************************************)
EXTENDS Integers, Sequences, SequencesExt

User(r) == [role |-> "user", ids |-> {}, run |-> r]
Assistant(r) == [role |-> "assistant", ids |-> {}, run |-> r]
ToolCalls(ids, r) == [role |-> "assistant", ids |-> ids, run |-> r]
ToolResult(id, r) == [role |-> "tool", ids |-> {id}, run |-> r]

\* acc.kept is `sanitized', acc.pending is `pending_tool_ids'.
NothingKept == [kept |-> <<>>, pending |-> {}]

Keep(acc, m, pending) == [kept |-> Append(acc.kept, m), pending |-> pending]

\* The last message makes calls and none of them was answered.
Unanswered(acc) ==
    /\ acc.pending # {} /\ acc.kept # <<>>
    /\ Last(acc.kept).role = "assistant"

\* last.pop("tool_calls")
WithoutCalls(kept) == [kept EXCEPT ![Len(kept)].ids = {}]

\* Mutant of KeepMessage: the results are not compared with the open calls.
KeepMessage_AnyResult(acc, m) ==
    CASE m.role = "assistant" -> Keep(acc, m, m.ids)
      [] m.role = "tool" -> Keep(acc, m, acc.pending \ m.ids)
      [] m.role = "user" -> Keep(acc, m, acc.pending)

KeepMessage(acc, m) ==
    CASE m.role = "assistant" -> Keep(acc, m, m.ids)
      [] m.role = "tool" ->
           IF m.ids \subseteq acc.pending THEN Keep(acc, m, acc.pending \ m.ids)
                                          ELSE acc
      [] m.role = "user" ->
           IF Unanswered(acc)
           THEN Keep([acc EXCEPT !.kept = WithoutCalls(@)], m, {})
           ELSE Keep(acc, m, acc.pending)

Sanitize(history) ==
    LET acc == FoldLeft(KeepMessage, NothingKept, history)
    IN  IF Unanswered(acc) THEN WithoutCalls(acc.kept) ELSE acc.kept

----------------------------------------------------------------------------
(* What a chat API asks of a request.                                      *)

\* The position of the last assistant message before i, 0 if there is none.
CallerOf(prompt, i) ==
    Max({0} \cup {j \in 1 .. i - 1 : prompt[j].role = "assistant"})

\* Every tool result answers a call of the assistant message before it, and
\* no call is answered twice.
ResultsAnswerCalls(prompt) ==
    \A i \in 1 .. Len(prompt) : prompt[i].role = "tool" =>
        LET j == CallerOf(prompt, i)
        IN  /\ j # 0
            /\ prompt[i].ids \subseteq prompt[j].ids
            /\ \A k \in j + 1 .. i - 1 :
                  prompt[k].role = "tool" => prompt[k].ids # prompt[i].ids

\* Every call made in the prompt is answered there, right behind the message
\* that makes it.
CallsAreAnswered(prompt) ==
    \A j \in 1 .. Len(prompt) : prompt[j].role = "assistant" =>
        \A id \in prompt[j].ids :
            \E i \in j + 1 .. Len(prompt) :
                /\ prompt[i].role = "tool" /\ prompt[i].ids = {id}
                /\ \A k \in j + 1 .. i : prompt[k].role = "tool"
============================================================================
