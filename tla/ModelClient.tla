----------------------------- MODULE ModelClient -----------------------------
(***************************************************************************)
(* One call of a chat model: requests that are made again after errors,    *)
(* streams of reasoning, text and pieces of tool calls, and what the agent *)
(* takes from a stream.  The providers are those of openai_llm.py (OpenAI, *)
(* DeepSeek, Qwen, SiliconFlow), claude_llm.py and zhipu_llm.py.           *)
(***************************************************************************)
EXTENDS Naturals, Sequences, FiniteSets

CONSTANTS
    MaxAttempts, \* MAX_RETRY_ATTEMPTS
    ToolUses,    \* 1 .. n: the tool calls that the model makes
    Pieces,      \* pieces of the arguments of each
    MaxSpeech    \* bound on the pieces of text and reasoning of a stream

ASSUME AttemptsAssumption ==
    /\ MaxAttempts \in Nat \ {0} /\ Pieces \in Nat
    /\ IsFiniteSet(ToolUses) /\ ToolUses = 1 .. Cardinality(ToolUses)

\* What the text of an error holds; it may be both.
Errors == SUBSET {"overflow", "retry"}

VARIABLES
    ask,      \* provider, op, history: the call; indexed: are pieces numbered; twins: have the calls one id
    attempt,  \* requests that failed so far
    phase,    \* new, asking, streaming, ended, done
    speech,   \* what a stream has yielded
    thinking, \* reasoning_start
    sent,     \* pieces of each tool call that the model has sent
    parts,    \* tool_calls_collected: index or id -> name, args
    closing,  \* the closing tag that the arguments of a call hold
    lastError, reply, taken

clientVars == <<ask, attempt, phase, speech, thinking, sent, parts, closing, lastError, reply, taken>>

Streams(op) == op \in {"chat_stream", "ask_tools_stream"}
WithTools(op) == op \in {"ask_tools", "ask_tools_stream"}
Waiting == [kind |-> "none", marked |-> FALSE]

ClientInit ==
    /\ ask \in [provider : {"openai", "claude", "zhipu"},
                op : {"chat", "chat_stream", "ask_tools", "ask_tools_stream"},
                history : BOOLEAN, indexed : BOOLEAN, twins : BOOLEAN]
    /\ attempt = 0 /\ phase = "new" /\ speech = <<>> /\ thinking = FALSE
    /\ sent = [c \in ToolUses |-> 0] /\ parts = [i \in {} |-> 0] /\ closing = [i \in {} |-> "none"]
    /\ lastError = "none" /\ reply = Waiting /\ taken = <<>>

Replied(kind, marked) == reply' = [kind |-> kind, marked |-> marked] /\ phase' = "done"
-----------------------------------------------------------------------------
\* The constructor: zhipu's hands its name on to one that does not know it.
Constructed(provider) == provider # "zhipu"
\* _format_message: claude's class has no _sanitize_history.
OpenAIFormat == TRUE
ClaudeFormat == ~ask.history
Begin ==
    /\ phase = "new"
    /\ IF Constructed(ask.provider) /\ (IF ask.provider = "claude" THEN ClaudeFormat ELSE OpenAIFormat)
       THEN phase' = "asking" /\ UNCHANGED reply
       ELSE Replied("raised", TRUE)
    /\ UNCHANGED <<ask, attempt, speech, thinking, sent, parts, closing, lastError, taken>>

\* _is_context_overflow_error and _is_retryable_error look for words.
Overflow(error) == "overflow" \in error
Retryable_AnyOverflow(error) == "retry" \in error
Retryable(error) == ~Overflow(error) /\ "retry" \in error

\* Whether the text of a failure begins with "llm error:".
OpenAIMarks(op) == op # "chat_stream"
ClaudeMarks(op) == op # "chat"
Marks(provider, op) == IF provider = "openai" THEN OpenAIMarks(op) ELSE ClaudeMarks(op)

\* An exception of the request or, in chat and ask_tools, behind it.
Raises(error) ==
    /\ lastError' = IF Overflow(error) THEN "overflow" ELSE "other"
    /\ IF Overflow(error) /\ ~Retryable(error)
       THEN Replied("overflow", TRUE) /\ UNCHANGED attempt
       ELSE IF ~Retryable(error) \/ attempt + 1 = MaxAttempts
            THEN Replied("failed", Marks(ask.provider, ask.op)) /\ UNCHANGED attempt
            ELSE attempt' = attempt + 1 /\ UNCHANGED <<phase, reply>>
    /\ UNCHANGED <<ask, speech, thinking, sent, parts, closing, taken>>
RequestFails == phase = "asking" /\ \E error \in Errors : Raises(error)

Invalid ==
    /\ phase = "asking"
    /\ Replied("invalid", WithTools(ask.op))
    /\ UNCHANGED <<ask, attempt, speech, thinking, sent, parts, closing, lastError, taken>>

\* chat and ask_tools: the calls come whole.  Claude's class has no
\* _extract_usage either, so that a good answer raises behind the request.
Whole == [c \in ToolUses |-> [use |-> c, args |-> "all"]]
OpenAIAnswered ==
    /\ phase = "asking" /\ ~Streams(ask.op) /\ ask.provider = "openai"
    /\ Replied("answer", TRUE)
    /\ taken' = IF WithTools(ask.op) THEN Whole ELSE <<>>
    /\ sent' = IF WithTools(ask.op) THEN [c \in ToolUses |-> Pieces + 1] ELSE sent
    /\ UNCHANGED <<ask, attempt, speech, thinking, parts, closing, lastError>>
ClaudeAnswered ==
    /\ phase = "asking" /\ ~Streams(ask.op) /\ ask.provider = "claude"
    /\ Raises({})
StreamOpened ==
    /\ phase = "asking" /\ Streams(ask.op)
    /\ phase' = "streaming"
    /\ UNCHANGED <<ask, attempt, speech, thinking, sent, parts, closing, lastError, reply, taken>>
-----------------------------------------------------------------------------
Said == phase = "streaming" /\ Cardinality({k \in DOMAIN speech : speech[k] \in {"reason", "text"}}) < MaxSpeech

\* stream_response, a chunk with reasoning or text (or both).
OpenAIOpens == IF thinking THEN <<>> ELSE <<"think">>
OpenAICloses_Never == <<>>
OpenAICloses == IF thinking THEN <<"/think">> ELSE <<>>
OpenAISpeaks ==
    /\ Said /\ ask.provider = "openai"
    /\ \/ speech' = speech \o OpenAIOpens \o <<"reason">> /\ thinking' = TRUE
       \/ speech' = speech \o OpenAICloses \o <<"text">> /\ thinking' = FALSE
       \/ speech' = speech \o OpenAIOpens \o <<"reason", "/think", "text">> /\ thinking' = FALSE
    /\ UNCHANGED <<ask, attempt, phase, sent, parts, closing, lastError, reply, taken>>
ClaudeSpeaks ==
    /\ Said /\ ask.provider = "claude"
    /\ speech' = Append(speech, "text")
    /\ UNCHANGED <<ask, attempt, phase, thinking, sent, parts, closing, lastError, reply, taken>>

\* A piece of a tool call: first its id and its name, then its arguments.  At
\* its first piece claude's class begins the item anew.
Put(f, i, item) == [j \in DOMAIN f \cup {i} |-> IF j = i THEN item ELSE f[j]]
Item(i) == IF i \in DOMAIN parts THEN parts[i] ELSE [name |-> 0, args |-> <<>>]
CollectAt(i, c) ==
    IF sent[c] = 0 THEN [name |-> c, args |-> IF ask.provider = "claude" THEN <<>> ELSE Item(i).args]
    ELSE [Item(i) EXCEPT !.args = Append(@, <<c, sent[c]>>)]
ToolPiece(c) ==
    /\ phase = "streaming" /\ WithTools(ask.op) /\ sent[c] <= Pieces
    /\ c > 1 => sent[c - 1] > 0
    /\ sent' = [sent EXCEPT ![c] = @ + 1]
    /\ UNCHANGED <<ask, attempt, phase, speech, thinking, closing, lastError, reply, taken>>
\* By the number of the call, which some servers do not send.
OpenAICollects(c) ==
    /\ ask.provider = "openai" /\ ToolPiece(c)
    /\ LET i == IF ask.indexed THEN c ELSE 0 IN parts' = Put(parts, i, CollectAt(i, c))
\* By the id.
ClaudeCollects(c) ==
    /\ ask.provider = "claude" /\ ToolPiece(c)
    /\ LET i == IF ask.twins THEN 1 ELSE c IN parts' = Put(parts, i, CollectAt(i, c))

\* An exception in a stream is raised to the reader; a stream may also end
\* early, at the limit of tokens.
StreamBreaks ==
    /\ phase = "streaming" /\ Replied("raised", TRUE)
    /\ UNCHANGED <<ask, attempt, speech, thinking, sent, parts, closing, lastError, taken>>
StreamEnds ==
    /\ phase = "streaming"
    /\ phase' = "ended"
    /\ UNCHANGED <<ask, attempt, speech, thinking, sent, parts, closing, lastError, reply, taken>>

\* _format_tool_calls writes the calls between tags, in the order of their
\* numbers and by their ids, of which each is written once.
ById == IF ask.twins THEN {i \in DOMAIN parts : \A j \in DOMAIN parts : j <= i} ELSE DOMAIN parts

\* The agent's extract_stream_tool_calls looks for the tags again: a call ends
\* at the first </tool>, all of them end at the first </tool_calls>, also in
\* arguments, which are written as they are.  What it cannot read it leaves out.
Cut(tags, i) == tags[i] = "tool" \/ \E j \in ById : j <= i /\ tags[j] = "block"
Untorn(tags) == {i \in ById : parts[i].name # 0 /\ ~Cut(tags, i)}
Ordered(items) ==
    {s \in [1 .. Cardinality(items) -> items] : \A k, l \in DOMAIN s : k < l => s[k] < s[l]}

\* No arguments are {}, arguments that are not JSON raise.
AllOf(c) == [k \in 1 .. Pieces |-> <<c, k>>]
Parsed_Repairs(item) == IF item.args = <<>> THEN "none" ELSE "all"
Parsed(item) ==
    IF item.args = <<>> THEN "none" ELSE IF item.args = AllOf(item.name) THEN "all" ELSE "broken"
TakeCalls == \E tags \in [DOMAIN parts -> {"none", "tool", "block"}] :
    /\ phase = "ended"
    /\ \A i \in DOMAIN parts : parts[i].args = <<>> => tags[i] = "none"
    /\ closing' = tags
    /\ IF \E i \in Untorn(tags) : Parsed(parts[i]) = "broken"
       THEN Replied("raised", TRUE) /\ UNCHANGED taken
       ELSE /\ Replied("answer", TRUE)
            /\ \E s \in Ordered(Untorn(tags)) :
                 taken' = [k \in DOMAIN s |-> [use |-> parts[s[k]].name, args |-> Parsed(parts[s[k]])]]
    /\ UNCHANGED <<ask, attempt, speech, thinking, sent, parts, lastError>>

ClientNext ==
    \/ Begin \/ RequestFails \/ Invalid \/ OpenAIAnswered \/ ClaudeAnswered \/ StreamOpened
    \/ OpenAISpeaks \/ ClaudeSpeaks \/ StreamBreaks \/ StreamEnds \/ TakeCalls
    \/ \E c \in ToolUses : OpenAICollects(c) \/ ClaudeCollects(c)
ClientSpec == ClientInit /\ [][ClientNext]_clientVars
-----------------------------------------------------------------------------
\* The calls that the agent takes from an answer are those the model made, each
\* once and in their order, with all of their arguments or, where none had come
\* yet, with none; never with a part of them or with those of another call.
\* Two things lose a call without a word: arguments that hold </tool>, or
\* </tool_calls> in a call that is not behind it (chat_models/base.py:312,
\* agents/core/base.py:20-31), and calls that share an id (openai_llm.py:484);
\* and pieces without a number all go to one call.
CallsAsMade ==
    reply.kind = "answer" /\ (ask.indexed \/ ask.provider = "claude") /\ ~ask.twins =>
        /\ \A k, l \in 1 .. Len(taken) : k < l => taken[k].use < taken[l].use
        /\ \A k \in 1 .. Len(taken) :
              /\ taken[k].use \in ToolUses
              /\ sent[taken[k].use] = IF taken[k].args = "all" THEN Pieces + 1 ELSE 1
        /\ \A c \in ToolUses : sent[c] > 0 =>
              \/ \E k \in 1 .. Len(taken) : taken[k].use = c
              \/ closing[c] = "tool" \/ \E b \in 1 .. c : closing[b] = "block"

\* Text is never inside the tags of the reasoning, which are removed with all
\* they hold.
TextOutside ==
    \A k \in 1 .. Len(speech) : speech[k] = "text" =>
        Cardinality({j \in 1 .. k : speech[j] = "think"}) = Cardinality({j \in 1 .. k : speech[j] = "/think"})

\* Nothing is requested again once the stream has begun, so that no text comes
\* twice, and no more often than allowed; an overflow is told as such at once,
\* since the agent compacts the history then and only then.
OverflowTold ==
    /\ attempt < MaxAttempts
    /\ lastError = "overflow" => reply.kind = "overflow" /\ speech = <<>>

ClientSound == CallsAsMade /\ TextOutside /\ OverflowTold
=============================================================================
