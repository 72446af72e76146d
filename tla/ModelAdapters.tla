--------------------------- MODULE ModelAdapters ---------------------------
(***************************************************************************)
(* What the embedding models (encode, encode_queries) and the rerank       *)
(* models (similarity) do between their caller and a service: texts go out *)
(* in batches, an answer may lack entries or come in another order, a      *)
(* request may fail and is made again when its error looks temporary.      *)
(* Each provider's class is a record that says where it differs.  BAAIRank *)
(* is not among them: its constructor takes a method of the instance from  *)
(* the class and always raises, so that nobody has one to call.            *)
(* The second half is BaseModelFactory: which provider and model a request *)
(* gets, from a configuration read once, and the instances it keeps for an *)
(* hour.  create_model does not wait, so calls follow one another.         *)
(***************************************************************************)
EXTENDS Integers, Sequences, FiniteSets

CONSTANTS
    MaxTexts,        \* bound on the texts of a call, numbered 1, 2, ...
    ModelAttempts,   \* MAX_RETRY_ATTEMPTS
    MaxAskFaults     \* bound on requests that fail

ASSUME AskAssumption == MaxTexts \in Nat

VARIABLES
    adapter,         \* the class that is called, and its operation
    asking,          \* the call: first text of the batch, attempts, what it has so far
    askFaults,
    returned         \* what the caller is given in the end

askVars == <<adapter, asking, askFaults, returned>>

\* Batches of 16 and of 4 or 8 texts, made small enough to need several.
Scaled(size) == IF size = 1 THEN 1 ELSE IF size = 16 THEN 3 ELSE 2

\* An adapter that asks for 16 texts at a time, appends what it is given, and
\* makes a request again on errors that look temporary.
Batched == [does |-> "encode", size |-> Scaled(16), once |-> FALSE, indexed |-> FALSE, none |-> "kept",
            again |-> "temporary", malformed |-> "raise", counts |-> TRUE, late |-> FALSE,
            query |-> "vector", rescales |-> FALSE]
OpenAIEmbed == Batched
CoHereEmbed == Batched
GeminiEmbed == Batched
MistralEmbed == Batched
NvidiaEmbed == Batched
VoyageEmbed == Batched
\* An answer without data is an error, which may look temporary as it quotes
\* the answer; one that lacks entries is taken.
SILICONFLOWEmbed == [Batched EXCEPT !.none = "either"]
\* batch_size is not used; a query is answered by the list of all vectors.
BaiduYiyanEmbed == [Batched EXCEPT !.size = MaxTexts, !.once = TRUE, !.query = "list"]
\* Vectors go where text_index says; an answer without output, not an empty
\* one, is asked for again, without a delay.
QWenEmbed == [Batched EXCEPT !.size = Scaled(4), !.indexed = TRUE, !.none = "again"]
\* One text at a time.
OneByOne == [Batched EXCEPT !.size = 1, !.none = "raise"]
OllamaEmbed == OneByOne
BedrockEmbed == OneByOne
HuggingFaceEmbed == OneByOne
\* encode counts tokens with a method that the class does not have.
ZhipuEmbed == [OneByOne EXCEPT !.counts = FALSE]
\* A local model: nothing is tried again.  Of the vector of a query it takes
\* the first component.
BAAIEmbedding == [Batched EXCEPT !.again = "never", !.query = "number"]

\* Rerank: all texts in one request, each score at the index that comes with it.
Ranked == [Batched EXCEPT !.does = "rank", !.size = MaxTexts, !.once = TRUE, !.indexed = TRUE]
CohereRank == Ranked
QwenRank == Ranked
NvidiaRank == Ranked
BaiduYiyanRank == Ranked
\* The scores are moved and scaled so that they begin at zero; without texts
\* the smallest score does not exist.
OpenAIRank == [Ranked EXCEPT !.none = "raise", !.rescales = TRUE]
\* Without texts there is no request.
VoyageRank == [Ranked EXCEPT !.once = FALSE]
XinferenceRank == [Ranked EXCEPT !.once = FALSE]
\* An answer in another form is logged, and every score is zero.
GPUStackRank == [Ranked EXCEPT !.malformed = "zero"]
\* ... unless the tokens are missing too.
SiliconflowRank == [Ranked EXCEPT !.malformed = "either"]
\* Eight texts at a time, every error is tried again, the last one is raised
\* after the other batches were asked for.
HuggingfaceRank == [Ranked EXCEPT !.size = Scaled(8), !.once = FALSE, !.again = "always", !.late = TRUE]

EmbeddingModels == {OpenAIEmbed, CoHereEmbed, GeminiEmbed, MistralEmbed, NvidiaEmbed, VoyageEmbed, SILICONFLOWEmbed,
    BaiduYiyanEmbed, QWenEmbed, OllamaEmbed, BedrockEmbed, HuggingFaceEmbed, ZhipuEmbed, BAAIEmbedding}
\* encode_queries: one text, whose vector is the first of the answer.  The list
\* of all vectors may be empty.
AsQuery(m) == [m EXCEPT !.does = "query", !.size = 1, !.once = FALSE, !.counts = TRUE,
                         !.none = IF m.none = "either" THEN "either" ELSE IF m.query = "list" THEN "kept" ELSE "raise"]
RankModels == {CohereRank, QwenRank, NvidiaRank, BaiduYiyanRank, OpenAIRank, VoyageRank, XinferenceRank,
    GPUStackRank, SiliconflowRank, HuggingfaceRank}

\* got: the vectors in the order returned, or the score of each text, 0 for none.
AskInit ==
    /\ adapter \in EmbeddingModels \cup {AsQuery(m) : m \in EmbeddingModels} \cup RankModels
    /\ \E n \in IF adapter.does = "query" THEN {1} ELSE 0 .. MaxTexts :
          asking = [n |-> n, next |-> 1, tries |-> 0, asked |-> FALSE, late |-> FALSE, told |-> "none",
                    got |-> IF adapter.does = "rank" THEN [t \in 1 .. n |-> 0] ELSE <<>>,
                    missed |-> {}]
    /\ askFaults = 0 /\ returned = <<>>
-----------------------------------------------------------------------------
BatchTexts ==
    LET last == asking.next + adapter.size - 1
    IN  asking.next .. IF last < asking.n THEN last ELSE asking.n
AskMore == asking.told = "none" /\ (asking.next <= asking.n \/ (adapter.once /\ ~asking.asked))

\* The scores when that of a text left out, zero, is the lowest or not: those
\* the service gives may be negative.  The smallest is subtracted from all.
ScoreFrom(low, t) == IF asking.got[t] = 0 THEN 0 ELSE asking.got[t] - low
Rescaled == \E low \in 0 .. MaxTexts + 1, first \in 1 .. asking.n :
    /\ \A t \in 1 .. asking.n : ScoreFrom(low, first) <= ScoreFrom(low, t)
    /\ returned' = [t \in 1 .. asking.n |-> ScoreFrom(low, t) - ScoreFrom(low, first)]

\* The last batch is behind: what was collected is returned, or the error that
\* was kept is raised.  A component of a vector is no text's vector.
AskReturn ==
    /\ asking.told = "none" /\ ~AskMore
    /\ asking' = [asking EXCEPT !.told = IF asking.late THEN "raised" ELSE "done"]
    /\ \/ adapter.rescales /\ Rescaled
       \/ ~adapter.rescales /\ returned' = IF adapter.does = "query" /\ adapter.query = "number" THEN <<>> ELSE asking.got
    /\ UNCHANGED <<adapter, askFaults>>
AskRaise == asking' = [asking EXCEPT !.told = "raised"]

\* A mutant: an error that was tried to the end is forgotten.
GivenUp_Quiet == [asking EXCEPT !.next = @ + adapter.size, !.tries = 0, !.asked = TRUE]
\* The error of the last attempt: raised, or kept until the other batches are asked.
GivenUp == IF adapter.late THEN [asking EXCEPT !.late = TRUE, !.next = @ + adapter.size, !.tries = 0]
                           ELSE [asking EXCEPT !.told = "raised"]
TriedAgain ==
    asking' = IF asking.tries + 1 < ModelAttempts THEN [asking EXCEPT !.tries = @ + 1] ELSE GivenUp

AnswerFor(texts) == {s \in UNION {[1 .. k -> texts] : k \in 0 .. Cardinality(texts)} :
    \A i, j \in DOMAIN s : i < j => IF adapter.indexed THEN s[i] # s[j] ELSE s[i] < s[j]}
AnsweredFor(s) == {s[i] : i \in DOMAIN s}
Position(t) == t - asking.next + 1

\* A mutant: vectors in the order they came, whatever their text_index.
Placed_AsCome(s) == s
\* A list as long as the answer, each vector at its text_index.
Placed(s) == [k \in DOMAIN s |-> CHOOSE t \in AnsweredFor(s) : Position(t) = k]
Fits(s) == \A t \in AnsweredFor(s) : Position(t) <= Len(s)

\* A mutant: the index within the batch is taken for the index of the text.
ScoreAt_InBatch(t) == Position(t)
ScoreAt(t) == t
Scores(s) == [t \in 1 .. asking.n |-> IF \E u \in AnsweredFor(s) : ScoreAt(u) = t
                                      THEN CHOOSE u \in AnsweredFor(s) : ScoreAt(u) = t ELSE asking.got[t]]

Collected(s) ==
    IF adapter.does = "rank" THEN Scores(s) ELSE asking.got \o IF adapter.indexed THEN Placed(s) ELSE s
Took(s) == asking' = [asking EXCEPT !.got = Collected(s), !.next = @ + adapter.size, !.tries = 0, !.asked = TRUE,
                        !.missed = @ \cup (BatchTexts \ AnsweredFor(s))]

\* An answer without entries.
NothingCame ==
    \/ adapter.none = "again" /\ (TriedAgain \/ Took(<<>>))
    \/ adapter.none = "either" /\ (TriedAgain \/ AskRaise)
    \/ adapter.none = "raise" /\ IF adapter.does = "rank" /\ asking.n > 0 THEN Took(<<>>) ELSE AskRaise
    \/ adapter.none = "kept" /\ Took(<<>>)

\* The service answers, in its order and perhaps not for every text.
ServiceAnswers == \E s \in AnswerFor(BatchTexts) :
    /\ AskMore /\ UNCHANGED <<adapter, askFaults, returned>>
    /\ IF ~adapter.counts THEN AskRaise
       ELSE IF s = <<>> THEN NothingCame
       ELSE IF adapter.indexed /\ adapter.does # "rank" /\ ~Fits(s) THEN AskRaise ELSE Took(s)

\* The answer has another form.
Malformed ==
    /\ AskMore /\ askFaults < MaxAskFaults /\ askFaults' = askFaults + 1 /\ UNCHANGED <<adapter, returned>>
    /\ IF adapter.again = "always" THEN TriedAgain
       ELSE \/ adapter.malformed # "raise"
               /\ asking' = [asking EXCEPT !.asked = TRUE, !.next = @ + adapter.size, !.missed = BatchTexts]
            \/ adapter.malformed # "zero" /\ AskRaise

\* _is_retryable_error looks for words such as "timeout" in the error's text.
Temporary(looks) == adapter.again = "always" \/ (adapter.again = "temporary" /\ looks)

ServiceFails == \E looks \in BOOLEAN :
    /\ AskMore /\ askFaults < MaxAskFaults /\ askFaults' = askFaults + 1 /\ UNCHANGED <<adapter, returned>>
    /\ IF Temporary(looks) THEN TriedAgain ELSE AskRaise

AskNext == AskReturn \/ ServiceAnswers \/ Malformed \/ ServiceFails
AskSpec == AskInit /\ [][AskNext]_askVars
-----------------------------------------------------------------------------
\* Vectors come back in the order of the texts and none twice, however often
\* the requests of a batch were made again; when the service answered for
\* every text, each has its vector (embedding_models/*.py, encode).
VectorsInOrder ==
    adapter.does = "encode" /\ asking.told = "done" =>
        /\ \A i, j \in DOMAIN returned : i < j => returned[i] < returned[j]
        /\ asking.missed = {} => Len(returned) = asking.n

\* Adapters that ask for one text, or place by text_index, return no vector
\* for a text it does not belong to: the k-th vector of a batch is its k-th
\* text's.  The others shift the vectors behind one that is missing.
VectorsPlaced ==
    adapter.does = "encode" /\ asking.told = "done" /\ (adapter.size = 1 \/ (adapter.indexed /\ asking.n <= adapter.size)) =>
        \A k \in DOMAIN returned : returned[k] = k

\* Each text has its own score and a text the service left out has none; an
\* error of any batch is raised, though other batches had answers
\* (huggingface_rank.py:39-71).  Where the scores are moved to begin at zero,
\* texts with a score keep their distances and those without are level; but
\* the latter take part with zero, and are not the last where scores are
\* negative (openai_rank.py:62-76).
ScoresOwn ==
    adapter.does = "rank" /\ asking.told = "done" =>
        /\ ~adapter.rescales => \A t \in 1 .. asking.n : returned[t] = IF t \in asking.missed THEN 0 ELSE t
        /\ \A t, u \in (1 .. asking.n) \ asking.missed : returned[t] - returned[u] = t - u
        /\ \A t, u \in 1 .. asking.n : t \in asking.missed /\ u \in asking.missed => returned[t] = returned[u]
        /\ ~asking.late

\* One text is answered for by one vector, or the query raises.  Two classes do
\* otherwise: BaiduYiyanEmbed returns the list, which is empty when the service
\* has no vector (baidu_yiyan_embed.py:84-87), BAAIEmbedding a number of the
\* vector (baai_embed.py:113).
QueryAnswered ==
    adapter.does = "query" /\ asking.told = "done" =>
        IF adapter.query = "number" THEN returned = <<>>
        ELSE returned = <<1>> \/ (adapter.query = "list" /\ asking.missed # {} /\ returned = <<>>)

AdaptersSound == VectorsInOrder /\ VectorsPlaced /\ ScoresOwn /\ QueryAnswered

-----------------------------------------------------------------------------
(* BaseModelFactory.                                                       *)

CONSTANTS
    Providers,       \* the providers of the configuration, in its order
    ModelNames,
    NotGiven,        \* no provider, no model
    CacheTtl,        \* DEFAULT_CACHE_TTL_SECONDS, in ticks
    ConfigFiles,     \* the configurations: valid providers, pairs listed, default
    MaxModelTime     \* bound on the clock

VARIABLES
    modelConfig,     \* valid providers, the models each lists, the default
    instances,       \* _instance_cache: per provider and model, the clock at creation
    modelClock,
    handed           \* the last instance handed out, or the error

modelVars == <<modelConfig, instances, modelClock, handed>>

ProviderNames == {Providers[i] : i \in DOMAIN Providers}
Pairs == ProviderNames \X ModelNames
\* The default is a provider and a model of the configuration, whether listed
\* and valid or not.
ASSUME FactoryAssumption ==
    /\ NotGiven \notin ModelNames /\ CacheTtl \in Nat /\ DOMAIN Providers \subseteq Nat
    /\ \A c \in ConfigFiles : c.default \in Pairs

NoPair == <<NotGiven, NotGiven>>
NoInstance == [made |-> 0, pair |-> NoPair, to |-> NoPair, told |-> "none", earlier |-> 0]

\* A mutant: a provider that is switched off is not told apart.
Supported_Listed(pair) == pair \in modelConfig.listed
\* if_model_support, and what get_model_params accepts.
Supported(pair) == pair \in modelConfig.listed /\ pair[1] \in modelConfig.valid

\* get_model_info_by_name: the first valid provider that lists the model.
ByName(model) ==
    LET lists == {i \in DOMAIN Providers : Supported(<<Providers[i], model>>)}
    IN  IF lists = {} THEN NoPair ELSE <<Providers[CHOOSE i \in lists : \A j \in lists : i <= j], model>>

\* A mutant: the default stands in for a model that is known.
Chosen_Default(provider, model) == modelConfig.default
\* A provider without a model gets the default, as does a pair that is not supported.
Chosen(provider, model) ==
    IF model = NotGiven THEN modelConfig.default
    ELSE IF provider = NotGiven THEN ByName(model)
    ELSE IF Supported(<<provider, model>>) THEN <<provider, model>> ELSE modelConfig.default

\* A mutant: an instance is kept for good.
Expired_Never(made) == FALSE
Expired(made) == modelClock - made > CacheTtl

FactoryInit ==
    /\ modelConfig \in ConfigFiles
    /\ instances = [p \in Pairs |-> 0] /\ modelClock = 1 /\ handed = NoInstance

CreateInstance == \E provider \in ProviderNames \cup {NotGiven}, model \in ModelNames \cup {NotGiven} :
    LET pair == Chosen(provider, model)
        known == pair \in Pairs /\ Supported(pair)
        made == instances[pair]
        reused == made # 0 /\ ~Expired(made)
    IN  /\ UNCHANGED <<modelConfig, modelClock>>
        /\ IF ~known
           THEN /\ handed' = [NoInstance EXCEPT !.to = <<provider, model>>, !.told = "error"]
                /\ UNCHANGED instances
           ELSE \/ /\ instances' = IF reused THEN instances ELSE [instances EXCEPT ![pair] = modelClock]
                   /\ handed' = [made |-> IF reused THEN made ELSE modelClock, pair |-> pair,
                                 to |-> <<provider, model>>, told |-> "instance", earlier |-> made]
                \* the constructor raises, behind the removal of an old instance
                \/ /\ ~reused
                   /\ instances' = [instances EXCEPT ![pair] = 0]
                   /\ handed' = [NoInstance EXCEPT !.to = <<provider, model>>, !.told = "failed"]

TimePasses == modelClock < MaxModelTime /\ modelClock' = modelClock + 1 /\ handed' = NoInstance
              /\ UNCHANGED <<modelConfig, instances>>

FactoryNext == CreateInstance \/ TimePasses
FactorySpec == FactoryInit /\ [][FactoryNext]_modelVars
-----------------------------------------------------------------------------
\* Whoever asks for a model that a valid provider lists gets that model; what
\* is handed out is never of a provider that is switched off, however old the
\* instance; an error means that neither what was asked for nor the default
\* can be had (base_factory.py:244-264).
RightModel ==
    /\ handed.told = "instance" =>
         /\ handed.pair[1] \in modelConfig.valid /\ handed.pair \in modelConfig.listed
         /\ handed.to[2] # NotGiven /\ (handed.to[1] = NotGiven \/ (handed.to \in modelConfig.listed /\ handed.to[1] \in modelConfig.valid))
              => handed.pair[2] = handed.to[2]
    /\ handed.told = "error" =>
         \/ ~(modelConfig.default \in modelConfig.listed /\ modelConfig.default[1] \in modelConfig.valid)
         \/ (handed.to[1] = NotGiven /\ handed.to[2] # NotGiven)

\* An instance is not handed out later than an hour after it was made, and
\* until then everyone shares it (base_factory.py:285-319).
InstanceShared ==
    handed.told = "instance" =>
        /\ modelClock - handed.made <= CacheTtl
        /\ handed.earlier # 0 /\ modelClock - handed.earlier <= CacheTtl => handed.made = handed.earlier

FactorySound == RightModel /\ InstanceShared
=============================================================================
