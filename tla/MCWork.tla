------------------------------- MODULE MCWork -------------------------------
(***************************************************************************)
(* Small instances of what agents, routes and workers set going: tasks of  *)
(* subagents, consolidations of the memory, patches and requests to a      *)
(* model; scans, language servers, chunks, vectors and the code graph;     *)
(* repositories and tokens; and what these use, the search engine, redis   *)
(* and object stores.  A behaviour exercises one of them, part; the others *)
(* stay in their initial states.                                           *)
(***************************************************************************)
EXTENDS Work, SubAgent, MemoryFiles, PatchTool, FileTools, RepoScan, LspClients, RedisClient, AppServices, TLC

CONSTANTS t1, t2, h1, h2, m1, m2, p1, p2, p3, x1, x2, u1, u2, v1, v2, v3,
          f1, f2, q1, q2, q3, n1, n2, r1, r2, a1, a2, b1, b2

VARIABLE part

DirOfPath == p1 :> 1 @@ p2 :> 2 @@ p3 :> 0

\* Patches of up to two sections, with chunks that match, chunks that match
\* loosely, without their last line or nowhere, and lines out of place.
Line(kind, at) == [kind |-> kind, at |-> at]
ChunkTexts == {<<>>,
    <<Line("chunk", -1), Line("keep", 1), Line("del", 2), Line("ins", 3)>>,
    <<Line("chunk", 11), Line("del", 2), Line("ins", 3), Line("ins", 1)>>,
    <<Line("chunk", -1), Line("ins", 3)>>,
    <<Line("chunk", -1), Line("del", 1), Line("keep", 0)>>,
    <<Line("chunk", 2), Line("eof", 0), Line("keep", 1)>>,
    <<Line("keep", 1), Line("chunk", 2), Line("keep", 0), Line("ins", 4)>>}
SecondTexts == {<<>>, <<Line("chunk", -1), Line("del", 1), Line("keep", 0)>>,
    <<Line("chunk", 2), Line("eof", 0), Line("keep", 1)>>}
UpdateTexts == {<<Line("update", f1)>> \o move \o first \o second :
    move \in {<<>>, <<Line("move", f1)>>, <<Line("move", f2)>>}, first \in ChunkTexts, second \in SecondTexts}
OtherTexts == {<<>>, <<Line("delete", f1)>>, <<Line("delete", f2)>>,
    <<Line("add", f2), Line("ins", 1), Line("ins", 0)>>,
    <<Line("ins", 5), Line("add", f1), Line("keep", 1)>>,
    <<Line("update", f2), Line("chunk", -1), Line("del", 1), Line("ins", 2)>>}
Patches == {u \o o : u \in UpdateTexts, o \in OtherTexts}
           \cup {o \o <<Line("update", f1)>> \o c : o \in OtherTexts, c \in ChunkTexts}
           \cup OtherTexts
Disks == {f1 :> c @@ f2 :> d :
    c \in {<<>>, <<1, 2>>, <<2, 1, 2, 1>>, <<1, 2, 0>>, <<11, 2, 1, 12, 0>>, <<1, 1, 0, 2>>},
    d \in {NoFile, <<1, 2>>}}

FilesUpTo == UNION {[1 .. n -> LineKinds] : n \in 0 .. 4}

\* Versions of a file: two chunks, its first chunk, none.
FileChunks == << << <<1, 5>>, <<5, 8>> >>, << <<1, 5>> >>, <<>> >>

\* Files with and without parts, that import each other or nothing.
Holding(others, things) == [imports |-> others, parts |-> things]
FileContents == {Holding({}, {"function"}), Holding({f2}, {"function"}), Holding({f1}, {}),
                 Holding({f1}, {"class", "function"})}

Providers2 == <<a1, a2>>
ModelConfigs == [listed : SUBSET Pairs, valid : SUBSET ProviderNames, default : {<<a1, b1>>}]

\* Both records of one file, of two files, and one record.
RecordSpaces == {r1 :> Entry(1) @@ r2 :> e : e \in {Entry(1), Entry(2), NoRecord}}

\* Texts with one, several and overlapping occurrences, and both line ends;
\* files of short lines, of middle ones and of lines that are cut.
EditSteps(olds, news) == [old : olds, new : news, all : BOOLEAN]
FirstSteps == EditSteps({<<>>, <<1>>, <<1, 1>>, <<2, 0>>}, {<<>>, <<2>>, <<1, 2>>})
EditorCalls == {[tool |-> "replace", steps |-> <<s>>] : s \in FirstSteps}
    \cup {[tool |-> "replace", steps |-> <<s, t>>] : s \in FirstSteps, t \in EditSteps({<<1>>, <<2>>}, {<<1>>, <<2, 1>>})}
    \cup {[tool |-> "insert", position |-> p, text |-> t] : p \in 0 .. 3, t \in {<<1>>, <<2, 0>>}}
    \cup {[tool |-> "write", append |-> a, text |-> <<2, 9>>] : a \in BOOLEAN}
EditTexts == {NoFile, <<1, 2, 1, 2>>} \cup UNION {[1 .. n -> {1, 2, 9}] : n \in 0 .. 3}
LineSizes == {[i \in 1 .. n |-> IF i \in long THEN 20 ELSE size] :
    n \in 0 .. 13, long \in {{}, {1}, {2, 3}, 1 .. 5}, size \in {1, 4}}

vars == <<part, subVars, memVars, patchVars, fileVars, clientVars, askVars, modelVars, scanVars, lspVars,
          chunkVars, vecVars, esVars, recVars, lockVars, queueVars,
          repoVars, authVars, objVars, graphVars, dbVars>>

Init ==
    /\ part \in {"subagent", "memory", "patch", "client", "adapters", "factory", "scan", "lsp",
                 "chunks", "vectors", "es", "records", "lock", "queue",
                 "repos", "auth", "objects", "graph",
                 "pages", "edits", "services"}
    /\ part # "scan" => onDisk = {} /\ fileRows = {} /\ present = {1}
    /\ part # "patch" => patch = <<>> /\ disk = f1 :> <<>> @@ f2 :> NoFile
    /\ part # "client" => ask = [provider |-> "openai", op |-> "chat", history |-> FALSE, indexed |-> TRUE, twins |-> FALSE]
    /\ part # "adapters" => adapter = Ranked
    /\ part # "factory" => modelConfig = [listed |-> {}, valid |-> {}, default |-> <<a1, b1>>]
    /\ part # "chunks" => source = <<>>
    /\ part # "es" => esEngine = "elasticsearch" /\ esUp = TRUE /\ esSupported = TRUE
    /\ part # "records" => recEngine = "opensearch" /\ recSpace = r1 :> Entry(1) @@ r2 :> NoRecord
    /\ part # "objects" => objProvider = "local" /\ objBucket = TRUE
    /\ part # "graph" => sources = [f \in SourceNames |-> [state |-> "absent", is |-> Holding({}, {})]]
    /\ part # "pages" => readFile = <<>>
    /\ part # "edits" => editFile = NoFile
    /\ part # "services" => sqlite = TRUE /\ runCron = TRUE
    /\ SubInit /\ MemInit /\ PatchInit /\ FileInit /\ ClientInit /\ AskInit /\ FactoryInit /\ ScanInit /\ LspInit
    /\ ChunkInit /\ VecInit /\ EsInit /\ RecInit /\ LockInit /\ QueueInit
    /\ RepoInit /\ AuthInit /\ ObjInit /\ GraphInit /\ DbInit
    /\ part # "adapters" => asking.n = 0
Next ==
    /\ UNCHANGED part
    /\ IF part = "subagent" THEN SubNext ELSE UNCHANGED subVars
    /\ IF part = "memory" THEN MemNext ELSE UNCHANGED memVars
    /\ IF part = "patch" THEN PatchNext ELSE UNCHANGED patchVars
    /\ IF part = "client" THEN ClientNext ELSE UNCHANGED clientVars
    /\ IF part = "adapters" THEN AskNext ELSE UNCHANGED askVars
    /\ IF part = "factory" THEN FactoryNext ELSE UNCHANGED modelVars
    /\ IF part = "scan" THEN ScanNext ELSE UNCHANGED scanVars
    /\ IF part = "lsp" THEN LspNext ELSE UNCHANGED lspVars
    /\ IF part = "chunks" THEN ChunkNext ELSE UNCHANGED chunkVars
    /\ IF part = "vectors" THEN VecNext ELSE UNCHANGED vecVars
    /\ IF part = "es" THEN EsNext ELSE UNCHANGED esVars
    /\ IF part = "records" THEN RecNext ELSE UNCHANGED recVars
    /\ IF part = "lock" THEN LockNext ELSE UNCHANGED lockVars
    /\ IF part = "queue" THEN QueueNext ELSE UNCHANGED queueVars
    /\ IF part = "repos" THEN RepoNext ELSE UNCHANGED repoVars
    /\ IF part = "auth" THEN AuthNext ELSE UNCHANGED authVars
    /\ IF part = "objects" THEN ObjNext ELSE UNCHANGED objVars
    /\ IF part = "graph" THEN GraphNext ELSE UNCHANGED graphVars
    /\ CASE part = "pages" -> PageNext [] part = "edits" -> EditNext [] OTHER -> UNCHANGED fileVars
    /\ IF part = "services" THEN DbNext ELSE UNCHANGED dbVars
Spec == Init /\ [][Next]_vars

=============================================================================
