----------------------------- MODULE CodeGraph -----------------------------
(***************************************************************************)
(* CodeGraphGenerator and Neo4jService: the graph of a repository's files, *)
(* what they contain and which files they depend on.  A generation runs in *)
(* the event loop without a pause, so no other operation on the graph runs *)
(* meanwhile; but the files change under it, and the database, or the      *)
(* process, may fail between any two files.  Folder nodes, which only lead *)
(* to their files, and the methods of classes are left out.                *)
(***************************************************************************)
EXTENDS Naturals

CONSTANTS
    SourceNames,       \* the files of the repository
    Contents,          \* what a file may hold: [imports, parts], see Parseable
    MaxGenerations, MaxGraphEdits  \* bounds

VARIABLES
    sources,      \* per file: "absent", "broken" or what can be parsed
    graphFile,    \* File nodes: 0 absent, 1 only referred to, else updated_at
    graphPart,    \* class and function nodes of a file, in the same way
    graphHas,     \* File -CONTAINS-> Class or Function
    graphDeps,    \* File -DEPENDS_ON-> File
    generation,   \* the generation that runs, or the last one
    graphBefore,  \* history: what the graph showed when it began
    graphEdits    \* edits so far

graphVars == <<sources, graphFile, graphPart, graphHas, graphDeps, generation, graphBefore, graphEdits>>

Parts == {"class", "function"}
\* What a file may hold: imported files, whose function it calls, and parts.
Parseable == [imports : SUBSET SourceNames, parts : SUBSET Parts]
Text == {[state |-> "text", is |-> v] : v \in Contents \cap Parseable}
        \cup {[state |-> s, is |-> [imports |-> {}, parts |-> {}]] : s \in {"absent", "broken"}}

\* query_file_summary and the two queries of dependencies.
Summary(f) == {p \in Parts : graphFile[f] # 0 /\ <<f, p>> \in graphHas}
Dependents(f) == {g \in SourceNames \ {f} : <<g, f>> \in graphDeps}
Shown == {f \in SourceNames : graphFile[f] # 0} \cup graphHas

GraphInit ==
    /\ sources \in [SourceNames -> Text]
    /\ graphFile = [f \in SourceNames |-> 0] /\ graphPart = [k \in SourceNames \X Parts |-> 0]
    /\ graphHas = {} /\ graphDeps = {} /\ graphBefore = {} /\ graphEdits = 0
    /\ generation = [at |-> "idle", number |-> 1, seen |-> [f \in SourceNames |-> "unseen"], saved |-> {}, exact |-> FALSE]
-----------------------------------------------------------------------------
\* A mutant: what is out of date goes first.
Cleared_First == [f \in SourceNames |-> IF graphFile[f] > 1 THEN 0 ELSE graphFile[f]]
\* A generation begins with the Project node: nothing is removed yet.
Cleared == graphFile
BeginGeneration ==
    /\ generation.at = "idle" /\ generation.number < MaxGenerations + 1
    /\ generation' = [at |-> "reading", number |-> generation.number + 1, saved |-> {}, exact |-> TRUE,
                      seen |-> [f \in SourceNames |-> "unseen"]]
    /\ graphBefore' = Shown /\ graphFile' = Cleared
    /\ UNCHANGED <<sources, graphPart, graphHas, graphDeps, graphEdits>>

\* analyze_file: nothing comes of a file that cannot be parsed.
Analyse(f) ==
    /\ generation.at = "reading" /\ generation.seen[f] = "unseen"
    /\ generation' = [generation EXCEPT !.seen[f] = sources[f].state,
                                        !.at = IF \E g \in SourceNames \ {f} : generation.seen[g] = "unseen"
                                                 THEN "reading" ELSE "saving"]
    /\ UNCHANGED <<sources, graphFile, graphPart, graphHas, graphDeps, graphBefore, graphEdits>>

\* A mutant: updated_at is set when a node is created.
Stamped_OnCreate(old) == IF old = 0 THEN generation.number ELSE old
Stamped(old) == generation.number

\* save_file_node: the node of the file, nodes for what it imports if there are
\* none, edges to them.
FilesAfter(f, v) ==
    [g \in SourceNames |-> IF g = f THEN Stamped(graphFile[g])
                           ELSE IF g \in v.imports /\ graphFile[g] = 0 THEN 1 ELSE graphFile[g]]
\* save_class_node, save_function_node: its parts.
Saves(f, v, part) == part[1] = f /\ part[2] \in v.parts
\* _save_function_calls: a function that is called is refreshed, or made.
Calls(v, part) == "function" \in v.parts /\ part[2] = "function" /\ part[1] \in v.imports
\* A file is saved with all of these.  Edges are only added.
SaveFile(f) ==
    LET v == sources[f].is IN
    /\ generation.at = "saving" /\ generation.seen[f] = "text" /\ f \notin generation.saved
    /\ generation' = [generation EXCEPT !.saved = @ \cup {f}]
    /\ graphFile' = FilesAfter(f, v)
    /\ graphDeps' = graphDeps \cup ({f} \X v.imports)
    /\ graphHas' = graphHas \cup ({f} \X v.parts)
    /\ graphPart' = [k \in SourceNames \X Parts |->
                       IF Saves(f, v, k) \/ Calls(v, k) THEN Stamped(graphPart[k]) ELSE graphPart[k]]
    /\ UNCHANGED <<sources, graphBefore, graphEdits>>

\* delete_stale_nodes: what this generation has not updated.  Nodes that are
\* only referred to have no updated_at.
Stale(stamp) == stamp > 1 /\ stamp < generation.number
EndGeneration ==
    /\ generation.at = "saving"
    /\ \A f \in SourceNames : generation.seen[f] = "text" => f \in generation.saved
    /\ graphFile' = [f \in SourceNames |-> IF Stale(graphFile[f]) THEN 0 ELSE graphFile[f]]
    /\ graphPart' = [k \in SourceNames \X Parts |-> IF Stale(graphPart[k]) THEN 0 ELSE graphPart[k]]
    /\ graphHas' = {k \in graphHas : graphFile'[k[1]] # 0 /\ graphPart'[k] # 0}
    /\ graphDeps' = {d \in graphDeps : graphFile'[d[1]] # 0 /\ graphFile'[d[2]] # 0}
    /\ generation' = [generation EXCEPT !.at = "idle"]
    /\ UNCHANGED <<sources, graphBefore, graphEdits>>

\* A statement fails, or the process dies.
GenerationFails ==
    /\ generation.at # "idle"
    /\ generation' = [generation EXCEPT !.at = "idle", !.exact = FALSE]
    /\ UNCHANGED <<sources, graphFile, graphPart, graphHas, graphDeps, graphBefore, graphEdits>>
-----------------------------------------------------------------------------
Edited == graphEdits < MaxGraphEdits /\ graphEdits' = graphEdits + 1
EditSource(f) ==
    /\ Edited /\ \E text \in Text \ {sources[f]} : sources' = [sources EXCEPT ![f] = text]
    /\ generation' = [generation EXCEPT !.exact = FALSE]
    /\ UNCHANGED <<graphFile, graphPart, graphHas, graphDeps, graphBefore>>

Contained(f) == {k \in graphHas : k[1] = f}
\* delete_file_nodes: matches the file along with what it contains, so a file
\* that contains nothing stays.
DeleteFile(f) ==
    /\ Edited /\ generation.at = "idle" /\ Contained(f) # {}
    /\ graphFile' = [graphFile EXCEPT ![f] = 0]
    /\ graphPart' = [k \in SourceNames \X Parts |-> IF k \in Contained(f) THEN 0 ELSE graphPart[k]]
    /\ graphHas' = graphHas \ Contained(f)
    /\ graphDeps' = {d \in graphDeps : f \notin {d[1], d[2]}}
    /\ generation' = [generation EXCEPT !.exact = FALSE]
    /\ UNCHANGED <<sources, graphBefore>>
DeleteRepo ==
    /\ Edited /\ generation.at = "idle" /\ Shown # {}
    /\ graphFile' = [f \in SourceNames |-> 0] /\ graphPart' = [k \in SourceNames \X Parts |-> 0]
    /\ graphHas' = {} /\ graphDeps' = {}
    /\ generation' = [generation EXCEPT !.exact = FALSE]
    /\ UNCHANGED <<sources, graphBefore>>

GraphNext ==
    \/ BeginGeneration \/ EndGeneration \/ GenerationFails \/ DeleteRepo
    \/ \E f \in SourceNames : Analyse(f) \/ SaveFile(f) \/ EditSource(f) \/ DeleteFile(f)
GraphSpec == GraphInit /\ [][GraphNext]_graphVars
-----------------------------------------------------------------------------
\* After a generation that nothing disturbed, whatever the graph was before,
\* the files that can be parsed are in it with all their parts and imports of
\* each other; nothing else is, but files that are imported, parts that are
\* called, and edges of earlier imports (graph_creator.py:33-58).
GraphCurrent ==
    generation.at = "idle" /\ generation.exact =>
        \A f \in SourceNames :
            LET v == sources[f].is
                text == sources[f].state = "text"
                called == \E g \in SourceNames : f \in sources[g].is.imports /\ "function" \in sources[g].is.parts
            IN  /\ text => graphFile[f] = generation.number /\ v.parts \subseteq Summary(f)
                /\ ~text => graphFile[f] \in {0, 1} /\ Summary(f) = {}
                /\ Summary(f) \subseteq v.parts \cup (IF called THEN {"function"} ELSE {})
                /\ text => {g \in SourceNames : f \in sources[g].is.imports /\ g # f} \subseteq Dependents(f)

\* Until it ends, a generation takes nothing from what the graph showed: one
\* that fails leaves at least the graph it found (graph_creator.py:33-58).
NothingLostByFailure == generation.at # "idle" => graphBefore \subseteq Shown

\* Both promises of the graph, for the runs.
GraphSound == GraphCurrent /\ NothingLostByFailure
=============================================================================
