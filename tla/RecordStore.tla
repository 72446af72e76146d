---------------------------- MODULE RecordStore ----------------------------
(***************************************************************************)
(* What the operations of ESConnection and OSConnection do to the records  *)
(* of a space, once there is a connection: update_records by an id and by  *)
(* a condition, delete_records, get_record, search and sql.  The engine    *)
(* runs a request by condition on a snapshot and skips, or stops at, the   *)
(* records others change meanwhile; a request may fail before or after it  *)
(* took effect, and some are made again.                                   *)
(***************************************************************************)
EXTENDS Naturals, FiniteSets

CONSTANTS
    RecIds,
    RecCalls,      \* calls, numbered in the order they arrive
    RecAttempts,   \* ATTEMPT_TIME
    NoRecord,
    RecSpaces,     \* what a space may hold at first
    MaxRecFaults   \* bound on requests that fail

VARIABLES
    recEngine,     \* "elasticsearch" or "opensearch"
    recSpace,      \* the records: file path, entries added to a list, version
    recCall,       \* per call: what it asks, where it is, its answer
    recWrote,      \* history: per call, the records each attempt changed
    recFaults

recVars == <<recEngine, recSpace, recCall, recWrote, recFaults>>

\* A condition names file 1, "set" moves what it names to file 2.
Entry(path) == [path |-> path, tags |-> 0, ver |-> 0]
\* A space holds what was stored of the two files, and was not updated before.
ASSUME RecordAssumption ==
    /\ IsFiniteSet(RecIds) /\ RecIds # {}
    /\ RecCalls \subseteq Nat /\ IsFiniteSet(RecCalls) /\ RecAttempts \in Nat \ {0}
    /\ RecSpaces \subseteq [RecIds -> {Entry(1), Entry(2), NoRecord}]
ByQuery == {"set", "add", "delete"}
NoRecCall == [op |-> "none", all |-> FALSE, id |-> CHOOSE i \in RecIds : TRUE, at |-> "new", tries |-> 0,
              seen |-> [i \in RecIds |-> NoRecord], hits |-> {}, told |-> "none", count |-> 0, lost |-> 0,
              skipped |-> FALSE, failed |-> FALSE]

\* A mutant: the value is not looked at.
Matching_Any(c, space) == {i \in RecIds : space[i] # NoRecord}
\* The records a condition names.  A value that is empty is passed over by
\* update and search, an empty list of ids deletes: both mean every record.
Matching(c, space) ==
    {i \in RecIds : space[i] # NoRecord /\ (recCall[c].all \/ space[i].path = 1)}

\* A mutant: an update by condition stops at a conflict, as a deletion does.
Proceeds_Never(op) == FALSE
\* conflicts="proceed": what others changed is skipped.
Proceeds(op) == op \in {"set", "add"}

\* The source of the script: a field is set, an entry is added to a list.
Scripted(c, r) ==
    IF recCall[c].op = "add" THEN [r EXCEPT !.tags = @ + 1, !.ver = @ + 1]
                             ELSE [r EXCEPT !.path = 2, !.ver = @ + 1]

RecInit ==
    /\ recEngine \in {"elasticsearch", "opensearch"}
    /\ recSpace \in RecSpaces
    /\ recCall = [c \in RecCalls |-> NoRecCall]
    /\ recWrote = [c \in RecCalls |-> [n \in 1 .. RecAttempts |-> {}]]
    /\ recFaults = 0
RecTell(c, told) == recCall' = [recCall EXCEPT ![c].at = "done", ![c].told = told]
-----------------------------------------------------------------------------
RecBegin(c) == \E op \in {"set", "add", "delete", "setId", "get", "search", "sql"} :
    /\ recCall[c].at = "new" /\ \A d \in RecCalls : d < c => recCall[d].at # "new"
    /\ \E all \in BOOLEAN, id \in RecIds :
          /\ op \in {"setId", "get"} \/ id = NoRecCall.id
          /\ all => op \in ByQuery \cup {"search"}
          /\ recCall' = [recCall EXCEPT ![c] = [NoRecCall EXCEPT !.op = op, !.all = all, !.id = id, !.at = "ask"]]
    /\ UNCHANGED <<recEngine, recSpace, recWrote, recFaults>>

\* update_by_query and delete_by_query: the engine searches, then writes what
\* has the version it found.
Snapshot(c) ==
    /\ recCall[c].at = "ask" /\ recCall[c].op \in ByQuery
    /\ recCall' = [recCall EXCEPT ![c].at = "apply",
                     ![c].seen = [i \in RecIds |-> IF i \in Matching(c, recSpace) THEN recSpace[i] ELSE NoRecord]]
    /\ UNCHANGED <<recEngine, recSpace, recWrote, recFaults>>
Found(c) == {i \in RecIds : recCall[c].seen[i] # NoRecord}
Unchanged(c) == {i \in Found(c) : recSpace[i] = recCall[c].seen[i]}
Written(c) ==
    [i \in RecIds |-> IF i \notin Unchanged(c) THEN recSpace[i]
                      ELSE IF recCall[c].op = "delete" THEN NoRecord ELSE Scripted(c, recSpace[i])]
Apply(c) ==
    LET conflict == Unchanged(c) # Found(c) IN
    /\ recCall[c].at = "apply"
    /\ recSpace' = Written(c)
    /\ recWrote' = [recWrote EXCEPT ![c][recCall[c].tries + 1] = Unchanged(c)]
    /\ recCall' = [recCall EXCEPT ![c].at = "done", ![c].skipped = conflict,
                     ![c].told = IF conflict /\ ~Proceeds(recCall[c].op) THEN "failed" ELSE "done",
                     ![c].count = IF conflict /\ ~Proceeds(recCall[c].op) THEN 0 ELSE Cardinality(Unchanged(c))]
    /\ UNCHANGED <<recEngine, recFaults>>

\* A single record: OpenSearch gets the new values where it expects "doc", and
\* refuses them.
SetOne(c) ==
    LET i == recCall[c].id IN
    /\ recCall[c].at = "ask" /\ recCall[c].op = "setId" /\ UNCHANGED <<recEngine, recFaults>>
    /\ IF recEngine = "opensearch" \/ recSpace[i] = NoRecord
       THEN RecTell(c, "failed") /\ UNCHANGED <<recSpace, recWrote>>
       ELSE /\ recSpace' = [recSpace EXCEPT ![i] = Scripted(c, @)]
            /\ recWrote' = [recWrote EXCEPT ![c][recCall[c].tries + 1] = {i}]
            /\ RecTell(c, "done")

Look(c) ==
    /\ recCall[c].at = "ask" /\ recCall[c].op \in {"get", "search", "sql"}
    /\ IF recCall[c].op = "get" /\ recSpace[recCall[c].id] = NoRecord
       THEN RecTell(c, "none")
       ELSE recCall' = [recCall EXCEPT ![c].at = "done", ![c].told = "done", ![c].seen = recSpace,
                          ![c].hits = IF recCall[c].op = "get" THEN {recCall[c].id} ELSE Matching(c, recSpace)]
    /\ UNCHANGED <<recEngine, recSpace, recWrote, recFaults>>
-----------------------------------------------------------------------------
\* A mutant: a failed search has no hits.
FailedAs_Quiet(op) == IF op \in {"get", "search"} THEN "done" ELSE IF op = "sql" THEN "none" ELSE "failed"
\* After the last attempt: a search and get_record raise, sql has no result, an
\* update is False, a deletion has deleted 0.
FailedAs(op) == IF op \in {"get", "search"} THEN "raised" ELSE IF op = "sql" THEN "none" ELSE "failed"

\* Elasticsearch is not asked again for a deletion, or for one record.
MadeAgain(c) ==
    /\ recCall[c].tries + 1 < RecAttempts
    /\ recEngine = "elasticsearch" => recCall[c].op \notin {"delete", "setId"}

\* A request fails before it took effect, or its answer is lost after that.
\* _should_retry knows time-outs and broken connections from other errors.
RequestBreaks(c) == \E lost, retryable \in BOOLEAN :
    /\ recCall[c].at \in {"ask", "apply"} /\ recFaults < MaxRecFaults /\ recFaults' = recFaults + 1
    /\ lost => recCall[c].at = "apply" /\ retryable
    /\ IF lost
       THEN /\ recSpace' = Written(c)
            /\ recWrote' = [recWrote EXCEPT ![c][recCall[c].tries + 1] = Unchanged(c)]
       ELSE UNCHANGED <<recSpace, recWrote>>
    /\ LET call == [recCall[c] EXCEPT !.lost = IF lost THEN recCall[c].lost + 1 ELSE recCall[c].lost]
       IN  recCall' = [recCall EXCEPT ![c] =
              IF retryable /\ MadeAgain(c)
              THEN [call EXCEPT !.at = "ask", !.tries = recCall[c].tries + 1]
              ELSE [call EXCEPT !.at = "done", !.told = FailedAs(recCall[c].op), !.failed = TRUE]]
    /\ UNCHANGED recEngine

RecNext == \E c \in RecCalls :
    RecBegin(c) \/ Snapshot(c) \/ Apply(c) \/ SetOne(c) \/ Look(c) \/ RequestBreaks(c)
RecSpec == RecInit /\ [][RecNext]_recVars
-----------------------------------------------------------------------------
Changed(c) == UNION {recWrote[c][n] : n \in 1 .. RecAttempts}

\* An update by condition that is told to have been done wrote, in its last
\* attempt, every record that matched, unless others changed one in between;
\* what one that failed has written, it wrote in attempts whose answer was
\* lost (es_conn.py:282-306).
UpdatesAsTold ==
    \A c \in RecCalls : recCall[c].at = "done" /\ recCall[c].op \in {"set", "add"} =>
        /\ recCall[c].told = "done" /\ ~recCall[c].skipped => recWrote[c][recCall[c].tries + 1] = Found(c)
        /\ recCall[c].told = "failed" /\ Changed(c) # {} => recCall[c].lost > 0

\* An entry is added to a record once by each update, and once more for every
\* answer that was lost: the repeated script cannot tell (es_conn.py:258-304).
AddedOnce ==
    \A i \in RecIds : recSpace[i] # NoRecord =>
        LET adds == {c \in RecCalls : recCall[c].op = "add" /\ i \in Changed(c)}
            again == {c \in adds : recCall[c].lost > 0}
        IN  recSpace[i].tags <= Cardinality(adds) + Cardinality(again) * (RecAttempts - 1)

\* The number a deletion returns was removed by it, and it is all of them
\* unless an answer was lost or it stopped at a record that another changed;
\* then it has deleted some and returns 0 (es_conn.py:350-364).
DeletesCounted ==
    \A c \in RecCalls : recCall[c].at = "done" /\ recCall[c].op = "delete" =>
        /\ recCall[c].count <= Cardinality(Changed(c))
        /\ recCall[c].count < Cardinality(Changed(c)) => recCall[c].lost > 0 \/ recCall[c].skipped

\* What a search or get_record returns was there, all of it and nothing else,
\* at one moment; an error is never taken for an empty result
\* (es_conn.py:384-407, 528-565).
SearchesExact ==
    \A c \in RecCalls : recCall[c].at = "done" /\ recCall[c].op \in {"search", "get"} =>
        /\ recCall[c].told = "done" =>
             \A i \in RecIds : i \in recCall[c].hits <=>
                 /\ recCall[c].seen[i] # NoRecord
                 /\ IF recCall[c].op = "get" THEN i = recCall[c].id
                    ELSE recCall[c].all \/ recCall[c].seen[i].path = 1
        /\ recCall[c].told \in {"done", "none"} => ~recCall[c].failed

RecordsSound == UpdatesAsTold /\ AddedOnce /\ DeletesCounted /\ SearchesExact
=============================================================================
