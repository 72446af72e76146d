---------------------------- MODULE VectorIndex ----------------------------
(***************************************************************************)
(* The vectors of one source file: CodeVectorService over the              *)
(* Elasticsearch connection.  A version of the file is stored by deleting  *)
(* the records of the file and inserting new ones under stable ids, in     *)
(* separate requests, each of which may fail in the ways the connection    *)
(* reports: creation and deletion by a value nobody looks at, insertion by *)
(* a list of failed ids.  FileAnalysis takes a store for one step; here    *)
(* are the steps.                                                          *)
(***************************************************************************)
EXTENDS Naturals, FiniteSets, Sequences

CONSTANTS
    VecCallers,   \* workers and routes that store, delete or search
    Chunks,       \* Chunks[v]: line ranges of the chunks of version v of the file
    Attempts,     \* ATTEMPT_TIME
    MaxVecFaults, \* bound on failing requests
    MaxVecCalls   \* bound on calls

VARIABLES
    vecSpace,   \* the index: absent, made with the mapping, or made by an insert
    vecDocs,    \* the records of the file in it: [id, version]
    vecCall,    \* per caller the call under way
    vecUsed,    \* faults and calls so far
    vecGone,    \* history: a creation of the index has failed
    vecLast     \* history: the call that ended last, if it was alone

vecVars == <<vecSpace, vecDocs, vecCall, vecUsed, vecGone, vecLast>>

Versions == DOMAIN Chunks

\* _build_stable_id: the position and the index of the chunk, not its text.
StableId(v, i) == <<i, Chunks[v][i]>>

Records(v) == {[id |-> StableId(v, i), version |-> v] : i \in DOMAIN Chunks[v]}

\* A bulk request indexes every record it carries under its id.
Indexed(docs, new) == {d \in docs : \A n \in new : n.id # d.id} \cup new

NoVecCall == [at |-> "none", kind |-> "store", version |-> 1, tries |-> 0,
              alone |-> TRUE, missed |-> FALSE]
NothingLast == [kind |-> "none", version |-> 1, missed |-> FALSE]

VecBusy == {c \in VecCallers : vecCall[c].at # "none"}
VecGoto(c, at) == vecCall' = [vecCall EXCEPT ![c].at = at]
\* A call ends; how says whether its caller was told of a failure.
VecReturn(c, how) ==
    /\ vecCall' = [vecCall EXCEPT ![c] = NoVecCall]
    /\ vecLast' = IF vecCall[c].alone /\ how = "done"
                  THEN [kind |-> vecCall[c].kind, version |-> vecCall[c].version,
                        missed |-> vecCall[c].missed]
                  ELSE NothingLast
VecFault == vecUsed.faults < MaxVecFaults /\ vecUsed' = [vecUsed EXCEPT !.faults = @ + 1]

VecInit ==
    /\ vecSpace = "absent" /\ vecDocs = {} /\ vecGone = FALSE
    /\ vecCall = [c \in VecCallers |-> NoVecCall]
    /\ vecUsed = [faults |-> 0, calls |-> 0]
    /\ vecLast = NothingLast
-----------------------------------------------------------------------------
VecBegin(c, kind, v) ==
    /\ vecCall[c].at = "none" /\ vecUsed.calls < MaxVecCalls
    /\ vecUsed' = [vecUsed EXCEPT !.calls = @ + 1]
    /\ vecCall' = [k \in VecCallers |->
           IF k = c THEN [NoVecCall EXCEPT !.at = "embed", !.kind = kind, !.version = v,
                                           !.alone = VecBusy = {}]
           ELSE [vecCall[k] EXCEPT !.alone = FALSE]]
    /\ vecLast' = NothingLast
    /\ UNCHANGED <<vecSpace, vecDocs, vecGone>>

\* _embed_texts.  A file without chunks keeps the records it had; an embedding
\* that fails ends a store with an error and a deletion with 0; one that gives
\* too few vectors is noticed behind the deletion only.
Embed(c) ==
    /\ vecCall[c].at = "embed"
    /\ \/ /\ vecCall[c].kind = "store" /\ Chunks[vecCall[c].version] = <<>>
          /\ VecReturn(c, "kept") /\ UNCHANGED vecUsed
       \/ /\ vecCall[c].kind = "store" => Chunks[vecCall[c].version] # <<>>
          /\ VecGoto(c, IF vecCall[c].kind = "store" THEN "create" ELSE "exists")
          /\ UNCHANGED <<vecUsed, vecLast>>
       \/ VecFault /\ VecReturn(c, "failed")
       \/ vecCall[c].kind = "store" /\ VecFault
          /\ vecCall' = [vecCall EXCEPT ![c].at = "create", ![c].tries = Attempts]
          /\ UNCHANGED vecLast
    /\ UNCHANGED <<vecSpace, vecDocs, vecGone>>

\* create_space: what exists is left as it is; a failure is a FALSE that the
\* caller does not look at.
CreateSpace(c) ==
    /\ vecCall[c].at = "create"
    /\ \/ /\ vecSpace' = IF vecSpace = "absent" THEN "mapped" ELSE vecSpace
          /\ UNCHANGED <<vecUsed, vecGone>>
       \/ VecFault /\ vecGone' = TRUE /\ UNCHANGED vecSpace
    /\ VecGoto(c, "delete") /\ UNCHANGED <<vecDocs, vecLast>>

\* space_exists before a deletion; a failure counts as no.
SpaceExists(c) ==
    /\ vecCall[c].at = "exists"
    /\ \/ vecSpace # "absent" /\ VecGoto(c, "delete") /\ UNCHANGED <<vecUsed, vecLast>>
       \/ vecSpace = "absent" /\ VecReturn(c, "done") /\ UNCHANGED vecUsed
       \/ VecFault /\ VecReturn(c, "failed")
    /\ UNCHANGED <<vecSpace, vecDocs, vecGone>>

\* delete_records of the file: not retried, and a failure is a count of 0.
\* With too few vectors, building the records raises behind it.
DeleteRecords(c) ==
    /\ vecCall[c].at = "delete"
    /\ \E works \in BOOLEAN :
        /\ IF works THEN vecDocs' = {} /\ UNCHANGED vecUsed
                    ELSE VecFault /\ UNCHANGED vecDocs
        /\ IF vecCall[c].kind = "delete" THEN VecReturn(c, IF works THEN "done" ELSE "failed")
           ELSE IF vecCall[c].tries = Attempts THEN VecReturn(c, "raised")
           ELSE /\ vecCall' = [vecCall EXCEPT ![c].at = "insert", ![c].missed = ~works]
                /\ UNCHANGED vecLast
    /\ UNCHANGED <<vecSpace, vecGone>>

\* One attempt of the bulk request.  It makes the index if that is missing,
\* and may be refused in part, get lost, or be carried out although it timed
\* out; what looks temporary is tried again.
BulkApplies(new) ==
    /\ vecDocs' = Indexed(vecDocs, new)
    /\ vecSpace' = IF vecSpace = "absent" THEN "unmapped" ELSE vecSpace
\* A mutant: the list of failed ids is not looked at.
InsertRecords_Ignores(c) ==
    LET new == Records(vecCall[c].version) IN
    /\ vecCall[c].at = "insert"
    /\ \/ BulkApplies(new) /\ UNCHANGED vecUsed
       \/ VecFault /\ \E part \in SUBSET new \ {new} : BulkApplies(part)
    /\ VecReturn(c, "done")
    /\ UNCHANGED vecGone
InsertRecords(c) ==
    LET new == Records(vecCall[c].version) IN
    /\ vecCall[c].at = "insert"
    /\ \/ BulkApplies(new) /\ VecReturn(c, "done") /\ UNCHANGED vecUsed
       \/ /\ VecFault
          /\ \E part \in SUBSET new \ {new} : BulkApplies(part)
          /\ VecReturn(c, "raised")
       \/ /\ VecFault
          /\ BulkApplies(new) \/ UNCHANGED <<vecDocs, vecSpace>>
          /\ \/ VecReturn(c, "raised")
             \/ /\ vecCall[c].tries < Attempts - 1
                /\ vecCall' = [vecCall EXCEPT ![c].tries = @ + 1]
                /\ UNCHANGED vecLast
    /\ UNCHANGED vecGone

VecStep(c) == Embed(c) \/ CreateSpace(c) \/ SpaceExists(c) \/ DeleteRecords(c) \/ InsertRecords(c)
VecNext ==
    \E c \in VecCallers :
        \/ \E v \in Versions : VecBegin(c, "store", v)
        \/ VecBegin(c, "delete", 1)
        \/ VecStep(c)

VecSpec == VecInit /\ [][VecNext]_vecVars
-----------------------------------------------------------------------------
\* Records of a file carry distinct ids, of chunks that some version has.
VecTypeOK ==
    /\ vecDocs \subseteq UNION {Records(v) : v \in Versions}
    /\ \A d, e \in vecDocs : d.id = e.id => d = e
    /\ vecSpace = "absent" => vecDocs = {}

\* After a store that reported success and had the file to itself, every chunk
\* of the version is found with its own text, also when the request was made
\* three times.  Records of another version are beside them only if the
\* deletion failed, which nobody is told, and only under ids that the new
\* version has not: chunks behind its end (code_vector.py:42-75).
VecStored ==
    vecLast.kind = "store" =>
        /\ Records(vecLast.version) \subseteq vecDocs
        /\ \A d \in vecDocs \ Records(vecLast.version) :
              /\ vecLast.missed
              /\ \A i \in DOMAIN Chunks[vecLast.version] : d.id # StableId(vecLast.version, i)

\* A deletion that found the index and was not refused leaves nothing behind.
VecDeleted == vecLast.kind = "delete" => vecDocs = {}

\* The index can be searched by vector: it has the mapping, unless a creation
\* failed, which the insert behind it hides for good (code_vector.py:41).
VecSearchable == vecSpace = "unmapped" => vecGone

VectorsSound == VecTypeOK /\ VecStored /\ VecDeleted /\ VecSearchable
=============================================================================
