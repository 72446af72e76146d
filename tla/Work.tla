-------------------------------- MODULE Work --------------------------------
(***************************************************************************)
(* What agents, routes and workers use, composed.  The stores: object      *)
(* stores, vector stores and the connection to the search engine, and on   *)
(* them the chunks of code, their vectors, the graph, the repositories and *)
(* the tokens of their users.  The models: requests to chat models, the    *)
(* adapters and the factory of the other models.  The components share no  *)
(* variable: together they are the conjunction of their specifications.    *)
(***************************************************************************)
EXTENDS ModelClient, ModelAdapters, CodeChunks, VectorIndex, CodeGraph, GitRepos,
        StoreConnection, RecordStore, ObjectStore

StoresSpec == ChunkSpec /\ VecSpec /\ GraphSpec /\ RepoSpec /\ AuthSpec /\ EsSpec /\ RecSpec /\ ObjSpec
ModelsSpec == ClientSpec /\ AskSpec /\ FactorySpec

-----------------------------------------------------------------------------
\* Every store keeps what it promises, at once: chunks leave nothing out of a
\* file, vectors and graph are those of what was stored, a row has its files
\* and a user one token, one caller connects, and told means done.
StoresSound ==
    /\ ChunksSound /\ VectorsSound /\ GraphSound /\ ReposSound /\ TokenFound
    /\ EsSound /\ RecordsSound /\ ObjectsSound

\* A request to a chat model is answered once and in order, every vector and
\* score is that of its text, and a model is one that the configuration allows.
ModelsSound == ClientSound /\ AdaptersSound /\ FactorySound
=============================================================================
