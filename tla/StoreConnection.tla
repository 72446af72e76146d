-------------------------- MODULE StoreConnection --------------------------
(***************************************************************************)
(* The shared client of a vector store or an object store: every operation *)
(* of ESConnection, OSConnection and the storages first makes sure that     *)
(* there is one and, now and then, that it answers, and replaces it under a *)
(* lock while other operations use it.  OSS is as S3 here, and Azure as     *)
(* MinIO, whose client is dropped without an await.                         *)
(***************************************************************************)
EXTENDS Naturals, FiniteSets

CONSTANTS
    EsCallers,   \* coroutines that use the store
    EsClients,   \* client objects, numbered in the order they are made
    EsAttempts,  \* ATTEMPT_TIME
    NoClient,    \* None
    MaxEsEvents  \* bound on outages, elapsed intervals and operations

\* None is neither a client nor a coroutine.
ASSUME ClientAssumption == EsClients \subseteq Nat /\ NoClient \notin EsClients \cup EsCallers

VARIABLES
    esEngine,   \* which of the connections
    esUp,       \* the cluster answers
    esSupported, \* its version is one the connection accepts
    esClient,   \* self.es
    esOpen,     \* clients that were not closed
    esLock,     \* the holder of _connection_lock
    esDue,      \* the last health check is older than the interval
    esCall,     \* per caller: at, the client it holds, attempts made
    esUsed,     \* events so far
    esTold,     \* history: a call was told that there is no connection
    esReplaced  \* history: clients that were closed by a reconnection

esVars == <<esEngine, esUp, esSupported, esClient, esOpen, esLock, esDue, esCall, esUsed,
            esTold, esReplaced>>

NoEsCall == [at |-> "none", client |-> NoClient, tries |-> 0, back |-> "health"]
EsGoto(c, at) == esCall' = [esCall EXCEPT ![c].at = at]
EsEvent == esUsed < MaxEsEvents /\ esUsed' = esUsed + 1
Unmade == EsClients \ (esOpen \cup esReplaced)
KeepCluster == UNCHANGED <<esEngine, esUp, esSupported>>
KeepClient == UNCHANGED <<esClient, esOpen, esReplaced>>

\* ping().  OSConnection awaits what a client that is not asynchronous
\* returns, which raises whatever it is: it never has a connection.
EsAnswers(client) == esUp /\ client \in esOpen
OsAnswers(client) == FALSE
\* A storage asks in a thread; a client of S3 that was closed opens again.
ObjectStores == {"minio", "s3"}
S3Answers(client) == esUp /\ client # NoClient
Answers(client) == CASE esEngine = "elasticsearch" -> EsAnswers(client)
                     [] esEngine = "opensearch" -> OsAnswers(client)
                     [] OTHER -> S3Answers(client)

EsInit ==
    /\ esEngine \in {"elasticsearch", "opensearch"} \cup ObjectStores
    /\ esUp \in BOOLEAN /\ esSupported \in (IF esEngine \in ObjectStores THEN {TRUE} ELSE BOOLEAN)
    /\ esClient = NoClient /\ esOpen = {} /\ esLock = NoClient /\ esDue = TRUE
    /\ esCall = [c \in EsCallers |-> NoEsCall]
    /\ esUsed = 0 /\ esTold = FALSE /\ esReplaced = {}
-----------------------------------------------------------------------------
\* _ensure_connect, begun by any operation.
EnsureConnect(c) ==
    /\ esCall[c].at = "none" /\ EsEvent
    /\ EsGoto(c, IF esClient = NoClient THEN "lock" ELSE "health")
    /\ KeepCluster /\ KeepClient /\ UNCHANGED <<esLock, esDue, esTold>>

\* A mutant: the lock does not keep a second one out.
TakeLock_Shared(c) ==
    /\ esCall[c].at \in {"lock", "relock"}
    /\ IF esCall[c].at = "lock" /\ esClient # NoClient
       THEN EsGoto(c, "health") /\ UNCHANGED esLock
       ELSE esCall' = [esCall EXCEPT ![c].at = "close"] /\ esLock' = c
    /\ KeepCluster /\ KeepClient /\ UNCHANGED <<esDue, esUsed, esTold>>
\* The lock is got; without a client a first look is repeated under it, and a
\* reconnection goes ahead without one.
TakeLock(c) ==
    /\ esCall[c].at \in {"lock", "relock"} /\ esLock = NoClient
    /\ IF esCall[c].at = "lock" /\ esClient # NoClient
       THEN EsGoto(c, "health") /\ UNCHANGED esLock
       ELSE esCall' = [esCall EXCEPT ![c].at = "close"] /\ esLock' = c
    /\ KeepCluster /\ KeepClient /\ UNCHANGED <<esDue, esUsed, esTold>>

\* _connect closes the client there is, whoever uses it, and then forgets it:
\* others run meanwhile, except with MinIO and OpenSearch.
CloseOld(c) ==
    /\ esCall[c].at = "close"
    /\ esOpen' = esOpen \ {esClient}
    /\ esReplaced' = esReplaced \cup ({esClient} \ {NoClient})
    /\ IF esClient = NoClient \/ esEngine \in {"minio", "opensearch"}
       THEN esClient' = NoClient /\ esCall' = [esCall EXCEPT ![c].at = "make", ![c].tries = 0]
       ELSE EsGoto(c, "forget") /\ UNCHANGED esClient
    /\ KeepCluster /\ UNCHANGED <<esLock, esDue, esUsed, esTold>>
Forget(c) ==
    /\ esCall[c].at = "forget"
    /\ esClient' = NoClient /\ esCall' = [esCall EXCEPT ![c].at = "make", ![c].tries = 0]
    /\ KeepCluster /\ UNCHANGED <<esLock, esDue, esUsed, esTold, esOpen, esReplaced>>

\* An attempt: self.es is set before the client has answered, and the client
\* of the attempt before is dropped without being closed.
MakeClient(c) ==
    /\ esCall[c].at = "make"
    /\ Unmade # {}
    /\ esClient' = CHOOSE k \in Unmade : \A j \in Unmade : k <= j
    /\ esOpen' = esOpen \cup {esClient'}
    /\ EsGoto(c, "try")
    /\ KeepCluster /\ UNCHANGED <<esLock, esDue, esUsed, esTold, esReplaced>>

\* The lock is released, by a connection that works or by an exception: the
\* first of a health check that got "no" for an answer is caught, and the
\* connection made again.
Connected(c) ==
    /\ esCall' = [esCall EXCEPT ![c].at = IF @ = "check" THEN esCall[c].back ELSE @]
    /\ esLock' = NoClient
ConnectRaises(c) ==
    /\ esCall' = [esCall EXCEPT ![c] =
           IF esCall[c].back = "served once" THEN [esCall[c] EXCEPT !.at = "relock", !.back = "served"] ELSE NoEsCall]
    /\ esLock' = NoClient /\ esTold' = (esTold \/ esCall[c].back # "served once")
AskClient(c) ==
    /\ esCall[c].at = "try"
    /\ \/ Answers(esClient) /\ EsGoto(c, "check") /\ UNCHANGED <<esLock, esTold>>
       \/ /\ ~Answers(esClient) /\ esCall[c].tries + 1 < EsAttempts
          /\ esCall' = [esCall EXCEPT ![c].at = "make", ![c].tries = @ + 1]
          /\ UNCHANGED <<esLock, esTold>>
       \/ ~Answers(esClient) /\ esCall[c].tries + 1 >= EsAttempts /\ ConnectRaises(c)
    /\ KeepCluster /\ KeepClient /\ UNCHANGED <<esDue, esUsed>>

\* The version is looked at once, after the client was set.
CheckVersion(c) ==
    /\ esCall[c].at = "check"
    /\ IF esSupported
       THEN /\ Connected(c)
            /\ esDue' = (esDue /\ esCall[c].back = "health")
            /\ UNCHANGED esTold
       ELSE ConnectRaises(c) /\ UNCHANGED esDue
    /\ KeepCluster /\ KeepClient /\ UNCHANGED esUsed

\* The health check, when the interval has passed: an answer, a "no" or an
\* exception, as of the client that is there when ping is called.
CheckHealth(c) ==
    /\ esCall[c].at = "health"
    /\ esCall' = [esCall EXCEPT ![c].at = IF esDue THEN "ping" ELSE "operate", ![c].client = esClient]
    /\ KeepCluster /\ KeepClient /\ UNCHANGED <<esLock, esDue, esUsed, esTold>>
Ping(c) ==
    /\ esCall[c].at = "ping"
    /\ \/ /\ Answers(esCall[c].client)
          /\ EsGoto(c, "operate") /\ esDue' = FALSE
       \/ /\ ~Answers(esCall[c].client)
          /\ \E back \in (IF esEngine \in ObjectStores THEN {} ELSE {"served"})
                         \cup (IF esEngine \in ObjectStores \/ (esEngine = "elasticsearch" /\ esCall[c].client # NoClient)
                               THEN {"served once"} ELSE {}) :
                esCall' = [esCall EXCEPT ![c].at = "relock", ![c].back = back]
          /\ UNCHANGED esDue
    /\ KeepCluster /\ KeepClient /\ UNCHANGED <<esLock, esUsed, esTold>>

\* The operation takes the client that is there now, which may be none.
Operate(c) ==
    /\ esCall[c].at \in {"operate", "served", "served once"}
    /\ esCall' = [esCall EXCEPT ![c] = IF esClient = NoClient THEN NoEsCall
                                       ELSE [NoEsCall EXCEPT !.at = "await", !.client = esClient]]
    /\ KeepCluster /\ KeepClient /\ UNCHANGED <<esLock, esDue, esUsed, esTold>>
Answered(c) ==
    /\ esCall[c].at = "await"
    /\ esCall' = [esCall EXCEPT ![c] = NoEsCall]
    /\ KeepCluster /\ KeepClient /\ UNCHANGED <<esLock, esDue, esUsed, esTold>>

\* The cluster comes and goes; the interval of the health check passes.
ClusterTurns ==
    /\ EsEvent /\ esUp' = ~esUp
    /\ KeepClient /\ UNCHANGED <<esEngine, esSupported, esLock, esDue, esCall, esTold>>
IntervalPasses ==
    /\ EsEvent /\ esDue' = TRUE
    /\ KeepCluster /\ KeepClient /\ UNCHANGED <<esLock, esCall, esTold>>

EsStep(c) ==
    \/ TakeLock(c) \/ CloseOld(c) \/ Forget(c) \/ MakeClient(c) \/ AskClient(c) \/ CheckVersion(c)
    \/ CheckHealth(c) \/ Ping(c) \/ Operate(c) \/ Answered(c)
EsNext == (\E c \in EsCallers : EnsureConnect(c) \/ EsStep(c)) \/ ClusterTurns \/ IntervalPasses

EsSpec == EsInit /\ [][EsNext]_esVars
-----------------------------------------------------------------------------
Connecting == {c \in EsCallers : esCall[c].at \in {"close", "forget", "make", "try", "check"}}

\* One connection is made at a time, by the holder of the lock, and without
\* one under way there is a client as soon as there was one: an operation
\* finds none only while another replaces it (es_conn.py:843-872).
EsOneConnects ==
    /\ \A c \in EsCallers : c \in Connecting <=> esLock = c
    /\ esClient = NoClient /\ (esOpen \cup esReplaced) # {} => Connecting # {}

\* A client that is closed under an operation is closed by a reconnection, and
\* the ones left open, besides the one in use, are those of failed attempts:
\* at most EsAttempts - 1 for every connection (es_conn.py:874-905).
EsClientsAccounted ==
    /\ esReplaced \cap esOpen = {}
    /\ esClient # NoClient => esClient \in esOpen \/ \E c \in EsCallers : esCall[c].at = "forget"
    /\ \A c \in EsCallers : esCall[c].at = "await" =>
          esCall[c].client \in esOpen \cup esReplaced

\* An operation runs on a cluster that is too old only after a call was told
\* that there is no connection, or while one is made: the client stays when
\* its version is refused, or was not asked for because it did not answer,
\* and only a new client is asked again.
EsVersionKnown ==
    ~esSupported /\ (\E c \in EsCallers : esCall[c].at = "await" /\ Answers(esCall[c].client))
        => esTold \/ Connecting # {}

EsSound == EsOneConnects /\ EsClientsAccounted /\ EsVersionKnown
=============================================================================
