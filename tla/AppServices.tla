---------------------------- MODULE AppServices ----------------------------
(***************************************************************************)
(* The life of the process: startup_event starts the loops, shutdown_event *)
(* ends them and closes what they use, one await after the other, while    *)
(* workers that no loop owns go on.  They all get their sessions from the  *)
(* one DatabaseFactory, which makes the connection when it is first asked  *)
(* for, examines it now and then, and makes it again under its lock;       *)
(* close_db does not take that lock.                                       *)
(***************************************************************************)
EXTENDS Naturals, FiniteSets

CONSTANTS
    DbUsers,    \* requests and workers that ask for a session
    NoUser,     \* the lock is free
    MaxDbEvents \* bound on calls, outages, elapsed intervals, faults, cancellations

ASSUME NoUserIsNone == NoUser \notin DbUsers

VARIABLES
    appAt,     \* what startup_event or shutdown_event has come to
    appLoops,  \* loops that run
    appClosed, \* the other connections that shutdown_event has closed, or tried to
    sqlite,    \* the database is sqlite: PRAGMAs are executed on a new engine
    runCron,   \* settings.run_cron
    dbUp,      \* the database answers
    dbConn,    \* _connection, 0 for None
    dbMade,    \* connections made so far, which number them
    dbOpen,    \* those whose engine was not disposed of
    dbReady,   \* those with a session_maker
    dbLock,    \* the holder of _connection_lock
    dbClosing, \* the connection that close_db closes, or 0
    dbDue,     \* the last health check is older than the interval
    dbCall,    \* per user: at, and the connection it makes, examines, closes or uses
    dbUsed,    \* events so far
    dbFaulty,  \* history: a connection was not made or closed to the end
    dbRefused  \* history: get_db had no connection to take a session from

appVars == <<appAt, appLoops, appClosed, dbClosing, sqlite, runCron>>
connVars == <<dbConn, dbMade, dbOpen, dbReady>>
holdVars == <<dbLock, dbDue, dbCall, dbFaulty, dbRefused>>
dbVars == <<appVars, dbUp, connVars, holdVars, dbUsed>>

DbIdle == [at |-> "idle", conn |-> 0, lazy |-> FALSE]
DbHolding == {"dispose", "pragma", "probe"}
DbEvent == dbUsed < MaxDbEvents /\ dbUsed' = dbUsed + 1
DbCallIs(c, at, k, lazy) == dbCall' = [dbCall EXCEPT ![c] = [at |-> at, conn |-> k, lazy |-> lazy]]
BusLoops == {"inbound", "outbound", "agent pool"}
Before == {"new", "running", "bus", "files", "lsp"} \* close_db has not begun

DbInit ==
    /\ appAt = "new" /\ appLoops = {} /\ appClosed = {} /\ dbClosing = 0
    /\ sqlite \in BOOLEAN /\ runCron \in BOOLEAN
    /\ dbUp = TRUE /\ dbConn = 0 /\ dbMade = 0 /\ dbOpen = {} /\ dbReady = {}
    /\ dbLock = NoUser /\ dbDue = TRUE /\ dbCall = [c \in DbUsers |-> DbIdle]
    /\ dbUsed = 0 /\ dbFaulty = FALSE /\ dbRefused = FALSE
-----------------------------------------------------------------------------
\* get_connection returns and get_db takes a session at once, or raises.
Leave(c, k, ready) ==
    /\ dbLock' = NoUser
    /\ IF k \in ready THEN DbCallIs(c, "session", k, FALSE) /\ UNCHANGED dbRefused
                      ELSE dbCall' = [dbCall EXCEPT ![c] = DbIdle] /\ dbRefused' = TRUE

\* _create_connection has made k: the first one is examined as well, when the
\* interval has passed.
Made(c, k, lazy, ready) ==
    /\ dbConn' = k
    /\ IF lazy /\ dbDue THEN DbCallIs(c, "probe", k, TRUE) /\ dbLock' = c /\ UNCHANGED <<dbDue, dbRefused>>
                        ELSE dbDue' = (dbDue /\ lazy) /\ Leave(c, k, ready)
\* create_engine: an engine of sqlite is used before the connection is kept.
NewConnection(c, lazy, open, ready) ==
    /\ dbMade' = dbMade + 1 /\ dbOpen' = open \cup {dbMade'} /\ dbReady' = ready \cup {dbMade'}
    /\ IF sqlite THEN /\ dbConn' = 0 /\ DbCallIs(c, "pragma", dbMade', lazy) /\ dbLock' = c
                      /\ UNCHANGED <<dbDue, dbRefused>>
                 ELSE Made(c, dbMade', lazy, dbReady')

GetConnection(c) ==
    /\ appAt \notin {"new", "ended"} /\ dbCall[c] = DbIdle /\ DbEvent
    /\ DbCallIs(c, "lock", 0, FALSE)
    /\ UNCHANGED <<appVars, dbUp, connVars, dbLock, dbDue, dbFaulty, dbRefused>>

InLock(c) ==
    /\ \/ dbConn = 0 /\ NewConnection(c, TRUE, dbOpen, dbReady)
       \/ dbConn # 0 /\ dbDue /\ DbCallIs(c, "probe", dbConn, FALSE) /\ dbLock' = c
          /\ UNCHANGED <<connVars, dbDue, dbRefused>>
       \/ dbConn # 0 /\ ~dbDue /\ Leave(c, dbConn, dbReady) /\ UNCHANGED <<connVars, dbDue>>
    /\ UNCHANGED <<appVars, dbUp, dbUsed, dbFaulty>>
\* A mutant: the lock does not keep a second one out.
EnterLock_Shared(c) == dbCall[c].at = "lock" /\ InLock(c)
EnterLock(c) == dbCall[c].at = "lock" /\ dbLock = NoUser /\ InLock(c)

Pragmas(c) ==
    /\ dbCall[c].at = "pragma"
    /\ \/ dbUp /\ Made(c, dbCall[c].conn, dbCall[c].lazy, dbReady) /\ UNCHANGED dbFaulty
       \/ /\ ~dbUp /\ dbCall' = [dbCall EXCEPT ![c] = DbIdle] /\ dbLock' = NoUser /\ dbFaulty' = TRUE
          /\ UNCHANGED <<dbConn, dbDue, dbRefused>>
    /\ UNCHANGED <<appVars, dbUp, dbUsed, dbMade, dbOpen, dbReady>>

\* The health check: SELECT 1 was answered, and whatever the connection is by
\* now is returned; or it was not, and the connection is closed, for which
\* others are awaited.
Probed(c) ==
    /\ dbCall[c].at = "probe"
    /\ \/ dbUp /\ dbDue' = FALSE /\ Leave(c, dbConn, dbReady) /\ UNCHANGED connVars
       \/ /\ ~dbUp /\ dbConn # 0 /\ DbCallIs(c, "dispose", dbConn, FALSE)
          /\ UNCHANGED <<connVars, dbLock, dbDue, dbRefused>>
       \/ ~dbUp /\ dbConn = 0 /\ NewConnection(c, FALSE, dbOpen, dbReady)
    /\ UNCHANGED <<appVars, dbUp, dbUsed, dbFaulty>>

\* The old engine is disposed of, or that fails, which is logged, and the
\* connection is forgotten.
Disposed_Kept(c) ==
    /\ dbCall[c].at = "dispose"
    /\ DbCallIs(c, "pragma", dbCall[c].conn, FALSE)
    /\ dbOpen' = dbOpen \ {dbCall[c].conn} /\ dbReady' = dbReady \ {dbCall[c].conn}
    /\ UNCHANGED <<appVars, dbUp, dbUsed, dbFaulty, dbConn, dbMade, dbLock, dbDue, dbRefused>>
Disposed(c) ==
    /\ dbCall[c].at = "dispose"
    /\ \/ /\ NewConnection(c, FALSE, dbOpen \ {dbCall[c].conn}, dbReady \ {dbCall[c].conn})
          /\ UNCHANGED <<dbUsed, dbFaulty>>
       \/ DbEvent /\ dbFaulty' = TRUE /\ NewConnection(c, FALSE, dbOpen, dbReady)
    /\ UNCHANGED <<appVars, dbUp>>

SessionEnds(c) ==
    /\ dbCall[c].at = "session" /\ dbCall' = [dbCall EXCEPT ![c] = DbIdle]
    /\ UNCHANGED <<appVars, dbUp, connVars, dbLock, dbDue, dbFaulty, dbRefused, dbUsed>>
\* The task is cancelled where it waits: the lock is released, an engine that
\* was being made stays, and the connection that was being closed is kept.
UserCancelled(c) ==
    /\ dbCall[c].at \in {"lock", "pragma", "probe", "dispose"} /\ DbEvent
    /\ dbCall' = [dbCall EXCEPT ![c] = DbIdle]
    /\ dbLock' = (IF dbLock = c THEN NoUser ELSE dbLock)
    /\ dbFaulty' = (dbFaulty \/ dbCall[c].at = "pragma")
    /\ UNCHANGED <<appVars, dbUp, connVars, dbDue, dbRefused>>

ServerTurns == DbEvent /\ dbUp' = ~dbUp /\ UNCHANGED <<appVars, connVars, holdVars>>
CheckIsDue ==
    /\ DbEvent /\ ~dbDue /\ dbDue' = TRUE
    /\ UNCHANGED <<appVars, dbUp, connVars, dbLock, dbCall, dbFaulty, dbRefused>>
-----------------------------------------------------------------------------
\* startup_event and shutdown_event.  The loops of the bus are cancelled with
\* the gather that runs them and awaited, the cleanup of MCP and cron are only
\* cancelled, the scheduler of the file analysis is awaited.
AppStart ==
    /\ appAt = "new" /\ appAt' = "running"
    /\ appLoops' = BusLoops \cup {"mcp", "files"} \cup (IF runCron THEN {"cron"} ELSE {})
    /\ UNCHANGED <<appClosed, dbClosing, sqlite, runCron, dbUp, connVars, holdVars, dbUsed>>
ShutDown ==
    /\ appAt = "running" /\ appAt' = "bus"
    /\ UNCHANGED <<appLoops, appClosed, dbClosing, sqlite, runCron, dbUp, connVars, holdVars, dbUsed>>
BusStopped ==
    /\ appAt = "bus" /\ appAt' = "files"
    /\ appLoops' = (appLoops \ BusLoops) \ ({"mcp"} \cup (IF runCron THEN {"cron"} ELSE {}))
    /\ UNCHANGED <<appClosed, dbClosing, sqlite, runCron, dbUp, connVars, holdVars, dbUsed>>
FilesStopped ==
    /\ appAt = "files" /\ appAt' = "lsp" /\ appLoops' = appLoops \ {"files"}
    /\ UNCHANGED <<appClosed, dbClosing, sqlite, runCron, dbUp, connVars, holdVars, dbUsed>>

\* close_db: whatever the connection is after the await is forgotten.
CloseDb ==
    /\ appAt = "lsp" /\ appAt' = (IF dbConn = 0 THEN "storage" ELSE "database") /\ dbClosing' = dbConn
    /\ UNCHANGED <<appLoops, appClosed, sqlite, runCron, dbUp, connVars, holdVars, dbUsed>>
DbClosed ==
    /\ appAt = "database" /\ appAt' = "storage" /\ dbClosing' = 0 /\ dbConn' = 0
    /\ dbOpen' = dbOpen \ {dbClosing} /\ dbReady' = dbReady \ {dbClosing}
    /\ UNCHANGED <<appLoops, appClosed, sqlite, runCron, dbUp, dbMade, holdVars, dbUsed>>
\* It raises: the closing of the others is not reached.
DbNotClosed ==
    /\ appAt = "database" /\ DbEvent /\ appAt' = "ended" /\ dbClosing' = 0 /\ dbFaulty' = TRUE
    /\ UNCHANGED <<appLoops, appClosed, sqlite, runCron, dbUp, connVars, dbLock, dbDue, dbCall, dbRefused>>
\* Each of the others in turn; an exception is logged.
CloseOthers ==
    /\ appAt \in {"storage", "vectors", "redis"}
    /\ appAt' = CASE appAt = "storage" -> "vectors" [] appAt = "vectors" -> "redis" [] OTHER -> "ended"
    /\ appClosed' = appClosed \cup {appAt}
    /\ UNCHANGED <<appLoops, dbClosing, sqlite, runCron, dbUp, connVars, holdVars, dbUsed>>

DbStep(c) ==
    \/ GetConnection(c) \/ EnterLock(c) \/ Pragmas(c) \/ Probed(c) \/ Disposed(c)
    \/ SessionEnds(c) \/ UserCancelled(c)
DbNext ==
    \/ \E c \in DbUsers : DbStep(c)
    \/ ServerTurns \/ CheckIsDue
    \/ AppStart \/ ShutDown \/ BusStopped \/ FilesStopped \/ CloseDb \/ DbClosed \/ DbNotClosed \/ CloseOthers
DbSpec == DbInit /\ [][DbNext]_dbVars
-----------------------------------------------------------------------------
\* Whoever awaits something inside get_connection holds its lock, so no two
\* make, examine or close a connection at once (factory.py:94).
DbOneInside == \A c \in DbUsers : dbCall[c].at \in DbHolding <=> dbLock = c

\* What _connection names can give sessions, also while it is replaced, while a
\* task is cancelled in the middle of that, and while close_db waits.
DbConnReady == dbConn # 0 => dbConn \in dbReady

\* Before the shutdown closes the database get_db has a connection whenever
\* get_connection returns: it raises only what the creation of one raises.
DbServed == dbRefused => appAt \notin Before

\* Until then a replacement leaves no engine behind, unless disposing of the
\* old one or the first use of the new one failed or was cancelled: afterwards
\* close_db forgets also a connection that was made while it waited.
DbOneEngine == ~dbFaulty /\ appAt \in Before => \A j, k \in dbOpen : j = k

\* When shutdown_event has ended no loop that startup_event began runs, and the
\* other connections were closed, unless close_db raised (main.py:124-180).
AppStops == appAt = "ended" => appLoops = {} /\ (appClosed = {"storage", "vectors", "redis"} \/ dbFaulty)

AppServicesSound == DbOneInside /\ DbConnReady /\ DbServed /\ DbOneEngine /\ AppStops
=============================================================================
