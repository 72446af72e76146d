------------------------------ MODULE McpPool ------------------------------
(***************************************************************************)
(* The pool of MCP connections (agents/tools/mcp/manager.py) for one       *)
(* connection key.  Agents fetch a connection once and keep its session in *)
(* their tools; a background task closes connections that nobody fetched   *)
(* for a while.  _lock is never held over a suspension, so what it guards  *)
(* is one action; the lock of the key is held while a connection is made,  *)
(* and asyncio serves its waiters first in, first out.                     *)
(*                                                                         *)
(* Times are ages that stop at Expired, so that time may pass for ever.    *)
(***************************************************************************)
EXTENDS Integers, Sequences, SequencesExt, FiniteSets

CONSTANTS
    McpAgents,    \* pooled agents that use the server
    Conns,        \* names for connections; a closed one that nobody holds is free
    NoConn,
    NoTools,      \* of an agent that is registered without the server's tools
    IdleTimeout

ASSUME McpAssumption == IdleTimeout \in Nat /\ {NoConn, NoTools} \cap Conns = {}

VARIABLES
    mcpEntry,     \* _sessions[key]: the connection
    mcpAge,       \* time since its last_used
    mcpLine,      \* of each connection: none, open, closing, closed
    mcpQueue,     \* the lock of the key: its holder, and who waits behind
    mcpCall,      \* get_or_connect of each agent
    mcpTools,     \* the session in the tools of each agent, and since when
    mcpSlow       \* history: connections that somebody had to wait for

mcpVars == <<mcpEntry, mcpAge, mcpLine, mcpQueue, mcpCall, mcpTools, mcpSlow>>

-----------------------------------------------------------------------------
Expired == IdleTimeout + 1
Aged(n) == IF n < Expired THEN n + 1 ELSE n
NoFetch == [pc |-> "none", age |-> 0]
Unregistered == [conn |-> NoConn, age |-> 0]

FreeConns == {c \in Conns : mcpLine[c] \in {"none", "closed"} /\ \A a \in McpAgents : mcpTools[a].conn # c}
Given(a, c) == mcpTools' = [mcpTools EXCEPT ![a] = [conn |-> c, age |-> 0]]
Fetching(a, pc) == mcpCall' = [mcpCall EXCEPT ![a].pc = pc]
Fetched(a) == mcpCall' = [mcpCall EXCEPT ![a] = NoFetch]
Waited(a, c) == mcpSlow' = IF mcpCall[a].age > 0 THEN mcpSlow \cup {c} ELSE mcpSlow

McpInit ==
    /\ mcpEntry = NoConn /\ mcpAge = 0
    /\ mcpLine = [c \in Conns |-> "none"]
    /\ mcpQueue = <<>>
    /\ mcpCall = [a \in McpAgents |-> NoFetch]
    /\ mcpTools = [a \in McpAgents |-> Unregistered]
    /\ mcpSlow = {}

-----------------------------------------------------------------------------
\* Mutant of GetOrConnect: the use of a cached connection is not noted.
GetOrConnect_NoTouch(a) ==
    /\ mcpTools[a] = Unregistered /\ mcpCall[a] = NoFetch
    /\ IF mcpEntry # NoConn
       THEN Given(a, mcpEntry) /\ UNCHANGED <<mcpAge, mcpQueue, mcpCall>>
       ELSE /\ mcpQueue' = Append(mcpQueue, a)
            /\ Fetching(a, IF mcpQueue = <<>> THEN "connect" ELSE "lock")
            /\ UNCHANGED <<mcpAge, mcpTools>>
    /\ UNCHANGED <<mcpEntry, mcpLine, mcpSlow>>

\* The first look into the table, and the lock of the key; the second look is
\* immediate if nobody holds it.
GetOrConnect(a) ==
    /\ mcpTools[a] = Unregistered /\ mcpCall[a] = NoFetch
    /\ IF mcpEntry # NoConn
       THEN mcpAge' = 0 /\ Given(a, mcpEntry) /\ UNCHANGED <<mcpQueue, mcpCall>>
       ELSE /\ mcpQueue' = Append(mcpQueue, a)
            /\ Fetching(a, IF mcpQueue = <<>> THEN "connect" ELSE "lock")
            /\ UNCHANGED <<mcpAge, mcpTools>>
    /\ UNCHANGED <<mcpEntry, mcpLine, mcpSlow>>

\* Mutant of LookAgain: the table is not looked up again.
LookAgain_Skips(a) ==
    /\ mcpCall[a].pc = "lock" /\ Head(mcpQueue) = a
    /\ Fetching(a, "connect")
    /\ UNCHANGED <<mcpEntry, mcpLine, mcpAge, mcpQueue, mcpTools, mcpSlow>>

\* The second look, after a wait; last_used becomes the time the wait began.
LookAgain(a) ==
    /\ mcpCall[a].pc = "lock" /\ Head(mcpQueue) = a
    /\ IF mcpEntry # NoConn
       THEN /\ mcpAge' = mcpCall[a].age
            /\ Given(a, mcpEntry) /\ Waited(a, mcpEntry)
            /\ Fetched(a) /\ mcpQueue' = Tail(mcpQueue)
       ELSE Fetching(a, "connect") /\ UNCHANGED <<mcpAge, mcpQueue, mcpTools, mcpSlow>>
    /\ UNCHANGED <<mcpEntry, mcpLine>>

\* _new_connection returned.
Connected(a) ==
    /\ mcpCall[a].pc = "connect"
    /\ \E c \in FreeConns :
        /\ mcpLine' = [mcpLine EXCEPT ![c] = "open"]
        /\ mcpEntry' = c
        /\ mcpAge' = mcpCall[a].age
        /\ mcpSlow' = IF mcpCall[a].age > 0 THEN mcpSlow \cup {c} ELSE mcpSlow \ {c}
        /\ Given(a, c)
    /\ Fetched(a) /\ mcpQueue' = Tail(mcpQueue)

\* Mutant of ConnectFails: the lock is not given back.
ConnectFails_Locked(a) ==
    /\ mcpCall[a].pc = "connect"
    /\ Given(a, NoTools) /\ Fetched(a)
    /\ UNCHANGED <<mcpEntry, mcpLine, mcpAge, mcpQueue, mcpSlow>>

\* What it had opened is closed and None is returned; the agent counts as
\* registered and does not try again.
ConnectFails(a) ==
    /\ mcpCall[a].pc = "connect"
    /\ Given(a, NoTools) /\ Fetched(a)
    /\ mcpQueue' = Tail(mcpQueue)
    /\ UNCHANGED <<mcpEntry, mcpLine, mcpAge, mcpSlow>>

\* The agent leaves the bus's pool, with its tools.
AgentGoes(a) ==
    /\ mcpTools[a].conn # NoConn
    /\ mcpTools' = [mcpTools EXCEPT ![a] = Unregistered]
    /\ UNCHANGED <<mcpEntry, mcpLine, mcpAge, mcpQueue, mcpCall, mcpSlow>>

\* _cleanup_idle: the entry goes first, the connection is closed afterwards.
EvictIdle ==
    /\ mcpEntry # NoConn /\ mcpAge > IdleTimeout
    /\ mcpEntry' = NoConn
    /\ mcpLine' = [mcpLine EXCEPT ![mcpEntry] = "closing"]
    /\ UNCHANGED <<mcpAge, mcpQueue, mcpCall, mcpTools, mcpSlow>>

CloseIdle ==
    /\ \E c \in Conns : mcpLine[c] = "closing" /\ mcpLine' = [mcpLine EXCEPT ![c] = "closed"]
    /\ UNCHANGED <<mcpEntry, mcpAge, mcpQueue, mcpCall, mcpTools, mcpSlow>>

McpTick ==
    /\ mcpAge' = IF mcpEntry = NoConn THEN 0 ELSE Aged(mcpAge)
    /\ mcpCall' = [a \in McpAgents |-> IF mcpCall[a].pc = "none" THEN NoFetch
                                       ELSE [mcpCall[a] EXCEPT !.age = Aged(@)]]
    /\ mcpTools' = [a \in McpAgents |-> IF mcpTools[a].conn \notin Conns THEN mcpTools[a]
                                        ELSE [mcpTools[a] EXCEPT !.age = Aged(@)]]
    /\ UNCHANGED <<mcpEntry, mcpLine, mcpQueue, mcpSlow>>

FetchStep(a) == LookAgain(a) \/ Connected(a) \/ ConnectFails(a)
McpNext ==
    \/ \E a \in McpAgents : GetOrConnect(a) \/ FetchStep(a) \/ AgentGoes(a)
    \/ EvictIdle \/ CloseIdle \/ McpTick

\* Connecting ends by an answer, an error or the timeout of the server.
McpFairness == \A a \in McpAgents : WF_mcpVars(FetchStep(a))
McpSpec == McpInit /\ [][McpNext]_mcpVars /\ McpFairness

-----------------------------------------------------------------------------
McpTypeOK ==
    /\ mcpEntry \in Conns \cup {NoConn} /\ mcpAge \in 0 .. Expired
    /\ mcpLine \in [Conns -> {"none", "open", "closing", "closed"}]
    /\ mcpCall \in [McpAgents -> [pc : {"none", "lock", "connect"}, age : 0 .. Expired]]
    /\ mcpTools \in [McpAgents -> [conn : Conns \cup {NoConn, NoTools}, age : 0 .. Expired]]
    \* the lock is held by the agent that connects, and waited for in line
    /\ IsInjective(mcpQueue) /\ ToSet(mcpQueue) = {a \in McpAgents : mcpCall[a].pc # "none"}
    /\ \A i \in 2 .. Len(mcpQueue) : mcpCall[mcpQueue[i]].pc = "lock"

\* However many agents ask at once, also while a connection is being made or
\* closed, an open connection is the one in the table: none is lost, and there
\* are never two to one server (manager.py:55-79).
McpOneOpen == \A c \in Conns : mcpLine[c] = "open" <=> mcpEntry = c

\* An agent whose tools hold a closed session fetched it longer than the idle
\* timeout ago: a fetch renews the connection, also for those who share it.
\* Connections that somebody waited for are older than their last use; they
\* may go earlier (line 54, :78, :130).
McpFreshTools ==
    \A a \in McpAgents : LET c == mcpTools[a].conn IN
        c \in Conns \ mcpSlow /\ mcpLine[c] \in {"closing", "closed"}
            => mcpTools[a].age > IdleTimeout

\* Agents share one connection to a server, and keep it while they use it.
McpShared == McpTypeOK /\ McpOneOpen /\ McpFreshTools

\* An agent that asks for its tools goes on in the end, with or without them,
\* whoever failed before it.
McpAnswered == \A a \in McpAgents : mcpCall[a].pc # "none" ~> mcpCall[a].pc = "none"
=============================================================================
