------------------------- MODULE WebSocketChannel -------------------------
(***************************************************************************)
(* The WebSocket channel (channel/websocket/websocket.py and manager.py):  *)
(* one handler coroutine per socket, one table entry per session, and a    *)
(* task per outbound message.  Whoever disconnects names the session, and  *)
(* closes and removes the socket that is registered for it at that moment. *)
(*                                                                         *)
(* A socket's line is "none" before it is accepted, "open", "lost" when    *)
(* the client is gone without a word, "closed" when either side closed it. *)
(***************************************************************************)
EXTENDS Integers, FiniteSets

CONSTANTS
    Sockets, WsSessions,
    SessionOf,     \* the session id in the path of a socket
    NoSocket,
    MaxOutbound    \* bound: outbound messages of a session

ASSUME WsAssumption ==
    SessionOf \in [Sockets -> WsSessions] /\ NoSocket \notin Sockets /\ MaxOutbound \in Nat

VARIABLES
    wsActive,    \* active_connections
    wsPc,        \* where websocket_endpoint of each socket is
    wsLine,      \* what has become of the socket
    wsSend,      \* the task of each outbound message of each session
    wsMissed,    \* history: messages that found no open line, per session
    wsCut,       \* history: sockets closed by somebody other than their own handler
    wsOverlap    \* history: sessions that had two sockets in use at a time

wsVars == <<wsActive, wsPc, wsLine, wsSend, wsMissed, wsCut, wsOverlap>>

-----------------------------------------------------------------------------
Busy(s) == wsPc[s] \notin {"new", "done"}
OthersBusy(c, s) == \E x \in Sockets \ {s} : SessionOf[x] = c /\ Busy(x)
Cleaning(c) == \E n \in 1 .. MaxOutbound : wsSend[c][n] \in {"failed", "closing"}
WsGoto(s, pc) == wsPc' = [wsPc EXCEPT ![s] = pc]
SendGoto(c, n, step) == wsSend' = [wsSend EXCEPT ![c][n] = step]

\* The first half of disconnect(c): close() of the registered socket.  On a
\* line that is no longer open it may raise, which is swallowed and leaves
\* the entry in the table.
Close(c, by, closing, swallowed) ==
    IF wsActive[c] = NoSocket
    THEN swallowed /\ UNCHANGED <<wsLine, wsCut>>
    ELSE LET x == wsActive[c] IN
         /\ \/ closing
            \/ wsLine[x] # "open" /\ swallowed
         /\ wsLine' = [wsLine EXCEPT ![x] = "closed"]
         /\ wsCut' = IF wsLine[x] = "open" /\ x # by THEN wsCut \cup {x} ELSE wsCut

\* The second half: del, which swallows a KeyError too.
Unregister(c) == wsActive' = [wsActive EXCEPT ![c] = NoSocket]

-----------------------------------------------------------------------------
WsInit ==
    /\ wsActive = [c \in WsSessions |-> NoSocket]
    /\ wsPc = [s \in Sockets |-> "new"]
    /\ wsLine = [s \in Sockets |-> "none"]
    /\ wsSend = [c \in WsSessions |-> [n \in 1 .. MaxOutbound |-> "none"]]
    /\ wsMissed = [c \in WsSessions |-> FALSE]
    /\ wsCut = {}
    /\ wsOverlap = {}

\* A client connects; the handler looks for the session.
WsOpen(s) ==
    LET c == SessionOf[s] IN
    /\ wsPc[s] = "new"
    /\ WsGoto(s, "lookup")
    /\ wsOverlap' = IF OthersBusy(c, s) \/ Cleaning(c) THEN wsOverlap \cup {c} ELSE wsOverlap
    /\ UNCHANGED <<wsActive, wsLine, wsSend, wsMissed, wsCut>>

\* Mutants of Connect: the socket is not accepted; the first one stays.
Connect_Unaccepted(s) ==
    /\ wsPc[s] = "lookup"
    /\ WsGoto(s, "hello")
    /\ wsActive' = [wsActive EXCEPT ![SessionOf[s]] = s]
    /\ UNCHANGED <<wsLine, wsSend, wsMissed, wsCut, wsOverlap>>
Connect_KeepsFirst(s) ==
    /\ wsPc[s] = "lookup"
    /\ WsGoto(s, "hello")
    /\ wsLine' = [wsLine EXCEPT ![s] = "open"]
    /\ wsActive' = [wsActive EXCEPT ![SessionOf[s]] = IF @ = NoSocket THEN s ELSE @]
    /\ UNCHANGED <<wsSend, wsMissed, wsCut, wsOverlap>>

\* connect(): accept and register, whoever was registered before.
Connect(s) ==
    /\ wsPc[s] = "lookup"
    /\ WsGoto(s, "hello")
    /\ wsLine' = [wsLine EXCEPT ![s] = "open"]
    /\ wsActive' = [wsActive EXCEPT ![SessionOf[s]] = s]
    /\ UNCHANGED <<wsSend, wsMissed, wsCut, wsOverlap>>

\* Session not found: nothing was registered, the cleanup runs all the same.
NotFound(s) ==
    /\ wsPc[s] = "lookup"
    /\ WsGoto(s, "cleanup")
    /\ UNCHANGED <<wsActive, wsLine, wsSend, wsMissed, wsCut, wsOverlap>>

\* send_message of a handler: CONNECT_SUCCESS, or ERROR.
Greet(s) ==
    LET x == wsActive[SessionOf[s]] IN
    /\ wsPc[s] \in {"hello", "error"}
    /\ WsGoto(s, IF x = NoSocket THEN "cleanup"
                 ELSE IF wsLine[x] # "open" THEN
                    IF wsPc[s] = "hello" THEN "hello failed" ELSE "error failed"
                 ELSE IF wsPc[s] = "hello" THEN "receive" ELSE "cleanup")
    /\ UNCHANGED <<wsActive, wsLine, wsSend, wsMissed, wsCut, wsOverlap>>

\* The message could not be sent: send_message disconnects the session and
\* returns, so the handler goes on as if it had been sent.
GreetFailed(s) ==
    /\ \/ wsPc[s] = "hello failed"
          /\ Close(SessionOf[s], s, WsGoto(s, "hello closing"), WsGoto(s, "receive"))
       \/ wsPc[s] = "error failed"
          /\ Close(SessionOf[s], s, WsGoto(s, "error closing"), WsGoto(s, "cleanup"))
    /\ UNCHANGED <<wsActive, wsSend, wsMissed, wsOverlap>>

GreetClosed(s) ==
    /\ \/ wsPc[s] = "hello closing" /\ WsGoto(s, "receive")
       \/ wsPc[s] = "error closing" /\ WsGoto(s, "cleanup")
    /\ Unregister(SessionOf[s])
    /\ UNCHANGED <<wsLine, wsSend, wsMissed, wsCut, wsOverlap>>

\* A message that is no object, or a failing push: the loop ends.  Pings and
\* chats leave the channel as it is.
BadMessage(s) ==
    /\ wsPc[s] = "receive" /\ wsLine[s] = "open"
    /\ WsGoto(s, "error")
    /\ UNCHANGED <<wsActive, wsLine, wsSend, wsMissed, wsCut, wsOverlap>>

\* Mutant of Idle: no timeout, the line must be closed.
Idle_Waits(s) ==
    /\ wsPc[s] = "receive" /\ wsLine[s] = "closed"
    /\ WsGoto(s, "cleanup")
    /\ UNCHANGED <<wsActive, wsLine, wsSend, wsMissed, wsCut, wsOverlap>>

\* Nothing was received for two heartbeats, or the line is closed.
Idle(s) ==
    /\ wsPc[s] = "receive"
    /\ WsGoto(s, "cleanup")
    /\ UNCHANGED <<wsActive, wsLine, wsSend, wsMissed, wsCut, wsOverlap>>

\* finally
Cleanup(s) ==
    /\ wsPc[s] = "cleanup"
    /\ Close(SessionOf[s], s, WsGoto(s, "closing"), WsGoto(s, "done"))
    /\ UNCHANGED <<wsActive, wsSend, wsMissed, wsOverlap>>

Closed(s) ==
    /\ wsPc[s] = "closing"
    /\ WsGoto(s, "done")
    /\ Unregister(SessionOf[s])
    /\ UNCHANGED <<wsLine, wsSend, wsMissed, wsCut, wsOverlap>>

-----------------------------------------------------------------------------
\* _on_websocket_outbound: a task for the next message of the session.
Push(c) ==
    /\ \E n \in 1 .. MaxOutbound :
        /\ wsSend[c][n] = "none"
        /\ \A m \in 1 .. n - 1 : wsSend[c][m] # "none"
        /\ SendGoto(c, n, "queued")
    /\ UNCHANGED <<wsActive, wsPc, wsLine, wsMissed, wsCut, wsOverlap>>

\* Mutant of SendTask: a slow client is taken for a lost one.
SendTask_Impatient(c, n) ==
    /\ wsSend[c][n] = "queued"
    /\ SendGoto(c, n, IF wsActive[c] = NoSocket THEN "done" ELSE "failed")
    /\ wsOverlap' = IF OthersBusy(c, wsActive[c]) THEN wsOverlap \cup {c} ELSE wsOverlap
    /\ UNCHANGED <<wsActive, wsPc, wsLine, wsMissed, wsCut>>

\* Tasks start in the order of their creation.
SendTask(c, n) ==
    LET x == wsActive[c]
        heard == x # NoSocket /\ wsLine[x] \in {"open", "lost"} IN
    /\ wsSend[c][n] = "queued"
    /\ \A m \in 1 .. n - 1 : wsSend[c][m] # "queued"
    /\ \/ (x = NoSocket \/ heard) /\ SendGoto(c, n, "done") /\ UNCHANGED wsOverlap
       \/ /\ x # NoSocket /\ wsLine[x] # "open"
          /\ SendGoto(c, n, "failed")
          /\ wsOverlap' = IF OthersBusy(c, x) THEN wsOverlap \cup {c} ELSE wsOverlap
    \* somebody of the session was there to hear it
    /\ wsMissed' = [wsMissed EXCEPT ![c] = @ \/
            (~heard /\ \E s \in Sockets : SessionOf[s] = c /\ wsPc[s] = "receive" /\ wsLine[s] = "open")]
    /\ UNCHANGED <<wsActive, wsPc, wsLine, wsCut>>

SendFailed(c, n) ==
    /\ wsSend[c][n] = "failed"
    /\ Close(c, NoSocket, SendGoto(c, n, "closing"), SendGoto(c, n, "done"))
    /\ UNCHANGED <<wsActive, wsPc, wsMissed, wsOverlap>>

SendClosed(c, n) ==
    /\ wsSend[c][n] = "closing"
    /\ SendGoto(c, n, "done")
    /\ Unregister(c)
    /\ UNCHANGED <<wsPc, wsLine, wsMissed, wsCut, wsOverlap>>

\* The client closes its side or disappears.
ClientGone(s, how) ==
    /\ wsLine[s] = "open"
    /\ wsLine' = [wsLine EXCEPT ![s] = how]
    /\ UNCHANGED <<wsActive, wsPc, wsSend, wsMissed, wsCut, wsOverlap>>

-----------------------------------------------------------------------------
Handler(s) ==
    \/ Connect(s) \/ NotFound(s) \/ Greet(s) \/ GreetFailed(s) \/ GreetClosed(s)
    \/ Cleanup(s) \/ Closed(s)
\* The timeout of wait_for, and the end of the line, are certain.
Ends(s) == wsLine[s] # "open" /\ Idle(s)
SendStep(c, n) == SendTask(c, n) \/ SendFailed(c, n) \/ SendClosed(c, n)

WsNext ==
    \/ \E s \in Sockets :
        \/ WsOpen(s) \/ Handler(s) \/ BadMessage(s) \/ Idle(s)
        \/ \E how \in {"closed", "lost"} : ClientGone(s, how)
    \/ \E c \in WsSessions : Push(c) \/ \E n \in 1 .. MaxOutbound : SendStep(c, n)

WsFairness == \A s \in Sockets : WF_wsVars(Handler(s)) /\ WF_wsVars(Ends(s))
WsSpec == WsInit /\ [][WsNext]_wsVars /\ WsFairness

-----------------------------------------------------------------------------
WsTypeOK ==
    /\ wsActive \in [WsSessions -> Sockets \cup {NoSocket}]
    /\ wsPc \in [Sockets -> {"new", "lookup", "hello", "hello failed", "hello closing",
                             "receive", "error", "error failed", "error closing",
                             "cleanup", "closing", "done"}]
    /\ wsLine \in [Sockets -> {"none", "open", "lost", "closed"}]
    /\ wsSend \in [WsSessions -> [1 .. MaxOutbound ->
                        {"none", "queued", "failed", "closing", "done"}]]
    /\ wsMissed \in [WsSessions -> BOOLEAN]
    /\ wsCut \subseteq Sockets /\ wsOverlap \subseteq WsSessions
    /\ \A c \in WsSessions : wsActive[c] # NoSocket =>
            SessionOf[wsActive[c]] = c /\ wsLine[wsActive[c]] # "none"

\* A client whose handler waits for its messages is the one that the session's
\* answers go to, unless the session had two sockets at a time
\* (manager.py:41-57).
WsRegistered ==
    \A s \in Sockets :
        wsPc[s] = "receive" /\ wsLine[s] = "open" /\ wsActive[SessionOf[s]] # s
            => SessionOf[s] \in wsOverlap

\* Nobody but its own handler closes an open connection, unless the session
\* had two sockets at a time: not the cleanup of a handler before it, nor a
\* message that failed on the socket before it (manager.py:48, :72).
WsNotCut == \A s \in wsCut : SessionOf[s] \in wsOverlap

\* No answer is dropped while a client of its session is connected, unless
\* the session had two sockets at a time.
WsHeard == \A c \in WsSessions : wsMissed[c] => c \in wsOverlap

\* Unless two sockets of a session overlap, its client is registered, stays
\* connected until it goes, and hears every answer.
WsServed == WsTypeOK /\ WsRegistered /\ WsNotCut /\ WsHeard

\* The handler of a client that is gone ends, also when nothing tells it so.
WsHandlerEnds ==
    \A s \in Sockets : wsLine[s] \in {"lost", "closed"} ~> wsPc[s] = "done"
============================================================================
