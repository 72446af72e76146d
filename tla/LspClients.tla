----------------------------- MODULE LspClients -----------------------------
(***************************************************************************)
(* Clients of language servers (code_analysis/services/lsp): one server    *)
(* and one root, one document.  A tool call gets the client twice, once    *)
(* for its request and once to send the file before it, and a client is    *)
(* started when the table has none that lives.  The lock is not held while *)
(* the process is started, nor is anything held while a document is sent.  *)
(***************************************************************************)
EXTENDS Integers, FiniteSets, FiniteSetsExt

CONSTANTS
    LspCallers,    \* tool calls
    Servers,       \* processes
    NoServer,
    MaxLspCalls,   \* bound: calls ever made
    MaxLspFaults   \* bound: processes that die, edits of the file, shutdowns

ASSUME LspAssumption ==
    NoServer \notin Servers /\ MaxLspCalls \in Nat \ {0} /\ MaxLspFaults \in Nat

VARIABLES
    lspTable,    \* _clients[key]
    lspServer,   \* process and LspClientState of each server, and what it has heard
    lspCall,     \* the tool calls
    lspText,     \* the version of the file on disk
    lspClosing,  \* clients that close_all has taken out of the table
    lspCalls,    \* bound spent: calls
    lspFaults,   \* bound spent: faults
    lspRaced,    \* history: calls that started servers, or sent the document, at once
    lspCrossed   \* history: callers that received an answer to another's request

lspVars == <<lspTable, lspServer, lspCall, lspText, lspClosing, lspCalls, lspFaults, lspRaced,
             lspCrossed>>

-----------------------------------------------------------------------------
\* versions: of the document, -1 when it was not sent.  asked: [id, by] of the
\* requests the server has.  pending: the same for the futures.  heard, text:
\* version and content of the document at the server.  muddled: it has heard
\* a version, or an open, twice.
NotStarted == [proc |-> "none", nextId |-> 1, pending |-> {}, versions |-> -1,
               asked |-> {}, heard |-> -1, text |-> 0, muddled |-> FALSE]
NoLspCall == [pc |-> "none", client |-> NoServer, target |-> NoServer,
              version |-> 0, text |-> 0, id |-> 0]

LspGoto(t, pc) == lspCall' = [lspCall EXCEPT ![t].pc = pc]
LspEnd(t) == lspCall' = [lspCall EXCEPT ![t] = NoLspCall]
\* The client of a call: for the request first, for the document then.
Got(t, c) ==
    lspCall' = [lspCall EXCEPT ![t] =
        IF @.client = NoServer THEN [@ EXCEPT !.client = c, !.pc = "get"]
        ELSE [@ EXCEPT !.target = c, !.pc = "touch"]]
Starting == {t \in LspCallers : lspCall[t].pc \in {"spawn", "initialize", "register"}}
Sending(c) == {t \in LspCallers : lspCall[t].target = c /\ lspCall[t].pc \in {"watched", "sent"}}
LspFault == lspFaults < MaxLspFaults /\ lspFaults' = lspFaults + 1
NeverStarted == {c \in Servers : lspServer[c].proc = "none"}
KeepTable == UNCHANGED <<lspTable, lspClosing>>
KeepHistory == UNCHANGED <<lspRaced, lspCrossed>>

LspInit ==
    /\ lspTable = NoServer
    /\ lspServer = [c \in Servers |-> NotStarted]
    /\ lspCall = [t \in LspCallers |-> NoLspCall]
    /\ lspText = 0 /\ lspClosing = {} /\ lspCalls = 0 /\ lspFaults = 0
    /\ lspRaced = {} /\ lspCrossed = {}

-----------------------------------------------------------------------------
LspCallBegins(t) ==
    /\ lspCall[t] = NoLspCall /\ lspCalls < MaxLspCalls
    /\ lspCalls' = lspCalls + 1
    /\ LspGoto(t, "get")
    /\ KeepTable /\ KeepHistory /\ UNCHANGED <<lspServer, lspText, lspFaults>>

\* _get_or_create: a client whose process lives, or a new one.
GetClient(t) ==
    /\ lspCall[t].pc = "get"
    /\ IF lspTable # NoServer /\ lspServer[lspTable].proc = "alive"
       THEN Got(t, lspTable) /\ UNCHANGED lspRaced
       ELSE /\ LspGoto(t, "spawn")
            /\ lspRaced' = IF Starting # {} THEN lspRaced \cup {"start"} ELSE lspRaced
    /\ KeepTable /\ UNCHANGED <<lspServer, lspText, lspCalls, lspFaults, lspCrossed>>

\* _spawn, the reader task, and the initialize request, which has the first id.
\* While initialising, target names the process.
SpawnServer(t) ==
    /\ lspCall[t].pc = "spawn"
    /\ \/ LspEnd(t) /\ UNCHANGED lspServer
       \/ LET c == CHOOSE x \in NeverStarted : TRUE IN
            /\ NeverStarted # {}
            /\ lspServer' = [lspServer EXCEPT ![c] =
                    [@ EXCEPT !.proc = "alive", !.nextId = 2,
                              !.asked = {[id |-> 1, by |-> t]}, !.pending = {[id |-> 1, by |-> t]}]]
            /\ lspCall' = [lspCall EXCEPT ![t].pc = "initialize", ![t].target = c, ![t].id = 1]
    /\ KeepTable /\ KeepHistory /\ UNCHANGED <<lspText, lspCalls, lspFaults>>

\* Mutant of InitializeFails: the process is left to itself.
InitializeFails_Leaves(t) ==
    /\ lspCall[t].pc = "initialize"
    /\ LspEnd(t)
    /\ KeepTable /\ KeepHistory /\ UNCHANGED <<lspServer, lspText, lspCalls, lspFaults>>

\* No answer in time, or an error: the process is killed.
InitializeFails(t) ==
    /\ lspCall[t].pc = "initialize"
    /\ lspServer' = [lspServer EXCEPT ![lspCall[t].target].proc = "killed"]
    /\ LspEnd(t)
    /\ KeepTable /\ KeepHistory /\ UNCHANGED <<lspText, lspCalls, lspFaults>>

\* The notifications were sent; whoever is in the table is overwritten.
RegisterClient(t) ==
    /\ lspCall[t].pc = "register"
    /\ lspTable' = lspCall[t].target
    /\ Got(t, lspCall[t].target)
    /\ UNCHANGED <<lspServer, lspText, lspClosing, lspCalls, lspFaults, lspRaced, lspCrossed>>

-----------------------------------------------------------------------------
\* _open_or_change up to the first write: the text and the version to send.
ReadDocument(t) ==
    LET c == lspCall[t].target IN
    /\ lspCall[t].pc = "touch"
    /\ lspCall' = [lspCall EXCEPT ![t].pc = "watched", ![t].text = lspText,
                                  ![t].version = lspServer[c].versions + 1]
    /\ lspRaced' = IF Sending(c) # {} THEN lspRaced \cup {c} ELSE lspRaced
    /\ KeepTable /\ UNCHANGED <<lspServer, lspText, lspCalls, lspFaults, lspCrossed>>

\* Mutant of SendDocument: a document that was opened is not sent again.
SendDocument_Once(t) ==
    LET c == lspCall[t].target IN
    /\ lspCall[t].pc = "watched"
    /\ lspServer' = IF lspServer[c].versions >= 0 THEN lspServer
                    ELSE [lspServer EXCEPT ![c].heard = 0, ![c].text = lspCall[t].text]
    /\ LspGoto(t, "sent")
    /\ KeepTable /\ KeepHistory /\ UNCHANGED <<lspText, lspCalls, lspFaults>>

\* didOpen or didChange; a write to a dead process ends the call.
SendDocument(t) ==
    LET c == lspCall[t].target
        v == lspCall[t].version IN
    /\ lspCall[t].pc = "watched"
    /\ \/ /\ lspServer[c].proc = "alive"
          /\ lspServer' = [lspServer EXCEPT ![c] =
                [lspServer[c] EXCEPT !.heard = v, !.text = lspCall[t].text,
                                     !.muddled = @ \/ v # lspServer[c].heard + 1]]
          /\ LspGoto(t, "sent")
       \/ lspServer[c].proc # "alive" /\ LspEnd(t) /\ UNCHANGED lspServer
    /\ KeepTable /\ KeepHistory /\ UNCHANGED <<lspText, lspCalls, lspFaults>>

\* Mutant of StoreVersion: it is not stored.
StoreVersion_Forgotten(t) ==
    /\ lspCall[t].pc = "sent"
    /\ LspGoto(t, "request")
    /\ KeepTable /\ KeepHistory /\ UNCHANGED <<lspServer, lspText, lspCalls, lspFaults>>

\* The last line; the wait for diagnostics ends by an event or its timeout.
StoreVersion(t) ==
    /\ lspCall[t].pc = "sent"
    /\ lspServer' = [lspServer EXCEPT ![lspCall[t].target].versions = lspCall[t].version]
    /\ LspGoto(t, "request")
    /\ KeepTable /\ KeepHistory /\ UNCHANGED <<lspText, lspCalls, lspFaults>>

\* Mutants of SendRequest: the id is not used up; requests are numbered by
\* how many are open.
SendRequest_SameId(t) ==
    LET c == lspCall[t].client
        mine == [id |-> lspServer[c].nextId, by |-> t] IN
    /\ lspCall[t].pc = "request" /\ lspServer[c].proc = "alive"
    /\ lspServer' = [lspServer EXCEPT ![c].asked = @ \cup {mine}, ![c].pending = @ \cup {mine}]
    /\ lspCall' = [lspCall EXCEPT ![t].pc = "await", ![t].id = mine.id]
    /\ KeepTable /\ KeepHistory /\ UNCHANGED <<lspText, lspCalls, lspFaults>>
SendRequest_Counts(t) ==
    LET c == lspCall[t].client
        n == Cardinality(lspServer[c].pending) + 1 IN
    /\ lspCall[t].pc = "request" /\ lspServer[c].proc = "alive"
    /\ lspServer' = [lspServer EXCEPT ![c].asked = @ \cup {[id |-> n, by |-> t]},
                                      ![c].pending = {p \in @ : p.id # n} \cup {[id |-> n, by |-> t]}]
    /\ lspCall' = [lspCall EXCEPT ![t].pc = "await", ![t].id = n]
    /\ KeepTable /\ KeepHistory /\ UNCHANGED <<lspText, lspCalls, lspFaults>>

\* _send_request: id, future, write.
SendRequest(t) ==
    LET c == lspCall[t].client
        mine == [id |-> lspServer[c].nextId, by |-> t] IN
    /\ lspCall[t].pc = "request"
    /\ \/ /\ lspServer[c].proc = "alive"
          /\ lspServer' = [lspServer EXCEPT ![c] =
                [lspServer[c] EXCEPT !.nextId = @ + 1, !.asked = @ \cup {mine},
                                     !.pending = @ \cup {mine}]]
          /\ lspCall' = [lspCall EXCEPT ![t].pc = "await", ![t].id = mine.id]
       \/ lspServer[c].proc # "alive" /\ LspEnd(t) /\ UNCHANGED lspServer
    /\ KeepTable /\ KeepHistory /\ UNCHANGED <<lspText, lspCalls, lspFaults>>

\* _handle_message of a response, in any order; a future that timed out is
\* taken out of the table and left alone.
HandleResponse(c) ==
    \E r \in lspServer[c].asked :
        LET mine == {p \in lspServer[c].pending : p.id = r.id}
            waiting == {p.by : p \in mine} \cap
                {t \in LspCallers :
                    /\ lspCall[t].id = r.id
                    /\ \/ lspCall[t].pc = "await" /\ lspCall[t].client = c
                       \/ lspCall[t].pc = "initialize" /\ lspCall[t].target = c} IN
        /\ lspServer[c].proc = "alive"
        /\ lspServer' = [lspServer EXCEPT ![c].asked = @ \ {r}, ![c].pending = @ \ mine]
        /\ lspCrossed' = lspCrossed \cup (waiting \ {r.by})
        /\ lspCall' = [t \in LspCallers |->
                IF t \notin waiting THEN lspCall[t]
                ELSE IF lspCall[t].pc = "initialize" THEN [lspCall[t] EXCEPT !.pc = "register"]
                ELSE NoLspCall]
        /\ KeepTable /\ UNCHANGED <<lspText, lspCalls, lspFaults, lspRaced>>

\* wait_for: the future is cancelled, its entry stays.
RequestTimesOut(t) ==
    /\ lspCall[t].pc = "await"
    /\ LspEnd(t)
    /\ KeepTable /\ KeepHistory /\ UNCHANGED <<lspServer, lspText, lspCalls, lspFaults>>

-----------------------------------------------------------------------------
EditDocument ==
    /\ LspFault /\ lspText' = lspText + 1
    /\ KeepTable /\ KeepHistory /\ UNCHANGED <<lspServer, lspCall, lspCalls>>

ServerDies(c) ==
    /\ LspFault /\ lspServer[c].proc = "alive"
    /\ lspServer' = [lspServer EXCEPT ![c].proc = "dead"]
    /\ KeepTable /\ KeepHistory /\ UNCHANGED <<lspCall, lspText, lspCalls>>

\* close_all at the end of the application, which empties the table at once.
CloseAll ==
    /\ LspFault /\ lspTable # NoServer
    /\ lspTable' = NoServer /\ lspClosing' = lspClosing \cup {lspTable}
    /\ KeepHistory /\ UNCHANGED <<lspServer, lspCall, lspText, lspCalls>>

\* shutdown, exit and, whatever came of them, kill.
KillServer(c) ==
    /\ c \in lspClosing
    /\ lspClosing' = lspClosing \ {c}
    /\ lspServer' = [lspServer EXCEPT ![c].proc = IF @ = "alive" THEN "killed" ELSE @]
    /\ KeepHistory /\ UNCHANGED <<lspTable, lspCall, lspText, lspCalls, lspFaults>>

CallStep(t) ==
    \/ GetClient(t) \/ SpawnServer(t) \/ InitializeFails(t) \/ RegisterClient(t)
    \/ ReadDocument(t) \/ SendDocument(t) \/ StoreVersion(t) \/ SendRequest(t)
    \/ RequestTimesOut(t)
LspNext ==
    \/ \E t \in LspCallers : LspCallBegins(t) \/ CallStep(t)
    \/ \E c \in Servers : HandleResponse(c) \/ ServerDies(c) \/ KillServer(c)
    \/ EditDocument \/ CloseAll
LspSpec == LspInit /\ [][LspNext]_lspVars

-----------------------------------------------------------------------------
LspTypeOK ==
    /\ lspTable \in Servers \cup {NoServer} /\ lspClosing \subseteq Servers
    /\ \A c \in Servers : LET s == lspServer[c] IN
        /\ s.proc \in {"none", "alive", "dead", "killed"}
        /\ s.heard = -1 => s.versions = -1
        /\ \A p \in s.pending \cup s.asked : p.id \in 1 .. s.nextId - 1 /\ p.by \in LspCallers
        /\ s.asked \subseteq s.pending
    /\ \A t \in LspCallers :
        lspCall[t].pc \in {"none", "get", "spawn", "initialize", "register", "touch", "watched",
                           "sent", "request", "await"}

\* A server that runs can be found: in the table, by the call that starts it,
\* or by the shutdown that closes it.  Whatever fails while it is started,
\* only two calls that start servers at once leave one behind (line 498).
LspNoOrphan ==
    \A c \in Servers : lspServer[c].proc = "alive" =>
        \/ lspTable = c \/ c \in lspClosing
        \/ \E t \in Starting : lspCall[t].target = c
        \/ "start" \in lspRaced

\* A server hears one open and then every version of a document once, in
\* order, also after a call failed on the way, unless two calls sent the
\* document at once (line 639).
LspVersionsRise == \A c \in Servers : lspServer[c].muddled => c \in lspRaced

\* What a tool asks is asked about the file as it was when the tool began to
\* send it, or newer.
LspAsksCurrent ==
    \A t \in LspCallers : LET c == lspCall[t].client IN
        lspCall[t].pc \in {"request", "await"} /\ c = lspCall[t].target /\ c \notin lspRaced
            => lspServer[c].text >= lspCall[t].text

\* Whatever the order of the answers, and after timeouts, nobody gets the
\* answer to the request of another (line 589, :693).
LspOwnAnswer == lspCrossed = {}

\* A tool is answered by one server, about its own question and the text as
\* it is, and no server outlives the table.
LspServed == LspTypeOK /\ LspNoOrphan /\ LspVersionsRise /\ LspAsksCurrent /\ LspOwnAnswer
=============================================================================
