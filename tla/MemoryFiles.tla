---------------------------- MODULE MemoryFiles ----------------------------
(***************************************************************************)
(* Long-term memory (agents/memorys/manager.py).  Every run of an agent    *)
(* leaves a consolidation behind that reads MEMORY.md and HISTORY.md of    *)
(* the workspace, asks a model for their new text, overwrites them, does   *)
(* the same with the MEMORY.md of the agent type, and then moves the mark  *)
(* last_consolidated of its session.  Nothing keeps two of them apart.     *)
(*                                                                         *)
(* A file is the set of messages whose content it has taken in, and a      *)
(* model that answers adds what it was given (the first 500 characters of  *)
(* each).  All sessions of a model share one workspace and one agent type. *)
(***************************************************************************)
EXTENDS Integers, Sequences, SequencesExt, FiniteSetsExt, Functions

CONSTANTS
    Chats,        \* sessions
    MemTasks,     \* names for consolidations; bounds how many run at a time
    KeepCount,    \* memory_window // 2
    NoChat,
    MaxSaid,      \* bound: messages, of all sessions together
    MaxMemFaults  \* bound: answers that lack something, files that fail, histories that are cleared

ASSUME MemoryAssumption ==
    /\ NoChat \notin Chats
    /\ KeepCount \in Nat /\ MaxSaid \in Nat /\ MaxMemFaults \in Nat

VARIABLES
    said,     \* session.messages: the numbers of its messages
    mark,     \* session.last_consolidated
    files,    \* contents of the three files
    missed,   \* history: what an answer left out of each file, or a failed write destroyed
    memory,   \* the consolidations
    counted,  \* history: messages ever added to each session
    memUsed,  \* bounds spent
    calm      \* history: per session, nothing happened that the code has no answer to

memVars == <<said, mark, files, missed, memory, counted, memUsed, calm>>

-----------------------------------------------------------------------------
\* MEMORY.md and HISTORY.md of the workspace, and MEMORY.md of the agent type.
Memories == {"memory", "history", "agent"}
NoTask == [pc |-> "none", chat |-> NoChat, batch |-> {}, read |-> {}, log |-> {}, answer |-> {}]

Length(s) == Len(said[s])
\* An index of a Python slice.
Place(i, n) == IF i < 0 THEN Max({n + i, 0}) ELSE Min({i, n})
\* session.messages[last_consolidated : -keep_count]
ToConsolidate(s) ==
    LET n == Length(s) IN
    {said[s][i] : i \in Place(mark[s], n) + 1 ..
                        (IF KeepCount = 0 THEN n ELSE Place(-KeepCount, n))}

Working(s) == {t \in MemTasks : memory[t].chat = s}
InFlight == {t \in MemTasks : memory[t].pc # "none"}
MemGoto(t, pc) == memory' = [memory EXCEPT ![t].pc = pc]
MemFault == memUsed.faults < MaxMemFaults /\ memUsed' = [memUsed EXCEPT !.faults = @ + 1]
Disturb(chats) == calm' = [s \in Chats |-> calm[s] /\ s \notin chats]

MemInit ==
    /\ said = [s \in Chats |-> <<>>]
    /\ mark = [s \in Chats |-> 0]
    /\ files = [f \in Memories |-> {}] /\ missed = [f \in Memories |-> {}]
    /\ memory = [t \in MemTasks |-> NoTask]
    /\ counted = [s \in Chats |-> 0]
    /\ memUsed = [said |-> 0, faults |-> 0]
    /\ calm = [s \in Chats |-> TRUE]

-----------------------------------------------------------------------------
\* A message of the session, by its agent or by somebody else.
Say(s) ==
    /\ memUsed.said < MaxSaid /\ memUsed' = [memUsed EXCEPT !.said = @ + 1]
    /\ counted' = [counted EXCEPT ![s] = @ + 1]
    /\ said' = [said EXCEPT ![s] = Append(@, counted[s] + 1)]
    /\ Disturb(IF Working(s) # {} THEN {s} ELSE {})
    /\ UNCHANGED <<mark, files, missed, memory>>

\* SESSION_MANAGER.clear_history
ClearChat(s) ==
    /\ MemFault
    /\ said' = [said EXCEPT ![s] = <<>>]
    /\ mark' = [mark EXCEPT ![s] = 0]
    /\ Disturb(IF Working(s) # {} THEN {s} ELSE {})
    /\ UNCHANGED <<files, missed, memory, counted>>

\* Mutant of Consolidate: nothing to consolidate is not noticed.
Consolidate_Empty(t, s) ==
    /\ memory[t] = NoTask
    /\ Length(s) > KeepCount
    /\ memory' = [memory EXCEPT ![t] =
            [NoTask EXCEPT !.pc = "memory", !.chat = s,
                           !.batch = {<<s, n>> : n \in ToConsolidate(s)}]]
    /\ Disturb(IF InFlight = {} THEN {} ELSE {s} \cup {memory[u].chat : u \in InFlight})
    /\ UNCHANGED <<said, mark, files, missed, counted, memUsed>>

\* consolidate_memory up to the first read of a file; it returns at once if
\* there is nothing to consolidate.  archive_all, which nobody sets, and
\* messages without any text are left out.
Consolidate(t, s) ==
    /\ memory[t] = NoTask
    /\ Length(s) > KeepCount /\ Length(s) - mark[s] > 0
    /\ ToConsolidate(s) # {}
    /\ memory' = [memory EXCEPT ![t] =
            [NoTask EXCEPT !.pc = "memory", !.chat = s,
                           !.batch = {<<s, n>> : n \in ToConsolidate(s)}]]
    /\ Disturb(IF InFlight = {} THEN {} ELSE {s} \cup {memory[u].chat : u \in InFlight})
    /\ UNCHANGED <<said, mark, files, missed, counted, memUsed>>

\* The reads, each in a thread of its own.
ReadFile(t) ==
    /\ \/ /\ memory[t].pc = "memory"
          /\ memory' = [memory EXCEPT ![t].pc = "history", ![t].read = files["memory"]]
       \/ /\ memory[t].pc = "history"
          /\ memory' = [memory EXCEPT ![t].pc = "ask", ![t].log = files["history"]]
       \/ /\ memory[t].pc = "agent"
          /\ memory' = [memory EXCEPT ![t].pc = "ask agent", ![t].read = files["agent"]]
    /\ UNCHANGED <<said, mark, files, missed, counted, memUsed, calm>>

\* _extract: the model was given the files as they were read.  It answers with
\* memory_update and history_entry, with one of them or, as when it fails, with
\* none; what it leaves out is not written, and the consolidation goes on.
Extract(t) ==
    LET m == memory[t]
        wanted == IF m.pc = "ask" THEN {"memory", "history"} ELSE {"agent"} IN
    /\ m.pc \in {"ask", "ask agent"}
    /\ \E answer \in SUBSET wanted :
        /\ IF answer = wanted THEN UNCHANGED memUsed ELSE MemFault
        /\ memory' = [memory EXCEPT ![t].pc = IF m.pc = "ask" THEN "write" ELSE "write agent",
                                   ![t].answer = answer]
        /\ missed' = [f \in Memories |-> IF f \in wanted \ answer THEN missed[f] \cup m.batch ELSE missed[f]]
    /\ UNCHANGED <<said, mark, files, counted, calm>>

\* The three writes: the file, its new text and what comes next.
WriteSteps == {"write", "write history", "write agent"}
Target(pc) == IF pc = "write" THEN "memory" ELSE IF pc = "write history" THEN "history" ELSE "agent"
After(pc) == IF pc = "write" THEN "write history" ELSE IF pc = "write history" THEN "agent" ELSE "mark"

\* Mutant of NewText: only the new part is written.
NewText_Forgets(m) == m.batch

NewText(m) == m.batch \cup IF m.pc = "write history" THEN m.log ELSE m.read

\* The whole file is overwritten, if the model had a text for it.
WriteFile(t) ==
    LET m == memory[t]
        f == Target(m.pc) IN
    /\ m.pc \in WriteSteps /\ MemGoto(t, After(m.pc))
    /\ IF f \in m.answer
       THEN /\ files' = [files EXCEPT ![f] = NewText(m)]
            /\ missed' = [missed EXCEPT ![f] = @ \ NewText(m)]
       ELSE UNCHANGED <<files, missed>>
    /\ UNCHANGED <<said, mark, counted, memUsed, calm>>

\* A file cannot be read or written: the consolidation raises, its callback
\* logs it, and the mark stays.  write_text empties the file before it writes:
\* it is left as it was, or with a part of the new text.
FileRaises(t) ==
    LET m == memory[t]
        f == Target(m.pc) IN
    /\ MemFault
    /\ memory' = [memory EXCEPT ![t] = NoTask]
    /\ \/ m.pc \in {"memory", "history", "agent"} /\ UNCHANGED <<files, missed>>
       \/ /\ m.pc \in WriteSteps /\ f \in m.answer
          /\ \E rest \in {files[f]} \cup SUBSET NewText(m) :
                /\ files' = [files EXCEPT ![f] = rest]
                /\ missed' = [missed EXCEPT ![f] = @ \cup (files[f] \ rest)]
    /\ UNCHANGED <<said, mark, counted, calm>>

\* A mutant of MoveMark: the messages that were kept are marked too.
MoveMark_All(t) ==
    LET s == memory[t].chat IN
    /\ memory[t].pc = "mark"
    /\ mark' = [mark EXCEPT ![s] = Length(s)]
    /\ memory' = [memory EXCEPT ![t] = NoTask]
    /\ UNCHANGED <<said, files, missed, counted, memUsed, calm>>

\* last_consolidated, from the length the session has now.
MoveMark(t) ==
    LET s == memory[t].chat IN
    /\ memory[t].pc = "mark"
    /\ mark' = [mark EXCEPT ![s] = Length(s) - KeepCount]
    /\ memory' = [memory EXCEPT ![t] = NoTask]
    /\ UNCHANGED <<said, files, missed, counted, memUsed, calm>>

MemStep(t) ==
    ReadFile(t) \/ Extract(t) \/ WriteFile(t) \/ FileRaises(t) \/ MoveMark(t)
MemNext ==
    \/ \E s \in Chats : Say(s) \/ ClearChat(s) \/ \E t \in MemTasks : Consolidate(t, s)
    \/ \E t \in MemTasks : MemStep(t)

MemSpec == MemInit /\ [][MemNext]_memVars

-----------------------------------------------------------------------------
Marked(s) == {<<s, said[s][i]>> : i \in 1 .. Min({Length(s), mark[s]})}
\* What was consolidated of a session, also by a consolidation under way.
Taken(s) == UNION {memory[t].batch : t \in Working(s)}

MemTypeOK ==
    /\ \A s \in Chats : /\ said[s] \in Seq(1 .. counted[s])
                        /\ counted[s] \in 0 .. MaxSaid
                        /\ mark[s] \in -KeepCount .. MaxSaid
    /\ \A f \in Memories : (files[f] \cup missed[f]) \subseteq Chats \X (1 .. MaxSaid)
    /\ \A t \in MemTasks : memory[t] # NoTask => memory[t].chat \in Chats /\ memory[t].batch # {}

\* Every message below the mark, which no later consolidation looks at, is in
\* all three files, as long as consolidations do not overlap and the session
\* rests while it is consolidated; but for what an answer left out of a file,
\* and for what a file held when a write to it failed (manager.py:116-118,
\* 197-200, 221-222, 259-273).
MemRemembered ==
    (\A s \in Chats : calm[s]) =>
        \A s \in Chats, f \in Memories : Marked(s) \subseteq files[f] \cup missed[f]

\* What a consolidation that raised has not marked is taken up by the next one:
\* while the session rests during its own, the mark never passes a message
\* that no batch held, and it keeps its distance from the end.
MemMarkInRange ==
    \A s \in Chats : calm[s] => mark[s] \in 0 .. Max({0, Length(s) - KeepCount})

\* The three files and the mark agree: what the mark has passed is remembered,
\* unless it is known which answer or which write lost it.
MemSound == MemTypeOK /\ MemRemembered /\ MemMarkInRange
============================================================================
