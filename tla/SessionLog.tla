---------------------------- MODULE SessionLog ----------------------------
(***************************************************************************)
(* What a session promises: its history only grows or is dropped as a      *)
(* whole, the compaction summary stands for exactly the first `compacted'  *)
(* messages and only takes in more of them, and the consolidation mark     *)
(* only advances inside the history.                                       *)
(***************************************************************************)
EXTENDS Integers, Sequences

CONSTANT Ids   \* the numbers a message can have

VARIABLES messages, consolidated, summary, compacted

vars == <<messages, consolidated, summary, compacted>>

Prefix(n) == {messages[i] : i \in 1..n}

Init ==
    /\ messages = <<>>
    /\ consolidated = 0
    /\ summary = {}
    /\ compacted = 0

AddMessage(m) ==
    /\ \A i \in 1..Len(messages) : messages[i] < m
    /\ messages' = Append(messages, m)
    /\ UNCHANGED <<consolidated, summary, compacted>>

Compact(n) ==
    /\ n >= compacted
    /\ compacted' = n
    /\ summary' = Prefix(n)
    /\ UNCHANGED <<messages, consolidated>>

Consolidate(n) ==
    /\ n >= consolidated
    /\ consolidated' = n
    /\ UNCHANGED <<messages, summary, compacted>>

Clear ==
    /\ messages' = <<>>
    /\ consolidated' = 0
    /\ summary' = {}
    /\ compacted' = 0

Next ==
    \/ Clear
    \/ \E m \in Ids : AddMessage(m)
    \/ \E n \in 0..Len(messages) : Compact(n) \/ Consolidate(n)

Spec == Init /\ [][Next]_vars
============================================================================
