---------------------------- MODULE SessionOps ----------------------------
(***************************************************************************)
(* What the session operations do to one Session value: sessions/session.py*)
(* sessions/manager.py and the bookkeeping of memorys/manager.py.  Both    *)
(* stores use these operators, so that they differ only in how a session   *)
(* is read, shared and written.                                            *)
(*                                                                         *)
(* A message is its number.  A compaction summary is the set of messages   *)
(* that went into it; "no compaction" is compacted = 0, because the code   *)
(* sets compaction and last_compacted together and resets them together.   *)
(***************************************************************************)
EXTENDS Integers, Sequences

CONSTANTS
    KeepLast,    \* keep_last_n of a compaction
    KeepWindow   \* memory_window \div 2 of a consolidation

ASSUME KeepAssumption == KeepLast \in Nat /\ KeepWindow \in Nat \ {0}

Session ==
    [messages : Seq(Nat), consolidated : Int, summary : SUBSET Nat, compacted : Nat]

Fresh == [messages |-> <<>>, consolidated |-> 0, summary |-> {}, compacted |-> 0]

Numbers(seq) == {seq[i] : i \in 1..Len(seq)}
Larger(a, b) == IF a < b THEN b ELSE a

WithMessage_Front(s, m) == [s EXCEPT !.messages = <<m>> \o @]
WithMessage(s, m) == [s EXCEPT !.messages = Append(@, m)]

Cleared(s) == Fresh

----------------------------------------------------------------------------
(* Compaction: the plan is made before the model is asked, and the session *)
(* is changed afterwards.                                                  *)

CompactUntil(s) == Larger(0, Len(s.messages) - KeepLast)

CanCompact(s) == CompactUntil(s) > s.compacted

ToSummarise(s) == Numbers(SubSeq(s.messages, s.compacted + 1, CompactUntil(s)))

WithSummary_Replaces(s, prior, batch, until) ==
    [s EXCEPT !.summary = batch, !.compacted = until]
WithSummary_Drops(s, prior, batch, until) ==
    [s EXCEPT !.summary = prior \cup batch, !.compacted = until,
              !.messages = SubSeq(@, until + 1, Len(@))]
WithSummary(s, prior, batch, until) ==
    [s EXCEPT !.summary = prior \cup batch, !.compacted = until]

----------------------------------------------------------------------------
(* Consolidation: the slice messages[last_consolidated : -KeepWindow] goes *)
(* to the long-term memory.  Python counts a negative start from the end.  *)

SliceFrom(s) ==
    IF s.consolidated < 0 THEN Larger(0, Len(s.messages) + s.consolidated)
                          ELSE s.consolidated

ToExtract(s) == SubSeq(s.messages, SliceFrom(s) + 1, Len(s.messages) - KeepWindow)

CanConsolidate(s) ==
    /\ Len(s.messages) > KeepWindow
    /\ Len(s.messages) - s.consolidated > 0
    /\ ToExtract(s) # <<>>

MarkConsolidated(s) == [s EXCEPT !.consolidated = Len(s.messages) - KeepWindow]

----------------------------------------------------------------------------
(* What the fields of a session claim about each other.                    *)

\* Session.to_context sends the summary and messages[last_compacted:]:
\* nothing is missing and nothing is sent twice.
SummaryIsPrefix(s) ==
    /\ s.compacted \in 0..Len(s.messages)
    /\ s.summary = Numbers(SubSeq(s.messages, 1, s.compacted))

MarkIsCount(s) == s.consolidated \in 0..Len(s.messages)

Increasing(s) == \A i, j \in 1..Len(s.messages) : i < j => s.messages[i] < s.messages[j]

Consistent(s) == SummaryIsPrefix(s) /\ MarkIsCount(s) /\ Increasing(s)
============================================================================
