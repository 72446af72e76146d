-------------------------- MODULE SessionOpsProofs --------------------------
(***************************************************************************)
(* Lemmas about the operators of SessionOps: what each of them keeps of a  *)
(* session's type, of the order of its history and of the meaning of its   *)
(* summary.  The proofs about both stores cite them.                       *)
(***************************************************************************)
EXTENDS SessionOps, SequenceTheorems, TLAPS

\* The history is in the order of the add_message calls, the last of which
\* had number n.
Ordered(s, n) == Increasing(s) /\ \A i \in 1..Len(s.messages) : s.messages[i] \in 1..n

LEMMA NumbersType ==
    ASSUME NEW seq \in Seq(Nat) PROVE Numbers(seq) \in SUBSET Nat
  BY ElementOfSeq DEF Numbers

LEMMA FreshProperties ==
    ASSUME NEW n \in Nat PROVE Fresh \in Session /\ Ordered(Fresh, n)
  BY DEF Fresh, Session, Ordered, Increasing

LEMMA OrderedLater ==
    ASSUME NEW s \in Session, NEW m \in Nat, NEW n \in Nat, m <= n, Ordered(s, m)
    PROVE Ordered(s, n)
  BY DEF Ordered, Session

LEMMA WithMessageProperties ==
    ASSUME NEW s \in Session, NEW n \in Nat, Ordered(s, n)
    PROVE  /\ WithMessage(s, n + 1) \in Session
           /\ Ordered(WithMessage(s, n + 1), n + 1)
  <1> DEFINE t == WithMessage(s, n + 1)
  <1>1. s.messages \in Seq(Nat)
    BY DEF Session
  <1>2. t.messages = Append(s.messages, n + 1)
    BY DEF WithMessage, Session
  <1>3. t \in Session
    <2>1. Append(s.messages, n + 1) \in Seq(Nat)
      BY <1>1, AppendProperties
    <2>2. QED
      BY <2>1 DEF WithMessage, Session
  <1>4. /\ Len(t.messages) = Len(s.messages) + 1
        /\ \A i \in 1..Len(s.messages) : t.messages[i] = s.messages[i]
        /\ t.messages[Len(s.messages) + 1] = n + 1
    BY ONLY <1>1, <1>2, AppendProperties, n \in Nat
  <1>5. Len(s.messages) \in Nat
    BY <1>1, LenProperties
  <1>6. Ordered(t, n + 1)
    <2> DEFINE L == Len(s.messages)
    <2>1. \A i \in 1..L : s.messages[i] \in 1..n
      BY DEF Ordered
    <2>2. \A i \in 1..Len(t.messages) : i \in 1..L \/ i = L + 1
      BY ONLY <1>4, <1>5
    <2>3. \A i \in 1..Len(t.messages) : t.messages[i] \in 1..(n + 1)
      BY ONLY <1>4, <2>1, <2>2, n \in Nat
    <2>4. ASSUME NEW i \in 1..Len(t.messages), NEW j \in 1..Len(t.messages), i < j
          PROVE t.messages[i] < t.messages[j]
      <3>1. i \in 1..L
        BY ONLY <1>4, <1>5, <2>4
      <3>2. CASE j \in 1..L
        <4>1. s.messages[i] < s.messages[j]
          BY <3>1, <3>2, <2>4 DEF Ordered, Increasing
        <4>2. QED
          BY ONLY <1>4, <3>1, <3>2, <4>1
      <3>3. CASE j = L + 1
        BY ONLY <1>4, <2>1, <3>1, <3>3, n \in Nat
      <3>4. QED
        BY <2>2, <3>2, <3>3
    <2>5. QED
      BY <2>3, <2>4 DEF Ordered, Increasing
  <1>7. QED
    BY <1>3, <1>6

LEMMA CompactUntilType ==
    ASSUME NEW s \in Session
    PROVE CompactUntil(s) \in 0..Len(s.messages)
  <1>1. Len(s.messages) \in Nat
    BY LenProperties DEF Session
  <1>2. QED
    BY <1>1, KeepAssumption DEF CompactUntil, Larger

\* A range of the history, by its numbers.
LEMMA NumbersOfRange ==
    ASSUME NEW seq \in Seq(Nat), NEW a \in Nat, NEW b \in 0..Len(seq)
    PROVE Numbers(SubSeq(seq, a + 1, b)) = {seq[i] : i \in (a + 1)..b}
  <1> DEFINE sub == SubSeq(seq, a + 1, b)
  <1>1. Len(seq) \in Nat
    BY LenProperties
  <1>2. \A i \in (a + 1)..b : seq[i] \in Nat
    BY <1>1, ElementOfSeq
  <1>3. /\ Len(sub) = IF a + 1 <= b THEN b - (a + 1) + 1 ELSE 0
        /\ \A i \in 1..(b - (a + 1) + 1) : sub[i] = seq[(a + 1) + i - 1]
    <2>1. a + 1 \in Int /\ b \in Int
      BY <1>1
    <2>2. QED
      BY ONLY <1>2, <2>1, SubSeqProperties
  <1>4. ASSUME NEW i \in 1..Len(sub) PROVE sub[i] \in {seq[j] : j \in (a + 1)..b}
    <2>1. sub[i] = seq[a + i] /\ a + i \in (a + 1)..b
      BY <1>1, <1>3, <1>4
    <2>2. QED
      BY <2>1
  <1>5. ASSUME NEW j \in (a + 1)..b PROVE seq[j] \in Numbers(sub)
    <2>1. j - a \in 1..Len(sub) /\ sub[j - a] = seq[j]
      BY <1>1, <1>3, <1>5
    <2>2. QED
      BY <2>1 DEF Numbers
  <1>6. QED
    BY <1>4, <1>5 DEF Numbers

\* An added message is in the history, with all that were there.
LEMMA NumbersAppended ==
    ASSUME NEW seq \in Seq(Nat), NEW m \in Nat, NEW new, new = Append(seq, m)
    PROVE  Numbers(seq) \subseteq Numbers(new) /\ new[Len(new)] \in Numbers(new)
  <1>1. Len(new) = Len(seq) + 1 /\ Len(seq) \in Nat /\ \A i \in 1..Len(seq) : new[i] = seq[i]
    BY AppendProperties, LenProperties
  <1>2. QED
    BY <1>1 DEF Numbers

LEMMA ToSummariseType ==
    ASSUME NEW s \in Session PROVE ToSummarise(s) \in SUBSET Nat
  <1>1. s.messages \in Seq(Nat) /\ s.compacted \in Nat
    BY DEF Session
  <1>2. ToSummarise(s) = {s.messages[i] : i \in (s.compacted + 1)..CompactUntil(s)}
    BY <1>1, CompactUntilType, NumbersOfRange DEF ToSummarise
  <1>3. QED
    BY <1>1, <1>2, CompactUntilType, ElementOfSeq

LEMMA WithSummaryType ==
    ASSUME NEW s \in Session, NEW p \in SUBSET Nat, NEW b \in SUBSET Nat, NEW u \in Nat
    PROVE WithSummary(s, p, b, u) \in Session /\ WithSummary(s, p, b, u).messages = s.messages
  BY DEF WithSummary, Session

LEMMA MarkConsolidatedType ==
    ASSUME NEW s \in Session
    PROVE MarkConsolidated(s) \in Session /\ MarkConsolidated(s).messages = s.messages
  <1>1. Len(s.messages) \in Nat
    BY LenProperties DEF Session
  <1>2. Len(s.messages) - KeepWindow \in Int
    BY <1>1, KeepAssumption
  <1>3. QED
    BY <1>2 DEF MarkConsolidated, Session

LEMMA SameHistory ==
    ASSUME NEW s, NEW t, t.messages = s.messages, NEW n, Ordered(s, n)
    PROVE Ordered(t, n)
  BY DEF Ordered, Increasing

-----------------------------------------------------------------------------
\* A compaction of a session whose summary is right gives one whose summary is
\* right: it stands for the longer prefix.
LEMMA CompactionExtends ==
    ASSUME NEW s \in Session, SummaryIsPrefix(s), CanCompact(s)
    PROVE  LET u == CompactUntil(s) IN
           /\ s.compacted < u /\ u <= Len(s.messages)
           /\ s.summary \cup ToSummarise(s) = {s.messages[i] : i \in 1..u}
  <1> DEFINE u == CompactUntil(s)
  <1>1. s.messages \in Seq(Nat) /\ s.compacted \in Nat /\ Len(s.messages) \in Nat
    BY LenProperties DEF Session
  <1>2. u \in 0..Len(s.messages) /\ s.compacted < u
    BY <1>1, CompactUntilType DEF CanCompact
  <1>3. s.compacted \in 0..Len(s.messages)
    BY <1>1, <1>2
  <1>4. Numbers(SubSeq(s.messages, 0 + 1, s.compacted)) = {s.messages[i] : i \in (0 + 1)..s.compacted}
    BY ONLY <1>1, <1>3, NumbersOfRange
  <1>5. s.summary = {s.messages[i] : i \in 1..s.compacted}
    BY <1>4 DEF SummaryIsPrefix
  <1>6. ToSummarise(s) = {s.messages[i] : i \in (s.compacted + 1)..u}
    BY ONLY <1>1, <1>2, NumbersOfRange DEF ToSummarise
  <1>7. \A i \in Int : i \in 1..u <=> i \in 1..s.compacted \/ i \in (s.compacted + 1)..u
    BY <1>1, <1>2
  <1>8. {s.messages[i] : i \in 1..u}
          = {s.messages[i] : i \in 1..s.compacted} \cup {s.messages[i] : i \in (s.compacted + 1)..u}
    BY <1>7
  <1>9. s.summary \cup ToSummarise(s) = {s.messages[i] : i \in 1..u}
    BY ONLY <1>5, <1>6, <1>8
  <1>10. s.compacted < u /\ u <= Len(s.messages)
    BY ONLY <1>1, <1>2
  <1>11. QED
    BY <1>9, <1>10

\* A consolidation that finds something to extract moves the mark forward.
LEMMA ConsolidationAdvances ==
    ASSUME NEW s \in Session, s.consolidated \in Nat, CanConsolidate(s)
    PROVE Len(s.messages) - KeepWindow \in s.consolidated..Len(s.messages)
  <1>1. Len(s.messages) \in Nat
    BY LenProperties DEF Session
  <1>2. SliceFrom(s) = s.consolidated
    BY DEF SliceFrom
  <1>3. ~(Len(s.messages) - KeepWindow < s.consolidated + 1)
    BY <1>1, <1>2, SubSeqEmpty, KeepAssumption DEF CanConsolidate, ToExtract
  <1>4. QED
    BY <1>1, <1>3, KeepAssumption

-----------------------------------------------------------------------------
(* What SessionLog makes of a session.                                     *)

PrefixOf(s, n) == {s.messages[i] : i \in 1..n}

\* What a session claims about itself.
Sound(s) ==
    /\ s \in Session
    /\ s.compacted \in 0..Len(s.messages) /\ s.summary = PrefixOf(s, s.compacted)
    /\ s.consolidated \in 0..Len(s.messages)

\* new is what one step of the log makes of s, with messages up to max.
Extends(s, new, max) ==
    \/ new = s \/ new = Fresh
    \/ \E m \in 1..max :
          (\A i \in 1..Len(s.messages) : s.messages[i] < m) /\ new = WithMessage(s, m)
    \/ \E n \in s.compacted..Len(s.messages) :
          new = [s EXCEPT !.summary = PrefixOf(s, n), !.compacted = n]
    \/ \E n \in s.consolidated..Len(s.messages) : new = [s EXCEPT !.consolidated = n]

LEMMA SoundFresh == Fresh \in Session /\ Sound(Fresh)
  <1>1. Fresh \in Session /\ Len(Fresh.messages) = 0
    BY FreshProperties DEF Fresh
  <1>2. PrefixOf(Fresh, Fresh.compacted) = {}
    BY DEF PrefixOf, Fresh
  <1>3. QED
    BY <1>1, <1>2 DEF Sound, Fresh

LEMMA SoundPrefix == ASSUME NEW s, Sound(s) PROVE SummaryIsPrefix(s)
  <1>1. s.messages \in Seq(Nat) /\ s.compacted \in 0..Len(s.messages)
    BY DEF Sound, Session
  <1>2. Numbers(SubSeq(s.messages, 0 + 1, s.compacted)) = {s.messages[i] : i \in (0 + 1)..s.compacted}
    BY ONLY <1>1, NumbersOfRange
  <1>3. QED
    BY <1>1, <1>2 DEF Sound, PrefixOf, SummaryIsPrefix

LEMMA ExtendsKeepsSound ==
    ASSUME NEW s, NEW new, NEW max \in Nat, Sound(s), Extends(s, new, max), new \in Session
    PROVE  Sound(new)
  <1>1. s \in Session /\ s.messages \in Seq(Nat) /\ Len(s.messages) \in Nat
    BY LenProperties DEF Sound, Session
  <1>2. ASSUME NEW m \in 1..max, new = WithMessage(s, m) PROVE Sound(new)
    <2>1. new.messages = Append(s.messages, m) /\ m \in Nat
      BY <1>1, <1>2 DEF WithMessage, Session
    <2>2. /\ Len(new.messages) = Len(s.messages) + 1
          /\ \A i \in 1..Len(s.messages) : new.messages[i] = s.messages[i]
      BY ONLY <1>1, <2>1, AppendProperties
    <2>3. /\ new.summary = s.summary /\ new.compacted = s.compacted
          /\ new.consolidated = s.consolidated
      BY <1>1, <1>2 DEF WithMessage, Session
    <2>4. s.compacted \in 0..Len(s.messages) /\ s.consolidated \in 0..Len(s.messages)
      BY DEF Sound
    <2>5. new.compacted \in 0..Len(new.messages) /\ new.consolidated \in 0..Len(new.messages)
      BY ONLY <1>1, <2>2, <2>3, <2>4
    <2>6. \A i \in 1..s.compacted : new.messages[i] = s.messages[i]
      BY ONLY <1>1, <2>2, <2>4
    <2>7. PrefixOf(new, new.compacted) = PrefixOf(s, s.compacted)
      BY <2>3, <2>6 DEF PrefixOf
    <2>8. QED
      BY <2>3, <2>5, <2>7 DEF Sound
  <1>3. ASSUME NEW n \in s.compacted..Len(s.messages),
               new = [s EXCEPT !.summary = PrefixOf(s, n), !.compacted = n]
        PROVE Sound(new)
    <2>1. /\ new.messages = s.messages /\ new.consolidated = s.consolidated
          /\ new.summary = PrefixOf(s, n) /\ new.compacted = n
      BY <1>1, <1>3 DEF Session
    <2>2. n \in 0..Len(s.messages)
      BY <1>1 DEF Sound
    <2>3. PrefixOf(new, n) = PrefixOf(s, n)
      BY <2>1 DEF PrefixOf
    <2>4. QED
      BY <2>1, <2>2, <2>3 DEF Sound
  <1>4. ASSUME NEW n \in s.consolidated..Len(s.messages), new = [s EXCEPT !.consolidated = n]
        PROVE Sound(new)
    <2>1. /\ new.messages = s.messages /\ new.consolidated = n
          /\ new.summary = s.summary /\ new.compacted = s.compacted
      BY <1>1, <1>4 DEF Session
    <2>2. n \in 0..Len(s.messages)
      BY <1>1 DEF Sound
    <2>3. PrefixOf(new, new.compacted) = PrefixOf(s, s.compacted)
      BY <2>1 DEF PrefixOf
    <2>4. QED
      BY <2>1, <2>2, <2>3 DEF Sound
  <1>5. QED
    BY <1>2, <1>3, <1>4, SoundFresh DEF Extends
============================================================================
