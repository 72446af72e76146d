----------------------------- MODULE CodeChunks -----------------------------
(***************************************************************************)
(* CodeChunkService: a file is cut into overlapping chunks of lines; the   *)
(* end of a chunk moves down while it would cut a continued line, an open  *)
(* bracket or the block behind a colon; chunks of little value are left    *)
(* out.  A line is reduced to what these decisions look at.                *)
(***************************************************************************)
EXTENDS Integers, Sequences, FiniteSets

CONSTANTS
    TargetLines,  \* TARGET_LINES
    OverlapLines, \* OVERLAP_LINES as configured
    MaxLines,     \* MAX_CHUNK_LINES
    ShortLines,   \* 5: a chunk of so many lines with a header is dropped
    SourceFiles   \* the files that may be cut

\* What a line is: open and close hold one bracket, continued ends in "\",
\* block in a colon, inner is text that is indented more than all the others.
LineKinds == {"blank", "text", "inner", "comment", "header", "continued", "open", "close", "block"}

ASSUME ChunkAssumption ==
    /\ TargetLines \in Nat \ {0} /\ OverlapLines \in Nat /\ MaxLines \in Nat \ {0}
    /\ SourceFiles \subseteq Seq(LineKinds)

VARIABLES
    source,   \* the lines of the file
    cutStart, \* start, the lines in front of the chunk that is being cut
    cutEnd,   \* end of the chunk as far as it is known, 0 between chunks
    cuts,     \* the chunks so far, with the dropped ones marked
    cutDone

chunkVars == <<source, cutStart, cutEnd, cuts, cutDone>>

Lower(a, b) == IF a < b THEN a ELSE b
Higher(a, b) == IF a > b THEN a ELSE b

\* The overlap is smaller than a chunk, however it is configured.
Overlap_AsConfigured == OverlapLines
Overlap ==
    IF OverlapLines < TargetLines THEN OverlapLines
    ELSE IF TargetLines > 1 THEN Higher(TargetLines \div 2, 1) ELSE 0

\* _delimiter_unbalanced: brackets stay open to the end; one that closes
\* nothing ends the scan as balanced.
Depth(from, to) ==
    LET kinds(k) == {i \in from + 1 .. to : source[i] = k}
    IN  Cardinality(kinds("open")) - Cardinality(kinds("close"))
Unbalanced(from, to) ==
    Depth(from, to) > 0 /\ \A i \in from + 1 .. to : Depth(from, i) >= 0

ChunkInit ==
    source \in SourceFiles /\ cutStart = 0 /\ cutEnd = 0 /\ cuts = <<>> /\ cutDone = FALSE

\* _slice_source_text: the end as it is before it is extended.
BeginChunk ==
    /\ ~cutDone /\ cutEnd = 0 /\ cutStart < Len(source)
    /\ \E i \in 1 .. Len(source) : source[i] # "blank"
    /\ cutEnd' = Lower(cutStart + TargetLines, Len(source))
    /\ UNCHANGED <<source, cutStart, cuts, cutDone>>

\* _extend_chunk_end, a round of its loop.  Lines are numbered from 1 here and
\* from 0 in the code: a chunk is the lines start + 1 .. end in both.
LastEnd == Lower(Len(source), cutStart + MaxLines)
Cutting == cutEnd > 0 /\ cutEnd < LastEnd
Grows == source[cutEnd] = "continued" \/ Unbalanced(cutStart, cutEnd)
ExtendByOne ==
    /\ Cutting /\ Grows
    /\ cutEnd' = cutEnd + 1
    /\ UNCHANGED <<source, cutStart, cuts, cutDone>>

\* _extend_python_after_colon: behind all lines that are blank, comments or
\* indented more than the one with the colon.
Inside(i) == source[i] \in {"blank", "comment", "inner"}
ExtendAfterColon ==
    /\ Cutting /\ ~Grows /\ source[cutEnd] = "block"
    /\ \E e \in cutEnd + 1 .. LastEnd :
        /\ \A i \in cutEnd + 1 .. e : Inside(i)
        /\ e < LastEnd => ~Inside(e + 1)
        /\ cutEnd' = e
    /\ UNCHANGED <<source, cutStart, cuts, cutDone>>

\* _should_drop_chunk: nothing in it, or short with a header in any line.
Dropped(from, to) ==
    LET shown == {i \in from + 1 .. to : source[i] # "blank"}
    IN  \/ shown = {}
        \/ Cardinality(shown) <= ShortLines /\ \E i \in shown : source[i] = "header"

\* The rest of the loop of _slice_source_text: where the next chunk starts.
Step_Skips == cutEnd + 1
Step == cutEnd - Overlap
EndChunk ==
    /\ cutEnd > 0
    /\ Cutting => /\ ~Grows
                  /\ ~(source[cutEnd] = "block" /\ Inside(cutEnd + 1))
    /\ cuts' = Append(cuts, [start |-> cutStart, end |-> cutEnd, dropped |-> Dropped(cutStart, cutEnd)])
    /\ IF cutEnd >= Len(source) THEN cutDone' = TRUE /\ UNCHANGED cutStart
       ELSE cutStart' = Higher(Step, cutStart + 1) /\ UNCHANGED cutDone
    /\ cutEnd' = 0
    /\ UNCHANGED source

ChunkNext == BeginChunk \/ ExtendByOne \/ ExtendAfterColon \/ EndChunk
ChunkSpec == ChunkInit /\ [][ChunkNext]_chunkVars
-----------------------------------------------------------------------------
\* The chunks go on through the file and leave nothing out: the first begins
\* with it, each begins at the latest where the one before it ends, shares no
\* more than the overlap with it and ends behind it, and the last ends with the
\* file.  None is longer than the longest that is configured.
ChunksSound ==
    /\ \A k \in 1 .. Len(cuts) :
        /\ cuts[k].start < cuts[k].end /\ cuts[k].end <= Len(source)
        /\ cuts[k].end - cuts[k].start <= Higher(MaxLines, TargetLines)
    /\ cuts # <<>> => cuts[1].start = 0
    /\ \A k \in 1 .. Len(cuts) - 1 :
        /\ cuts[k].start < cuts[k + 1].start /\ cuts[k + 1].start <= cuts[k].end
        /\ cuts[k].end < cuts[k + 1].end
        /\ cuts[k].end - cuts[k + 1].start <= Overlap
    /\ cutDone => cuts # <<>> /\ cuts[Len(cuts)].end = Len(source)
=============================================================================
