------------------------------ MODULE PatchTool ------------------------------
(***************************************************************************)
(* The apply_patch tool: the lines of a patch are parsed into changes of   *)
(* files, all changes are computed from the files as they are, then the    *)
(* files are written one after the other.                                  *)
(***************************************************************************)
EXTENDS Integers, Sequences, FiniteSets, SequencesExt

CONSTANTS
    PatchFiles,   \* absolute paths
    NoFile,       \* content of a file that does not exist
    TornFile,     \* content after a write that failed
    PatchTexts,   \* the patches: sequences of [kind, at]
    FilesBefore,  \* the files as they may be: path -> lines
    MaxPatchFaults

\* The lines of a patch: headers that name a file, and the others.
PatchLine == [kind : {"add", "delete", "update", "move"}, at : PatchFiles]
             \cup [kind : {"chunk", "keep", "del", "ins", "eof"}, at : Int]
ASSUME PatchAssumption ==
    /\ NoFile \notin PatchFiles /\ NoFile \notin Seq(Int)
    /\ PatchTexts \subseteq Seq(PatchLine)
    /\ FilesBefore \subseteq [PatchFiles -> Seq(Int) \cup {NoFile}]

\* Lines of files are numbers: 0 is the empty line, and lines that differ in
\* blanks or quotes only are equal modulo 10.
SameLine(a, b, loose) == a = b \/ (loose /\ a % 10 = b % 10)

VARIABLES
    disk,    \* the disk
    before,   \* history: the files as they were
    patch, pos, mode,
    hunks,    \* type, path, to, lines (of an added file), chunks
    changes,  \* file_changes: type, path, to, content
    written,  \* changes that have been written
    result, patchFaults

patchVars == <<disk, before, patch, pos, mode, hunks, changes, written, result, patchFaults>>

PatchInit ==
    /\ disk \in FilesBefore /\ before = disk
    /\ patch \in PatchTexts /\ pos = 1 /\ mode = "between"
    /\ hunks = <<>> /\ changes = <<>> /\ written = 0
    /\ result = "none" /\ patchFaults = 0
-----------------------------------------------------------------------------
Hunk(type, path) == [type |-> type, path |-> path, to |-> NoFile, lines |-> <<>>, chunks |-> <<>>]
Chunk(context) == [context |-> context, old |-> <<>>, new |-> <<>>]

\* The last hunk, or its last chunk, in the place of the one before.
LastHunk == hunks[Len(hunks)]
WithHunk(h) == [hunks EXCEPT ![Len(hunks)] = h]
LastChunk == LastHunk.chunks[Len(LastHunk.chunks)]
WithChunk(c) == WithHunk([LastHunk EXCEPT !.chunks = [LastHunk.chunks EXCEPT ![Len(LastHunk.chunks)] = c]])
\* With a line of the file as it is, as it will be, or both.
WithLine(c, kind, line) ==
    [c EXCEPT !.old = IF kind = "ins" THEN c.old ELSE Append(c.old, line),
              !.new = IF kind = "del" THEN c.new ELSE Append(c.new, line)]

\* parse_patch_header: begins a section.
ParseHeader(line) ==
    /\ line.kind \in {"add", "delete", "update"}
    /\ hunks' = Append(hunks, Hunk(line.kind, line.at))
    /\ mode' = IF line.kind = "add" THEN "adding" ELSE IF line.kind = "update" THEN "moving" ELSE "between"
\* "*** Move to:" counts behind the header of an update only.  Every other line
\* with "***", "*** End of File" too, ends the section.
ParseStars(line) ==
    /\ line.kind \in {"move", "eof"}
    /\ IF line.kind = "move" /\ mode = "moving"
       THEN hunks' = WithHunk([LastHunk EXCEPT !.to = line.at]) /\ mode' = "updating"
       ELSE mode' = "between" /\ UNCHANGED hunks
\* parse_add_file_content and parse_update_file_chunks.
ParseAdded(line) ==
    /\ mode = "adding" /\ line.kind \notin {"add", "delete", "update", "move", "eof"}
    /\ hunks' = IF line.kind = "ins"
                THEN WithHunk([LastHunk EXCEPT !.lines = Append(LastHunk.lines, line.at)]) ELSE hunks
    /\ UNCHANGED mode
ParseChunk(line) ==
    /\ mode \in {"moving", "updating", "chunk"} /\ line.kind \in {"chunk", "keep", "del", "ins"}
    /\ IF line.kind = "chunk"
       THEN /\ mode' = "chunk"
            /\ hunks' = WithHunk([LastHunk EXCEPT !.chunks = Append(LastHunk.chunks, Chunk(line.at))])
       ELSE IF mode # "chunk" THEN mode' = "updating" /\ UNCHANGED hunks
       ELSE hunks' = WithChunk(WithLine(LastChunk, line.kind, line.at)) /\ UNCHANGED mode
ParseOutside(line) ==
    /\ mode = "between" /\ line.kind \in {"chunk", "keep", "del", "ins"}
    /\ UNCHANGED <<hunks, mode>>
ParseLine ==
    /\ result = "none" /\ pos <= Len(patch)
    /\ LET line == patch[pos] IN
       ParseHeader(line) \/ ParseStars(line) \/ ParseAdded(line) \/ ParseChunk(line) \/ ParseOutside(line)
    /\ pos' = pos + 1
    /\ UNCHANGED <<disk, before, patch, changes, written, result, patchFaults>>
-----------------------------------------------------------------------------
\* try_match and seek_sequence: the first place from an index on, exactly if
\* possible, loosely otherwise; 0 if there is none.
Matches(lines, pattern, from, loose) ==
    {i \in from .. Len(lines) - Len(pattern) + 1 :
        \A j \in 1 .. Len(pattern) : SameLine(lines[i + j - 1], pattern[j], loose)}
Lowest(S) == CHOOSE i \in S : \A j \in S : i <= j
Seek(lines, pattern, from) ==
    LET exact == Matches(lines, pattern, from, FALSE)
        any == Matches(lines, pattern, from, TRUE)
    IN  IF pattern = <<>> \/ any = {} THEN 0 ELSE IF exact # {} THEN Lowest(exact) ELSE Lowest(any)

\* compute_replacements: where each chunk goes.  A chunk that only inserts goes
\* to the end of the file, whatever its context; one that ends in an empty line
\* is tried without it.
Failed == [ok |-> FALSE, from |-> 1, plan |-> <<>>]
PlanChunk(lines, done, c) ==
    LET context == Seek(lines, <<c.context>>, done.from)
        from == IF c.context = -1 THEN done.from ELSE context + 1
        found == Seek(lines, c.old, from)
        short == found = 0 /\ Last(c.old) = 0
        new == IF short /\ c.new # <<>> /\ Last(c.new) = 0 THEN Front(c.new) ELSE c.new
        size == IF short THEN Len(c.old) - 1 ELSE Len(c.old)
        at == IF short THEN Seek(lines, Front(c.old), from) ELSE found
        end == IF lines # <<>> /\ Last(lines) = 0 THEN Len(lines) ELSE Len(lines) + 1
    IN  IF ~done.ok \/ (c.context # -1 /\ context = 0) THEN Failed
        ELSE IF c.old = <<>>
             THEN [ok |-> TRUE, from |-> from, plan |-> Append(done.plan, [at |-> end, size |-> 0, new |-> c.new])]
        ELSE IF at = 0 THEN Failed
        ELSE [ok |-> TRUE, from |-> at + size, plan |-> Append(done.plan, [at |-> at, size |-> size, new |-> new])]
Plan(lines, chunks) ==
    LET upTo[k \in 0 .. Len(chunks)] ==
            IF k = 0 THEN [ok |-> TRUE, from |-> 1, plan |-> <<>>] ELSE PlanChunk(lines, upTo[k - 1], chunks[k])
    IN  upTo[Len(chunks)]

\* apply_replacements: from the last to the first, so that no index moves.
Earlier(plan, i, j) == plan[i].at < plan[j].at \/ (plan[i].at = plan[j].at /\ i < j)
Sorted(plan) ==
    [k \in 1 .. Len(plan) |->
        plan[CHOOSE i \in 1 .. Len(plan) : Cardinality({j \in 1 .. Len(plan) : Earlier(plan, j, i)}) = k - 1]]
\* A slice ends where its list ends.
UpTo(lines, n) == SubSeq(lines, 1, IF n < Len(lines) THEN n ELSE Len(lines))
Replaced(lines, r) == UpTo(lines, r.at - 1) \o r.new \o SubSeq(lines, r.at + r.size, Len(lines))
ApplyPlan_Forward(lines, plan) == FoldLeft(Replaced, lines, plan)
ApplyPlan(lines, plan) ==
    LET from[k \in 1 .. Len(plan) + 1] == IF k > Len(plan) THEN lines ELSE Replaced(from[k + 1], plan[k])
    IN  from[1]

\* derive_new_contents_from_chunks: joined again, an empty last line is lost.
Rejoined(lines) == IF lines # <<>> /\ Last(lines) = 0 THEN Front(lines) ELSE lines

\* execute, the changes: each from the file on the disk, not from the change
\* before it.
Reject == result' = "rejected" /\ UNCHANGED changes
Change(h, content) ==
    LET moved == h.to # NoFile IN
    changes' = Append(changes, [type |-> IF moved THEN "move" ELSE h.type, path |-> h.path,
                                to |-> IF moved THEN h.to ELSE h.path, content |-> content])
VerifyHunk ==
    /\ result = "none" /\ pos > Len(patch) /\ Len(changes) < Len(hunks)
    /\ LET h == hunks[Len(changes) + 1]
           plan == Plan(disk[h.path], h.chunks)
       IN  IF h.type = "add" THEN Change(h, Rejoined(h.lines)) /\ UNCHANGED result
           ELSE IF disk[h.path] = NoFile THEN Reject
           ELSE IF h.type = "delete" THEN Change(h, NoFile) /\ UNCHANGED result
           ELSE IF plan.ok
                THEN Change(h, Rejoined(ApplyPlan(disk[h.path], Sorted(plan.plan)))) /\ UNCHANGED result
                ELSE Reject
    /\ UNCHANGED <<disk, before, patch, pos, mode, hunks, written, patchFaults>>
NoHunks ==
    /\ result = "none" /\ pos > Len(patch) /\ hunks = <<>>
    /\ result' = "rejected"
    /\ UNCHANGED <<disk, before, patch, pos, mode, hunks, changes, written, patchFaults>>

\* execute, the files.  A move writes the new file and removes the old one.
Writing_Eager == result = "none" /\ written < Len(changes)
Writing == result = "none" /\ pos > Len(patch) /\ hunks # <<>> /\ Len(changes) = Len(hunks)
WriteChange ==
    /\ Writing /\ written < Len(changes)
    /\ LET c == changes[written + 1] IN
       /\ c.type \in {"delete", "move"} => disk[c.path] # NoFile
       /\ disk' = IF c.type \in {"add", "update"} THEN [disk EXCEPT ![c.path] = c.content]
                  ELSE IF c.type = "move" THEN [disk EXCEPT ![c.to] = c.content, ![c.path] = NoFile]
                  ELSE [disk EXCEPT ![c.path] = NoFile]
    /\ written' = written + 1
    /\ UNCHANGED <<before, patch, pos, mode, hunks, changes, result, patchFaults>>
\* What is to be removed is gone already, or a write fails half way.
WriteFails ==
    /\ Writing /\ written < Len(changes)
    /\ LET c == changes[written + 1] IN
       \/ /\ c.type \in {"delete", "move"} /\ disk[c.path] = NoFile
          /\ disk' = IF c.type = "move" THEN [disk EXCEPT ![c.to] = c.content] ELSE disk
          /\ UNCHANGED patchFaults
       \/ /\ c.type # "delete" /\ patchFaults < MaxPatchFaults /\ patchFaults' = patchFaults + 1
          /\ disk' = [disk EXCEPT ![c.to] = TornFile]
    /\ result' = "error"
    /\ UNCHANGED <<before, patch, pos, mode, hunks, changes, written>>
Succeed ==
    /\ Writing /\ written = Len(changes)
    /\ result' = "success"
    /\ UNCHANGED <<disk, before, patch, pos, mode, hunks, changes, written, patchFaults>>

PatchNext ==
    ParseLine \/ VerifyHunk \/ NoHunks \/ WriteChange \/ WriteFails \/ Succeed
PatchSpec == PatchInit /\ [][PatchNext]_patchVars
-----------------------------------------------------------------------------
\* A patch that is rejected has changed no file: every change is computed before
\* the first is written.
RejectedLeavesFiles == result = "rejected" => disk = before

\* What is written is what the chunks say: each replaces lines that match its
\* own, one behind the other, and every line outside these places stays as it is
\* and in its order.  (An insertion goes to the end of the file; where a chunk
\* replaces the end too, the insertion may be lost with it.)
PlacesMatch(lines, chunks, plan) ==
    \A k \in DOMAIN plan : plan[k].size > 0 =>
        /\ \A i \in 1 .. plan[k].size : SameLine(lines[plan[k].at + i - 1], chunks[k].old[i], TRUE)
        /\ \A j \in 1 .. k - 1 : plan[j].size > 0 => plan[j].at + plan[j].size <= plan[k].at
Spliced(lines, plan) ==
    LET taken[k \in 0 .. Len(plan)] ==
            IF k = 0 THEN [out |-> <<>>, from |-> 1]
            ELSE [out |-> taken[k - 1].out \o SubSeq(lines, taken[k - 1].from, plan[k].at - 1) \o plan[k].new,
                  from |-> plan[k].at + plan[k].size]
    IN  taken[Len(plan)].out \o SubSeq(lines, taken[Len(plan)].from, Len(lines))
Disjoint(plan) == \A i, j \in DOMAIN plan : i < j => plan[i].at + plan[i].size <= plan[j].at
ChangesAreChunks ==
    \A k \in DOMAIN changes : changes[k].type \in {"update", "move"} =>
        LET h == hunks[k]
            lines == before[h.path]
            plan == Plan(lines, h.chunks).plan
        IN  /\ PlacesMatch(lines, h.chunks, plan)
            /\ Disjoint(Sorted(plan)) => changes[k].content = Rejoined(Spliced(lines, Sorted(plan)))

\* Success means that every change is on the disk, but for those whose file a
\* later change of the patch touched, or which is moved onto itself and so
\* removed.
TouchedLater(k) ==
    \E j \in k + 1 .. Len(changes) :
        {changes[j].path, changes[j].to} \cap {changes[k].path, changes[k].to} # {}
MovedOntoItself(c) == c.type = "move" /\ c.to = c.path
SuccessIsWritten ==
    result = "success" =>
        \A k \in 1 .. Len(changes) : LET c == changes[k] IN
            ~TouchedLater(k) /\ ~MovedOntoItself(c) =>
                /\ c.type # "delete" => disk[c.to] = c.content
                /\ c.type \in {"delete", "move"} => disk[c.path] = NoFile

PatchSound == RejectedLeavesFiles /\ ChangesAreChunks /\ SuccessIsWritten
=============================================================================
