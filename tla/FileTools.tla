----------------------------- MODULE FileTools -----------------------------
(***************************************************************************)
(* The tools that read and edit one text file.  A model pages through a    *)
(* file with file_read, and sees of every page what ToolsFactory.execute   *)
(* leaves of it: Truncate.output cuts the text a second time.  The editing *)
(* tools read the file, change the text and write all of it, without an    *)
(* await in between; open() empties the file before it is written.  Sizes  *)
(* are small numbers with the order of the real ones; a text is a sequence *)
(* of characters, among them the two line ends.                            *)
(***************************************************************************)
EXTENDS Naturals, Sequences, FiniteSets, FiniteSetsExt, SequencesExt

CONSTANTS
    PageLimit,  \* DEFAULT_READ_LIMIT, and Truncate.MAX_LINES, which is the same
    ByteLimit,  \* MAX_BYTES, and Truncate.MAX_BYTES, which is the same
    LineLimit,  \* bytes of a line that was cut at MAX_LINE_LENGTH
    HeadBytes,  \* bytes of the two lines before the content, with their ends
    NumberBytes, \* bytes of the number before each line
    ReadFiles,  \* files to read: the sizes of their lines
    EditFiles,  \* files to edit
    EditCalls,  \* calls of the editing tools
    MaxEdits,   \* bound on calls
    Absent      \* the file does not exist

ASSUME OneLineFits ==
    /\ {PageLimit, ByteLimit, LineLimit, HeadBytes, NumberBytes} \subseteq Nat
    /\ PageLimit > 2 /\ HeadBytes + NumberBytes + LineLimit <= ByteLimit

\* Sizes are numbers, and characters are told apart by numbers.
EditStep == [old : Seq(Nat), new : Seq(Nat), all : BOOLEAN]
ASSUME FileAssumption ==
    /\ ReadFiles \subseteq Seq(Nat) /\ EditFiles \subseteq Seq(Nat) \cup {Absent} /\ Absent \notin Seq(Nat)
    /\ \A call \in EditCalls :
          /\ call.tool = "replace" => call.steps \in Seq(EditStep)
          /\ call.tool = "insert" => call.position \in Nat /\ call.text \in Seq(Nat)
          /\ call.tool = "write" => call.append \in BOOLEAN /\ call.text \in Seq(Nat)

VARIABLES
    readFile, \* the sizes of the lines of the file that is read
    reader,   \* the model: the next offset it asks for, the lines it saw, whether it is done
    editFile, \* the file that is edited
    lastEdit, \* history: the last call, what it found and was to write, and whether it succeeded
    edits     \* calls so far

fileVars == <<readFile, reader, editFile, lastEdit, edits>>

Lf == 0
CrLf == 9
NoEdit == [tool |-> "none", ok |-> FALSE, torn |-> FALSE, before |-> Absent, steps |-> <<>>,
           kept |-> <<>>, text |-> <<>>]

FileInit ==
    /\ readFile \in ReadFiles /\ reader = [at |-> 1, seen |-> {}, done |-> FALSE]
    /\ editFile \in EditFiles /\ lastEdit = NoEdit /\ edits = 0
-----------------------------------------------------------------------------
\* file_read: lines from off on, each cut at the limit, until there are lim of
\* them or the next one, with the end of the one before, goes beyond the bytes.
LineSize(file, i) == Min({file[i], LineLimit})
PageBytes(file, off, n) ==
    LET upTo[k \in 0 .. n] == IF k = 0 THEN 0 ELSE upTo[k - 1] + LineSize(file, off + k - 1)
    IN  upTo[n] + n - 1
PageTakes(file, off, lim) ==
    Max({0} \cup {n \in 1 .. Min({lim, Len(file) - off + 1}) : PageBytes(file, off, n) <= ByteLimit})
OutOfRange(file, off) == Len(file) < off /\ ~(file = <<>> /\ off = 1)
HasMore(file, off, n) == off + n <= Len(file)

\* What the tool returns: two lines before the lines, and after them an empty
\* one, the note with the next offset, and three more.
Before2 == 2
TailLines == 5
TextLines(n) == Before2 + Max({1, n}) + TailLines
TextBytes(file, off, n) == HeadBytes + PageBytes(file, off, n) + n * NumberBytes + TailLines

\* Truncate.output, of the head: the first lines within both limits are kept,
\* and then the numbered ones among them are what the model sees.
SentWhole(file, off, n) == TextLines(n) <= PageLimit /\ TextBytes(file, off, n) <= ByteLimit
Seen(file, off, n) ==
    IF SentWhole(file, off, n) THEN n
    ELSE Max({0} \cup {m \in 1 .. n : /\ Before2 + m <= PageLimit
                                      /\ HeadBytes + PageBytes(file, off, m) + m * NumberBytes <= ByteLimit})
\* The note comes after all lines; after a cut of the bytes it is gone.
NoteSeen(file, off, n) ==
    \/ SentWhole(file, off, n)
    \/ TextBytes(file, off, n) <= ByteLimit /\ Before2 + n + 2 <= PageLimit

\* A mutant: the next offset leaves a line out.
NextOffset_Skips(off, n) == off + n + 1
NextOffset(off, n) == off + n
\* A mutant: a page that is cut short by its bytes looks like the last one.
MoreNoted_Lines(file, off, n, lim) == HasMore(file, off, n) /\ n >= lim
MoreNoted(file, off, n, lim) == HasMore(file, off, n)

\* The model asks for the next page, at the offset of the note if it sees one,
\* else after the last line it saw.
ReadPage(lim) ==
    /\ ~reader.done
    /\ LET off == reader.at
           n == PageTakes(readFile, off, lim)
           seen == off .. off + Seen(readFile, off, n) - 1 IN
       IF OutOfRange(readFile, off) THEN reader' = [reader EXCEPT !.done = TRUE]
       ELSE reader' = [at |-> IF NoteSeen(readFile, off, n) THEN NextOffset(off, n)
                              ELSE off + Seen(readFile, off, n),
                       seen |-> reader.seen \cup seen,
                       done |-> NoteSeen(readFile, off, n) /\ ~MoreNoted(readFile, off, n, lim)]
    /\ UNCHANGED <<readFile, editFile, lastEdit, edits>>
-----------------------------------------------------------------------------
\* open() in text mode turns every line end into \n, and writing keeps it.
TextOf(file) == IF file = Absent THEN <<>> ELSE [i \in DOMAIN file |-> IF file[i] = CrLf THEN Lf ELSE file[i]]

Starts(text, old) == {i \in 1 .. Len(text) - Len(old) + 1 : SubSeq(text, i, i + Len(old) - 1) = old}
\* Those that str.count counts and str.replace replaces: from the left, none
\* within the one before.
Counted(text, old) ==
    LET From[i \in 1 .. Len(text) + 1] ==
            IF i \in Starts(text, old) THEN {i} \cup From[i + Len(old)]
            ELSE IF i <= Len(text) THEN From[i + 1] ELSE {}
    IN From[1]
\* The text with new in the place of old at these starts.
WithReplaced(text, at, old, new) ==
    LET From[i \in 1 .. Len(text) + 1] ==
            IF i \in at THEN new \o From[i + Len(old)]
            ELSE IF i <= Len(text) THEN <<text[i]>> \o From[i + 1] ELSE <<>>
    IN From[1]

\* file_replace_text and one step of file_replace_multi_text; a mutant replaces
\* the first of several.
Refused_First(text, s) == s.old = <<>> \/ s.old = s.new \/ Starts(text, s.old) = {}
Refused(text, s) ==
    \/ s.old = <<>> \/ s.old = s.new \/ Starts(text, s.old) = {}
    \/ Cardinality(Counted(text, s.old)) > 1 /\ ~s.all
EditOnce(text, s) ==
    WithReplaced(text, IF s.all THEN Counted(text, s.old) ELSE {Min(Counted(text, s.old))}, s.old, s.new)

\* The steps one after the other, until one is refused; a mutant keeps what
\* was done until then.
AfterEach(text, steps) ==
    LET after[k \in 0 .. Len(steps)] ==
            IF k = 0 THEN [ok |-> TRUE, text |-> text]
            ELSE IF ~after[k - 1].ok \/ Refused(after[k - 1].text, steps[k])
                 THEN [ok |-> FALSE, text |-> after[k - 1].text]
                 ELSE [ok |-> TRUE, text |-> EditOnce(after[k - 1].text, steps[k])]
    IN  after
AfterSteps(text, steps) == AfterEach(text, steps)[Len(steps)]
Outcome_Halfway(steps) ==
    LET text == TextOf(editFile)
        r == AfterSteps(text, steps) IN
    [ok |-> r.ok /\ r.text # text, file |-> IF r.text = text THEN editFile ELSE r.text]
Outcome(steps) ==
    LET text == TextOf(editFile)
        r == AfterSteps(text, steps)
        ok == r.ok /\ r.text # text IN
    [ok |-> ok, file |-> IF ok THEN r.text ELSE editFile]

\* An edit that is refused, one that is written behind what is kept of the
\* file, and one whose write fails, for the disk or a character that has no
\* code: a beginning of the text is left.  A diff that fails comes after all of
\* it, and the tool reports a failure too.
Refuses(tool) == lastEdit' = [NoEdit EXCEPT !.tool = tool, !.before = editFile]
SavesText(tool, steps, kept, text) ==
    \E n \in 0 .. Len(text), ok \in BOOLEAN :
        /\ ok => n = Len(text)
        /\ editFile' = kept \o SubSeq(text, 1, n)
        /\ lastEdit' = [tool |-> tool, ok |-> ok, torn |-> ~ok, before |-> editFile, steps |-> steps,
                        kept |-> kept, text |-> text]

ReplaceText(call) ==
    /\ call.tool = "replace" /\ edits < MaxEdits /\ edits' = edits + 1
    /\ LET o == Outcome(call.steps) IN
       IF editFile # Absent /\ o.ok THEN SavesText("replace", call.steps, <<>>, o.file)
       ELSE editFile' = (IF editFile # Absent THEN o.file ELSE Absent) /\ Refuses("replace")
    /\ UNCHANGED <<readFile, reader>>

\* file_insert: after so many lines, or at the end; the line before is not
\* ended if it was not.  LinesOf: the last characters of the lines.
LinesOf(text) == {i \in DOMAIN text : text[i] = Lf \/ i = Len(text)}
Ended(text) == IF text # <<>> /\ Last(text) = Lf THEN text ELSE Append(text, Lf)
PlaceOf(text, position) == CHOOSE i \in {0} \cup LinesOf(text) : Cardinality({j \in LinesOf(text) : j <= i}) = position
InsertText(call) ==
    /\ call.tool = "insert" /\ edits < MaxEdits /\ edits' = edits + 1
    /\ LET text == TextOf(editFile)
           at == PlaceOf(text, call.position) IN
       IF editFile # Absent /\ call.position <= Cardinality(LinesOf(text))
       THEN SavesText("insert", <<>>, <<>>, SubSeq(text, 1, at) \o Ended(call.text) \o SubSeq(text, at + 1, Len(text)))
       ELSE UNCHANGED editFile /\ Refuses("insert")
    /\ UNCHANGED <<readFile, reader>>

\* Mutant of WriteText: "a" is taken like "w".
WriteText_Over(call) ==
    /\ call.tool = "write" /\ edits < MaxEdits /\ edits' = edits + 1
    /\ \E n \in 0 .. Len(call.text) :
        /\ editFile' = SubSeq(call.text, 1, n)
        /\ lastEdit' = [tool |-> "write", ok |-> n = Len(call.text), torn |-> n # Len(call.text), before |-> editFile,
                        steps |-> <<>>, text |-> call.text,
                        kept |-> IF call.append /\ editFile # Absent THEN editFile ELSE <<>>]
    /\ UNCHANGED <<readFile, reader>>

\* file_write, in place of the file or at its end, as it is.
WriteText(call) ==
    /\ call.tool = "write" /\ edits < MaxEdits /\ edits' = edits + 1
    /\ SavesText("write", <<>>, IF call.append /\ editFile # Absent THEN editFile ELSE <<>>, call.text)
    /\ UNCHANGED <<readFile, reader>>

PageNext == \E lim \in 1 .. PageLimit : ReadPage(lim)
EditNext == \E call \in EditCalls : ReplaceText(call) \/ InsertText(call) \/ WriteText(call)
FileNext == PageNext \/ EditNext
FileSpec == FileInit /\ [][FileNext]_fileVars
-----------------------------------------------------------------------------
\* Paging loses no line and comes to the end: the model saw every line before
\* the one it asks for next, a page that is not the last shows at least one,
\* and when it is done it saw the file (file_read.py:139-185, factory.py:233).
PagesCover ==
    /\ \A i \in 1 .. reader.at - 1 : i \in reader.seen
    /\ reader.done => reader.seen = DOMAIN readFile
    /\ \A lim \in 1 .. PageLimit : ~reader.done /\ ~OutOfRange(readFile, reader.at) /\ readFile # <<>>
           => Seen(readFile, reader.at, PageTakes(readFile, reader.at, lim)) > 0

\* One replacement, said without the order in which it is made: apart from one
\* another, every other occurrence of the old text meets one that was replaced,
\* and without replaceAll it is one.
Apart(at, old) == \A i, j \in at : i < j => i + Len(old) <= j
Substituted(text, new, s) ==
    \E at \in SUBSET Starts(text, s.old) :
        /\ at # {} /\ Apart(at, s.old) /\ new = WithReplaced(text, at, s.old, s.new)
        /\ \A i \in Starts(text, s.old) \ at : \E j \in at : ~Apart({i, j}, s.old)
        /\ ~s.all => Cardinality(at) = 1

\* A refused edit leaves the file as it was, line ends included; one that
\* succeeds is its steps, each of them made on the result of the one before
\* (file_replace_multi_text.py: "if any edit fails, no changes are written").
\* That does not hold of a write that fails: then what the file had is gone but
\* for what an appending write keeps, and nothing is there that was not to be
\* written (file_replace_text.py:117, file_insert.py:81, file_write.py:73).
EditsAtomic ==
    /\ edits > 0 /\ ~lastEdit.ok /\ ~lastEdit.torn => editFile = lastEdit.before
    /\ lastEdit.ok => editFile = lastEdit.kept \o lastEdit.text
    /\ lastEdit.torn => \E n \in 0 .. Len(lastEdit.text) : editFile = lastEdit.kept \o SubSeq(lastEdit.text, 1, n)
    /\ (lastEdit.ok \/ lastEdit.torn) /\ lastEdit.tool = "replace" =>
          LET steps == lastEdit.steps
              after == AfterEach(TextOf(lastEdit.before), steps)
          IN  /\ lastEdit.kept = <<>> /\ lastEdit.text = after[Len(steps)].text
              /\ \A k \in 1 .. Len(steps) : Substituted(after[k - 1].text, after[k].text, steps[k])

FileToolsSound == PagesCover /\ EditsAtomic
=============================================================================
