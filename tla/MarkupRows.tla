----------------------------- MODULE MarkupRows -----------------------------
(***************************************************************************)
(* What the readers of line-based markup have in common (libpanduck/src/   *)
(* org.cpp, textile.cpp, mediawiki.cpp, rst.cpp, with their scanners).     *)
(*                                                                         *)
(* Each classifies the lines of its source into records, then walks those  *)
(* records with a hand-written loop that looks ahead and moves its own     *)
(* index, building blocks; the rows it returns are made from the blocks.   *)
(* One step is one iteration of either loop.                               *)
(*                                                                         *)
(* A source line is the record of what the scanner's tests look at.  Its   *)
(* texts are numbers: line n has a lead (indentation and marker), a term   *)
(* and a text, in this order, so that a number tells where in the source a *)
(* text of the output comes from.                                          *)
(***************************************************************************)
EXTENDS BlockTree, SequencesExt

\* lead is the mark that starts the line, with the blank it needs to be one,
\* "word" when there is none and "" on an empty line; name is what a keyword, a
\* marker or a tag is called; closing is the tag the line holds a closing form
\* of; markers is a run of list markers; count is how many template calls the
\* line leaves open, or how long a run of punctuation or a very short text is;
\* definition says that there is a term before the text, text that there is a
\* text, style that a marker states a style, and header that one of a row's
\* cells is a header cell.
SourceLine ==
    [lead : STRING, indent : Nat, name : STRING, closing : STRING, markers : Seq(STRING),
     count : Int, definition : BOOLEAN, style : BOOLEAN, header : BOOLEAN, text : BOOLEAN]

VARIABLES
    format,   \* the reader that was called
    source,   \* the lines of its argument
    phase,    \* "scan", "build" or "done"
    i,        \* the index of the loop that runs
    lines,    \* what the scanner has classified
    builder,  \* the members of the reader's Builder
    rows      \* what the reader returns, << >> until then

markupVars == <<format, source, phase, i, lines, builder, rows>>

LeadOf(n) == 3 * n - 2
TermOf(n) == 3 * n - 1
TextOf(n) == 3 * n

\* The line a text comes from.
LineOf(text) == (text + 2) \div 3

TextIf(condition, text) == IF condition THEN <<text>> ELSE << >>

Written(n, led) ==
    TextIf(led, LeadOf(n)) \o TextIf(source[n].definition, TermOf(n)) \o TextIf(source[n].text, TextOf(n))

\* Line n as it stands in the source, and without its indentation.
Whole(n) == Written(n, source[n].indent > 0 \/ source[n].lead \notin {"", "word"})

Trimmed(n) == Written(n, source[n].lead \notin {"", "word"})

WholeLines(first, last) == FlattenSeq([n \in 1 .. last - first + 1 |-> Whole(first + n - 1)])

TrimmedLines(first, last) == FlattenSeq([n \in 1 .. last - first + 1 |-> Trimmed(first + n - 1)])

-----------------------------------------------------------------------------

\* header and cells hold a table's rows, style the line that states a style.
Row(type, level, text) ==
    [kind |-> "block", type |-> type, level |-> level, text |-> text, list_type |-> "",
     role |-> "", header |-> << >>, cells |-> << >>, style |-> 0, heading |-> 0, key |-> ""]

List(level, list_type) == [Row("list", level, << >>) EXCEPT !.list_type = list_type]

ItemOf(level, role, text) == [Row("list_item", level, text) EXCEPT !.role = role]

Table(level, header, cells) ==
    [Row("table", level, header \o FlattenSeq(cells)) EXCEPT !.header = header, !.cells = cells]

Emitted(b, row) == [b EXCEPT !.blocks = Append(@, row)]

AllEmitted(b, new) == [b EXCEPT !.blocks = @ \o new]

\* Lists named by the run of markers before an item, one marker a depth: those
\* of the common prefix stay open, and a list is opened for each other marker.
MarkerLists(open, markers, TypeOf(_)) ==
    LET common == Len(LongestCommonPrefix({open, markers}))
    IN  [n \in 1 .. Len(markers) - common |->
            List(2 * (common + n) - 1, TypeOf(markers[common + n]))]

-----------------------------------------------------------------------------
(* The two loops.                                                          *)

\* The scanner turns the lines i .. last of the source into the record `line`.
Scanned(line, last) ==
    /\ phase = "scan"
    /\ i <= Len(source)
    /\ lines' = Append(lines, line)
    /\ i' = last + 1
    /\ UNCHANGED <<format, source, phase, builder, rows>>

\* The scanner returns `classified` and the Builder starts.
BuildFrom(classified, b) ==
    /\ phase = "scan"
    /\ i > Len(source)
    /\ lines' = classified
    /\ phase' = "build"
    /\ i' = 1
    /\ builder' = b
    /\ UNCHANGED <<format, source, rows>>

\* The line of this iteration is of one of these kinds.
Reading(kinds) == phase = "build" /\ i <= Len(lines) /\ lines[i].kind \in kinds

Line == lines[i]

\* The iteration leaves the Builder as b and has consumed the lines up to last.
Consumed(b, last) ==
    /\ builder' = b
    /\ i' = last + 1
    /\ UNCHANGED <<format, source, phase, lines, rows>>

\* After the loop: the Builder's blocks become the rows.
Returned(b) ==
    /\ phase = "build"
    /\ i > Len(lines)
    /\ builder' = b
    /\ rows' = b.blocks
    /\ phase' = "done"
    /\ UNCHANGED <<format, source, i, lines>>

Done == phase = "done"

\* The first of the lines from .. Len(lines) + 1 that satisfies Stop, the end
\* of the lines counting as one that does.
FirstFrom(from, Stop(_)) ==
    CHOOSE n \in from .. Len(lines) + 1 :
        /\ n > Len(lines) \/ Stop(lines[n])
        /\ \A m \in from .. n - 1 : ~Stop(lines[m])
=============================================================================
