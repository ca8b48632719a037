-------------------------- MODULE MediaWikiReader --------------------------
(***************************************************************************)
(* The MediaWiki reader (libpanduck/src/mediawiki.cpp and                  *)
(* mediawiki_scanner.cpp).                                                 *)
(***************************************************************************)
EXTENDS MarkupRows

HtmlBlock ==
    {"blockquote", "syntaxhighlight", "source", "pre", "references", "div", "center", "poem"}

-----------------------------------------------------------------------------
(* ScanMediaWiki.                                                          *)

\* in_table: the last table that was started has not ended.
InTable ==
    \E n \in DOMAIN lines :
        /\ lines[n].kind = "TABLE_START"
        /\ \A m \in n .. Len(lines) : lines[m].kind # "TABLE_END"

KindInTable(s) ==
    CASE s.lead = "|}" -> "TABLE_END"
      [] s.lead = "|-" -> "TABLE_ROW"
      [] s.lead = "!" -> "TABLE_HEADER"
      [] s.lead = "|" -> "TABLE_CELL"
      [] OTHER -> "TEXT"

\* What counts wherever on the line it starts, "" when nothing does.
KindByMark(s) ==
    CASE s.lead = "{|" -> "TABLE_START"
      [] s.lead = "=" -> "HEADING"
      [] s.lead = "list" -> "LIST_ITEM"
      [] s.lead = "----" -> "HRULE"
      [] s.lead = "__" -> "BEHAVIOR"
      [] s.lead = "<!--" /\ s.closing = "--" -> "COMMENT"
      [] s.lead = "<" /\ s.name \in HtmlBlock -> "HTML_BLOCK"
      [] OTHER -> ""

\* A template opening a line comes before everything, then the marks of a
\* table's lines, which mean nothing else inside one.
KindOf(s) ==
    IF s.lead = "" THEN "BLANK"
    ELSE IF s.lead = "{{" THEN "TEMPLATE"
    ELSE IF InTable THEN KindInTable(s)
    ELSE IF KindByMark(s) # "" THEN KindByMark(s)
    ELSE IF s.indent > 0 THEN "PREFORMATTED"
    ELSE IF s.lead = "<>" THEN "HTML_TAGS"
    ELSE "TEXT"

\* The first line from n on at which the calls opened since n are closed.
Balanced(n) ==
    LET left == [m \in n .. Len(source) |->
                    FoldFunctionOnSet(+, 0, [k \in n .. m |-> source[k].count], n .. m)]
        ends == {m \in DOMAIN left : left[m] <= 0}
    IN  IF ends = {} THEN Len(source) ELSE CHOOSE m \in ends : \A k \in ends : m <= k

\* A template, and prose, run until their braces balance; HTML to the line
\* that closes its element; all of them to the end when nothing closes them.
LastLineOf(n) ==
    LET s == source[n]
        kind == KindOf(s)
        closing == {m \in n .. Len(source) : source[m].closing = s.name}
    IN  CASE kind = "TEMPLATE" \/ (kind = "TEXT" /\ ~InTable) -> Balanced(n)
          [] kind = "HTML_BLOCK" /\ s.closing # "/" ->
               IF closing = {} THEN Len(source) ELSE CHOOSE m \in closing : \A k \in closing : m <= k
          [] OTHER -> n

\* What the element opened by line n holds: on a line that closes it, what
\* stands before the closing tag is a term, and what stands behind is dropped.
HtmlText(n) ==
    LET last == LastLineOf(n)
        Inside(m) == TextIf(source[m].definition, TermOf(m))
    IN  IF source[last].closing # source[n].name
        THEN TextIf(source[n].text, TextOf(n)) \o WholeLines(n + 1, last)
        ELSE IF last = n THEN Inside(n)
        ELSE TextIf(source[n].text, TextOf(n)) \o WholeLines(n + 1, last - 1) \o Inside(last)

\* A line of nothing but tags is HTML held as it stands.
ScannedLine(n) ==
    LET s == source[n]
        kind == KindOf(s)
    IN  [kind |-> IF kind = "HTML_TAGS" THEN "HTML_BLOCK" ELSE kind,
         verbatim |-> kind = "HTML_TAGS",
         name |-> s.name,
         markers |-> IF kind = "LIST_ITEM" THEN s.markers ELSE << >>,
         file |-> kind = "TEXT" /\ s.lead = "[[File:",
         caption |-> s.text,
         text |-> CASE kind = "HTML_BLOCK" -> HtmlText(n)
                    [] kind \in {"TEMPLATE", "TEXT", "BEHAVIOR", "HTML_TAGS"} ->
                         WholeLines(n, LastLineOf(n))
                    [] kind \in {"HEADING", "LIST_ITEM", "PREFORMATTED", "TABLE_HEADER",
                                 "TABLE_CELL"} -> TextIf(s.text, TextOf(n))
                    [] OTHER -> << >>]

ScanLine == phase = "scan" /\ i <= Len(source) /\ Scanned(ScannedLine(i), LastLineOf(i))

StartBuild ==
    BuildFrom(lines, [blocks |-> << >>, para |-> << >>, pre |-> << >>, open |-> << >>])

-----------------------------------------------------------------------------
(* Paragraphs, listings and lists.                                         *)

FlushParagraph(b) ==
    IF b.para = << >> THEN b
    ELSE [Emitted(b, Row("paragraph", 1, b.para)) EXCEPT !.para = << >>]

FlushPre(b) ==
    IF b.pre = << >> THEN b
    ELSE [Emitted(b, Row("code", 1, b.pre)) EXCEPT !.pre = << >>]

Flush(b) == FlushPre(FlushParagraph(b))

CloseLists(b) == [b EXCEPT !.open = << >>]

TypeOf(marker) ==
    CASE marker = "#" -> "ordered" [] marker \in {";", ":"} -> "definition" [] OTHER -> "bullet"

\* A term's and a definition's marker are one list's.
Normalised(markers) == [n \in DOMAIN markers |-> IF markers[n] = ":" THEN ";" ELSE markers[n]]

RoleOf(marker) == CASE marker = ";" -> "term" [] marker = ":" -> "definition" [] OTHER -> ""

ListItem(b, line) ==
    LET markers == Normalised(line.markers)
        opened == [AllEmitted(b, MarkerLists(b.open, markers, TypeOf)) EXCEPT !.open = markers]
    IN  Emitted(opened, ItemOf(2 * Len(markers), RoleOf(Last(line.markers)), line.text))

-----------------------------------------------------------------------------
(* Tables, file links and HTML.                                            *)

\* Unless a |} line ends it, a table runs to the end.
EndOfTable(begin) == FirstFrom(begin + 1, LAMBDA l : l.kind = "TABLE_END")

\* Mutated form: a row is ended, but its cells start the next one.
EndRowKeepingCells(t) ==
    [t EXCEPT !.rows = IF t.started THEN Append(@, t.current) ELSE @, !.started = TRUE]

\* A |- line ends the row before it, which the first one does only when cells
\* or another |- line came first.
EndRow(t) ==
    [t EXCEPT !.rows = IF t.started THEN Append(@, t.current) ELSE @,
              !.current = << >>, !.started = TRUE]

\* Header lines add to the header; lines that are no table's are passed over.
TableOf(begin) ==
    LET Read(t, l) ==
          CASE l.kind = "TABLE_HEADER" -> [t EXCEPT !.headers = @ \o l.text]
            [] l.kind = "TABLE_ROW" -> EndRow(t)
            [] l.kind = "TABLE_CELL" -> [t EXCEPT !.current = @ \o l.text, !.started = TRUE]
            [] OTHER -> t
        read == FoldLeft(Read, [headers |-> << >>, rows |-> << >>, current |-> << >>, started |-> FALSE],
                         SubSeq(lines, begin + 1, EndOfTable(begin) - 1))
    IN  Table(1, read.headers,
              IF read.current = << >> THEN read.rows ELSE Append(read.rows, read.current))

\* A file link on a line of its own is a figure, with its caption first.
FileLink(line) ==
    <<Row("figure", 1, << >>)>>
    \o (IF line.caption THEN <<Row("caption", 2, line.text)>> ELSE << >>)
    \o <<Row("image", 2, << >>)>>

HtmlRows(line) ==
    IF line.verbatim THEN <<Row("raw", 1, line.text)>>
    ELSE IF line.name = "blockquote"
    THEN <<Row("blockquote", 1, << >>), Row("paragraph", 2, line.text)>>
    ELSE IF line.name \in {"syntaxhighlight", "source", "pre"} THEN <<Row("code", 1, line.text)>>
    ELSE <<Row("raw", 1, line.text)>>

-----------------------------------------------------------------------------
(* Build: one action per kind of line.  Its default case, a table's line    *)
(* outside a table, is never reached: StrayTableLine.                       *)

Closed == CloseLists(Flush(builder))

\* Mutated form: a blank line does not end the paragraph before it.
ReadBlankInParagraph == Reading({"BLANK", "COMMENT"}) /\ Consumed(FlushPre(builder), i)

\* Neither a blank line nor a comment closes the lists.
ReadBlank == Reading({"BLANK", "COMMENT"}) /\ Consumed(Flush(builder), i)

ReadHeading == Reading({"HEADING"}) /\ Consumed(Emitted(Closed, Row("heading", 1, Line.text)), i)

ReadRule == Reading({"HRULE"}) /\ Consumed(Emitted(Closed, Row("hr", 1, << >>)), i)

ReadRaw ==
    Reading({"TEMPLATE", "BEHAVIOR"}) /\ Consumed(Emitted(Closed, Row("raw", 1, Line.text)), i)

ReadHtml == Reading({"HTML_BLOCK"}) /\ Consumed(AllEmitted(Closed, HtmlRows(Line)), i)

\* A listing gathers beside the paragraph, which is not flushed.
ReadPreformatted ==
    Reading({"PREFORMATTED"}) /\ Consumed([builder EXCEPT !.pre = @ \o Line.text], i)

ReadItem == Reading({"LIST_ITEM"}) /\ Consumed(ListItem(Flush(builder), Line), i)

ReadTable ==
    Reading({"TABLE_START"}) /\ Consumed(Emitted(Closed, TableOf(i)), EndOfTable(i))

ReadFileLink ==
    /\ Reading({"TEXT"})
    /\ Line.file /\ builder.para = << >>
    /\ Consumed(AllEmitted(CloseLists(FlushPre(builder)), FileLink(Line)), i)

ReadText ==
    /\ Reading({"TEXT"})
    /\ ~(Line.file /\ builder.para = << >>)
    /\ Consumed([CloseLists(FlushPre(builder)) EXCEPT !.para = @ \o Line.text], i)

ReturnRows == phase = "build" /\ i > Len(lines) /\ Returned(Closed)

Next ==
    \/ ScanLine \/ StartBuild
    \/ ReadBlank \/ ReadHeading \/ ReadRule \/ ReadRaw \/ ReadHtml \/ ReadPreformatted
    \/ ReadItem \/ ReadTable \/ ReadFileLink \/ ReadText
    \/ ReturnRows
=============================================================================
