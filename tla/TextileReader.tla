--------------------------- MODULE TextileReader ---------------------------
(***************************************************************************)
(* The Textile reader (libpanduck/src/textile.cpp and                      *)
(* textile_scanner.cpp).                                                   *)
(***************************************************************************)
EXTENDS MarkupRows

HtmlTag == {"dl", "table", "div", "ul", "ol", "blockquote", "pre", "p"}

-----------------------------------------------------------------------------
(* ScanTextile.                                                            *)

\* A run of list markers, and a marker with a name, are what they are only
\* when a blank follows; a name nobody knows is prose.
KindOf(s) ==
    CASE s.lead = "" -> "BLANK"
      [] s.lead = "|" -> "TABLE_ROW"
      [] s.lead = "###." -> "COMMENT"
      [] s.lead = "list" -> "LIST_ITEM"
      [] s.lead = "- " /\ s.definition -> "LIST_ITEM"
      [] s.lead = "<" /\ s.name \in HtmlTag -> "HTML_BLOCK"
      [] s.lead = "." /\ s.name = "h" -> "HEADING"
      [] s.lead = "." /\ s.name = "p" -> "PARA"
      [] s.lead = "." /\ s.name = "bq" -> "BLOCKQUOTE"
      [] s.lead = "." /\ s.name \in {"pre", "bc"} -> "CODE"
      [] s.lead = "." /\ s.name = "notextile" -> "NOTEXTILE"
      [] OTHER -> "TEXT"

\* HTML runs to the line that closes its element, or to the end; anything
\* else is one line.
LastLineOf(n) ==
    IF KindOf(source[n]) # "HTML_BLOCK" THEN n
    ELSE LET closing == {m \in n .. Len(source) : source[m].closing = source[n].name}
         IN  IF closing = {} THEN Len(source) ELSE CHOOSE m \in closing : \A k \in closing : m <= k

ScannedLine(n) ==
    LET s == source[n]
        kind == KindOf(s)
    IN  [kind |-> kind,
         markers |-> IF kind # "LIST_ITEM" THEN << >> ELSE IF s.definition THEN <<"-">> ELSE s.markers,
         definition |-> kind = "LIST_ITEM" /\ s.definition,
         style |-> IF s.lead = "." /\ s.style THEN n ELSE 0,
         header |-> s.header,
         raw |-> Whole(n),
         term |-> TextIf(kind = "LIST_ITEM" /\ s.definition, TermOf(n)),
         text |-> IF kind \in {"TEXT", "TABLE_ROW", "HTML_BLOCK"} THEN TrimmedLines(n, LastLineOf(n))
                  ELSE TextIf(s.text /\ kind # "COMMENT", TextOf(n))]

ScanLine == phase = "scan" /\ i <= Len(source) /\ Scanned(ScannedLine(i), LastLineOf(i))

StartBuild ==
    BuildFrom(lines, [blocks |-> << >>, para |-> << >>, pending_style |-> 0, open |-> << >>])

-----------------------------------------------------------------------------
(* Paragraphs, lists and tables.                                           *)

\* Mutated form: the style of a paragraph is kept for the next one.
FlushKeepingStyle(b) ==
    IF b.para = << >> THEN b
    ELSE [Emitted(b, [Row("paragraph", 1, b.para) EXCEPT !.style = b.pending_style])
            EXCEPT !.para = << >>]

\* A style that is pending without a text stays pending.
Flush(b) ==
    IF b.para = << >> THEN b
    ELSE [Emitted(b, [Row("paragraph", 1, b.para) EXCEPT !.style = b.pending_style])
            EXCEPT !.para = << >>, !.pending_style = 0]

CloseLists(b) == [b EXCEPT !.open = << >>]

TypeOf(marker) ==
    CASE marker = "#" -> "ordered" [] marker = "-" -> "definition" [] OTHER -> "bullet"

\* Mutated form: the lists that were deeper stay open.
ItemKeepingLists(b, line) ==
    LET opened == AllEmitted(b, MarkerLists(b.open, line.markers, TypeOf))
    IN  Emitted([opened EXCEPT !.open = IF Len(line.markers) > Len(b.open) THEN line.markers ELSE @],
                ItemOf(2 * Len(line.markers), "", line.text))

\* A change of the list's type at the same depth starts a new list.
ListItem(b, line) ==
    LET opened == [AllEmitted(b, MarkerLists(b.open, line.markers, TypeOf))
                    EXCEPT !.open = line.markers]
        level == 2 * Len(line.markers)
    IN  IF line.definition
        THEN AllEmitted(opened, <<ItemOf(level, "term", line.term),
                                  ItemOf(level, "definition", line.text)>>)
        ELSE Emitted(opened, ItemOf(level, "", line.text))

EndOfTable(begin) == FirstFrom(begin, LAMBDA l : l.kind # "TABLE_ROW")

\* The first row with a header cell is the header, wherever it stands.
TableOf(begin) ==
    LET found == begin .. EndOfTable(begin) - 1
        marked == {n \in found : lines[n].header}
        header == IF marked = {} THEN 0 ELSE CHOOSE n \in marked : \A m \in marked : n <= m
        cells == [n \in 1 .. EndOfTable(begin) - begin |->
                     IF begin + n - 1 = header THEN << >> ELSE <<lines[begin + n - 1].text>>]
    IN  Table(1, IF header = 0 THEN << >> ELSE lines[header].text, FlattenSeq(cells))

-----------------------------------------------------------------------------
(* Build: one action per kind of line.                                     *)

Closed == CloseLists(Flush(builder))

Styled(row) == [row EXCEPT !.style = Line.style]

ReadBlank == Reading({"BLANK"}) /\ Consumed(Closed, i)

ReadComment == Reading({"COMMENT"}) /\ Consumed(Flush(builder), i)

ReadHeading ==
    Reading({"HEADING"}) /\ Consumed(Emitted(Closed, Styled(Row("heading", 1, Line.text))), i)

ReadQuote ==
    /\ Reading({"BLOCKQUOTE"})
    /\ Consumed(AllEmitted(Closed, <<Styled(Row("blockquote", 1, << >>)),
                                     Row("paragraph", 2, Line.text)>>), i)

EndOfCode(begin) == FirstFrom(begin + 1, LAMBDA l : l.kind = "BLANK")

\* A listing runs to the next blank line, each line after the first as it
\* stands in the source.
ReadCode ==
    /\ Reading({"CODE"})
    /\ LET end == EndOfCode(i)
           rest == FlattenSeq([n \in 1 .. end - i - 1 |-> lines[i + n].raw])
       IN  Consumed(Emitted(Closed, Styled(Row("code", 1, Line.text \o rest))), end - 1)

ReadRaw ==
    /\ Reading({"NOTEXTILE", "HTML_BLOCK"})
    /\ Consumed(Emitted(Closed, Row("raw", 1, Line.text)), i)

ReadItem == Reading({"LIST_ITEM"}) /\ Consumed(ListItem(Flush(builder), Line), i)

ReadTable ==
    /\ Reading({"TABLE_ROW"})
    /\ Consumed(Emitted(Closed, TableOf(i)), EndOfTable(i) - 1)

ReadPara ==
    /\ Reading({"PARA"})
    /\ Consumed([Closed EXCEPT !.pending_style = Line.style, !.para = Line.text], i)

ReadText ==
    /\ Reading({"TEXT"})
    /\ Consumed([CloseLists(builder) EXCEPT !.para = @ \o Line.text], i)

ReturnRows == phase = "build" /\ i > Len(lines) /\ Returned(Closed)

Next ==
    \/ ScanLine \/ StartBuild
    \/ ReadBlank \/ ReadComment \/ ReadHeading \/ ReadQuote \/ ReadCode \/ ReadRaw
    \/ ReadItem \/ ReadTable \/ ReadPara \/ ReadText
    \/ ReturnRows
=============================================================================
