----------------------------- MODULE OrgReader -----------------------------
(***************************************************************************)
(* The Org reader (libpanduck/src/org.cpp and org_scanner.cpp).            *)
(***************************************************************************)
EXTENDS MarkupRows

MetaKey == {"TITLE", "AUTHOR", "DATE"}

\* The order of a std::map of the keys.
MetaOrder == <<"AUTHOR", "DATE", "TITLE">>

-----------------------------------------------------------------------------
(* ScanOrg.                                                                *)

\* A `*` in the first column is a heading, and further right a bullet.
IsHeading(s) == s.lead = "*" /\ s.indent = 0

IsItem(s) == s.lead \in {"-", "1."} \/ (s.lead = "*" /\ s.indent > 0)

KindOf(s) ==
    CASE s.lead = "" -> "BLANK"
      [] s.lead = "#+BEGIN_" -> "BLOCK_BEGIN"
      [] s.lead = "#+END_" -> "BLOCK_END"
      [] s.lead = "#+" /\ s.name # "" -> "KEYWORD"
      [] s.lead = "#" -> "COMMENT"
      [] s.lead = ":" -> IF s.name = "END" THEN "DRAWER_END" ELSE "DRAWER_BEGIN"
      [] s.lead = "-----" -> "HRULE"
      [] s.lead = "|-" -> "TABLE_RULE"
      [] s.lead = "|" -> "TABLE_ROW"
      [] IsHeading(s) -> "HEADING"
      [] IsItem(s) -> "LIST_ITEM"
      [] OTHER -> "TEXT"

\* A list item that holds ` :: ` has a term before it; a table row's text and
\* a plain line's text are the whole line without its indentation.
ScannedLine(n) ==
    LET s == source[n]
        kind == KindOf(s)
    IN  [kind |-> kind, level |-> s.indent, ordered |-> s.lead = "1.", key |-> s.name,
         definition |-> kind = "LIST_ITEM" /\ s.definition,
         term |-> TextIf(kind = "LIST_ITEM" /\ s.definition, TermOf(n)),
         text |-> IF kind \in {"TEXT", "TABLE_ROW"} THEN Trimmed(n)
                  ELSE TextIf(s.text /\ kind \in {"HEADING", "LIST_ITEM", "COMMENT", "KEYWORD",
                                                 "BLOCK_BEGIN"}, TextOf(n))]

ScanLine == phase = "scan" /\ i <= Len(source) /\ Scanned(ScannedLine(i), i)

\* The blank a final newline leaves behind is dropped.
StartBuild ==
    BuildFrom(IF lines # << >> /\ Last(lines).kind = "BLANK" THEN Front(lines) ELSE lines,
              [blocks |-> << >>, para |-> << >>, lists |-> << >>, meta |-> << >>])

-----------------------------------------------------------------------------
(* Paragraphs and lists.                                                   *)

Depth(b) == IF b.lists = << >> THEN 1 ELSE Last(b.lists).level + 1

\* A paragraph in a list fills the item before it when that one is empty, and
\* is emitted beside the items otherwise.
FlushParagraph(b) ==
    LET flushed == [b EXCEPT !.para = << >>]
    IN  IF b.para = << >> THEN b
        ELSE IF b.lists # << >> /\ Last(b.blocks).type = "list_item" /\ Last(b.blocks).text = << >>
        THEN [flushed EXCEPT !.blocks[Len(b.blocks)].text = b.para]
        ELSE Emitted(flushed, Row("paragraph", Depth(b), b.para))

\* Indents grow along the stack, so the lists to close are its end.
CloseLists(b, indent) == [b EXCEPT !.lists = SelectSeq(@, LAMBDA l : l.indent <= indent)]

\* Mutated form: the paragraph before another element is left open.
CloseAllButParagraph(b) == CloseLists(b, -1)

CloseAll(b) == CloseLists(FlushParagraph(b), -1)

ListTypeOf(line) ==
    IF line.definition THEN "definition" ELSE IF line.ordered THEN "ordered" ELSE "bullet"

\* A list is opened for an item further right than the innermost one's.
ListOpened(b, line) ==
    IF b.lists # << >> /\ Last(b.lists).indent >= line.level THEN b
    ELSE [Emitted(b, List(Depth(b), ListTypeOf(line)))
            EXCEPT !.lists = Append(@, [indent |-> line.level, level |-> Depth(b)])]

\* A definition is two rows, its term and its definition.
ItemRows(b, line) ==
    IF line.definition
    THEN <<ItemOf(Depth(b), "term", line.term), ItemOf(Depth(b), "definition", line.text)>>
    ELSE <<ItemOf(Depth(b), "", line.text)>>

Item(b, line) ==
    LET opened == ListOpened(CloseLists(b, line.level), line)
    IN  AllEmitted(opened, ItemRows(opened, line))

-----------------------------------------------------------------------------
(* Blocks, tables and keywords.                                            *)

\* The texts of the lines first .. last.
Body(first, last) == FlattenSeq([n \in 1 .. last - first + 1 |-> lines[first + n - 1].text])

\* A block ends at the #+END_ line of its own name, or with the document.
EndOfBlock(begin) ==
    FirstFrom(begin + 1, LAMBDA l : l.kind = "BLOCK_END" /\ l.key = lines[begin].key)

BlockRows(b, begin) ==
    LET body == Body(begin + 1, EndOfBlock(begin) - 1)
    IN  IF lines[begin].key = "QUOTE"
        THEN <<Row("blockquote", Depth(b), << >>), Row("paragraph", Depth(b) + 1, body)>>
        ELSE <<Row("code", Depth(b), body)>>

\* One row for each line first .. last that is not a rule.
LineRows(first, last) ==
    LET texts == [n \in 1 .. last - first + 1 |-> lines[first + n - 1].text]
    IN  SelectSeq(texts, LAMBDA t : t # << >>)

EndOfTable(begin) == FirstFrom(begin, LAMBDA l : l.kind \notin {"TABLE_ROW", "TABLE_RULE"})

\* A rule below the first of several rows makes it the header; a table of
\* rules alone is no table.
TableRows(b, begin) ==
    LET end == EndOfTable(begin)
        found == {n \in begin .. end - 1 : lines[n].kind = "TABLE_ROW"}
        first == CHOOSE n \in found : \A m \in found : n <= m
        ruled == /\ \E n \in found : n # first
                 /\ lines[first + 1].kind = "TABLE_RULE"
    IN  IF found = {} THEN << >>
        ELSE IF ruled THEN <<Table(Depth(b), Body(first, first), LineRows(first + 1, end - 1))>>
        ELSE <<Table(Depth(b), << >>, LineRows(begin, end - 1))>>

\* Title, author and date are metadata, and repeated ones are joined; any
\* other keyword is held raw, at the top level.
Keyword(b, line) ==
    IF line.key \notin MetaKey THEN Emitted(b, Row("raw", 1, line.text))
    ELSE [b EXCEPT !.meta = [k \in DOMAIN @ \cup {line.key} |->
                                (IF k \in DOMAIN @ THEN @[k] ELSE << >>)
                                \o (IF k = line.key THEN line.text ELSE << >>)]]

EmitMetadata(b) ==
    LET stated == SelectSeq(MetaOrder, LAMBDA k : k \in DOMAIN b.meta)
    IN  AllEmitted(b, [n \in DOMAIN stated |->
            [Row("inlines", 1, b.meta[stated[n]]) EXCEPT !.kind = "value", !.key = stated[n]]])

-----------------------------------------------------------------------------
(* Build: one action per kind of line.                                     *)

ReadBlank == Reading({"BLANK"}) /\ Consumed(CloseAll(builder), i)

ReadComment == Reading({"COMMENT"}) /\ Consumed(builder, i)

ReadKeyword == Reading({"KEYWORD"}) /\ Consumed(Keyword(FlushParagraph(builder), Line), i)

ReadHeading ==
    Reading({"HEADING"}) /\ Consumed(Emitted(CloseAll(builder), Row("heading", 1, Line.text)), i)

ReadRule == Reading({"HRULE"}) /\ Consumed(Emitted(CloseAll(builder), Row("hr", 1, << >>)), i)

ReadBlock ==
    /\ Reading({"BLOCK_BEGIN"})
    /\ LET b == CloseAll(builder) IN Consumed(AllEmitted(b, BlockRows(b, i)), EndOfBlock(i))

ReadTable ==
    /\ Reading({"TABLE_ROW", "TABLE_RULE"})
    /\ LET b == CloseAll(builder) IN Consumed(AllEmitted(b, TableRows(b, i)), EndOfTable(i) - 1)

ReadItem == Reading({"LIST_ITEM"}) /\ Consumed(Item(FlushParagraph(builder), Line), i)

ReadText == Reading({"TEXT"}) /\ Consumed([builder EXCEPT !.para = @ \o Line.text], i)

\* Mutated form: a drawer without an end takes the rest of the document.
EndOfClosedDrawer(begin) == FirstFrom(begin + 1, LAMBDA l : l.kind = "DRAWER_END")

\* Mutated form: a drawer ends before the next one, searched from its own line.
EndBeforeDrawer(begin) ==
    FirstFrom(begin, LAMBDA l : l.kind \in {"DRAWER_BEGIN", "DRAWER_END", "BLANK"}) - 1

\* A drawer is skipped, to its end or to the next blank line, which goes too.
EndOfDrawer(begin) == FirstFrom(begin + 1, LAMBDA l : l.kind \in {"DRAWER_END", "BLANK"})

ReadDrawer == Reading({"DRAWER_BEGIN"}) /\ Consumed(builder, EndOfDrawer(i))

ReadStrayEnd == Reading({"DRAWER_END", "BLOCK_END"}) /\ Consumed(builder, i)

ReturnRows == phase = "build" /\ i > Len(lines) /\ Returned(EmitMetadata(CloseAll(builder)))

Next ==
    \/ ScanLine \/ StartBuild
    \/ ReadBlank \/ ReadComment \/ ReadKeyword \/ ReadHeading \/ ReadRule \/ ReadBlock
    \/ ReadTable \/ ReadItem \/ ReadText \/ ReadDrawer \/ ReadStrayEnd
    \/ ReturnRows
=============================================================================
