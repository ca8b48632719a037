----------------------------- MODULE EpubReader -----------------------------
(***************************************************************************)
(* The EPUB reader (libpanduck/src/epub.cpp): WalkBlocks over the body of  *)
(* a content document, the metadata behind it, and ReadEpub.               *)
(*                                                                         *)
(* A source line is a node of the XHTML tree, in document order; indent is *)
(* its depth in the body.  lead is the tag of an element, "word" of a run  *)
(* of text; name is an epub:type; of an img, text says that it has an alt  *)
(* text.  The package's properties come last.  WalkBlocks calls itself for *)
(* the children of a node: the calls are the frames of builder.stack,      *)
(* innermost last, and one step is one child.                              *)
(***************************************************************************)
EXTENDS MarkupRows

Heading == {"h1", "h2", "h3", "h4", "h5", "h6"}

\* A list element and the type of its list.
ListType == [ul |-> "bullet", ol |-> "ordered", dl |-> "definition"]

BLOCK_LEAF == Heading \cup {"p", "li", "dt", "dd", "pre", "figcaption", "caption"}
TRANSPARENT == {"body", "figure", "hgroup", "ul", "ol"}
SECTIONING == {"section", "article", "aside", "nav", "header", "footer", "main"}
SKIPPED == {"head", "script", "style", "template", "svg", "math"}

IsBlockTag(tag) ==
    tag \in BLOCK_LEAF \cup TRANSPARENT \cup SECTIONING \cup SKIPPED \cup {"div", "blockquote", "hr"}

-----------------------------------------------------------------------------
(* The tree.                                                               *)

\* The last node below n, n itself when there is none.
LastBelow(n) ==
    CHOOSE last \in n .. Len(source) :
        /\ \A m \in n + 1 .. last : source[m].indent > source[n].indent
        /\ last = Len(source) \/ source[last + 1].indent <= source[n].indent

Children(n) == {m \in n + 1 .. LastBelow(n) : source[m].indent = source[n].indent + 1}

\* The parser hands the walk a tree.
Parse ==
    /\ phase = "scan" /\ i <= Len(source)
    /\ Scanned([kind |-> source[i].lead, last |-> LastBelow(i)], i)

\* A frame: where its children end, the level of their blocks, and the
\* position of a block that goes if they emit none, 0 for none.
Frame(last, level, wrapper) == [last |-> last, level |-> level, wrapper |-> wrapper]

StartWalk ==
    LET body == SelectSeq(lines, LAMBDA l : l.kind # "meta")
    IN  BuildFrom(body, [blocks |-> << >>, stack |-> <<Frame(Len(body), 1, 0)>>])

-----------------------------------------------------------------------------
(* CollectRuns, CellText, EmitBlock: the whole text below a node.          *)

InOrder(nodes) == SelectSeq([n \in DOMAIN source |-> n], LAMBDA n : n \in nodes)

\* The texts and images below a node that are in nothing skipped.
Runs(n) ==
    {m \in n + 1 .. LastBelow(n) :
        /\ source[m].lead \in {"word", "img"}
        /\ \A k \in n + 1 .. m - 1 : LastBelow(k) >= m => source[k].lead \notin SKIPPED}

TextBelow(n) ==
    LET texts == InOrder({m \in Runs(n) : source[m].text})
    IN  [k \in DOMAIN texts |-> TextOf(texts[k])]

\* A run that is an image, or in a link or in bold, is kept though it be blank.
IsFormatted(n) ==
    \E m \in Runs(n) :
        source[m].lead = "img" \/ \E k \in n + 1 .. m - 1 :
                                      LastBelow(k) >= m /\ source[k].lead \in {"a", "b"}

EmitBlock(b, n, row) ==
    IF TextBelow(n) = << >> /\ ~IsFormatted(n) THEN b
    ELSE Emitted(b, [row EXCEPT !.text = TextBelow(n)])

-----------------------------------------------------------------------------
(* WalkBlocks, child by child.                                             *)

Level == Last(builder.stack).level

\* The next child of the innermost call is of one of these kinds.
At(kinds) == Reading(kinds) /\ i <= Last(builder.stack).last

\* The child has been read with everything below it.
Read(b) == Consumed(b, Line.last)

\* WalkBlocks is called for the child.
Walked(b, level, wrapper) ==
    Consumed([b EXCEPT !.stack = Append(@, Frame(Line.last, level, wrapper))], i)

\* A run of text outside any block.
WalkText ==
    /\ At({"word"})
    /\ Read(IF source[i].text THEN Emitted(builder, Row("plain", Level, <<TextOf(i)>>)) ELSE builder)

WalkSkipped == At(SKIPPED) /\ Read(builder)

WalkHeading == At(Heading) /\ Read(EmitBlock(builder, i, Row("heading", Level, << >>)))

WalkRule == At({"hr"}) /\ Read(Emitted(builder, Row("hr", Level, << >>)))

\* Of preformatted text, the first run that is not in an element.
PreText(n) ==
    LET own == {m \in Children(n) : source[m].lead = "word"}
        first == CHOOSE m \in own : \A k \in own : m <= k
    IN  IF own = {} THEN << >> ELSE TextIf(source[first].text, TextOf(first))

WalkPre == At({"pre"}) /\ Read(Emitted(builder, Row("code", Level, PreText(i))))

WalkList ==
    /\ At(DOMAIN ListType)
    /\ Walked(Emitted(builder, List(Level, ListType[Line.kind])), Level + 1, 0)

\* A div or a section may prove to be layout; a blockquote is kept.
WalkContainer ==
    /\ At(SECTIONING \cup {"blockquote", "div"})
    /\ LET type == IF Line.kind \in SECTIONING THEN "section" ELSE Line.kind
           role == IF Line.kind \in SECTIONING THEN Line.kind ELSE ""
           b == Emitted(builder, [Row(type, Level, << >>) EXCEPT !.role = role])
       IN  Walked(b, Level + 1, IF Line.kind = "blockquote" THEN 0 ELSE Len(b.blocks))

\* The kinds that are told apart before an epub:type is looked at.
Before == {"word", "hr", "pre", "blockquote", "div"} \cup Heading \cup SKIPPED \cup SECTIONING \cup DOMAIN ListType

IsPageBreak == source[i].name = "pagebreak"

WalkPageBreak ==
    /\ phase = "build" /\ i <= Len(lines) /\ i <= Last(builder.stack).last
    /\ Line.kind \notin Before /\ IsPageBreak
    /\ Read(Emitted(builder, Row("page", Level, << >>)))

-----------------------------------------------------------------------------
(* Tables.                                                                 *)

\* Mutated form: rows in groups are not collected.
RowsRightBelow(n) == InOrder({m \in Children(n) : source[m].lead = "tr"})

\* CollectRows: the rows below a node, in groups of rows or not.
RowsOf(n) ==
    InOrder({m \in n + 1 .. LastBelow(n) :
                /\ source[m].lead = "tr"
                /\ \A k \in n + 1 .. m - 1 :
                       LastBelow(k) >= m => source[k].lead \in {"thead", "tbody", "tfoot"}})

CellsOf(row) == InOrder({m \in Children(row) : source[m].lead \in {"th", "td"}})

CellTexts(row) == FlattenSeq([c \in DOMAIN CellsOf(row) |-> TextBelow(CellsOf(row)[c])])

IsHeaderRow(row) ==
    CellsOf(row) # << >> /\ \A c \in DOMAIN CellsOf(row) : source[CellsOf(row)[c]].lead = "th"

FirstChild(n, tag) ==
    LET named == {m \in Children(n) : source[m].lead = tag}
    IN  IF named = {} THEN 0 ELSE CHOOSE m \in named : \A k \in named : m <= k

\* The rows that stand before the body: those of the thead, of which the first
\* is the header, or a first row of header cells.
HeadRows(n) ==
    LET thead == FirstChild(n, "thead")
        all == RowsOf(n)
    IN  IF thead # 0 THEN RowsOf(thead)
        ELSE IF all # << >> /\ IsHeaderRow(all[1]) THEN <<all[1]>>
        ELSE << >>

BodyRows(n) ==
    SelectSeq(SubSeq(RowsOf(n), Len(HeadRows(n)) + 1, Len(RowsOf(n))), LAMBDA row : CellsOf(row) # << >>)

\* A table without cells is left out, and its caption with it.
WithTable(b, n) ==
    LET head == HeadRows(n)
        body == BodyRows(n)
        header == IF head = << >> THEN << >> ELSE CellTexts(head[1])
        caption == FirstChild(n, "caption")
        table == Emitted(b, Table(Level, header, [r \in DOMAIN body |-> CellTexts(body[r])]))
    IN  IF (head = << >> \/ CellsOf(head[1]) = << >>) /\ body = << >> THEN b
        ELSE IF caption = 0 THEN table
        ELSE EmitBlock(table, caption, Row("caption", Level + 1, << >>))

WalkTable == At({"table"}) /\ ~IsPageBreak /\ Read(WithTable(builder, i))

-----------------------------------------------------------------------------

LeafRow(tag, level) ==
    CASE tag \in {"li", "dt", "dd"} ->
           ItemOf(level, CASE tag = "dt" -> "term" [] tag = "dd" -> "definition" [] OTHER -> "", << >>)
      [] tag \in {"figcaption", "caption"} -> Row("caption", level, << >>)
      [] OTHER -> Row("paragraph", level, << >>)

HasBlockChildren(n) == \E m \in Children(n) : IsBlockTag(source[m].lead)

Leaf == BLOCK_LEAF \ (Heading \cup {"pre"})

\* Mutated form: the blocks in a leaf stand beside it.
WalkLoose ==
    /\ At(Leaf) /\ ~IsPageBreak /\ HasBlockChildren(i)
    /\ Walked(Emitted(builder, LeafRow(Line.kind, Level)), Level, 0)

\* A leaf that holds blocks contains them, and its own text is beside them.
WalkLeaf ==
    /\ At(Leaf) /\ ~IsPageBreak /\ HasBlockChildren(i)
    /\ Walked(Emitted(builder, LeafRow(Line.kind, Level)), Level + 1, 0)

EmitLeaf ==
    /\ At(Leaf) /\ ~IsPageBreak /\ ~HasBlockChildren(i)
    /\ Read(EmitBlock(builder, i, LeafRow(Line.kind, Level)))

\* Everything else is looked through, an inline element or an image as well.
WalkTransparent ==
    /\ phase = "build" /\ i <= Len(lines) /\ i <= Last(builder.stack).last
    /\ Line.kind \notin Before \cup {"table"} \cup Leaf /\ ~IsPageBreak
    /\ Walked(builder, Level, 0)

\* WalkBlocks returns: a wrapper that is still the last block held nothing.
WalkReturns ==
    LET frame == Last(builder.stack)
        b == IF frame.wrapper # 0 /\ Len(builder.blocks) = frame.wrapper
             THEN [builder EXCEPT !.blocks = Front(@)] ELSE builder
    IN  /\ phase = "build" /\ Len(builder.stack) > 1 /\ i > frame.last
        /\ Consumed([b EXCEPT !.stack = Front(@)], i - 1)

-----------------------------------------------------------------------------
(* CollectMetadata and the end.                                            *)

\* Dublin Core's fields in the order of the names pandoc gives them: creator
\* is author there.
Fields == <<"creator", "date", "identifier", "language", "title">>

\* The first element of a name is the field; a blank one is a field too.
WithMetadata(b) ==
    LET Stating(name) == {n \in DOMAIN source : source[n].lead = "meta" /\ source[n].name = name}
        stated == SelectSeq(Fields, LAMBDA name : Stating(name) # {})
        LineFor(name) == CHOOSE n \in Stating(name) : \A m \in Stating(name) : n <= m
    IN  AllEmitted(b, [k \in DOMAIN stated |->
            [Row("inlines", 1, TextIf(source[LineFor(stated[k])].text, TextOf(LineFor(stated[k]))))
                EXCEPT !.kind = "value", !.key = stated[k]]])

ReturnRows ==
    /\ phase = "build" /\ i > Len(lines) /\ Len(builder.stack) = 1
    /\ Returned(WithMetadata(builder))

Next ==
    \/ Parse \/ StartWalk
    \/ WalkText \/ WalkSkipped \/ WalkHeading \/ WalkRule \/ WalkPre
    \/ WalkList \/ WalkContainer \/ WalkPageBreak \/ WalkTable
    \/ WalkLeaf \/ EmitLeaf \/ WalkTransparent \/ WalkReturns
    \/ ReturnRows
=============================================================================
