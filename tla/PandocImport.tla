---------------------------- MODULE PandocImport ----------------------------
(***************************************************************************)
(* The way in of the pandoc converter: one block, inline or metadata value *)
(* of the document to its rows (src/src/pandoc_block_convert.cpp and       *)
(* src/src/pandoc_inline_convert.cpp).  A row's level is its depth, and    *)
(* that is all that is left of the tree.                                   *)
(***************************************************************************)
EXTENDS Integers, PandocAst

Row(kind, type, level, content) ==
    [kind |-> kind, type |-> type, level |-> level, content |-> content,
     class |-> "", role |-> "", tuple |-> Node(""), grid |-> << >>, attributes |-> FALSE]

BlockRow(type, level, content) == Row("block", type, level, content)
InlineRow(type, level, content) == Row("inline", type, level, content)
ValueRow(type, level, content) == Row("value", type, level, content)

-----------------------------------------------------------------------------
(* Inlines: FlattenPandocInlinesVal.                                       *)

LeafType == [Str |-> "text", Space |-> "space", SoftBreak |-> "softbreak",
             LineBreak |-> "linebreak", Code |-> "code", Math |-> "math", RawInline |-> "raw"]

EmphasisType == [Strong |-> "bold", Emph |-> "italic", Underline |-> "underline",
                 Strikeout |-> "strikethrough", Superscript |-> "superscript",
                 Subscript |-> "subscript", SmallCaps |-> "smallcaps"]

HolderType == [Link |-> "link", Quoted |-> "quoted", Cite |-> "cite", Span |-> "span"]

WrapperType == EmphasisType @@ HolderType

LeafText(n) ==
    CASE n.t = "Space" -> <<Blank>>
      [] n.t = "LineBreak" -> <<NewLine>>
      [] OTHER -> n.text

\* InlineValuesToText: an image's alt text, from the rows of its inlines.
RowsText(rows) ==
    Each(rows, LAMBDA r : CASE r.type \in {"space", "softbreak"} -> <<Blank>>
                            [] r.type = "linebreak" -> <<NewLine>>
                            [] OTHER -> r.content)

\* Constructors whose `c` is a tuple, or a list of lists.
NotAnInlineList == Lists \cup {"Header", "DefinitionList", "Table", "LineBlock", "Figure", "Div"}

\* What the flattening reaches below a constructor it does not know: the
\* objects in its `c`, when that is a list of objects.
InlineList(n) == IF n.t \in NotAnInlineList THEN << >> ELSE n.inl \o n.kids

RECURSIVE Flatten(_, _), Flattened(_, _), NoteBlock(_, _)

\* One inline: a row for itself, the rows below it one deeper.
Flattened(n, level) ==
    IF n.t \in DOMAIN LeafType
    THEN <<[InlineRow(LeafType[n.t], level, LeafText(n)) EXCEPT !.class = n.class]>>
    ELSE IF n.t \in DOMAIN WrapperType
    THEN <<[InlineRow(WrapperType[n.t], level, << >>) EXCEPT !.class = n.class]>>
            \o Flatten(n.inl, level + 1)
    ELSE IF n.t = "Image"
    THEN <<[InlineRow("image", level, RowsText(Flatten(n.inl, level + 1)))
                EXCEPT !.class = n.class]>>
    ELSE IF n.t = "Note"
    THEN <<InlineRow("note", level, << >>)>>
            \o Each(n.kids, LAMBDA b : NoteBlock(b, level + 1))
    ELSE <<[InlineRow("generic", level, << >>) EXCEPT !.class = n.t]>>
            \o Flatten(InlineList(n), level + 1)

\* A block of a note: the inlines of a paragraph, of any other block a marker
\* and what can be reached below it.
NoteBlock(b, level) ==
    IF b.t \in {"Para", "Plain"} THEN Flatten(b.inl, level)
    ELSE <<[InlineRow("generic", level, << >>) EXCEPT !.class = b.t]>>
            \o Flatten(InlineList(b), level + 1)

Flatten(inls, level) == Each(inls, LAMBDA n : Flattened(n, level))

-----------------------------------------------------------------------------
(* Blocks: ProcessPandocBlockVal.                                          *)

\* InlinesAreTextOnly.
TextOnly(rows) == \A n \in DOMAIN rows : rows[n].type \in {"text", "space"}

\* A block with inlines: text alone stays in its content, anything richer
\* becomes rows below it and the content goes, except a heading's.
WithInlines(row, inls) ==
    LET below == Flatten(inls, row.level + 1)
    IN  IF TextOnly(below) THEN <<row>>
        ELSE IF row.type = "heading" THEN <<row>> \o below
        ELSE <<[row EXCEPT !.content = << >>]>> \o below

ParagraphType == [Para |-> "paragraph", Plain |-> "plain"]

ParagraphRows(b, level) ==
    WithInlines(BlockRow(ParagraphType[b.t], level, InlinesText(b.inl)), b.inl)

HeaderRows(b, level) ==
    WithInlines([BlockRow("heading", level, InlinesText(b.inl)) EXCEPT !.class = b.class],
                b.inl)

\* A line's end is not its content: trailing line ends are trimmed.
TrimmedEnd(text) ==
    SubSeq(text, 1, FoldLeftDomain(LAMBDA last, n : IF text[n] = NewLine THEN last ELSE n,
                                   0, text))

CodeRows(b, level) ==
    <<[BlockRow("code", level, TrimmedEnd(b.text)) EXCEPT !.class = b.class]>>

RawRows(b, level) == <<[BlockRow("raw", level, b.text) EXCEPT !.class = b.class]>>

\* Lines in the content with line ends between; if any of them is rich, as
\* rows with linebreaks between and no content.
LineBlockRows(b, level) ==
    LET lines == [n \in DOMAIN b.kids |-> b.kids[n].inl]
        Between(n, break, line) == IF n = 1 THEN line ELSE break \o line
        joined == FlattenSeq([n \in DOMAIN lines |->
                      Between(n, <<NewLine>>, InlinesText(lines[n]))])
        below == FlattenSeq([n \in DOMAIN lines |->
                     Between(n, <<InlineRow("linebreak", level + 1, << >>)>>,
                             Flatten(lines[n], level + 1))])
    IN  IF \A n \in DOMAIN lines : TextOnly(Flatten(lines[n], level + 1))
        THEN <<BlockRow("lineblock", level, joined)>>
        ELSE <<BlockRow("lineblock", level, << >>)>> \o below

\* The projection for whoever shows the table, the tuple for the way back.
TableRows(b, level) ==
    LET grid == Projection(b)
        texts == FlattenSeq([r \in DOMAIN grid |-> FlattenSeq(grid[r])])
    IN  <<[BlockRow("table", level, <<Braces>> \o texts) EXCEPT !.tuple = b, !.grid = grid]>>

\* A constructor nobody knows is kept verbatim as json.
GenericRows(b, level) ==
    <<[BlockRow("generic", level, <<Braces>> \o Words(b)) EXCEPT !.class = b.t, !.tuple = b]>>

ListType == [BulletList |-> "bullet", OrderedList |-> "ordered"]

SectioningRoles == {"section", "article", "aside", "nav", "header", "footer", "main"}

\* A div's type and class: sectioning classes make a section, "page" a page,
\* whose class goes.
DivRow(b, level) ==
    IF b.class \in SectioningRoles
    THEN [BlockRow("section", level, << >>) EXCEPT !.class = b.class, !.role = b.class]
    ELSE IF b.class = "page" THEN BlockRow("page", level, << >>)
    ELSE [BlockRow("div", level, << >>) EXCEPT !.class = b.class]

RECURSIVE BlockRows(_, _)

ChildRows(blocks, parent_level) == Each(blocks, LAMBDA b : BlockRows(b, parent_level))

ItemRows(item, role, level) ==
    <<[BlockRow("list_item", level, << >>) EXCEPT !.role = role]>> \o ChildRows(item.kids, level)

\* Mutated form: the items stand beside their list.
ListRowsFlat(b, level) ==
    <<[BlockRow("list", level, << >>) EXCEPT !.role = ListType[b.t], !.class = b.class]>>
        \o Each(b.kids, LAMBDA item : ItemRows(item, "", level))

ListRows(b, level) ==
    <<[BlockRow("list", level, << >>) EXCEPT !.role = ListType[b.t], !.class = b.class]>>
        \o Each(b.kids, LAMBDA item : ItemRows(item, "", level + 1))

\* Terms and their definitions are items of one list, told apart by role; the
\* term's inlines are flattened into a plain.
DefinitionListRows(b, level) ==
    LET TermRows(term) ==
            <<[BlockRow("list_item", level + 1, << >>) EXCEPT !.role = "term"],
              BlockRow("plain", level + 2, InlinesText(term.inl))>>
                \o Each(term.kids, LAMBDA def : ItemRows(def, "definition", level + 1))
    IN  <<[BlockRow("list", level, << >>) EXCEPT !.role = "definition"]>>
            \o Each(b.kids, TermRows)

\* A figure's blocks, then its caption and the caption's blocks, if any.
FigureRows(b, level) ==
    <<BlockRow("figure", level, << >>)>> \o ChildRows(b.kids, level)
        \o (IF b.cap = << >> THEN << >>
            ELSE <<[BlockRow("caption", level + 1, << >>) EXCEPT !.class = b.class]>>
                    \o ChildRows(b.cap, level + 1))

\* The rows of a block whose parent stands at parent_level, 0 for none.
BlockRows(b, parent_level) ==
    LET level == parent_level + 1
    IN  CASE b.t = "Header" -> HeaderRows(b, level)
          [] b.t \in {"Para", "Plain"} -> ParagraphRows(b, level)
          [] b.t = "CodeBlock" -> CodeRows(b, level)
          [] b.t = "BlockQuote" ->
                 <<BlockRow("blockquote", level, << >>)>> \o ChildRows(b.kids, level)
          [] b.t \in Lists -> ListRows(b, level)
          [] b.t = "DefinitionList" -> DefinitionListRows(b, level)
          [] b.t = "Table" -> TableRows(b, level)
          [] b.t = "LineBlock" -> LineBlockRows(b, level)
          [] b.t = "HorizontalRule" -> <<BlockRow("hr", level, << >>)>>
          [] b.t = "RawBlock" -> RawRows(b, level)
          [] b.t = "Figure" -> FigureRows(b, level)
          [] b.t = "Div" -> <<DivRow(b, level)>> \o ChildRows(b.kids, level)
          [] OTHER -> GenericRows(b, level)

-----------------------------------------------------------------------------
(* Metadata: ProcessPandocMetaVal.                                         *)

MetaType == [MetaString |-> "string", MetaBool |-> "bool", MetaInlines |-> "inlines",
             MetaBlocks |-> "blocks", MetaList |-> "list", MetaMap |-> "map"]

RECURSIVE MetaRows(_, _)
MetaRows(v, level) ==
    IF v.t \notin DOMAIN MetaType
    THEN <<[ValueRow("generic", level, <<Braces>> \o Words(v)) EXCEPT !.class = v.class,
                                                                     !.tuple = v]>>
    ELSE LET row == [ValueRow(MetaType[v.t], level, v.text) EXCEPT !.class = v.class]
         IN  CASE v.t = "MetaInlines" -> <<row>> \o Flatten(v.inl, level + 1)
               [] v.t = "MetaBlocks" -> <<row>> \o ChildRows(v.kids, level)
               [] OTHER -> <<row>> \o Each(v.kids, LAMBDA k : MetaRows(k, level + 1))
=============================================================================
