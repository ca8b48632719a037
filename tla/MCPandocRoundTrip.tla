------------------------- MODULE MCPandocRoundTrip -------------------------
(***************************************************************************)
(* Documents of up to three blocks, nested up to three deep.               *)
(***************************************************************************)
EXTENDS PandocRoundTrip

MCBlockType == {"heading", "paragraph", "plain", "code", "blockquote", "list", "list_item",
                "table", "lineblock", "hr", "raw", "figure", "caption", "div", "section", "page",
                "generic", "image", "deflist", "document", "metadata", "toc"}

-----------------------------------------------------------------------------
(* Inlines, by a word that tells them apart.                               *)

S(w) == Str(<<w>>)
Strong(w) == Inline("Strong", <<S(w)>>)

PlainText(w) == <<S(w)>>
RichText(w) == <<Strong(w)>>

\* One of every inline.
EveryInline ==
    { <<S("a"), Node("Space"), S("b")>>, <<S("a"), Node("LineBreak"), S("b")>>,
      <<S("a"), Node("SoftBreak"), Strong("b")>>, <<Inline("Emph", <<Strong("a"), S("b")>>)>>,
      <<Inline("Underline", << >>)>>, <<Text("Code", <<"a">>)>>,
      <<Classed("inline", Text("Math", <<"a">>))>>, <<Classed("block", Text("Math", <<"a">>))>>,
      <<Classed("tex", Text("RawInline", <<"a">>)), S("b")>>,
      <<Classed("url", Inline("Link", <<Strong("a")>>)), S("b")>>,
      <<Classed("single", Inline("Quoted", <<S("a")>>))>>, <<Inline("Cite", <<S("a")>>)>>,
      <<Inline("Span", <<Inline("Span", <<Strong("a")>>)>>)>>,
      <<Classed("src", Inline("Image", <<Strong("a"), Node("Space"), S("b")>>))>>,
      <<Inline("Future", <<Strong("a")>>)>>,
      <<S("a"), Group("Note", <<Inline("Para", <<S("b")>>)>>), S("c")>>,
      <<Group("Note", <<Inline("Para", <<S("b")>>), Inline("Para", <<Strong("c")>>)>>)>>,
      <<Group("Note", <<Group("BlockQuote", <<Inline("Para", <<S("b")>>)>>)>>)>>,
      <<Group("Note", <<Text("CodeBlock", <<"b">>)>>), S("c")>> }

-----------------------------------------------------------------------------
(* Blocks.                                                                 *)

Para(inl) == Inline("Para", inl)
PlainBlock(inl) == Inline("Plain", inl)
Header(inl) == Classed("1", Inline("Header", inl))
Code(w) == Classed("py", Text("CodeBlock", <<w>>))
Line(inl) == Inline("Line", inl)
LineBlock(first, second) == Group("LineBlock", <<Line(first), Line(second)>>)
Cell(blocks) == Group("Cell", blocks)
RowOf(text) == Group("Row", <<Cell(<<PlainBlock(text)>>), Cell(<< >>)>>)
Table(w) == Group("Table", <<Group("Head", << >>), Group("Body", <<RowOf(<<S(w)>>)>>),
                             Group("Foot", << >>)>>)
FullTable(w) ==
    Group("Table", <<Group("Head", <<RowOf(<<S(w)>>), RowOf(<<S("head")>>)>>),
                     Group("Body", <<RowOf(<<Strong("body")>>)>>),
                     Group("Foot", <<RowOf(<<S("foot")>>)>>)>>)
Rule == Node("HorizontalRule")
Raw(w) == Classed("tex", Text("RawBlock", <<w>>))
Future(w) == Inline("Future", <<S(w)>>)

Paragraphs(w) == {Para(PlainText(w)), Para(RichText(w)), PlainBlock(PlainText(w)),
                  PlainBlock(RichText(w))}

Leaves(w) == Paragraphs(w) \cup
    {Para(<< >>), Header(PlainText(w)), Header(RichText(w)), Code(w), Raw(w), Rule, Table(w), FullTable(w),
     Future(w), LineBlock(<<S(w)>>, << >>), LineBlock(<<S("line")>>, <<Strong(w)>>)}

AnItem(blocks) == Group("Item", blocks)
Div(class, blocks) == Classed(class, Group("Div", blocks))
Quote(blocks) == Group("BlockQuote", blocks)
Bullets(blocks) == Group("BulletList", <<AnItem(blocks)>>)
Figure(blocks, cap) == [Group("Figure", blocks) EXCEPT !.cap = cap]
Defined(blocks) ==
    Group("DefinitionList",
          <<[Node("Term") EXCEPT !.inl = <<S("term")>>, !.kids = <<AnItem(blocks)>>]>>)

\* Every container around the same blocks.
Around(blocks) ==
    {Div("note", blocks), Div("article", blocks), Div("page", blocks), Div("", blocks),
     Quote(blocks), Bullets(blocks), Figure(blocks, << >>), Defined(blocks),
     Figure(<<Para(<<S("img")>>)>>, blocks),
     Classed("3", Group("OrderedList", <<AnItem(<<PlainBlock(<<S("one")>>)>>), AnItem(blocks)>>))}

Alone == UNION {Around(<<b>>) : b \in Leaves("a")}
Pairs == UNION {Around(<<b, c>>) : b \in Leaves("a"), c \in Leaves("b")}
Deep == UNION {Around(<<b>>) : b \in UNION {Around(<<c>>) : c \in Leaves("a")}}

\* A container beside a block, in a container.
Few(w) == Paragraphs(w) \cup {LineBlock(<<S("line")>>, <<Strong(w)>>)}
Beside == UNION {Around(<<x, c>>) \cup Around(<<c, x>>) :
                    x \in UNION {Around(<<b>>) : b \in Few("a")}, c \in Few("b")}

\* Items of three blocks, and containers that hold lists and each other.
Item3 == {Bullets(<<b, c, d>>) :
             b \in {Para(<< >>), Para(PlainText("a")), Code("a"), Bullets(<<PlainBlock(PlainText("a"))>>)},
             c \in {Para(RichText("b")), PlainBlock(PlainText("b")), Bullets(<<Para(RichText("b"))>>)},
             d \in {Para(PlainText("c")), Code("c"), Bullets(<<PlainBlock(PlainText("c"))>>), Rule}}

Meta(t, key, n) == Classed(key, [n EXCEPT !.t = t])
Metadata ==
    { << >>,
      <<Meta("MetaInlines", "title", Inline("", <<S("m"), Strong("n")>>)),
        Meta("MetaBool", "draft", Str(<<"true">>))>>,
      <<Meta("MetaList", "tags", Group("", <<Meta("MetaString", "", Str(<<"m">>)),
                                              Meta("MetaInlines", "", Inline("", <<S("n")>>))>>)),
        Meta("MetaString", "lang", Str(<<"k">>))>>,
      <<Meta("MetaMap", "author", Group("", <<Meta("MetaString", "name", Str(<<"m">>)),
                                               Meta("MetaList", "orgs", Group("", << >>))>>)),
        Meta("MetaFuture", "x", Str(<<"n">>))>>,
      <<Meta("MetaBlocks", "abstract", Group("", <<Para(PlainText("m")), Bullets(<<Para(RichText("n"))>>)>>))>>,
      <<Meta("MetaMap", "x", Group("", <<Meta("MetaBlocks", "abstract",
                                              Group("", <<Para(RichText("m"))>>))>>))>> }

\* A figure with a caption in a cell, of a table alone or in a container.
CellWithFigure(caption) ==
    Group("Table", <<Group("Head", << >>),
                     Group("Body", <<Group("Row", <<Cell(<<Figure(<<PlainBlock(<<S("img")>>)>>, caption)>>)>>)>>),
                     Group("Foot", << >>)>>)
InCells == UNION {{t} \cup Around(<<t>>) : t \in {CellWithFigure(<<p>>) : p \in Paragraphs("a")}}

LastBlocks == Around(<<Para(PlainText("a"))>>) \cup Leaves("a")

Doc(blocks, metadata) == [blocks |-> blocks, meta |-> metadata]

MCDocument ==
    {Doc(<<b>>, << >>) : b \in Leaves("a") \cup {Text("CodeBlock", <<"a", NewLine, "b", NewLine>>)}
                                  \cup Alone \cup Pairs \cup Deep \cup Beside \cup Item3
                                  \cup InCells}
    \cup {Doc(<<f>>, << >>) : f \in UNION {{Para(inl), Header(inl), LineBlock(inl, <<S("z")>>)} : inl \in EveryInline}}
    \cup {Doc(<<Para(PlainText("z")), b>>, m) : b \in LastBlocks, m \in Metadata}

-----------------------------------------------------------------------------
(* Rows of native readers, and rows stored by the converters of old.       *)

Block(type, level, words) == BlockRow(type, level, words)
Inlines(level) == <<InlineRow("text", level, <<"a">>), InlineRow("bold", level, << >>),
                    InlineRow("text", level + 1, <<"b">>)>>
ListRow(level, role) == [Block("list", level, << >>) EXCEPT !.role = role]
ItemRow(level, words) == Block("list_item", level, words)
NativeTableRow(level) ==
    [Block("table", level, <<Braces, "h", "c">>) EXCEPT !.grid = <<<<<<"h">>>>, <<<<"c">>, << >>>>>>]
HeadlessTableRow(level) ==
    [Block("table", level, <<Braces, "c">>) EXCEPT !.grid = <<<< >>, <<<<"c">>>>>>]
StoredListRow(role) ==
    [Block("list", 1, <<Braces, "x", "y">>) EXCEPT !.role = role, !.grid = <<<<"x">>, <<"y">>>>]
StoredRow(type, tuple) ==
    [Block(type, 1, <<Braces>> \o Words(tuple)) EXCEPT !.tuple = tuple]

TextAbove == <<Block("div", 1, <<"d">>), Block("paragraph", 2, <<"p">>)>>

MCNativeRows ==
    { <<NativeTableRow(1), HeadlessTableRow(1)>>,
      <<Block("div", 1, << >>), NativeTableRow(2), Block("hr", 2, << >>), Block("code", 1, <<"d">>)>>,
      <<Block("image", 1, <<"alt">>), Block("toc", 1, <<"t">>), Block("toc", 1, << >>)>>,
      <<Block("toc", 1, << >>)>> \o Inlines(2),
      <<StoredListRow("bullet"), StoredListRow("ordered")>>,
      <<StoredRow("deflist", Defined(<<Para(PlainText("d"))>>)),
        StoredRow("blockquote", Quote(<<Para(PlainText("q"))>>))>>,
      <<Block("deflist", 1, <<"d">>), Block("generic", 1, <<"g">>)>>,
      <<ListRow(1, "bullet"), ItemRow(2, << >>)>> \o Inlines(3)
          \o <<ItemRow(2, <<"c">>), ListRow(3, "ordered"), ItemRow(4, <<"d">>)>>,
      <<ListRow(1, "bullet"), Block("paragraph", 2, <<"s">>), ItemRow(2, <<"i">>),
        Block("code", 2, <<"c">>), Block("paragraph", 1, <<"p">>)>>,
      <<Block("page", 1, << >>), Block("heading", 2, <<"h">>), Block("paragraph", 2, <<"p">>),
        Block("page", 1, << >>), Block("list", 2, << >>), ItemRow(3, <<"i">>)>>,
      <<Block("document", 1, << >>), Block("paragraph", 2, <<"p">>)>>,
      <<Block("metadata", 1, << >>), Block("blockquote", 1, <<"q">>), Block("blockquote", 1, << >>)>>
          \o Inlines(2),
      <<Block("section", 1, <<"s">>), Block("div", 2, <<"a", "b">>)>> \o Inlines(3)
          \o <<Block("figure", 2, <<"f">>)>>,
      <<Block("section", 1, << >>), Block("div", 2, <<"a", "b">>)>> \o Inlines(3)
          \o <<Block("figure", 2, << >>), Block("caption", 3, <<"c">>)>>,
      <<[Block("section", 1, << >>) EXCEPT !.role = "article"], Block("paragraph", 2, <<"p">>)>>,
      TextAbove }

-----------------------------------------------------------------------------
(* Documents that lose words, one of each shape.                           *)

Losing ==
    { Para(<<Group("Note", <<Text("CodeBlock", <<"b">>)>>), S("c")>>),
      Quote(<<Figure(<<Para(<<S("img")>>)>>, <<PlainBlock(RichText("a"))>>)>>),
      Quote(<<LineBlock(RichText("a"), << >>)>>),
      Div("page", <<Header(RichText("a")), Para(PlainText("b"))>>),
      Div("page", <<Para(PlainText("b")), Para(RichText("a"))>>),
      Div("page", <<PlainBlock(PlainText("a"))>>),
      Div("note", <<PlainBlock(RichText("a"))>>),
      Bullets(<<FullTable("a")>>),
      Bullets(<<Para(<< >>), Para(RichText("b")), Code("c")>>),
      Bullets(<<Bullets(<<PlainBlock(PlainText("a"))>>), Bullets(<<PlainBlock(PlainText("b"))>>)>>) }

MCLosingDocument ==
    {Doc(<<b>>, << >>) : b \in Losing}
        \cup {Doc(<<Rule>>, <<Meta("MetaBlocks", "abstract", Group("", <<Para(RichText("m"))>>))>>)}

MCLosingRows ==
    {<<Block("heading", 1, <<"h">>)>> \o [n \in 1 .. 6 |-> Block("paragraph", 1, <<"p">>)] \o TextAbove}
=============================================================================
