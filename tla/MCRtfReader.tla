---------------------------- MODULE MCRtfReader ----------------------------
(* RTF sources put together from the fragments writers produce: paragraphs *)
(* with and without a \pard, headings by outline and by style, items of a  *)
(* bullet and of an ordered list at two depths, table rows, pictures,      *)
(* formatted groups, metadata, ignorable destinations, \u with fallbacks,  *)
(* and stray braces.                                                       *)
EXTENDS RtfPromise

MCBlockType == {"paragraph", "heading", "list", "list_item", "table", "image", "figure", "plain",
                "inlines", "text", "bold", "italic", "underline", "strikethrough"}

W(word) == [word |-> word, param |-> NoParam, text |-> ""]
P(word, n) == [word |-> word, param |-> n, text |-> ""]
T(word, text) == [word |-> word, param |-> NoParam, text |-> text]
C(text) == T("char", text)
U == [word |-> "u", param |-> 9, text |-> "x"]
Open == W("{")
Close == W("}")
x == C("x")
sp == C(" ")

MCHeadingOf == [t \in {"x", " ", ";", "Heading2", "Normal"} |-> IF t = "Heading2" THEN 2 ELSE 0]

\* \ls1 is a bullet list with an ordered second level, \ls2 an ordered list.
ListTables == <<
    Open, W("*"), W("listtable"),
    Open, P("levelnfc", 23), P("levelnfc", 0), P("listid", 7), Close,
    Open, P("levelnfc", 0), P("listid", 8), Close, Close,
    Open, W("*"), W("listoverridetable"), P("listid", 7), P("ls", 1),
    P("listid", 8), P("ls", 2), Close>>

StyleSheet == <<Open, W("stylesheet"), Open, P("s", 0), C("Normal"), C(";"), Close,
                Open, P("s", 1), sp, C("Heading2"), C(";"), Close, Close>>

Item(ls, ilvl) == <<W("pard"), P("ls", ls), P("ilvl", ilvl),
                    Open, W("listtext"), x, T("tab", " "), Close, x, W("par")>>

Cells == <<W("trowd"), W("pard"), W("intbl"), Open, W("i"), x, Close, x, W("cell"),
           W("pard"), W("intbl"), x, W("cell"), W("row"), W("pard")>>

\* A row that nothing follows.
LastCells == Front(Cells)

Picture == <<W("pard"), x, Open, W("pict"), x, Close, x, W("par")>>

\* What ends up as a paragraph, an item, a table or a picture.
Blocks == {
    <<W("pard"), x, sp, x, W("par")>>,
    <<x, W("par")>>,
    <<W("pard"), P("outlinelevel", 0), W("b"), x, P("b", 0), W("par")>>,
    <<W("pard"), P("s", 1), P("ls", 1), x, W("par")>>,
    Item(1, 0), Item(1, 1), Item(2, 0), Item(2, 1),
    Cells, Picture}

\* What keeps its text from the document, or its format to itself.
Groups == {
    <<x, T("symbol", "x"), T("emdash", "x"), W("par")>>,
    Cells, Picture,
    <<W("pard"), x, Open, W("b"), x, Open, P("b", 0), W("i"), x, Close, Close, x, W("par")>>,
    <<Open, W("info"), Open, W("title"), sp, x, Close, Open, W("other"), x, Close, Close>>,
    <<Open, W("*"), W("generator"), sp, x, Close, Open, W("eol"), W("fonttbl"), Open, x, Close, Close>>,
    <<Open, W("*"), W("other"), x, Close, Open, P("uc", 2), U, C("?"), C("?"), x, Close,
      U, T("hex", "x")>>,
    <<Close>>, <<Open>> }

Header == <<W("trowd"), W("trhdr"), W("pard"), W("intbl"), x, W("cell"), W("row"), W("pard")>>

UpTo(n, fragments) == UNION {{FlattenSeq(f) : f \in [1 .. m -> fragments]} : m \in 0 .. n}

MCDocument == {ListTables \o StyleSheet \o d : d \in UpTo(3, Blocks)}
    \cup UpTo(3, Groups)
    \cup {Header \o d : d \in UpTo(2, Groups)}
    \cup {d \o LastCells : d \in UpTo(2, Groups)}
=============================================================================
