-------------------------- MODULE MCMarkupReaders --------------------------
(* For each format every source of up to four lines over a few sets of     *)
(* lines: the blocks and what interrupts them, lists of several depths and *)
(* types, tables, and constructs that are left open.                       *)
EXTENDS MarkupReaders

MCBlockType == {"paragraph", "heading", "list", "list_item", "table", "image", "figure", "caption",
                "plain", "hr", "code", "raw", "blockquote", "div", "inlines"}

L(lead) ==
    [lead |-> lead, indent |-> 0, name |-> "", closing |-> "", markers |-> << >>, count |-> 0,
     definition |-> FALSE, style |-> FALSE, header |-> FALSE, text |-> lead # ""]
In(n, line) == [line EXCEPT !.indent = n]
Named(lead, name) == [L(lead) EXCEPT !.name = name]
Bare(line) == [line EXCEPT !.text = FALSE]
Closing(tag, line) == [line EXCEPT !.closing = tag]
Count(n, line) == [line EXCEPT !.count = n]
Term(line) == [line EXCEPT !.definition = TRUE]
Style(line) == [line EXCEPT !.style = TRUE]
Header(line) == [line EXCEPT !.header = TRUE]
Markers(m) == [L("list") EXCEPT !.markers = m]

Blank == L("")
Word == L("word")

UpTo(n, S) == UNION {[1 .. m -> S] : m \in 1 .. n}

OrgBlocks == {Blank, Word, L("*"), L("-"), Named("#+BEGIN_", "SRC"), Bare(Named("#+END_", "SRC")),
              Named("#+", "TITLE"), Named("#+", "CAPTION")}
OrgLists == {Blank, Word, L("-"), In(1, L("1.")), In(2, L("*")), Term(L("-")), Named("#+", "CAPTION")}
OrgOpen == {Blank, Word, Bare(Named(":", "LOGBOOK")), Bare(Named(":", "END")), L("#"), L("-"),
            Bare(Named("#+BEGIN_", "QUOTE")), Bare(Named("#+END_", "SRC"))}
OrgTables == {Word, L("|"), Bare(L("|-")), Blank, Named("#+", "AUTHOR"), Bare(L("-----")),
              Bare(Named("#+", "DATE"))}

TextileBlocks == {Blank, Word, Named(".", "h"), Style(Named(".", "p")), Style(Bare(Named(".", "p"))),
                  Style(Named(".", "bq")), Named(".", "notextile"), Markers(<<"*">>)}
TextileLists == {Blank, Word, Markers(<<"*">>), Markers(<<"*", "*">>), Markers(<<"*", "#">>),
                 Markers(<<"#">>), Term(L("- ")), L("###.")}
TextileOpen == {Blank, Word, Named(".", "bc"), Named("<", "div"), Closing("div", L("</")),
                In(2, Word), L("|"), Header(L("|"))}

WikiBlocks == {Blank, Word, L("="), In(1, Word), Markers(<<"*">>), L("[[File:"), L("----"), L("__")}
WikiLists == {Blank, Word, Markers(<<"*">>), Markers(<<"*", "#">>), Markers(<<";">>), Markers(<<":">>),
              In(1, Word)}
WikiTables == {Word, L("{|"), L("|-"), L("!"), L("|"), L("|}"), L("<>"),
               Closing("/", Bare(Named("<", "references")))}
WikiOpen == {Blank, Word, Count(1, L("{{")), Count(1, Word), Count(-1, Word), Named("<", "pre"),
             Closing("pre", L("</")), Closing("--", L("<!--"))}

RstBlocks == {Blank, Word, Count(4, Named("==", "=")), Count(4, Named("==", "-")), In(2, Word),
              Named("..", ""), Named("..", "["), L("- ")}
RstTitles == {Blank, Count(1, Word), Count(2, Word), Word, Count(2, Named("::", ":")), In(2, Word),
              Count(3, Named("==", "=")), Count(4, Named("==", "=")), L("1. ")}
RstLists == {Blank, Word, In(2, Word), L("- "), In(2, L("- ")), L("1. "), Count(4, Named("==", "="))}
RstOpen == {Blank, Closing("::", Word), Count(2, L("::")), In(2, Word), In(4, Word), Named("..", "note"),
            Named("..", "code"), Term(L(":"))}
RstTables == {Blank, Word, L("= ="), L("+="), L("+-"), L("|")}

Begin(name) == Bare(Named("begin", name))
End(name) == Bare(Named("end", name))
Bold == L("textbf")
AnItem == Bare(L("item"))
Label(line) == Term(line)

LatexLists == {Blank, Word, AnItem, Begin("enumerate"), End("enumerate"), Bold, Begin("quote"), End("quote")}
LatexNested == {Blank, Word, AnItem, Begin("itemize"), End("itemize")}
LatexEnvironments == {Word, Label(AnItem), L("section"), Bare(L("section")), Begin("description"),
                      Begin("center"), End("center"), Blank}
LatexDocuments == {Word, L("documentclass"), Begin("document"), End("document"), Named("meta", "title"),
                   Label(Named("meta", "author")), Begin("equation"), End("equation")}
LatexTables == {Word, Bare(L("&")), Bare(L("newline")), Bare(L("hline")), End("tabular"), Begin("center"),
                End("document"), Begin("verbatim")}
LatexVerbatim == {Word, Blank, Begin("verbatim"), End("verbatim"), L("label"), Begin("tabular"), Bare(Bold)}

Behind(first, S) == {first \o s : s \in S}

LatexSources ==
    UNION {UpTo(3, S) : S \in {LatexEnvironments, LatexDocuments, LatexVerbatim, LatexTables}}
        \cup Behind(<<Begin("description"), Label(AnItem)>>, UpTo(3, LatexEnvironments))
        \cup Behind(<<L("documentclass"), Named("meta", "title")>>, UpTo(3, LatexDocuments))
        \cup Behind(<<Begin("enumerate"), AnItem>>, UpTo(4, LatexLists))
        \cup Behind(<<Begin("itemize"), AnItem, Word>>, UpTo(4, LatexNested))
        \cup Behind(<<Begin("tabular"), Bare(L("hline")), Word, Bare(L("newline"))>>, UpTo(3, LatexTables))

\* Paragraphs of office documents.
Styled(name) == Named("word", name)
Title == Closing("title", Styled("Title"))
Property == Named("meta", "title")
Image(line) == Term(line)
Item(types) == [Word EXCEPT !.markers = types]
Level(n, line) == Count(n, line)

OfficeBlocks == {Blank, Word, Level(2, Word), Title, In(1, Title), Styled("Title"), Property,
                 Styled("Quote"), In(1, Word)}
OfficeLists == {Blank, Word, Item(<<"bullet">>), Item(<<"ordered">>), Item(<<"bullet", "ordered">>),
                Bare([Item(<<"ordered", "bullet">>) EXCEPT !.lead = ""]), L("|"), Level(1, Item(<<"bullet">>))}
OfficeStyles == {Blank, Bare(Image(Word)), Styled("SourceCode"), Level(1, Styled("SourceCode")), Styled("DefinitionTerm"),
                 Styled("Definition"), [Item(<<"bullet">>) EXCEPT !.name = "Definition"], Image(Styled("Quote"))}
OfficeTables == {Word, L("|"), Header(L("|")), Item(<<"bullet">>), Bare(L("|"))}

Seven == FlattenSeq([n \in 1 .. 7 |->
    <<Word, Count(4, Named("==", <<"1", "2", "3", "4", "5", "6", "7">>[n])), Blank>>])

OfficeSources == UNION {UpTo(4, S) : S \in {OfficeBlocks, OfficeLists, OfficeStyles, OfficeTables}}

\* Nodes of an XHTML body: a content model says what may stand in what.  Two
\* runs of text next to each other are one.
E(tag) == Bare(L(tag))
PageBreak(line) == [line EXCEPT !.name = "pagebreak"]

Content(model, s, depth) ==
    LET above == {m \in DOMAIN s : s[m].indent = depth - 1}
        parent == IF depth = 0 THEN "body" ELSE s[CHOOSE m \in above : \A k \in above : k <= m].lead
        after == IF s # << >> /\ Last(s).indent = depth THEN Last(s).lead ELSE ""
    IN  IF parent \notin DOMAIN model THEN {}
        ELSE {x \in model[parent] : x.lead = "word" => after # "word"}

Trees(model, n) ==
    LET Grown(s) == UNION {{Append(s, In(d, x)) : x \in Content(model, s, d)} :
                              d \in 0 .. IF s = << >> THEN 0 ELSE Last(s).indent + 1}
        Sized[k \in 0 .. n] == IF k = 0 THEN {<< >>} ELSE UNION {Grown(s) : s \in Sized[k - 1]}
    IN  UNION {Sized[k] : k \in 1 .. n}

EpubBlocks == [body |-> {Word, E("p"), E("div"), E("blockquote"), E("h2")}, div |-> {Word, E("p"), E("section"), L("img")},
               section |-> {Word, E("div")}, blockquote |-> {Word, E("p")}, p |-> {Word, E("b"), L("img"), E("svg")},
               b |-> {Word, Bare(Word)}, svg |-> {Word}, h2 |-> {Word, L("img")}]
EpubLists == [body |-> {E("ul"), E("dl"), E("p")}, ul |-> {E("li")}, ol |-> {E("li")}, dl |-> {E("dt"), E("dd")},
              li |-> {Word, E("p"), E("ol"), E("b")}, dt |-> {Word}, dd |-> {E("p"), E("ul"), Word},
              p |-> {Word}, b |-> {Word}]
EpubParts == [body |-> {E("figure"), E("pre"), PageBreak(E("b")), PageBreak(E("div")), E("hr"), E("p")},
              figure |-> {L("img"), E("figcaption")}, figcaption |-> {Word, E("p")}, p |-> {Word, PageBreak(E("b"))},
              pre |-> {Word, Bare(Word), E("b")}, b |-> {Word}, div |-> {Word}]

\* Tables: a caption or none, a head or none, up to two rows.
Deeper(d, s) == [n \in DOMAIN s |-> In(d + s[n].indent, s[n])]
Cell(tag) == <<E(tag), In(1, Word)>>
Tr(cells) == <<E("tr")>> \o Deeper(1, cells)
EpubRows == {Tr(Cell("td")), Tr(Cell("th")), Tr(Cell("th") \o Cell("td")), Tr(<< >>), Tr(<<Word>>),
             <<E("tbody")>> \o Deeper(1, Tr(Cell("td"))), Tr(<<E("td"), In(1, E("p")), In(2, Word)>>)}
EpubHeads == {<< >>, <<E("thead")>>} \cup
             {<<E("thead")>> \o Deeper(1, s) : s \in {Tr(Cell("th")), Tr(Cell("th")) \o Tr(Cell("td")), Tr(<< >>)}}
EpubCaptions == {<< >>, <<E("caption"), In(1, Word)>>}

EpubTables ==
    {<<E("table")>> \o Deeper(1, caption \o head \o FlattenSeq(body)) \o behind :
        caption \in EpubCaptions, head \in EpubHeads, body \in {<< >>} \cup UpTo(2, EpubRows),
        behind \in {<< >>, <<E("p"), In(1, Word)>>}}

EpubProperties == {<<Named("meta", "title")>>, <<Bare(Named("meta", "title")), Named("meta", "creator")>>}

EpubSources ==
    Trees(EpubBlocks, 4) \cup Trees(EpubLists, 5) \cup Trees(EpubParts, 4) \cup EpubTables
        \cup {s \o p : s \in Trees(EpubParts, 2), p \in EpubProperties}

\* Of what an EPUB's reader loses, one source each: an image between blocks,
\* what is in an element or behind one in preformatted text, the text of a page
\* break, a later row of a table's head, the caption of a table without cells,
\* and what stands between the cells of a row.
EpubLosses ==
    {<<L("img")>>,
     <<E("pre"), In(1, E("b")), In(2, Word)>>,
     <<E("pre"), In(1, Word), In(1, E("b")), In(1, Word)>>,
     <<E("hr"), PageBreak(E("b")), In(1, Word)>>,
     <<E("table"), In(1, E("thead"))>> \o Deeper(2, Tr(Cell("th")) \o Tr(Cell("td"))),
     <<E("table"), In(1, E("caption")), In(2, Word)>>,
     <<E("table")>> \o Deeper(1, Tr(Cell("td") \o <<Word>>))}

MCLosses == [epub |-> EpubLosses]

MCDocument ==
    [org |-> UNION {UpTo(4, S) : S \in {OrgBlocks, OrgLists, OrgOpen, OrgTables}},
     textile |-> UNION {UpTo(4, S) : S \in {TextileBlocks, TextileLists, TextileOpen}},
     mediawiki |-> UNION {UpTo(4, S) : S \in {WikiBlocks, WikiLists, WikiTables, WikiOpen}},
     rst |-> UNION {UpTo(4, S) : S \in {RstBlocks, RstTitles, RstLists, RstOpen, RstTables}} \cup {Seven},
     latex |-> LatexSources,
     docx |-> OfficeSources, odt |-> OfficeSources, epub |-> EpubSources]
=============================================================================
