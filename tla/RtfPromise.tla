---------------------------- MODULE RtfPromise -----------------------------
(***************************************************************************)
(* What the rows of an RTF document must be, told from the source as a     *)
(* whole: which group encloses which token, which words govern it, where   *)
(* its paragraph and its table row end.  RtfReader, which sees one token   *)
(* at a time, is checked against it.                                       *)
(***************************************************************************)
EXTENDS RtfReader

\* What is told of the source before it is read.
VARIABLES
    scopes,  \* the groups open at each token, by where they were opened
    live,    \* the tokens that stand in the document itself
    shown    \* the texts of the document

Done == pos = Len(source) + 2

Positions == 1 .. Len(source)

-----------------------------------------------------------------------------
(* Groups.                                                                 *)

ScopeAfter(outer, n) ==
    CASE source[n].word = "{" -> Append(outer, n)
      [] source[n].word = "}" /\ outer # << >> -> Front(outer)
      [] OTHER -> outer

\* What is open before each token, and at the end.
OpenAt ==
    LET Open[n \in 1 .. Len(source) + 1] ==
            IF n = 1 THEN << >> ELSE ScopeAfter(Open[n - 1], n - 1)
    IN  Open

\* The words that still hold at n: the groups they stand in are open at n.
Governing(n, words) ==
    {k \in 1 .. n - 1 : source[k].word \in words /\ IsPrefix(scopes[k], scopes[n])}

\* The first word of its group.
Leads(k) ==
    \E m \in 1 .. k - 1 :
        source[m].word = "{" /\ \A j \in m + 1 .. k - 1 : source[j].word = "eol"

InInfo(n) == \E k \in Governing(n, {"info"}) : Leads(k)

\* The words that make their group a field of the metadata.
FieldWords(n) ==
    {k \in Governing(n, MetaWord) : InInfo(k)} \cup {k \in Governing(n, {"generator"}) : ~Leads(k)}

InSheet(n) == \E k \in Governing(n, {"stylesheet"}) : Leads(k)

Ignored(n) ==
    \/ Governing(n, {"*", "listtext", "pict"}) # {}
    \/ \E k \in Governing(n, SkippedDestination \cup {"info"}) : Leads(k)

InDocument(n) == FieldWords(n) = {} /\ ~InSheet(n) /\ ~Ignored(n)

\* A character among the uc ones after the nearest \u is its fallback.
IsFallback(n) ==
    LET us == {m \in 1 .. n - 1 : source[m].word = "u" /\ (InDocument(m) \/ FieldWords(m) # {})}
        u == Max(us)
        ucs == Governing(u, {"uc"})
        uc == IF ucs = {} THEN 1 ELSE source[Max(ucs)].param
    IN  /\ source[n].word \in {"char", "hex"}
        /\ us # {}
        /\ Cardinality({k \in u + 1 .. n : source[k].word \in {"char", "hex"}}) <= uc

IsText(n) == source[n].text \notin {"", " "} /\ ~IsFallback(n)

\* The words that act on the document.
DocumentWords(words) == {n \in live : source[n].word \in words}

PromiseInit ==
    /\ RtfInit
    /\ scopes = OpenAt
    /\ live = {n \in Positions : InDocument(n)}
    /\ shown = {n \in live : IsText(n)}

PromiseNext == RtfNext /\ UNCHANGED <<scopes, live, shown>>

PromiseSpec == PromiseInit /\ [][PromiseNext]_<<rtfVars, scopes, live, shown>>

-----------------------------------------------------------------------------
(* What the rows hold.                                                     *)

BodyRows ==
    LET values == {n \in DOMAIN rows : rows[n].kind = "value"}
    IN  IF values = {} THEN rows ELSE SubSeq(rows, 1, Min(values) - 1)

Inked(ps) ==
    LET Ink(p) == ~Blank(p) IN SelectSeq(ps, Ink)

RowText(r) == Inked(r.content \o FlattenSeq(FlattenSeq(r.cells)))

\* In the order of the source.
Sorted(S) == LET In(n) == n \in S IN SelectSeq([n \in Positions |-> n], In)

\* Nothing that a destination, a style, a fallback or a rendered bullet holds
\* reaches the document, and all other text does, once and in reading order.
BodyTextRead ==
    Done => FlattenSeq([n \in DOMAIN BodyRows |-> RowText(BodyRows[n])]) = Sorted(shown)

\* Every field of {\info} and {\*\generator} that holds text comes out once,
\* with the text of its own groups and nothing else.
MetadataRead ==
    Done => \A key \in MetaWord \cup {"generator"} :
        LET given == {p \in Positions : /\ IsText(p)
                                        /\ \E k \in FieldWords(p) : source[k].word = key}
            values == {n \in DOMAIN rows : rows[n].kind = "value" /\ rows[n].key = key}
            Holding(n) == n < Len(rows) /\ rows[n + 1].kind = "inline"
        IN  IF given = {} THEN \A n \in values : ~Holding(n)
            ELSE \E n \in values : /\ values = {n} /\ Holding(n)
                                  /\ Inked(rows[n + 1].content) = Sorted(given)

\* What the reader leaves in a destination or takes out of it depends on the
\* groups around it, on both sides: a text is in the body or in the metadata.
TextsRead == BodyTextRead /\ MetadataRead

-----------------------------------------------------------------------------
(* Tables.                                                                 *)

\* Where the cell or the paragraph that holds n starts.
StartsAfter(n) ==
    LET ends == {k \in DocumentWords({"cell", "row", "par", "pict"}) : k < n}
    IN  IF ends = {} THEN 0 ELSE Max(ends)

CellText(c) == Sorted({p \in shown : StartsAfter(c) < p /\ p < c})

RowCells(r) ==
    LET before == {q \in DocumentWords({"row"}) : q < r}
        from == IF before = {} THEN 0 ELSE Max(before)
        cells == Sorted({c \in DocumentWords({"cell"}) : from < c /\ c < r})
    IN  [n \in DOMAIN cells |-> CellText(cells[n])]

\* Rows with nothing but a paragraph's reset between them are one table.
SameTable(q, r) ==
    {k \in DocumentWords({"par", "pict"}) : q < k /\ k < r} = {}

\* Every row comes out as the cells it has in the source, in one table with
\* the rows next to it; RTF resets the paragraph at the start of every row.
RowsRead ==
    LET IsTable(r) == r.type = "table"
        tables == SelectSeq(rows, IsTable)
        read == FlattenSeq([n \in DOMAIN tables |-> IF tables[n].cells[1] = << >>
                                                    THEN Tail(tables[n].cells)
                                                    ELSE tables[n].cells])
        given == Sorted(DocumentWords({"row"}))
    IN  Done =>
        /\ [n \in DOMAIN read |-> [m \in DOMAIN read[n] |-> Inked(read[n][m])]]
             = [n \in DOMAIN given |-> RowCells(given[n])]
        /\ Len(tables) = Cardinality({n \in DOMAIN given :
                             n = 1 \/ ~SameTable(given[n - 1], given[n])})

-----------------------------------------------------------------------------
(* Paragraphs.                                                             *)

\* The word or the end of the source at which n's paragraph or cell ends.
EndsAt(n) ==
    Min({Len(source) + 1} \cup {k \in DocumentWords({"par", "pict", "cell"}) : k > n})

InCell(n) == EndsAt(n) \in Positions /\ source[EndsAt(n)].word = "cell"

\* The last value a paragraph property has been given since the last \pard.
Property(n, word, otherwise) ==
    LET pards == {k \in DocumentWords({"pard"}) : k < EndsAt(n)}
        from == IF pards = {} THEN 0 ELSE Max(pards)
        set == {k \in DocumentWords({word}) :
                  from < k /\ k < EndsAt(n) /\ source[k].param # NoParam}
    IN  IF set = {} THEN otherwise ELSE source[Max(set)].param

\* Styles are named by the entries of the stylesheet.
StyleHeading(id) ==
    LET Names(p) == \E k \in Governing(p, {"s"}) : source[k].param = id /\ InSheet(k)
        name == {p \in Positions : source[p].text \notin {"", " "} /\ Names(p)}
    IN  IF name = {} THEN 0 ELSE HeadingOf[source[Min(name)].text]

Heading(n) ==
    LET outline == Property(n, "outlinelevel", -1)
    IN  IF outline \in 0 .. 8 THEN outline + 1 ELSE StyleHeading(Property(n, "s", -1))

Depth(n) ==
    IF Heading(n) > 0 \/ Property(n, "ls", 0) = 0 THEN 0 ELSE Property(n, "ilvl", 0) + 1

\* The row a text is in, and the block that row belongs to.
Holds(r, p) == \E n \in DOMAIN r.content : r.content[n] = p
BlockOf(n) == Max({m \in 1 .. n : rows[m].kind # "inline"})

\* A paragraph is what its own properties make it: nothing of the paragraph
\* before outlives a \pard, and a heading is never an item.
ParagraphsOfTheirKind ==
    Done => \A n \in DOMAIN BodyRows : \A p \in shown :
        Holds(rows[n], p) /\ ~InCell(p) =>
            LET b == rows[BlockOf(n)]
            IN  /\ Heading(p) > 0 => b.type = "heading" /\ b.heading = Heading(p)
                /\ Depth(p) > 0 => b.type = "list_item" /\ b.level = 2 * Depth(p)
                /\ Heading(p) = 0 /\ Depth(p) = 0 => b.type = "paragraph"

FormatAt(p) ==
    {f \in Format :
        LET set == Governing(p, {f, "plain"} \cup (IF f = "ul" THEN {"ulnone"} ELSE {}))
        IN  set # {} /\ source[Max(set)].word = f /\ source[Max(set)].param # 0}

\* Formatting ends with the group it was set in: a run is reported with what
\* governs its own text, and unformatted text stands in no formatted run.
FormatsScoped ==
    Done => \A n \in DOMAIN BodyRows : \A p \in shown :
        Holds(rows[n], p) /\ rows[BlockOf(n)].type # "heading" =>
            IF rows[n].kind = "inline" THEN rows[n].type = ElementType(FormatAt(p))
            ELSE FormatAt(p) = {}

-----------------------------------------------------------------------------
(* Lists.                                                                  *)

Interrupts(r) == r.type \in {"table", "image"}

Items == {n \in DOMAIN rows : rows[n].type = "list_item"}

\* Every item stands in a list of its own, one level above it.
ItemsHaveLists ==
    \A n \in Items :
        \E m \in Ancestors(rows, n) :
            rows[m].type = "list" /\ rows[m].level = rows[n].level - 1

\* The type of list that the paragraph of row n asks for.
AskedType(n) ==
    \E p \in shown, m \in DOMAIN rows :
        Holds(rows[m], p) /\ BlockOf(m) = n /\ Ordered(Property(p, "ls", 0), Depth(p))

\* Two items in a row share their list just when they ask for the same type.
NeighboursShareTheirList ==
    \A m, n \in Items :
        m < n /\ (\A k \in m + 1 .. n - 1 : rows[k].kind = "inline" \/ rows[k].type = "list") =>
            (AskedType(m) = AskedType(n)
                <=> \A k \in m + 1 .. n - 1 : rows[k].type # "list")

\* The list stack outlives the items it was built for: every item stands in a
\* list of its own in documents with neither tables nor pictures, and goes on
\* with its neighbour's list where all items stand at one depth.
ItemsInLists ==
    Done =>
        /\ (\A n \in DOMAIN rows : ~Interrupts(rows[n])) => ItemsHaveLists
        /\ (\A m, n \in Items : rows[m].level = rows[n].level) => NeighboursShareTheirList
=============================================================================
