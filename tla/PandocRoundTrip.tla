-------------------------- MODULE PandocRoundTrip --------------------------
(***************************************************************************)
(* A pandoc document read into rows and written back                       *)
(* (ConvertPandocAstToBlocks and DuckBlocksToPandocAstFun, in              *)
(* src/src/pandoc_block_convert.cpp): blocks in, the lone plain pass over  *)
(* them (LonePlain), metadata in behind them; then blocks out and metadata *)
(* out.  RepairBlocks, which runs before the blocks go out, does nothing   *)
(* to a whole document (BlockRepair); that the rows are one is             *)
(* RowsAreAWholeDocument.                                                  *)
(*                                                                         *)
(* One action per turn of each of the passes' loops.                       *)
(***************************************************************************)
EXTENDS PandocExport, BlockTree

CONSTANTS
    Document,   \* pandoc documents: their blocks and their metadata
    NativeRows  \* rows of documents other readers read, which are written only

VARIABLES
    doc,    \* the document
    phase,  \* the pass that is running
    at,      \* its loop index
    rows,   \* the rows
    out,    \* the blocks written
    meta    \* the metadata written

tripVars == <<doc, phase, at, rows, out, meta>>

NoDocument == [blocks |-> << >>, meta |-> << >>]

\* The pass over the converted rows; a text is empty when it has no words.
Plain == INSTANCE LonePlain WITH
    Content <- {<< >>}, NoText <- << >>, Converted <- {}, given <- << >>

-----------------------------------------------------------------------------
TripInit ==
    /\ at = 1 /\ out = << >> /\ meta = << >>
    /\ \/ doc \in Document /\ rows = << >> /\ phase = "read"
       \/ doc = NoDocument /\ rows \in NativeRows /\ phase = "write"

Ends(pass, last, next) == phase = pass /\ at > last /\ phase' = next /\ at' = 1

ReadBlock ==
    /\ phase = "read" /\ at <= Len(doc.blocks)
    /\ rows' = rows \o BlockRows(doc.blocks[at], 0)
    /\ at' = at + 1
    /\ UNCHANGED <<doc, phase, out, meta>>

EndBlocks ==
    Ends("read", Len(doc.blocks), "normalise") /\ UNCHANGED <<doc, rows, out, meta>>

CollapseIntoParent ==
    phase = "normalise" /\ Plain!CollapsePlain /\ UNCHANGED <<doc, phase, out, meta>>

KeepRow == phase = "normalise" /\ Plain!Skip /\ UNCHANGED <<doc, phase, out, meta>>

EndNormalise ==
    Ends("normalise", Len(rows), "read meta") /\ UNCHANGED <<doc, rows, out, meta>>

\* A metadata value, behind the blocks.
ReadMeta ==
    /\ phase = "read meta" /\ at <= Len(doc.meta)
    /\ rows' = rows \o MetaRows(doc.meta[at], 1)
    /\ at' = at + 1
    /\ UNCHANGED <<doc, phase, out, meta>>

EndReading == Ends("read meta", Len(doc.meta), "write") /\ UNCHANGED <<doc, rows, out, meta>>

PassRow ==
    /\ phase = "write" /\ at <= Len(rows) /\ Passed(rows[at])
    /\ at' = at + 1
    /\ UNCHANGED <<doc, phase, rows, out, meta>>

WriteBlock ==
    /\ phase = "write" /\ at <= Len(rows) /\ ~Passed(rows[at])
    /\ LET block == BlockOut(rows, at)
       IN  out' = Append(out, block.out) /\ at' = block.next
    /\ UNCHANGED <<doc, phase, rows, meta>>

EndBlocksOut == Ends("write", Len(rows), "write meta") /\ UNCHANGED <<doc, rows, out, meta>>

\* BuildMetaJson: the values at level 1, with all that is below them.
IsEntry(r) == r.kind = "value" /\ r.level = 1

PassNoEntry ==
    /\ phase = "write meta" /\ at <= Len(rows) /\ ~IsEntry(rows[at])
    /\ at' = at + 1
    /\ UNCHANGED <<doc, phase, rows, out, meta>>

WriteMeta ==
    /\ phase = "write meta" /\ at <= Len(rows) /\ IsEntry(rows[at])
    /\ LET value == MetaOut(rows, at)
       IN  meta' = Append(meta, value.out) /\ at' = value.next
    /\ UNCHANGED <<doc, phase, rows, out>>

EndWriting ==
    Ends("write meta", Len(rows), "done") /\ UNCHANGED <<doc, rows, out, meta>>

TripNext ==
    \/ ReadBlock \/ EndBlocks
    \/ CollapseIntoParent \/ KeepRow \/ EndNormalise
    \/ ReadMeta \/ EndReading
    \/ PassRow \/ WriteBlock \/ EndBlocksOut
    \/ PassNoEntry \/ WriteMeta \/ EndWriting

TripSpec == TripInit /\ [][TripNext]_tripVars

Written == phase = "done"

-----------------------------------------------------------------------------
(* The shapes of document the round trip is known not to carry.  `place`   *)
(* is where a block stands: at the top, in a container, in an item, or     *)
(* below a page or a metadata value, from where it is written at the top.  *)

Container == {"Div", "BlockQuote", "Figure"}
ListBlocks == Lists \cup {"DefinitionList"}

Rich(inl) == ~TextOnly(Flatten(inl, 1))

LonePlainIn(blocks) == Len(blocks) = 1 /\ Head(blocks).t = "Plain"
RichLonePlainIn(blocks) == LonePlainIn(blocks) /\ Rich(Head(blocks).inl)

IsPage(b) == b.t = "Div" /\ b.class = "page"

HasText(b) == Words(b) # << >>

\* An inline that comes with blocks whose text the flattening cannot reach.
RECURSIVE Unreached(_)
Unreached(inl) ==
    \E k \in DOMAIN inl :
        \/ Unreached(inl[k].inl)
        \/ inl[k].t = "Note" /\ \E b \in Range(inl[k].kids) :
              HasText(b) /\ (b.t \in LiteralBlocks \cup NotAnInlineList \/ Unreached(b.inl))

IsParagraph(b) == b.t \in {"Para", "Plain"}

\* An item whose first paragraph is empty, with other blocks: the paragraphs
\* after it are passed over with it.
ParagraphsPassedOver(item) ==
    LET paras == SelectSeq(item.kids, IsParagraph)
    IN  /\ paras # << >> /\ ~HasText(Head(paras))
        /\ \E b \in Range(Tail(paras)) : HasText(b)
        /\ \E b \in Range(item.kids) : ~IsParagraph(b) /\ b.t \notin ListBlocks

\* An item with several lists keeps the last.
ListsOverwritten(item) ==
    LET lists == SelectSeq(item.kids, LAMBDA b : b.t \in ListBlocks)
    IN  \E k \in 1 .. Len(lists) - 1 : HasText(lists[k])

\* A table's text beyond its projection.
BeyondProjection(b) ==
    Len(WordsOf(b.kids)) # Len(SelectSeq(TableRows(b, 1)[1].content, IsWord))

RECURSIVE Loses(_, _)

LosesBelow(blocks, place) == \E b \in Range(blocks) : Loses(b, place)

\* The block loses text where it stands.
Loses(b, place) ==
    \/ Unreached(b.inl)
    \/ IsParagraph(b) /\ place = "level" /\ Rich(b.inl) /\ HasText(b)
    \/ b.t = "LineBlock" /\ \E line \in Range(b.kids) :
          Unreached(line.inl) \/ (Rich(line.inl) /\ place \in {"inside", "item"} /\ HasText(b))
    \/ b.t = "Header" /\ place = "level" /\ Rich(b.inl) /\ HasText(b)
    \/ b.t = "Table" /\ place = "item" /\ BeyondProjection(b)
    \/ /\ b.t = "Div" \/ b.t = "Figure" \/ (b.t = "BlockQuote" /\ place \in {"item", "level"})
       /\ b.cap = << >> /\ RichLonePlainIn(b.kids) /\ HasText(b)
    \/ IsPage(b) /\ place \in {"top", "level"} /\ LonePlainIn(b.kids) /\ HasText(b)
    \/ b.t \in Container /\ LosesBelow(b.kids,
          IF IsPage(b) /\ place \in {"top", "level"} THEN "level" ELSE "inside")
    \/ b.t = "Figure" /\ RichLonePlainIn(b.cap) /\ place \in {"inside", "item"}
    \/ b.t = "Figure" /\ LosesBelow(b.cap, "inside")
    \/ b.t \in Lists /\ \E item \in Range(b.kids) :
          ListsOverwritten(item) \/ ParagraphsPassedOver(item) \/ LosesBelow(item.kids, "item")
    \/ b.t = "DefinitionList" /\ \E term \in Range(b.kids) : \E item \in Range(term.kids) :
          ListsOverwritten(item) \/ LosesBelow(item.kids, "item")

\* Blocks among the metadata are written with the body: a container at its
\* end takes them in, otherwise they are written at the top.
RECURSIVE HasMetaBlocks(_), MetaLoses(_, _)
HasMetaBlocks(v) == v.t = "MetaBlocks" \/ \E k \in Range(v.kids) : HasMetaBlocks(k)

MetaLoses(v, place) ==
    \/ Unreached(v.inl)
    \/ IF v.t = "MetaBlocks" THEN LosesBelow(v.kids, place)
       ELSE \E k \in Range(v.kids) : MetaLoses(k, place)

\* A container of a native reader with a text of its own above other blocks:
\* their types are written where its text should be.
TextAboveBlocks ==
    \E n \in 1 .. Len(rows) - 1 :
        /\ rows[n].type \in {"div", "section", "figure", "blockquote"} /\ rows[n].content # << >>
        /\ ~IsJson(rows[n])
        /\ IsBlockRow(rows[n + 1]) /\ rows[n + 1].level > rows[n].level

LosesText(d) ==
    LET end == IF d.blocks = << >> THEN Node("") ELSE Last(d.blocks)
        taken_in == end.t \in Container /\ ~IsPage(end)
    IN  \/ LosesBelow(d.blocks, "top")
        \/ \E v \in Range(d.meta) :
              \/ MetaLoses(v, IF taken_in THEN "inside" ELSE "level")
              \/ HasMetaBlocks(v) /\ end.t = "BlockQuote" /\ RichLonePlainIn(end.kids)

-----------------------------------------------------------------------------
(* The documents that come back as they were.                              *)

\* What two readings of a document agree on: neighbouring strings and spaces
\* are one string, and an empty string is nothing.
RECURSIVE Normal(_)

NormalInlines(inl) ==
    FoldLeft(LAMBDA done, n :
                IF n.t \notin {"Str", "Space"} THEN Append(done, Normal(n))
                ELSE IF NodeText(n) = << >> THEN done
                ELSE IF done # << >> /\ Last(done).t = "Str"
                THEN [done EXCEPT ![Len(done)].text = @ \o NodeText(n)]
                ELSE Append(done, Str(NodeText(n))),
             << >>, inl)

Normal(n) == [n EXCEPT !.inl = NormalInlines(@),
                       !.kids = [k \in DOMAIN @ |-> Normal(@[k])],
                       !.cap = [k \in DOMAIN @ |-> Normal(@[k])]]

NormalAll(nodes) == [k \in DOMAIN nodes |-> Normal(nodes[k])]

\* Inlines with a row for each of their constructors.
RECURSIVE CarriedInlines(_)
CarriedInlines(inl) ==
    \A n \in Range(inl) :
        \/ n.t \in DOMAIN LeafType /\ (n.t = "Math" => n.class = "inline")
        \/ n.t \in DOMAIN WrapperType /\ CarriedInlines(n.inl)
        \/ n.t = "Image" /\ ~Rich(n.inl)
        \/ n.t = "Note" /\ Len(n.kids) = 1 /\ n.kids[1].t = "Para" /\ CarriedInlines(n.kids[1].inl)

\* A lone plain that is its container's text.
TextOfIts(blocks) == LonePlainIn(blocks) => ~Rich(Head(blocks).inl) /\ HasText(Head(blocks))

RECURSIVE Carried(_, _), CarriedItem(_)

CarriedIn(blocks) == TextOfIts(blocks) /\ \A b \in Range(blocks) : Carried(b, "inside")

\* Paragraphs, then divs, rules and raw blocks, then at most one list.
CarriedItem(item) ==
    LET Order(b) == IF IsParagraph(b) THEN 1 ELSE IF b.t \in ListBlocks THEN 3 ELSE 2
        kids == item.kids
    IN  /\ kids # << >> /\ Order(Head(kids)) # 3
        /\ IsParagraph(Head(kids)) /\ ~HasText(Head(kids)) =>
              \A b \in Range(kids) : IsParagraph(b)
        /\ LonePlainIn(kids) => HasText(Head(kids))
        /\ \A k \in 2 .. Len(kids) :
              /\ Order(kids[k - 1]) <= Order(kids[k])
              /\ Order(kids[k - 1]) # 3
        /\ \A b \in Range(kids) : Carried(b, "item")

Carried(b, place) ==
    \/ IsParagraph(b) /\ CarriedInlines(b.inl)
    \/ b.t = "RawBlock" \/ b.t = "HorizontalRule"
    \/ place # "item" /\ \/ b.t = "Header" /\ CarriedInlines(b.inl)
                         \/ b.t = "CodeBlock" /\ TrimmedEnd(b.text) = b.text
                         \/ b.t = "Table"
    \/ b.t = "Div" /\ (place = "top" => ~IsPage(b)) /\ (place = "item" => b.class # "")
          /\ CarriedIn(b.kids)
    \/ b.t \in Lists /\ \A item \in Range(b.kids) : CarriedItem(item)
    \/ b.t = "DefinitionList" /\ \A term \in Range(b.kids) :
          ~Rich(term.inl) /\ \A item \in Range(term.kids) :
             CarriedItem(item) /\ IsParagraph(Head(item.kids))
    \/ /\ place = "top"
       /\ \/ b.t = "LineBlock" /\ \A line \in Range(b.kids) :
                CarriedInlines(line.inl) /\ \A n \in Range(line.inl) : n.t # "LineBreak"
          \/ b.t = "BlockQuote" /\ b.kids # << >> /\ CarriedIn(b.kids)
          \/ /\ b.t = "Figure" /\ CarriedIn(b.kids)
             /\ IF LonePlainIn(b.cap) THEN CarriedInlines(b.cap[1].inl) /\ HasText(b.cap[1])
                ELSE CarriedIn(b.cap)
          \/ b.t = "Future"

CarriedDocument(d) ==
    /\ \A b \in Range(d.blocks) : Carried(b, "top")
    /\ \A v \in Range(d.meta) : ~HasMetaBlocks(v)

-----------------------------------------------------------------------------
(* Properties.                                                             *)

\* A converted document obeys the rules of the tree at every point: no level
\* is jumped over and no inline, item or caption lacks its ancestor.
RowsAreAWholeDocument == phase # "read" => WholeDocument(rows)

\* What a reader reads, of native rows in their texts; and what is written.
Original ==
    IF doc = NoDocument THEN Each(rows, LAMBDA r : SelectSeq(r.content, IsWord))
    ELSE WordsOf(doc.blocks) \o WordsOf(doc.meta)

Result == WordsOf(out) \o WordsOf(meta)

WordsComeBack == Range(Original) \subseteq Range(Result)

\* No other shape loses text: every word of a document comes back unless the
\* document has one of those of Loses and MetaLoses, and every word of native
\* rows is written unless a container has a text of its own above other blocks.
TextIsLostInTheseShapesOnly ==
    Written /\ ~LosesText(doc) /\ ~TextAboveBlocks => WordsComeBack

\* "A round trip loses no word" (README.md), whatever the document's shape.
EveryWordComesBack == Written => WordsComeBack

\* A document without them comes back with every block and inline where it was.
ComesBackAsItWas ==
    Written /\ doc # NoDocument /\ CarriedDocument(doc) =>
        NormalAll(out) = NormalAll(doc.blocks) /\ NormalAll(meta) = NormalAll(doc.meta)
=============================================================================
