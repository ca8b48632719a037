---------------------------- MODULE PandocExport ----------------------------
(***************************************************************************)
(* The way out of the pandoc converter: rows to the nodes of a document.   *)
(* Every walk goes over the whole list from an index on and tells whose    *)
(* row it is looking at by the level alone; it returns what it built and   *)
(* the index it stopped at.  The list has been through RepairBlocks.       *)
(***************************************************************************)
EXTENDS PandocImport

\* What a walk returns.
Walked(out, next) == [out |-> out, next |-> next]

IsBlockRow(r) == r.kind = "block"

\* A text that is json.
IsJson(r) == r.content # << >> /\ Head(r.content) = Braces

\* A text as the inlines of a node: one string.
OneStr(text) == <<Str(text)>>
StrIfAny(text) == IF text = << >> THEN << >> ELSE OneStr(text)

\* The inline rows that follow n at once.
InlineRun(rs, n) ==
    SelectSeq([k \in 1 .. Len(rs) |->
                  IF k > n /\ \A m \in n + 1 .. k : rs[m].kind = "inline" THEN rs[k]
                  ELSE Row("", "", 0, << >>)],
              LAMBDA r : r.kind = "inline")

-----------------------------------------------------------------------------
(* Inlines: ConvertDbInlinesToPandocVal.                                   *)

LeafNode == [c \in {LeafType[t] : t \in DOMAIN LeafType} |->
                CHOOSE t \in DOMAIN LeafType : LeafType[t] = c]

WrapperNode == [c \in {WrapperType[t] : t \in DOMAIN WrapperType} |->
                   CHOOSE t \in DOMAIN WrapperType : WrapperType[t] = c]

Nesting == DOMAIN WrapperNode \cup {"note", "generic"}

\* Types whose text stands in for inlines they do not have.
ContentIsFallback == Nesting \ {"quoted", "span", "generic"}

\* A leaf as its constructor; a math inline is always an inline one, and a raw
\* one without a format is html.
LeafOut(r) ==
    LET n == [Node(LeafNode[r.type]) EXCEPT
                 !.text = IF r.type \in {"space", "softbreak", "linebreak"} THEN << >>
                          ELSE r.content]
    IN  CASE r.type = "math" -> Classed("inline", n)
          [] r.type = "raw" -> Classed(IF r.class = "" THEN "html" ELSE r.class, n)
          [] OTHER -> n

\* A wrapper around what was nested below it.  A note's body is one paragraph,
\* an unknown constructor a span classed with its name.
WrapperOut(r, nested) ==
    LET inl == IF nested = << >> /\ r.type \in ContentIsFallback THEN StrIfAny(r.content)
               ELSE nested
    IN  CASE r.type = "note" -> Group("Note", <<Inline("Para", inl)>>)
          [] r.type = "generic" -> Classed(r.class, Inline("Span", inl))
          [] r.type \in {"link", "quoted"} -> Classed(r.class, Inline(WrapperNode[r.type], inl))
          [] OTHER -> Inline(WrapperNode[r.type], inl)

ImageOut(r, nested) ==
    Classed(r.class, Inline("Image", IF nested = << >> THEN StrIfAny(r.content) ELSE nested))

InlineOut(r, nested) ==
    IF r.type \in DOMAIN LeafNode THEN LeafOut(r)
    ELSE IF r.type \in Nesting THEN WrapperOut(r, nested)
    ELSE IF r.type = "image" THEN ImageOut(r, nested)
    ELSE Str(<<Braces, r.type>>)

RECURSIVE InlinesFrom(_, _, _)

\* From index n on, the rows at the target level: a shallower row ends the
\* run, a deeper one is passed over.
InlinesFrom(rs, n, target) ==
    IF n > Len(rs) \/ (n <= Len(rs) /\ rs[n].level < target) THEN Walked(<< >>, n)
    ELSE IF rs[n].level > target THEN InlinesFrom(rs, n + 1, target)
    ELSE LET nested == IF rs[n].type \in Nesting \cup {"image"}
                       THEN InlinesFrom(rs, n + 1, target + 1)
                       ELSE Walked(<< >>, n + 1)
             rest == InlinesFrom(rs, nested.next, target)
         IN  Walked(<<InlineOut(rs[n], nested.out)>> \o rest.out, rest.next)

InlinesAt(rows, level) == InlinesFrom(rows, 1, level).out

\* The inlines of a block: its inline rows, or its text when it has none.
OwnInlines(text, run, level) == IF run = << >> THEN OneStr(text) ELSE InlinesAt(run, level)

-----------------------------------------------------------------------------
(* Tables: NativeTableToPandocVal.                                         *)

CellOut(text) ==
    Group("Cell", IF text = << >> THEN << >> ELSE <<Inline("Para", OneStr(text))>>)

RowOut(cells) == Group("Row", [c \in DOMAIN cells |-> CellOut(cells[c])])

\* A native table: an empty header row makes a head without rows.
NativeTable(grid) ==
    Group("Table", <<Group("Head", IF Head(grid) = << >> THEN << >> ELSE <<RowOut(Head(grid))>>),
                     Group("Body", [r \in 1 .. Len(grid) - 1 |-> RowOut(grid[r + 1])]),
                     Group("Foot", << >>)>>)

\* The tuple a table came with, where it came with one.
TableOut(r) == IF r.tuple = Node("") THEN NativeTable(r.grid) ELSE r.tuple

-----------------------------------------------------------------------------
(* Blocks that own nothing but inlines.                                    *)

\* CreatePandocAttrVal: the class of a row that may carry one.
ClassOr(r, fallback) ==
    IF r.type \in {"div", "section", "code"} /\ r.class # "" THEN r.class ELSE fallback

\* A Div classed as its row, or by the fallback.
DivOut(r, kids, fallback) == Classed(ClassOr(r, fallback), Group("Div", kids))

RawOut(r) == Classed(IF r.class = "" THEN "html" ELSE r.class, Text("RawBlock", r.content))

ParagraphNode == [paragraph |-> "Para", plain |-> "Plain"]

ParagraphOut(r, run, level) ==
    Inline(ParagraphNode[r.type], OwnInlines(r.content, run, level))

HeadingOut(r, run, level) ==
    Classed(r.class, Inline("Header", OwnInlines(r.content, run, level)))

CodeOut(r) == Classed(r.class, Text("CodeBlock", r.content))

-----------------------------------------------------------------------------
(* Lists: ConvertListToPandocVal.                                          *)

Item(r) == [content |-> r.content, role |-> r.role, tight |-> TRUE, seen |-> FALSE,
            inl |-> << >>, extra |-> << >>, slot |-> 0, blocks |-> << >>, nested |-> << >>]

NoItem == Item(BlockRow("", 0, << >>))

\* An item takes another paragraph: its first becomes its own text, every
\* later one is kept apart with the inlines that follow it.
\* Mutated form: "first" is inferred from an empty text.
TakesParagraphByContent(item, r) ==
    IF item.content = << >> /\ item.extra = << >>
    THEN [item EXCEPT !.tight = r.type = "plain", !.content = r.content, !.slot = 0,
                      !.seen = TRUE]
    ELSE [item EXCEPT !.extra = Append(@, [text |-> r.content, tight |-> r.type = "plain",
                                           inl |-> << >>]),
                      !.slot = Len(item.extra) + 1, !.seen = TRUE]

TakesParagraph(item, r) ==
    IF ~item.seen /\ item.content = << >> /\ item.inl = << >> /\ item.extra = << >>
    THEN [item EXCEPT !.tight = r.type = "plain", !.content = r.content, !.slot = 0,
                      !.seen = TRUE]
    ELSE [item EXCEPT !.extra = Append(@, [text |-> r.content, tight |-> r.type = "plain",
                                           inl |-> << >>]),
                      !.slot = Len(item.extra) + 1, !.seen = TRUE]

TakesInline(item, r) ==
    IF item.slot = 0 THEN [item EXCEPT !.inl = Append(@, r)]
    ELSE [item EXCEPT !.extra[item.slot].inl = Append(@, r)]

\* The item's paragraphs as nodes, at the level of their first inline.
ItemParagraph(tight, inl, otherwise) ==
    Inline(IF tight THEN "Plain" ELSE "Para",
           IF inl = << >> THEN otherwise ELSE InlinesAt(inl, Head(inl).level))

Extras(item) ==
    [k \in DOMAIN item.extra |->
        ItemParagraph(item.extra[k].tight, item.extra[k].inl, OneStr(item.extra[k].text))]

OwnParagraph(item) == ItemParagraph(item.tight, item.inl, StrIfAny(item.content))

\* An item's blocks: paragraphs first, then the other blocks, then a nested
\* list; without a text of its own, only what came with it.
ItemOut(item) ==
    Group("Item",
          IF item.content = << >> /\ item.inl = << >> /\ item.blocks # << >>
          THEN item.blocks \o item.nested
          ELSE <<OwnParagraph(item)>> \o Extras(item) \o item.blocks \o item.nested)

DefinitionOut(item) ==
    Group("Item", <<OwnParagraph(item)>> \o Extras(item) \o item.blocks \o item.nested)

RECURSIVE Terms(_)

\* Each term with the definitions that follow it; anything else is passed.
Terms(items) ==
    IF items = << >> THEN << >>
    ELSE IF Head(items).role # "term" THEN Terms(Tail(items))
    ELSE LET defs == SelectSeq([k \in 1 .. Len(items) - 1 |->
                         IF \A m \in 2 .. k + 1 : items[m].role = "definition" THEN items[k + 1]
                         ELSE NoItem], LAMBDA item : item.role = "definition")
         IN  <<[Node("Term") EXCEPT !.inl = OneStr(Head(items).content),
                                    !.kids = [k \in DOMAIN defs |-> DefinitionOut(defs[k])]]>>
                 \o Terms(SubSeq(items, Len(defs) + 2, Len(items)))

\* An ordered list starts where it did.
ListOut(r, items) ==
    IF r.role = "definition" THEN Group("DefinitionList", Terms(items))
    ELSE LET out == [k \in DOMAIN items |-> ItemOut(items[k])]
         IN  IF r.role = "ordered"
             THEN Classed(IF r.class = "" THEN "1" ELSE r.class, Group("OrderedList", out))
             ELSE Group("BulletList", out)

-----------------------------------------------------------------------------
(* Containers.                                                             *)

RECURSIVE ListFrom(_, _), ListWalk(_, _, _), Children(_, _, _), ContainerWalk(_, _, _),
          Unhandled(_, _)

\* A list and its rows.
Items(walk) == IF walk.in THEN Append(walk.items, walk.cur) ELSE walk.items
ListWalked(r, walk) == Walked(ListOut(r, Items(walk)), walk.j)

ListFrom(rs, s) ==
    ListWalked(rs[s], ListWalk(rs, rs[s].level, [items |-> << >>, cur |-> NoItem, in |-> FALSE,
                                                 j |-> s + 1]))

\* The walk of a list ends at a row that is neither a block nor an inline, and
\* at a block that is not below the list.
EndsList(r, level) ==
    r.kind # "inline" /\ (~IsBlockRow(r) \/ r.level <= level)

\* The item takes a nested list, in the place of any it had; a block that is no
\* paragraph; or it is shut by a block beside it, which is an item of its own.
TakesList(w, list) == [w EXCEPT !.cur.nested = <<list.out>>, !.j = list.next]
TakesBlock(w, block) == [w EXCEPT !.cur.blocks = Append(@, block.out), !.j = block.next]
TakesStray(w, block) ==
    [items |-> Append(Items(w), [NoItem EXCEPT !.blocks = <<block.out>>]),
     cur |-> NoItem, in |-> FALSE, j |-> block.next]

\* The turn at a row of a list at this level.
ListTurn(rs, level, w) ==
    LET r == rs[w.j]
        depth == r.level - level
        on == [w EXCEPT !.j = @ + 1]
    IN  IF r.kind = "inline"
        THEN IF w.in /\ depth >= 2 THEN [on EXCEPT !.cur = TakesInline(@, r)] ELSE on
        ELSE IF r.type = "list_item" /\ depth = 1
        THEN [on EXCEPT !.items = Items(w), !.cur = Item(r), !.in = TRUE]
        ELSE IF r.type = "list" /\ depth \in {1, 2}
        THEN IF w.in THEN TakesList(w, ListFrom(rs, w.j)) ELSE on
        ELSE IF r.type \in {"paragraph", "plain"} /\ depth = 2 /\ w.in
        THEN [on EXCEPT !.cur = TakesParagraph(@, r)]
        ELSE IF depth = 1 THEN TakesStray(w, Unhandled(rs, w.j))
        ELSE IF depth = 2 /\ w.in THEN TakesBlock(w, Unhandled(rs, w.j))
        ELSE on

ListWalk(rs, level, w) ==
    IF w.j > Len(rs) \/ (w.j <= Len(rs) /\ EndsList(rs[w.j], level)) THEN w
    ELSE ListWalk(rs, level, ListTurn(rs, level, w))

\* A row the walks do not enumerate: a rule and a raw block as they are,
\* anything else as a Div classed by its type.
UnhandledOut(r, walk) ==
    Walked(CASE r.type = "hr" -> Node("HorizontalRule")
             [] r.type = "raw" -> RawOut(r)
             [] OTHER -> DivOut(r, walk.out, r.type),
           walk.next)

Unhandled(rs, s) == UnhandledOut(rs[s], Children(rs, s, ""))

\* Mutated form: a container's own text is not written.
ChildrenWithoutOwnText(rs, s, switch) ==
    ContainerWalk(rs, [level |-> rs[s].level, switch |-> switch],
                  [out |-> << >>, cap |-> << >>, on |-> FALSE, next |-> s + 1])

\* Everything below the container at s, with its own text first.  With a
\* switch, what follows the row of that type goes to cap.
Children(rs, s, switch) ==
    LET r == rs[s]
        own == InlinesFrom(rs, s + 1, r.level + 1).out
    IN  ContainerWalk(rs, [level |-> r.level, switch |-> switch],
                      [out |-> IF r.content = << >> THEN << >>
                               ELSE <<Inline("Plain", IF own = << >> THEN OneStr(r.content)
                                                      ELSE own)>>,
                       cap |-> << >>, on |-> FALSE, next |-> s + 1])

\* A blockquote as a leaf: its json, or its own text or inlines in one
\* paragraph.
QuoteLeaf(r, run, level) ==
    Group("BlockQuote",
          IF IsJson(r) THEN r.tuple.kids
          ELSE <<Inline("Para", IF run = << >> THEN StrIfAny(r.content)
                                ELSE InlinesAt(run, level))>>)

\* The switching row's own text.
SwitchText(r, run) ==
    IF run = << >> /\ r.content = << >> THEN << >>
    ELSE LET inl == InlinesAt(run, r.level + 1)
         IN  <<Inline("Plain", IF inl = << >> THEN OneStr(r.content) ELSE inl)>>

WalkedOver(x) == Walked(<<x.out>>, x.next)
DivWalked(r, walk) == Walked(<<DivOut(r, walk.out, "")>>, walk.next)

\* The turn at row j inside a container.
ContainerTurn(rs, j) ==
    LET r == rs[j]
        run == InlineRun(rs, j)
        Leaf(n) == Walked(<<n>>, j + 1)
    IN  IF ~IsBlockRow(r) \/ r.type = "list_item" THEN Walked(<< >>, j + 1)
        ELSE CASE r.type \in {"paragraph", "plain"} -> Leaf(ParagraphOut(r, run, r.level + 1))
               [] r.type = "heading" -> Leaf(HeadingOut(r, run, r.level + 1))
               [] r.type = "code" -> Leaf(CodeOut(r))
               [] r.type = "blockquote" -> Leaf(QuoteLeaf(r, run, r.level + 1))
               [] r.type = "hr" -> Leaf(Node("HorizontalRule"))
               [] r.type = "list" -> WalkedOver(ListFrom(rs, j))
               [] r.type = "div" -> DivWalked(r, Children(rs, j, ""))
               [] r.type = "table" /\ IsJson(r) -> Leaf(TableOut(r))
               [] r.type = "deflist" /\ IsJson(r) -> Leaf(r.tuple)
               [] OTHER -> WalkedOver(Unhandled(rs, j))

\* What a turn came to, added where the walk stands.
Added(w, turn, on) ==
    [out |-> IF on THEN w.out ELSE w.out \o turn.out,
     cap |-> IF on THEN w.cap \o turn.out ELSE w.cap,
     on |-> on, next |-> turn.next]

Switches(r, c) == IsBlockRow(r) /\ c.switch # "" /\ r.type = c.switch /\ r.level = c.level + 1

ContainerWalk(rs, c, w) ==
    IF w.next > Len(rs)
       \/ (w.next <= Len(rs) /\ IsBlockRow(rs[w.next]) /\ rs[w.next].level <= c.level)
    THEN w
    ELSE ContainerWalk(rs, c,
             IF Switches(rs[w.next], c)
             THEN Added(w, Walked(SwitchText(rs[w.next], InlineRun(rs, w.next)), w.next + 1), TRUE)
             ELSE Added(w, ContainerTurn(rs, w.next), w.on))

\* The first block after s is below it.
HasBlockChildren(rs, s) ==
    \E k \in s + 1 .. Len(rs) :
        /\ IsBlockRow(rs[k]) /\ rs[k].level > rs[s].level
        /\ \A m \in s + 1 .. k - 1 : ~IsBlockRow(rs[m])

\* A figure, from the walk of its children: its blocks, and what the walk put
\* behind its caption row.
FigureOut(rs, s, walk) ==
    LET end == CHOOSE e \in s + 1 .. Len(rs) + 1 :
                   /\ e <= Len(rs) => IsBlockRow(rs[e]) /\ rs[e].level <= rs[s].level
                   /\ \A m \in s + 1 .. e - 1 : ~(IsBlockRow(rs[m]) /\ rs[m].level <= rs[s].level)
        captions == {k \in s + 1 .. end - 1 : rs[k].type = "caption"}
        short == IF captions = {} THEN ""
                 ELSE rs[CHOOSE k \in captions : \A m \in captions : k <= m].class
    IN  [Node("Figure") EXCEPT !.kids = walk.out, !.cap = walk.cap, !.class = short]

-----------------------------------------------------------------------------
(* BuildBlocksJson: one turn at a row of the top level.                    *)

\* A line of a rich line block ends at a linebreak just below the block.
RichLines(rs, s) ==
    LET run == InlineRun(rs, s)
        level == rs[s].level + 1
        Ends(n) == run[n].type = "linebreak" /\ run[n].level = level
        starts == {1} \cup {n + 1 : n \in {m \in DOMAIN run : Ends(m)}}
        Line(n) == SelectSeq([k \in DOMAIN run |->
                       IF k >= n /\ \A m \in n .. k : ~Ends(m) THEN run[k]
                       ELSE Row("", "", 0, << >>)], LAMBDA r : r.kind = "inline")
        sorted == SetToSortSeq(starts, <)
    IN  [n \in DOMAIN sorted |-> InlinesAt(Line(sorted[n]), level)]

\* The lines of a text, cut at its line ends.
PlainLines(text) ==
    FoldLeft(LAMBDA lines, x :
                IF x = NewLine THEN Append(lines, << >>)
                ELSE [lines EXCEPT ![Len(lines)] = Append(@, x)],
             <<<< >>>>, text)

LineBlockOut(rs, s) ==
    LET lines == IF InlineRun(rs, s) # << >> THEN RichLines(rs, s)
                 ELSE LET texts == PlainLines(rs[s].content)
                      IN  [n \in DOMAIN texts |-> StrIfAny(texts[n])]
    IN  Group("LineBlock", [n \in DOMAIN lines |-> Inline("Line", lines[n])])

\* A block image is a paragraph with one inline image.
ImageParagraph(r) ==
    Inline("Para", <<Classed(r.class, Inline("Image", OneStr(r.content)))>>)

\* A stored list of spec 1.x: its items are strings in its json.
StoredList(r) ==
    ListOut([r EXCEPT !.class = ""], [n \in DOMAIN r.grid |-> [NoItem EXCEPT !.content = r.grid[n]]])

\* What no arm knows is a Div classed by its type, its words in a paragraph.
UnknownOut(r, run) ==
    LET body == IF run = << >> THEN StrIfAny(r.content) ELSE InlinesAt(run, 2)
    IN  DivOut(r, IF run = << >> /\ r.content = << >> THEN << >>
                  ELSE <<Inline("Para", body)>>, r.type)

\* Rows the turn passes over: anything but a block, and blocks that are
\* nothing by themselves.
Passed(r) == ~IsBlockRow(r) \/ r.type \in {"list_item", "metadata", "document"}

\* A blockquote is walked as a container when there is something to find.
IsContainer(rs, s) ==
    \/ rs[s].type \in {"div", "section", "figure"}
    \/ /\ rs[s].type = "blockquote" /\ ~IsJson(rs[s])
       /\ HasBlockChildren(rs, s) \/ rs[s].content # << >>

ContainerOut(rs, s, walk) ==
    Walked(CASE rs[s].type = "div" -> DivOut(rs[s], walk.out, "")
             [] rs[s].type = "section" ->
                  DivOut(rs[s], walk.out, IF rs[s].role = "" THEN "section" ELSE rs[s].role)
             [] rs[s].type = "blockquote" -> Group("BlockQuote", walk.out)
             [] OTHER -> FigureOut(rs, s, walk),
           walk.next)

LeafBlockOut(rs, s) ==
    LET r == rs[s]
        run == InlineRun(rs, s)
    IN  CASE r.type = "heading" -> HeadingOut(r, run, 2)
          [] r.type \in {"paragraph", "plain"} -> ParagraphOut(r, run, 2)
          [] r.type = "code" -> CodeOut(r)
          [] r.type = "blockquote" -> QuoteLeaf(r, run, 2)
          [] r.type = "hr" -> Node("HorizontalRule")
          [] r.type = "raw" -> RawOut(r)
          [] r.type = "list" -> StoredList(r)
          [] r.type = "page" -> DivOut(r, << >>, "page")
          [] r.type = "table" -> TableOut(r)
          [] r.type = "image" -> ImageParagraph(r)
          [] r.type = "lineblock" -> LineBlockOut(rs, s)
          [] r.type \in {"deflist", "generic"} /\ IsJson(r) -> r.tuple
          [] OTHER -> UnknownOut(r, run)

\* The turn at row s: the node it writes and the row of the next turn.
BlockOut(rs, s) ==
    IF IsContainer(rs, s)
    THEN ContainerOut(rs, s, Children(rs, s, IF rs[s].type = "figure" THEN "caption" ELSE ""))
    ELSE IF rs[s].type = "list" /\ ~(IsJson(rs[s]) /\ ~HasBlockChildren(rs, s))
    THEN ListFrom(rs, s)
    ELSE Walked(LeafBlockOut(rs, s), s + 1)

-----------------------------------------------------------------------------
(* Metadata: BuildMetaValueJson.                                           *)

MetaNode == [c \in {MetaType[t] : t \in DOMAIN MetaType} |->
                CHOOSE t \in DOMAIN MetaType : MetaType[t] = c]

RECURSIVE MetaOut(_, _), MetaKids(_, _, _)

\* The values below a list, a map or blocks: a value no deeper ends it, and
\* so does a row that is no value, which blocks pass over.
MetaKids(rs, n, value) ==
    IF n > Len(rs) \/ (n <= Len(rs) /\ (IF rs[n].kind = "value" THEN rs[n].level <= value.level
                                        ELSE value.type # "blocks"))
    THEN Walked(<< >>, n)
    ELSE IF rs[n].kind # "value" THEN MetaKids(rs, n + 1, value)
    ELSE LET kid == MetaOut(rs, n)
             rest == MetaKids(rs, kid.next, value)
         IN  Walked(<<kid.out>> \o rest.out, rest.next)

MetaOut(rs, s) ==
    LET r == rs[s]
        run == InlineRun(rs, s)
    IN  IF r.type = "generic" THEN Walked(r.tuple, s + 1)
        ELSE IF r.type \in {"string", "bool"}
        THEN Walked(Classed(r.class, Text(MetaNode[r.type], r.content)), s + 1)
        ELSE IF r.type = "inlines"
        THEN Walked(Classed(r.class, Inline("MetaInlines", InlinesAt(run, r.level + 1))),
                    s + Len(run) + 1)
        ELSE LET walk == MetaKids(rs, s + 1, r)
             IN  Walked(Classed(r.class, Group(MetaNode[r.type], walk.out)), walk.next)
=============================================================================
