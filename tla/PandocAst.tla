----------------------------- MODULE PandocAst -----------------------------
(***************************************************************************)
(* Pandoc's JSON document as src/src/pandoc_block_convert.cpp reads it:    *)
(* blocks and inlines of one shape of node.                                *)
(*                                                                         *)
(*   t      the constructor                                                *)
(*   class  what its attributes say that the converter looks at: a class,  *)
(*          a heading level, a list's start, a raw format, a metadata key  *)
(*   text   a leaf's text, a sequence of words                             *)
(*   inl    the inlines below it                                           *)
(*   kids   the blocks (or items, lines, rows, cells) below it             *)
(*   cap    the blocks of a figure's caption                               *)
(*                                                                         *)
(* A text is a sequence of words, blanks and line ends: the properties ask *)
(* which words come back, where and in which order.                        *)
(***************************************************************************)
EXTENDS Sequences, SequencesExt

Blank == " "
NewLine == "\n"
Braces == "{}"  \* the punctuation of a json text

Node(t) == [t |-> t, class |-> "", text |-> << >>, inl |-> << >>,
            kids |-> << >>, cap |-> << >>]

Text(t, words) == [Node(t) EXCEPT !.text = words]
Str(words) == Text("Str", words)
Inline(t, inl) == [Node(t) EXCEPT !.inl = inl]
Group(t, kids) == [Node(t) EXCEPT !.kids = kids]
Classed(class, n) == [n EXCEPT !.class = class]

Lists == {"BulletList", "OrderedList"}
TextLeaves == {"Str", "Code", "Math", "RawInline"}
LiteralBlocks == {"CodeBlock", "RawBlock"}

\* The results of Op over the sequence s, one after the other.
Each(s, Op(_)) == FlattenSeq([n \in DOMAIN s |-> Op(s[n])])

-----------------------------------------------------------------------------
(* The converter's flattening of inlines to text.                          *)

RECURSIVE NodeText(_)

\* ExtractInlinesTextVal on one inline.  Inside a Note it descends through
\* blocks as well, a figure's caption first, but a literal block's text is a
\* bare string it walks past.
NodeText(n) ==
    IF n.t \in TextLeaves THEN n.text
    ELSE IF n.t \in {"Space", "SoftBreak"} THEN <<Blank>>
    ELSE IF n.t = "LineBreak" THEN <<NewLine>>
    ELSE IF n.t \in LiteralBlocks THEN << >>
    ELSE Each(n.inl, NodeText) \o Each(n.cap, NodeText) \o Each(n.kids, NodeText)

InlinesText(inls) == Each(inls, NodeText)

\* ExtractBlocksTextVal: the texts of a cell's blocks, blanks between them.
BlocksText(blocks) ==
    FoldLeft(LAMBDA out, b :
                LET piece == NodeText(b)
                IN  IF piece = << >> THEN out
                    ELSE IF out = << >> THEN piece ELSE out \o <<Blank>> \o piece,
             << >>, blocks)

\* The nonempty texts among a row's cells.
RowCells(row) == [c \in DOMAIN row.kids |-> BlocksText(row.kids[c].kids)]

\* ProjectTableToNativeJson: the first header row, then the rows of the
\* bodies, intermediate headers included; other header rows and the foot are
\* left to the tuple.  A table's kids are its header, its bodies and its foot.
Projection(table) ==
    <<IF table.kids[1].kids = << >> THEN << >> ELSE RowCells(table.kids[1].kids[1])>>
        \o [r \in DOMAIN table.kids[2].kids |-> RowCells(table.kids[2].kids[r])]

-----------------------------------------------------------------------------
(* What a reader of the document reads, in reading order: the reference    *)
(* the converter is compared with.                                         *)

IsWord(x) == x \notin {Blank, NewLine, Braces, ""}

RECURSIVE Words(_)
Words(n) == SelectSeq(n.text, IsWord) \o Each(n.inl, Words) \o Each(n.kids, Words)
                \o Each(n.cap, Words)

WordsOf(nodes) == Each(nodes, Words)
=============================================================================
