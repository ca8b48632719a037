---------------------------- MODULE LatexReader ----------------------------
(***************************************************************************)
(* The LaTeX reader (libpanduck/src/latex.cpp, latex_tokenizer.cpp and     *)
(* latex_macros.cpp).                                                      *)
(*                                                                         *)
(* A source line is a construct of the token stream: a text, a blank line  *)
(* or \par, a control word (its lead) with its arguments, & or the symbol  *)
(* that ends a line.  name is an environment or a key of metadata; an      *)
(* \item has a label, and an \author two names, if definition is TRUE.     *)
(* The argument of an inline macro is a text; what a transparent macro     *)
(* wraps is read as if it stood alone, and so is what braces do.           *)
(***************************************************************************)
EXTENDS MarkupRows

\* The environments the table claims, any other is transparent.
ListType == [itemize |-> "bullet", enumerate |-> "ordered", description |-> "definition"]
Container == [quote |-> "blockquote", quotation |-> "blockquote", figure |-> "figure"]
Verbatim == {"verbatim", "lstlisting"}
Tabular == {"tabular", "longtable"}
DroppedEnvironment == {"tikzpicture", "equation", "align", "gather", "multline", "displaymath"}

-----------------------------------------------------------------------------
(* Tokenize, and the preamble.                                             *)

KindOf(s) ==
    CASE s.lead = "" -> "PAR_BREAK"
      [] s.lead \in {"word", "&"} -> "TEXT"
      [] s.lead = "textbf" -> "INLINE"
      [] s.lead = "begin" ->
           (CASE s.name \in Verbatim -> "VERBATIM"
              [] s.name \in Tabular -> "TABULAR"
              [] s.name \in DroppedEnvironment -> "DROPPED"
              [] s.name \in DOMAIN ListType -> "LIST"
              [] s.name \in DOMAIN Container -> "CONTAINER"
              [] OTHER -> "TRANSPARENT")
      [] s.lead \in {"end", "item", "section", "meta", "documentclass", "hline", "newline"} -> s.lead
      [] OTHER -> "NOTHING"

\* Verbatim runs to its own end, or to the end of the source.
LastLineOf(n) ==
    IF KindOf(source[n]) # "VERBATIM" THEN n
    ELSE Min({m \in n + 1 .. Len(source) : source[m].lead = "end" /\ source[m].name = source[n].name}
             \cup {Len(source)})

Scan ==
    /\ phase = "scan" /\ i <= Len(source)
    /\ Scanned([kind |-> KindOf(source[i]), name |-> source[i].name,
                first |-> i, last |-> LastLineOf(i)], LastLineOf(i))

\* The last one stated counts.
Captured(meta, line) == IF line.kind = "meta" THEN [meta EXCEPT ![line.name] = line.first] ELSE meta

\* The first \begin{document}, one past the end when there is none.
BeginOfDocument ==
    Min({n \in DOMAIN lines : lines[n].kind = "TRANSPARENT" /\ lines[n].name = "document"}
        \cup {Len(lines) + 1})

\* What is read: behind \begin{document}, else behind \documentclass, else all.
Body ==
    IF BeginOfDocument <= Len(lines) THEN SubSeq(lines, BeginOfDocument + 1, Len(lines))
    ELSE SubSeq(lines, Max({0} \cup {n \in DOMAIN lines : lines[n].kind = "documentclass"}) + 1, Len(lines))

\* Of a preamble only the metadata is read, of a fragment first of all.
StartBuild ==
    BuildFrom(Body,
        [blocks |-> << >>, env_stack |-> << >>, depth |-> 1, pending |-> << >>, formatted |-> 0,
         meta |-> FoldLeft(Captured, [key \in {"title", "author", "date"} |-> 0],
                           SubSeq(lines, 1, BeginOfDocument - 1))])

-----------------------------------------------------------------------------
(* Runs, environments and items.                                           *)

Open(b) == Last(b.env_stack)

InList(b) == b.env_stack # << >> /\ Open(b).type # ""

\* A run in an item is plain until its list is closed.
RunElementType(b) == IF InList(b) /\ Open(b).item_open THEN "plain" ELSE "paragraph"

\* A block's style is the line of a formatted run in it, 0 for plain text.
FlushRun(b) ==
    IF b.pending = << >> THEN b
    ELSE [Emitted(b, [Row(RunElementType(b), b.depth, b.pending) EXCEPT !.style = b.formatted])
            EXCEPT !.pending = << >>, !.formatted = 0]

Flushed == FlushRun(builder)

NoteParagraphBreak(b) ==
    IF InList(b) /\ Open(b).items # << >> THEN [b EXCEPT !.env_stack[Len(b.env_stack)].loose = TRUE] ELSE b

\* saved_depth, which is list_depth for a list; block is 0 for NO_BLOCK.
Entered(b, name, type, block) ==
    [b EXCEPT !.env_stack = Append(@, [name |-> name, saved |-> b.depth, type |-> type,
                                       item_open |-> FALSE, loose |-> FALSE, items |-> << >>, block |-> block])]

\* A container emits its block, and what it holds is one deeper.
EnteredBlock(b, name, type, row) ==
    [Emitted(Entered(b, name, type, Len(b.blocks) + 1), row) EXCEPT !.depth = @ + 1]

\* In a loose list the runs of all items are paragraphs.
Loosened(b) ==
    LET f == Open(b)
    IN  [b EXCEPT !.blocks = [n \in DOMAIN b.blocks |->
            IF f.items # << >> /\ n > f.items[1] /\ b.blocks[n].level = f.saved + 2
                 /\ b.blocks[n].type = "plain"
            THEN [b.blocks[n] EXCEPT !.type = "paragraph"] ELSE b.blocks[n]]]

\* Mutated form: the run is folded whatever comes behind it in its item.
FirstRuns(b) ==
    LET f == Open(b)
    IN  {n \in DOMAIN b.blocks :
            /\ \E k \in DOMAIN f.items : n = f.items[k] + 1
            /\ b.blocks[n].type = "plain" /\ b.blocks[n].style = 0}

\* The runs that are the only child of an item of the list, and bare.
LoneRuns(b) ==
    LET f == Open(b)
    IN  {n \in DOMAIN b.blocks :
            /\ \E k \in DOMAIN f.items :
                  /\ n = f.items[k] + 1
                  /\ n + 1 = IF k < Len(f.items) THEN f.items[k + 1] ELSE Len(b.blocks) + 1
            /\ b.blocks[n].type = "plain" /\ b.blocks[n].style = 0}

\* In a tight list such a run is folded into its item.
Folded(b) ==
    LET lone == LoneRuns(b)
        kept == SelectSeq([n \in DOMAIN b.blocks |-> n], LAMBDA n : n \notin lone)
    IN  [b EXCEPT !.blocks = [k \in DOMAIN kept |->
            IF kept[k] + 1 \in lone THEN [b.blocks[kept[k]] EXCEPT !.text = b.blocks[kept[k] + 1].text]
            ELSE b.blocks[kept[k]]]]

ResolveList(b) == IF ~InList(b) THEN b ELSE IF Open(b).loose THEN Loosened(b) ELSE Folded(b)

\* A container that is the last block is empty, and is withdrawn.
PopEnvironment(b) ==
    LET resolved == ResolveList(b)
        f == Open(b)
        withdrawn == f.block # 0 /\ f.block = Len(resolved.blocks)
    IN  [resolved EXCEPT !.blocks = IF withdrawn THEN Front(@) ELSE @,
                         !.depth = f.saved, !.env_stack = Front(@)]

\* Through a singleton, for TLC to evaluate each of the builders once.
PoppedTo(b, size) ==
    LET Popped(bs, k) == {PopEnvironment(x) : x \in bs}
    IN  CHOOSE x \in FoldLeft(Popped, {b}, [k \in 1 .. Len(b.env_stack) - size |-> k]) : TRUE

\* The innermost environment of that name and all in it; a stray end none, but
\* \end{document} all.
EndEnvironment(b, name) ==
    LET open == {k \in DOMAIN b.env_stack : b.env_stack[k].name = name}
    IN  PoppedTo(b, IF open # {} THEN Max(open) - 1
                    ELSE IF name = "document" THEN 0 ELSE Len(b.env_stack))

Label(n) == TextIf(source[n].definition, TermOf(n))

WithItem(b, row, opens) ==
    LET f == Len(b.env_stack)
    IN  [Emitted(b, row) EXCEPT !.env_stack[f].items = Append(@, Len(b.blocks) + 1),
                                !.env_stack[f].item_open = @ \/ opens,
                                !.depth = IF opens THEN Open(b).saved + 2 ELSE @]

\* Outside a list an item is text.  A label is the term of a description, and
\* nothing in other lists.
StartItem(b, n) ==
    IF ~InList(b) THEN [b EXCEPT !.pending = Label(n)]
    ELSE LET defines == Open(b).type = "definition"
             level == Open(b).saved + 1
             named == IF defines /\ source[n].definition
                      THEN WithItem(b, ItemOf(level, "term", Label(n)), FALSE) ELSE b
         IN  WithItem(named, ItemOf(level, IF defines THEN "definition" ELSE "", << >>), TRUE)

-----------------------------------------------------------------------------
(* Environments that are scanned as a whole.                               *)

IsEnd(n, name) == lines[n].kind = "end" /\ lines[n].name = name

IsClosed(line) == line.last > line.first /\ source[line.last].lead = "end" /\ source[line.last].name = line.name

VerbatimText(line) == WholeLines(line.first + 1, IF IsClosed(line) THEN line.last - 1 ELSE line.last)

\* ScanToEnd: to its end, of those of its own name, or to the document's.
EndOfDropped(begin) ==
    LET Nest(n) == Cardinality({m \in begin .. n : lines[m].kind = "DROPPED" /\ lines[m].name = Line.name})
                     - Cardinality({m \in begin .. n : IsEnd(m, Line.name)})
    IN  Min({n \in begin .. Len(lines) : Nest(n) = 0 \/ IsEnd(n, "document")} \cup {Len(lines)})

\* A table ends with the first end of its name, or with the document.
EndOfTable(begin) ==
    Min({n \in begin .. Len(lines) : IsEnd(n, Line.name) \/ IsEnd(n, "document")} \cup {Len(lines) + 1})

\* What a construct leaves in a cell: its text, and of an environment the name.
CellText(line) ==
    CASE line.kind = "TEXT" -> TextIf(source[line.first].lead = "word", TextOf(line.first))
      [] line.kind \in {"INLINE", "section"} -> TextIf(source[line.first].text, TextOf(line.first))
      [] line.kind = "item" -> Label(line.first)
      [] line.kind = "VERBATIM" ->
           <<LeadOf(line.first)>> \o VerbatimText(line) \o TextIf(IsClosed(line), LeadOf(line.last))
      [] line.kind \in {"end", "TABULAR", "DROPPED", "LIST", "CONTAINER", "TRANSPARENT"} ->
           <<LeadOf(line.first)>>
      [] OTHER -> << >>

\* A row of nothing is no row.
EndRow(t) ==
    IF t.row = << >> THEN t
    ELSE [t EXCEPT !.rows = Append(@, t.row), !.ruled_after = Append(@, FALSE), !.row = << >>]

InTable(t, line) ==
    CASE line.kind = "newline" -> EndRow(t)
      [] line.kind = "hline" ->
           IF t.rows = << >> THEN [t EXCEPT !.leading_rule = TRUE]
           ELSE [t EXCEPT !.ruled_after[Len(t.rows)] = TRUE]
      [] OTHER -> [t EXCEPT !.row = @ \o CellText(line)]

\* The first row is a header between two rules, if there is another.
EmitTabular(b, from, to) ==
    LET t == EndRow(FoldLeft(InTable, [rows |-> << >>, ruled_after |-> << >>, leading_rule |-> FALSE, row |-> << >>],
                             SubSeq(lines, from, to)))
        headed == t.leading_rule /\ Len(t.rows) > 1 /\ t.ruled_after[1]
    IN  IF t.rows = << >> THEN b
        ELSE Emitted(b, Table(b.depth, IF headed THEN t.rows[1] ELSE << >>,
                              IF headed THEN Tail(t.rows) ELSE t.rows))

-----------------------------------------------------------------------------
(* Run: one action per construct.                                          *)

\* Nothing is read behind \end{document}.
Past(n) == IF n <= Len(lines) /\ IsEnd(n, "document") THEN Len(lines) ELSE n

ReadText ==
    /\ Reading({"TEXT"})
    /\ Consumed([builder EXCEPT !.pending =
            @ \o <<IF source[Line.first].lead = "&" THEN LeadOf(Line.first) ELSE TextOf(Line.first)>>], i)

\* An inline without a text is no inline.
ReadInline ==
    /\ Reading({"INLINE"})
    /\ Consumed(IF ~source[Line.first].text THEN builder
                ELSE [builder EXCEPT !.pending = Append(@, TextOf(Line.first)), !.formatted = Line.first], i)

ReadBreak == Reading({"PAR_BREAK"}) /\ Consumed(FlushRun(NoteParagraphBreak(builder)), i)

PassMacro == Reading({"documentclass", "hline", "newline", "NOTHING"}) /\ Consumed(builder, i)

ReadMetadata == Reading({"meta"}) /\ Consumed([builder EXCEPT !.meta = Captured(@, Line)], i)

ReadHeading ==
    /\ Reading({"section"})
    /\ Consumed(IF ~source[Line.first].text THEN Flushed
                ELSE Emitted(Flushed, Row("heading", builder.depth, <<TextOf(Line.first)>>)), i)

ReadItem == Reading({"item"}) /\ Consumed(StartItem(Flushed, Line.first), i)

BeginTransparent == Reading({"TRANSPARENT"}) /\ Consumed(Entered(Flushed, Line.name, "", 0), i)

BeginContainer ==
    /\ Reading({"CONTAINER"})
    /\ Consumed(EnteredBlock(Flushed, Line.name, "", Row(Container[Line.name], builder.depth, << >>)), i)

BeginList ==
    /\ Reading({"LIST"})
    /\ LET type == ListType[Line.name]
       IN  Consumed(EnteredBlock(Flushed, Line.name, type, List(builder.depth, type)), i)

ReadVerbatim ==
    /\ Reading({"VERBATIM"})
    /\ Consumed(IF VerbatimText(Line) = << >> THEN Flushed
                ELSE Emitted(Flushed, Row("code", builder.depth, VerbatimText(Line))), i)

PassDropped == Reading({"DROPPED"}) /\ Consumed(Flushed, Past(EndOfDropped(i)))

ReadTabular ==
    /\ Reading({"TABULAR"})
    /\ LET end == EndOfTable(i + 1)
       IN  Consumed(EmitTabular(Flushed, i + 1, end - 1), Past(end))

ReadEnd == Reading({"end"}) /\ Consumed(EndEnvironment(Flushed, Line.name), Past(i))

\* EmitMetadata, behind the blocks: an author is a list of names.
MetadataRows(key, n) ==
    LET Value(type, level, text) == [Row(type, level, text) EXCEPT !.kind = "value"]
        words == TextIf(source[n].text, TextOf(n))
        names == Label(n) \o words
    IN  IF n = 0 THEN << >>
        ELSE IF key # "author" THEN <<[Value("inlines", 1, words) EXCEPT !.key = key]>>
        ELSE <<[Value("list", 1, << >>) EXCEPT !.key = key]>>
             \o [k \in DOMAIN names |-> Value("inlines", 2, <<names[k]>>)]

\* What is still open at the end is closed like the rest.
ReturnRows ==
    /\ phase = "build" /\ i > Len(lines)
    /\ Returned(AllEmitted(PoppedTo(Flushed, 0),
            FlattenSeq([k \in 1 .. 3 |->
                LET key == <<"author", "date", "title">>[k] IN MetadataRows(key, builder.meta[key])])))

Next ==
    \/ Scan \/ StartBuild
    \/ ReadText \/ ReadInline \/ ReadBreak \/ PassMacro \/ ReadMetadata \/ ReadHeading \/ ReadItem
    \/ BeginTransparent \/ BeginContainer \/ BeginList \/ ReadVerbatim \/ PassDropped \/ ReadTabular \/ ReadEnd
    \/ ReturnRows
=============================================================================
