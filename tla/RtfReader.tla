----------------------------- MODULE RtfReader -----------------------------
(***************************************************************************)
(* The RTF reader (libpanduck/src/rtf.cpp): RtfParser::Parse, one token of *)
(* the source per step.                                                    *)
(*                                                                         *)
(* RTF has no elements.  Braces save and restore a group state, control    *)
(* words change it or mark the paragraph being collected, and `list`,      *)
(* `list_item` and `table` are inferred from the marks of one paragraph    *)
(* after the other.  Destinations (metadata, fonts, bookmarks, rendered    *)
(* bullets) are groups whose text must stay out of the document.           *)
(*                                                                         *)
(* A text is identified by the place of its token in the source, so that   *)
(* one can tell where in the output each token has gone.                   *)
(***************************************************************************)
EXTENDS BlockTree, ListStack, SequencesExt

CONSTANTS
    Document,   \* the sources that are read: sequences of tokens
    NoParam,    \* a control word without a parameter
    HeadingOf   \* [text -> 0 .. 6]: the level of a style whose name starts so

Symbol == {"{", "}", "eol", "char", "hex", "symbol", "*"}
Format == {"b", "i", "ul", "strike"}
Literal == {"tab", "line", "emdash", "endash", "bullet", "lquote", "rquote", "ldblquote", "rdblquote"}
MetaWord == {"title", "author", "subject"}
\* IsSkippedDestination, but for \info, which has a state of its own.
SkippedDestination ==
    {"fonttbl", "colortbl", "object", "header", "footer", "footnote", "listtable",
     "listoverridetable", "rsidtbl", "generator", "themedata", "colorschememapping",
     "latentstyles", "datastore", "xmlnstbl", "upr", "annotation"}

\* text is what the token adds to a text, " " for a blank, "" for nothing.
Token == [word : STRING, param : Int \cup {NoParam}, text : STRING]

ASSUME RtfAssumption ==
    /\ Document \subseteq Seq(Token)
    /\ NoParam \notin Int

VARIABLES
    source,       \* src_
    lists,        \* list_ordered_ and ls_to_listid_
    pos,          \* pos_
    fresh,        \* fresh_: the last token opened a group
    skip_chars,   \* skip_chars_
    stack,        \* stack_: the open groups, the document first
    sheet,        \* styles_ and the style_entry_* fields
    para,         \* style_id_, outline_level_, list_id_ and list_level_
    body,         \* runs_, blocks_, open_ordered_ and the table_* fields
    meta,         \* meta_
    rows          \* what ReadRtf returns, << >> until then

rtfVars == <<source, lists, pos, fresh, skip_chars, stack, sheet, para, body, meta, rows>>

-----------------------------------------------------------------------------
(* Texts, and the list tables.                                             *)

Blank(p) == source[p].text = " "

\* A text without the blanks around it.
Trim(text) ==
    LET ink == {n \in DOMAIN text : ~Blank(text[n])}
    IN  IF ink = {} THEN << >> ELSE SubSeq(text, Min(ink), Max(ink))

\* ScanListTable: one pass over the raw source.  A list states its levels
\* first and its id last; an override states the id first and its \ls last.
ScanListTable ==
    LET Empty == [pending_levels |-> << >>, pending_ls |-> -1, in_override |-> FALSE,
                  list_ordered |-> {}, ls_to_listid |-> {}]
        Scanned[n \in 0 .. Len(source)] ==
            IF n = 0 THEN Empty ELSE
            LET s == Scanned[n - 1]
                w == source[n].word
                v == source[n].param
            IN  CASE w = "listoverridetable" -> [s EXCEPT !.in_override = TRUE]
                  [] w = "levelnfc" /\ v # NoParam /\ ~s.in_override ->
                       [s EXCEPT !.pending_levels = Append(@, v \notin {23, 255})]
                  [] w = "listid" /\ v # NoParam /\ s.in_override ->
                       [s EXCEPT !.pending_ls = v]
                  [] w = "listid" /\ v # NoParam /\ ~s.in_override ->
                       [s EXCEPT !.pending_levels = << >>,
                                 !.list_ordered =
                                     {e \in @ : e.id # v \/ e.level \notin DOMAIN s.pending_levels}
                                     \cup {[id |-> v, level |-> l, ordered |-> s.pending_levels[l]]
                                           : l \in DOMAIN s.pending_levels}]
                  [] w = "ls" /\ v # NoParam /\ s.in_override /\ s.pending_ls >= 0 ->
                       [s EXCEPT !.pending_ls = -1,
                                 !.ls_to_listid = {e \in @ : e.ls # v} \cup
                                     {[ls |-> v, id |-> s.pending_ls]}]
                  [] OTHER -> s
    IN  Scanned[Len(source)]

\* want_ordered: a list without a definition is a bullet list.
Ordered(ls, level) ==
    \E o \in lists.ls_to_listid, l \in lists.list_ordered :
        o.ls = ls /\ l.id = o.id /\ l.level = level /\ l.ordered

-----------------------------------------------------------------------------
(* What is emitted.                                                        *)

Row(type, level) ==
    [kind |-> "block", type |-> type, level |-> level, content |-> << >>, cells |-> << >>,
     ordered |-> FALSE, heading |-> 0, inlines |-> << >>, key |-> ""]

Texts(runs) == FlattenSeq([n \in DOMAIN runs |-> runs[n].text])

\* CharFormat::ElementType: a run is reported by its strongest attribute.
ElementType(fmt) ==
    CASE "b" \in fmt -> "bold"
      [] "b" \notin fmt /\ "i" \in fmt -> "italic"
      [] fmt \cap {"b", "i"} = {} /\ "ul" \in fmt -> "underline"
      [] fmt = {"strike"} -> "strikethrough"
      [] OTHER -> "text"

\* \outlinelevel wins; otherwise the style's name is looked up.
HeadingLevel ==
    IF para.outline_level \in 0 .. 8 THEN para.outline_level + 1
    ELSE LET named == {e \in sheet.styles : e.id = para.style_id}
         IN  IF named = {} THEN 0 ELSE HeadingOf[source[(CHOOSE e \in named : TRUE).name[1]].text]

\* Mutated form: an unfinished table is emitted again with the next one.
FlushTableKeepingRows(b) ==
    IF b.table_headers = << >> /\ b.table_rows = << >> THEN [b EXCEPT !.in_table = FALSE]
    ELSE [b EXCEPT
            !.blocks = Append(@, [Row("table", 1) EXCEPT
                                    !.cells = <<b.table_headers>> \o b.table_rows]),
            !.in_table = FALSE]

FlushTable(b) ==
    IF b.table_headers = << >> /\ b.table_rows = << >> THEN [b EXCEPT !.in_table = FALSE]
    ELSE [b EXCEPT
            !.blocks = Append(@, [Row("table", 1) EXCEPT
                                    !.cells = <<b.table_headers>> \o b.table_rows]),
            !.table_headers = << >>, !.table_rows = << >>, !.row_cells = << >>,
            !.in_table = FALSE]

\* The lists a paragraph asks for; a heading is never a list item.
Wanted(heading) ==
    LET depth == IF heading > 0 \/ para.list_id = 0 THEN 0 ELSE para.list_level + 1
        ordered == Ordered(para.list_id, para.list_level + 1)
    IN  [n \in 1 .. depth |-> ordered]

ListRows(open, wanted) ==
    LET depths == NewDepths(open, wanted)
    IN  [n \in DOMAIN depths |-> [Row("list", ListLevel(depths[n])) EXCEPT
                                    !.ordered = wanted[depths[n]]]]

\* A run that holds no text gives no row.
InlineOf(run) ==
    IF \A n \in DOMAIN run.text : Blank(run.text[n]) THEN << >>
    ELSE <<[type |-> ElementType(run.fmt), text |-> run.text]>>

\* The paragraph's own row: flat unless a run is formatted, and always flat
\* for a heading.
ParagraphRow(runs, heading, depth) ==
    LET flat == heading > 0 \/ \A n \in DOMAIN runs : runs[n].fmt = {}
        row == IF heading > 0 THEN [Row("heading", 1) EXCEPT !.heading = heading]
               ELSE IF depth > 0 THEN Row("list_item", ItemLevel(depth))
               ELSE Row("paragraph", 1)
    IN  IF flat THEN [row EXCEPT !.content = Trim(Texts(runs))]
        ELSE [row EXCEPT !.inlines = FlattenSeq([n \in DOMAIN runs |-> InlineOf(runs[n])])]

\* A paragraph outside a table ends the table; a blank one is nothing more.
FlushParagraph(before) ==
    LET b == IF before.in_table THEN before ELSE FlushTable(before)
        heading == HeadingLevel
        wanted == Wanted(heading)
    IN  IF Trim(Texts(b.runs)) = << >> THEN [b EXCEPT !.runs = << >>]
        ELSE [b EXCEPT
                !.blocks = @ \o ListRows(b.open_ordered, wanted)
                             \o <<ParagraphRow(b.runs, heading, Len(wanted))>>,
                !.open_ordered = Opened(@, wanted),
                !.runs = << >>]

-----------------------------------------------------------------------------
(* Tokens.                                                                 *)

g == stack[Len(stack)]
token == source[pos]

Document0 == [fmt |-> {}, uc |-> 1, skip |-> FALSE, style |-> FALSE, in_info |-> FALSE,
              meta_key |-> ""]

RtfInit ==
    /\ source \in Document
    /\ lists = ScanListTable
    /\ pos = 1 /\ fresh = FALSE /\ skip_chars = 0
    /\ stack = <<Document0>>
    /\ sheet = [styles |-> {}, open |-> FALSE, id |-> 0, name |-> << >>]
    /\ para = [style_id |-> -1, outline_level |-> -1, list_id |-> 0, list_level |-> 0]
    /\ body = [runs |-> << >>, blocks |-> << >>, open_ordered |-> << >>, in_table |-> FALSE,
               row_is_header |-> FALSE, row_cells |-> << >>, table_headers |-> << >>,
               table_rows |-> << >>]
    /\ meta = {}
    /\ rows = << >>

At(words) == pos <= Len(source) /\ token.word \in words
Advance == pos' = pos + 1 /\ UNCHANGED <<source, lists, rows>>
InGroup(group) == stack' = [stack EXCEPT ![Len(stack)] = group]

WithRun(runs, p) ==
    IF runs # << >> /\ Last(runs).fmt = g.fmt
    THEN Front(runs) \o <<[Last(runs) EXCEPT !.text = Append(@, p)]>>
    ELSE Append(runs, [fmt |-> g.fmt, text |-> <<p>>])

\* Where a text goes is decided by the group it stands in.
AppendText ==
    /\ IF g.meta_key # ""
       THEN meta' = {m \in meta : m.key # g.meta_key} \cup
                    {[key |-> g.meta_key,
                      text |-> Append(IF \E m \in meta : m.key = g.meta_key
                                      THEN (CHOOSE m \in meta : m.key = g.meta_key).text
                                      ELSE << >>, pos)]}
       ELSE UNCHANGED meta
    /\ IF g.meta_key = "" /\ ~g.skip /\ g.style
       THEN sheet' = [sheet EXCEPT !.name = Append(@, pos)]
       ELSE UNCHANGED sheet
    /\ IF g.meta_key = "" /\ ~g.skip /\ ~g.style
       THEN body' = [body EXCEPT !.runs = WithRun(@, pos)]
       ELSE UNCHANGED body

OpenGroup ==
    /\ At({"{"}) /\ Advance
    /\ stack' = Append(stack, g)
    /\ fresh' = TRUE
    /\ UNCHANGED <<skip_chars, sheet, para, body, meta>>

\* FinishStyleEntry: the name is what stands before the first semicolon.
Finished(s) ==
    LET semi == {n \in DOMAIN s.name : source[s.name[n]].text = ";"}
        name == Trim(IF semi = {} THEN s.name ELSE SubSeq(s.name, 1, Min(semi) - 1))
    IN  [s EXCEPT !.open = FALSE, !.name = << >>,
                  !.styles = IF name = << >> THEN @
                             ELSE {e \in @ : e.id # s.id} \cup {[id |-> s.id, name |-> name]}]

\* Mutated form: a group leaves its state behind.
ClosedKeepingState == SubSeq(stack, 1, Len(stack) - 2) \o <<g>>

\* The document itself is never closed.
Closed == IF Len(stack) > 1 THEN Front(stack) ELSE stack

CloseGroup ==
    /\ At({"}"}) /\ Advance
    /\ sheet' = IF sheet.open THEN Finished(sheet) ELSE sheet
    /\ stack' = Closed
    /\ fresh' = FALSE
    /\ UNCHANGED <<skip_chars, para, body, meta>>

SkipLineBreak ==
    /\ At({"eol"}) /\ Advance
    /\ UNCHANGED <<fresh, skip_chars, stack, sheet, para, body, meta>>

\* A character or a \'hh: one of the fallbacks of a \u, or text.
Character ==
    /\ At({"char", "hex"}) /\ Advance
    /\ IF skip_chars > 0
       THEN skip_chars' = skip_chars - 1 /\ UNCHANGED <<sheet, body, meta>>
       ELSE AppendText /\ UNCHANGED skip_chars
    /\ fresh' = FALSE
    /\ UNCHANGED <<stack, para>>

\* \\ \{ \} and \~ are not counted against a fallback.
ControlSymbol ==
    /\ At({"symbol"}) /\ Advance
    /\ AppendText
    /\ fresh' = FALSE
    /\ UNCHANGED <<skip_chars, stack, para>>

\* \*: an ignorable destination.
Ignorable ==
    /\ At({"*"}) /\ Advance
    /\ InGroup([g EXCEPT !.skip = TRUE])
    /\ fresh' = FALSE
    /\ UNCHANGED <<skip_chars, sheet, para, body, meta>>

-----------------------------------------------------------------------------
(* ApplyControlWord: its early returns, in order.                          *)

StartsDestination == fresh /\ token.word \in {"stylesheet", "info"} \cup SkippedDestination

CapturesMeta == token.word = "generator" \/ (g.in_info /\ token.word \in MetaWord)

ControlWord ==
    pos <= Len(source) /\ token.word \notin Symbol /\ Advance /\ fresh' = FALSE

Destination ==
    /\ ControlWord /\ StartsDestination
    /\ InGroup(CASE token.word = "stylesheet" -> [g EXCEPT !.style = TRUE]
                 [] token.word = "info" -> [g EXCEPT !.skip = TRUE, !.in_info = TRUE]
                 [] OTHER -> [g EXCEPT !.skip = TRUE])
    /\ UNCHANGED <<skip_chars, sheet, para, body, meta>>

Metadata ==
    /\ ControlWord /\ ~StartsDestination /\ CapturesMeta
    /\ InGroup([g EXCEPT !.skip = FALSE, !.meta_key = token.word])
    /\ UNCHANGED <<skip_chars, sheet, para, body, meta>>

StyleEntry ==
    /\ ControlWord /\ ~StartsDestination /\ ~CapturesMeta /\ g.style
    /\ sheet' = IF token.word = "s" /\ token.param # NoParam
                THEN [sheet EXCEPT !.open = TRUE, !.id = token.param]
                ELSE sheet
    /\ UNCHANGED <<skip_chars, stack, para, body, meta>>

SkippedWord ==
    /\ ControlWord /\ ~StartsDestination /\ ~CapturesMeta /\ ~g.style /\ g.skip
    /\ UNCHANGED <<skip_chars, stack, sheet, para, body, meta>>

\* The words that mean something in the document itself.
Live(words) ==
    /\ ControlWord /\ token.word \in words
    /\ ~StartsDestination /\ ~CapturesMeta /\ ~g.style /\ ~g.skip

Pict ==
    /\ Live({"pict"})
    /\ LET b == FlushParagraph(body)
       IN  body' = [b EXCEPT !.blocks = Append(@, Row("image", 1))]
    /\ InGroup([g EXCEPT !.skip = TRUE])
    /\ UNCHANGED <<skip_chars, sheet, para, meta>>

Cell ==
    /\ Live({"cell"})
    /\ body' = [body EXCEPT !.row_cells = Append(@, Trim(Texts(body.runs))),
                            !.runs = << >>, !.in_table = TRUE]
    /\ UNCHANGED <<skip_chars, stack, sheet, para, meta>>

\* Mutated form: the cells stay for the next row.
RowEndedKeepingCells ==
    LET header == body.row_is_header /\ body.table_headers = << >>
    IN  [body EXCEPT
           !.table_headers = IF header THEN body.row_cells ELSE @,
           !.table_rows = IF ~header /\ body.row_cells # << >>
                          THEN Append(@, body.row_cells) ELSE @,
           !.row_is_header = FALSE, !.in_table = TRUE]

RowEnded ==
    LET header == body.row_is_header /\ body.table_headers = << >>
    IN  [body EXCEPT
           !.table_headers = IF header THEN body.row_cells ELSE @,
           !.table_rows = IF ~header /\ body.row_cells # << >>
                          THEN Append(@, body.row_cells) ELSE @,
           !.row_cells = << >>, !.row_is_header = FALSE, !.in_table = TRUE]

TableWord ==
    /\ Live({"row", "trowd", "intbl", "trhdr"})
    /\ body' = CASE token.word = "row" -> RowEnded
                 [] token.word \in {"trowd", "intbl"} -> [body EXCEPT !.in_table = TRUE]
                 [] token.word = "trhdr" -> [body EXCEPT !.row_is_header = TRUE]
    /\ UNCHANGED <<skip_chars, stack, sheet, para, meta>>

\* In a table, \par separates the paragraphs of one cell.
Par ==
    /\ Live({"par"})
    /\ body' = IF body.in_table THEN body ELSE FlushParagraph(body)
    /\ UNCHANGED <<skip_chars, stack, sheet, para, meta>>

\* Mutated form: the next paragraph is still in the list.
ResetButForTheList == [para EXCEPT !.style_id = -1, !.outline_level = -1]

Reset == [style_id |-> -1, outline_level |-> -1, list_id |-> 0, list_level |-> 0]

Pard ==
    /\ Live({"pard"})
    /\ body' = [body EXCEPT !.in_table = FALSE]
    /\ para' = Reset
    /\ UNCHANGED <<skip_chars, stack, sheet, meta>>

ParagraphWord ==
    /\ Live({"s", "outlinelevel", "ls", "ilvl"}) /\ token.param # NoParam
    /\ para' = CASE token.word = "s" -> [para EXCEPT !.style_id = token.param]
                 [] token.word = "outlinelevel" -> [para EXCEPT !.outline_level = token.param]
                 [] token.word = "ls" -> [para EXCEPT !.list_id = token.param]
                 [] token.word = "ilvl" -> [para EXCEPT !.list_level = token.param]
    /\ UNCHANGED <<skip_chars, stack, sheet, body, meta>>

CharacterWord ==
    /\ Live(Format \cup {"plain", "ulnone"})
    /\ LET on == token.param # 0
       IN  InGroup([g EXCEPT !.fmt =
                      CASE token.word = "plain" -> {}
                        [] token.word = "ulnone" -> @ \ {"ul"}
                        [] OTHER -> IF on THEN @ \cup {token.word} ELSE @ \ {token.word}])
    /\ UNCHANGED <<skip_chars, sheet, para, body, meta>>

\* {\listtext ...}: the rendered bullet.
ListText ==
    /\ Live({"listtext"})
    /\ InGroup([g EXCEPT !.skip = TRUE])
    /\ UNCHANGED <<skip_chars, sheet, para, body, meta>>

FallbackLength ==
    /\ Live({"uc"}) /\ token.param # NoParam
    /\ InGroup([g EXCEPT !.uc = token.param])
    /\ UNCHANGED <<skip_chars, sheet, para, body, meta>>

\* Mutated form: the fallback is left to be read.
FallbackOfNone == 0

Fallback == g.uc

Unicode ==
    /\ Live({"u"}) /\ token.param # NoParam
    /\ AppendText
    /\ skip_chars' = Fallback
    /\ UNCHANGED <<stack, para>>

NamedCharacter ==
    /\ Live(Literal)
    /\ AppendText
    /\ UNCHANGED <<skip_chars, stack, para>>

NeedsParam == {"s", "outlinelevel", "ls", "ilvl", "uc", "u"}

KnownWord == NeedsParam \cup Literal \cup Format \cup
    {"pict", "cell", "row", "trowd", "intbl", "trhdr", "par", "pard", "plain", "ulnone", "listtext"}

\* Any other word, or one without the parameter it needs.
UnknownWord ==
    /\ ControlWord
    /\ ~StartsDestination /\ ~CapturesMeta /\ ~g.style /\ ~g.skip
    /\ token.word \in KnownWord => token.word \in NeedsParam /\ token.param = NoParam
    /\ UNCHANGED <<skip_chars, stack, sheet, para, body, meta>>

-----------------------------------------------------------------------------
(* The end of the source, and ReadRtf's rows.                              *)

\* A field that was captured, with its text if it has any.
MetaRow(key) ==
    LET captured == {m \in meta : m.key = key}
        value == Trim((CHOOSE m \in captured : TRUE).text)
        row == [Row("inlines", 1) EXCEPT !.kind = "value", !.key = key]
    IN  IF captured = {} THEN << >>
        ELSE IF value = << >> THEN <<row>>
        ELSE <<[row EXCEPT !.inlines = <<[type |-> "text", text |-> value]>>]>>

\* In the order of the map's keys.
MetaRows ==
    MetaRow("author") \o MetaRow("generator") \o MetaRow("subject") \o MetaRow("title")

InlineRow(block, inline) ==
    [Row(inline.type, block.level + 1) EXCEPT !.kind = "inline", !.content = inline.text]

Flattened(block) ==
    <<[block EXCEPT !.inlines = << >>]>>
        \o [n \in DOMAIN block.inlines |-> InlineRow(block, block.inlines[n])]

\* Mutated form: a table that the source ends in is left out.
BlocksAtEndOfBody == FlushParagraph(body).blocks

BlocksAtEnd == FlushTable(FlushParagraph(body)).blocks

EndOfSource ==
    /\ pos = Len(source) + 1
    /\ rows' = LET blocks == BlocksAtEnd \o MetaRows
               IN  FlattenSeq([n \in DOMAIN blocks |-> Flattened(blocks[n])])
    /\ pos' = pos + 1
    /\ UNCHANGED <<source, lists, fresh, skip_chars, stack, sheet, para, body, meta>>

RtfNext ==
    \/ OpenGroup \/ CloseGroup \/ SkipLineBreak \/ Character \/ ControlSymbol \/ Ignorable
    \/ Destination \/ Metadata \/ StyleEntry \/ SkippedWord
    \/ Pict \/ Cell \/ TableWord \/ Par \/ Pard \/ ParagraphWord \/ CharacterWord
    \/ ListText \/ FallbackLength \/ Unicode \/ NamedCharacter \/ UnknownWord
    \/ EndOfSource

\* RtfParser's constructor, Parse and ReadRtf.
RtfSpec == RtfInit /\ [][RtfNext]_rtfVars
=============================================================================
