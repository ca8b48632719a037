----------------------------- MODULE RstReader -----------------------------
(***************************************************************************)
(* The reStructuredText reader (libpanduck/src/rst.cpp and                 *)
(* rst_scanner.cpp).                                                       *)
(*                                                                         *)
(* Containment is indentation: Builder::Run reads a range of lines against *)
(* a left margin and calls itself, or List, for the ranges it finds deeper *)
(* in it.  The calls are the frames of builder.stack, innermost last; the  *)
(* top one does the next iteration.  Ranges exclude their end.             *)
(***************************************************************************)
EXTENDS MarkupRows

\* RST_MIN_SECTION_ADORNMENT
MinAdornment == 4

CodeDirective == {"code", "code-block", "sourcecode"}

-----------------------------------------------------------------------------
(* ScanRst.                                                                *)

KindOf(s) ==
    CASE s.lead = "" -> "BLANK"
      [] s.lead = ".." -> IF s.name \notin {"", "["} THEN "DIRECTIVE" ELSE "COMMENT"
      [] s.lead \in {"+-", "+="} -> "GRID_SEP"
      [] s.lead = "|" -> "TABLE_ROW"
      [] s.lead = "= =" -> "SIMPLE_SEP"
      [] s.lead \in {"==", "::"} -> "ADORNMENT"
      [] s.lead = ":" -> "FIELD"
      [] s.lead = "- " -> "BULLET"
      [] s.lead = "1. " -> "ENUM"
      [] OTHER -> "TEXT"

\* text_col: an item's text starts behind its marker.
MarkerWidth(kind) == CASE kind = "BULLET" -> 2 [] kind = "ENUM" -> 3 [] OTHER -> 0

ScannedLine(n) ==
    LET s == source[n]
        kind == KindOf(s)
    IN  [kind |-> kind, indent |-> s.indent, name |-> s.name, count |-> s.count,
         lead |-> s.lead, colons |-> s.closing = "::",
         text_col |-> s.indent + MarkerWidth(kind),
         raw_text |-> Whole(n),
         term |-> IF kind = "FIELD" THEN TextIf(s.definition, TermOf(n)) ELSE << >>,
         text |-> CASE kind = "ADORNMENT" -> <<LeadOf(n)>>
                    [] kind \in {"TEXT", "TABLE_ROW"} -> Trimmed(n)
                    [] OTHER -> TextIf(s.text, TextOf(n))]

ScanLine == phase = "scan" /\ i <= Len(source) /\ Scanned(ScannedLine(i), i)

RunFrame(from, to, depth, base) ==
    [call |-> "Run", i |-> from, to |-> to, depth |-> depth, base |-> base,
     para |-> << >>, literal |-> FALSE]

StartBuild ==
    LET kept == IF lines # << >> /\ Last(lines).kind = "BLANK" THEN Front(lines) ELSE lines
    IN  BuildFrom(kept, [blocks |-> << >>, adornments |-> << >>,
                         stack |-> <<RunFrame(1, Len(kept) + 1, 1, 0)>>])

-----------------------------------------------------------------------------
(* Ranges of lines.                                                        *)

Lesser(m, n) == IF m < n THEN m ELSE n

FirstOf(set) == CHOOSE n \in set : \A m \in set : n <= m

\* Mutated form: a line at the margin belongs to the run.
RunWithMargin(from, base) ==
    LET stop == FirstOf({n \in from .. Len(lines) :
                            lines[n].kind # "BLANK" /\ lines[n].indent < base}
                        \cup {Len(lines) + 1})
    IN  FirstOf({n \in from .. stop : \A m \in n .. stop - 1 : lines[m].kind = "BLANK"})

\* The run from `from` on that is deeper than base: it ends at a line that is
\* not, and the blank lines before that one are not its own.
IndentedRun(from, base) ==
    LET stop == FirstOf({n \in from .. Len(lines) :
                            lines[n].kind # "BLANK" /\ lines[n].indent <= base}
                        \cup {Len(lines) + 1})
    IN  FirstOf({n \in from .. stop : \A m \in n .. stop - 1 : lines[m].kind = "BLANK"})

MinIndent(from, to, fallback) ==
    LET indents == {lines[n].indent : n \in {m \in from .. to - 1 : lines[m].kind # "BLANK"}}
    IN  IF indents = {} THEN fallback ELSE FirstOf(indents)

Texts(from, to) == FlattenSeq([n \in 1 .. to - from |-> lines[from + n - 1].text])

\* A run of plain lines deeper than base, from `from` on: a wrapped text.
EndOfWraps(from, to, base) ==
    FirstOf({n \in from .. to - 1 : lines[n].kind # "TEXT" \/ lines[n].indent <= base} \cup {to})

-----------------------------------------------------------------------------
(* The stack of calls.                                                     *)

Top == Last(builder.stack)

WithTop(b, frame) == [b EXCEPT !.stack = Append(Front(@), frame)]

Called(b, frame) == [b EXCEPT !.stack = Append(@, frame)]

\* The top frame goes on at line n.
At(b, n) == WithTop(b, [Last(b.stack) EXCEPT !.i = n])

Step(b) ==
    /\ builder' = b
    /\ UNCHANGED <<format, source, phase, i, lines, rows>>

\* flush: the paragraph of a Run.  A `::` at its end announces a literal block.
Flush(b) ==
    LET f == Last(b.stack)
        text == FlattenSeq([n \in DOMAIN f.para |-> f.para[n].text])
        flushed == WithTop(b, [f EXCEPT !.para = << >>, !.literal = @ \/ Last(f.para).colons])
    IN  IF f.para = << >> THEN b
        ELSE IF text = << >> THEN flushed
        ELSE Emitted(flushed, Row("paragraph", f.depth, text))

InRun == phase = "build" /\ builder.stack # << >> /\ Top.call = "Run"

Here == lines[Top.i]

\* How long a line is; its length is only stated when it is less than an
\* underline's, and a numbered title has four characters at least.
Length(line) == IF line.count = 0 THEN MinAdornment ELSE line.count

Continued(b, text, colons) ==
    WithTop(b, [Last(b.stack) EXCEPT
                  !.para = Append(@, [text |-> text, colons |-> colons, length |-> Length(Here)])])

IsLiteral == Top.literal /\ Here.kind # "BLANK" /\ Here.indent > Top.base

IsQuoted == Top.para = << >> /\ Here.kind # "BLANK" /\ Here.indent > Top.base

\* This iteration gets as far as the switch, with a line of these kinds.
Switch(kinds) ==
    InRun /\ Top.i < Top.to /\ ~IsLiteral /\ ~IsQuoted /\ Here.kind \in kinds

\* A literal block that was announced did not come.
Base ==
    IF Here.kind = "BLANK" THEN builder ELSE WithTop(builder, [Top EXCEPT !.literal = FALSE])

-----------------------------------------------------------------------------
(* Iterations of Run.                                                      *)

\* A literal block takes the deeper run whatever its lines are.
ReadLiteral ==
    /\ InRun /\ Top.i < Top.to /\ IsLiteral
    /\ LET end == Lesser(IndentedRun(Top.i, Top.base), Top.to)
       IN  Step(At(Emitted(Base, Row("code", Top.depth, Texts(Top.i, end))), end))

\* What lies deeper is read against a margin of its own, its least indent.
ReadQuote ==
    /\ InRun /\ Top.i < Top.to /\ ~IsLiteral /\ IsQuoted
    /\ LET end == Lesser(IndentedRun(Top.i, Top.base), Top.to)
       IN  Step(Called(At(Emitted(Base, Row("blockquote", Top.depth, << >>)), end),
                       RunFrame(Top.i, end, Top.depth + 1,
                                MinIndent(Top.i, end, Here.indent))))

ReadBlank == Switch({"BLANK"}) /\ Step(At(Flush(Base), Top.i + 1))

\* A footnote's text is prose; its body, or a comment's, is the deeper run that
\* starts on the very next line, read when it is a footnote's and skipped else.
ReadComment ==
    /\ Switch({"COMMENT"})
    /\ LET next == Top.i + 1
           body == next < Top.to /\ lines[next].kind # "BLANK" /\ lines[next].indent > Here.indent
           end == Lesser(IndentedRun(next, Here.indent), Top.to)
           footnote == Here.name = "["
       IN  Step(IF footnote /\ Here.text # << >>
                THEN At(Continued(Base, Here.text, Here.colons), next)
                ELSE IF ~body THEN At(Base, next)
                ELSE IF footnote
                THEN Called(At(Flush(Base), end),
                            RunFrame(next, end, Top.depth, MinIndent(next, end, Here.indent + 1)))
                ELSE At(Base, end))

\* Mutated form: every adornment is a level of its own.
NewLevel(b, c) == Len(b.adornments) + 1

\* LevelFor: a heading's level is where its adornment first appeared.  A new
\* adornment is capped at 6; one that was seen is not.
LevelFor(b, c) ==
    IF \E n \in DOMAIN b.adornments : b.adornments[n] = c
    THEN CHOOSE n \in DOMAIN b.adornments : b.adornments[n] = c
    ELSE Lesser(Len(b.adornments) + 1, 6)

Adorned(b, c) ==
    IF \E n \in DOMAIN b.adornments : b.adornments[n] = c THEN b
    ELSE [b EXCEPT !.adornments = Append(@, c)]

\* An underline makes a heading of the paragraph's last line.
Heading(b) ==
    LET title == Last(Top.para).text
        rest == Flush(WithTop(b, [Last(b.stack) EXCEPT !.para = Front(@)]))
    IN  Adorned(Emitted(rest, [Row("heading", Top.depth, title)
                                 EXCEPT !.heading = LevelFor(rest, Here.name)]),
                Here.name)

\* A run of punctuation: a mark for a literal block, a rule below nothing, an
\* underline when it is long enough or as long as the title, prose else.
ReadAdornment ==
    /\ Switch({"ADORNMENT"})
    /\ Step(At(IF Top.para = << >> /\ Here.lead = "::"
               THEN WithTop(Base, [Last(Base.stack) EXCEPT !.literal = TRUE])
               ELSE IF Top.para = << >> THEN Emitted(Base, Row("hr", Top.depth, << >>))
               ELSE IF Here.count < Lesser(MinAdornment, Last(Top.para).length)
               THEN Continued(Base, Here.text, Here.lead = "::")
               ELSE Heading(Base),
               Top.i + 1))

\* Directive: a listing, or a div with what is below it; the text beside a
\* directive's name is the language of a listing and is not kept in a div.
ReadDirective ==
    /\ Switch({"DIRECTIVE"})
    /\ LET from == Top.i + 1
           end == Lesser(IndentedRun(from, Here.indent), Top.to)
           b == At(Flush(Base), end)
       IN  Step(IF Here.name \in CodeDirective
                THEN Emitted(b, Row("code", Top.depth, Texts(from, end)))
                ELSE LET div == Emitted(b, Row("div", Top.depth, << >>))
                     IN  IF end <= from THEN div
                         ELSE Called(div, RunFrame(from, end, Top.depth + 1,
                                                   MinIndent(from, end, Here.indent + 1))))

\* Fields follow each other, each with the deeper plain lines below it.
EndOfFields(from, to) ==
    FirstOf({n \in from + 1 .. to - 1 :
                LET field == CHOOSE m \in from .. n - 1 :
                                /\ lines[m].kind = "FIELD"
                                /\ \A k \in m + 1 .. n - 1 : lines[k].kind # "FIELD"
                IN  /\ lines[n].kind # "FIELD"
                    /\ lines[n].kind # "TEXT" \/ lines[n].indent <= lines[field].indent}
            \cup {to})

FieldRows(n, to, depth) ==
    <<ItemOf(depth + 1, "term", lines[n].term),
      ItemOf(depth + 1, "definition",
             lines[n].text \o Texts(n + 1, EndOfWraps(n + 1, to, lines[n].indent)))>>

ReadField ==
    /\ Switch({"FIELD"})
    /\ LET end == EndOfFields(Top.i, Top.to)
           fields == FlattenSeq([n \in 1 .. end - Top.i |->
                        IF lines[Top.i + n - 1].kind = "FIELD"
                        THEN FieldRows(Top.i + n - 1, Top.to, Top.depth) ELSE << >>])
       IN  Step(At(AllEmitted(Flush(Base), <<List(Top.depth, "definition")>> \o fields), end))

\* A numbered line above an adornment is a title, or prose, with its number.
IsTitle == Here.kind = "ENUM" /\ Top.i + 1 < Top.to /\ lines[Top.i + 1].kind = "ADORNMENT"

ReadNumberedTitle ==
    /\ Switch({"ENUM"}) /\ IsTitle
    /\ Step(At(Continued(Base, Here.raw_text, FALSE), Top.i + 1))

ListFrame ==
    [call |-> "List", i |-> Top.i, to |-> Top.to, depth |-> Top.depth,
     indent |-> Here.indent, kind |-> Here.kind]

ReadList ==
    /\ Switch({"BULLET", "ENUM"}) /\ ~IsTitle
    /\ Step(Called(Emitted(Flush(Base),
                           List(Top.depth, IF Here.kind = "ENUM" THEN "ordered" ELSE "bullet")),
                   ListFrame))

\* A term: a plain line with deeper plain lines below it, which are joined.
IsTerm ==
    /\ Top.para = << >>
    /\ Top.i + 1 < Top.to
    /\ lines[Top.i + 1].kind = "TEXT" /\ lines[Top.i + 1].indent > Here.indent

ReadTerm ==
    /\ Switch({"TEXT"}) /\ IsTerm
    /\ LET end == Lesser(IndentedRun(Top.i + 1, Here.indent), Top.to)
       IN  Step(At(AllEmitted(Base, <<List(Top.depth, "definition"),
                                      ItemOf(Top.depth + 1, "term", Here.text),
                                      ItemOf(Top.depth + 1, "definition", Texts(Top.i + 1, end))>>),
                   end))

ReadText ==
    /\ Switch({"TEXT"}) /\ ~IsTerm
    /\ Step(At(Continued(Base, Here.text, Here.colons), Top.i + 1))

-----------------------------------------------------------------------------
(* Tables.                                                                 *)

EndOfTable(from, to) ==
    FirstOf({n \in from .. to - 1 :
                /\ lines[n].kind \notin {"GRID_SEP", "SIMPLE_SEP", "TABLE_ROW"}
                /\ ~(lines[n].kind = "TEXT" /\ lines[from].kind = "SIMPLE_SEP")}
            \cup {to})

\* A rule below a row: of a simple table, any but the first.
RulesBelow(from, n) ==
    \/ lines[n].kind = "GRID_SEP" /\ lines[n].lead = "+="
    \/ lines[n].kind = "SIMPLE_SEP" /\ \E m \in from .. n - 1 : lines[m].kind = "SIMPLE_SEP"

TableRows(from, end, depth) ==
    LET found == {n \in from .. end - 1 : lines[n].kind \in {"TABLE_ROW", "TEXT"}}
        first == FirstOf(found)
        second == FirstOf(found \ {first})
        ruled == \E n \in first + 1 .. second - 1 : RulesBelow(from, n)
        Cells(n) == IF n \in found THEN lines[n].text ELSE << >>
        body(n) == SelectSeq([m \in 1 .. end - n |-> Cells(n + m - 1)], LAMBDA t : t # << >>)
    IN  IF found = {} THEN << >>
        ELSE IF Cardinality(found) > 1 /\ ruled
        THEN <<Table(depth, lines[first].text, body(second))>>
        ELSE <<Table(depth, << >>, body(first))>>

ReadTable ==
    /\ Switch({"GRID_SEP", "TABLE_ROW", "SIMPLE_SEP"})
    /\ LET end == EndOfTable(Top.i, Top.to)
       IN  Step(At(AllEmitted(Flush(Base), TableRows(Top.i, end, Top.depth)), end))

-----------------------------------------------------------------------------
(* Iterations of List, and returns.                                        *)

InList == phase = "build" /\ builder.stack # << >> /\ Top.call = "List"

IsItem(n) == lines[n].kind = Top.kind /\ lines[n].indent = Top.indent

\* An item takes the wrapped lines below it, and what else lies at its text
\* column or deeper is its body.
ReadItem ==
    /\ InList /\ Top.i < Top.to /\ IsItem(Top.i)
    /\ LET column == Here.text_col
           j == EndOfWraps(Top.i + 1, Top.to, column - 1)
           end == Lesser(IndentedRun(j, column - 1), Top.to)
           b == Emitted(builder, ItemOf(Top.depth + 1, "", Here.text \o Texts(Top.i + 1, j)))
       IN  Step(IF end > j THEN Called(At(b, end), RunFrame(j, end, Top.depth + 2, column))
                ELSE At(b, j))

\* One blank line, with a marker of either kind at the list's indent below it.
GoesOnAfterBlank(n) ==
    /\ lines[n].kind = "BLANK"
    /\ n + 1 < Top.to
    /\ lines[n + 1].kind \in {"BULLET", "ENUM"} /\ lines[n + 1].indent = Top.indent

ReadBlankInList ==
    /\ InList /\ Top.i < Top.to /\ GoesOnAfterBlank(Top.i)
    /\ Step(At(builder, Top.i + 1))

ReturnFromList ==
    /\ InList
    /\ Top.i < Top.to => ~IsItem(Top.i) /\ ~GoesOnAfterBlank(Top.i)
    /\ Step(At([builder EXCEPT !.stack = Front(@)], Top.i))

ReturnFromRun ==
    /\ InRun /\ Top.i >= Top.to
    /\ LET b == Flush(builder) IN Step([b EXCEPT !.stack = Front(@)])

ReturnRows ==
    /\ phase = "build" /\ builder.stack = << >>
    /\ rows' = builder.blocks
    /\ phase' = "done"
    /\ UNCHANGED <<format, source, i, lines, builder>>

Next ==
    \/ ScanLine \/ StartBuild
    \/ ReadLiteral \/ ReadQuote \/ ReadBlank \/ ReadComment \/ ReadAdornment
    \/ ReadDirective \/ ReadField \/ ReadNumberedTitle \/ ReadList \/ ReadTerm \/ ReadText
    \/ ReadTable \/ ReadItem \/ ReadBlankInList \/ ReturnFromList \/ ReturnFromRun
    \/ ReturnRows
=============================================================================
