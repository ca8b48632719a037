----------------------------- MODULE OfficeRows -----------------------------
(***************************************************************************)
(* What the readers of office documents have in common: libpanduck/src/    *)
(* docx.cpp and odt.cpp hold the same lines for it.                        *)
(*                                                                         *)
(* The body of such a document is a sequence of paragraphs and tables once *)
(* what wraps them is looked through.  A source line is a paragraph, a row *)
(* of a table (neighbouring rows are of one table) or a property from the  *)
(* archive's other part.  Of a paragraph, name is its style, count its     *)
(* outline level, markers the types of the lists around it, outermost      *)
(* first, indent whether it is indented like a quote, definition whether   *)
(* it holds an image, closing the property whose text it repeats.          *)
(***************************************************************************)
EXTENDS MarkupRows, ListStack

RowsFrom(n) ==
    CHOOSE last \in n .. Len(source) :
        /\ \A m \in n .. last : source[m].lead = "|"
        /\ last = Len(source) \/ source[last + 1].lead # "|"

LastLineOf(n) == IF source[n].lead = "|" THEN RowsFrom(n) ELSE n

\* The loops below see the body; a property is not in it.
Scan ==
    /\ phase = "scan" /\ i <= Len(source)
    /\ Scanned([kind |-> CASE source[i].lead = "|" -> "table"
                           [] source[i].lead = "meta" -> "property"
                           [] OTHER -> "paragraph",
                first |-> i, last |-> LastLineOf(i)], LastLineOf(i))

StartBuild ==
    BuildFrom(SelectSeq(lines, LAMBDA l : l.kind # "property"),
              [blocks |-> << >>, open |-> << >>, candidates |-> << >>])

\* The paragraph of this iteration.
N == Line.first
Para == source[N]

\* A paragraph with nothing but blanks.
IsEmpty(n) == ~source[n].text /\ ~source[n].definition

Words(n) == TextIf(source[n].text, TextOf(n))
Inlines(n) == TextIf(source[n].definition, TermOf(n)) \o Words(n)

-----------------------------------------------------------------------------

\* The lists a paragraph in lists of these types leaves open and opens.
EnteredLists(b, types) ==
    LET wanted == [d \in DOMAIN types |-> types[d] = "ordered"]
        new == NewDepths(b.open, wanted)
    IN  [AllEmitted(b, [k \in DOMAIN new |-> List(ListLevel(new[k]), types[new[k]])])
            EXCEPT !.open = Opened(b.open, wanted)]

\* The header is the first row marked as one, wherever it stands.
TableOf(first, last) ==
    LET marked == {n \in first .. last : source[n].header}
        header == IF marked = {} THEN 0 ELSE CHOOSE n \in marked : \A m \in marked : n <= m
        body == SelectSeq([n \in 1 .. last - first + 1 |-> first + n - 1], LAMBDA n : n # header)
    IN  Table(1, IF header = 0 THEN << >> ELSE Words(header), [n \in DOMAIN body |-> Words(body[n])])

WithTable(b) == [Emitted(b, TableOf(Line.first, Line.last)) EXCEPT !.open = << >>]

\* A paragraph that looks like a restated property is remembered by the
\* position its block will have.
WithCandidate(b, n) ==
    IF source[n].name = "Title" /\ source[n].text
    THEN [b EXCEPT !.candidates = Append(@, [at |-> Len(b.blocks) + 1, line |-> n])]
    ELSE b

\* Neighbouring paragraphs of a listing are one listing.
WithCode(b, n) ==
    IF b.blocks # << >> /\ Last(b.blocks).type = "code"
    THEN [b EXCEPT !.blocks[Len(b.blocks)].text = @ \o Words(n)]
    ELSE Emitted(b, Row("code", 1, Words(n)))

RoleOf(n) == CASE source[n].name = "DefinitionTerm" -> "term" [] source[n].name = "Definition" -> "definition"

\* An item goes on the list of the item before it.
WithDefinition(b, n) ==
    LET goes_on == b.blocks # << >> /\ Last(b.blocks).type = "list_item" /\ Last(b.blocks).role # ""
    IN  AllEmitted(b, (IF goes_on THEN << >> ELSE <<List(1, "")>>)
                      \o <<ItemOf(2, RoleOf(n), Words(n))>>)

WithQuote(b, n) ==
    AllEmitted(b, <<Row("blockquote", 1, << >>), Row("paragraph", 2, Inlines(n))>>)

WithHeading(b, n) == Emitted(b, [Row("heading", 1, Words(n)) EXCEPT !.heading = source[n].count])

-----------------------------------------------------------------------------
(* The properties, behind the blocks.                                      *)

\* A property that is stated twice is what was stated first, an empty one
\* nothing.
Properties ==
    SelectSeq([n \in DOMAIN source |-> n],
              LAMBDA n : /\ source[n].lead = "meta" /\ source[n].text
                         /\ \A m \in 1 .. n - 1 :
                               ~(source[m].lead = "meta" /\ source[m].name = source[n].name))

WithProperties(b) ==
    AllEmitted(b, [k \in DOMAIN Properties |->
        [Row("inlines", 1, <<TextOf(Properties[k])>>)
            EXCEPT !.kind = "value", !.key = source[Properties[k]].name]])

Restates(n) == \E k \in DOMAIN Properties : source[Properties[k]].name = source[n].closing

\* The block at a candidate's position goes when its text is a property's.
WithoutDuplicates(b) ==
    LET dropped == {c.at : c \in {d \in Range(b.candidates) : Restates(d.line)}}
        kept == SelectSeq([n \in DOMAIN b.blocks |-> n], LAMBDA n : n \notin dropped)
    IN  [b EXCEPT !.blocks = [k \in DOMAIN kept |-> b.blocks[kept[k]]]]

ReturnRows ==
    /\ phase = "build" /\ i > Len(lines)
    /\ Returned(WithoutDuplicates(WithProperties(builder)))

ReadTable == Reading({"table"}) /\ Consumed(WithTable(builder), i)
=============================================================================
