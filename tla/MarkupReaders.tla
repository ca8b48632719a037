--------------------------- MODULE MarkupReaders ---------------------------
(***************************************************************************)
(* The readers of line-based markup and of office documents side by side,  *)
(* and what each of them promises whoever reads its rows: the table        *)
(* functions return the rows of ReadOrg, ReadTextile, ReadMediaWiki,       *)
(* ReadRst, ReadLatex, ReadDocx, ReadOdt and ReadEpub as they are.         *)
(***************************************************************************)
EXTENDS MarkupRows

CONSTANT Document   \* [format -> the sources that are read]

Org == INSTANCE OrgReader
Textile == INSTANCE TextileReader
MediaWiki == INSTANCE MediaWikiReader
Rst == INSTANCE RstReader
Latex == INSTANCE LatexReader
Docx == INSTANCE DocxReader
Odt == INSTANCE OdtReader
Epub == INSTANCE EpubReader

Format == {"org", "textile", "mediawiki", "rst", "latex", "docx", "odt", "epub"}
Office == {"docx", "odt"}

ASSUME DocumentAssumption == \A f \in DOMAIN Document : f \in Format /\ Document[f] \subseteq Seq(SourceLine)

\* A line of Textile is a list item when a text stands behind its run of
\* markers; without one the line is prose.
ASSUME TextileAssumption ==
    "textile" \in DOMAIN Document =>
        \A s \in Document["textile"] : \A n \in DOMAIN s : s[n].lead = "list" =>
            s[n].text /\ ~s[n].definition /\ s[n].markers # << >> /\ s[n].markers \in Seq({"*", "#"})

Init ==
    /\ format \in DOMAIN Document
    /\ source \in Document[format]
    /\ phase = "scan"
    /\ i = 1
    /\ lines = << >>
    /\ builder = << >>
    /\ rows = << >>

Next ==
    \/ format = "org" /\ Org!Next
    \/ format = "textile" /\ Textile!Next
    \/ format = "mediawiki" /\ MediaWiki!Next
    \/ format = "rst" /\ Rst!Next
    \/ format = "latex" /\ Latex!Next
    \/ format = "docx" /\ Docx!Next
    \/ format = "odt" /\ Odt!Next
    \/ format = "epub" /\ Epub!Next

Spec == Init /\ [][Next]_markupVars

\* A reader is one call: the thread that made it goes on until it returns.
FairSpec == Spec /\ WF_markupVars(Next)

-----------------------------------------------------------------------------

\* Every loop ends: neither a scanner nor a Builder, which both set back the
\* index of the loop they are in (`i = j - 1`, `i = Table(...) - 1`), reads a
\* line again and again, and a line without a case of its own stops none.
Terminates == <>Done

-----------------------------------------------------------------------------
(* Texts.                                                                  *)

\* A MediaWiki listing gathers while a paragraph is open and is emitted first.
ListingInParagraph ==
    /\ format = "mediawiki"
    /\ \E n \in 2 .. Len(lines) : lines[n].kind = "PREFORMATTED" /\ lines[n - 1].kind = "TEXT"

IsBody(row) == row.kind # "value"

\* The caption of an EPUB's table is emitted behind the table that it heads.
Follows(row, other) == format = "epub" /\ row.type = "caption" /\ other.type = "table"

\* The body's texts come in the order of the source, but for such a listing or
\* caption; inside a table a header row comes first.
TextsInOrder ==
    Done /\ ~ListingInParagraph =>
        \A m, n \in DOMAIN rows :
            m < n /\ IsBody(rows[m]) /\ IsBody(rows[n]) /\ ~Follows(rows[n], rows[m]) =>
                \A a \in DOMAIN rows[m].text, b \in DOMAIN rows[n].text :
                    rows[m].text[a] < rows[n].text[b]

\* Formats whose lines are parts of a tree: all the text they hold is prose.
Tree == Office \cup {"epub"}

IsPlain(n) ==
    /\ source[n].text
    /\ \/ source[n].lead = "word" /\ (source[n].indent = 0 \/ format \in Tree)
       \/ source[n].lead = "img"

\* A paragraph that says again what a property says: a title in its own style.
\* One that DOCX takes for a quote is kept as a paragraph.
Restated(n) ==
    /\ source[n].name = "Title" /\ source[n].count = 0 /\ source[n].markers = << >>
    /\ format = "docx" => source[n].indent = 0
    /\ \E m \in DOMAIN source : source[m].lead = "meta" /\ source[m].name = source[n].closing

\* The environments of LaTeX that are open around a line, those of a name in
\* names only; what closes and what opens them is counted.
Around(n, names) ==
    LET Lines(lead, m, k) == Cardinality({l \in m .. k : source[l].lead = lead /\ source[l].name \in names})
    IN  {m \in 1 .. n - 1 : /\ source[m].lead = "begin" /\ source[m].name \in names
                            /\ \A k \in m .. n - 1 : Lines("begin", m, k) > Lines("end", m, k)}

\* The elements around a node of an EPUB.
Enclosing(n) == {m \in 1 .. n - 1 : \A k \in m + 1 .. n : source[m].indent < source[k].indent}

\* The elements whose whole text is one block's or one cell's.
IsWhole(m) ==
    \/ source[m].lead \in Epub!Heading \cup {"th", "td", "caption"}
    \/ source[m].lead \in Epub!Leaf /\ \A k \in Epub!Children(m) : ~Epub!IsBlockTag(source[k].lead)

InWhole(n) == \E m \in Enclosing(n) : IsWhole(m)

IsPage(m) ==
    /\ source[m].name = "pagebreak" /\ ~InWhole(m)
    /\ source[m].lead \notin Epub!Before

\* A row of a table's head, but for the first.
IsLaterHeadRow(m) ==
    /\ source[m].lead = "tr"
    /\ \E head \in Enclosing(m), k \in 1 .. m - 1 :
          source[head].lead = "thead" /\ source[k].lead = "tr" /\ head \in Enclosing(k)

\* A table all of whose cells, if any, are in later rows of its head.
IsEmptyTable(m) ==
    /\ source[m].lead = "table"
    /\ \A k \in m + 1 .. Epub!LastBelow(m) :
          source[k].lead \in {"th", "td"} => \E l \in Enclosing(k) : IsLaterHeadRow(l)

\* What an EPUB's reader loses: what it skips, an image in no paragraph, item,
\* heading or cell, the text of a page break between blocks, of a table outside
\* cells and caption, of a later row of its head, the caption of a table that
\* is left out, and of preformatted text all but the first run outside elements.
LostInEpub(n) ==
    \/ source[n].lead = "img" /\ ~InWhole(n)
    \/ \E m \in Enclosing(n) :
          \/ source[m].lead \in Epub!SKIPPED
          \/ IsPage(m)
          \/ source[m].lead = "table" /\ ~InWhole(n)
          \/ IsLaterHeadRow(m) \/ IsEmptyTable(m)
          \/ /\ source[m].lead = "pre" /\ ~InWhole(m)
             /\ \/ n \notin Epub!Children(m)
                \/ \E k \in Epub!Children(m) : k < n /\ source[k].lead = "word"

\* The lines of Textile with the HTML elements that a line stands in.
HtmlAround(n) ==
    {m \in 1 .. n - 1 : Textile!KindOf(source[m]) = "HTML_BLOCK" /\ n <= Textile!LastLineOf(m)}

\* A listing of Textile runs to a blank line that is not in HTML, and of an
\* HTML element that opens in it keeps the first line.
LostInListing(n) ==
    \E m \in HtmlAround(n), l \in 1 .. n - 1 :
        /\ l < m /\ Textile!KindOf(source[l]) = "CODE"
        /\ \A k \in l .. m : source[k].lead = "" => HtmlAround(k) # {}

\* Where plain lines are not read: in a drawer, in a MediaWiki table, in
\* Textile below HTML that opens inside a listing,
\* in a preamble of LaTeX, in formulas and behind the document's end, and in an office document what it restates of its properties.
Hidden(n) ==
  \/ format \in Office /\ Restated(n)
  \/ format = "epub" /\ LostInEpub(n)
  \/ format = "textile" /\ LostInListing(n)
  \/ format = "latex" /\ \E m \in n + 1 .. Len(source) :
        \/ source[m].lead = "documentclass"
        \/ source[m].lead = "begin" /\ source[m].name = "document"
  \/ format = "latex" /\ \E m \in 1 .. n - 1 :
        source[m].lead = "end" /\ source[m].name = "document"
  \/ format = "latex" /\ \E name \in Latex!DroppedEnvironment : Around(n, {name}) # {}
  \/ \E m \in 1 .. n - 1 :
        \/ /\ format = "org" /\ source[m].lead = ":" /\ source[m].name # "END"
           /\ \A k \in m + 1 .. n : source[k].lead # ""
           /\ \A k \in m + 1 .. n : ~(source[k].lead = ":" /\ source[k].name = "END")
        \/ /\ format = "mediawiki" /\ source[m].lead = "{|"
           /\ \A k \in m + 1 .. n : source[k].lead # "|}"

InSomeRow(n) == \E m \in DOMAIN rows : TextOf(n) \in Range(rows[m].text)

\* Prose is in some row unless it is hidden, whatever is left open, unbalanced
\* or cut off before it: no other construct of any format loses a plain line.
\* Of an EPUB this is less than its reader promises (EpubTextKept).
ProseKept ==
    Done => \A n \in DOMAIN source : IsPlain(n) /\ ~Hidden(n) => InSomeRow(n)

\* "Never drop" (epub.cpp): of an EPUB every text and every image's alternative
\* is in some row, but for what stands in an element the reader says it skips.
EpubTextKept ==
    Done /\ format = "epub" =>
        \A n \in DOMAIN source :
            IsPlain(n) /\ ~(\E m \in Enclosing(n) : source[m].lead \in Epub!SKIPPED) => InSomeRow(n)

-----------------------------------------------------------------------------
(* Paragraphs, lists and tables.                                           *)

\* What a paragraph goes on across in some format: a drawer with the blank that
\* may end it, a comment, an end without its begin; a MediaWiki listing, the
\* lines of an open template, a table's marks outside a table, which are prose;
\* in reStructuredText a comment, an adornment that is too short and a numbered
\* line above it; a macro of LaTeX that begins nothing; in Textile a marker with
\* an unknown name.
Transparent(n) ==
    CASE format = "org" ->
           \/ source[n].lead \in {":", "#", "#+END_"} \/ Hidden(n)
           \/ /\ source[n].lead = ""
              /\ \E m \in 1 .. n - 1 : Hidden(m) \/ source[m].lead = ":"
      [] format = "mediawiki" ->
           \/ source[n].indent > 0 \/ source[n].lead \in {"|", "|-", "!", "|}"}
           \/ \E m \in 1 .. n - 1 : source[m].count > 0
      [] format = "rst" ->
           \/ source[n].lead \in {"..", "::", "=="}
           \/ source[n].lead = "1. " /\ source[n + 1].lead \in {"::", "=="}
      [] format = "epub" -> source[n].lead \in {"a", "b", "img"} \cup Epub!SKIPPED
      [] format = "latex" -> source[n].lead \in {"textbf", "label", "meta", "documentclass", "newline", "&", "hline"}
      [] format = "textile" -> Textile!KindOf(source[n]) = "TEXT"
      [] format \in Office -> FALSE

\* A paragraph outside other elements is a run of plain lines: none goes across
\* a blank line, a heading, an item or a block.
ParagraphsWhole ==
    Done => \A m \in DOMAIN rows :
        rows[m].type = "paragraph" /\ rows[m].level = 1 =>
            \A a, b \in DOMAIN rows[m].text :
                \A n \in LineOf(rows[m].text[a]) + 1 .. LineOf(rows[m].text[b]) - 1 :
                    source[n].lead \in {"word", "</", "[[File:"} \/ Transparent(n)

\* Rows that come between an item and its list without closing the list: a
\* keyword in Org, a listing in MediaWiki.
Between == [org |-> "raw", mediawiki |-> "code"]

Flow ==
    IF format \in DOMAIN Between THEN SelectSeq(rows, LAMBDA r : r.type # Between[format]) ELSE rows

ParentOf(els, n) ==
    LET above == {m \in 1 .. n - 1 : els[m].level < els[n].level}
    IN  IF above = {} THEN 0 ELSE CHOOSE m \in above : \A k \in above : k <= m

\* The list type a line's marker names.
TypeNamed(s) ==
    CASE format \in Office -> Last(s.markers)
      [] s.lead = "1. " -> "ordered"
      [] s.lead = "- " -> "bullet"
      [] s.lead = "list" -> MediaWiki!TypeOf(Last(s.markers))

\* An item of an office document that comes back from a deeper list joins the
\* list that is open at its depth, of whichever type it is.
ComesBack(n) == format \in Office /\ n > 1 /\ Flow[n - 1].level > Flow[n].level

\* Every item hangs under a list, one level above it, and in all formats but
\* Org under one of the type its marker or its numbering names; in LaTeX, where
\* an item may have no text, ItemTextsAsWritten says of which type.
ItemsInLists ==
    Done => \A n \in DOMAIN Flow :
        Flow[n].type = "list_item" =>
            LET p == ParentOf(Flow, n)
            IN  /\ p # 0
                /\ Flow[p].type = "list"
                /\ Flow[p].level = Flow[n].level - 1
                /\ format # "org" /\ Flow[n].role # "" =>
                     Flow[p].list_type = IF format \in Office THEN "" ELSE "definition"
                /\ format \notin {"org", "latex", "epub"} /\ Flow[n].role = "" /\ ~ComesBack(n) =>
                     Flow[p].list_type = TypeNamed(source[LineOf(Flow[n].text[1])])

\* A table's rows are the source's: two texts are in one row of it exactly when
\* no other row was begun between them.
RowsWhole ==
    Done => \A m \in DOMAIN rows : \A c, d \in DOMAIN rows[m].cells :
        \A a \in DOMAIN rows[m].cells[c], b \in DOMAIN rows[m].cells[d] :
            LET from == LineOf(rows[m].cells[c][a])
                to == LineOf(rows[m].cells[d][b])
                parted == IF format = "mediawiki" THEN \E n \in from .. to : source[n].lead = "|-"
                          ELSE IF format = "latex" THEN
                            \E n \in from .. to : source[n].lead = "newline" /\ Around(n, Latex!Verbatim) = {}
                          ELSE IF format = "epub" THEN \E n \in from .. to : source[n].lead = "tr"
                          ELSE from # to
            IN  from <= to => (c = d <=> ~parted)

-----------------------------------------------------------------------------
(* One format's own.                                                       *)

\* ReadRst: two headings have one level exactly when they have one adornment,
\* for the six adornments headings have levels for, when no comment is between
\* a title and its adornment.
HeadingsByAdornment ==
    LET Below(m) == source[LineOf(Last(rows[m].text)) + 1]
        headings == {m \in DOMAIN rows : rows[m].type = "heading" /\ Below(m).lead \in {"==", "::"}}
    IN  Done /\ format = "rst" /\ Len(builder.adornments) <= 6 =>
            \A m, n \in headings :
                rows[m].heading = rows[n].heading <=> Below(m).name = Below(n).name

\* In reStructuredText containment is indentation.  What starts at the margin
\* is on the top level, or an item of a list that is; a paragraph that starts
\* right of it behind a blank line is deeper, but for the body of a footnote.
MarginIsTopLevel ==
    \A n \in DOMAIN rows :
        rows[n].type = "paragraph" \/ (rows[n].type = "list_item" /\ rows[n].role # "definition") =>
            LET line == LineOf(rows[n].text[1])
                top == IF rows[n].type = "paragraph" THEN 1 ELSE 2
                footnote == \E m \in 1 .. line - 1 : source[m].name = "["
            IN  IF source[line].indent = 0 THEN rows[n].level = top
                ELSE rows[n].type = "paragraph" /\ line > 1 /\ source[line - 1].lead = "" =>
                       rows[n].level > top \/ footnote

\* The elements of an EPUB that contain the block a node's text is in: lists,
\* containers, items and the like with blocks in them, a table for its caption.
IsContainer(m, n) ==
    \/ source[m].lead \in DOMAIN Epub!ListType \cup Epub!SECTIONING \cup {"blockquote", "div"}
    \/ source[m].lead \in Epub!Leaf /\ ~IsWhole(m)
    \/ source[m].lead = "table" /\ \E k \in Enclosing(n) : source[k].lead = "caption"

Container(m) ==
    LET tag == source[m].lead
    IN  IF tag \in DOMAIN Epub!ListType THEN <<"list", Epub!ListType[tag]>>
        ELSE IF tag \in Epub!SECTIONING THEN <<"section", "">>
        ELSE IF tag \in Epub!Leaf THEN <<Epub!LeafRow(tag, 1).type, "">>
        ELSE <<tag, "">>

PathTo(nodes, Name(_)) == [k \in DOMAIN nodes |-> Name(nodes[k])]

\* In an EPUB containment is the document's: above a row are the rows of the
\* elements around its text, and no others; a section that holds no block has
\* none.
PathsAsWritten ==
    \A n \in DOMAIN rows :
        IF rows[n].text # << >> /\ IsBody(rows[n]) THEN
            LET line == LineOf(rows[n].text[1])
                Types(m) == <<rows[m].type, rows[m].list_type>>
                around == {m \in Enclosing(line) : IsContainer(m, line) /\ ~InWhole(m)}
            IN  PathTo(Epub!InOrder(around), Container)
                  = PathTo(SetToSortSeq(Ancestors(rows, n), <), Types)
        ELSE rows[n].type \in {"div", "section"} =>
                 n < Len(rows) /\ IsBody(rows[n + 1]) /\ rows[n + 1].level > rows[n].level

\* ReadRst and ReadEpub model their documents structurally: what a row hangs
\* under is what its text stands in.
NestingAsWritten ==
    Done => /\ format = "rst" => MarginIsTopLevel
            /\ format = "epub" => PathsAsWritten

\* ReadTextile: a style is one row's only, and one that is stated with a text
\* is the style of that text's row; of a quote's, the row above it.
StylesInPlace ==
    Done /\ format = "textile" =>
        \A n \in DOMAIN rows : rows[n].style # 0 =>
            /\ \A m \in DOMAIN rows : rows[m].style = rows[n].style => m = n
            /\ source[rows[n].style].text =>
                  LET m == IF rows[n].type = "blockquote" THEN n + 1 ELSE n
                  IN  m \in DOMAIN rows /\ TextOf(rows[n].style) \in Range(rows[m].text)

\* Sources of LaTeX whose environments are those of blocks, each closed by its
\* own end or left open.
Block == DOMAIN Latex!ListType \cup DOMAIN Latex!Container \cup {"center"}

Innermost(n) == Max({0} \cup Around(n, Block))

Nested ==
    /\ format = "latex"
    /\ \A n \in DOMAIN source :
          /\ source[n].lead # "documentclass"
          /\ source[n].lead \in {"begin", "end"} => source[n].name \in Block
          /\ source[n].lead = "end" => Innermost(n) # 0 /\ source[Innermost(n)].name = source[n].name

\* The lines that stand in the list begun on a line, and in nothing else in it,
\* behind its first item.
InItems(begin) ==
    {n \in begin + 1 .. Len(source) :
        /\ Innermost(n) = begin
        /\ \E m \in begin + 1 .. n - 1 : source[m].lead = "item" /\ Innermost(m) = begin}

\* ReadLatex: a text that stands directly in an item is in a row of that list.
\* A blank line behind any of the list's items makes paragraphs of the texts of
\* all of them; without one a text is the item's own if it is all there is, and
\* a plain block beside the others if there is more.
ItemTextsAsWritten ==
    Done /\ Nested =>
        \A n \in DOMAIN rows, begin \in DOMAIN source :
            /\ rows[n].text # << >> /\ rows[n].role # "term"
            /\ source[begin].lead = "begin" /\ source[begin].name \in DOMAIN Latex!ListType
            /\ LineOf(rows[n].text[1]) \in InItems(begin)
            /\ source[LineOf(rows[n].text[1])].lead \in {"word", "textbf"}
            => LET loose == \E m \in InItems(begin) : source[m].lead = ""
                   item == IF rows[n].type = "list_item" THEN n ELSE ParentOf(rows, n)
                   list == ParentOf(rows, item)
                   beside == {m \in DOMAIN rows : m # item /\ ParentOf(rows, m) = item}
               IN  /\ rows[item].type = "list_item"
                   /\ rows[list].type = "list"
                   /\ rows[list].list_type = Latex!ListType[source[begin].name]
                   /\ IF loose THEN rows[n].type = "paragraph"
                      ELSE IF beside \ {n} = {} /\ rows[n].style = 0 THEN n = item
                      ELSE rows[n].type = "plain"
=============================================================================
