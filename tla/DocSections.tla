---------------------------- MODULE DocSections ----------------------------
(***************************************************************************)
(* doc_container, doc_section and doc_search_sections, three SQL macros    *)
(* over the rows of one document (src/src/reader_registry.cpp).  Each cuts *)
(* the flat list at boundaries of its own: of levels, of headings of a     *)
(* rank, of any headings.                                                  *)
(*                                                                         *)
(* A position stands for element_order.  A content is a sequence of words, *)
(* or NULL; a string contains another when the words of the other stand in *)
(* it one after the other, so wildcards and case are left out.  A level    *)
(* may be NULL, rank is heading_level, NULL when it is no number.          *)
(***************************************************************************)
EXTENDS BlockTree

CONSTANTS
    Null,
    Document,   \* the lists of rows read_panduck_doc may return
    Phrase,     \* what is asked for: titles, texts
    Id          \* what is asked for: ids

Match == {"exact", "contains"}

ASSUME NullAssumption == Null \notin Int /\ Null \notin Seq(STRING) /\ Null \notin Id \cup Match

ASSUME DocumentAssumption ==
    Document \subseteq
        Seq([kind : ElementKind, type : STRING, level : Int \cup {Null}, rank : Int \cup {Null},
             content : Seq(STRING) \cup {Null}, id : Id \cup {Null}])

ASSUME PhraseAssumption == Phrase \subseteq Seq(STRING)

VARIABLES
    blocks,     \* the document
    documents,  \* how many documents the source resolves to
    answer      \* what the last call returned

docVars == <<blocks, documents, answer>>

-----------------------------------------------------------------------------

\* One past the last block.
End == Len(blocks) + 1

\* The first of a set of positions, the end of the document when it is empty.
FirstOf(S) == CHOOSE n \in S \cup {End} : \A m \in S \cup {End} : n <= m

Coalesce(value, default) == IF value = Null THEN default ELSE value

Level(n) == Coalesce(blocks[n].level, 1)

Holds(content, words) ==
    content # Null /\ words # Null
        /\ \E skipped \in 0 .. Len(content) - Len(words) :
              SubSeq(content, skipped + 1, skipped + Len(words)) = words

\* meta_roots: the rows that metadata starts with.
IsMetaRoot(n) == blocks[n].kind = "value" \/ blocks[n].type = "metadata"

\* Mutated form: a span ends at the next row that is not deeper by one.
SpanEndAtSibling(r) == FirstOf({n \in r + 1 .. Len(blocks) : Level(n) = Level(r)})

\* meta_spans: a root's rows end at the next one at its level or above.
SpanEnd(r) == FirstOf({n \in r + 1 .. Len(blocks) : Level(n) <= Level(r)})

\* body: the rows that no span reaches that was opened at or before them.
Body ==
    {n \in DOMAIN blocks : \A r \in 1 .. n : IsMetaRoot(r) => SpanEnd(r) <= n}

-----------------------------------------------------------------------------
(* doc_section.                                                            *)

Headings == {n \in Body : blocks[n].type = "heading"}

Rank(n) == Coalesce(blocks[n].rank, 1)

\* hits, with the id as a whole in either mode.
Hits(section, match) ==
    {n \in Headings :
        section # Null
          /\ \/ blocks[n].id = section
             \/ match = "exact" /\ blocks[n].content = section
             \/ match = "contains" /\ Holds(blocks[n].content, section)}

\* h: an exact match is the first one.
Taken(section, match) ==
    LET hits == Hits(section, match)
    IN  IF match = "contains" THEN hits ELSE {n \in hits : \A m \in hits : n <= m}

\* Mutated form: a section ends at a heading above its own.
SectionEndAbove(h) == FirstOf({n \in Headings : n > h /\ Rank(n) < Rank(h)})

\* spans: to the next heading of the same rank or above.
SectionEnd(h) == FirstOf({n \in Headings : n > h /\ Rank(n) <= Rank(h)})

\* keep: those that are in no other.
Kept(taken) ==
    {h \in taken : \A p \in taken : ~(p < h /\ SectionEnd(p) >= SectionEnd(h))}

Section(section, match) ==
    {n \in Body : \E h \in Kept(Taken(section, match)) : h <= n /\ n < SectionEnd(h)}

-----------------------------------------------------------------------------
(* doc_search_sections.                                                    *)

\* The last of a set of positions, 0 when it is empty.
LastOf(S) == IF S = {} THEN 0 ELSE CHOOSE n \in S : \A m \in S : m <= n

\* t: the nearest heading at or before a block.
Segment(n) == LastOf({h \in Headings : h <= n})

RowsOf(segment) == {n \in Body : Segment(n) = segment}

\* The contents of rows joined in order, one that is NULL as `missing`.
Joined(rows, missing) ==
    LET upTo[n \in Nat] ==
          IF n = 0 THEN << >>
          ELSE IF n \in rows THEN upTo[n - 1] \o Coalesce(blocks[n].content, missing)
          ELSE upTo[n - 1]
    IN  upTo[Len(blocks)]

\* Mutated form: a row without content joins an empty word.
TextWithGaps(segment) == Joined(RowsOf(segment), <<"">>)

\* segs: a row without content joins nothing.
TextOf(segment) == Joined(RowsOf(segment), << >>)

Search(pattern) == {n \in Body : Holds(TextOf(Segment(n)), pattern)}

-----------------------------------------------------------------------------
(* doc_container.                                                          *)

Labelled(id) == {n \in DOMAIN blocks : id # Null /\ blocks[n].id = id}

\* stop: nothing is at or above a level that is NULL, or is it itself.
ContainerEnd(c) ==
    FirstOf({n \in c + 1 .. Len(blocks) :
                Null \notin {blocks[n].level, blocks[c].level} /\ blocks[n].level <= blocks[c].level})

\* The first row that carries the id, wherever it stands.
Container(id) ==
    IF Labelled(id) = {} THEN {}
    ELSE LET c == FirstOf(Labelled(id)) IN c .. ContainerEnd(c) - 1

-----------------------------------------------------------------------------
(* A call returns or raises; each cuts a single document only.             *)

NoAnswer == [macro |-> "none"]

DocInit ==
    /\ blocks \in Document
    /\ documents \in 1 .. 2
    /\ answer = NoAnswer

Answer(macro, asked, match, valid, found) ==
    /\ answer = NoAnswer
    /\ answer' = [macro |-> macro, asked |-> asked, match |-> match,
                  raised |-> documents > 1 \/ ~valid,
                  rows |-> IF documents > 1 \/ ~valid THEN {} ELSE found]
    /\ UNCHANGED <<blocks, documents>>

DocSection(section, match) ==
    Answer("doc_section", section, match, match \in Match, Section(section, match))

DocSearch(pattern) == Answer("doc_search_sections", pattern, "", TRUE, Search(pattern))

DocContainer(id) == Answer("doc_container", id, "", TRUE, Container(id))

\* The caller has read the rows.
DocReturn ==
    /\ answer # NoAnswer
    /\ answer' = NoAnswer
    /\ UNCHANGED <<blocks, documents>>

DocNext ==
    \/ DocReturn
    \/ \E section \in Phrase \cup Id \cup {Null}, match \in Match \cup {"prefix", Null} :
          DocSection(section, match)
    \/ \E pattern \in Phrase \cup {Null} : DocSearch(pattern)
    \/ \E id \in Id \cup {Null} : DocContainer(id)

DocSpec == DocInit /\ [][DocNext]_docVars

-----------------------------------------------------------------------------
(* Properties.                                                             *)

\* The rows with the levels the macros take them to have.
Tree == [n \in DOMAIN blocks |-> [level |-> Level(n)]]

\* What is metadata is a matter of the tree: a row is body exactly when neither
\* it nor anything it hangs under starts metadata.  The macros tell it from
\* ends of spans instead, one running maximum over the rows.
BodyIsWithoutMetadata ==
    Body = {n \in DOMAIN blocks :
               ~IsMetaRoot(n) /\ \A m \in Ancestors(Tree, n) : ~IsMetaRoot(m)}

\* The tree of headings, by their ranks.
HeadingsAbove(n) ==
    {h \in Headings : h <= n /\ \A k \in Headings : h < k /\ k <= n => Rank(h) < Rank(k)}

Named(section, match) ==
    {h \in Headings : blocks[h].id = section
                        \/ IF match = "exact" THEN blocks[h].content = section
                           ELSE Holds(blocks[h].content, section)}

\* What is cut out is a subtree, no row of it twice and none missing: by levels
\* what hangs under the container, by ranks what hangs under a named heading.
AnswersAreSubtrees ==
    /\ answer.macro = "doc_container" /\ ~answer.raised /\ answer.rows # {}
         /\ (\A n \in DOMAIN blocks : blocks[n].level # Null) =>
            \E c \in answer.rows :
                /\ blocks[c].id = answer.asked
                /\ answer.rows = {c} \cup {n \in DOMAIN blocks : c \in Ancestors(Tree, n)}
    /\ answer.macro = "doc_section" /\ ~answer.raised /\ answer.asked # Null =>
         LET named == Named(answer.asked, answer.match)
             first == FirstOf(named)
         IN  /\ answer.rows = {n \in Body :
                    \E h \in HeadingsAbove(n) \cap named : answer.match = "exact" => h = first}
             /\ \A h, k \in Kept(Taken(answer.asked, answer.match)) :
                    h < k => SectionEnd(h) <= k

\* The words of a run of rows, from which no heading is.
Words(m, n) ==
    LET first[k \in Nat] ==
          IF k = 0 THEN << >>
          ELSE IF m + k - 1 \in Body
          THEN first[k - 1] \o Coalesce(blocks[m + k - 1].content, << >>)
          ELSE first[k - 1]
    IN  first[n - m + 1]

\* The innermost sections part the body, and a phrase is found where it stands:
\* whatever comes back holds whole sections, everything comes back for the
\* empty phrase, and the rows of a section come back for any words of theirs in
\* sequence, though rows without words stand between them.
SearchFindsInnermost ==
    answer.macro = "doc_search_sections" /\ ~answer.raised /\ answer.asked # Null =>
        /\ answer.rows \subseteq Body
        /\ answer.asked = << >> => answer.rows = Body
        /\ \A n \in answer.rows, m \in Body :
              Segment(m) = Segment(n) => m \in answer.rows
        /\ \A m, n \in Body :
              m <= n /\ Headings \cap m + 1 .. n = {} /\ Holds(Words(m, n), answer.asked) =>
                  {m, n} \subseteq answer.rows
=============================================================================
