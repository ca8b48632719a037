------------------------- MODULE DocSectionsProofs -------------------------
(* What the macros over a document cut out, for every document.            *)
EXTENDS DocSections, DataLemmas, SequenceTheorems, TLAPS

-----------------------------------------------------------------------------
(* First positions.                                                        *)

\* FirstOf is the least of the positions it is given, or the end.
LEMMA FirstOfIsLeast ==
    ASSUME Len(blocks) \in Nat, NEW S \in SUBSET Nat
    PROVE  /\ FirstOf(S) \in S \cup {End}
           /\ \A m \in S \cup {End} : FirstOf(S) <= m
<1>0. End \in Nat
  BY DEF End
<1>1. S \cup {End} \in SUBSET Nat /\ S \cup {End} # {}
  BY <1>0
<1>2. \E n \in S \cup {End} : \A m \in S \cup {End} : n <= m
  BY <1>1, LeastOf
<1> QED
  BY <1>2 DEF FirstOf

-----------------------------------------------------------------------------
(* Metadata.                                                               *)

\* What a position of a document is.
LEMMA Positions ==
    ASSUME blocks \in Document
    PROVE  /\ Len(blocks) \in Nat
           /\ DOMAIN blocks = 1 .. Len(blocks)
           /\ \A n \in DOMAIN blocks : /\ blocks[n].level \in Int \cup {Null}
                                       /\ blocks[n].rank \in Int \cup {Null}
                                       /\ Level(n) \in Int
                                       /\ Rank(n) \in Int
<1> DEFINE Row == [kind : ElementKind, type : STRING, level : Int \cup {Null},
                   rank : Int \cup {Null}, content : Seq(STRING) \cup {Null}, id : Id \cup {Null}]
<1>1. blocks \in Seq(Row)
  BY DocumentAssumption
<1>2. /\ Len(blocks) \in Nat
      /\ DOMAIN blocks = 1 .. Len(blocks)
      /\ \A n \in DOMAIN blocks : blocks[n] \in Row
  <2> HIDE DEF Row
  <2> QED
    BY <1>1
<1>3. \A n \in DOMAIN blocks : blocks[n].level \in Int \cup {Null} /\ blocks[n].rank \in Int \cup {Null}
  BY <1>2
<1>4. \A n \in DOMAIN blocks : Level(n) \in Int /\ Rank(n) \in Int
  BY <1>3 DEF Level, Rank, Coalesce
<1> QED
  BY <1>2, <1>3, <1>4

\* A span ends behind its root, with the document at the latest.
LEMMA SpanEndAfter ==
    ASSUME blocks \in Document, NEW r \in DOMAIN blocks
    PROVE  SpanEnd(r) \in r + 1 .. End
<1> DEFINE S == {n \in r + 1 .. Len(blocks) : Level(n) <= Level(r)}
<1>1. Len(blocks) \in Nat /\ r \in 1 .. Len(blocks)
  BY Positions
<1>2. S \in SUBSET Nat /\ S \subseteq r + 1 .. Len(blocks)
  BY <1>1
<1>3. SpanEnd(r) \in S \cup {End}
  <2>1. SpanEnd(r) = FirstOf(S)
    BY DEF SpanEnd
  <2> HIDE DEF S
  <2> QED
    BY <1>1, <1>2, <2>1, FirstOfIsLeast
<1> QED
  BY <1>1, <1>2, <1>3 DEF End

\* The rows of a span that starts at r are r and what hangs under it.
LEMMA SpanIsSubtree ==
    ASSUME blocks \in Document,
           NEW r \in DOMAIN blocks, NEW n \in DOMAIN blocks, r <= n
    PROVE  SpanEnd(r) > n <=> r = n \/ r \in Ancestors(Tree, n)
<1> DEFINE S == {k \in r + 1 .. Len(blocks) : Level(k) <= Level(r)}
<1>1. Len(blocks) \in Nat /\ DOMAIN blocks = 1 .. Len(blocks)
  BY DocumentAssumption
<1>2. \A k \in DOMAIN blocks : Level(k) \in Int
  BY Positions
<1>3. S \in SUBSET Nat
  BY <1>1
<1>4. SpanEnd(r) \in S \cup {End} /\ \A m \in S \cup {End} : SpanEnd(r) <= m
  <2>1. SpanEnd(r) = FirstOf(S)
    BY DEF SpanEnd
  <2> HIDE DEF S
  <2> QED
    BY <2>1, <1>1, <1>3, FirstOfIsLeast
<1>5. SpanEnd(r) > n <=> \A k \in r + 1 .. n : Level(r) < Level(k)
  <2>1. ASSUME SpanEnd(r) > n, NEW k \in r + 1 .. n  PROVE Level(r) < Level(k)
    <3>1. k \in DOMAIN blocks /\ k \notin S
      BY <2>1, <1>1, <1>3, <1>4 DEF End
    <3> QED
      BY <3>1, <1>1, <1>2
  <2>2. ASSUME \A k \in r + 1 .. n : Level(r) < Level(k)  PROVE SpanEnd(r) > n
    <3>1. \A k \in S : k > n
      BY <2>2, <1>1, <1>2
    <3> QED
      BY <3>1, <1>1, <1>3, <1>4 DEF End
  <2> QED
    BY <2>1, <2>2
<1>6. \A k \in DOMAIN blocks : Tree[k].level = Level(k)
  BY DEF Tree
<1>7. r \in Ancestors(Tree, n) <=> r # n /\ \A k \in r + 1 .. n : Level(r) < Level(k)
  BY <1>1, <1>6 DEF Ancestors
<1> QED
  BY <1>1, <1>5, <1>7

\* For every document whose macros are called, what is taken for its body is
\* what no metadata stands above: meta_spans agrees with the tree of levels.
THEOREM BodyIsWithoutMetadataAlways == DocSpec => []BodyIsWithoutMetadata
<1>1. ASSUME blocks \in Document  PROVE BodyIsWithoutMetadata
  <2>1. Len(blocks) \in Nat /\ DOMAIN blocks = 1 .. Len(blocks)
    BY <1>1, DocumentAssumption
  <2>2. \A r \in DOMAIN blocks : SpanEnd(r) \in Int
    BY <1>1, <2>1, SpanEndAfter DEF End
  <2>3. ASSUME NEW n \in DOMAIN blocks
        PROVE  (\A r \in 1 .. n : IsMetaRoot(r) => SpanEnd(r) <= n)
                 <=> ~IsMetaRoot(n) /\ \A m \in Ancestors(Tree, n) : ~IsMetaRoot(m)
    <3>1. \A r \in 1 .. n : SpanEnd(r) <= n <=> ~(r = n \/ r \in Ancestors(Tree, n))
      <4> TAKE r \in 1 .. n
      <4>1. r \in DOMAIN blocks /\ r <= n
        BY <2>1
      <4>2. SpanEnd(r) > n <=> r = n \/ r \in Ancestors(Tree, n)
        BY <1>1, <4>1, SpanIsSubtree
      <4> QED
        BY <2>1, <2>2, <4>1, <4>2
    <3>2. Ancestors(Tree, n) \subseteq 1 .. n /\ n \in 1 .. n
      BY <2>1 DEF Ancestors
    <3> QED
      BY <3>1, <3>2
  <2> QED
    BY <2>3 DEF BodyIsWithoutMetadata, Body
<1>2. DocInit => blocks \in Document
  BY DEF DocInit
<1>3. blocks \in Document /\ [DocNext]_docVars => (blocks \in Document)'
  BY DEF DocNext, docVars, DocReturn, DocSection, DocSearch, DocContainer, Answer
<1> QED
  BY <1>1, <1>2, <1>3, PTL DEF DocSpec

-----------------------------------------------------------------------------
(* Answers, and the rows they were cut from.                               *)

\* A macro computes the same sections as long as the rows are the same.
LEMMA SectionOfSameRows ==
    ASSUME blocks' = blocks
    PROVE  \A section, match : Section(section, match)' = Section(section, match)
<1>1. End' = End
  BY DEF End
<1>2. \A n : Level(n)' = Level(n) /\ Rank(n)' = Rank(n) /\ IsMetaRoot(n)' = IsMetaRoot(n)
  BY DEF Level, Rank, Coalesce, IsMetaRoot
<1>3. \A r : SpanEnd(r)' = SpanEnd(r)
  BY <1>1, <1>2 DEF SpanEnd, FirstOf
<1>4. Body' = Body
  BY <1>2, <1>3 DEF Body
<1>5. Headings' = Headings
  BY <1>4 DEF Headings
<1>6. \A h : SectionEnd(h)' = SectionEnd(h)
  BY <1>1, <1>2, <1>5 DEF SectionEnd, FirstOf
<1>7. \A section, match : Hits(section, match)' = Hits(section, match)
  BY <1>5 DEF Hits, Holds
<1>8. \A section, match : Taken(section, match)' = Taken(section, match)
  BY <1>7 DEF Taken
<1>9. \A section, match : Kept(Taken(section, match))' = Kept(Taken(section, match))
  BY <1>6, <1>8 DEF Kept
<1> QED
  BY <1>4, <1>6, <1>9 DEF Section

\* A macro computes the same container as long as the rows are the same.
LEMMA ContainerOfSameRows ==
    ASSUME blocks' = blocks
    PROVE  \A id : Container(id)' = Container(id)
<1>1. End' = End
  BY DEF End
<1>2. \A c : ContainerEnd(c)' = ContainerEnd(c)
  BY <1>1 DEF ContainerEnd, FirstOf
<1>3. \A id : Labelled(id)' = Labelled(id)
  BY DEF Labelled
<1>4. \A id : FirstOf(Labelled(id))' = FirstOf(Labelled(id))
  BY <1>1, <1>3 DEF FirstOf
<1> QED
  BY <1>2, <1>3, <1>4 DEF Container

\* A macro finds the same sections as long as the rows are the same.
LEMMA SearchOfSameRows ==
    ASSUME blocks' = blocks
    PROVE  \A pattern : Search(pattern)' = Search(pattern)
<1>1. End' = End
  BY DEF End
<1>2. \A n : Level(n)' = Level(n) /\ IsMetaRoot(n)' = IsMetaRoot(n)
  BY DEF Level, Coalesce, IsMetaRoot
<1>3. \A r : SpanEnd(r)' = SpanEnd(r)
  BY <1>1, <1>2 DEF SpanEnd, FirstOf
<1>4. Body' = Body
  BY <1>2, <1>3 DEF Body
<1>5. Headings' = Headings
  BY <1>4 DEF Headings
<1>6. \A n : Segment(n)' = Segment(n)
  BY <1>5 DEF Segment, LastOf
<1>7. \A s : RowsOf(s)' = RowsOf(s)
  BY <1>4, <1>6 DEF RowsOf
<1>8. \A s : TextOf(s)' = TextOf(s)
  BY <1>7 DEF TextOf, Joined, Coalesce
<1>9. \A n : TextOf(Segment(n))' = TextOf(Segment(n))
  BY <1>6, <1>8
<1>10. \A n, pattern : Holds(TextOf(Segment(n)), pattern)' = Holds(TextOf(Segment(n)), pattern)
  BY <1>9 DEF Holds
<1> QED
  BY <1>4, <1>10 DEF Search

\* An answer is what the macro computes from the rows, and these are a document.
DocIInv ==
    /\ blocks \in Document
    /\ answer.macro = "doc_container" /\ ~answer.raised =>
          answer.rows = Container(answer.asked)
    /\ answer.macro = "doc_section" /\ ~answer.raised =>
          answer.match \in Match /\ answer.rows = Section(answer.asked, answer.match)
    /\ answer.macro = "doc_search_sections" /\ ~answer.raised =>
          answer.asked \in Phrase \cup {Null} /\ answer.rows = Search(answer.asked)

\* Every call keeps it: the rows it answers from are the ones that stay.
LEMMA DocIInvAlways == DocSpec => []DocIInv
<1>1. DocInit => DocIInv
  BY DEF DocInit, DocIInv, NoAnswer
<1>2. ASSUME DocIInv, [DocNext]_docVars  PROVE DocIInv'
  <2>1. CASE UNCHANGED docVars
    <3>1. blocks' = blocks /\ answer' = answer
      BY <2>1 DEF docVars
    <3> QED
      BY <1>2, <3>1, SectionOfSameRows, ContainerOfSameRows, SearchOfSameRows DEF DocIInv
  <2>2. CASE DocReturn
    BY <1>2, <2>2 DEF DocIInv, DocReturn, NoAnswer
  <2>3. ASSUME NEW section, NEW match, DocSection(section, match)  PROVE DocIInv'
    <3>1. Section(section, match)' = Section(section, match)
      BY <2>3, SectionOfSameRows DEF DocSection, Answer
    <3> QED
      BY <1>2, <2>3, <3>1 DEF DocIInv, DocSection, Answer
  <2>4. ASSUME NEW pattern \in Phrase \cup {Null}, DocSearch(pattern)  PROVE DocIInv'
    <3>1. Search(pattern)' = Search(pattern)
      BY <2>4, SearchOfSameRows DEF DocSearch, Answer
    <3> QED
      BY <1>2, <2>4, <3>1 DEF DocIInv, DocSearch, Answer
  <2>5. ASSUME NEW id, DocContainer(id)  PROVE DocIInv'
    <3>1. Container(id)' = Container(id)
      BY <2>5, ContainerOfSameRows DEF DocContainer, Answer
    <3> QED
      BY <1>2, <2>5, <3>1 DEF DocIInv, DocContainer, Answer
  <2> QED
    BY <1>2, <2>1, <2>2, <2>3, <2>4, <2>5 DEF DocNext
<1> QED
  BY <1>1, <1>2, PTL DEF DocSpec

-----------------------------------------------------------------------------
(* Subtrees of levels and of ranks.                                        *)

\* doc_container returns the first row with the id and what hangs under it.
LEMMA ContainerIsSubtree ==
    ASSUME blocks \in Document, \A n \in DOMAIN blocks : blocks[n].level # Null,
           NEW id, Container(id) # {}
    PROVE  \E c \in Container(id) :
              /\ blocks[c].id = id
              /\ Container(id) = {c} \cup {n \in DOMAIN blocks : c \in Ancestors(Tree, n)}
<1> DEFINE c == FirstOf(Labelled(id))
           S == {n \in c + 1 .. Len(blocks) :
                    Null \notin {blocks[n].level, blocks[c].level} /\ blocks[n].level <= blocks[c].level}
<1>1. Len(blocks) \in Nat /\ DOMAIN blocks = 1 .. Len(blocks)
  BY Positions
<1>2. \A n \in DOMAIN blocks : blocks[n].level = Level(n) /\ Level(n) \in Int
  BY Positions DEF Level, Coalesce
<1>3. Labelled(id) \in SUBSET (1 .. Len(blocks)) /\ Labelled(id) # {}
  BY <1>1 DEF Labelled, Container
<1>4. c \in Labelled(id)
  <2>1. Labelled(id) \in SUBSET Nat
    BY <1>1, <1>3
  <2>2. c \in Labelled(id) \cup {End} /\ \A m \in Labelled(id) \cup {End} : c <= m
    BY <1>1, <2>1, FirstOfIsLeast
  <2>3. PICK m \in Labelled(id) : TRUE
    BY <1>3
  <2> QED
    BY <1>1, <1>3, <2>2, <2>3 DEF End
<1>5. c \in DOMAIN blocks /\ c \in 1 .. Len(blocks) /\ blocks[c].id = id
  BY <1>1, <1>3, <1>4 DEF Labelled
<1>6. Container(id) = c .. ContainerEnd(c) - 1
  BY <1>3 DEF Container
<1> HIDE DEF c
<1>7. ContainerEnd(c) = SpanEnd(c)
  <2>1. S = {n \in c + 1 .. Len(blocks) : Level(n) <= Level(c)}
    BY <1>1, <1>2, <1>5
  <2> QED
    BY <2>1 DEF ContainerEnd, SpanEnd
<1>8. SpanEnd(c) \in c + 1 .. End
  BY <1>5, SpanEndAfter
<1>9. \A n : n \in Container(id) <=> n \in DOMAIN blocks /\ c <= n /\ SpanEnd(c) > n
  BY <1>1, <1>5, <1>6, <1>7, <1>8 DEF End
<1>10. \A n \in DOMAIN blocks : c <= n => (SpanEnd(c) > n <=> c = n \/ c \in Ancestors(Tree, n))
  BY <1>5, SpanIsSubtree
<1>11. \A n \in DOMAIN blocks : c \in Ancestors(Tree, n) => c <= n
  BY <1>1, <1>5 DEF Ancestors
<1>12. Container(id) = {c} \cup {n \in DOMAIN blocks : c \in Ancestors(Tree, n)}
  BY <1>5, <1>9, <1>10, <1>11
<1> QED
  BY <1>5, <1>12

\* Where a section of a heading ends, and which rows it has.
LEMMA SectionIsSubtree ==
    ASSUME blocks \in Document, NEW h \in Headings
    PROVE  /\ h \in DOMAIN blocks
           /\ SectionEnd(h) \in h + 1 .. End
           /\ SectionEnd(h) # End =>
                SectionEnd(h) \in Headings /\ Rank(SectionEnd(h)) <= Rank(h)
           /\ \A k \in Headings : h < k /\ k < SectionEnd(h) => Rank(h) < Rank(k)
           /\ \A n \in DOMAIN blocks : h <= n /\ n < SectionEnd(h) <=> h \in HeadingsAbove(n)
<1> DEFINE S == {n \in Headings : n > h /\ Rank(n) <= Rank(h)}
<1>1. Len(blocks) \in Nat /\ DOMAIN blocks = 1 .. Len(blocks)
  BY Positions
<1>2. Headings \subseteq 1 .. Len(blocks)
  BY <1>1 DEF Headings, Body
<1>3. \A k \in Headings : Rank(k) \in Int
  BY <1>1, <1>2, Positions
<1>4. S \in SUBSET Nat /\ S \subseteq h + 1 .. Len(blocks)
  <2>1. \A n \in S : n \in 1 .. Len(blocks) /\ n > h /\ h \in 1 .. Len(blocks)
    BY <1>2
  <2>2. \A n \in S : n \in Nat /\ n \in h + 1 .. Len(blocks)
    BY <1>1, <2>1
  <2> QED
    BY <2>2
<1>5. SectionEnd(h) \in S \cup {End} /\ \A m \in S \cup {End} : SectionEnd(h) <= m
  <2>1. SectionEnd(h) = FirstOf(S)
    BY DEF SectionEnd
  <2> HIDE DEF S
  <2> QED
    BY <1>1, <1>4, <2>1, FirstOfIsLeast
<1>6. h \in 1 .. Len(blocks) /\ SectionEnd(h) \in h + 1 .. End
  BY <1>1, <1>2, <1>4, <1>5 DEF End
<1>7. SectionEnd(h) # End => SectionEnd(h) \in Headings /\ Rank(SectionEnd(h)) <= Rank(h)
  BY <1>5
<1>8. \A k \in Headings : h < k /\ k < SectionEnd(h) => Rank(h) < Rank(k)
  <2> SUFFICES ASSUME NEW k \in Headings, h < k, k < SectionEnd(h)  PROVE Rank(h) < Rank(k)
    OBVIOUS
  <2>1. k \notin S
    BY <1>1, <1>2, <1>5, <1>6 DEF End
  <2> QED
    BY <2>1, <1>1, <1>2, <1>3
<1>9. ASSUME NEW n \in DOMAIN blocks
      PROVE  h <= n /\ n < SectionEnd(h) <=> h \in HeadingsAbove(n)
  <2>1. ASSUME h <= n, n < SectionEnd(h)  PROVE h \in HeadingsAbove(n)
    BY <2>1, <1>1, <1>2, <1>6, <1>8 DEF HeadingsAbove, End
  <2>2. ASSUME h \in HeadingsAbove(n)  PROVE h <= n /\ n < SectionEnd(h)
    <3>1. h <= n /\ \A k \in Headings : h < k /\ k <= n => Rank(h) < Rank(k)
      BY <2>2 DEF HeadingsAbove
    <3>2. \A k \in S : n < k
      BY <3>1, <1>1, <1>2, <1>3
    <3>3. n < End
      BY <1>1 DEF End
    <3> HIDE DEF S
    <3> QED
      BY <3>1, <3>2, <3>3, <1>5
  <2> QED
    BY <2>1, <2>2
<1> QED
  BY <1>1, <1>6, <1>7, <1>8, <1>9

\* What keep drops is inside something it keeps, and what it keeps is apart.
LEMMA KeptCoversApart ==
    ASSUME blocks \in Document, NEW taken \in SUBSET Headings
    PROVE  /\ Kept(taken) \subseteq taken
           /\ \A h \in taken : \E p \in Kept(taken) : p <= h /\ SectionEnd(h) <= SectionEnd(p)
           /\ \A h, k \in Kept(taken) : h < k => SectionEnd(h) <= k
<1>1. Len(blocks) \in Nat /\ DOMAIN blocks = 1 .. Len(blocks)
  BY Positions
<1>2. \A h \in Headings : h \in 1 .. Len(blocks) /\ SectionEnd(h) \in h + 1 .. End
  BY <1>1, SectionIsSubtree
<1>3. \A h \in Headings : h \in Nat /\ SectionEnd(h) \in Nat
  BY <1>1, <1>2 DEF End
<1>4. Kept(taken) \subseteq taken
  BY DEF Kept
<1>5. ASSUME NEW h \in taken
      PROVE  \E p \in Kept(taken) : p <= h /\ SectionEnd(h) <= SectionEnd(p)
  <2> DEFINE Around == {p \in taken : p <= h /\ SectionEnd(h) <= SectionEnd(p)}
  <2>1. Around \in SUBSET Nat /\ Around # {}
    BY <1>3
  <2>2. PICK p \in Around : \A q \in Around : p <= q
    <3> HIDE DEF Around
    <3> QED
      BY <2>1, LeastOf
  <2>3. ASSUME NEW q \in taken, q < p, SectionEnd(q) >= SectionEnd(p)  PROVE FALSE
    <3>1. q \in Around
      BY <2>2, <2>3, <1>3
    <3> QED
      BY <3>1, <2>2, <2>3, <1>3
  <2>4. p \in Kept(taken)
    BY <2>2, <2>3 DEF Kept
  <2> QED
    BY <2>2, <2>4
<1>6. ASSUME NEW h \in Kept(taken), NEW k \in Kept(taken), h < k, k < SectionEnd(h)  PROVE FALSE
  <2>1. h \in Headings /\ k \in Headings
    BY <1>4
  <2>2. SectionEnd(h) < SectionEnd(k)
    BY <1>3, <1>6, <2>1 DEF Kept
  <2> DEFINE e == SectionEnd(h)
  <2>3. e # End
    BY <1>1, <1>2, <2>1, <2>2 DEF End
  <2>4. e \in Headings /\ Rank(e) <= Rank(h)
    BY <2>1, <2>3, SectionIsSubtree
  <2>5. Rank(h) < Rank(k)
    BY <1>6, <2>1, SectionIsSubtree
  <2>6. Rank(k) < Rank(e)
    BY <1>6, <2>1, <2>2, <2>4, SectionIsSubtree
  <2>7. Rank(h) \in Int /\ Rank(k) \in Int /\ Rank(e) \in Int
    BY <1>1, <1>2, <2>1, <2>4, Positions
  <2> HIDE DEF e
  <2> QED
    BY <2>4, <2>5, <2>6, <2>7
<1>7. \A h, k \in Kept(taken) : h < k => SectionEnd(h) <= k
  BY <1>3, <1>4, <1>6
<1> QED
  BY <1>4, <1>5, <1>7

\* doc_section returns, once each, the rows of the body under a heading that
\* answers to the name, the first such when the match is to be exact.
LEMMA SectionIsRows ==
    ASSUME blocks \in Document, NEW section, section # Null, NEW match \in Match
    PROVE  LET named == Named(section, match)
               first == FirstOf(named)
           IN  /\ Section(section, match) = {n \in Body :
                      \E h \in HeadingsAbove(n) \cap named : match = "exact" => h = first}
               /\ \A h, k \in Kept(Taken(section, match)) : h < k => SectionEnd(h) <= k
<1> DEFINE named == Named(section, match)
           taken == Taken(section, match)
<1>1. Len(blocks) \in Nat /\ DOMAIN blocks = 1 .. Len(blocks)
  BY Positions
<1>2. Headings \subseteq DOMAIN blocks /\ Body \subseteq DOMAIN blocks
  BY DEF Headings, Body
<1>3. Hits(section, match) = named
  BY DEF Hits, Named, Match, Holds
<1>4. named \subseteq Headings /\ named \in SUBSET Nat
  BY <1>1, <1>2 DEF Named
<1>5. taken = {h \in named : match = "exact" => h = FirstOf(named)}
  <2>1. CASE match = "contains"
    BY <1>3, <2>1 DEF Taken
  <2>2. CASE match = "exact"
    <3> HIDE DEF named
    <3>1. FirstOf(named) \in named \cup {End} /\ \A m \in named \cup {End} : FirstOf(named) <= m
      BY <1>1, <1>4, FirstOfIsLeast
    <3>2. \A n \in named : (\A m \in named : n <= m) <=> n = FirstOf(named)
      <4> TAKE n \in named
      <4>1. n \in Nat /\ n < End /\ End \in Nat
        BY <1>1, <1>2, <1>4 DEF End
      <4>2. FirstOf(named) <= n /\ FirstOf(named) \in Nat
        BY <1>4, <3>1, <4>1
      <4>3. FirstOf(named) \in named
        BY <3>1, <4>1, <4>2
      <4> QED
        BY <1>4, <3>1, <4>1, <4>2, <4>3
    <3>3. taken = {n \in named : \A m \in named : n <= m}
      BY <1>3, <2>2 DEF Taken
    <3> QED
      BY <2>2, <3>2, <3>3
  <2> QED
    BY <2>1, <2>2 DEF Match
<1> HIDE DEF taken, named
<1>6. taken \in SUBSET Headings
  BY <1>4, <1>5
<1>7. /\ Kept(taken) \subseteq taken
      /\ \A h \in taken : \E p \in Kept(taken) : p <= h /\ SectionEnd(h) <= SectionEnd(p)
      /\ \A h, k \in Kept(taken) : h < k => SectionEnd(h) <= k
  BY <1>6, KeptCoversApart
<1>8. \A h \in Headings : h \in Int /\ SectionEnd(h) \in Int
  BY <1>1, <1>2, SectionIsSubtree DEF End
<1>9. ASSUME NEW n \in Body
      PROVE  (\E h \in Kept(taken) : h <= n /\ n < SectionEnd(h))
               <=> \E h \in HeadingsAbove(n) \cap named : match = "exact" => h = FirstOf(named)
  <2>1. \A h \in taken : h <= n /\ n < SectionEnd(h) <=> h \in HeadingsAbove(n)
    BY <1>2, <1>6, SectionIsSubtree
  <2>2. (\E h \in Kept(taken) : h <= n /\ n < SectionEnd(h))
          <=> \E h \in taken : h <= n /\ n < SectionEnd(h)
    <3>1. (\E h \in Kept(taken) : h <= n /\ n < SectionEnd(h))
            => \E h \in taken : h <= n /\ n < SectionEnd(h)
      BY <1>7
    <3>2. ASSUME NEW h \in taken, h <= n, n < SectionEnd(h)
          PROVE  \E p \in Kept(taken) : p <= n /\ n < SectionEnd(p)
      <4>1. PICK p \in Kept(taken) : p <= h /\ SectionEnd(h) <= SectionEnd(p)
        BY <1>7
      <4>2. p \in Headings /\ h \in Headings
        BY <1>6, <1>7
      <4>3. p \in Int /\ h \in Int /\ SectionEnd(p) \in Int /\ SectionEnd(h) \in Int
        BY <1>8, <4>2
      <4>4. n \in Int
        BY <1>1, <1>2
      <4> QED
        BY <3>2, <4>1, <4>3, <4>4
    <3> QED
      BY <3>1, <3>2
  <2> QED
    BY <1>5, <2>1, <2>2
<1>10. Section(section, match) =
           {n \in Body : \E h \in Kept(taken) : h <= n /\ n < SectionEnd(h)}
  BY DEF Section, taken
<1> QED
  BY <1>7, <1>9, <1>10 DEF taken, named

\* For every document and every call, what doc_container and doc_section return
\* is a subtree: of levels, and of the ranks of headings.
THEOREM AnswersAreSubtreesAlways == DocSpec => []AnswersAreSubtrees
<1>1. ASSUME DocIInv  PROVE AnswersAreSubtrees
  <2>1. ASSUME answer.macro = "doc_container", ~answer.raised, answer.rows # {},
               \A n \in DOMAIN blocks : blocks[n].level # Null
        PROVE  \E c \in answer.rows :
                  /\ blocks[c].id = answer.asked
                  /\ answer.rows = {c} \cup {n \in DOMAIN blocks : c \in Ancestors(Tree, n)}
    <3>1. answer.rows = Container(answer.asked) /\ blocks \in Document
      BY <1>1, <2>1 DEF DocIInv
    <3> QED
      BY <2>1, <3>1, ContainerIsSubtree
  <2>2. ASSUME answer.macro = "doc_section", ~answer.raised, answer.asked # Null
        PROVE  LET named == Named(answer.asked, answer.match)
                   first == FirstOf(named)
               IN  /\ answer.rows = {n \in Body :
                          \E h \in HeadingsAbove(n) \cap named : answer.match = "exact" => h = first}
                   /\ \A h, k \in Kept(Taken(answer.asked, answer.match)) :
                          h < k => SectionEnd(h) <= k
    <3>1. /\ answer.match \in Match /\ blocks \in Document
          /\ answer.rows = Section(answer.asked, answer.match)
      BY <1>1, <2>2 DEF DocIInv
    <3> QED
      BY <2>2, <3>1, SectionIsRows
  <2> QED
    BY <2>1, <2>2 DEF AnswersAreSubtrees
<1> QED
  BY <1>1, DocIInvAlways, PTL

-----------------------------------------------------------------------------
(* Texts.                                                                  *)

\* What a row adds to a text.
Content(n) == Coalesce(blocks[n].content, << >>)

LEMMA ContentIsText ==
    ASSUME blocks \in Document, NEW n \in DOMAIN blocks
    PROVE  Content(n) \in Seq(STRING)
<1> DEFINE Row == [kind : ElementKind, type : STRING, level : Int \cup {Null},
                   rank : Int \cup {Null}, content : Seq(STRING) \cup {Null}, id : Id \cup {Null}]
<1>1. blocks \in Seq(Row)
  BY DocumentAssumption
<1>2. blocks[n] \in Row
  <2> HIDE DEF Row
  <2> QED
    BY <1>1, LenProperties, ElementOfSeq
<1>3. blocks[n].content \in Seq(STRING) \cup {Null}
  BY <1>2
<1> QED
  BY <1>3, EmptySeq DEF Content, Coalesce

\* A text grows from row to row.
LEMMA JoinedRowByRow ==
    ASSUME blocks \in Document, NEW rows \in SUBSET DOMAIN blocks
    PROVE  \E f \in [Nat -> Seq(STRING)] :
              /\ f[0] = << >>
              /\ \A n \in Nat : f[n + 1] = IF n + 1 \in rows THEN f[n] \o Content(n + 1) ELSE f[n]
              /\ Joined(rows, << >>) = f[Len(blocks)]
<1> DEFINE T == Seq(STRING)
           step == [n \in Nat |-> [text \in T |-> IF n \in rows THEN text \o Content(n) ELSE text]]
<1>1. step \in [Nat -> [T -> T]] /\ << >> \in T
  <2>1. ASSUME NEW n \in Nat, NEW text \in T
        PROVE  (IF n \in rows THEN text \o Content(n) ELSE text) \in T
    <3>1. n \in rows => Content(n) \in T
      BY ContentIsText
    <3> QED
      BY <3>1, ConcatProperties
  <2> QED
    BY <2>1, EmptySeq
<1>1a. \E f : Iterates(f, T, << >>, step)
  <2> HIDE DEF step, T
  <2> QED
    BY <1>1, Recursion
<1>2. PICK f \in [Nat -> T] : f[0] = << >> /\ \A n \in Nat : f[n + 1] = step[n + 1][f[n]]
  BY <1>1a DEF Iterates
<1>3. \A n \in Nat : f[n + 1] = IF n + 1 \in rows THEN f[n] \o Content(n + 1) ELSE f[n]
  <2> TAKE n \in Nat
  <2>1. n + 1 \in Nat /\ f[n] \in T
    BY <1>2
  <2>2. step[n + 1][f[n]] = IF n + 1 \in rows THEN f[n] \o Content(n + 1) ELSE f[n]
    BY <2>1
  <2> QED
    BY <1>2, <2>2
<1> DEFINE rule(g) == [n \in Nat |-> IF n = 0 THEN << >>
                         ELSE IF n \in rows THEN g[n - 1] \o Coalesce(blocks[n].content, << >>)
                         ELSE g[n - 1]]
           upTo == CHOOSE g : g = rule(g)
<1>4. f = rule(f)
  <2>1. ASSUME NEW n \in Nat PROVE f[n] = rule(f)[n]
    <3>1. CASE n = 0
      BY <1>2, <3>1
    <3>2. CASE n # 0
      <4>1. n - 1 \in Nat /\ (n - 1) + 1 = n
        BY <3>2
      <4> QED
        BY <1>3, <3>2, <4>1 DEF Content
    <3> QED
      BY <3>1, <3>2
  <2>2. f = [n \in Nat |-> f[n]]
    BY <1>2
  <2> QED
    BY <2>1, <2>2
<1>5. upTo = rule(upTo)
  <2> HIDE DEF rule
  <2> QED
    BY <1>4
<1>6. Joined(rows, << >>) = upTo[Len(blocks)]
  BY DEF Joined
<1> HIDE DEF upTo
<1>7. \A n \in Nat : upTo[n] = f[n]
  <2> DEFINE Same == {n \in Nat : upTo[n] = f[n]}
  <2>1. 0 \in Same
    BY <1>2, <1>5
  <2>2. ASSUME NEW n \in Same PROVE n + 1 \in Same
    <3>1. n + 1 \in Nat /\ n + 1 # 0 /\ (n + 1) - 1 = n
      OBVIOUS
    <3>2. upTo[n + 1] = IF n + 1 \in rows THEN upTo[n] \o Content(n + 1) ELSE upTo[n]
      BY <1>5, <3>1 DEF Content
    <3>3. n \in Nat /\ upTo[n] = f[n]
      OBVIOUS
    <3>5. f[n + 1] = IF n + 1 \in rows THEN f[n] \o Content(n + 1) ELSE f[n]
      BY <1>3
    <3> HIDE DEF rule, step
    <3>4. upTo[n + 1] = f[n + 1]
      BY <3>2, <3>3, <3>5
    <3> QED
      BY <3>1, <3>4
  <2>3. Same = Nat
    <3>1. Same \in SUBSET Nat
      OBVIOUS
    <3> HIDE DEF Same
    <3> QED
      BY <2>1, <2>2, <3>1, Induction
  <2> QED
    BY <2>3
<1>8. Len(blocks) \in Nat
  BY Positions
<1> QED
  BY <1>2, <1>3, <1>6, <1>7, <1>8

\* So do the words of a run of rows.
LEMMA WordsRowByRow ==
    ASSUME blocks \in Document, NEW m \in DOMAIN blocks, NEW n \in DOMAIN blocks, m <= n
    PROVE  \E f \in [Nat -> Seq(STRING)] :
              /\ f[0] = << >>
              /\ \A k \in Nat : f[k + 1] = IF m + k \in Body THEN f[k] \o Content(m + k) ELSE f[k]
              /\ Words(m, n) = f[n - m + 1]
<1>0. m \in Nat /\ n \in Nat /\ Body \subseteq DOMAIN blocks
  BY Positions DEF Body
<1> DEFINE T == Seq(STRING)
           step == [k \in Nat |-> [text \in T |->
                      IF m + k - 1 \in Body THEN text \o Content(m + k - 1) ELSE text]]
<1>1. step \in [Nat -> [T -> T]] /\ << >> \in T
  <2>1. ASSUME NEW k \in Nat, NEW text \in T
        PROVE  (IF m + k - 1 \in Body THEN text \o Content(m + k - 1) ELSE text) \in T
    <3>1. m + k - 1 \in Body => Content(m + k - 1) \in T
      BY <1>0, ContentIsText
    <3> QED
      BY <3>1, ConcatProperties
  <2> QED
    BY <2>1, EmptySeq
<1>1a. \E f : Iterates(f, T, << >>, step)
  <2> HIDE DEF step, T
  <2> QED
    BY <1>1, Recursion
<1>2. PICK f \in [Nat -> T] : f[0] = << >> /\ \A k \in Nat : f[k + 1] = step[k + 1][f[k]]
  BY <1>1a DEF Iterates
<1>3. \A k \in Nat : f[k + 1] = IF m + k \in Body THEN f[k] \o Content(m + k) ELSE f[k]
  <2> TAKE k \in Nat
  <2>3. m + (k + 1) - 1 = m + k
    BY <1>0
  <2>4. f[k] \in T
    BY <1>2
  <2>1. k + 1 \in Nat /\ f[k] \in T /\ m + (k + 1) - 1 = m + k
    BY <2>3, <2>4
  <2>2. step[k + 1][f[k]] = IF m + k \in Body THEN f[k] \o Content(m + k) ELSE f[k]
    BY <2>1
  <2> QED
    BY <1>2, <2>2
<1> DEFINE rule(g) == [k \in Nat |-> IF k = 0 THEN << >>
                         ELSE IF m + k - 1 \in Body
                         THEN g[k - 1] \o Coalesce(blocks[m + k - 1].content, << >>)
                         ELSE g[k - 1]]
           first == CHOOSE g : g = rule(g)
<1>4. f = rule(f)
  <2>1. ASSUME NEW k \in Nat PROVE f[k] = rule(f)[k]
    <3>1. CASE k = 0
      BY <1>2, <3>1
    <3>2. CASE k # 0
      <4>1. k - 1 \in Nat /\ (k - 1) + 1 = k /\ m + (k - 1) = m + k - 1
        BY <1>0, <3>2
      <4> QED
        BY <1>3, <3>2, <4>1 DEF Content
    <3> QED
      BY <3>1, <3>2
  <2>2. f = [k \in Nat |-> f[k]]
    BY <1>2
  <2> QED
    BY <2>1, <2>2
<1>5. first = rule(first)
  <2> HIDE DEF rule
  <2> QED
    BY <1>4
<1>6. Words(m, n) = first[n - m + 1]
  BY DEF Words
<1> HIDE DEF first
<1>7. \A k \in Nat : first[k] = f[k]
  <2> DEFINE Same == {k \in Nat : first[k] = f[k]}
  <2>1. 0 \in Same
    BY <1>2, <1>5
  <2>2. ASSUME NEW k \in Same PROVE k + 1 \in Same
    <3>1. k + 1 \in Nat /\ k + 1 # 0 /\ (k + 1) - 1 = k /\ m + (k + 1) - 1 = m + k
      BY <1>0
    <3>2. first[k + 1] = IF m + k \in Body THEN first[k] \o Content(m + k) ELSE first[k]
      BY <1>5, <3>1 DEF Content
    <3>3. k \in Nat /\ first[k] = f[k]
      OBVIOUS
    <3>5. f[k + 1] = IF m + k \in Body THEN f[k] \o Content(m + k) ELSE f[k]
      BY <1>3
    <3> HIDE DEF rule, step
    <3>4. first[k + 1] = f[k + 1]
      BY <3>2, <3>3, <3>5
    <3> QED
      BY <3>1, <3>4
  <2>3. Same = Nat
    <3>1. Same \in SUBSET Nat
      OBVIOUS
    <3> HIDE DEF Same
    <3> QED
      BY <2>1, <2>2, <3>1, Induction
  <2> QED
    BY <2>3
<1>8. n - m + 1 \in Nat
  BY <1>0
<1> QED
  BY <1>2, <1>3, <1>6, <1>7, <1>8

\* What holds a phrase still does with more text before and after it.
LEMMA HoldsWithin ==
    ASSUME NEW before \in Seq(STRING), NEW text \in Seq(STRING), NEW after \in Seq(STRING),
           NEW words \in Seq(STRING), Holds(text, words)
    PROVE  Holds((before \o text) \o after, words)
<1> DEFINE all == (before \o text) \o after
<1>1. /\ Len(before) \in Nat /\ Len(text) \in Nat /\ Len(after) \in Nat /\ Len(words) \in Nat
      /\ before \o text \in Seq(STRING)
      /\ Len(before \o text) = Len(before) + Len(text)
      /\ \A k \in 1 .. Len(before) + Len(text) :
           (before \o text)[k] = IF k <= Len(before) THEN before[k] ELSE text[k - Len(before)]
  BY ConcatProperties, LenProperties
<1>2. /\ all \in Seq(STRING)
      /\ Len(all) = Len(before \o text) + Len(after)
      /\ \A k \in 1 .. Len(before \o text) + Len(after) :
           all[k] = IF k <= Len(before \o text) THEN (before \o text)[k]
                    ELSE after[k - Len(before \o text)]
  BY <1>1, ConcatProperties
<1> HIDE DEF all
<1>3. Len(all) = Len(before) + Len(text) + Len(after)
  BY <1>1, <1>2
<1>4. \A k \in 1 .. Len(text) : all[Len(before) + k] = text[k]
  <2> TAKE k \in 1 .. Len(text)
  <2>1. /\ Len(before) + k \in 1 .. Len(before) + Len(text)
        /\ ~(Len(before) + k <= Len(before)) /\ (Len(before) + k) - Len(before) = k
    BY <1>1
  <2>2. (before \o text)[Len(before) + k] = text[k]
    BY <1>1, <2>1
  <2>3. Len(before) + k \in 1 .. Len(before \o text) + Len(after)
        /\ Len(before) + k <= Len(before \o text)
    BY <1>1, <2>1
  <2> QED
    BY <1>2, <2>2, <2>3
<1>5. PICK skipped \in 0 .. Len(text) - Len(words) :
         SubSeq(text, skipped + 1, skipped + Len(words)) = words
  BY DEF Holds
<1> DEFINE from == Len(before) + skipped
<1>6. /\ skipped \in Nat /\ skipped + Len(words) <= Len(text)
      /\ from \in 0 .. Len(all) - Len(words)
  BY <1>1, <1>3, <1>5
<1>7. \A k \in 1 .. Len(words) : text[skipped + k] = words[k]
  <2>1. \A k \in skipped + 1 .. skipped + Len(words) : text[k] \in STRING
    <3>1. skipped + 1 .. skipped + Len(words) \subseteq 1 .. Len(text)
      BY <1>1, <1>6
    <3> QED
      BY <3>1, ElementOfSeq
  <2> DEFINE lo == skipped + 1
             hi == skipped + Len(words)
  <2>2. lo \in Int /\ hi \in Int /\ \A k \in lo .. hi : text[k] \in STRING
    BY <1>1, <1>6, <2>1
  <2> HIDE DEF lo, hi
  <2>5. \A k \in 1 .. hi - lo + 1 : SubSeq(text, lo, hi)[k] = text[lo + k - 1]
    BY <2>2, SubSeqProperties
  <2>3. \A k \in 1 .. (skipped + Len(words)) - (skipped + 1) + 1 :
          SubSeq(text, skipped + 1, skipped + Len(words))[k] = text[(skipped + 1) + k - 1]
    BY <2>5 DEF lo, hi
  <2> TAKE k \in 1 .. Len(words)
  <2>4. k \in 1 .. (skipped + Len(words)) - (skipped + 1) + 1 /\ (skipped + 1) + k - 1 = skipped + k
    BY <1>1, <1>6
  <2> QED
    BY <1>5, <2>3, <2>4
<1>8. SubSeq(all, from + 1, from + Len(words)) = words
  <2> DEFINE part == SubSeq(all, from + 1, from + Len(words))
  <2>1. from \in Nat /\ from + 1 \in Int /\ from + Len(words) \in Int
        /\ from + Len(words) <= Len(all)
    BY <1>1, <1>2, <1>3, <1>6
  <2>2. \A k \in from + 1 .. from + Len(words) : all[k] \in STRING
    <3>1. from + 1 .. from + Len(words) \subseteq 1 .. Len(all)
      BY <1>1, <2>1
    <3> QED
      BY <1>2, <3>1, ElementOfSeq
  <2> HIDE DEF from
  <2>3. /\ part \in Seq(STRING)
        /\ Len(part) = IF from + 1 <= from + Len(words)
                       THEN (from + Len(words)) - (from + 1) + 1 ELSE 0
        /\ \A k \in 1 .. (from + Len(words)) - (from + 1) + 1 : part[k] = all[(from + 1) + k - 1]
    BY <2>1, <2>2, SubSeqProperties
  <2> HIDE DEF part
  <2>4. Len(part) = Len(words)
    BY <1>1, <2>1, <2>3
  <2>5. ASSUME NEW k \in 1 .. Len(words) PROVE part[k] = words[k]
    <3>1. /\ k \in 1 .. (from + Len(words)) - (from + 1) + 1
          /\ (from + 1) + k - 1 = from + k
          /\ skipped + k \in 1 .. Len(text)
          /\ from + k = Len(before) + (skipped + k)
      BY <1>1, <1>6, <2>1 DEF from
    <3>2. part[k] = all[from + k]
      BY <2>3, <3>1
    <3> QED
      BY <1>4, <1>7, <3>1, <3>2
  <2>6. part = words
    BY <2>3, <2>4, <2>5, SeqEqual
  <2> QED
    BY <2>6 DEF part
<1>9. all # Null /\ words # Null
  BY <1>2, NullAssumption
<1> QED
  BY <1>6, <1>8, <1>9 DEF Holds, all

\* Texts are joined in any grouping.
LEMMA Joins ==
    \A s, t, u \in Seq(STRING) :
        /\ (s \o t) \o u = s \o (t \o u)
        /\ s \o t \in Seq(STRING)
<1> TAKE s, t, u \in Seq(STRING)
<1>1. (s \o t) \o u = s \o (t \o u)
  BY ConcatAssociative
<1>2. s \o t \in Seq(STRING)
  BY ConcatProperties
<1> QED
  BY <1>1, <1>2

\* A run of rows between headings is in one section.
LEMMA OneSegment ==
    ASSUME NEW m \in Body, NEW n \in Body, m <= n, Headings \cap m + 1 .. n = {},
           blocks \in Document
    PROVE  \A k \in Body \cap m .. n : Segment(k) = Segment(m)
<1> TAKE k \in Body \cap m .. n
<1>1. Headings \subseteq Nat /\ m \in Nat /\ n \in Nat /\ k \in Nat
  BY Positions DEF Headings, Body
<1>2. {h \in Headings : h <= k} = {h \in Headings : h <= m}
  <2>1. m <= k /\ k <= n
    BY <1>1
  <2>2. \A h \in Headings : h <= k => h <= m
    <3> SUFFICES ASSUME NEW h \in Headings, h <= k, h > m PROVE FALSE
      BY <1>1
    <3>1. h \in m + 1 .. n
      BY <1>1, <2>1
    <3> QED
      BY <3>1
  <2>3. \A h \in Headings : h <= m => h <= k
    BY <1>1, <2>1
  <2> QED
    BY <2>2, <2>3
<1> QED
  BY <1>2 DEF Segment

\* Its words are part of the section's text.
LEMMA WordsInText ==
    ASSUME blocks \in Document, NEW m \in Body, NEW n \in Body, m <= n,
           Headings \cap m + 1 .. n = {}
    PROVE  \E before, after \in Seq(STRING) :
              /\ Words(m, n) \in Seq(STRING)
              /\ TextOf(Segment(m)) = (before \o Words(m, n)) \o after
<1> DEFINE rows == RowsOf(Segment(m))
<1>1. /\ Len(blocks) \in Nat /\ DOMAIN blocks = 1 .. Len(blocks)
      /\ m \in DOMAIN blocks /\ n \in DOMAIN blocks /\ rows \in SUBSET DOMAIN blocks
      /\ m \in 1 .. Len(blocks) /\ n \in m .. Len(blocks) /\ m \in Nat /\ n \in Nat
  <2>1. Len(blocks) \in Nat /\ DOMAIN blocks = 1 .. Len(blocks)
    BY Positions
  <2>2. m \in DOMAIN blocks /\ n \in DOMAIN blocks /\ rows \in SUBSET DOMAIN blocks
    BY DEF Body, RowsOf
  <2> HIDE DEF rows
  <2> QED
    BY <2>1, <2>2
<1>2. \A k \in m .. n : k \in rows <=> k \in Body
  BY OneSegment DEF RowsOf
<1> HIDE DEF rows
<1>0. /\ Len(blocks) \in Nat /\ m \in Nat \ {0} /\ n \in Nat
      /\ m <= n /\ n <= Len(blocks)
  BY <1>1
<1>3. PICK f \in [Nat -> Seq(STRING)] :
         /\ f[0] = << >>
         /\ \A k \in Nat : f[k + 1] = IF k + 1 \in rows THEN f[k] \o Content(k + 1) ELSE f[k]
         /\ Joined(rows, << >>) = f[Len(blocks)]
  BY <1>1, JoinedRowByRow
<1>4. PICK w \in [Nat -> Seq(STRING)] :
         /\ w[0] = << >>
         /\ \A k \in Nat : w[k + 1] = IF m + k \in Body THEN w[k] \o Content(m + k) ELSE w[k]
         /\ Words(m, n) = w[n - m + 1]
  BY <1>1, WordsRowByRow
<1> DEFINE head == f[m - 1]
<1>5. head \in Seq(STRING) /\ m - 1 \in Nat
  <2>1. m - 1 \in Nat
    BY <1>0
  <2> QED
    BY <1>3, <2>1
<1>6. \A k \in Nat : k <= n - m + 1 => f[m - 1 + k] = head \o w[k]
  <2> DEFINE Good == {k \in Nat : k <= n - m + 1 => f[m - 1 + k] = head \o w[k]}
  <2>1. 0 \in Good
    <3>1. m - 1 + 0 = m - 1
      BY <1>1
    <3> QED
      BY <1>4, <1>5, <3>1, ConcatEmptySeq
  <2>2. ASSUME NEW k \in Good PROVE k + 1 \in Good
    <3>0. k + 1 \in Nat
      OBVIOUS
    <3> SUFFICES ASSUME k + 1 <= n - m + 1 PROVE f[m - 1 + (k + 1)] = head \o w[k + 1]
      <4> HIDE DEF head
      <4> QED
        BY <3>0
    <3>1. /\ k \in Nat /\ k <= n - m + 1 /\ m + k \in m .. n
          /\ m - 1 + k \in Nat /\ (m - 1 + k) + 1 = m + k /\ m - 1 + (k + 1) = m + k
      BY <1>0
    <3>2. f[m - 1 + k] = head \o w[k]
      BY <3>1
    <3>3. f[m + k] = IF m + k \in Body THEN f[m - 1 + k] \o Content(m + k) ELSE f[m - 1 + k]
      BY <1>2, <1>3, <3>1
    <3>4. w[k + 1] = IF m + k \in Body THEN w[k] \o Content(m + k) ELSE w[k]
      BY <1>4, <3>1
    <3>5. CASE m + k \in Body
      <4>1. Content(m + k) \in Seq(STRING) /\ w[k] \in Seq(STRING)
        BY <1>4, <3>1, <3>5, ContentIsText DEF Body
      <4> HIDE DEF head
      <4>3. head \in Seq(STRING)
        BY <1>5
      <4>2. (head \o w[k]) \o Content(m + k) = head \o (w[k] \o Content(m + k))
        BY <4>1, <4>3, Joins
      <4> QED
        BY <3>1, <3>2, <3>3, <3>4, <3>5, <4>2
    <3>6. CASE m + k \notin Body
      BY <3>1, <3>2, <3>3, <3>4, <3>6
    <3> QED
      BY <3>5, <3>6
  <2>3. Good = Nat
    <3>1. Good \in SUBSET Nat
      OBVIOUS
    <3> HIDE DEF Good
    <3> QED
      BY <2>1, <2>2, <3>1, Induction
  <2> QED
    BY <2>3
<1>7. \A k \in Nat : \E after \in Seq(STRING) : f[n + k] = f[n] \o after
  <2> DEFINE Good == {k \in Nat : \E after \in Seq(STRING) : f[n + k] = f[n] \o after}
  <2>3. n \in Nat
    BY <1>1
  <2>0. n \in Nat /\ f[n] \in Seq(STRING)
    BY <1>3, <2>3
  <2>1. 0 \in Good
    <3>1. n + 0 = n /\ << >> \in Seq(STRING) /\ f[n] = f[n] \o << >>
      BY <2>0, EmptySeq, ConcatEmptySeq
    <3> QED
      BY <3>1
  <2>2. ASSUME NEW k \in Good PROVE k + 1 \in Good
    <3>1. PICK after \in Seq(STRING) : f[n + k] = f[n] \o after
      OBVIOUS
    <3>2. n + k \in Nat /\ (n + k) + 1 = n + (k + 1) /\ k + 1 \in Nat
      BY <2>0
    <3>3. f[n + (k + 1)] = IF n + (k + 1) \in rows THEN f[n + k] \o Content(n + (k + 1)) ELSE f[n + k]
      BY <1>3, <3>2
    <3>4. CASE n + (k + 1) \in rows
      <4> DEFINE more == Content(n + (k + 1))
      <4>1. more \in Seq(STRING)
        BY <1>1, <3>4, ContentIsText
      <4> HIDE DEF more
      <4> DEFINE before == f[n]
      <4>0. before \in Seq(STRING)
        BY <2>0
      <4> HIDE DEF before
      <4>1a. (before \o after) \o more = before \o (after \o more) /\ after \o more \in Seq(STRING)
        BY <3>1, <4>0, <4>1, Joins
      <4>2. (f[n] \o after) \o more = f[n] \o (after \o more) /\ after \o more \in Seq(STRING)
        BY <4>1a DEF before
      <4>3. f[n + (k + 1)] = f[n] \o (after \o more)
        BY <3>1, <3>3, <3>4, <4>2 DEF more
      <4> QED
        BY <3>2, <4>2, <4>3
    <3>5. CASE n + (k + 1) \notin rows
      BY <3>1, <3>2, <3>3, <3>5
    <3> QED
      BY <3>4, <3>5
  <2>4. Good = Nat
    <3>1. Good \in SUBSET Nat
      OBVIOUS
    <3> HIDE DEF Good
    <3> QED
      BY <2>1, <2>2, <3>1, Induction
  <2> QED
    BY <2>4
<1>8. Len(blocks) - n \in Nat /\ n + (Len(blocks) - n) = Len(blocks)
      /\ n - m + 1 \in Nat /\ m - 1 + (n - m + 1) = n
  BY <1>0
<1>9. PICK after \in Seq(STRING) : f[Len(blocks)] = f[n] \o after
  BY <1>7, <1>8
<1>10. f[n] = head \o Words(m, n) /\ Words(m, n) \in Seq(STRING)
  <2> DEFINE size == n - m + 1
  <2>1. size \in Nat /\ size <= size /\ m - 1 + size = n
    BY <1>8
  <2> HIDE DEF size
  <2>2. w[size] \in Seq(STRING) /\ Words(m, n) = w[size]
    BY <1>4, <2>1 DEF size
  <2>3. f[m - 1 + size] = head \o w[size]
    BY <1>6, <2>1 DEF size
  <2> QED
    BY <2>1, <2>2, <2>3
<1>11. TextOf(Segment(m)) = Joined(rows, << >>)
  BY DEF TextOf, rows
<1>12. TextOf(Segment(m)) = (head \o Words(m, n)) \o after
  BY <1>3, <1>9, <1>10, <1>11
<1> QED
  BY <1>5, <1>9, <1>10, <1>12

\* Every text holds the empty phrase.
LEMMA EmptyPhrase ==
    ASSUME NEW text \in Seq(STRING)
    PROVE  Holds(text, << >>)
<1>1. text # Null /\ << >> # Null /\ Len(text) \in Nat /\ Len(<< >>) = 0
  BY NullAssumption, EmptySeq, LenProperties
<1>2. SubSeq(text, 0 + 1, 0 + Len(<< >>)) = << >>
  BY <1>1, SubSeqEmpty
<1>3. 0 \in 0 .. Len(text) - Len(<< >>)
  BY <1>1
<1> QED
  BY <1>1, <1>2, <1>3 DEF Holds

\* For every document and phrase, doc_search_sections returns whole innermost
\* sections, the body for the empty phrase, and every section that has the
\* phrase somewhere in its words, whatever rows without words stand between.
THEOREM SearchFindsInnermostAlways == DocSpec => []SearchFindsInnermost
<1>1. ASSUME DocIInv  PROVE SearchFindsInnermost
  <2> SUFFICES ASSUME answer.macro = "doc_search_sections", ~answer.raised, answer.asked # Null
               PROVE  /\ answer.rows \subseteq Body
                      /\ answer.asked = << >> => answer.rows = Body
                      /\ \A n \in answer.rows, m \in Body :
                            Segment(m) = Segment(n) => m \in answer.rows
                      /\ \A m, n \in Body :
                            m <= n /\ Headings \cap m + 1 .. n = {}
                                /\ Holds(Words(m, n), answer.asked) =>
                                {m, n} \subseteq answer.rows
    BY DEF SearchFindsInnermost
  <2>1. /\ blocks \in Document /\ answer.asked \in Seq(STRING)
        /\ answer.rows = {n \in Body : Holds(TextOf(Segment(n)), answer.asked)}
    BY <1>1, PhraseAssumption DEF DocIInv, Search
  <2>2. answer.rows \subseteq Body
    BY <2>1
  <2>3. ASSUME answer.asked = << >>, NEW n \in Body PROVE n \in answer.rows
    <3>1. RowsOf(Segment(n)) \in SUBSET DOMAIN blocks
      BY DEF RowsOf, Body
    <3>2. TextOf(Segment(n)) \in Seq(STRING)
      <4>1. Len(blocks) \in Nat
        BY <2>1, Positions
      <4> DEFINE rows == RowsOf(Segment(n))
      <4>2. TextOf(Segment(n)) = Joined(rows, << >>) /\ rows \in SUBSET DOMAIN blocks
        BY <3>1 DEF TextOf
      <4> HIDE DEF rows
      <4>3. PICK f \in [Nat -> Seq(STRING)] : Joined(rows, << >>) = f[Len(blocks)]
        BY <2>1, <4>2, JoinedRowByRow
      <4> QED
        BY <4>1, <4>2, <4>3
    <3> QED
      BY <2>1, <2>3, <3>2, EmptyPhrase
  <2>4. ASSUME NEW n \in answer.rows, NEW m \in Body, Segment(m) = Segment(n)
        PROVE  m \in answer.rows
    BY <2>1, <2>4
  <2>5. ASSUME NEW m \in Body, NEW n \in Body, m <= n, Headings \cap m + 1 .. n = {},
               Holds(Words(m, n), answer.asked)
        PROVE  {m, n} \subseteq answer.rows
    <3>1. PICK before, after \in Seq(STRING) :
             /\ Words(m, n) \in Seq(STRING)
             /\ TextOf(Segment(m)) = (before \o Words(m, n)) \o after
      BY <2>1, <2>5, WordsInText
    <3>2. Holds(TextOf(Segment(m)), answer.asked)
      BY <2>1, <2>5, <3>1, HoldsWithin
    <3>3. Segment(n) = Segment(m)
      <4>1. n \in Body \cap m .. n
        <5>1. m \in Nat /\ n \in Nat
          BY <2>1, Positions DEF Body
        <5> QED
          BY <2>5, <5>1
      <4> QED
        BY <2>1, <2>5, <4>1, OneSegment
    <3> QED
      BY <2>1, <3>2, <3>3
  <2> QED
    BY <2>2, <2>3, <2>4, <2>5
<1> QED
  BY <1>1, DocIInvAlways, PTL
=============================================================================
