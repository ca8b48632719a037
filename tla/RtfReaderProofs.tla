-------------------------- MODULE RtfReaderProofs --------------------------
(* The RTF reader on every sequence of tokens, groups left open or closed  *)
(* too often included: which lists are open and above which items, and     *)
(* what formatting a text is reported with.                                *)
EXTENDS RtfPromise, DataLemmas, SequenceTheorems, TLAPS

-----------------------------------------------------------------------------
(* The list stack of the RTF, DOCX and ODT readers, for stacks of any      *)
(* depth: one list is open for each depth that a paragraph asks for.       *)

\* What stays open is a beginning of what was, and no deeper than wanted; a
\* list as deep as wanted stays only if it is of the type that is wanted.
LEMMA KeptIsABeginning ==
    ASSUME NEW open \in Seq(BOOLEAN), NEW wanted \in Seq(BOOLEAN)
    PROVE  LET kept == StillOpen(open, wanted)
           IN  /\ kept \in Seq(BOOLEAN)
               /\ Len(kept) <= Len(open) /\ Len(kept) <= Len(wanted)
               /\ \A n \in 1 .. Len(kept) : kept[n] = open[n]
               /\ Len(wanted) > 0 /\ Len(kept) = Len(wanted) /\ Len(open) = Len(wanted)
                    => open[Len(wanted)] = wanted[Len(wanted)]
<1> DEFINE depth == Len(wanted)
           differs == depth > 0 /\ Len(open) = depth /\ open[depth] # wanted[depth]
           size == IF differs THEN depth - 1 ELSE IF depth < Len(open) THEN depth ELSE Len(open)
<1>1. Len(open) \in Nat /\ depth \in Nat
  BY LenProperties
<1>2. size \in 0 .. Len(open) /\ size <= depth
  BY <1>1
<1>3. StillOpen(open, wanted) = SubSeq(open, 1, size)
  BY DEF StillOpen
<1>4. depth > 0 /\ size = depth /\ Len(open) = depth => open[depth] = wanted[depth]
  BY <1>1
<1> HIDE DEF size, depth
<1>5. /\ SubSeq(open, 1, size) \in Seq(BOOLEAN)
      /\ Len(SubSeq(open, 1, size)) = size
      /\ \A n \in 1 .. size : SubSeq(open, 1, size)[n] = open[n]
  <2>1. size \in Int /\ 1 \in Int /\ \A n \in 1 .. size : n \in 1 .. Len(open)
    BY <1>1, <1>2
  <2>2. \A n \in 1 .. size : open[n] \in BOOLEAN
    BY <2>1, ElementOfSeq
  <2>3. /\ SubSeq(open, 1, size) \in Seq(BOOLEAN)
        /\ Len(SubSeq(open, 1, size)) = IF 1 <= size THEN size - 1 + 1 ELSE 0
        /\ \A n \in 1 .. size - 1 + 1 : SubSeq(open, 1, size)[n] = open[1 + n - 1]
    BY <2>1, <2>2, SubSeqProperties
  <2> QED
    BY <1>1, <1>2, <2>3
<1> QED
  BY <1>1, <1>2, <1>3, <1>4, <1>5 DEF depth

\* What is opened behind them is the rest of what is wanted.
LEMMA TheRestIsOpened ==
    ASSUME NEW wanted \in Seq(BOOLEAN), NEW size \in 0 .. Len(wanted)
    PROVE  LET rest == SubSeq(wanted, size + 1, Len(wanted))
           IN  /\ rest \in Seq(BOOLEAN)
               /\ Len(rest) = Len(wanted) - size
               /\ \A n \in 1 .. Len(wanted) - size : rest[n] = wanted[size + n]
<1>1. Len(wanted) \in Nat /\ size \in Nat /\ size <= Len(wanted)
  BY LenProperties
<1>2. \A n \in size + 1 .. Len(wanted) : wanted[n] \in BOOLEAN
  BY <1>1, ElementOfSeq
<1>3. size + 1 \in Int /\ Len(wanted) \in Int
  BY <1>1
<1> DEFINE rest == SubSeq(wanted, size + 1, Len(wanted))
<1>4. /\ rest \in Seq(BOOLEAN)
      /\ Len(rest) = IF size + 1 <= Len(wanted) THEN Len(wanted) - (size + 1) + 1 ELSE 0
      /\ \A n \in 1 .. Len(wanted) - (size + 1) + 1 : rest[n] = wanted[size + 1 + n - 1]
  BY <1>2, <1>3, SubSeqProperties
<1> HIDE DEF rest
<1>5. Len(rest) = Len(wanted) - size
  <2>1. Len(rest) = IF size + 1 <= Len(wanted) THEN Len(wanted) - (size + 1) + 1 ELSE 0
    BY <1>4
  <2> QED
    BY <1>1, <2>1
<1>6. \A n \in 1 .. Len(wanted) - size :
          n \in 1 .. Len(wanted) - (size + 1) + 1 /\ size + 1 + n - 1 = size + n
  BY <1>1
<1> QED
  BY <1>4, <1>5, <1>6 DEF rest

\* Whatever was open, a paragraph in lists finds one list open for each of its
\* depths afterwards, and none outside lists (the stack that RtfParser, the
\* DOCX and the ODT reader keep).  A `list` row is emitted for each depth that
\* did not stay open, outermost first, and for no other: no depth is skipped
\* and none is opened twice.  The lists that are opened are of the types
\* wanted; so is the innermost one, unless it stayed open under deeper lists
\* that the paragraph closes.
THEOREM OneListPerDepth ==
    ASSUME NEW open \in Seq(BOOLEAN), NEW wanted \in Seq(BOOLEAN)
    PROVE  LET now == Opened(open, wanted)
               kept == Len(StillOpen(open, wanted))
               depth == Len(wanted)
           IN  /\ now \in Seq(BOOLEAN) /\ Len(now) = depth
               /\ kept \in 0 .. depth
               /\ \A n \in 1 .. kept : n \in 1 .. Len(open) /\ now[n] = open[n]
               /\ \A n \in kept + 1 .. depth : now[n] = wanted[n]
               /\ depth > 0 /\ Len(open) <= depth => now[depth] = wanted[depth]
               /\ NewDepths(open, wanted) \in Seq(kept + 1 .. depth)
               /\ \A n \in kept + 1 .. depth : NewDepths(open, wanted)[n - kept] = n
<1> DEFINE left == StillOpen(open, wanted)
           kept == Len(left)
           depth == Len(wanted)
           rest == SubSeq(wanted, kept + 1, depth)
           now == left \o rest
           added == [n \in 1 .. depth - kept |-> kept + n]
<1>1. /\ left \in Seq(BOOLEAN)
      /\ kept <= Len(open) /\ kept <= depth
      /\ \A n \in 1 .. kept : left[n] = open[n]
      /\ depth > 0 /\ kept = depth /\ Len(open) = depth => open[depth] = wanted[depth]
  BY KeptIsABeginning
<1>2. kept \in Nat /\ depth \in Nat /\ Len(open) \in Nat
  BY <1>1, LenProperties
<1>3. kept \in 0 .. depth
  BY <1>1, <1>2
<1>4. /\ rest \in Seq(BOOLEAN)
      /\ Len(rest) = depth - kept
      /\ \A n \in 1 .. depth - kept : rest[n] = wanted[kept + n]
  BY <1>3, TheRestIsOpened
<1>5. Opened(open, wanted) = now /\ NewDepths(open, wanted) = added
  BY DEF Opened, NewDepths
<1>6. /\ now \in Seq(BOOLEAN)
      /\ Len(now) = kept + Len(rest)
      /\ \A n \in 1 .. kept + Len(rest) :
             now[n] = IF n <= kept THEN left[n] ELSE rest[n - kept]
  BY <1>1, <1>4, ConcatProperties
<1> HIDE DEF left, rest, now, kept, depth
<1>7. Len(now) = depth
  BY <1>2, <1>4, <1>6
<1>8. \A n \in 1 .. kept : n \in 1 .. Len(open) /\ now[n] = open[n]
  <2>1. TAKE n \in 1 .. kept
  <2>2. /\ n \in 1 .. Len(open) /\ n <= kept
        /\ n \in 1 .. kept + (depth - kept)
    BY <1>1, <1>2
  <2>3. now[n] = left[n]
    BY <1>4, <1>6, <2>2
  <2> QED
    BY <1>1, <2>2, <2>3
<1>9. \A n \in kept + 1 .. depth : now[n] = wanted[n]
  <2>1. TAKE n \in kept + 1 .. depth
  <2>2. n - kept \in 1 .. depth - kept /\ kept + (n - kept) = n
        /\ n \in 1 .. kept + (depth - kept) /\ ~(n <= kept)
    BY <1>2, <1>3
  <2> QED
    BY <1>4, <1>6, <2>2
<1>10. ASSUME depth > 0, Len(open) <= depth  PROVE now[depth] = wanted[depth]
  <2>1. CASE kept < depth
    BY <1>2, <1>9, <2>1
  <2>2. CASE kept = depth
    BY <1>1, <1>2, <1>8, <1>10, <2>2
  <2> QED
    BY <1>1, <1>2, <2>1, <2>2
<1>11. added \in Seq(kept + 1 .. depth)
  <2>1. depth - kept \in Nat
    BY <1>2, <1>3
  <2>2. \A n \in 1 .. depth - kept : kept + n \in kept + 1 .. depth
    BY <1>2, <1>3
  <2> DEFINE m == depth - kept
             deeper == kept + 1 .. depth
  <2>3. added \in [1 .. m -> deeper]
    BY <2>1, <2>2
  <2> HIDE DEF m, deeper, added
  <2>4. m \in Nat
    BY <2>1 DEF m
  <2>5. added \in Seq(deeper)
    BY <2>3, <2>4
  <2> QED
    BY <2>5 DEF deeper
<1>12. \A n \in kept + 1 .. depth : added[n - kept] = n
  BY <1>2, <1>3
<1> QED
  BY <1>3, <1>5, <1>6, <1>7, <1>8, <1>9, <1>10, <1>11, <1>12 DEF now, left, kept, depth

-----------------------------------------------------------------------------
(* Sequences.                                                              *)

\* All but the last.
LEMMA FrontGives ==
    ASSUME NEW T, NEW s \in Seq(T), s # << >>
    PROVE  /\ Front(s) \in Seq(T)
           /\ Len(Front(s)) = Len(s) - 1
           /\ \A n \in 1 .. Len(s) - 1 : Front(s)[n] = s[n]
           /\ Len(s) \in 1 .. Len(s)
           /\ Last(s) = s[Len(s)] /\ Last(s) \in T
<1>1. Len(s) \in Nat /\ Len(s) >= 1
  BY EmptySeq, LenProperties
<1>2. Len(s) - 1 \in Int /\ \A i \in 1 .. Len(s) - 1 : s[i] \in T
  BY <1>1, ElementOfSeq
<1>3. /\ SubSeq(s, 1, Len(s) - 1) \in Seq(T)
      /\ Len(SubSeq(s, 1, Len(s) - 1)) = IF 1 <= Len(s) - 1 THEN (Len(s) - 1) - 1 + 1 ELSE 0
      /\ \A i \in 1 .. (Len(s) - 1) - 1 + 1 : SubSeq(s, 1, Len(s) - 1)[i] = s[1 + i - 1]
  BY <1>2, SubSeqProperties
<1>4. Len(s) \in 1 .. Len(s) /\ s[Len(s)] \in T
  BY <1>1, ElementOfSeq
<1>5. /\ Front(s) \in Seq(T)
      /\ Len(Front(s)) = Len(s) - 1
      /\ \A i \in 1 .. Len(s) - 1 : Front(s)[i] = s[i]
  <2>1. Front(s) = SubSeq(s, 1, Len(s) - 1)
    BY DEF Front
  <2>2. \A i \in 1 .. Len(s) - 1 : i \in 1 .. (Len(s) - 1) - 1 + 1 /\ 1 + i - 1 = i
    BY <1>1
  <2>3. Len(Front(s)) = Len(s) - 1
    <3>1. Len(Front(s)) = IF 1 <= Len(s) - 1 THEN (Len(s) - 1) - 1 + 1 ELSE 0
      BY <1>3, <2>1
    <3> DEFINE l == Len(s)
               f == Len(Front(s))
    <3>2. l \in Nat /\ l >= 1 /\ f = IF 1 <= l - 1 THEN (l - 1) - 1 + 1 ELSE 0
      BY <1>1, <3>1
    <3> HIDE DEF l, f
    <3>3. f = l - 1
      BY <3>2
    <3> QED
      BY <3>3 DEF l, f
  <2> QED
    BY <1>3, <2>1, <2>2, <2>3
<1> QED
  BY <1>4, <1>5 DEF Last

-----------------------------------------------------------------------------
(* What the reader's variables hold.                                       *)

\* The texts that the same formatting governs.
Formatted(fmt) == {p \in Positions : FormatAt(p) = fmt}

Key == MetaWord \cup {"generator"}

Group == [fmt : SUBSET Format, uc : Int, skip : BOOLEAN, style : BOOLEAN, in_info : BOOLEAN,
          meta_key : Key \cup {""}]

Style == [id : Int, name : Seq(Positions) \ {<< >>}]

Sheet == [styles : SUBSET Style, open : BOOLEAN, id : Int, name : Seq(Positions)]

Para == [style_id : Int, outline_level : Int, list_id : Int, list_level : Int]

Field == [key : Key, text : Seq(Positions)]

\* A run and an inline element are of the formatting that governs their text.
Run == {r \in [fmt : SUBSET Format, text : Seq(Positions)] : r.text \in Seq(Formatted(r.fmt))}

HeadingType == Int \cup {HeadingOf[t] : t \in STRING}

InlineName == {"bold", "italic", "underline", "strikethrough", "text"}

Inline == [type : InlineName, text : Seq(Positions)]

Scoped(inline) ==
    \E fmt \in SUBSET Format :
        inline.type = ElementType(fmt) /\ inline.text \in Seq(Formatted(fmt))

RowName == {"paragraph", "heading", "list", "list_item", "table", "image", "inlines"}

RowType ==
    [kind : {"block", "inline", "value"}, type : RowName \cup InlineName, level : Int,
     content : Seq(Positions), cells : Seq(Seq(Seq(Positions))), ordered : BOOLEAN,
     heading : HeadingType, inlines : Seq(Inline), key : Key \cup {""}]

BlockRow == {r \in RowType : r.kind = "block" /\ r.type \in RowName}

Block ==
    {r \in BlockRow :
        /\ r.type # "heading" => r.content \in Seq(Formatted({}))
        /\ \A n \in DOMAIN r.inlines : Scoped(r.inlines[n])}

BodyType ==
    [runs : Seq(Run), blocks : Seq(Block), open_ordered : Seq(BOOLEAN), in_table : BOOLEAN,
     row_is_header : BOOLEAN, row_cells : Seq(Seq(Positions)),
     table_headers : Seq(Seq(Positions)), table_rows : Seq(Seq(Seq(Positions)))]

RtfTypeOK ==
    /\ source \in Seq(Token)
    /\ pos \in 1 .. Len(source) + 2
    /\ fresh \in BOOLEAN /\ skip_chars \in Int
    /\ stack \in Seq(Group) /\ stack # << >>
    /\ sheet \in Sheet /\ para \in Para /\ meta \in SUBSET Field

-----------------------------------------------------------------------------
(* Texts.                                                                  *)

\* A function on an interval from 1 is a sequence.
LEMMA Places ==
    ASSUME NEW T, NEW n \in Nat, NEW f \in [1 .. n -> T]
    PROVE  f \in Seq(T) /\ Len(f) = n
  OBVIOUS

\* A trimmed text holds what the text held.
LEMMA TrimGives ==
    ASSUME NEW T, NEW text \in Seq(T)
    PROVE  Trim(text) \in Seq(T)
<1> DEFINE ink == {n \in DOMAIN text : ~Blank(text[n])}
<1>1. Len(text) \in Nat /\ DOMAIN text = 1 .. Len(text) /\ \A n \in 1 .. Len(text) : text[n] \in T
  BY LenProperties, ElementOfSeq
<1>2. CASE ink = {}
  BY <1>2, EmptySeq DEF Trim
<1>3. CASE ink # {}
  <2>1. ink \in SUBSET Nat /\ \A n \in ink : n <= Len(text)
    BY <1>1
  <2> HIDE DEF ink
  <2>2. Min(ink) \in ink /\ Max(ink) \in ink
    BY <1>1, <1>3, <2>1, SmallestOf, GreatestOf
  <2>3. Min(ink) \in 1 .. Len(text) /\ Max(ink) \in 1 .. Len(text)
    BY <1>1, <2>2 DEF ink
  <2> DEFINE a == Min(ink)
             b == Max(ink)
  <2>4. a \in Int /\ b \in Int /\ \A i \in a .. b : text[i] \in T
    BY <1>1, <2>3
  <2> HIDE DEF a, b
  <2>5. SubSeq(text, a, b) \in Seq(T)
    BY <2>4, SubSeqProperties
  <2> QED
    BY <1>3, <2>5 DEF Trim, ink, a, b
<1> QED
  BY <1>2, <1>3

\* The joined text of runs holds what the runs hold.
LEMMA TextsGive ==
    ASSUME NEW T, NEW R, NEW runs \in Seq(R), \A n \in 1 .. Len(runs) : runs[n].text \in Seq(T)
    PROVE  Texts(runs) \in Seq(T)
<1> DEFINE S == Seq(T)
           parts == [n \in DOMAIN runs |-> runs[n].text]
<1>1. Len(runs) \in Nat /\ DOMAIN runs = 1 .. Len(runs)
  BY LenProperties
<1>2. parts \in [1 .. Len(runs) -> S]
  BY <1>1
<1>3. parts \in Seq(S)
  <2> HIDE DEF S, parts
  <2> QED
    BY <1>1, <1>2, Places
<1>4. FlattenSeq(parts) \in Seq(T)
  <2> HIDE DEF parts
  <2> QED
    BY <1>3, Flattening
<1> QED
  BY <1>4 DEF Texts

\* Places of one formatting are places of the source.
LEMMA FormattedIsPlaces == \A fmt : Formatted(fmt) \subseteq Positions
  BY DEF Formatted

\* What a run is reported as.
LEMMA ElementTypes == \A fmt \in SUBSET Format : ElementType(fmt) \in InlineName
  BY DEF ElementType, InlineName

\* A run gives at most one inline, named for the formatting of its text.
LEMMA InlineOfRun ==
    ASSUME NEW run \in Run
    PROVE  /\ InlineOf(run) \in Seq(Inline)
           /\ \A n \in DOMAIN InlineOf(run) : Scoped(InlineOf(run)[n])
<1> DEFINE inline == [type |-> ElementType(run.fmt), text |-> run.text]
<1>1. /\ run.fmt \in SUBSET Format /\ run.text \in Seq(Positions)
      /\ run.text \in Seq(Formatted(run.fmt))
  BY DEF Run
<1>2. inline \in Inline
  BY <1>1, ElementTypes DEF Inline
<1>3. Scoped(inline)
  BY <1>1 DEF Scoped
<1> HIDE DEF inline
<1>4. CASE \A n \in DOMAIN run.text : Blank(run.text[n])
  <2>1. InlineOf(run) = << >>
    BY <1>4 DEF InlineOf
  <2> QED
    BY <2>1, EmptySeq
<1>5. CASE ~\A n \in DOMAIN run.text : Blank(run.text[n])
  <2>1. InlineOf(run) = <<inline>>
    BY <1>5 DEF InlineOf, inline
  <2>2. <<inline>> \in Seq(Inline) /\ \A n \in DOMAIN <<inline>> : <<inline>>[n] = inline
    BY <1>2
  <2> QED
    BY <1>3, <2>1, <2>2
<1> QED
  BY <1>4, <1>5

-----------------------------------------------------------------------------
(* Rows.                                                                   *)

\* A fresh row is a row.
LEMMA RowIs ==
    ASSUME NEW type \in RowName \cup InlineName, NEW level \in Int
    PROVE  Row(type, level) \in RowType
<1>1. /\ << >> \in Seq(Positions) /\ << >> \in Seq(Seq(Seq(Positions))) /\ << >> \in Seq(Inline)
      /\ 0 \in HeadingType /\ "" \in Key \cup {""}
  BY EmptySeq DEF HeadingType
<1> DEFINE P == Seq(Positions)
           C == Seq(Seq(Seq(Positions)))
           I == Seq(Inline)
           T == RowName \cup InlineName
           K == Key \cup {""}
<1>2. /\ << >> \in P /\ << >> \in C /\ << >> \in I /\ 0 \in HeadingType /\ type \in T /\ "" \in K
  BY <1>1
<1>3. /\ RowType = [kind : {"block", "inline", "value"}, type : T, level : Int, content : P,
                     cells : C, ordered : BOOLEAN, heading : HeadingType, inlines : I, key : K]
  BY DEF RowType
<1> HIDE DEF P, C, I, T, K
<1> QED
  BY <1>2, <1>3 DEF Row

\* A fresh row of a block's type is a block without text.
LEMMA RowGives ==
    ASSUME NEW type \in RowName, NEW level \in Int
    PROVE  /\ Row(type, level) \in Block
           /\ Row(type, level).type = type /\ Row(type, level).level = level
<1>1. Row(type, level) \in RowType
  BY RowIs
<1>2. Row(type, level) \in BlockRow
  BY <1>1 DEF Row, BlockRow
<1>3. Row(type, level).content = << >> /\ Row(type, level).inlines = << >>
  BY DEF Row
<1>4. << >> \in Seq(Formatted({})) /\ DOMAIN << >> = {}
  BY EmptySeq
<1>5. Row(type, level) \in Block
  BY <1>2, <1>3, <1>4 DEF Block
<1> QED
  BY <1>5 DEF Row

\* The row of a paragraph: an item just when it stands in a list.
LEMMA ParagraphRowGives ==
    ASSUME NEW runs \in Seq(Run), NEW heading \in HeadingType, NEW depth \in Nat
    PROVE  LET r == ParagraphRow(runs, heading, depth)
           IN  /\ r \in Block
               /\ r.type \in {"paragraph", "heading", "list_item"}
               /\ heading > 0 => r.type = "heading"
               /\ ~(heading > 0) /\ depth > 0 => r.type = "list_item" /\ r.level = ItemLevel(depth)
               /\ ~(heading > 0) /\ depth = 0 => r.type = "paragraph"
<1> DEFINE flat == heading > 0 \/ \A n \in DOMAIN runs : runs[n].fmt = {}
           row == IF heading > 0 THEN [Row("heading", 1) EXCEPT !.heading = heading]
                  ELSE IF depth > 0 THEN Row("list_item", ItemLevel(depth))
                  ELSE Row("paragraph", 1)
           inlines == FlattenSeq([n \in DOMAIN runs |-> InlineOf(runs[n])])
           content == Trim(Texts(runs))
<1>1. /\ Len(runs) \in Nat /\ DOMAIN runs = 1 .. Len(runs)
      /\ \A n \in 1 .. Len(runs) : runs[n] \in Run
  BY LenProperties, ElementOfSeq
<1>2. /\ row \in Block
      /\ heading > 0 => row.type = "heading"
      /\ ~(heading > 0) /\ depth > 0 => row.type = "list_item" /\ row.level = ItemLevel(depth)
      /\ ~(heading > 0) /\ depth = 0 => row.type = "paragraph"
  <2>1. CASE heading > 0
    <3>1. Row("heading", 1) \in Block /\ Row("heading", 1).type = "heading"
      BY RowGives DEF RowName
    <3>2. [Row("heading", 1) EXCEPT !.heading = heading] \in Block
      BY <3>1 DEF Block, BlockRow, RowType
    <3> QED
      BY <2>1, <3>1, <3>2 DEF Block, BlockRow, RowType
  <2>2. CASE ~(heading > 0) /\ depth > 0
    <3>1. ItemLevel(depth) \in Int
      BY DEF ItemLevel
    <3> QED
      BY <2>2, <3>1, RowGives DEF RowName
  <2>3. CASE ~(heading > 0) /\ ~(depth > 0)
    BY <2>3, RowGives DEF RowName
  <2> QED
    BY <2>1, <2>2, <2>3
<1>3. content \in Seq(Positions)
  <2>1. \A n \in 1 .. Len(runs) : runs[n].text \in Seq(Positions)
    BY <1>1 DEF Run
  <2> QED
    BY <2>1, TextsGive, TrimGives
<1>4. flat => heading > 0 \/ content \in Seq(Formatted({}))
  <2> SUFFICES ASSUME \A n \in DOMAIN runs : runs[n].fmt = {} PROVE content \in Seq(Formatted({}))
    OBVIOUS
  <2>1. \A n \in 1 .. Len(runs) : runs[n].text \in Seq(Formatted({}))
    BY <1>1 DEF Run
  <2> QED
    BY <2>1, TextsGive, TrimGives
<1>5. inlines \in Seq(Inline) /\ \A n \in DOMAIN inlines : Scoped(inlines[n])
  <2> DEFINE S == {i \in Inline : Scoped(i)}
             parts == [n \in DOMAIN runs |-> InlineOf(runs[n])]
  <2>1. ASSUME NEW n \in 1 .. Len(runs) PROVE InlineOf(runs[n]) \in Seq(S)
    <3> DEFINE s == InlineOf(runs[n])
    <3>1. s \in Seq(Inline) /\ \A k \in DOMAIN s : Scoped(s[k])
      BY <1>1, InlineOfRun
    <3> HIDE DEF s
    <3>2. Len(s) \in Nat /\ s \in [1 .. Len(s) -> Inline] /\ DOMAIN s = 1 .. Len(s)
      BY <3>1, LenProperties
    <3>3. s \in [1 .. Len(s) -> S]
      BY <3>1, <3>2
    <3> HIDE DEF S
    <3>4. s \in Seq(S)
      BY <3>2, <3>3, Places
    <3> QED
      BY <3>4 DEF s
  <2> DEFINE SS == Seq(S)
  <2>2. parts \in [1 .. Len(runs) -> SS]
    BY <1>1, <2>1
  <2>3. parts \in Seq(SS)
    <3> HIDE DEF SS, parts
    <3> QED
      BY <1>1, <2>2, Places
  <2>4. inlines \in SS
    <3> HIDE DEF S, parts
    <3>1. FlattenSeq(parts) \in Seq(S)
      BY <2>3, Flattening
    <3> QED
      BY <3>1 DEF parts
  <2> HIDE DEF inlines
  <2>5. Len(inlines) \in Nat /\ DOMAIN inlines = 1 .. Len(inlines)
        /\ \A n \in 1 .. Len(inlines) : inlines[n] \in S
    <3> HIDE DEF S
    <3> QED
      BY <2>4, LenProperties, ElementOfSeq
  <2>6. inlines \in [1 .. Len(inlines) -> Inline]
    <3>1. inlines \in [1 .. Len(inlines) -> S]
      <4> HIDE DEF S
      <4> QED
        BY <2>4, LenProperties
    <3> QED
      BY <2>5, <3>1
  <2>7. inlines \in Seq(Inline)
    BY <2>5, <2>6, Places
  <2> QED
    BY <2>5, <2>7
<1>6. ParagraphRow(runs, heading, depth) =
          IF flat THEN [row EXCEPT !.content = content] ELSE [row EXCEPT !.inlines = inlines]
  BY DEF ParagraphRow
<1> HIDE DEF row, inlines, content
<1>7. CASE flat
  <2>1. [row EXCEPT !.content = content] \in Block
    BY <1>2, <1>3, <1>4, <1>7 DEF Block, BlockRow, RowType
  <2>2. /\ [row EXCEPT !.content = content].type = row.type
        /\ [row EXCEPT !.content = content].level = row.level
    BY <1>2 DEF Block, BlockRow, RowType
  <2> QED
    BY <1>2, <1>6, <1>7, <2>1, <2>2
<1>8. CASE ~flat
  <2>1. [row EXCEPT !.inlines = inlines] \in Block
    BY <1>2, <1>5 DEF Block, BlockRow, RowType
  <2>2. /\ [row EXCEPT !.inlines = inlines].type = row.type
        /\ [row EXCEPT !.inlines = inlines].level = row.level
    BY <1>2 DEF Block, BlockRow, RowType
  <2> QED
    BY <1>2, <1>6, <1>8, <2>1, <2>2
<1> QED
  BY <1>7, <1>8


-----------------------------------------------------------------------------
(* Groups.                                                                 *)

\* The groups open at a token are the ones opened before it.
ScopesOK ==
    /\ scopes \in [1 .. Len(source) + 1 -> Seq(Nat)]
    /\ scopes[1] = << >>
    /\ \A n \in Positions : scopes[n + 1] = ScopeAfter(scopes[n], n)
    /\ \A n \in 1 .. Len(source) + 1 : \A i \in 1 .. Len(scopes[n]) : scopes[n][i] < n

\* A token leaves each open brace where it is, closes the last or opens its own.
LEMMA AfterAToken ==
    ASSUME NEW outer \in Seq(Nat), NEW n \in Nat
    PROVE  /\ ScopeAfter(outer, n) \in Seq(Nat)
           /\ \A i \in 1 .. Len(ScopeAfter(outer, n)) :
                  \/ i \in 1 .. Len(outer) /\ ScopeAfter(outer, n)[i] = outer[i]
                  \/ ScopeAfter(outer, n)[i] = n
<1>1. Len(outer) \in Nat
  BY LenProperties
<1>2. CASE source[n].word = "{"
  <2>1. ScopeAfter(outer, n) = Append(outer, n)
    BY <1>2 DEF ScopeAfter
  <2> QED
    BY <1>1, <2>1, AppendProperties
<1>3. CASE ~(source[n].word = "{") /\ source[n].word = "}" /\ outer # << >>
  <2>1. ScopeAfter(outer, n) = Front(outer)
    BY <1>3 DEF ScopeAfter
  <2>2. /\ Front(outer) \in Seq(Nat) /\ Len(Front(outer)) = Len(outer) - 1
        /\ \A i \in 1 .. Len(outer) - 1 : Front(outer)[i] = outer[i]
    BY <1>3, FrontGives
  <2> QED
    BY <1>1, <2>1, <2>2
<1>4. CASE ~(source[n].word = "{") /\ ~(source[n].word = "}" /\ outer # << >>)
  <2>1. ScopeAfter(outer, n) = outer
    BY <1>4 DEF ScopeAfter
  <2> QED
    BY <2>1
<1> QED
  BY <1>2, <1>3, <1>4

\* The scopes that the promise computes from the source follow token by token.
LEMMA ScopesFollow ==
    ASSUME source \in Seq(Token), scopes = OpenAt
    PROVE  ScopesOK
<1> DEFINE T == Seq(Nat)
           step == [n \in Nat |-> [s \in T |-> ScopeAfter(s, n)]]
           size == Len(source)
<1>0. size \in Nat /\ << >> \in T
  BY LenProperties, EmptySeq
<1>1. step \in [Nat -> [T -> T]]
  BY AfterAToken
<1>2. \E f : Iterates(f, T, << >>, step)
  <2> HIDE DEF step, T
  <2> QED
    BY <1>0, <1>1, Recursion
<1>3. PICK f \in [Nat -> T] : f[0] = << >> /\ \A n \in Nat : f[n + 1] = step[n + 1][f[n]]
  BY <1>2 DEF Iterates
<1>4. \A n \in Nat : f[n + 1] = ScopeAfter(f[n], n + 1)
  <2> TAKE n \in Nat
  <2>1. n + 1 \in Nat /\ f[n] \in T
    BY <1>3
  <2>2. step[n + 1][f[n]] = ScopeAfter(f[n], n + 1)
    BY <2>1
  <2> QED
    BY <1>3, <2>2
<1> HIDE DEF step
<1> DEFINE rule(h) == [n \in 1 .. size + 1 |-> IF n = 1 THEN << >> ELSE ScopeAfter(h[n - 1], n - 1)]
           f1 == [n \in 1 .. size + 1 |-> f[n - 1]]
<1>5. f1 = rule(f1)
  <2>1. ASSUME NEW n \in 1 .. size + 1 PROVE f1[n] = rule(f1)[n]
    <3>1. CASE n = 1
      BY <1>3, <3>1
    <3>2. CASE n # 1
      <4>1. n - 1 \in 1 .. size + 1 /\ (n - 1) - 1 \in Nat /\ ((n - 1) - 1) + 1 = n - 1
        BY <1>0, <3>2
      <4>2. f[n - 1] = ScopeAfter(f[(n - 1) - 1], n - 1)
        BY <1>4, <4>1
      <4> QED
        BY <3>2, <4>1, <4>2
    <3> QED
      BY <3>1, <3>2
  <2> QED
    BY <2>1
<1>6. OpenAt = rule(OpenAt)
  <2>1. OpenAt = CHOOSE h : h = rule(h)
    BY DEF OpenAt
  <2> HIDE DEF rule, f1
  <2> QED
    BY <1>5, <2>1
<1>7. scopes = [n \in 1 .. size + 1 |-> IF n = 1 THEN << >> ELSE ScopeAfter(scopes[n - 1], n - 1)]
  BY <1>6
<1>8. \A n \in Nat : n <= size =>
          scopes[n + 1] \in T /\ \A i \in 1 .. Len(scopes[n + 1]) : scopes[n + 1][i] < n + 1
  <2> DEFINE Good == {n \in Nat : n <= size =>
                 scopes[n + 1] \in T /\ \A i \in 1 .. Len(scopes[n + 1]) : scopes[n + 1][i] < n + 1}
  <2>1. 0 \in Good
    <3>1. scopes[0 + 1] = << >>
      BY <1>0, <1>7
    <3>2. scopes[0 + 1] \in T /\ 1 .. Len(scopes[0 + 1]) = {}
      BY <3>1, EmptySeq
    <3> QED
      BY <3>2
  <2>2. ASSUME NEW n \in Good PROVE n + 1 \in Good
    <3>1. n \in Nat /\ n + 1 \in Nat
      OBVIOUS
    <3> SUFFICES ASSUME n + 1 <= size
                 PROVE  /\ scopes[(n + 1) + 1] \in T
                        /\ \A i \in 1 .. Len(scopes[(n + 1) + 1]) : scopes[(n + 1) + 1][i] < (n + 1) + 1
      BY <3>1
    <3>2. /\ scopes[n + 1] \in T
          /\ \A i \in 1 .. Len(scopes[n + 1]) : scopes[n + 1][i] < n + 1
      BY <1>0, <3>1
    <3>3. scopes[(n + 1) + 1] = ScopeAfter(scopes[n + 1], n + 1)
      <4>1. (n + 1) + 1 \in 1 .. size + 1 /\ (n + 1) + 1 # 1 /\ ((n + 1) + 1) - 1 = n + 1
        BY <1>0, <3>1
      <4> QED
        BY <1>7, <4>1
    <3> DEFINE outer == scopes[n + 1]
               inner == scopes[(n + 1) + 1]
    <3>4. outer \in Seq(Nat) /\ inner = ScopeAfter(outer, n + 1)
      BY <3>2, <3>3
    <3>5. \A i \in 1 .. Len(outer) : outer[i] < n + 1
      BY <3>2
    <3> HIDE DEF outer, inner
    <3>6. /\ inner \in Seq(Nat)
          /\ \A i \in 1 .. Len(inner) :
                 \/ i \in 1 .. Len(outer) /\ inner[i] = outer[i]
                 \/ inner[i] = n + 1
      BY <3>1, <3>4, AfterAToken
    <3>7. \A i \in 1 .. Len(inner) : inner[i] < (n + 1) + 1
      <4> TAKE i \in 1 .. Len(inner)
      <4>1. CASE inner[i] = n + 1
        <5>1. n + 1 < (n + 1) + 1
          BY <3>1
        <5> QED
          BY <4>1, <5>1
      <4>2. CASE i \in 1 .. Len(outer) /\ inner[i] = outer[i]
        <5>1. outer[i] \in Nat /\ outer[i] < n + 1
          BY <3>4, <3>5, <4>2, ElementOfSeq
        <5>2. \A x, y \in Nat : x < y => x < y + 1
          OBVIOUS
        <5>3. outer[i] < (n + 1) + 1
          BY <3>1, <5>1, <5>2
        <5> QED
          BY <4>2, <5>3
      <4> QED
        BY <3>6, <4>1, <4>2
    <3> QED
      BY <3>6, <3>7 DEF inner
  <2>3. Good = Nat
    <3>1. Good \in SUBSET Nat
      OBVIOUS
    <3> HIDE DEF Good
    <3> QED
      BY <2>1, <2>2, <3>1, Induction
  <2> QED
    BY <2>3
<1>9. ASSUME NEW n \in 1 .. size + 1
      PROVE  scopes[n] \in T /\ \A i \in 1 .. Len(scopes[n]) : scopes[n][i] < n
  <2>1. n - 1 \in Nat /\ n - 1 <= size /\ (n - 1) + 1 = n
    BY <1>0
  <2> QED
    BY <1>8, <2>1
<1>10. scopes \in [1 .. size + 1 -> T]
  BY <1>7, <1>9
<1>11. scopes[1] = << >>
  BY <1>0, <1>7
<1>12. ASSUME NEW n \in 1 .. size PROVE scopes[n + 1] = ScopeAfter(scopes[n], n)
  <2>1. n + 1 \in 1 .. size + 1 /\ n + 1 # 1 /\ (n + 1) - 1 = n
    BY <1>0
  <2> QED
    BY <1>7, <2>1
<1> QED
  BY <1>9, <1>10, <1>11, <1>12 DEF ScopesOK, Positions

-----------------------------------------------------------------------------
(* Formatting.                                                             *)

\* The words before n that hold in the outer d groups of those open at n.
UnderDepth(n, d, words) ==
    {k \in 1 .. n - 1 : /\ source[k].word \in words
                        /\ Len(scopes[k]) <= d
                        /\ \A i \in 1 .. Len(scopes[k]) : scopes[k][i] = scopes[n][i]}

FormatWords(f) == {f, "plain"} \cup (IF f = "ul" THEN {"ulnone"} ELSE {})

Sets(f, set) == set # {} /\ source[Max(set)].word = f /\ source[Max(set)].param # 0

FormatUnder(n, d) == {f \in Format : Sets(f, UnderDepth(n, d, FormatWords(f)))}

OpensGroup(n) == source[n].word = "{"

FormattingWord == Format \cup {"plain", "ulnone"}

\* What is open before a token are braces before it.
LEMMA ScopeIs ==
    ASSUME ScopesOK, Len(source) \in Nat, NEW n \in 1 .. Len(source) + 1
    PROVE  /\ scopes[n] \in Seq(Nat) /\ Len(scopes[n]) \in Nat
           /\ \A i \in 1 .. Len(scopes[n]) : scopes[n][i] \in Nat /\ scopes[n][i] < n
<1>1. scopes[n] \in Seq(Nat)
  BY DEF ScopesOK
<1>2. Len(scopes[n]) \in Nat /\ \A i \in 1 .. Len(scopes[n]) : scopes[n][i] \in Nat
  BY <1>1, LenProperties, ElementOfSeq
<1>3. \A i \in 1 .. Len(scopes[n]) : scopes[n][i] < n
  BY DEF ScopesOK
<1> QED
  BY <1>1, <1>2, <1>3

\* The library's IsPrefix, element by element.
LEMMA PrefixIs ==
    ASSUME NEW s \in Seq(Nat), NEW t \in Seq(Nat)
    PROVE  IsPrefix(s, t) <=> Len(s) <= Len(t) /\ \A i \in 1 .. Len(s) : s[i] = t[i]
<1>1. Len(s) \in Nat /\ Len(t) \in Nat
  BY LenProperties
<1> SUFFICES ASSUME Len(s) <= Len(t)
             PROVE  SubSeq(s, 1, Len(s)) = SubSeq(t, 1, Len(s)) <=> \A i \in 1 .. Len(s) : s[i] = t[i]
  BY DEF IsPrefix
<1> DEFINE l == Len(s)
           a == SubSeq(s, 1, l)
           b == SubSeq(t, 1, l)
<1>2. l \in Int /\ \A i \in 1 .. l : s[i] \in Nat /\ t[i] \in Nat
  BY <1>1, ElementOfSeq
<1> HIDE DEF l
<1>3. /\ a \in Seq(Nat) /\ Len(a) = (IF 1 <= l THEN l - 1 + 1 ELSE 0)
      /\ \A i \in 1 .. l - 1 + 1 : a[i] = s[1 + i - 1]
  BY <1>2, SubSeqProperties
<1>4. /\ b \in Seq(Nat) /\ Len(b) = (IF 1 <= l THEN l - 1 + 1 ELSE 0)
      /\ \A i \in 1 .. l - 1 + 1 : b[i] = t[1 + i - 1]
  BY <1>2, SubSeqProperties
<1> HIDE DEF a, b
<1>5. /\ l \in Nat
      /\ \A i \in 1 .. l : i \in 1 .. l - 1 + 1 /\ 1 + i - 1 = i
  BY <1>1 DEF l
<1>6. Len(a) = l /\ Len(b) = l
  BY <1>3, <1>4, <1>5
<1>7. \A i \in 1 .. l : a[i] = s[i] /\ b[i] = t[i]
  BY <1>3, <1>4, <1>5
<1>8. a = b <=> \A i \in 1 .. l : a[i] = b[i]
  BY <1>3, <1>4, <1>6, SeqEqual
<1>9. a = b <=> \A i \in 1 .. l : s[i] = t[i]
  BY <1>7, <1>8
<1> QED
  BY <1>9 DEF a, b, l

\* What governs a token are the words of all the groups open at it.
LEMMA GoverningIsUnder ==
    ASSUME ScopesOK, Len(source) \in Nat, NEW n \in 1 .. Len(source) + 1, NEW words
    PROVE  Governing(n, words) = UnderDepth(n, Len(scopes[n]), words)
<1>1. ASSUME NEW k \in 1 .. n - 1
      PROVE  IsPrefix(scopes[k], scopes[n]) <=>
                 /\ Len(scopes[k]) <= Len(scopes[n])
                 /\ \A i \in 1 .. Len(scopes[k]) : scopes[k][i] = scopes[n][i]
  <2>1. k \in 1 .. Len(source) + 1
    OBVIOUS
  <2>2. scopes[k] \in Seq(Nat) /\ scopes[n] \in Seq(Nat)
    BY <2>1, ScopeIs
  <2> QED
    BY <2>2, PrefixIs
<1> QED
  BY <1>1 DEF Governing, UnderDepth

\* The formatting of a text is that of the group it stands in.
LEMMA FormatAtIsUnder ==
    ASSUME ScopesOK, Len(source) \in Nat, NEW n \in 1 .. Len(source) + 1
    PROVE  FormatAt(n) = FormatUnder(n, Len(scopes[n]))
<1>1. \A f : Governing(n, FormatWords(f)) = UnderDepth(n, Len(scopes[n]), FormatWords(f))
  BY GoverningIsUnder
<1>2. FormatAt(n) = {f \in Format : Sets(f, Governing(n, FormatWords(f)))}
  BY DEF FormatAt, FormatWords, Sets
<1> QED
  BY <1>1, <1>2 DEF FormatUnder

\* A token that sets nothing there leaves what holds in the outer groups.
LEMMA StillUnder ==
    ASSUME ScopesOK, Len(source) \in Nat, NEW n \in Positions, NEW d \in Nat, NEW words,
           d <= Len(scopes[n]), d <= Len(scopes[n + 1]),
           \A i \in 1 .. d : scopes[n + 1][i] = scopes[n][i],
           source[n].word \notin words \/ d < Len(scopes[n])
    PROVE  UnderDepth(n + 1, d, words) = UnderDepth(n, d, words)
<1>1. n \in Nat /\ (n + 1) - 1 = n /\ n \in 1 .. n
  BY DEF Positions
<1>2. ASSUME NEW k \in 1 .. n
      PROVE  Len(scopes[k]) \in Nat
  BY <1>2, ScopeIs DEF Positions
<1>3. n \notin UnderDepth(n + 1, d, words)
  <2>1. Len(scopes[n]) \in Nat
    BY <1>1, <1>2
  <2> QED
    BY <2>1 DEF UnderDepth
<1>4. ASSUME NEW k \in 1 .. n - 1
      PROVE  k \in UnderDepth(n + 1, d, words) <=> k \in UnderDepth(n, d, words)
  <2>1. k \in 1 .. n /\ k \in 1 .. (n + 1) - 1
    BY <1>1
  <2>2. Len(scopes[k]) \in Nat
    BY <1>2, <2>1
  <2>3. Len(scopes[k]) <= d => \A i \in 1 .. Len(scopes[k]) : scopes[n + 1][i] = scopes[n][i]
    BY <2>2
  <2> QED
    BY <2>1, <2>3 DEF UnderDepth
<1>5. /\ UnderDepth(n + 1, d, words) \subseteq 1 .. n
      /\ UnderDepth(n, d, words) \subseteq 1 .. n - 1
  BY <1>1 DEF UnderDepth
<1>6. ASSUME NEW k, k \in UnderDepth(n + 1, d, words) PROVE k \in UnderDepth(n, d, words)
  <2>1. k \in 1 .. n /\ k # n
    BY <1>3, <1>5, <1>6
  <2>2. k \in 1 .. n - 1
    BY <1>1, <2>1
  <2> QED
    BY <1>4, <1>6, <2>2
<1>7. ASSUME NEW k, k \in UnderDepth(n, d, words) PROVE k \in UnderDepth(n + 1, d, words)
  BY <1>4, <1>5, <1>7
<1> QED
  BY <1>6, <1>7

\* A token that sets no formatting, or sets it in a group further in, leaves the
\* formatting of the groups around it.
LEMMA StillFormatted ==
    ASSUME ScopesOK, Len(source) \in Nat, NEW n \in Positions, NEW d \in Nat,
           d <= Len(scopes[n]), d <= Len(scopes[n + 1]),
           \A i \in 1 .. d : scopes[n + 1][i] = scopes[n][i],
           source[n].word \notin FormattingWord \/ d < Len(scopes[n])
    PROVE  FormatUnder(n + 1, d) = FormatUnder(n, d)
<1>1. ASSUME NEW f \in Format
      PROVE  UnderDepth(n + 1, d, FormatWords(f)) = UnderDepth(n, d, FormatWords(f))
  <2>1. source[n].word \notin FormatWords(f) \/ d < Len(scopes[n])
    BY DEF FormattingWord, FormatWords
  <2> QED
    BY <2>1, StillUnder
<1> QED
  BY <1>1 DEF FormatUnder

\* A place of the source and the one behind it, as indices of scopes.
LEMMA Neighbours ==
    ASSUME NEW size \in Nat, NEW n \in 1 .. size
    PROVE  /\ n \in Nat /\ n \in 1 .. size + 1 /\ n + 1 \in 1 .. size + 1 /\ (n + 1) - 1 = n
           /\ \A k \in 1 .. n : k \in 1 .. size + 1
  OBVIOUS

\* A group starts with what holds around it: nothing has been set in it yet.
LEMMA GroupStartsAsItsParent ==
    ASSUME ScopesOK, Len(source) \in Nat, NEW n \in Positions, OpensGroup(n)
    PROVE  FormatUnder(n + 1, Len(scopes[n]) + 1) = FormatUnder(n, Len(scopes[n]))
<1> DEFINE d == Len(scopes[n])
<1>0. /\ n \in Nat /\ n \in 1 .. Len(source) + 1 /\ n + 1 \in 1 .. Len(source) + 1
      /\ (n + 1) - 1 = n
      /\ \A k \in 1 .. n : k \in 1 .. Len(source) + 1
  BY Neighbours DEF Positions
<1>1. scopes[n] \in Seq(Nat) /\ d \in Nat
  BY <1>0, ScopeIs
<1>2. scopes[n + 1] = Append(scopes[n], n)
  BY DEF ScopesOK, ScopeAfter, OpensGroup
<1>3. /\ Len(scopes[n + 1]) = d + 1
      /\ \A i \in 1 .. d : scopes[n + 1][i] = scopes[n][i]
      /\ scopes[n + 1][d + 1] = n
  <2> DEFINE s == scopes[n]
             t == scopes[n + 1]
  <2>1. s \in Seq(Nat) /\ t = Append(s, n) /\ n \in Nat
    BY <1>0, <1>1, <1>2
  <2> HIDE DEF s, t
  <2>2. /\ Len(t) = Len(s) + 1
        /\ \A i \in 1 .. Len(s) : t[i] = s[i]
        /\ t[Len(s) + 1] = n
    BY <2>1, AppendProperties
  <2> QED
    BY <2>2 DEF s, t
<1> HIDE DEF d
<1>4. ASSUME NEW words, source[n].word \notin words
      PROVE  UnderDepth(n + 1, d + 1, words) = UnderDepth(n + 1, d, words)
  <2>1. ASSUME NEW k \in UnderDepth(n + 1, d + 1, words) PROVE Len(scopes[k]) <= d
    <3>1. k \in 1 .. n /\ source[k].word \in words
      BY <1>0 DEF UnderDepth
    <3>2. k < n
      <4>1. k # n
        BY <1>4, <3>1
      <4> QED
        BY <1>0, <3>1, <4>1
    <3>3. Len(scopes[k]) \in Nat /\ \A i \in 1 .. Len(scopes[k]) : scopes[k][i] \in Nat /\ scopes[k][i] < k
      BY <1>0, <3>1, ScopeIs
    <3>4. Len(scopes[k]) <= d + 1 /\ \A i \in 1 .. Len(scopes[k]) : scopes[k][i] = scopes[n + 1][i]
      BY DEF UnderDepth
    <3>5. ASSUME Len(scopes[k]) = d + 1 PROVE FALSE
      <4>1. d + 1 \in 1 .. Len(scopes[k])
        BY <1>1, <3>5
      <4>2. scopes[k][d + 1] = n
        BY <1>3, <3>4, <4>1
      <4>3. n < k
        BY <3>3, <4>1, <4>2
      <4> QED
        BY <1>0, <3>1, <3>2, <4>3
    <3> QED
      BY <1>1, <3>3, <3>4, <3>5
  <2>2. ASSUME NEW k \in UnderDepth(n + 1, d, words) PROVE k \in UnderDepth(n + 1, d + 1, words)
    <3>1. k \in 1 .. n
      BY <1>0 DEF UnderDepth
    <3>2. Len(scopes[k]) \in Nat
      BY <1>0, <3>1, ScopeIs
    <3> QED
      BY <1>1, <3>2 DEF UnderDepth
  <2>3. ASSUME NEW k \in UnderDepth(n + 1, d + 1, words) PROVE k \in UnderDepth(n + 1, d, words)
    BY <2>1 DEF UnderDepth
  <2> QED
    BY <2>2, <2>3
<1>5. \A f \in Format : source[n].word \notin FormatWords(f)
  BY DEF Format, FormatWords, OpensGroup
<1>6. FormatUnder(n + 1, d + 1) = FormatUnder(n + 1, d)
  BY <1>4, <1>5 DEF FormatUnder
<1>7. FormatUnder(n + 1, d) = FormatUnder(n, d)
  <2>1. source[n].word \notin FormattingWord
    BY DEF FormattingWord, Format, OpensGroup
  <2>2. d <= Len(scopes[n]) /\ d <= Len(scopes[n + 1])
    <3>1. Len(scopes[n]) = d
      BY DEF d
    <3> QED
      BY <1>1, <1>3, <3>1
  <2> QED
    BY <1>1, <1>3, <2>1, <2>2, StillFormatted
<1> QED
  BY <1>6, <1>7 DEF d

\* A formatting word takes effect in the group it stands in.
LEMMA WordTakesEffect ==
    ASSUME ScopesOK, Len(source) \in Nat, NEW n \in Positions, source[n].word \in FormattingWord
    PROVE  LET w == source[n].word
               before == FormatUnder(n, Len(scopes[n]))
           IN  FormatUnder(n + 1, Len(scopes[n])) =
                   CASE w = "plain" -> {}
                     [] w = "ulnone" -> before \ {"ul"}
                     [] OTHER -> IF source[n].param # 0 THEN before \cup {w} ELSE before \ {w}
<1> DEFINE d == Len(scopes[n])
           w == source[n].word
           before(f) == UnderDepth(n, d, FormatWords(f))
           after(f) == UnderDepth(n + 1, d, FormatWords(f))
<1>0. /\ n \in Nat /\ n \in 1 .. Len(source) + 1 /\ (n + 1) - 1 = n
      /\ d \in Nat
  BY ScopeIs DEF Positions
<1>1. scopes[n + 1] = scopes[n]
  BY DEF ScopesOK, ScopeAfter, FormattingWord, Format
<1>2. ASSUME NEW f \in Format, w \notin FormatWords(f) PROVE after(f) = before(f)
  <2>1. d <= Len(scopes[n]) /\ d <= Len(scopes[n + 1])
    BY <1>0, <1>1
  <2> QED
    BY <1>0, <1>1, <1>2, <2>1, StillUnder
<1>3. ASSUME NEW f \in Format, w \in FormatWords(f)
      PROVE  Sets(f, after(f)) <=> w = f /\ source[n].param # 0
  <2>1. after(f) \in SUBSET Nat /\ \A k \in after(f) : k <= n
    BY <1>0 DEF UnderDepth
  <2>2. n \in after(f)
    BY <1>0, <1>1, <1>3 DEF UnderDepth
  <2> DEFINE S == after(f)
  <2> HIDE DEF S
  <2>3. S \in SUBSET Nat /\ S # {} /\ n \in S /\ \A k \in S : k <= n
    BY <2>1, <2>2 DEF S
  <2>4. Max(S) \in S /\ \A m \in S : m <= Max(S)
    BY <1>0, <2>3, GreatestOf
  <2>5. Max(S) = n
    <3>1. Max(S) \in Nat /\ Max(S) <= n /\ n <= Max(S)
      BY <2>3, <2>4
    <3> QED
      BY <1>0, <3>1
  <2> QED
    BY <2>3, <2>5 DEF Sets, S
<1> HIDE DEF before, after, d
<1>4. /\ FormatUnder(n, d) = {f \in Format : Sets(f, before(f))}
      /\ FormatUnder(n + 1, d) = {f \in Format : Sets(f, after(f))}
  BY DEF FormatUnder, before, after
<1>5. CASE w = "plain"
  <2>1. \A f \in Format : w \in FormatWords(f) /\ w # f
    BY <1>5 DEF FormatWords, Format
  <2> QED
    BY <1>3, <1>4, <1>5, <2>1 DEF d
<1>6. CASE w = "ulnone"
  <2>1. \A f \in Format : w \in FormatWords(f) <=> f = "ul"
    BY <1>6 DEF FormatWords, Format
  <2>2. w # "ul" /\ w # "plain"
    BY <1>6
  <2>3. \A f \in Format : Sets(f, after(f)) <=> f # "ul" /\ Sets(f, before(f))
    BY <1>2, <1>3, <2>1, <2>2
  <2> QED
    BY <1>4, <1>6, <2>2, <2>3 DEF d
<1>7. CASE w \in Format
  <2>1. \A f \in Format : w \in FormatWords(f) <=> f = w
    BY <1>7 DEF FormatWords, Format
  <2>2. w # "plain" /\ w # "ulnone"
    BY <1>7 DEF Format
  <2>3. \A f \in Format : Sets(f, after(f)) <=> IF f = w THEN source[n].param # 0 ELSE Sets(f, before(f))
    BY <1>2, <1>3, <2>1
  <2> QED
    BY <1>4, <1>7, <2>2, <2>3 DEF d
<1> QED
  BY <1>5, <1>6, <1>7 DEF FormattingWord

-----------------------------------------------------------------------------
(* Paragraphs, lists and tables.                                           *)

Interrupted(blocks) == \E n \in DOMAIN blocks : Interrupts(blocks[n])

\* A list of level `level` that goes on to block n.
ListOver(blocks, level, n) ==
    \E m \in DOMAIN blocks :
        /\ m < n /\ blocks[m].type = "list" /\ blocks[m].level = level
        /\ \A k \in m + 1 .. n : k \in DOMAIN blocks => blocks[k].level > level

\* As long as nothing has interrupted the lists, each open one goes on to what
\* comes next, and each item has one.
ListsOpen(blocks, open) ==
    \A d \in 1 .. Len(open) : ListOver(blocks, ListLevel(d), Len(blocks) + 1)

ItemsListed(blocks) ==
    \A n \in DOMAIN blocks :
        blocks[n].type = "list_item" => ListOver(blocks, blocks[n].level - 1, n)

ListsGoOn(b) ==
    \/ Interrupted(b.blocks)
    \/ ListsOpen(b.blocks, b.open_ordered) /\ ItemsListed(b.blocks)

\* What each step of the reader keeps of the body.
BodySound(b) == b \in BodyType /\ ListsGoOn(b)

\* The fields of a body, one by one.
LEMMA BodyFields ==
    ASSUME NEW b \in BodyType
    PROVE  /\ b.runs \in Seq(Run) /\ b.blocks \in Seq(Block) /\ b.open_ordered \in Seq(BOOLEAN)
           /\ b.in_table \in BOOLEAN /\ b.row_is_header \in BOOLEAN
           /\ b.row_cells \in Seq(Seq(Positions)) /\ b.table_headers \in Seq(Seq(Positions))
           /\ b.table_rows \in Seq(Seq(Seq(Positions)))
  BY DEF BodyType

\* The fields that say nothing of lists.
LEMMA OtherFields ==
    ASSUME NEW b \in BodyType, NEW c \in BodyType,
           c.blocks = b.blocks, c.open_ordered = b.open_ordered, ListsGoOn(b)
    PROVE  ListsGoOn(c)
  BY DEF ListsGoOn

\* The fields of a block: only a heading's text may be of several formattings.
LEMMA BlockIs ==
    ASSUME NEW block \in Block
    PROVE  /\ block.kind = "block" /\ block.type \in RowName /\ block.level \in Int
           /\ block.content \in Seq(Positions) /\ block.inlines \in Seq(Inline)
           /\ block.type # "heading" => block.content \in Seq(Formatted({}))
           /\ \A n \in DOMAIN block.inlines : Scoped(block.inlines[n])
  BY DEF Block, BlockRow, RowType

\* A picture or a table behind the blocks interrupts the lists.
LEMMA InterruptedGoesOn ==
    ASSUME NEW b \in BodyType, NEW block \in Block, Interrupts(block)
    PROVE  Interrupted(Append(b.blocks, block))
<1> DEFINE s == b.blocks
           t == Append(s, block)
<1>1. s \in Seq(Block)
  BY BodyFields
<1> HIDE DEF s
<1>2. /\ Len(s) \in Nat /\ t \in Seq(Block) /\ Len(t) = Len(s) + 1 /\ t[Len(s) + 1] = block
  BY <1>1, AppendProperties, LenProperties
<1>3. Len(s) + 1 \in DOMAIN t
  BY <1>2, LenProperties
<1> HIDE DEF t
<1>4. Interrupted(t)
  BY <1>2, <1>3 DEF Interrupted
<1> QED
  BY <1>4 DEF s, t

\* FlushTable emits a table, which interrupts the lists, or nothing.
LEMMA TableFlushed ==
    ASSUME NEW b, BodySound(b)
    PROVE  BodySound(FlushTable(b)) /\ FlushTable(b).runs = b.runs
<1>1. b \in BodyType /\ ListsGoOn(b)
  BY DEF BodySound
<1>2. CASE b.table_headers = << >> /\ b.table_rows = << >>
  <2> DEFINE c == [b EXCEPT !.in_table = FALSE]
  <2>1. FlushTable(b) = c
    BY <1>2 DEF FlushTable
  <2>2. c \in BodyType /\ c.blocks = b.blocks /\ c.open_ordered = b.open_ordered /\ c.runs = b.runs
    BY <1>1 DEF BodyType
  <2> QED
    BY <1>1, <2>1, <2>2, OtherFields DEF BodySound
<1>3. CASE ~(b.table_headers = << >> /\ b.table_rows = << >>)
  <2> DEFINE cells == <<b.table_headers>> \o b.table_rows
             table == [Row("table", 1) EXCEPT !.cells = cells]
             blocks == Append(b.blocks, table)
  <2>1. cells \in Seq(Seq(Seq(Positions)))
    <3> DEFINE T == Seq(Seq(Positions))
               h == b.table_headers
               r == b.table_rows
    <3>1. h \in T /\ r \in Seq(T)
      BY <1>1, BodyFields
    <3> HIDE DEF T, h, r
    <3>2. <<h>> \in Seq(T)
      BY <3>1
    <3>3. <<h>> \o r \in Seq(T)
      BY <3>1, <3>2, ConcatProperties
    <3> QED
      BY <3>3 DEF T, h, r
  <2>2. Row("table", 1) \in Block /\ Row("table", 1).type = "table"
    BY RowGives DEF RowName
  <2> HIDE DEF cells
  <2>3. table \in Block /\ Interrupts(table)
    BY <2>1, <2>2 DEF Block, BlockRow, RowType, Interrupts
  <2> HIDE DEF table
  <2>4. Interrupted(blocks)
    BY <1>1, <2>3, InterruptedGoesOn
  <2>5. blocks \in Seq(Block)
    <3>1. b.blocks \in Seq(Block)
      BY <1>1, BodyFields
    <3> QED
      BY <2>3, <3>1, AppendProperties
  <2> DEFINE c == [b EXCEPT !.blocks = blocks, !.table_headers = << >>, !.table_rows = << >>,
                            !.row_cells = << >>, !.in_table = FALSE]
  <2>6. FlushTable(b) = c
    BY <1>3 DEF FlushTable, cells, table
  <2> HIDE DEF blocks
  <2>7. << >> \in Seq(Seq(Positions)) /\ << >> \in Seq(Seq(Seq(Positions)))
    BY EmptySeq
  <2>8. c \in BodyType
    BY <1>1, <2>5, <2>7 DEF BodyType
  <2>9. c.blocks = blocks /\ c.runs = b.runs
    BY <1>1 DEF BodyType
  <2>10. ListsGoOn(c)
    BY <2>4, <2>9 DEF ListsGoOn
  <2> QED
    BY <2>6, <2>8, <2>9, <2>10 DEF BodySound
<1> QED
  BY <1>2, <1>3

\* The level of a heading comes from the outline level or from the style's name.
LEMMA HeadingIs ==
    ASSUME source \in Seq(Token), sheet \in Sheet, para \in Para
    PROVE  HeadingLevel \in HeadingType
<1>1. para.outline_level \in Int /\ sheet.styles \in SUBSET Style
  BY DEF Para, Sheet
<1>2. CASE para.outline_level \in 0 .. 8
  BY <1>1, <1>2 DEF HeadingLevel, HeadingType
<1>3. CASE para.outline_level \notin 0 .. 8
  <2> DEFINE named == {e \in sheet.styles : e.id = para.style_id}
             style == CHOOSE e \in named : TRUE
  <2>1. CASE named = {}
    <3>1. HeadingLevel = 0
      BY <1>3, <2>1 DEF HeadingLevel
    <3> QED
      BY <3>1 DEF HeadingType
  <2>2. CASE named # {}
    <3>1. style \in Style
      BY <1>1, <2>2
    <3> HIDE DEF style
    <3>2. style.name \in Seq(Positions) /\ style.name # << >>
      BY <3>1 DEF Style
    <3>3. Len(style.name) \in Nat /\ 1 \in 1 .. Len(style.name)
      BY <3>2, EmptySeq, LenProperties
    <3>4. style.name[1] \in Positions
      BY <3>2, <3>3, ElementOfSeq
    <3>5. source[style.name[1]] \in Token
      BY <3>4, ElementOfSeq DEF Positions
    <3>6. source[style.name[1]].text \in STRING
      BY <3>5 DEF Token
    <3>7. HeadingLevel = HeadingOf[source[style.name[1]].text]
      BY <1>3, <2>2 DEF HeadingLevel, style
    <3> QED
      BY <3>6, <3>7 DEF HeadingType
  <2> QED
    BY <2>1, <2>2
<1> QED
  BY <1>2, <1>3

\* The lists that a paragraph asks for: a heading asks for none.
LEMMA WantedIs ==
    ASSUME para \in Para, NEW heading
    PROVE  /\ Wanted(heading) \in Seq(BOOLEAN) /\ Len(Wanted(heading)) \in Nat
           /\ heading > 0 => Len(Wanted(heading)) = 0
<1> DEFINE depth == IF heading > 0 \/ para.list_id = 0 THEN 0 ELSE para.list_level + 1
           ordered == Ordered(para.list_id, para.list_level + 1)
           wanted == [n \in 1 .. depth |-> ordered]
           size == IF depth > 0 THEN depth ELSE 0
<1>1. Wanted(heading) = wanted
  BY DEF Wanted
<1>2. depth \in Int /\ (heading > 0 => depth = 0)
  BY DEF Para
<1>3. ordered \in BOOLEAN
  BY DEF Ordered
<1> HIDE DEF depth, ordered
<1>4. size \in Nat /\ 1 .. depth = 1 .. size /\ (heading > 0 => size = 0)
  BY <1>2
<1> HIDE DEF size
<1>5. wanted \in [1 .. size -> BOOLEAN]
  BY <1>3, <1>4
<1> HIDE DEF wanted
<1>6. wanted \in Seq(BOOLEAN) /\ Len(wanted) = size
  BY <1>4, <1>5, Places
<1> QED
  BY <1>1, <1>4, <1>6

\* The list rows that FlushParagraph emits: one for each depth that is not open,
\* outermost first.
LEMMA ListRowsAre ==
    ASSUME NEW open \in Seq(BOOLEAN), NEW wanted \in Seq(BOOLEAN)
    PROVE  LET kept == Len(StillOpen(open, wanted))
               depth == Len(wanted)
               list == ListRows(open, wanted)
           IN  /\ kept \in Nat /\ depth \in Nat /\ kept <= depth
               /\ list \in Seq(Block) /\ Len(list) = depth - kept
               /\ \A n \in 1 .. depth - kept :
                      list[n].type = "list" /\ list[n].level = ListLevel(kept + n)
<1> DEFINE kept == Len(StillOpen(open, wanted))
           depth == Len(wanted)
           opened == depth - kept
           depths == [n \in 1 .. opened |-> kept + n]
           row(n) == [Row("list", ListLevel(kept + n)) EXCEPT !.ordered = wanted[kept + n]]
           list == [n \in 1 .. opened |-> row(n)]
<1>1. kept \in 0 .. depth /\ depth \in Nat
  BY OneListPerDepth, LenProperties
<1>2. opened \in Nat /\ \A n \in 1 .. opened : kept + n \in 1 .. depth /\ kept + n \in Int
  BY <1>1
<1>3. ListRows(open, wanted) = list
  <2>1. NewDepths(open, wanted) = depths
    BY DEF NewDepths
  <2>2. DOMAIN depths = 1 .. opened /\ \A n \in 1 .. opened : depths[n] = kept + n
    OBVIOUS
  <2> HIDE DEF depths
  <2> QED
    BY <2>1, <2>2 DEF ListRows
<1>4. ASSUME NEW n \in 1 .. opened
      PROVE  row(n) \in Block /\ row(n).type = "list" /\ row(n).level = ListLevel(kept + n)
  <2> DEFINE l == ListLevel(kept + n)
             o == wanted[kept + n]
  <2>1. l \in Int /\ o \in BOOLEAN
    BY <1>2, ElementOfSeq DEF ListLevel
  <2> HIDE DEF l, o
  <2>2. Row("list", l) \in Block /\ Row("list", l).type = "list" /\ Row("list", l).level = l
    BY <2>1, RowGives DEF RowName
  <2>3. /\ [Row("list", l) EXCEPT !.ordered = o] \in Block
        /\ [Row("list", l) EXCEPT !.ordered = o].type = "list"
        /\ [Row("list", l) EXCEPT !.ordered = o].level = l
    BY <2>1, <2>2 DEF Block, BlockRow, RowType
  <2> QED
    BY <2>3 DEF l, o
<1> HIDE DEF opened, row
<1>5. list \in [1 .. opened -> Block]
  BY <1>4
<1>6. \A n \in 1 .. opened : list[n].type = "list" /\ list[n].level = ListLevel(kept + n)
  BY <1>4
<1> HIDE DEF list
<1>7. list \in Seq(Block) /\ Len(list) = opened
  BY <1>2, <1>5, Places
<1> QED
  BY <1>1, <1>3, <1>6, <1>7 DEF opened

\* Behind the blocks s stand the lists and the row of a paragraph.
Followed(s, list, row, t) ==
    /\ t \in Seq(Block) /\ Len(t) = (Len(s) + Len(list)) + 1
    /\ \A i \in 1 .. Len(s) : t[i] = s[i]
    /\ \A i \in 1 .. Len(list) : t[Len(s) + i] = list[i]
    /\ t[(Len(s) + Len(list)) + 1] = row

\* What FlushParagraph appends, block by block.
LEMMA ParagraphFollows ==
    ASSUME NEW s \in Seq(Block), NEW list \in Seq(Block), NEW row \in Block
    PROVE  Followed(s, list, row, s \o list \o <<row>>)
<1> DEFINE u == s \o list
           t == u \o <<row>>
<1>1. Len(s) \in Nat /\ Len(list) \in Nat
  BY LenProperties
<1>2. /\ u \in Seq(Block) /\ Len(u) = Len(s) + Len(list)
      /\ \A i \in 1 .. Len(s) + Len(list) : u[i] = IF i <= Len(s) THEN s[i] ELSE list[i - Len(s)]
  BY ConcatProperties
<1>3. <<row>> \in Seq(Block) /\ Len(<<row>>) = 1 /\ <<row>>[1] = row
  OBVIOUS
<1> HIDE DEF u
<1>4. /\ t \in Seq(Block) /\ Len(t) = Len(u) + 1
      /\ \A i \in 1 .. Len(u) + 1 : t[i] = IF i <= Len(u) THEN u[i] ELSE <<row>>[i - Len(u)]
  <2> DEFINE one == <<row>>
  <2>1. one \in Seq(Block) /\ Len(one) = 1
    BY <1>3
  <2> HIDE DEF one
  <2>2. /\ u \o one \in Seq(Block) /\ Len(u \o one) = Len(u) + 1
        /\ \A i \in 1 .. Len(u) + 1 : (u \o one)[i] = IF i <= Len(u) THEN u[i] ELSE one[i - Len(u)]
    <3>1. /\ u \o one \in Seq(Block) /\ Len(u \o one) = Len(u) + Len(one)
          /\ \A i \in 1 .. Len(u) + Len(one) :
                 (u \o one)[i] = IF i <= Len(u) THEN u[i] ELSE one[i - Len(u)]
      <4>1. u \in Seq(Block) /\ one \in Seq(Block)
        BY <1>2, <2>1
      <4> QED
        BY <4>1, ConcatProperties
    <3> QED
      BY <2>1, <3>1
  <2> QED
    BY <2>2 DEF one
<1> HIDE DEF t
<1>5. Len(t) = (Len(s) + Len(list)) + 1
  BY <1>2, <1>4
<1>6. \A i \in 1 .. Len(s) : t[i] = s[i]
  <2> TAKE i \in 1 .. Len(s)
  <2>1. i \in 1 .. Len(s) + Len(list) /\ i <= Len(s) /\ i \in 1 .. (Len(s) + Len(list)) + 1
        /\ i <= Len(s) + Len(list)
    BY <1>1
  <2> QED
    BY <1>2, <1>4, <2>1
<1>7. \A i \in 1 .. Len(list) : t[Len(s) + i] = list[i]
  <2> TAKE i \in 1 .. Len(list)
  <2> DEFINE j == Len(s) + i
  <2>1. j \in 1 .. Len(s) + Len(list) /\ ~(j <= Len(s)) /\ j \in 1 .. (Len(s) + Len(list)) + 1
        /\ j <= Len(s) + Len(list) /\ j - Len(s) = i
    BY <1>1
  <2> HIDE DEF j
  <2>2. u[j] = list[i] /\ t[j] = u[j]
    BY <1>2, <1>4, <2>1
  <2> QED
    BY <2>2 DEF j
<1>8. t[(Len(s) + Len(list)) + 1] = row
  <2> DEFINE j == Len(u) + 1
  <2>1. j \in 1 .. Len(u) + 1 /\ ~(j <= Len(u)) /\ j - Len(u) = 1
    BY <1>1, <1>2
  <2>2. t[j] = <<row>>[1]
    BY <1>4, <2>1
  <2> QED
    BY <1>2, <1>3, <2>2
<1>9. Followed(s, list, row, t)
  BY <1>4, <1>5, <1>6, <1>7, <1>8 DEF Followed
<1> QED
  BY <1>9 DEF t, u

\* The lists open before a paragraph that stay open, and the ones opened for
\* it, go on behind it; and if it is an item, one of them is its list.
LEMMA ListsGoOnBehind ==
    ASSUME NEW s \in Seq(Block), NEW open \in Seq(BOOLEAN), NEW wanted \in Seq(BOOLEAN),
           NEW row \in Block, NEW t, Followed(s, ListRows(open, wanted), row, t),
           ListsOpen(s, open), ItemsListed(s),
           Len(wanted) > 0 => row.type = "list_item" /\ row.level = ItemLevel(Len(wanted)),
           Len(wanted) = 0 => row.type # "list_item"
    PROVE  ListsOpen(t, Opened(open, wanted)) /\ ItemsListed(t)
<1> DEFINE kept == Len(StillOpen(open, wanted))
           depth == Len(wanted)
           list == ListRows(open, wanted)
           size == Len(s)
           last == (size + (depth - kept)) + 1
<1>1. /\ kept \in Nat /\ depth \in Nat /\ kept <= depth
      /\ Len(list) = depth - kept
      /\ \A n \in 1 .. depth - kept : list[n].type = "list" /\ list[n].level = ListLevel(kept + n)
  BY ListRowsAre
<1>2. size \in Nat /\ DOMAIN s = 1 .. size
  BY LenProperties
<1>3. /\ t \in Seq(Block) /\ Len(t) = last
      /\ \A i \in 1 .. size : t[i] = s[i]
      /\ \A i \in 1 .. depth - kept : t[size + i] = list[i]
      /\ t[last] = row
  BY <1>1 DEF Followed
<1>4. DOMAIN t = 1 .. last /\ last \in Nat
  BY <1>1, <1>2, <1>3, LenProperties
<1>5. Len(Opened(open, wanted)) = depth /\ \A d \in 1 .. kept : d \in 1 .. Len(open)
  BY OneListPerDepth
<1> HIDE DEF kept, depth, list, size
<1>6. \A k \in size + 1 .. last : t[k].level >= ItemLevel(kept) \/ depth = 0
  <2> TAKE k \in size + 1 .. last
  <2>1. CASE k = last
    <3>1. depth > 0 => t[k].level = 2 * depth
      BY <1>3, <2>1 DEF ItemLevel, depth
    <3>2. 2 * depth >= 2 * kept
      BY <1>1
    <3> QED
      BY <1>1, <3>1, <3>2 DEF ItemLevel
  <2>2. CASE k # last
    <3> DEFINE i == k - size
    <3>1. i \in 1 .. depth - kept /\ k = size + i /\ i \in Nat
      BY <1>1, <1>2, <2>2
    <3>2. t[k] = list[i] /\ list[i].level = 2 * (kept + i) - 1
      BY <1>1, <1>3, <3>1 DEF ListLevel
    <3>3. 2 * (kept + i) - 1 >= 2 * kept
      BY <1>1, <3>1
    <3> QED
      BY <3>2, <3>3 DEF ItemLevel
  <2> QED
    BY <2>1, <2>2
<1>7. ASSUME NEW d \in 1 .. depth PROVE ListOver(t, ListLevel(d), last)
  <2>0. d \in Nat /\ depth # 0 /\ ListLevel(d) = 2 * d - 1
    BY <1>1 DEF ListLevel
  <2>1. CASE d <= kept
    <3>1. ListOver(s, ListLevel(d), size + 1)
      BY <1>1, <1>5, <2>0, <2>1 DEF ListsOpen, size
    <3>2. PICK m \in DOMAIN s :
              /\ m < size + 1 /\ s[m].type = "list" /\ s[m].level = ListLevel(d)
              /\ \A k \in m + 1 .. size + 1 : k \in DOMAIN s => s[k].level > ListLevel(d)
      BY <3>1 DEF ListOver
    <3>3. m \in 1 .. size /\ m \in 1 .. last /\ m < last
      BY <1>1, <1>2, <3>2
    <3>4. t[m].type = "list" /\ t[m].level = ListLevel(d)
      BY <1>3, <3>2, <3>3
    <3>5. ASSUME NEW k \in m + 1 .. last PROVE t[k].level > ListLevel(d)
      <4>1. CASE k <= size
        <5>1. k \in m + 1 .. size + 1 /\ k \in 1 .. size
          BY <1>2, <3>3, <4>1
        <5> QED
          BY <1>2, <1>3, <3>2, <5>1
      <4>2. CASE ~(k <= size)
        <5>1. k \in size + 1 .. last
          BY <1>2, <1>4, <3>3, <4>2
        <5>2. t[k].level >= ItemLevel(kept)
          BY <1>6, <2>0, <5>1
        <5>3. t[k].level \in Int
          <6>1. k \in 1 .. Len(t)
            BY <1>2, <1>3, <1>4, <5>1
          <6>2. t[k] \in Block
            BY <1>3, <6>1, ElementOfSeq
          <6> QED
            BY <6>2, BlockIs
        <5>4. ItemLevel(kept) > ListLevel(d) /\ ItemLevel(kept) \in Int /\ ListLevel(d) \in Int
          BY <1>1, <2>0, <2>1 DEF ListLevel, ItemLevel
        <5> QED
          BY <5>2, <5>3, <5>4
      <4> QED
        BY <4>1, <4>2
    <3> QED
      BY <1>4, <3>3, <3>4, <3>5 DEF ListOver
  <2>2. CASE ~(d <= kept)
    <3> DEFINE i == d - kept
               m == size + i
    <3>0. i \in 1 .. depth - kept /\ kept + i = d
      BY <1>1, <2>0, <2>2
    <3>0a. \A a, e \in Nat : \A j \in 1 .. e : a + j \in 1 .. (a + e) + 1 /\ a + j < (a + e) + 1
      OBVIOUS
    <3>0b. depth - kept \in Nat
      BY <1>1
    <3>1. i \in 1 .. depth - kept /\ kept + i = d /\ m \in 1 .. last /\ m < last
      BY <1>2, <3>0, <3>0a, <3>0b
    <3>2. t[m].type = "list" /\ t[m].level = ListLevel(d)
      BY <1>1, <1>3, <3>1
    <3>3. ASSUME NEW k \in m + 1 .. last PROVE t[k].level > ListLevel(d)
      <4>1. CASE k = last
        <5>1. t[k].level = 2 * depth
          BY <1>1, <1>3, <2>0, <4>1 DEF ItemLevel, depth
        <5> QED
          BY <1>1, <2>0, <5>1
      <4>2. CASE k # last
        <5> DEFINE j == k - size
        <5>1. j \in 1 .. depth - kept /\ k = size + j /\ j > i /\ j \in Nat
          BY <1>1, <1>2, <3>1, <4>2
        <5>2. t[k].level = 2 * (kept + j) - 1
          BY <1>1, <1>3, <5>1 DEF ListLevel
        <5>3. 2 * (kept + j) - 1 > 2 * d - 1
          BY <1>1, <3>1, <5>1
        <5> QED
          BY <2>0, <5>2, <5>3
      <4> QED
        BY <4>1, <4>2
    <3> HIDE DEF m
    <3> QED
      BY <1>4, <3>1, <3>2, <3>3 DEF ListOver
  <2> QED
    BY <2>1, <2>2
<1>8. ASSUME NEW d \in 1 .. depth PROVE ListOver(t, ListLevel(d), last + 1)
  <2>1. PICK m \in DOMAIN t :
            /\ m < last /\ t[m].type = "list" /\ t[m].level = ListLevel(d)
            /\ \A k \in m + 1 .. last : k \in DOMAIN t => t[k].level > ListLevel(d)
    BY <1>7 DEF ListOver
  <2>2. \A k \in m + 1 .. last + 1 : k \in DOMAIN t => k \in m + 1 .. last
    BY <1>4
  <2>3. m < last + 1
    BY <1>4, <2>1
  <2> QED
    BY <2>1, <2>2, <2>3 DEF ListOver
<1>9. ListsOpen(t, Opened(open, wanted))
  <2>1. Len(t) + 1 = last + 1 /\ 1 .. Len(Opened(open, wanted)) = 1 .. depth
    BY <1>3, <1>5
  <2> HIDE DEF last
  <2> QED
    BY <1>8, <2>1 DEF ListsOpen
<1>10. ItemsListed(t)
  <2> SUFFICES ASSUME NEW n \in DOMAIN t, t[n].type = "list_item"
               PROVE  ListOver(t, t[n].level - 1, n)
    BY DEF ItemsListed
  <2>1. n \in 1 .. last
    BY <1>4
  <2>2. CASE n <= size
    <3>1. n \in DOMAIN s /\ t[n] = s[n]
      BY <1>2, <1>3, <2>1, <2>2
    <3>2. ListOver(s, t[n].level - 1, n)
      BY <3>1 DEF ItemsListed
    <3>3. PICK m \in DOMAIN s :
              /\ m < n /\ s[m].type = "list" /\ s[m].level = t[n].level - 1
              /\ \A k \in m + 1 .. n : k \in DOMAIN s => s[k].level > t[n].level - 1
      BY <3>2 DEF ListOver
    <3>4. m \in 1 .. size /\ m \in 1 .. last
      BY <1>1, <1>2, <3>3
    <3>5. t[m] = s[m]
      BY <1>3, <3>4
    <3>6. \A k \in m + 1 .. n : k \in 1 .. size
      BY <1>2, <2>1, <2>2, <3>4
    <3>7. \A k \in m + 1 .. n : t[k].level > t[n].level - 1
      BY <1>2, <1>3, <3>3, <3>6
    <3> QED
      BY <1>4, <3>3, <3>4, <3>5, <3>7 DEF ListOver
  <2>3. CASE ~(n <= size) /\ n # last
    <3> DEFINE i == n - size
    <3>1. i \in 1 .. depth - kept /\ n = size + i
      BY <1>1, <1>2, <2>1, <2>3
    <3>2. t[n].type = "list"
      BY <1>1, <1>3, <3>1
    <3> QED
      BY <3>2
  <2>4. CASE n = last
    <3>1. depth > 0 /\ t[n].level = ItemLevel(depth)
      BY <1>1, <1>3, <2>4 DEF depth
    <3>2. depth \in 1 .. depth /\ t[n].level - 1 = ListLevel(depth)
      BY <1>1, <3>1 DEF ItemLevel, ListLevel
    <3> QED
      BY <1>7, <2>4, <3>2
  <2> QED
    BY <2>2, <2>3, <2>4
<1> QED
  BY <1>9, <1>10

\* What has interrupted the lists stays among the blocks.
LEMMA StillInterrupted ==
    ASSUME NEW s \in Seq(Block), NEW list \in Seq(Block), NEW row, NEW t,
           Followed(s, list, row, t), Interrupted(s)
    PROVE  Interrupted(t)
<1>1. Len(s) \in Nat /\ Len(list) \in Nat /\ DOMAIN s = 1 .. Len(s)
  BY LenProperties
<1>2. PICK n \in DOMAIN s : Interrupts(s[n])
  BY DEF Interrupted
<1>3. t[n] = s[n] /\ n \in 1 .. (Len(s) + Len(list)) + 1
  BY <1>1, <1>2 DEF Followed
<1>4. DOMAIN t = 1 .. (Len(s) + Len(list)) + 1
  BY LenProperties DEF Followed
<1> QED
  BY <1>2, <1>3, <1>4 DEF Interrupted

\* FlushParagraph keeps every open list going on to what comes next, and gives an
\* item the list that it opens or finds open.
LEMMA ParagraphFlushed ==
    ASSUME source \in Seq(Token), sheet \in Sheet, para \in Para, NEW before, BodySound(before)
    PROVE  BodySound(FlushParagraph(before))
<1> DEFINE b == IF before.in_table THEN before ELSE FlushTable(before)
           heading == HeadingLevel
           wanted == Wanted(heading)
           list == ListRows(b.open_ordered, wanted)
           row == ParagraphRow(b.runs, heading, Len(wanted))
           blocks == b.blocks \o list \o <<row>>
           open == Opened(b.open_ordered, wanted)
<1>1. BodySound(b)
  BY TableFlushed
<1>2. heading \in HeadingType
  BY HeadingIs
<1>3. wanted \in Seq(BOOLEAN) /\ Len(wanted) \in Nat /\ (heading > 0 => Len(wanted) = 0)
  BY WantedIs
<1>4. FlushParagraph(before) =
          IF Trim(Texts(b.runs)) = << >> THEN [b EXCEPT !.runs = << >>]
          ELSE [b EXCEPT !.blocks = blocks, !.open_ordered = open, !.runs = << >>]
  BY DEF FlushParagraph
<1> HIDE DEF b, heading, wanted
<1>5. /\ b \in BodyType /\ ListsGoOn(b)
      /\ b.runs \in Seq(Run) /\ b.blocks \in Seq(Block) /\ b.open_ordered \in Seq(BOOLEAN)
  BY <1>1, BodyFields DEF BodySound
<1>6. << >> \in Seq(Run)
  BY EmptySeq
<1>7. CASE Trim(Texts(b.runs)) = << >>
  <2> DEFINE c == [b EXCEPT !.runs = << >>]
  <2>1. FlushParagraph(before) = c
    BY <1>4, <1>7
  <2>2. c \in BodyType /\ c.blocks = b.blocks /\ c.open_ordered = b.open_ordered
    BY <1>5, <1>6 DEF BodyType
  <2> QED
    BY <1>5, <2>1, <2>2, OtherFields DEF BodySound
<1>8. CASE Trim(Texts(b.runs)) # << >>
  <2>1. /\ row \in Block
        /\ ~(heading > 0) /\ Len(wanted) > 0 => row.type = "list_item" /\ row.level = ItemLevel(Len(wanted))
        /\ row.type \in {"paragraph", "heading", "list_item"}
        /\ heading > 0 => row.type = "heading"
        /\ ~(heading > 0) /\ Len(wanted) = 0 => row.type = "paragraph"
    BY <1>2, <1>3, <1>5, ParagraphRowGives
  <2>2. list \in Seq(Block)
    BY <1>3, <1>5, ListRowsAre
  <2>3. open \in Seq(BOOLEAN)
    BY <1>3, <1>5, OneListPerDepth
  <2> HIDE DEF row
  <2>4. Followed(b.blocks, list, row, blocks)
    <3> HIDE DEF list
    <3> QED
      BY <1>5, <2>1, <2>2, ParagraphFollows
  <2> HIDE DEF blocks, open
  <2> DEFINE c == [b EXCEPT !.blocks = blocks, !.open_ordered = open, !.runs = << >>]
  <2>5. FlushParagraph(before) = c
    BY <1>4, <1>8
  <2>6. blocks \in Seq(Block)
    BY <2>4 DEF Followed
  <2>7. c \in BodyType /\ c.blocks = blocks /\ c.open_ordered = open
    BY <1>5, <1>6, <2>3, <2>6 DEF BodyType
  <2>8. CASE Interrupted(b.blocks)
    <3>1. Interrupted(blocks)
      <4> HIDE DEF list
      <4> QED
        BY <1>5, <2>2, <2>4, <2>8, StillInterrupted
    <3> QED
      BY <2>5, <2>7, <3>1 DEF BodySound, ListsGoOn
  <2>9. CASE ~Interrupted(b.blocks)
    <3>1. ListsOpen(b.blocks, b.open_ordered) /\ ItemsListed(b.blocks)
      BY <1>5, <2>9 DEF ListsGoOn
    <3>2. /\ Len(wanted) > 0 => row.type = "list_item" /\ row.level = ItemLevel(Len(wanted))
          /\ Len(wanted) = 0 => row.type # "list_item"
      <4>1. Len(wanted) > 0 => ~(heading > 0)
        BY <1>3
      <4> QED
        BY <2>1, <4>1
    <3>3. ListsOpen(blocks, open) /\ ItemsListed(blocks)
      BY <1>3, <1>5, <2>1, <2>4, <3>1, <3>2, ListsGoOnBehind DEF open
    <3> QED
      BY <2>5, <2>7, <3>3 DEF BodySound, ListsGoOn
  <2> QED
    BY <2>8, <2>9
<1> QED
  BY <1>7, <1>8

\* A picture interrupts the lists.
LEMMA ImageAppended ==
    ASSUME NEW b, BodySound(b)
    PROVE  BodySound([b EXCEPT !.blocks = Append(@, Row("image", 1))])
<1> DEFINE image == Row("image", 1)
           blocks == Append(b.blocks, image)
           c == [b EXCEPT !.blocks = blocks]
<1>1. b \in BodyType /\ b.blocks \in Seq(Block)
  BY BodyFields DEF BodySound
<1>2. image \in Block /\ Interrupts(image)
  BY RowGives DEF RowName, Interrupts
<1> HIDE DEF image
<1>3. Interrupted(blocks) /\ blocks \in Seq(Block)
  BY <1>1, <1>2, InterruptedGoesOn, AppendProperties
<1> HIDE DEF blocks
<1>4. c \in BodyType /\ c.blocks = blocks
  BY <1>1, <1>3 DEF BodyType
<1>5. BodySound(c)
  BY <1>3, <1>4 DEF BodySound, ListsGoOn
<1> QED
  BY <1>5 DEF blocks, image

\* A text joins the run of its formatting or starts one.
LEMMA WithRunGives ==
    ASSUME g.fmt \in SUBSET Format, NEW runs \in Seq(Run), NEW p \in Formatted(g.fmt)
    PROVE  WithRun(runs, p) \in Seq(Run)
<1> DEFINE fmt == g.fmt
<1>0. p \in Positions
  BY DEF Formatted
<1>1. CASE runs # << >> /\ Last(runs).fmt = fmt
  <2> DEFINE last == Last(runs)
             text == Append(last.text, p)
             run == [last EXCEPT !.text = text]
  <2>1. Front(runs) \in Seq(Run) /\ last \in Run
    BY <1>1, FrontGives
  <2>2. last.fmt = fmt
    BY <1>1
  <2> HIDE DEF last
  <2>3. /\ last \in [fmt : SUBSET Format, text : Seq(Positions)]
        /\ last.text \in Seq(Positions) /\ last.text \in Seq(Formatted(fmt))
    BY <2>1, <2>2 DEF Run
  <2>4. text \in Seq(Positions) /\ text \in Seq(Formatted(fmt))
    BY <1>0, <2>3, AppendProperties
  <2> HIDE DEF text
  <2>5. run \in Run
    <3>1. run \in [fmt : SUBSET Format, text : Seq(Positions)] /\ run.text = text /\ run.fmt = fmt
      BY <2>2, <2>3, <2>4
    <3> QED
      BY <2>4, <3>1 DEF Run
  <2> HIDE DEF run
  <2>6. <<run>> \in Seq(Run)
    BY <2>5
  <2>7. Front(runs) \o <<run>> \in Seq(Run)
    BY <2>1, <2>6, ConcatProperties
  <2>8. WithRun(runs, p) = Front(runs) \o <<run>>
    BY <1>1 DEF WithRun, run, text, last
  <2> QED
    BY <2>7, <2>8
<1>2. CASE ~(runs # << >> /\ Last(runs).fmt = fmt)
  <2> DEFINE run == [fmt |-> fmt, text |-> <<p>>]
  <2>1. <<p>> \in Seq(Positions) /\ <<p>> \in Seq(Formatted(fmt))
    BY <1>0
  <2>2. run \in Run
    BY <2>1 DEF Run
  <2> HIDE DEF run
  <2>3. Append(runs, run) \in Seq(Run)
    BY <2>2, AppendProperties
  <2>4. WithRun(runs, p) = Append(runs, run)
    BY <1>2 DEF WithRun, run
  <2> QED
    BY <2>3, <2>4
<1> QED
  BY <1>1, <1>2

-----------------------------------------------------------------------------
(* What does not change while the source is read.                          *)

\* What is told of the source as a whole does not change while it is read.
LEMMA SameScopes ==
    ASSUME source' = source, scopes' = scopes
    PROVE  /\ Positions' = Positions /\ ScopesOK' = ScopesOK
           /\ \A p : FormatAt(p)' = FormatAt(p)
           /\ \A fmt : Formatted(fmt)' = Formatted(fmt)
           /\ \A n, d : FormatUnder(n, d)' = FormatUnder(n, d)
<1>1. Positions' = Positions
  BY DEF Positions
<1>2. ScopesOK' = ScopesOK
  BY <1>1 DEF ScopesOK, ScopeAfter
<1>3. \A n, words : Governing(n, words)' = Governing(n, words)
  BY DEF Governing, IsPrefix
<1>4. \A p : FormatAt(p)' = FormatAt(p)
  BY <1>3 DEF FormatAt
<1>5. \A fmt : Formatted(fmt)' = Formatted(fmt)
  BY <1>1, <1>4 DEF Formatted
<1>6. \A n, d, words : UnderDepth(n, d, words)' = UnderDepth(n, d, words)
  BY DEF UnderDepth
<1>7. \A f, set : Sets(f, set)' = Sets(f, set)
  BY DEF Sets
<1>8. \A n, d : FormatUnder(n, d)' = FormatUnder(n, d)
  BY <1>6, <1>7 DEF FormatUnder
<1> QED
  BY <1>1, <1>2, <1>4, <1>5, <1>8

\* Nor do the sets that the types are made of.
LEMMA SameTypes ==
    ASSUME source' = source, scopes' = scopes
    PROVE  /\ Sheet' = Sheet /\ Style' = Style /\ Field' = Field /\ Run' = Run
           /\ Block' = Block /\ BodyType' = BodyType
           /\ \A b : BodySound(b)' = BodySound(b)
<1>1. Positions' = Positions /\ \A fmt : Formatted(fmt)' = Formatted(fmt)
  BY SameScopes
<1>2. Style' = Style /\ Field' = Field
  BY <1>1 DEF Style, Field
<1>3. Sheet' = Sheet
  BY <1>1, <1>2 DEF Sheet
<1>4. Run' = Run
  BY <1>1 DEF Run
<1>5. Inline' = Inline
  BY <1>1 DEF Inline
<1>6. \A i : Scoped(i)' = Scoped(i)
  BY <1>1 DEF Scoped
<1>7. RowType' = RowType
  BY <1>1, <1>5 DEF RowType
<1>8. BlockRow' = BlockRow
  BY <1>7 DEF BlockRow
<1>9. Block' = Block
  BY <1>1, <1>6, <1>8 DEF Block
<1>10. BodyType' = BodyType
  BY <1>1, <1>4, <1>9 DEF BodyType
<1>11. \A b : BodySound(b)' = BodySound(b)
  BY <1>10 DEF BodySound
<1> QED
  BY <1>2, <1>3, <1>4, <1>9, <1>10, <1>11

-----------------------------------------------------------------------------
(* What the tokens do to the open groups.                                  *)

ClosesGroup(n) == source[n].word = "}"

\* A group whose text is the document's.
InText(group) == group.meta_key = "" /\ ~group.skip /\ ~group.style

\* The innermost group becomes h.
TopIs(h) ==
    /\ stack' \in Seq(Group) /\ Len(stack') = Len(stack)
    /\ \A d \in 1 .. Len(stack) - 1 : stack'[d] = stack[d]
    /\ stack'[Len(stack)] = h

\* A group whose text is the document's changes its formatting only where a
\* formatting word stands; whoever leaves the document stays out of it.
TopStays ==
    /\ ~OpensGroup(pos) /\ ~ClosesGroup(pos)
    /\ \E h \in Group :
          /\ TopIs(h)
          /\ InText(h) => /\ InText(g) /\ h.fmt = g.fmt
                          /\ source[pos].word \notin FormattingWord

TopFormatted ==
    /\ ~OpensGroup(pos) /\ ~ClosesGroup(pos)
    /\ source[pos].word \in FormattingWord
    /\ \E h \in Group :
          /\ TopIs(h)
          /\ InText(h) => InText(g)
          /\ h.fmt = CASE source[pos].word = "plain" -> {}
                       [] source[pos].word = "ulnone" -> g.fmt \ {"ul"}
                       [] OTHER -> IF source[pos].param # 0 THEN g.fmt \cup {source[pos].word}
                                   ELSE g.fmt \ {source[pos].word}

\* A word or a character is not a brace.
LEMMA NoBrace ==
    ASSUME NEW n
    PROVE  /\ source[n].word \notin Symbol => ~OpensGroup(n) /\ ~ClosesGroup(n)
           /\ source[n].word \in {"eol", "char", "hex", "symbol", "*"}
                => ~OpensGroup(n) /\ ~ClosesGroup(n)
  BY DEF Symbol, OpensGroup, ClosesGroup

\* A token that is no brace leaves the groups that are open.
LEMMA ScopeStays ==
    ASSUME ScopesOK, NEW n \in Positions, ~OpensGroup(n), ~ClosesGroup(n)
    PROVE  scopes[n + 1] = scopes[n]
  BY DEF ScopesOK, ScopeAfter, OpensGroup, ClosesGroup

\* A closing brace closes the innermost group, if one is open.
LEMMA ScopeCloses ==
    ASSUME ScopesOK, NEW n \in Positions, ClosesGroup(n)
    PROVE  scopes[n + 1] = IF scopes[n] # << >> THEN Front(scopes[n]) ELSE scopes[n]
<1>1. source[n].word # "{"
  BY DEF ClosesGroup
<1> QED
  BY <1>1 DEF ScopesOK, ScopeAfter, ClosesGroup

\* The top of the stack is a group.
LEMMA TopGroup ==
    ASSUME stack \in Seq(Group), stack # << >>
    PROVE  /\ Len(stack) \in Nat /\ Len(stack) \in 1 .. Len(stack) /\ g \in Group
           /\ g = stack[Len(stack)]
<1>1. Len(stack) \in Nat /\ Len(stack) \in 1 .. Len(stack)
  BY EmptySeq, LenProperties
<1>2. stack[Len(stack)] \in Group
  BY <1>1, ElementOfSeq
<1> QED
  BY <1>1, <1>2 DEF g

\* A step may leave the top of the stack alone,
LEMMA TopUnchanged ==
    ASSUME stack \in Seq(Group), stack # << >>, stack' = stack
    PROVE  TopIs(g)
<1>1. Len(stack) \in Nat
  BY LenProperties
<1> QED
  BY <1>1 DEF TopIs, g

\* or replace it (InGroup).
LEMMA TopReplaced ==
    ASSUME stack \in Seq(Group), stack # << >>, NEW h \in Group, InGroup(h)
    PROVE  TopIs(h)
<1>1. Len(stack) \in Nat /\ Len(stack) \in 1 .. Len(stack)
  BY TopGroup
<1> DEFINE l == Len(stack)
<1>2. stack \in [1 .. l -> Group] /\ stack' = [stack EXCEPT ![l] = h]
  BY LenProperties DEF InGroup
<1> HIDE DEF l
<1>3. l \in Nat /\ l \in 1 .. l
  BY <1>1 DEF l
<1>4. stack' \in [1 .. l -> Group] /\ stack'[l] = h /\ \A d \in 1 .. l - 1 : stack'[d] = stack[d]
  BY <1>2, <1>3
<1>5. stack' \in Seq(Group) /\ Len(stack') = l
  BY <1>3, <1>4, Places
<1> QED
  BY <1>4, <1>5 DEF TopIs, l

\* A token that leaves the groups alone says nothing of the document's text.
LEMMA StaysUnchanged ==
    ASSUME stack \in Seq(Group), stack # << >>, stack' = stack,
           ~OpensGroup(pos), ~ClosesGroup(pos),
           InText(g) => source[pos].word \notin FormattingWord
    PROVE  TopStays
<1>1. g \in Group /\ TopIs(g)
  BY TopGroup, TopUnchanged
<1> QED
  BY <1>1 DEF TopStays

\* A token that takes the group out of the document.
LEMMA StaysOutside ==
    ASSUME stack \in Seq(Group), stack # << >>, NEW h \in Group, InGroup(h), ~InText(h),
           ~OpensGroup(pos), ~ClosesGroup(pos)
    PROVE  TopStays
<1>1. TopIs(h)
  BY TopReplaced
<1> QED
  BY <1>1 DEF TopStays

\* What a token of the source does to the open groups.
LEMMA GroupSteps ==
    ASSUME RtfTypeOK, RtfNext, ~EndOfSource
    PROVE  /\ pos \in Positions /\ pos' = pos + 1 /\ rows' = rows
           /\ \/ OpensGroup(pos) /\ stack' = Append(stack, g)
              \/ ClosesGroup(pos) /\ stack' = Closed
              \/ TopStays
              \/ TopFormatted
<1>0. /\ stack \in Seq(Group) /\ stack # << >> /\ g \in Group
      /\ Len(source) \in Nat /\ pos \in Nat /\ pos >= 1
  BY TopGroup, LenProperties DEF RtfTypeOK
<1>1. ASSUME pos <= Len(source), source[pos].word \in {"eol", "char", "hex", "symbol", "*"} \/ source[pos].word \notin Symbol
      PROVE  pos \in Positions /\ ~OpensGroup(pos) /\ ~ClosesGroup(pos)
  <2>1. pos \in Positions
    BY <1>0, <1>1 DEF Positions
  <2> QED
    BY <1>1, <2>1, NoBrace
<1>2. CASE OpenGroup
  <2>1. /\ pos <= Len(source) /\ OpensGroup(pos) /\ pos' = pos + 1 /\ rows' = rows
        /\ stack' = Append(stack, g)
    BY <1>2, Zenon DEF OpenGroup, At, token, Advance, OpensGroup
  <2> QED
    BY <1>0, <2>1 DEF Positions
<1>3. CASE CloseGroup
  <2>1. /\ pos <= Len(source) /\ ClosesGroup(pos) /\ pos' = pos + 1 /\ rows' = rows
        /\ stack' = Closed
    BY <1>3, Zenon DEF CloseGroup, At, token, Advance, ClosesGroup
  <2> QED
    BY <1>0, <2>1 DEF Positions
<1>4. CASE SkipLineBreak \/ Character \/ ControlSymbol
  <2>1. /\ pos <= Len(source) /\ source[pos].word \in {"eol", "char", "hex", "symbol"}
        /\ pos' = pos + 1 /\ rows' = rows /\ stack' = stack
    BY <1>4 DEF SkipLineBreak, Character, ControlSymbol, At, token, Advance
  <2>2. source[pos].word \notin FormattingWord
    BY <2>1 DEF FormattingWord, Format
  <2> QED
    BY <1>0, <1>1, <2>1, <2>2, StaysUnchanged
<1>5. CASE Ignorable
  <2>1. /\ pos <= Len(source) /\ source[pos].word = "*"
        /\ pos' = pos + 1 /\ rows' = rows /\ InGroup([g EXCEPT !.skip = TRUE])
    BY <1>5 DEF Ignorable, At, token, Advance
  <2>2. [g EXCEPT !.skip = TRUE] \in Group /\ ~InText([g EXCEPT !.skip = TRUE])
    BY <1>0 DEF Group, InText
  <2> QED
    BY <1>0, <1>1, <2>1, <2>2, StaysOutside
<1>6. ASSUME ControlWord
      PROVE  /\ pos <= Len(source) /\ source[pos].word \notin Symbol
             /\ pos' = pos + 1 /\ rows' = rows
             /\ pos \in Positions /\ ~OpensGroup(pos) /\ ~ClosesGroup(pos)
  <2>1. /\ pos <= Len(source) /\ source[pos].word \notin Symbol
        /\ pos' = pos + 1 /\ rows' = rows
    BY <1>6 DEF ControlWord, token, Advance
  <2> QED
    BY <1>1, <2>1
<1>7. CASE Destination
  <2>1. \E h \in Group : InGroup(h) /\ ~InText(h)
    <3>1. /\ [g EXCEPT !.style = TRUE] \in Group /\ ~InText([g EXCEPT !.style = TRUE])
          /\ [g EXCEPT !.skip = TRUE, !.in_info = TRUE] \in Group
          /\ ~InText([g EXCEPT !.skip = TRUE, !.in_info = TRUE])
          /\ [g EXCEPT !.skip = TRUE] \in Group /\ ~InText([g EXCEPT !.skip = TRUE])
      BY <1>0 DEF Group, InText
    <3> QED
      BY <1>7, <3>1 DEF Destination
  <2>2. ControlWord
    BY <1>7 DEF Destination
  <2> QED
    BY <1>0, <1>6, <2>1, <2>2, StaysOutside
<1>8. CASE Metadata
  <2> DEFINE h == [g EXCEPT !.skip = FALSE, !.meta_key = token.word]
  <2>1. ControlWord /\ InGroup(h) /\ CapturesMeta
    BY <1>8 DEF Metadata
  <2>2. token.word \in Key /\ token.word # ""
    BY <2>1 DEF CapturesMeta, Key, MetaWord
  <2>3. h \in Group /\ ~InText(h)
    BY <1>0, <2>2 DEF Group, InText
  <2> HIDE DEF h
  <2> QED
    BY <1>0, <1>6, <2>1, <2>3, StaysOutside
<1>9. CASE StyleEntry \/ SkippedWord
  <2>1. ControlWord /\ stack' = stack /\ ~InText(g)
    BY <1>9 DEF StyleEntry, SkippedWord, InText
  <2> QED
    BY <1>0, <1>6, <2>1, StaysUnchanged
<1>10. CASE Pict \/ ListText
  <2>1. ControlWord /\ InGroup([g EXCEPT !.skip = TRUE])
    BY <1>10 DEF Pict, ListText, Live
  <2>2. [g EXCEPT !.skip = TRUE] \in Group /\ ~InText([g EXCEPT !.skip = TRUE])
    BY <1>0 DEF Group, InText
  <2> QED
    BY <1>0, <1>6, <2>1, <2>2, StaysOutside
<1>11. CASE Cell \/ TableWord \/ Par \/ Pard \/ ParagraphWord \/ Unicode \/ NamedCharacter
  <2>1. /\ ControlWord /\ stack' = stack
        /\ source[pos].word \in {"cell", "row", "trowd", "intbl", "trhdr", "par", "pard", "s",
                                  "outlinelevel", "ls", "ilvl", "u"} \cup Literal
    BY <1>11 DEF Cell, TableWord, Par, Pard, ParagraphWord, Unicode, NamedCharacter, Live, token
  <2>2. source[pos].word \notin FormattingWord
    BY <2>1 DEF FormattingWord, Format, Literal
  <2> QED
    BY <1>0, <1>6, <2>1, <2>2, StaysUnchanged
<1>12. CASE UnknownWord
  <2>1. ControlWord /\ stack' = stack /\ (source[pos].word \in KnownWord => source[pos].word \in NeedsParam)
    BY <1>12 DEF UnknownWord, token
  <2>2. source[pos].word \notin FormattingWord
    BY <2>1 DEF FormattingWord, Format, KnownWord, NeedsParam
  <2> QED
    BY <1>0, <1>6, <2>1, <2>2, StaysUnchanged
<1>13. CASE FallbackLength
  <2> DEFINE h == [g EXCEPT !.uc = token.param]
  <2>1. ControlWord /\ InGroup(h) /\ token.param # NoParam /\ source[pos].word = "uc"
    BY <1>13 DEF FallbackLength, Live, token
  <2>2. pos \in 1 .. Len(source) /\ source \in Seq(Token)
    BY <1>6, <2>1 DEF Positions, RtfTypeOK
  <2>3. token \in Token
    BY <2>2, ElementOfSeq DEF token
  <2>4. token.param \in Int
    BY <2>1, <2>3 DEF Token
  <2>5. h \in Group /\ h.fmt = g.fmt /\ (InText(h) => InText(g))
    BY <1>0, <2>4 DEF Group, InText
  <2>6. source[pos].word \notin FormattingWord
    BY <2>1 DEF FormattingWord, Format
  <2> HIDE DEF h
  <2>7. TopIs(h)
    BY <1>0, <2>1, <2>5, TopReplaced
  <2>8. TopStays
    BY <1>6, <2>1, <2>5, <2>6, <2>7 DEF TopStays
  <2> QED
    BY <1>6, <2>1, <2>8
<1>14. CASE CharacterWord
  <2> DEFINE w == source[pos].word
             fmt == CASE w = "plain" -> {}
                      [] w = "ulnone" -> g.fmt \ {"ul"}
                      [] OTHER -> IF source[pos].param # 0 THEN g.fmt \cup {w} ELSE g.fmt \ {w}
             h == [g EXCEPT !.fmt = fmt]
  <2>1. ControlWord /\ InGroup(h) /\ w \in FormattingWord
    BY <1>14 DEF CharacterWord, Live, token, FormattingWord
  <2>2. g.fmt \in SUBSET Format
    BY <1>0 DEF Group
  <2>3. fmt \in SUBSET Format
    BY <2>1, <2>2 DEF FormattingWord
  <2>4. h \in Group /\ h.fmt = fmt /\ (InText(h) => InText(g))
    <3> HIDE DEF fmt
    <3> QED
      BY <1>0, <2>3 DEF Group, InText
  <2> HIDE DEF h
  <2>5. TopIs(h)
    BY <1>0, <2>1, <2>4, TopReplaced
  <2>6. TopFormatted
    BY <1>6, <2>1, <2>4, <2>5 DEF TopFormatted
  <2> QED
    BY <1>6, <2>1, <2>6
<1> QED
  BY <1>2, <1>3, <1>4, <1>5, <1>7, <1>8, <1>9, <1>10, <1>11, <1>12, <1>13, <1>14 DEF RtfNext

-----------------------------------------------------------------------------
(* The formatting of the open groups.                                      *)

\* One group is open for each brace that is, and each group whose text is the
\* document's has the formatting that the words in it and around it set.
GroupsOK ==
    pos <= Len(source) + 1 =>
        /\ Len(stack) = Len(scopes[pos]) + 1
        /\ \A d \in 1 .. Len(stack) : InText(stack[d]) => stack[d].fmt = FormatUnder(pos, d - 1)

\* Every step keeps the groups in step with the braces of the source, and their
\* formatting with the words around them.
LEMMA GroupsKept ==
    ASSUME RtfTypeOK, ScopesOK, GroupsOK, RtfNext, source' = source, scopes' = scopes
    PROVE  GroupsOK' /\ stack' \in Seq(Group) /\ stack' # << >>
<1>0. /\ stack \in Seq(Group) /\ stack # << >> /\ g \in Group /\ g = stack[Len(stack)]
      /\ Len(source) \in Nat /\ Len(stack) \in Nat /\ Len(stack) >= 1
      /\ Len(stack) \in 1 .. Len(stack)
  BY TopGroup, LenProperties DEF RtfTypeOK
<1>1. CASE EndOfSource
  <2>1. pos' = Len(source) + 2 /\ stack' = stack /\ source' = source
    BY <1>0, <1>1 DEF EndOfSource
  <2>2. ~(pos' <= Len(source') + 1)
    BY <1>0, <2>1
  <2> QED
    BY <1>0, <2>1, <2>2 DEF GroupsOK
<1>2. CASE ~EndOfSource
  <2>1. /\ pos \in Positions /\ pos' = pos + 1
        /\ \/ OpensGroup(pos) /\ stack' = Append(stack, g)
           \/ ClosesGroup(pos) /\ stack' = Closed
           \/ TopStays
           \/ TopFormatted
    BY <1>2, GroupSteps
  <2> DEFINE here == scopes[pos]
             next == scopes[pos + 1]
             Good == /\ stack' \in Seq(Group) /\ stack' # << >>
                     /\ Len(stack') = Len(next) + 1
                     /\ \A d \in 1 .. Len(stack') :
                            InText(stack'[d]) => stack'[d].fmt = FormatUnder(pos + 1, d - 1)
  <2>2. /\ pos \in Nat /\ pos \in 1 .. Len(source) + 1 /\ pos + 1 \in 1 .. Len(source) + 1
    BY <1>0, <2>1, Neighbours DEF Positions
  <2>3. /\ here \in Seq(Nat) /\ Len(here) \in Nat /\ Len(next) \in Nat
    BY <1>0, <2>2, ScopeIs
  <2>4. /\ Len(stack) = Len(here) + 1
        /\ \A d \in 1 .. Len(stack) : InText(stack[d]) => stack[d].fmt = FormatUnder(pos, d - 1)
    BY <2>2 DEF GroupsOK
  <2>5. SUFFICES Good
    <3>1. /\ scopes'[pos'] = next /\ pos' = pos + 1
          /\ \A n, d : FormatUnder(n, d)' = FormatUnder(n, d)
      BY <2>1, SameScopes
    <3>2. \A d : FormatUnder(pos, d)' = FormatUnder(pos + 1, d)
      BY <3>1
    <3> HIDE DEF next
    <3>3. \A h : InText(h)' = InText(h)
      BY DEF InText
    <3> QED
      BY <3>1, <3>2, <3>3 DEF GroupsOK
  <2>6. ASSUME NEW d \in 0 .. Len(here), d <= Len(next), \A i \in 1 .. d : next[i] = here[i],
               source[pos].word \notin FormattingWord \/ d < Len(here)
        PROVE  FormatUnder(pos + 1, d) = FormatUnder(pos, d)
    <3>1. d \in Nat /\ d <= Len(here)
      BY <2>3
    <3>2. ScopesOK /\ Len(source) \in Nat /\ pos \in Positions
      BY <1>0, <2>1
    <3> QED
      BY <2>6, <3>1, <3>2, StillFormatted
  <2>7. CASE OpensGroup(pos) /\ stack' = Append(stack, g)
    <3>1. /\ stack' \in Seq(Group) /\ Len(stack') = Len(stack) + 1
          /\ \A d \in 1 .. Len(stack) : stack'[d] = stack[d]
          /\ stack'[Len(stack) + 1] = g
      BY <1>0, <2>7, AppendProperties
    <3>2. next = Append(here, pos)
      BY <2>1, <2>7 DEF ScopesOK, ScopeAfter, OpensGroup
    <3>3. /\ Len(next) = Len(here) + 1
          /\ \A i \in 1 .. Len(here) : next[i] = here[i]
      <4> HIDE DEF here, next
      <4> QED
        BY <2>2, <2>3, <3>2, AppendProperties
    <3>4. source[pos].word \notin FormattingWord
      BY <2>7, Zenon DEF OpensGroup, FormattingWord, Format
    <3>5. FormatUnder(pos + 1, Len(here) + 1) = FormatUnder(pos, Len(here))
      BY <1>0, <2>1, <2>7, GroupStartsAsItsParent
    <3> HIDE DEF here, next
    <3>6. ASSUME NEW d \in 1 .. Len(stack'), InText(stack'[d])
          PROVE  stack'[d].fmt = FormatUnder(pos + 1, d - 1)
      <4>1. CASE d = Len(stack) + 1
        <5>1. stack'[d] = stack[Len(stack)] /\ d - 1 = Len(here) + 1 /\ Len(stack) - 1 = Len(here)
          BY <1>0, <2>3, <2>4, <3>1, <4>1
        <5> QED
          BY <1>0, <2>4, <3>5, <3>6, <5>1
      <4>2. CASE d # Len(stack) + 1
        <5>1. d \in 1 .. Len(stack) /\ d - 1 \in 0 .. Len(here) /\ d - 1 <= Len(next)
          BY <1>0, <2>3, <2>4, <3>1, <3>3, <4>2
        <5>2. \A i \in 1 .. d - 1 : next[i] = here[i]
          BY <2>3, <3>3, <5>1
        <5>3. FormatUnder(pos + 1, d - 1) = FormatUnder(pos, d - 1)
          BY <2>6, <3>4, <5>1, <5>2
        <5> QED
          BY <2>4, <3>1, <3>6, <5>1, <5>3
      <4> QED
        BY <4>1, <4>2
    <3>7. stack' # << >>
      BY <1>0, <3>1, EmptySeq
    <3> QED
      BY <2>4, <3>1, <3>3, <3>6, <3>7
  <2>8. CASE ClosesGroup(pos) /\ stack' = Closed
    <3>1. next = IF here # << >> THEN Front(here) ELSE here
      BY <2>1, <2>8, ScopeCloses
    <3>2. source[pos].word \notin FormattingWord
      BY <2>8, Zenon DEF ClosesGroup, FormattingWord, Format
    <3>3. here # << >> <=> Len(here) > 0
      <4> HIDE DEF here
      <4> QED
        BY <2>3, EmptySeq
    <3> HIDE DEF here, next
    <3>4. CASE here # << >>
      <4>1. stack' = Front(stack)
        <5>1. Len(stack) > 1
          BY <2>3, <2>4, <3>3, <3>4
        <5> QED
          BY <2>8, <5>1 DEF Closed
      <4>2. /\ stack' \in Seq(Group) /\ Len(stack') = Len(stack) - 1
            /\ \A d \in 1 .. Len(stack) - 1 : stack'[d] = stack[d]
        BY <1>0, <4>1, FrontGives
      <4>3. next = Front(here)
        BY <3>1, <3>4
      <4>4. /\ Len(next) = Len(here) - 1
            /\ \A i \in 1 .. Len(here) - 1 : next[i] = here[i]
        BY <2>3, <3>4, <4>3, FrontGives
      <4>5. ASSUME NEW d \in 1 .. Len(stack'), InText(stack'[d])
            PROVE  stack'[d].fmt = FormatUnder(pos + 1, d - 1)
        <5>1. d \in 1 .. Len(stack) - 1 /\ d \in 1 .. Len(stack) /\ d - 1 \in 0 .. Len(here)
              /\ d - 1 <= Len(next)
          BY <1>0, <2>3, <2>4, <4>2, <4>4
        <5>2. \A i \in 1 .. d - 1 : next[i] = here[i]
          BY <2>3, <4>4, <5>1
        <5>3. FormatUnder(pos + 1, d - 1) = FormatUnder(pos, d - 1)
          BY <2>6, <3>2, <5>1, <5>2
        <5> QED
          BY <2>4, <4>2, <4>5, <5>1, <5>3
      <4>6. stack' # << >>
        <5>1. Len(stack') >= 1
          BY <1>0, <2>3, <2>4, <3>3, <3>4, <4>2
        <5> QED
          BY <5>1, EmptySeq
      <4>7. Len(stack') = Len(next) + 1
        BY <2>3, <2>4, <4>2, <4>4
      <4> QED
        BY <4>2, <4>5, <4>6, <4>7
    <3>5. CASE here = << >>
      <4>1. stack' = stack
        <5>1. ~(Len(stack) > 1)
          BY <2>3, <2>4, <3>3, <3>5
        <5> QED
          BY <2>8, <5>1 DEF Closed
      <4>2. next = here
        BY <3>1, <3>5
      <4>3. ASSUME NEW d \in 1 .. Len(stack'), InText(stack'[d])
            PROVE  stack'[d].fmt = FormatUnder(pos + 1, d - 1)
        <5>1. d \in 1 .. Len(stack) /\ d - 1 \in 0 .. Len(here) /\ d - 1 <= Len(next)
          BY <1>0, <2>3, <2>4, <4>1, <4>2
        <5>2. FormatUnder(pos + 1, d - 1) = FormatUnder(pos, d - 1)
          BY <2>6, <3>2, <4>2, <5>1
        <5> QED
          BY <2>4, <4>1, <4>3, <5>1, <5>2
      <4> QED
        BY <1>0, <2>4, <4>1, <4>2, <4>3
    <3> QED
      BY <3>4, <3>5
  <2>9. CASE TopStays
    <3>1. PICK h \in Group :
              /\ TopIs(h)
              /\ InText(h) => /\ InText(g) /\ h.fmt = g.fmt
                              /\ source[pos].word \notin FormattingWord
      BY <2>9 DEF TopStays
    <3>2. next = here
      BY <2>1, <2>9, ScopeStays DEF TopStays
    <3>3. /\ stack' \in Seq(Group) /\ Len(stack') = Len(stack)
          /\ \A d \in 1 .. Len(stack) - 1 : stack'[d] = stack[d]
          /\ stack'[Len(stack)] = h
      BY <3>1 DEF TopIs
    <3> HIDE DEF here, next
    <3>4. ASSUME NEW d \in 1 .. Len(stack'), InText(stack'[d])
          PROVE  stack'[d].fmt = FormatUnder(pos + 1, d - 1)
      <4>1. d \in 1 .. Len(stack) /\ d - 1 \in 0 .. Len(here) /\ d - 1 <= Len(next)
        BY <1>0, <2>3, <2>4, <3>2, <3>3
      <4>2. CASE d = Len(stack)
        <5>1. stack'[d] = h /\ InText(g) /\ h.fmt = g.fmt /\ source[pos].word \notin FormattingWord
          BY <3>1, <3>3, <3>4, <4>2
        <5>2. FormatUnder(pos + 1, d - 1) = FormatUnder(pos, d - 1)
          BY <2>6, <3>2, <4>1, <5>1
        <5> QED
          BY <1>0, <2>4, <4>1, <4>2, <5>1, <5>2
      <4>3. CASE d # Len(stack)
        <5>1. d \in 1 .. Len(stack) - 1 /\ d - 1 < Len(here)
          BY <1>0, <2>3, <2>4, <4>1, <4>3
        <5>2. FormatUnder(pos + 1, d - 1) = FormatUnder(pos, d - 1)
          BY <2>6, <3>2, <4>1, <5>1
        <5> QED
          BY <2>4, <3>3, <3>4, <4>1, <5>1, <5>2
      <4> QED
        BY <4>2, <4>3
    <3>5. stack' # << >>
      BY <1>0, <3>3, EmptySeq
    <3> QED
      BY <2>4, <3>2, <3>3, <3>4, <3>5
  <2>10. CASE TopFormatted
    <3> DEFINE w == source[pos].word
               fmt == CASE w = "plain" -> {}
                        [] w = "ulnone" -> g.fmt \ {"ul"}
                        [] OTHER -> IF source[pos].param # 0 THEN g.fmt \cup {w} ELSE g.fmt \ {w}
    <3>1. PICK h \in Group : TopIs(h) /\ (InText(h) => InText(g)) /\ h.fmt = fmt
      BY <2>10 DEF TopFormatted
    <3>2. next = here /\ w \in FormattingWord
      BY <2>1, <2>10, ScopeStays DEF TopFormatted
    <3>3. /\ stack' \in Seq(Group) /\ Len(stack') = Len(stack)
          /\ \A d \in 1 .. Len(stack) - 1 : stack'[d] = stack[d]
          /\ stack'[Len(stack)] = h
      BY <3>1 DEF TopIs
    <3>4. g.fmt = FormatUnder(pos, Len(here)) => fmt = FormatUnder(pos + 1, Len(here))
      <4>1. LET before == FormatUnder(pos, Len(here))
            IN  FormatUnder(pos + 1, Len(here)) =
                   CASE w = "plain" -> {}
                     [] w = "ulnone" -> before \ {"ul"}
                     [] OTHER -> IF source[pos].param # 0 THEN before \cup {w} ELSE before \ {w}
        BY <1>0, <2>1, <3>2, WordTakesEffect
      <4> QED
        BY <4>1
    <3> HIDE DEF here, next, fmt
    <3>5. ASSUME NEW d \in 1 .. Len(stack'), InText(stack'[d])
          PROVE  stack'[d].fmt = FormatUnder(pos + 1, d - 1)
      <4>1. d \in 1 .. Len(stack) /\ d - 1 \in 0 .. Len(here) /\ d - 1 <= Len(next)
        BY <1>0, <2>3, <2>4, <3>2, <3>3
      <4>2. CASE d = Len(stack)
        <5>1. stack'[d] = h /\ InText(g) /\ d - 1 = Len(here)
          BY <1>0, <2>3, <2>4, <3>1, <3>3, <3>5, <4>2
        <5>2. g.fmt = FormatUnder(pos, Len(here))
          BY <1>0, <2>4, <4>1, <4>2, <5>1
        <5> QED
          BY <3>1, <3>4, <5>1, <5>2
      <4>3. CASE d # Len(stack)
        <5>1. d \in 1 .. Len(stack) - 1 /\ d - 1 < Len(here)
          BY <1>0, <2>3, <2>4, <4>1, <4>3
        <5>2. FormatUnder(pos + 1, d - 1) = FormatUnder(pos, d - 1)
          BY <2>6, <3>2, <4>1, <5>1
        <5> QED
          BY <2>4, <3>3, <3>5, <4>1, <5>1, <5>2
      <4> QED
        BY <4>2, <4>3
    <3>6. stack' # << >>
      BY <1>0, <3>3, EmptySeq
    <3> QED
      BY <2>4, <3>2, <3>3, <3>5, <3>6
  <2> QED
    BY <2>1, <2>7, <2>8, <2>9, <2>10
<1> QED
  BY <1>1, <1>2

-----------------------------------------------------------------------------
(* What the tokens do to the sheet, the body and the metadata.             *)

RtfSound == RtfTypeOK /\ ScopesOK /\ GroupsOK /\ BodySound(body)

\* Finishing a style's entry keeps the stylesheet a stylesheet.
LEMMA FinishedIs ==
    ASSUME sheet \in Sheet
    PROVE  Finished(sheet) \in Sheet
<1> DEFINE semi == {n \in DOMAIN sheet.name : source[sheet.name[n]].text = ";"}
           first == SubSeq(sheet.name, 1, Min(semi) - 1)
           name == Trim(IF semi = {} THEN sheet.name ELSE first)
           styles == IF name = << >> THEN sheet.styles
                     ELSE {e \in sheet.styles : e.id # sheet.id} \cup {[id |-> sheet.id, name |-> name]}
<1>1. sheet.name \in Seq(Positions) /\ sheet.styles \in SUBSET Style /\ sheet.id \in Int
  BY DEF Sheet
<1>2. semi # {} => first \in Seq(Positions)
  <2> SUFFICES ASSUME semi # {} PROVE first \in Seq(Positions)
    OBVIOUS
  <2>1. Len(sheet.name) \in Nat /\ DOMAIN sheet.name = 1 .. Len(sheet.name)
    BY <1>1, LenProperties
  <2>2. semi \in SUBSET Nat
    <3>1. semi \subseteq DOMAIN sheet.name
      BY Zenon
    <3> HIDE DEF semi
    <3> QED
      BY <2>1, <3>1
  <2> DEFINE l == Min(semi)
  <2>3. l \in semi
    <3> HIDE DEF semi
    <3> QED
      BY <2>2, SmallestOf
  <2>4. l \in 1 .. Len(sheet.name)
    BY <2>1, <2>3
  <2> HIDE DEF l, semi
  <2>5. l - 1 \in Int /\ \A i \in 1 .. l - 1 : i \in 1 .. Len(sheet.name)
    BY <2>1, <2>4
  <2>6. \A i \in 1 .. l - 1 : sheet.name[i] \in Positions
    BY <1>1, <2>5, ElementOfSeq
  <2>7. SubSeq(sheet.name, 1, l - 1) \in Seq(Positions)
    BY <2>5, <2>6, SubSeqProperties
  <2> QED
    BY <2>7 DEF l
<1> HIDE DEF first
<1>3. name \in Seq(Positions)
  BY <1>1, <1>2, TrimGives
<1>4. Finished(sheet) = [sheet EXCEPT !.open = FALSE, !.name = << >>, !.styles = styles]
  BY DEF Finished, name, first
<1> HIDE DEF name
<1>5. styles \in SUBSET Style
  BY <1>1, <1>3 DEF Style
<1> HIDE DEF styles
<1>6. << >> \in Seq(Positions)
  BY EmptySeq
<1> QED
  BY <1>4, <1>5, <1>6 DEF Sheet

\* A text of the document is of the formatting of its group.
LEMMA TextIsFormatted ==
    ASSUME RtfSound, pos \in Positions, InText(g)
    PROVE  pos \in Formatted(g.fmt)
<1>1. /\ g = stack[Len(stack)] /\ Len(stack) \in Nat /\ Len(stack) \in 1 .. Len(stack)
      /\ Len(source) \in Nat
  BY TopGroup, LenProperties DEF RtfSound, RtfTypeOK
<1>2. pos \in 1 .. Len(source) + 1 /\ pos <= Len(source) + 1
  BY <1>1 DEF Positions
<1>3. /\ Len(stack) = Len(scopes[pos]) + 1
      /\ g.fmt = FormatUnder(pos, Len(stack) - 1)
  BY <1>1, <1>2 DEF RtfSound, GroupsOK
<1>4. Len(scopes[pos]) \in Nat
  BY <1>1, <1>2, ScopeIs DEF RtfSound
<1>5. Len(stack) - 1 = Len(scopes[pos])
  BY <1>3, <1>4
<1>6. FormatAt(pos) = g.fmt
  BY <1>1, <1>2, <1>3, <1>5, FormatAtIsUnder DEF RtfSound
<1> QED
  BY <1>6 DEF Formatted

\* AppendText puts a place into a run of its own formatting, a style's name or a field.
LEMMA TextAppended ==
    ASSUME RtfSound, pos \in Positions, AppendText
    PROVE  sheet' \in Sheet /\ meta' \in SUBSET Field /\ BodySound(body')
<1>1. /\ g \in Group /\ sheet \in Sheet /\ meta \in SUBSET Field
      /\ body \in BodyType /\ BodySound(body) /\ ListsGoOn(body)
  BY TopGroup DEF RtfSound, RtfTypeOK, BodySound
<1>2. meta' \in SUBSET Field
  <2>1. CASE g.meta_key = ""
    BY <1>1, <2>1 DEF AppendText
  <2>2. CASE g.meta_key # ""
    <3> DEFINE captured == {m \in meta : m.key = g.meta_key}
               text == IF \E m \in meta : m.key = g.meta_key
                       THEN (CHOOSE m \in meta : m.key = g.meta_key).text ELSE << >>
               field == [key |-> g.meta_key, text |-> Append(text, pos)]
    <3>1. text \in Seq(Positions)
      <4>1. CASE \E m \in meta : m.key = g.meta_key
        <5>1. (CHOOSE m \in meta : m.key = g.meta_key) \in meta
          BY <4>1
        <5> QED
          BY <1>1, <4>1, <5>1 DEF Field
      <4>2. CASE ~\E m \in meta : m.key = g.meta_key
        BY <4>2, EmptySeq
      <4> QED
        BY <4>1, <4>2
    <3>2. meta' = {m \in meta : m.key # g.meta_key} \cup {field}
      BY <2>2 DEF AppendText
    <3> HIDE DEF text
    <3>3. Append(text, pos) \in Seq(Positions)
      BY <3>1, AppendProperties
    <3>4. field \in Field
      BY <1>1, <2>2, <3>3 DEF Group, Field
    <3> QED
      BY <1>1, <3>2, <3>4
  <2> QED
    BY <2>1, <2>2
<1>3. sheet' \in Sheet
  <2>1. sheet.name \in Seq(Positions)
    BY <1>1 DEF Sheet
  <2>2. Append(sheet.name, pos) \in Seq(Positions)
    BY <2>1, AppendProperties
  <2>3. [sheet EXCEPT !.name = Append(sheet.name, pos)] \in Sheet
    BY <1>1, <2>2 DEF Sheet
  <2> QED
    BY <1>1, <2>3 DEF AppendText
<1>4. BodySound(body')
  <2>1. CASE InText(g)
    <3> DEFINE runs == WithRun(body.runs, pos)
               c == [body EXCEPT !.runs = runs]
    <3>1. body' = c
      BY <2>1 DEF AppendText, InText
    <3>2. runs \in Seq(Run)
      <4>1. pos \in Formatted(g.fmt) /\ g.fmt \in SUBSET Format /\ body.runs \in Seq(Run)
        BY <1>1, <2>1, TextIsFormatted, BodyFields DEF Group
      <4> QED
        BY <4>1, WithRunGives
    <3> HIDE DEF runs
    <3>3. c \in BodyType /\ c.blocks = body.blocks /\ c.open_ordered = body.open_ordered
      BY <1>1, <3>2 DEF BodyType
    <3>4. ListsGoOn(c)
      BY <1>1, <3>3, OtherFields
    <3> QED
      BY <3>1, <3>3, <3>4 DEF BodySound
  <2>2. CASE ~InText(g)
    BY <1>1, <2>2 DEF AppendText, InText
  <2> QED
    BY <2>1, <2>2
<1> QED
  BY <1>2, <1>3, <1>4

\* The end of a cell turns the runs into a cell's text.
LEMMA CellEnded ==
    ASSUME NEW b, BodySound(b)
    PROVE  BodySound([b EXCEPT !.row_cells = Append(@, Trim(Texts(b.runs))), !.runs = << >>,
                               !.in_table = TRUE])
<1> DEFINE cell == Trim(Texts(b.runs))
           cells == Append(b.row_cells, cell)
           c == [b EXCEPT !.row_cells = cells, !.runs = << >>, !.in_table = TRUE]
<1>1. /\ b \in BodyType /\ ListsGoOn(b) /\ b.runs \in Seq(Run)
      /\ b.row_cells \in Seq(Seq(Positions))
  BY BodyFields DEF BodySound
<1>2. \A n \in 1 .. Len(b.runs) : b.runs[n].text \in Seq(Positions)
  <2>1. \A n \in 1 .. Len(b.runs) : b.runs[n] \in Run
    BY <1>1, ElementOfSeq
  <2> QED
    BY <2>1 DEF Run
<1>3. cell \in Seq(Positions)
  BY <1>1, <1>2, TextsGive, TrimGives
<1> HIDE DEF cell
<1>4. cells \in Seq(Seq(Positions)) /\ << >> \in Seq(Run)
  BY <1>1, <1>3, AppendProperties, EmptySeq
<1> HIDE DEF cells
<1>5. c \in BodyType /\ c.blocks = b.blocks /\ c.open_ordered = b.open_ordered
  BY <1>1, <1>4 DEF BodyType
<1>6. BodySound(c)
  BY <1>1, <1>5, OtherFields DEF BodySound
<1> QED
  BY <1>6 DEF cells, cell

\* The words of a table leave blocks and lists alone.
LEMMA TableWordRead ==
    ASSUME BodySound(body), TableWord
    PROVE  BodySound(body')
<1>1. /\ body \in BodyType /\ ListsGoOn(body)
      /\ body.row_cells \in Seq(Seq(Positions)) /\ body.table_headers \in Seq(Seq(Positions))
      /\ body.table_rows \in Seq(Seq(Seq(Positions)))
  BY BodyFields DEF BodySound
<1> DEFINE header == body.row_is_header /\ body.table_headers = << >>
           headers == IF header THEN body.row_cells ELSE body.table_headers
           given == IF ~header /\ body.row_cells # << >> THEN Append(body.table_rows, body.row_cells)
                    ELSE body.table_rows
           ended == [body EXCEPT !.table_headers = headers, !.table_rows = given,
                                 !.row_cells = << >>, !.row_is_header = FALSE, !.in_table = TRUE]
<1>2. headers \in Seq(Seq(Positions)) /\ given \in Seq(Seq(Seq(Positions)))
  <2>1. Append(body.table_rows, body.row_cells) \in Seq(Seq(Seq(Positions)))
    BY <1>1, AppendProperties
  <2> QED
    BY <1>1, <2>1
<1>3. RowEnded = ended
  BY DEF RowEnded
<1> HIDE DEF headers, given
<1>4. << >> \in Seq(Seq(Positions))
  BY EmptySeq
<1>5. ended \in BodyType /\ ended.blocks = body.blocks /\ ended.open_ordered = body.open_ordered
  BY <1>1, <1>2, <1>4 DEF BodyType
<1> HIDE DEF ended
<1>6. /\ [body EXCEPT !.in_table = TRUE] \in BodyType
      /\ [body EXCEPT !.in_table = TRUE].blocks = body.blocks
      /\ [body EXCEPT !.in_table = TRUE].open_ordered = body.open_ordered
      /\ [body EXCEPT !.row_is_header = TRUE] \in BodyType
      /\ [body EXCEPT !.row_is_header = TRUE].blocks = body.blocks
      /\ [body EXCEPT !.row_is_header = TRUE].open_ordered = body.open_ordered
  BY <1>1 DEF BodyType
<1>7. \/ body' = ended
      \/ body' = [body EXCEPT !.in_table = TRUE]
      \/ body' = [body EXCEPT !.row_is_header = TRUE]
  BY <1>3 DEF TableWord, Live
<1>8. body' \in BodyType /\ body'.blocks = body.blocks /\ body'.open_ordered = body.open_ordered
  BY <1>5, <1>6, <1>7
<1> QED
  BY <1>1, <1>8, OtherFields DEF BodySound

\* A paragraph's properties stay numbers.
LEMMA ParaKept ==
    ASSUME RtfSound, RtfNext
    PROVE  para' \in Para
<1>1. para \in Para /\ source \in Seq(Token)
  BY DEF RtfSound, RtfTypeOK
<1>2. CASE ParagraphWord
  <2>1. pos \in Positions
    <3>1. ~EndOfSource
      <4>1. pos <= Len(source) /\ Len(source) \in Nat
        BY <1>1, <1>2, LenProperties DEF ParagraphWord, Live, ControlWord
      <4> QED
        BY <4>1 DEF EndOfSource
    <3> QED
      BY <3>1, GroupSteps DEF RtfSound
  <2>2. token \in Token
    BY <1>1, <2>1, ElementOfSeq DEF token, Positions
  <2>3. token.param \in Int
    BY <1>2, <2>2 DEF ParagraphWord, Token
  <2>4. /\ [para EXCEPT !.style_id = token.param] \in Para
        /\ [para EXCEPT !.outline_level = token.param] \in Para
        /\ [para EXCEPT !.list_id = token.param] \in Para
        /\ [para EXCEPT !.list_level = token.param] \in Para
    BY <1>1, <2>3 DEF Para
  <2>5. \/ para' = [para EXCEPT !.style_id = token.param]
        \/ para' = [para EXCEPT !.outline_level = token.param]
        \/ para' = [para EXCEPT !.list_id = token.param]
        \/ para' = [para EXCEPT !.list_level = token.param]
    BY <1>2 DEF ParagraphWord, Live
  <2> QED
    BY <2>4, <2>5
<1>3. CASE Pard
  BY <1>3 DEF Pard, Reset, Para
<1>4. CASE OpenGroup \/ CloseGroup
  <2>1. para' = para
    BY <1>4, Zenon DEF OpenGroup, CloseGroup
  <2> QED
    BY <1>1, <2>1
<1>5. CASE SkipLineBreak \/ Character \/ ControlSymbol \/ Ignorable \/ Destination \/ Metadata
           \/ StyleEntry \/ SkippedWord \/ Pict \/ Cell \/ TableWord \/ Par
  <2>1. para' = para
    BY <1>5 DEF SkipLineBreak, Character, ControlSymbol, Ignorable, Destination, Metadata,
                StyleEntry, SkippedWord, Pict, Cell, TableWord, Par
  <2> QED
    BY <1>1, <2>1
<1>6. CASE CharacterWord \/ ListText \/ FallbackLength \/ Unicode \/ NamedCharacter
           \/ UnknownWord \/ EndOfSource
  <2>1. para' = para
    BY <1>6 DEF CharacterWord, ListText, FallbackLength, Unicode, NamedCharacter, UnknownWord,
                EndOfSource
  <2> QED
    BY <1>1, <2>1
<1> QED
  BY <1>2, <1>3, <1>4, <1>5, <1>6 DEF RtfNext

\* Every step keeps the texts: those of the stylesheet, of the fields and of the body.
LEMMA TextsKept ==
    ASSUME RtfSound, RtfNext
    PROVE  sheet' \in Sheet /\ meta' \in SUBSET Field /\ BodySound(body')
<1>1. /\ source \in Seq(Token) /\ sheet \in Sheet /\ para \in Para /\ meta \in SUBSET Field
      /\ BodySound(body) /\ body \in BodyType /\ ListsGoOn(body)
  BY DEF RtfSound, RtfTypeOK, BodySound
<1>2. ASSUME ~EndOfSource PROVE pos \in Positions
  BY <1>2, GroupSteps DEF RtfSound
<1>3. ASSUME sheet' = sheet, meta' = meta, body' = body
      PROVE  sheet' \in Sheet /\ meta' \in SUBSET Field /\ BodySound(body')
  BY <1>1, <1>3
<1>4. CASE EndOfSource
  <2>1. sheet' = sheet /\ meta' = meta /\ body' = body
    BY <1>4 DEF EndOfSource
  <2> QED
    BY <1>3, <2>1
<1>5. CASE AppendText /\ ~EndOfSource
  BY <1>2, <1>5, TextAppended
<1>6. CASE OpenGroup
  <2>1. sheet' = sheet /\ meta' = meta /\ body' = body
    BY <1>6, Zenon DEF OpenGroup
  <2> QED
    BY <1>3, <2>1
<1>7. CASE CloseGroup
  <2>1. /\ sheet' = IF sheet.open THEN Finished(sheet) ELSE sheet
        /\ meta' = meta /\ body' = body
    BY <1>7, Zenon DEF CloseGroup
  <2> QED
    BY <1>1, <2>1, FinishedIs
<1>8. CASE (Character \/ ControlSymbol \/ Unicode \/ NamedCharacter) /\ ~EndOfSource
  <2>1. AppendText \/ (sheet' = sheet /\ meta' = meta /\ body' = body)
    BY <1>8 DEF Character, ControlSymbol, Unicode, NamedCharacter
  <2> QED
    BY <1>3, <1>5, <1>8, <2>1
<1>9. CASE SkipLineBreak \/ Ignorable \/ Destination \/ Metadata \/ SkippedWord \/ ParagraphWord
           \/ CharacterWord \/ ListText \/ FallbackLength \/ UnknownWord
  <2>1. sheet' = sheet /\ meta' = meta /\ body' = body
    BY <1>9 DEF SkipLineBreak, Ignorable, Destination, Metadata, SkippedWord, ParagraphWord,
                CharacterWord, ListText, FallbackLength, UnknownWord
  <2> QED
    BY <1>3, <2>1
<1>10. CASE StyleEntry /\ ~EndOfSource
  <2>1. token \in Token
    BY <1>1, <1>2, <1>10, ElementOfSeq DEF token, Positions
  <2>2. token.param # NoParam => [sheet EXCEPT !.open = TRUE, !.id = token.param] \in Sheet
    BY <1>1, <2>1 DEF Token, Sheet
  <2>3. sheet' \in Sheet /\ meta' = meta /\ body' = body
    BY <1>1, <1>10, <2>2 DEF StyleEntry
  <2> QED
    BY <1>1, <2>3
<1>11. CASE Pict
  <2> DEFINE b == FlushParagraph(body)
  <2>1. /\ sheet' = sheet /\ meta' = meta
        /\ body' = [b EXCEPT !.blocks = Append(@, Row("image", 1))]
    BY <1>11 DEF Pict
  <2>2. BodySound(b)
    BY <1>1, ParagraphFlushed
  <2> HIDE DEF b
  <2>3. BodySound([b EXCEPT !.blocks = Append(@, Row("image", 1))])
    BY <2>2, ImageAppended
  <2> QED
    BY <1>1, <2>1, <2>3
<1>12. CASE Cell
  <2>1. /\ sheet' = sheet /\ meta' = meta
        /\ body' = [body EXCEPT !.row_cells = Append(@, Trim(Texts(body.runs))),
                                !.runs = << >>, !.in_table = TRUE]
    BY <1>12 DEF Cell
  <2> QED
    BY <1>1, <2>1, CellEnded
<1>13. CASE TableWord
  <2>1. sheet' = sheet /\ meta' = meta
    BY <1>13 DEF TableWord
  <2> QED
    BY <1>1, <1>13, <2>1, TableWordRead
<1>14. CASE Par
  <2>1. /\ sheet' = sheet /\ meta' = meta
        /\ body' = IF body.in_table THEN body ELSE FlushParagraph(body)
    BY <1>14 DEF Par
  <2> QED
    BY <1>1, <2>1, ParagraphFlushed
<1>15. CASE Pard
  <2> DEFINE c == [body EXCEPT !.in_table = FALSE]
  <2>1. sheet' = sheet /\ meta' = meta /\ body' = c
    BY <1>15 DEF Pard
  <2>2. c \in BodyType /\ c.blocks = body.blocks /\ c.open_ordered = body.open_ordered
    BY <1>1 DEF BodyType
  <2> QED
    BY <1>1, <2>1, <2>2, OtherFields DEF BodySound
<1> QED
  BY <1>4, <1>6, <1>7, <1>8, <1>9, <1>10, <1>11, <1>12, <1>13, <1>14, <1>15 DEF RtfNext

\* Every step keeps the small state of the parser in its type.
LEMMA FlagsKept ==
    ASSUME RtfSound, RtfNext
    PROVE  fresh' \in BOOLEAN /\ skip_chars' \in Int
<1>1. /\ fresh \in BOOLEAN /\ skip_chars \in Int /\ g \in Group
  BY TopGroup DEF RtfSound, RtfTypeOK
<1>2. g.uc \in Int
  BY <1>1 DEF Group
<1>3. CASE OpenGroup \/ CloseGroup
  <2>1. fresh' \in BOOLEAN /\ skip_chars' = skip_chars
    BY <1>3, Zenon DEF OpenGroup, CloseGroup
  <2> QED
    BY <1>1, <2>1
<1>4. ASSUME ControlWord PROVE fresh' = FALSE
  BY <1>4 DEF ControlWord
<1>5. CASE SkipLineBreak \/ Character \/ ControlSymbol \/ Ignorable
  <2>1. (fresh' = fresh \/ fresh' = FALSE) /\ (skip_chars' = skip_chars \/ skip_chars' = skip_chars - 1)
    <3>1. CASE SkipLineBreak
      BY <3>1 DEF SkipLineBreak
    <3>2. CASE Character
      BY <3>2 DEF Character
    <3>3. CASE ControlSymbol \/ Ignorable
      BY <3>3 DEF ControlSymbol, Ignorable
    <3> QED
      BY <1>5, <3>1, <3>2, <3>3
  <2>2. fresh' \in BOOLEAN
    BY <1>1, <2>1
  <2>3. skip_chars - 1 \in Int
    BY <1>1
  <2> QED
    BY <1>1, <2>1, <2>2, <2>3
<1>6. CASE Destination \/ Metadata \/ StyleEntry \/ SkippedWord \/ UnknownWord
  BY <1>1, <1>4, <1>6 DEF Destination, Metadata, StyleEntry, SkippedWord, UnknownWord
<1>7. CASE Pict \/ Cell \/ TableWord \/ Par \/ Pard \/ ParagraphWord \/ CharacterWord
  BY <1>1, <1>4, <1>7 DEF Pict, Cell, TableWord, Par, Pard, ParagraphWord, CharacterWord, Live
<1>8. CASE ListText \/ FallbackLength \/ Unicode \/ NamedCharacter
  <2>1. ControlWord /\ (skip_chars' = skip_chars \/ skip_chars' = Fallback)
    BY <1>8 DEF ListText, FallbackLength, Unicode, NamedCharacter, Live
  <2> QED
    BY <1>1, <1>2, <1>4, <2>1 DEF Fallback
<1>9. CASE EndOfSource
  BY <1>1, <1>9 DEF EndOfSource
<1> QED
  BY <1>3, <1>5, <1>6, <1>7, <1>8, <1>9 DEF RtfNext

\* The source and its list table are only read.
LEMMA SourceKept ==
    ASSUME RtfNext
    PROVE  source' = source /\ lists' = lists
<1>1. CASE OpenGroup \/ CloseGroup
  BY <1>1, Zenon DEF OpenGroup, CloseGroup, Advance
<1>2. CASE SkipLineBreak \/ Character \/ ControlSymbol \/ Ignorable
  BY <1>2 DEF SkipLineBreak, Character, ControlSymbol, Ignorable, Advance
<1>3. CASE Destination \/ Metadata \/ StyleEntry \/ SkippedWord \/ UnknownWord
  BY <1>3 DEF Destination, Metadata, StyleEntry, SkippedWord, UnknownWord, ControlWord, Advance
<1>4. CASE Pict \/ Cell \/ TableWord \/ Par \/ Pard \/ ParagraphWord \/ CharacterWord
  BY <1>4 DEF Pict, Cell, TableWord, Par, Pard, ParagraphWord, CharacterWord, Live, ControlWord,
              Advance
<1>5. CASE ListText \/ FallbackLength \/ Unicode \/ NamedCharacter
  BY <1>5 DEF ListText, FallbackLength, Unicode, NamedCharacter, Live, ControlWord, Advance
<1>6. CASE EndOfSource
  BY <1>6 DEF EndOfSource
<1> QED
  BY <1>1, <1>2, <1>3, <1>4, <1>5, <1>6 DEF RtfNext

\* Every token keeps what the reader's variables hold.
LEMMA SoundKept ==
    ASSUME RtfSound, RtfNext, scopes' = scopes
    PROVE  RtfSound'
<1>1. source' = source
  BY SourceKept
<1>2. /\ RtfTypeOK /\ ScopesOK /\ GroupsOK
      /\ source \in Seq(Token) /\ Len(source) \in Nat /\ pos \in 1 .. Len(source) + 2
  BY LenProperties DEF RtfSound, RtfTypeOK
<1>3. GroupsOK' /\ stack' \in Seq(Group) /\ stack' # << >>
  BY <1>1, <1>2, GroupsKept
<1>4. pos' \in 1 .. Len(source) + 2
  <2>1. CASE EndOfSource
    BY <1>2, <2>1 DEF EndOfSource
  <2>2. CASE ~EndOfSource
    <3>1. pos \in Positions /\ pos' = pos + 1
      BY <1>2, <2>2, GroupSteps
    <3> QED
      BY <1>2, <3>1 DEF Positions
  <2> QED
    BY <2>1, <2>2
<1>5. para' \in Para /\ fresh' \in BOOLEAN /\ skip_chars' \in Int
      /\ sheet' \in Sheet /\ meta' \in SUBSET Field /\ BodySound(body')
  BY ParaKept, FlagsKept, TextsKept
<1>6. Sheet' = Sheet /\ Field' = Field /\ BodyType' = BodyType /\ ScopesOK' = ScopesOK
  BY <1>1, SameScopes, SameTypes
<1>7. Para' = Para /\ Group' = Group /\ Token' = Token
  BY DEF Para, Group, Token, Key
<1>8. RtfTypeOK'
  BY <1>1, <1>2, <1>3, <1>4, <1>5, <1>6, <1>7 DEF RtfTypeOK
<1>9. BodySound(body)'
  <2>1. body' \in BodyType /\ ListsGoOn(body')
    BY <1>5 DEF BodySound
  <2>2. ListsGoOn(body)' <=> ListsGoOn(body')
    BY DEF ListsGoOn, Interrupted, Interrupts, ListsOpen, ItemsListed, ListOver, ListLevel
  <2> QED
    BY <1>6, <2>1, <2>2 DEF BodySound
<1> QED
  BY <1>2, <1>3, <1>6, <1>8, <1>9 DEF RtfSound

-----------------------------------------------------------------------------
(* The rows.                                                               *)

ValueRow == {r \in RowType : r.kind = "value" /\ r.type = "inlines"}

\* The blocks and the metadata that are emitted, each with its inlines.
Emitted(blocks) == [n \in DOMAIN blocks |-> Flattened(blocks[n])]

\* The rows are those of the blocks and, behind them, of the metadata; each
\* item among the blocks has a list unless something interrupts the lists.
RowsSound ==
    Done => \E blocks \in Seq(Block), values \in Seq(ValueRow) :
               /\ rows = FlattenSeq(Emitted(blocks \o values))
               /\ Interrupted(blocks) \/ ItemsListed(blocks)

\* The row of a field.
LEMMA MetaRowIs ==
    ASSUME meta \in SUBSET Field, NEW key \in Key
    PROVE  MetaRow(key) \in Seq(ValueRow)
<1> DEFINE captured == {m \in meta : m.key = key}
           value == Trim((CHOOSE m \in captured : TRUE).text)
           row == [Row("inlines", 1) EXCEPT !.kind = "value", !.key = key]
           inline == [type |-> "text", text |-> value]
           held == [row EXCEPT !.inlines = <<inline>>]
<1>1. row \in ValueRow
  <2>1. Row("inlines", 1) \in RowType /\ Row("inlines", 1).type = "inlines"
    BY RowGives DEF RowName, Block, BlockRow
  <2> QED
    BY <2>1 DEF RowType, ValueRow
<1>2. CASE captured = {}
  BY <1>2, EmptySeq DEF MetaRow
<1>3. CASE captured # {} /\ value = << >>
  <2>1. MetaRow(key) = <<row>>
    BY <1>3 DEF MetaRow
  <2> HIDE DEF row
  <2>2. <<row>> \in Seq(ValueRow)
    BY <1>1
  <2> QED
    BY <2>1, <2>2
<1>4. CASE captured # {} /\ value # << >>
  <2>1. (CHOOSE m \in captured : TRUE) \in Field
    BY <1>4
  <2>2. value \in Seq(Positions)
    BY <2>1, TrimGives DEF Field
  <2>3. MetaRow(key) = <<held>>
    BY <1>4 DEF MetaRow
  <2> HIDE DEF value
  <2>4. inline \in Inline
    BY <2>2 DEF Inline, InlineName
  <2> HIDE DEF inline
  <2>5. <<inline>> \in Seq(Inline)
    BY <2>4
  <2> HIDE DEF row
  <2>6. held \in ValueRow
    <3> DEFINE s == <<inline>>
    <3>1. s \in Seq(Inline)
      BY <2>5
    <3> HIDE DEF s
    <3>2. [row EXCEPT !.inlines = s] \in ValueRow
      BY <1>1, <3>1 DEF ValueRow, RowType
    <3> QED
      BY <3>2 DEF s
  <2> HIDE DEF held
  <2>7. <<held>> \in Seq(ValueRow)
    BY <2>6
  <2> QED
    BY <2>3, <2>7
<1> QED
  BY <1>2, <1>3, <1>4

\* The rows of the metadata are values.
LEMMA MetaRowsAre ==
    ASSUME meta \in SUBSET Field
    PROVE  MetaRows \in Seq(ValueRow)
<1> DEFINE a == MetaRow("author")
           b == MetaRow("generator")
           c == MetaRow("subject")
           d == MetaRow("title")
<1>1. a \in Seq(ValueRow) /\ b \in Seq(ValueRow) /\ c \in Seq(ValueRow) /\ d \in Seq(ValueRow)
  BY MetaRowIs DEF Key, MetaWord
<1>2. MetaRows = a \o b \o c \o d
  BY DEF MetaRows
<1> HIDE DEF a, b, c, d
<1>3. a \o b \in Seq(ValueRow)
  BY <1>1, ConcatProperties
<1>4. a \o b \o c \in Seq(ValueRow)
  BY <1>1, <1>3, ConcatProperties
<1>5. a \o b \o c \o d \in Seq(ValueRow)
  BY <1>1, <1>4, ConcatProperties
<1> QED
  BY <1>2, <1>5

\* The end of the source emits the blocks and the metadata.
LEMMA RowsEmitted ==
    ASSUME RtfSound, EndOfSource
    PROVE  \E blocks \in Seq(Block), values \in Seq(ValueRow) :
              /\ rows' = FlattenSeq(Emitted(blocks \o values))
              /\ Interrupted(blocks) \/ ItemsListed(blocks)
<1> DEFINE flushed == FlushParagraph(body)
           ended == FlushTable(flushed)
           blocks == BlocksAtEnd
           values == MetaRows
<1>1. BodySound(flushed)
  BY ParagraphFlushed DEF RtfSound, RtfTypeOK
<1>2. BodySound(ended)
  <2> HIDE DEF flushed
  <2> QED
    BY <1>1, TableFlushed
<1>3. blocks = ended.blocks
  BY DEF BlocksAtEnd
<1> HIDE DEF ended
<1>4. blocks \in Seq(Block) /\ (Interrupted(blocks) \/ ItemsListed(blocks))
  BY <1>2, <1>3, BodyFields DEF BodySound, ListsGoOn
<1>5. values \in Seq(ValueRow)
  BY MetaRowsAre DEF RtfSound, RtfTypeOK
<1>6. rows' = FlattenSeq(Emitted(blocks \o values))
  BY DEF EndOfSource, Emitted
<1> HIDE DEF blocks, values
<1> QED
  BY <1>4, <1>5, <1>6

\* Rows are emitted at the end of the source only, and stay.
LEMMA RowsKept ==
    ASSUME RtfSound, RtfNext, scopes' = scopes
    PROVE  RowsSound'
<1>1. source' = source
  BY SourceKept
<1>2. /\ RtfTypeOK /\ Len(source) \in Nat
  BY LenProperties DEF RtfSound, RtfTypeOK
<1>3. CASE EndOfSource
  <2>1. Block' = Block /\ ValueRow' = ValueRow
    <3>1. Positions' = Positions
      BY <1>1, SameScopes
    <3>2. Inline' = Inline
      BY <3>1 DEF Inline
    <3>3. RowType' = RowType
      BY <3>1, <3>2 DEF RowType
    <3>4. ValueRow' = ValueRow
      BY <3>3 DEF ValueRow
    <3> QED
      BY <1>1, <3>4, SameTypes
  <2>2. PICK blocks \in Seq(Block), values \in Seq(ValueRow) :
              /\ rows' = FlattenSeq(Emitted(blocks \o values))
              /\ Interrupted(blocks) \/ ItemsListed(blocks)
    BY <1>3, RowsEmitted
  <2>3. blocks \in Seq(Block') /\ values \in Seq(ValueRow')
    BY <2>1
  <2>4. (FlattenSeq(Emitted(blocks \o values)))' = FlattenSeq(Emitted(blocks \o values))
    OBVIOUS
  <2>5. /\ Interrupted(blocks)' <=> Interrupted(blocks)
        /\ ItemsListed(blocks)' <=> ItemsListed(blocks)
    OBVIOUS
  <2> QED
    BY <2>2, <2>3, <2>4, <2>5 DEF RowsSound
<1>4. CASE ~EndOfSource
  <2>1. pos \in Positions /\ pos' = pos + 1
    BY <1>2, <1>4, GroupSteps
  <2>2. pos' # Len(source') + 2
    BY <1>1, <1>2, <2>1 DEF Positions
  <2> QED
    BY <2>2 DEF RowsSound, Done
<1> QED
  BY <1>3, <1>4

\* A block is emitted with a row for each of its inlines behind it.
LEMMA FlattenedIs ==
    ASSUME NEW block \in RowType
    PROVE  LET flat == Flattened(block)
           IN  /\ flat \in Seq(RowType) /\ Len(flat) = Len(block.inlines) + 1
               /\ flat[1] = [block EXCEPT !.inlines = << >>]
               /\ \A k \in 1 .. Len(block.inlines) : flat[1 + k] = InlineRow(block, block.inlines[k])
<1> DEFINE head == [block EXCEPT !.inlines = << >>]
           one == <<head>>
           inlines == block.inlines
           rest == [n \in DOMAIN inlines |-> InlineRow(block, inlines[n])]
<1>1. inlines \in Seq(Inline) /\ block.level \in Int
  BY DEF RowType
<1>2. Len(inlines) \in Nat /\ DOMAIN inlines = 1 .. Len(inlines)
  BY <1>1, LenProperties
<1>3. head \in RowType
  BY EmptySeq DEF RowType
<1>4. \A n \in 1 .. Len(inlines) : InlineRow(block, inlines[n]) \in RowType
  <2> TAKE n \in 1 .. Len(inlines)
  <2> DEFINE inline == inlines[n]
  <2>1. inline \in Inline
    BY <1>1, ElementOfSeq
  <2> HIDE DEF inline
  <2>2. inline.type \in InlineName /\ inline.text \in Seq(Positions)
    BY <2>1 DEF Inline
  <2>3. block.level + 1 \in Int
    BY <1>1
  <2>4. Row(inline.type, block.level + 1) \in RowType
    BY <2>2, <2>3, RowIs
  <2>5. InlineRow(block, inline) \in RowType
    BY <2>2, <2>4 DEF InlineRow, RowType
  <2> QED
    BY <2>5 DEF inline
<1> HIDE DEF head, inlines
<1>5. rest \in [1 .. Len(inlines) -> RowType] /\ \A n \in 1 .. Len(inlines) : rest[n] = InlineRow(block, inlines[n])
  BY <1>2, <1>4
<1> HIDE DEF rest
<1>6. rest \in Seq(RowType) /\ Len(rest) = Len(inlines)
  BY <1>2, <1>5, Places
<1>7. one \in Seq(RowType) /\ Len(one) = 1 /\ one[1] = head
  BY <1>3
<1> HIDE DEF one
<1>8. /\ one \o rest \in Seq(RowType) /\ Len(one \o rest) = Len(one) + Len(rest)
      /\ \A i \in 1 .. Len(one) + Len(rest) :
             (one \o rest)[i] = IF i <= Len(one) THEN one[i] ELSE rest[i - Len(one)]
  BY <1>6, <1>7, ConcatProperties
<1> DEFINE flat == one \o rest
<1>9. /\ flat \in Seq(RowType) /\ Len(flat) = 1 + Len(inlines)
      /\ \A i \in 1 .. 1 + Len(inlines) : flat[i] = IF i <= 1 THEN one[i] ELSE rest[i - 1]
  BY <1>6, <1>7, <1>8
<1> HIDE DEF flat
<1>10. flat[1] = head /\ Len(flat) = Len(inlines) + 1
  <2>1. 1 \in 1 .. 1 + Len(inlines) /\ 1 + Len(inlines) = Len(inlines) + 1 /\ 1 <= 1
    BY <1>2
  <2>2. flat[1] = one[1]
    BY <1>9, <2>1
  <2> QED
    BY <1>7, <1>9, <2>1, <2>2
<1>11. \A k \in 1 .. Len(inlines) : flat[1 + k] = InlineRow(block, inlines[k])
  <2> TAKE k \in 1 .. Len(inlines)
  <2>1. 1 + k \in 1 .. 1 + Len(inlines) /\ ~(1 + k <= 1) /\ (1 + k) - 1 = k
    BY <1>2
  <2>2. flat[1 + k] = rest[k]
    BY <1>9, <2>1
  <2> QED
    BY <1>5, <2>2
<1>12. Flattened(block) = flat
  BY DEF Flattened, flat, one, head, rest, inlines
<1> QED
  BY <1>9, <1>10, <1>11, <1>12 DEF head, inlines

\* Where the rows of the blocks bs stand: those of block b from places[b - 1] + 1
\* to places[b], its own row first.
StandAt(bs, places) ==
    /\ bs \in Seq(RowType) /\ rows \in Seq(RowType)
    /\ places \in [0 .. Len(bs) -> Nat]
    /\ \A b \in 1 .. Len(bs) : places[b] = places[b - 1] + (Len(bs[b].inlines) + 1)
    /\ \A a \in 0 .. Len(bs) : \A b \in a .. Len(bs) : places[a] <= places[b]
    /\ \A n \in 1 .. Len(rows) : \E b \in 1 .. Len(bs) : \E k \in 0 .. Len(bs[b].inlines) :
           n = (places[b - 1] + 1) + k
    /\ \A b \in 1 .. Len(bs) :
           /\ places[b - 1] + 1 \in 1 .. Len(rows)
           /\ rows[places[b - 1] + 1] = [bs[b] EXCEPT !.inlines = << >>]
           /\ \A k \in 1 .. Len(bs[b].inlines) :
                  rows[(places[b - 1] + 1) + k] = InlineRow(bs[b], bs[b].inlines[k])

\* Rows that are emitted stand like that.
LEMMA RowsStand ==
    ASSUME NEW bs \in Seq(RowType), rows = FlattenSeq(Emitted(bs))
    PROVE  \E places : StandAt(bs, places)
<1> DEFINE parts == Emitted(bs)
           S == Seq(RowType)
<1>1. Len(bs) \in Nat /\ DOMAIN bs = 1 .. Len(bs) /\ \A b \in 1 .. Len(bs) : bs[b] \in RowType
  BY LenProperties, ElementOfSeq
<1>2. ASSUME NEW b \in 1 .. Len(bs)
      PROVE  /\ Flattened(bs[b]) \in S /\ Len(Flattened(bs[b])) = Len(bs[b].inlines) + 1
             /\ Flattened(bs[b])[1] = [bs[b] EXCEPT !.inlines = << >>]
             /\ \A k \in 1 .. Len(bs[b].inlines) :
                    Flattened(bs[b])[1 + k] = InlineRow(bs[b], bs[b].inlines[k])
             /\ Len(bs[b].inlines) \in Nat
  <2>1. bs[b].inlines \in Seq(Inline)
    BY <1>1 DEF RowType
  <2> QED
    BY <1>1, <2>1, FlattenedIs, LenProperties
<1>3. parts \in [1 .. Len(bs) -> S]
  BY <1>1, <1>2 DEF Emitted
<1>4. \A b \in 1 .. Len(bs) : parts[b] = Flattened(bs[b])
  BY <1>1 DEF Emitted
<1> HIDE DEF parts, S
<1>5. parts \in Seq(S) /\ Len(parts) = Len(bs)
  BY <1>1, <1>3, Places
<1>6. parts \in Seq(Seq(RowType))
  BY <1>5 DEF S
<1>7. rows \in Seq(RowType) /\ \E places : PartsAt(parts, places, rows)
  <2>1. rows = FlattenSeq(parts)
    BY DEF parts
  <2> QED
    BY <1>6, <2>1, Flattening
<1>8. PICK places : PartsAt(parts, places, rows)
  BY <1>7
<1>9. \A b \in 1 .. Len(parts) : Len(parts[b]) = Len(bs[b].inlines) + 1 /\ Len(parts[b]) \in Nat
  <2> TAKE b \in 1 .. Len(parts)
  <2>1. b \in 1 .. Len(bs)
    BY <1>5
  <2>2. parts[b] = Flattened(bs[b]) /\ Len(bs[b].inlines) \in Nat
        /\ Len(Flattened(bs[b])) = Len(bs[b].inlines) + 1
    BY <1>2, <1>4, <2>1
  <2> QED
    BY <2>2
<1>10. /\ places \in [0 .. Len(bs) -> Nat]
       /\ \A b \in 1 .. Len(bs) : places[b] = places[b - 1] + (Len(bs[b].inlines) + 1)
       /\ Len(rows) = places[Len(bs)]
  BY <1>5, <1>8, <1>9 DEF PartsAt
<1>11. ASSUME NEW a \in 0 .. Len(bs), NEW b \in a .. Len(bs) PROVE places[a] <= places[b]
  <2>1. /\ Len(parts) \in Nat /\ a \in 0 .. Len(parts) /\ b \in a .. Len(parts)
        /\ \A c \in 1 .. Len(parts) : Len(parts[c]) \in Nat
    BY <1>1, <1>5, <1>9
  <2> QED
    BY <1>8, <2>1, PlacesGrow
<1>12. ASSUME NEW n \in 1 .. Len(rows)
       PROVE  \E b \in 1 .. Len(bs) : \E k \in 0 .. Len(bs[b].inlines) :
                 n = (places[b - 1] + 1) + k
  <2>1. Len(parts) \in Nat /\ \A c \in 1 .. Len(parts) : Len(parts[c]) \in Nat
    BY <1>1, <1>5, <1>9
  <2>2. PICK b \in 1 .. Len(parts) : \E k \in 1 .. Len(parts[b]) :
            n = places[b - 1] + k /\ rows[n] = parts[b][k]
    <3> DEFINE flat == rows
    <3>1. PartsAt(parts, places, flat) /\ n \in 1 .. Len(flat)
      BY <1>8
    <3> HIDE DEF flat
    <3>2. \E b \in 1 .. Len(parts) : \E k \in 1 .. Len(parts[b]) :
              n = places[b - 1] + k /\ flat[n] = parts[b][k]
      BY <2>1, <3>1, InPart DEF StandsIn
    <3> QED
      BY <3>2 DEF flat
  <2>3. PICK k \in 1 .. Len(parts[b]) : n = places[b - 1] + k
    BY <2>2
  <2>4. b \in 1 .. Len(bs) /\ Len(parts[b]) = Len(bs[b].inlines) + 1 /\ Len(bs[b].inlines) \in Nat
        /\ places[b - 1] \in Nat
    <3>1. b \in 1 .. Len(bs) /\ b - 1 \in 0 .. Len(bs)
      BY <1>1, <1>5
    <3> QED
      BY <1>2, <1>9, <1>10, <3>1
  <2>5. k - 1 \in 0 .. Len(bs[b].inlines) /\ n = (places[b - 1] + 1) + (k - 1)
    BY <2>3, <2>4
  <2> QED
    BY <2>4, <2>5
<1>13. ASSUME NEW b \in 1 .. Len(bs)
       PROVE  /\ places[b - 1] + 1 \in 1 .. Len(rows)
              /\ rows[places[b - 1] + 1] = [bs[b] EXCEPT !.inlines = << >>]
              /\ \A k \in 1 .. Len(bs[b].inlines) :
                     rows[(places[b - 1] + 1) + k] = InlineRow(bs[b], bs[b].inlines[k])
  <2>1. b \in 1 .. Len(parts) /\ b - 1 \in 0 .. Len(bs) /\ b \in 0 .. Len(bs) /\ Len(bs) \in b .. Len(bs)
        /\ Len(bs[b].inlines) \in Nat /\ Len(bs) \in 0 .. Len(bs)
    BY <1>1, <1>2, <1>5
  <2>2. parts[b] = Flattened(bs[b]) /\ Len(parts[b]) = Len(bs[b].inlines) + 1
    BY <1>4, <1>9, <2>1
  <2>3. \A k \in 1 .. Len(parts[b]) : rows[places[b - 1] + k] = parts[b][k]
    BY <1>8, <2>1 DEF PartsAt
  <2>4. 1 \in 1 .. Len(parts[b]) /\ \A k \in 1 .. Len(bs[b].inlines) : 1 + k \in 1 .. Len(parts[b])
    BY <2>1, <2>2
  <2>5. rows[places[b - 1] + 1] = [bs[b] EXCEPT !.inlines = << >>]
    BY <1>2, <2>2, <2>3, <2>4
  <2>6. places[b - 1] \in Nat /\ places[b] \in Nat /\ places[Len(bs)] \in Nat
    BY <1>10, <2>1
  <2>7. \A k \in 1 .. Len(bs[b].inlines) :
            rows[(places[b - 1] + 1) + k] = InlineRow(bs[b], bs[b].inlines[k])
    <3> TAKE k \in 1 .. Len(bs[b].inlines)
    <3>1. rows[places[b - 1] + (1 + k)] = parts[b][1 + k]
      BY <2>3, <2>4
    <3>2. places[b - 1] + (1 + k) = (places[b - 1] + 1) + k
      BY <2>6
    <3>3. parts[b][1 + k] = InlineRow(bs[b], bs[b].inlines[k])
      BY <1>2, <2>2
    <3> QED
      BY <3>1, <3>2, <3>3
  <2>8. places[b - 1] + 1 \in 1 .. Len(rows)
    <3>1. places[b] <= places[Len(bs)]
      BY <1>11, <2>1
    <3>2. places[b] = places[b - 1] + (Len(bs[b].inlines) + 1)
      BY <1>10
    <3> QED
      BY <1>10, <2>1, <2>6, <3>1, <3>2
  <2> QED
    BY <2>5, <2>7, <2>8
<1>14. StandAt(bs, places)
  BY <1>7, <1>10, <1>11, <1>12, <1>13 DEF StandAt
<1> QED
  BY <1>14

\* The types of what stands among the rows.
LEMMA StandGives ==
    ASSUME NEW bs, NEW places, StandAt(bs, places), NEW b \in 1 .. Len(bs)
    PROVE  /\ bs[b] \in RowType /\ b - 1 \in 0 .. Len(bs) /\ places[b - 1] \in Nat
           /\ Len(bs) \in Nat /\ bs[b].inlines \in Seq(Inline) /\ Len(bs[b].inlines) \in Nat
           /\ \A k \in 1 .. Len(bs[b].inlines) : bs[b].inlines[k] \in Inline
<1>1. bs \in Seq(RowType) /\ places \in [0 .. Len(bs) -> Nat]
  BY DEF StandAt
<1>2. Len(bs) \in Nat /\ bs[b] \in RowType
  BY <1>1, LenProperties, ElementOfSeq
<1>3. b - 1 \in 0 .. Len(bs) /\ places[b - 1] \in Nat
  BY <1>1, <1>2
<1>4. bs[b].inlines \in Seq(Inline)
  BY <1>2 DEF RowType
<1> QED
  BY <1>2, <1>3, <1>4, LenProperties, ElementOfSeq

\* The fields of an inline's row.
LEMMA InlineRowIs ==
    ASSUME NEW block, NEW inline
    PROVE  /\ InlineRow(block, inline).kind = "inline"
           /\ InlineRow(block, inline).type = inline.type
           /\ InlineRow(block, inline).level = block.level + 1
           /\ InlineRow(block, inline).content = inline.text
  BY DEF InlineRow, Row

\* A block's own row comes before its inlines.
LEMMA OwnRow ==
    ASSUME NEW bs, NEW places, StandAt(bs, places), NEW b \in 1 .. Len(bs)
    PROVE  LET r == rows[places[b - 1] + 1]
           IN  /\ places[b - 1] + 1 \in 1 .. Len(rows)
               /\ r.kind = bs[b].kind /\ r.type = bs[b].type /\ r.level = bs[b].level
               /\ r.content = bs[b].content
<1>1. /\ places[b - 1] + 1 \in 1 .. Len(rows)
      /\ rows[places[b - 1] + 1] = [bs[b] EXCEPT !.inlines = << >>]
  BY DEF StandAt
<1>2. bs[b] \in RowType
  BY StandGives
<1>3. LET r == [bs[b] EXCEPT !.inlines = << >>]
      IN  /\ r.kind = bs[b].kind /\ r.type = bs[b].type /\ r.level = bs[b].level
          /\ r.content = bs[b].content
  BY <1>2 DEF RowType
<1> QED
  BY <1>1, <1>3

\* The row of an inline belongs to the nearest row before it that is none.
LEMMA BlockOfIs ==
    ASSUME NEW bs, NEW places, StandAt(bs, places), NEW b \in 1 .. Len(bs),
           NEW k \in 0 .. Len(bs[b].inlines), bs[b].kind # "inline"
    PROVE  BlockOf((places[b - 1] + 1) + k) = places[b - 1] + 1
<1> DEFINE head == places[b - 1] + 1
           n == head + k
           S == {m \in 1 .. n : rows[m].kind # "inline"}
<1>1. places[b - 1] \in Nat /\ Len(bs[b].inlines) \in Nat
  BY StandGives
<1>2. head \in Nat /\ head >= 1 /\ n \in Nat /\ head <= n
  BY <1>1
<1>3. rows[head].kind # "inline"
  BY OwnRow
<1>4. \A j \in 1 .. k : rows[head + j].kind = "inline"
  <2> TAKE j \in 1 .. k
  <2>1. j \in 1 .. Len(bs[b].inlines)
    BY <1>1
  <2>2. rows[head + j] = InlineRow(bs[b], bs[b].inlines[j])
    BY <2>1 DEF StandAt
  <2> QED
    BY <2>2, InlineRowIs
<1> HIDE DEF head
<1>5. S \in SUBSET Nat /\ head \in S /\ \A m \in S : m <= n
  BY <1>2, <1>3
<1>6. \A m \in S : m <= head
  <2> SUFFICES ASSUME NEW m \in S, ~(m <= head) PROVE FALSE
    OBVIOUS
  <2>1. m - head \in 1 .. k /\ head + (m - head) = m
    BY <1>2
  <2>2. rows[m].kind = "inline"
    BY <1>4, <2>1
  <2> QED
    BY <2>2
<1>7. Max(S) = head
  <2> HIDE DEF S, n
  <2>1. Max(S) \in S /\ \A m \in S : m <= Max(S)
    BY <1>2, <1>5, GreatestOf
  <2>2. Max(S) \in Nat /\ Max(S) <= head /\ head <= Max(S)
    BY <1>5, <1>6, <2>1
  <2> QED
    BY <1>2, <2>2
<1>8. BlockOf(n) = Max(S)
  BY DEF BlockOf
<1> QED
  BY <1>7, <1>8 DEF head

\* What RowsSound says, with the places of the rows.
RowsFrom(blocks, values, places) ==
    /\ blocks \in Seq(Block) /\ values \in Seq(ValueRow)
    /\ StandAt(blocks \o values, places)
    /\ Interrupted(blocks) \/ ItemsListed(blocks)

\* When the reader is done, its rows are those of some blocks and values.
LEMMA RowsAreFrom ==
    ASSUME RowsSound, Done
    PROVE  \E blocks, values, places : RowsFrom(blocks, values, places)
<1>1. PICK blocks \in Seq(Block), values \in Seq(ValueRow) :
               /\ rows = FlattenSeq(Emitted(blocks \o values))
               /\ Interrupted(blocks) \/ ItemsListed(blocks)
  BY DEF RowsSound
<1> DEFINE bs == blocks \o values
<1>2. bs \in Seq(RowType)
  <2>1. Block \subseteq RowType /\ ValueRow \subseteq RowType
    BY DEF Block, BlockRow, ValueRow
  <2>2. blocks \in Seq(RowType) /\ values \in Seq(RowType)
    <3>1. Len(blocks) \in Nat /\ Len(values) \in Nat
          /\ blocks \in [1 .. Len(blocks) -> Block] /\ values \in [1 .. Len(values) -> ValueRow]
      BY LenProperties
    <3>2. blocks \in [1 .. Len(blocks) -> RowType] /\ values \in [1 .. Len(values) -> RowType]
      BY <2>1, <3>1
    <3> QED
      BY <3>1, <3>2, Places
  <2> QED
    BY <2>2, ConcatProperties
<1>3. rows = FlattenSeq(Emitted(bs))
  BY <1>1
<1> HIDE DEF bs
<1>4. \E places : StandAt(bs, places)
  BY <1>2, <1>3, RowsStand
<1> QED
  BY <1>1, <1>4 DEF RowsFrom, bs

\* Blocks come first, and neither they nor the values are inlines.
LEMMA FromBlocks ==
    ASSUME NEW blocks, NEW values, NEW places, RowsFrom(blocks, values, places)
    PROVE  LET bs == blocks \o values
           IN  /\ Len(blocks) \in Nat /\ Len(bs) = Len(blocks) + Len(values) /\ Len(values) \in Nat
               /\ \A b \in 1 .. Len(blocks) : b \in 1 .. Len(bs) /\ bs[b] = blocks[b] /\ bs[b] \in Block
               /\ \A b \in 1 .. Len(bs) :
                      b \notin 1 .. Len(blocks) => bs[b].kind = "value" /\ bs[b].type = "inlines"
               /\ \A b \in 1 .. Len(bs) : bs[b].kind # "inline"
<1>1. blocks \in Seq(Block) /\ values \in Seq(ValueRow)
  BY DEF RowsFrom
<1>2. Len(blocks) \in Nat /\ Len(values) \in Nat
  BY <1>1, LenProperties
<1> DEFINE bs == blocks \o values
           T == Block \cup ValueRow
<1>3. blocks \in Seq(T) /\ values \in Seq(T)
  <2>1. blocks \in [1 .. Len(blocks) -> Block] /\ values \in [1 .. Len(values) -> ValueRow]
    BY <1>1, LenProperties
  <2>2. blocks \in [1 .. Len(blocks) -> T] /\ values \in [1 .. Len(values) -> T]
    BY <2>1
  <2> HIDE DEF T
  <2> QED
    BY <1>2, <2>2, Places
<1>4. /\ Len(bs) = Len(blocks) + Len(values)
      /\ \A b \in 1 .. Len(blocks) + Len(values) :
             bs[b] = IF b <= Len(blocks) THEN blocks[b] ELSE values[b - Len(blocks)]
  <2> HIDE DEF T
  <2> QED
    BY <1>3, ConcatProperties
<1> HIDE DEF bs
<1>5. \A b \in 1 .. Len(blocks) : b \in 1 .. Len(bs) /\ bs[b] = blocks[b] /\ bs[b] \in Block
  <2> TAKE b \in 1 .. Len(blocks)
  <2>1. b \in 1 .. Len(blocks) + Len(values) /\ b <= Len(blocks)
    BY <1>2
  <2>2. blocks[b] \in Block
    BY <1>1, ElementOfSeq
  <2> QED
    BY <1>4, <2>1, <2>2
<1>6. \A b \in 1 .. Len(bs) : b \notin 1 .. Len(blocks) => bs[b].kind = "value" /\ bs[b].type = "inlines"
  <2> SUFFICES ASSUME NEW b \in 1 .. Len(bs), b \notin 1 .. Len(blocks)
               PROVE  bs[b].kind = "value" /\ bs[b].type = "inlines"
    OBVIOUS
  <2> DEFINE v == b - Len(blocks)
  <2>1. /\ b \in 1 .. Len(blocks) + Len(values) /\ ~(b <= Len(blocks))
        /\ v \in 1 .. Len(values)
    BY <1>2, <1>4
  <2>2. bs[b] = values[v]
    BY <1>4, <2>1
  <2>3. values[v] \in ValueRow
    BY <1>1, <2>1, ElementOfSeq
  <2> QED
    BY <2>2, <2>3 DEF ValueRow
<1>7. \A b \in 1 .. Len(bs) : bs[b].kind # "inline"
  <2> TAKE b \in 1 .. Len(bs)
  <2>1. CASE b \in 1 .. Len(blocks)
    BY <1>5, <2>1, BlockIs
  <2>2. CASE b \notin 1 .. Len(blocks)
    BY <1>6, <2>2
  <2> QED
    BY <2>1, <2>2
<1> QED
  BY <1>2, <1>4, <1>5, <1>6, <1>7 DEF bs

\* The rows of the body are rows before any of the metadata.
LEMMA BodyRowsAre ==
    ASSUME rows \in Seq(RowType), NEW n \in DOMAIN BodyRows
    PROVE  /\ n \in 1 .. Len(rows) /\ BodyRows[n] = rows[n]
           /\ \A m \in 1 .. n : rows[m].kind # "value"
<1> DEFINE values == {m \in DOMAIN rows : rows[m].kind = "value"}
<1>1. Len(rows) \in Nat /\ DOMAIN rows = 1 .. Len(rows)
  BY LenProperties
<1>2. CASE values = {}
  <2>1. BodyRows = rows
    BY <1>2 DEF BodyRows
  <2>2. n \in 1 .. Len(rows) /\ \A m \in 1 .. n : m \in 1 .. Len(rows)
    BY <1>1, <2>1
  <2> QED
    BY <1>1, <1>2, <2>1, <2>2
<1>3. CASE values # {}
  <2>1. values \in SUBSET Nat
    BY <1>1
  <2> DEFINE first == Min(values)
  <2>2. first \in values /\ \A m \in values : first <= m
    <3> HIDE DEF values
    <3> QED
      BY <1>3, <2>1, SmallestOf
  <2>3. first \in 1 .. Len(rows)
    BY <1>1, <2>2
  <2>4. BodyRows = SubSeq(rows, 1, first - 1)
    BY <1>3 DEF BodyRows
  <2> HIDE DEF first
  <2>5. first - 1 \in Int /\ \A i \in 1 .. first - 1 : i \in 1 .. Len(rows)
    BY <1>1, <2>3
  <2>6. \A i \in 1 .. first - 1 : rows[i] \in RowType
    BY <2>5, ElementOfSeq
  <2> DEFINE l == first - 1
             s == SubSeq(rows, 1, l)
  <2>7. l \in Int /\ \A i \in 1 .. l : rows[i] \in RowType
    BY <2>5, <2>6
  <2> HIDE DEF l
  <2>8. /\ s \in Seq(RowType) /\ Len(s) = (IF 1 <= l THEN l - 1 + 1 ELSE 0)
        /\ \A i \in 1 .. l - 1 + 1 : s[i] = rows[1 + i - 1]
    BY <2>7, SubSeqProperties
  <2>9. BodyRows = s
    BY <2>4 DEF l
  <2> HIDE DEF s
  <2>10. n \in 1 .. Len(s) /\ l \in Nat
    BY <1>1, <2>3, <2>8, <2>9, LenProperties DEF l
  <2>11. n \in 1 .. l /\ n \in 1 .. l - 1 + 1 /\ 1 + n - 1 = n
    BY <2>8, <2>10
  <2>12. BodyRows[n] = rows[n]
    BY <2>8, <2>9, <2>11
  <2>13. ASSUME NEW m \in 1 .. n, rows[m].kind = "value" PROVE FALSE
    <3>1. m \in 1 .. first - 1 /\ m \in Nat
      <4>1. m \in 1 .. l /\ m \in Nat
        BY <2>10, <2>11
      <4> QED
        BY <4>1 DEF l
    <3>2. m \in values
      BY <1>1, <2>5, <2>13, <3>1
    <3>3. first <= m /\ first \in Nat
      BY <2>2, <2>3, <3>2
    <3> QED
      BY <3>1, <3>3
  <2> QED
    BY <2>5, <2>11, <2>12, <2>13 DEF l
<1> QED
  BY <1>2, <1>3

\* A row of the body is a block's own row or that of one of its inlines.
LEMMA BodyRowOf ==
    ASSUME NEW blocks, NEW values, NEW places, RowsFrom(blocks, values, places),
           NEW n \in DOMAIN BodyRows
    PROVE  LET bs == blocks \o values
           IN  /\ n \in 1 .. Len(rows) /\ BodyRows[n] = rows[n]
               /\ \E b \in 1 .. Len(blocks) : \E k \in 0 .. Len(bs[b].inlines) :
                      n = (places[b - 1] + 1) + k
<1> DEFINE bs == blocks \o values
<1>1. StandAt(bs, places)
  BY DEF RowsFrom
<1>2. /\ Len(blocks) \in Nat
      /\ \A b \in 1 .. Len(bs) : b \notin 1 .. Len(blocks) => bs[b].kind = "value"
  BY FromBlocks
<1> HIDE DEF bs
<1>3. rows \in Seq(RowType)
  BY <1>1 DEF StandAt
<1>4. /\ n \in 1 .. Len(rows) /\ BodyRows[n] = rows[n]
      /\ \A m \in 1 .. n : rows[m].kind # "value"
  BY <1>3, BodyRowsAre
<1>5. PICK b \in 1 .. Len(bs) : \E k \in 0 .. Len(bs[b].inlines) : n = (places[b - 1] + 1) + k
  BY <1>1, <1>4 DEF StandAt
<1>6. places[b - 1] \in Nat /\ Len(bs[b].inlines) \in Nat
  BY <1>1, StandGives
<1>7. places[b - 1] + 1 \in 1 .. n
  BY <1>5, <1>6
<1>8. rows[places[b - 1] + 1].kind = bs[b].kind
  BY <1>1, OwnRow
<1>9. b \in 1 .. Len(blocks)
  BY <1>2, <1>4, <1>7, <1>8
<1> QED
  BY <1>4, <1>5, <1>9 DEF bs

\* What the rows hold is scoped if the runs and blocks they were made from are.
LEMMA RowsAreScoped ==
    ASSUME RowsSound, source \in Seq(Token)
    PROVE  FormatsScoped
<1> SUFFICES ASSUME Done, NEW n \in DOMAIN BodyRows, NEW p \in shown,
                    Holds(rows[n], p), rows[BlockOf(n)].type # "heading"
             PROVE  IF rows[n].kind = "inline" THEN rows[n].type = ElementType(FormatAt(p))
                    ELSE FormatAt(p) = {}
  BY DEF FormatsScoped
<1>1. PICK blocks, values, places : RowsFrom(blocks, values, places)
  BY RowsAreFrom
<1> DEFINE bs == blocks \o values
<1>2. StandAt(bs, places)
  BY <1>1 DEF RowsFrom
<1>3. PICK b \in 1 .. Len(blocks) : \E k \in 0 .. Len(bs[b].inlines) :
          n = (places[b - 1] + 1) + k
  BY <1>1, BodyRowOf
<1>4. PICK k \in 0 .. Len(bs[b].inlines) : n = (places[b - 1] + 1) + k
  BY <1>3
<1>5. b \in 1 .. Len(bs) /\ bs[b] \in Block /\ bs[b].kind # "inline"
  BY <1>1, FromBlocks
<1> HIDE DEF bs
<1>6. places[b - 1] \in Nat
  BY <1>2, <1>5, StandGives
<1>7. BlockOf(n) = places[b - 1] + 1
  BY <1>2, <1>4, <1>5, BlockOfIs
<1>8. /\ rows[places[b - 1] + 1].kind = bs[b].kind
      /\ rows[places[b - 1] + 1].type = bs[b].type
      /\ rows[places[b - 1] + 1].content = bs[b].content
  BY <1>2, <1>5, OwnRow
<1>9. PICK i \in DOMAIN rows[n].content : rows[n].content[i] = p
  BY DEF Holds
<1>10. ASSUME NEW fmt, rows[n].content \in Seq(Formatted(fmt)) PROVE FormatAt(p) = fmt
  <2> DEFINE s == rows[n].content
             T == Formatted(fmt)
  <2>1. s \in Seq(T) /\ i \in DOMAIN s /\ s[i] = p
    BY <1>9, <1>10
  <2> HIDE DEF s, T
  <2>2. i \in 1 .. Len(s)
    BY <2>1, LenProperties
  <2>3. p \in T
    BY <2>1, <2>2, ElementOfSeq
  <2> QED
    BY <2>3 DEF T, Formatted
<1>11. CASE k = 0
  <2>1. n = places[b - 1] + 1
    BY <1>4, <1>6, <1>11
  <2>2. rows[n].kind # "inline" /\ bs[b].type # "heading" /\ rows[n].content = bs[b].content
    BY <1>5, <1>7, <1>8, <2>1
  <2>3. bs[b].content \in Seq(Formatted({}))
    BY <1>5, <2>2, BlockIs
  <2>4. FormatAt(p) = {}
    BY <1>10, <2>2, <2>3
  <2> QED
    BY <2>2, <2>4
<1>12. CASE k # 0
  <2>0. Len(bs[b].inlines) \in Nat
    BY <1>2, <1>5, StandGives
  <2>1. k \in 1 .. Len(bs[b].inlines)
    BY <1>12, <2>0
  <2> DEFINE inline == bs[b].inlines[k]
  <2>2. rows[n] = InlineRow(bs[b], inline)
    BY <1>2, <1>4, <1>5, <2>1 DEF StandAt
  <2>3. Scoped(inline)
    <3>1. bs[b].inlines \in Seq(Inline)
      BY <1>5, BlockIs
    <3>2. k \in DOMAIN bs[b].inlines
      BY <2>1, <3>1, LenProperties
    <3> QED
      BY <1>5, <3>2, BlockIs
  <2> HIDE DEF inline
  <2>4. rows[n].kind = "inline" /\ rows[n].type = inline.type /\ rows[n].content = inline.text
    BY <2>2, InlineRowIs
  <2>5. PICK fmt \in SUBSET Format :
            inline.type = ElementType(fmt) /\ inline.text \in Seq(Formatted(fmt))
    BY <2>3 DEF Scoped
  <2>6. FormatAt(p) = fmt
    BY <1>10, <2>4, <2>5
  <2> QED
    BY <2>4, <2>5, <2>6
<1> QED
  BY <1>11, <1>12

\* An item among the rows has its list if it has it among the blocks: the rows
\* between belong to deeper blocks, and their inlines are deeper still.
LEMMA ItemsAreListed ==
    ASSUME RowsSound, Done, \A n \in DOMAIN rows : ~Interrupts(rows[n])
    PROVE  ItemsHaveLists
<1>1. PICK blocks, values, places : RowsFrom(blocks, values, places)
  BY RowsAreFrom
<1> DEFINE bs == blocks \o values
           own(b) == places[b - 1] + 1
<1>2. StandAt(bs, places)
  BY <1>1 DEF RowsFrom
<1>3. /\ Len(blocks) \in Nat
      /\ \A b \in 1 .. Len(blocks) : b \in 1 .. Len(bs) /\ bs[b] = blocks[b] /\ bs[b] \in Block
      /\ \A b \in 1 .. Len(bs) : b \notin 1 .. Len(blocks) => bs[b].type = "inlines"
  BY <1>1, FromBlocks
<1> HIDE DEF bs
<1>4. DOMAIN rows = 1 .. Len(rows) /\ Len(rows) \in Nat
  BY <1>2, LenProperties DEF StandAt
<1>5. DOMAIN blocks = 1 .. Len(blocks)
  BY <1>1, LenProperties DEF RowsFrom
<1>6. ASSUME NEW b \in 1 .. Len(bs)
      PROVE  /\ own(b) \in 1 .. Len(rows) /\ own(b) \in Nat
             /\ rows[own(b)].type = bs[b].type /\ rows[own(b)].level = bs[b].level
             /\ bs[b].level \in Int
             /\ places[b - 1] \in Nat /\ places[b] \in Nat /\ Len(bs[b].inlines) \in Nat
             /\ places[b] = places[b - 1] + (Len(bs[b].inlines) + 1)
             /\ \A k \in 1 .. Len(bs[b].inlines) :
                    /\ rows[own(b) + k].type \in InlineName
                    /\ rows[own(b) + k].level = bs[b].level + 1
  <2>1. /\ own(b) \in 1 .. Len(rows)
        /\ rows[own(b)].type = bs[b].type /\ rows[own(b)].level = bs[b].level
    BY <1>2, OwnRow
  <2>2. /\ places[b - 1] \in Nat /\ Len(bs[b].inlines) \in Nat /\ bs[b] \in RowType
        /\ \A k \in 1 .. Len(bs[b].inlines) : bs[b].inlines[k] \in Inline
    BY <1>2, StandGives
  <2>3. /\ places[b] = places[b - 1] + (Len(bs[b].inlines) + 1)
        /\ \A k \in 1 .. Len(bs[b].inlines) : rows[own(b) + k] = InlineRow(bs[b], bs[b].inlines[k])
    BY <1>2 DEF StandAt
  <2>4. bs[b].level \in Int
    BY <2>2 DEF RowType
  <2>5. \A k \in 1 .. Len(bs[b].inlines) :
            rows[own(b) + k].type \in InlineName /\ rows[own(b) + k].level = bs[b].level + 1
    <3> TAKE k \in 1 .. Len(bs[b].inlines)
    <3> DEFINE inline == bs[b].inlines[k]
    <3>1. inline \in Inline /\ rows[own(b) + k] = InlineRow(bs[b], inline)
      BY <2>2, <2>3
    <3>2. inline.type \in InlineName
      BY <3>1 DEF Inline
    <3> HIDE DEF inline, own
    <3> QED
      BY <3>1, <3>2, InlineRowIs
  <2>6. own(b) \in Nat /\ places[b] \in Nat
    <3>1. \A x, y \in Nat : x + 1 \in Nat /\ x + (y + 1) \in Nat
      OBVIOUS
    <3> DEFINE x == places[b - 1]
               y == Len(bs[b].inlines)
    <3>2. x \in Nat /\ y \in Nat /\ places[b] = x + (y + 1) /\ own(b) = x + 1
      BY <2>2, <2>3
    <3> HIDE DEF own, x, y
    <3> QED
      BY <3>1, <3>2
  <2> HIDE DEF own
  <2> QED
    BY <1>4, <2>1, <2>2, <2>3, <2>4, <2>5, <2>6
<1>7. ItemsListed(blocks)
  <2>1. ASSUME Interrupted(blocks) PROVE FALSE
    <3>1. PICK b \in DOMAIN blocks : Interrupts(blocks[b])
      BY <2>1 DEF Interrupted
    <3>2. b \in 1 .. Len(bs) /\ bs[b] = blocks[b]
      BY <1>3, <1>5, <3>1
    <3>3. own(b) \in DOMAIN rows /\ rows[own(b)].type = blocks[b].type
      BY <1>4, <1>6, <3>2
    <3> QED
      BY <3>1, <3>3 DEF Interrupts
  <2> QED
    BY <1>1, <2>1 DEF RowsFrom
<1>8. ASSUME NEW n \in Items
      PROVE  \E m \in Ancestors(rows, n) : rows[m].type = "list" /\ rows[m].level = rows[n].level - 1
  <2>1. n \in 1 .. Len(rows) /\ rows[n].type = "list_item"
    BY <1>4 DEF Items
  <2>2. PICK b \in 1 .. Len(bs) : \E k \in 0 .. Len(bs[b].inlines) : n = own(b) + k
    BY <1>2, <2>1 DEF StandAt
  <2>3. PICK k \in 0 .. Len(bs[b].inlines) : n = own(b) + k
    BY <2>2
  <2>4. k = 0
    <3>1. "list_item" \notin InlineName
      BY DEF InlineName
    <3>2. k \notin 1 .. Len(bs[b].inlines)
      BY <1>6, <2>1, <2>3, <3>1
    <3> QED
      BY <1>6, <3>2
  <2>5. n = own(b) /\ bs[b].type = "list_item"
    <3>1. own(b) \in Nat /\ rows[own(b)].type = bs[b].type
      BY <1>6
    <3>2. n = own(b)
      BY <2>3, <2>4, <3>1
    <3> QED
      BY <2>1, <3>1, <3>2
  <2>6. b \in 1 .. Len(blocks) /\ blocks[b] = bs[b]
    BY <1>3, <2>5
  <2>7. ListOver(blocks, bs[b].level - 1, b)
    BY <1>5, <1>7, <2>5, <2>6 DEF ItemsListed
  <2>8. PICK a \in 1 .. Len(blocks) :
            /\ a < b /\ blocks[a].type = "list" /\ blocks[a].level = bs[b].level - 1
            /\ \A c \in a + 1 .. b : c \in 1 .. Len(blocks) => blocks[c].level > bs[b].level - 1
    BY <1>5, <2>7 DEF ListOver
  <2>9. /\ a \in 1 .. Len(bs) /\ bs[a] = blocks[a]
        /\ rows[own(a)].type = "list" /\ rows[own(a)].level = bs[b].level - 1
        /\ bs[a].level = bs[b].level - 1
    BY <1>3, <1>6, <2>8
  <2>10. Len(bs) \in Nat
    BY <1>2, StandGives
  <2>11. \A x \in 0 .. Len(bs) : \A y \in x .. Len(bs) : places[x] <= places[y]
    BY <1>2 DEF StandAt
  <2>12. own(a) \in 1 .. n - 1
    <3>1. /\ places[a - 1] \in Nat /\ places[b - 1] \in Nat /\ Len(bs[a].inlines) \in Nat
          /\ places[a] = places[a - 1] + (Len(bs[a].inlines) + 1)
      BY <1>6, <2>9
    <3>2. a \in 0 .. Len(bs) /\ b - 1 \in a .. Len(bs)
      BY <2>8, <2>9, <2>10
    <3>3. places[a] <= places[b - 1]
      BY <2>11, <3>2
    <3>4. \A x, y, z, w \in Nat : y = x + (w + 1) /\ y <= z => x + 1 \in 1 .. (z + 1) - 1
      OBVIOUS
    <3>5. own(a) \in 1 .. own(b) - 1
      <4> DEFINE x == places[a - 1]
                 y == places[a]
                 z == places[b - 1]
                 w == Len(bs[a].inlines)
      <4>1. x \in Nat /\ z \in Nat /\ w \in Nat /\ y = x + (w + 1) /\ y <= z
        BY <3>1, <3>3
      <4> HIDE DEF x, y, z, w
      <4>2. y \in Nat
        BY <4>1
      <4>3. x + 1 \in 1 .. (z + 1) - 1
        BY <3>4, <4>1, <4>2
      <4> QED
        BY <4>3 DEF x, z
    <3> QED
      BY <2>5, <3>5
  <2>13. ASSUME NEW j \in own(a) + 1 .. n PROVE rows[own(a)].level < rows[j].level
    <3>1. j \in 1 .. Len(rows) /\ j > own(a) /\ j <= own(b) /\ own(a) \in Nat
      <4>1. own(a) \in Nat /\ own(b) = n
        BY <1>6, <2>5, <2>9
      <4> HIDE DEF own
      <4> QED
        BY <2>1, <4>1
    <3>2. PICK c \in 1 .. Len(bs) : \E l \in 0 .. Len(bs[c].inlines) : j = own(c) + l
      BY <1>2, <3>1 DEF StandAt
    <3>3. PICK l \in 0 .. Len(bs[c].inlines) : j = own(c) + l
      BY <3>2
    <3>4. /\ places[c - 1] \in Nat /\ places[c] \in Nat /\ Len(bs[c].inlines) \in Nat
          /\ own(a) \in Nat /\ own(b) \in Nat /\ own(c) \in Nat /\ places[b] \in Nat
          /\ places[c] = places[c - 1] + (Len(bs[c].inlines) + 1)
          /\ places[a - 1] \in Nat /\ places[b - 1] \in Nat /\ Len(bs[b].inlines) \in Nat
          /\ places[b] = places[b - 1] + (Len(bs[b].inlines) + 1)
      BY <1>6, <2>9
    <3>5. c <= b
      <4> SUFFICES ASSUME ~(c <= b) PROVE FALSE
        OBVIOUS
      <4>1. b \in 0 .. Len(bs) /\ c - 1 \in b .. Len(bs)
        BY <2>10
      <4>2. places[b] <= places[c - 1]
        BY <2>11, <4>1
      <4>3. \A x, y, z, w \in Nat : y = x + (w + 1) /\ y <= z => ~(z + 1 <= x + 1)
        OBVIOUS
      <4>4. \A v \in Nat : v <= v + l
        BY <3>4
      <4>5. own(c) <= j /\ j <= own(b) /\ own(b) \in Nat /\ own(c) \in Nat
        <5> HIDE DEF own
        <5> QED
          BY <3>1, <3>3, <3>4, <4>4
      <4>6. own(c) <= own(b)
        <5> HIDE DEF own
        <5> QED
          BY <3>1, <4>5
      <4>8. ~(own(c) <= own(b))
        <5> DEFINE x == places[b - 1]
                   y == places[b]
                   z == places[c - 1]
                   w == Len(bs[b].inlines)
        <5>1. x \in Nat /\ y \in Nat /\ z \in Nat /\ w \in Nat /\ y = x + (w + 1) /\ y <= z
          BY <3>4, <4>2
        <5> HIDE DEF x, y, z, w
        <5>2. ~(z + 1 <= x + 1)
          BY <4>3, <5>1
        <5> QED
          BY <5>2 DEF x, z
      <4> QED
        BY <4>6, <4>8
    <3>6. a <= c
      <4> SUFFICES ASSUME ~(a <= c) PROVE FALSE
        OBVIOUS
      <4>1. c \in 0 .. Len(bs) /\ a - 1 \in c .. Len(bs)
        BY <2>9, <2>10
      <4>2. places[c] <= places[a - 1]
        BY <2>11, <4>1
      <4>3. \A x, y, z, w, m \in Nat :
                y = x + (w + 1) /\ y <= z /\ m <= w => ~(z + 1 < (x + 1) + m)
        OBVIOUS
      <4>4. own(a) < own(c) + l /\ l \in Nat
        <5> HIDE DEF own
        <5> QED
          BY <3>1, <3>3, <3>4
      <4> DEFINE x == places[c - 1]
                 y == places[c]
                 z == places[a - 1]
                 w == Len(bs[c].inlines)
      <4>6. /\ x \in Nat /\ y \in Nat /\ z \in Nat /\ w \in Nat /\ y = x + (w + 1) /\ y <= z
            /\ l \in 0 .. w /\ z + 1 < (x + 1) + l
        BY <3>4, <4>2, <4>4
      <4> HIDE DEF x, y, z, w
      <4> QED
        BY <4>3, <4>4, <4>6
    <3>7. bs[c].level \in Int /\ bs[b].level \in Int
      BY <1>6
    <3>8. l = 0 => rows[j].level = bs[c].level
      <4>1. l = 0 => j = own(c)
        <5> HIDE DEF own
        <5> QED
          BY <3>3, <3>4
      <4> QED
        BY <1>6, <4>1
    <3>9. l # 0 => rows[j].level = bs[c].level + 1
      <4>1. l # 0 => l \in 1 .. Len(bs[c].inlines)
        BY <3>4
      <4> QED
        BY <1>6, <3>3, <4>1
    <3>10. CASE c = a
      <4>1. l # 0
        <5>1. own(c) = own(a) /\ own(a) + 0 = own(a)
          BY <3>1, <3>10
        <5> QED
          BY <3>1, <3>3, <5>1
      <4>2. rows[j].level = (bs[b].level - 1) + 1
        BY <2>9, <3>9, <3>10, <4>1
      <4> QED
        BY <2>9, <3>7, <4>2
    <3>11. CASE c # a
      <4>1. c \in a + 1 .. b /\ c \in 1 .. Len(blocks)
        BY <1>3, <2>6, <3>5, <3>6, <3>11
      <4>2. bs[c].level > bs[b].level - 1
        BY <1>3, <2>8, <4>1
      <4>3. rows[j].level = bs[c].level \/ rows[j].level = bs[c].level + 1
        BY <3>8, <3>9
      <4> QED
        BY <2>9, <3>7, <4>2, <4>3
    <3> QED
      BY <3>10, <3>11
  <2>14. own(a) \in Ancestors(rows, n)
    <3> HIDE DEF own
    <3> QED
      BY <2>12, <2>13 DEF Ancestors
  <2> QED
    BY <2>5, <2>9, <2>14, <1>6
<1> QED
  BY <1>8 DEF ItemsHaveLists

-----------------------------------------------------------------------------

\* The inductive invariant: what the variables hold; one group is open in the
\* stack for each that is open in the source, and has the formatting that the
\* words around the next token set as long as its text is the document's; the
\* runs and the blocks hold text of their own formatting only; and each item
\* has its list until a table or a picture interrupts them.
RtfInvariant == RtfSound /\ RowsSound

\* The invariant holds before the first token.
LEMMA StartsSound ==
    PromiseInit => RtfInvariant
<1> SUFFICES ASSUME PromiseInit PROVE RtfInvariant
  OBVIOUS
<1>1. /\ source \in Seq(Token) /\ Len(source) \in Nat /\ scopes = OpenAt
  BY RtfAssumption, LenProperties DEF PromiseInit, RtfInit
<1>2. ScopesOK
  BY <1>1, ScopesFollow
<1>3. /\ pos = 1 /\ fresh = FALSE /\ skip_chars = 0 /\ stack = <<Document0>> /\ meta = {}
      /\ sheet = [styles |-> {}, open |-> FALSE, id |-> 0, name |-> << >>]
      /\ para = [style_id |-> -1, outline_level |-> -1, list_id |-> 0, list_level |-> 0]
  BY DEF PromiseInit, RtfInit
<1>4. Document0 \in Group /\ Document0.fmt = {}
  BY DEF Document0, Group, Key
<1>5. stack \in Seq(Group) /\ Len(stack) = 1 /\ stack[1] = Document0
  BY <1>3, <1>4
<1>6. RtfTypeOK
  <2>1. stack # << >>
    BY <1>5, EmptySeq
  <2>2. sheet \in Sheet
    BY <1>3, EmptySeq DEF Sheet
  <2>3. para \in Para /\ meta \in SUBSET Field
    BY <1>3 DEF Para
  <2>4. pos \in 1 .. Len(source) + 2
    BY <1>1, <1>3
  <2>5. source \in Seq(Token) /\ fresh \in BOOLEAN /\ skip_chars \in Nat /\ stack \in Seq(Group)
    BY <1>1, <1>3, <1>5
  <2> QED
    BY <2>1, <2>2, <2>3, <2>4, <2>5 DEF RtfTypeOK
<1>7. GroupsOK
  <2>1. scopes[1] = << >> /\ Len(scopes[1]) = 0
    BY <1>2, EmptySeq DEF ScopesOK
  <2>2. FormatUnder(1, 0) = {}
    <3>1. \A words : UnderDepth(1, 0, words) = {}
      BY DEF UnderDepth
    <3> QED
      BY <3>1 DEF FormatUnder, Sets
  <2>3. \A d \in 1 .. Len(stack) : d = 1 /\ d - 1 = 0
    BY <1>5
  <2> QED
    <3>1. Len(stack) = Len(scopes[pos]) + 1
      BY <1>3, <1>5, <2>1
    <3>2. ASSUME NEW d \in 1 .. Len(stack) PROVE stack[d].fmt = FormatUnder(pos, d - 1)
      <4>1. d = 1 /\ d - 1 = 0
        BY <2>3
      <4>2. stack[d].fmt = {}
        BY <1>4, <1>5, <4>1
      <4>3. FormatUnder(pos, d - 1) = FormatUnder(1, 0)
        BY <1>3, <4>1
      <4> QED
        BY <2>2, <4>2, <4>3
    <3> QED
      BY <3>1, <3>2 DEF GroupsOK
<1>8. BodySound(body)
  <2>1. body = [runs |-> << >>, blocks |-> << >>, open_ordered |-> << >>, in_table |-> FALSE,
                row_is_header |-> FALSE, row_cells |-> << >>, table_headers |-> << >>,
                table_rows |-> << >>]
    BY DEF PromiseInit, RtfInit
  <2>2. /\ << >> \in Seq(Run) /\ << >> \in Seq(Block) /\ << >> \in Seq(BOOLEAN)
        /\ << >> \in Seq(Seq(Positions)) /\ << >> \in Seq(Seq(Seq(Positions)))
    BY EmptySeq
  <2>3. body \in BodyType
    BY <2>1, <2>2 DEF BodyType
  <2>4. 1 .. Len(body.open_ordered) = {} /\ DOMAIN body.blocks = {}
    BY <2>1, EmptySeq
  <2> QED
    BY <2>3, <2>4 DEF BodySound, ListsGoOn, ListsOpen, ItemsListed
<1>9. RowsSound
  <2>1. pos # Len(source) + 2
    BY <1>1, <1>3
  <2> QED
    BY <2>1 DEF RowsSound, Done
<1> QED
  BY <1>2, <1>6, <1>7, <1>8, <1>9 DEF RtfInvariant, RtfSound

\* It holds as long as nothing changes.
LEMMA StutterKeepsSound ==
    ASSUME RtfInvariant, UNCHANGED <<rtfVars, scopes, live, shown>>
    PROVE  RtfInvariant'
<1>1. /\ source' = source /\ scopes' = scopes /\ pos' = pos /\ fresh' = fresh
      /\ skip_chars' = skip_chars /\ stack' = stack /\ sheet' = sheet /\ para' = para
      /\ body' = body /\ meta' = meta /\ rows' = rows
  BY DEF rtfVars
<1>2. /\ Sheet' = Sheet /\ Field' = Field /\ BodyType' = BodyType /\ ScopesOK' = ScopesOK
      /\ Block' = Block /\ Positions' = Positions
      /\ \A n, d : FormatUnder(n, d)' = FormatUnder(n, d)
  BY <1>1, SameScopes, SameTypes
<1>3. RtfTypeOK'
  BY <1>1, <1>2 DEF RtfInvariant, RtfSound, RtfTypeOK, Para, Group, Token, Key
<1>4. GroupsOK'
  BY <1>1, <1>2 DEF RtfInvariant, RtfSound, GroupsOK, InText
<1>5. BodySound(body)'
  BY <1>1, <1>2 DEF RtfInvariant, RtfSound, BodySound, ListsGoOn, Interrupted, Interrupts,
                    ListsOpen, ItemsListed, ListOver, ListLevel
<1>6. RowsSound'
  <2>1. ValueRow' = ValueRow
    <3>1. Inline' = Inline
      BY <1>2 DEF Inline
    <3>2. RowType' = RowType
      BY <1>2, <3>1 DEF RowType
    <3> QED
      BY <3>2 DEF ValueRow
  <2>2. Done' <=> Done
    BY <1>1 DEF Done
  <2> SUFFICES ASSUME Done PROVE RowsSound'
    BY <2>2 DEF RowsSound
  <2>3. PICK blocks \in Seq(Block), values \in Seq(ValueRow) :
               /\ rows = FlattenSeq(Emitted(blocks \o values))
               /\ Interrupted(blocks) \/ ItemsListed(blocks)
    BY DEF RtfInvariant, RowsSound
  <2>4. blocks \in Seq(Block') /\ values \in Seq(ValueRow')
    BY <1>2, <2>1
  <2>5. (FlattenSeq(Emitted(blocks \o values)))' = FlattenSeq(Emitted(blocks \o values))
    OBVIOUS
  <2>6. /\ Interrupted(blocks)' <=> Interrupted(blocks)
        /\ ItemsListed(blocks)' <=> ItemsListed(blocks)
    OBVIOUS
  <2> QED
    BY <1>1, <2>3, <2>4, <2>5, <2>6 DEF RowsSound
<1> QED
  BY <1>2, <1>3, <1>4, <1>5, <1>6 DEF RtfInvariant, RtfSound

\* Every step keeps it.
LEMMA RtfInvariantKept ==
    ASSUME RtfInvariant, [PromiseNext]_<<rtfVars, scopes, live, shown>>
    PROVE  RtfInvariant'
<1>1. CASE PromiseNext
  <2>1. RtfNext /\ scopes' = scopes /\ RtfSound
    BY <1>1 DEF PromiseNext, RtfInvariant
  <2> QED
    BY <2>1, SoundKept, RowsKept DEF RtfInvariant
<1>2. CASE UNCHANGED <<rtfVars, scopes, live, shown>>
  BY <1>2, StutterKeepsSound
<1> QED
  BY <1>1, <1>2

\* Whatever the tokens are, the reader's variables stay in their types: the
\* document's own group is never closed (RtfParser::Parse), and every run and
\* block holds places of the source.
THEOREM RtfTypesAlways == PromiseSpec => [](RtfTypeOK /\ body \in BodyType)
<1>1. RtfInvariant => RtfTypeOK /\ body \in BodyType
  BY DEF RtfInvariant, RtfSound, BodySound
<1> QED
  BY <1>1, StartsSound, RtfInvariantKept, PTL DEF PromiseSpec

\* FormatsScoped for every sequence of tokens, braces that do not match and
\* destinations anywhere included: bold, italics, underline and strike-through
\* end with the group they were set in, and every text comes out with exactly
\* the formatting that governs it (the group stack of RtfParser::Parse,
\* ApplyControlWord, AppendText and FlushParagraph).
THEOREM FormatsAreScoped == PromiseSpec => []FormatsScoped
<1>1. RtfInvariant => FormatsScoped
  BY RowsAreScoped DEF RtfInvariant, RtfSound, RtfTypeOK
<1> QED
  BY <1>1, StartsSound, RtfInvariantKept, PTL DEF PromiseSpec

\* The first half of ItemsInLists for every sequence of tokens: in a document
\* with neither tables nor pictures every item stands in a list of its own,
\* one level above it, whatever depths the paragraphs before it asked for.
THEOREM ItemsAlwaysHaveLists ==
    PromiseSpec => [](Done /\ (\A n \in DOMAIN rows : ~Interrupts(rows[n])) => ItemsHaveLists)
<1>1. RtfInvariant => (Done /\ (\A n \in DOMAIN rows : ~Interrupts(rows[n])) => ItemsHaveLists)
  BY ItemsAreListed DEF RtfInvariant
<1> QED
  BY <1>1, StartsSound, RtfInvariantKept, PTL DEF PromiseSpec
=============================================================================
