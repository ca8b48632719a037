------------------------ MODULE MarkupReadersProofs ------------------------
(* What the Textile reader promises, for every source of any length.       *)
EXTENDS MarkupReaders, DataLemmas

-----------------------------------------------------------------------------
(* What a step leaves alone, whichever reader it is of.                    *)

\* A call reads one source as one format.
LEMMA SourceIsKept == ASSUME Next PROVE format' = format /\ source' = source
<1>1. ASSUME Org!Next PROVE format' = format /\ source' = source
  BY <1>1 DEF Org!Next, Org!ScanLine, Org!StartBuild, Org!ReadBlank, Org!ReadComment, Org!ReadKeyword,
     Org!ReadHeading, Org!ReadRule, Org!ReadBlock, Org!ReadTable, Org!ReadItem, Org!ReadText, Org!ReadDrawer,
     Org!ReadStrayEnd, Org!ReturnRows, Org!Scanned, Org!BuildFrom, Org!Consumed, Org!Returned
<1>2. ASSUME Textile!Next PROVE format' = format /\ source' = source
  BY <1>2 DEF Textile!Next, Textile!ScanLine, Textile!StartBuild, Textile!ReadBlank, Textile!ReadComment,
     Textile!ReadHeading, Textile!ReadQuote, Textile!ReadCode, Textile!ReadRaw, Textile!ReadItem,
     Textile!ReadTable, Textile!ReadPara, Textile!ReadText, Textile!ReturnRows,
     Textile!Scanned, Textile!BuildFrom, Textile!Consumed, Textile!Returned
<1>3. ASSUME MediaWiki!Next PROVE format' = format /\ source' = source
  BY <1>3 DEF MediaWiki!Next, MediaWiki!ScanLine, MediaWiki!StartBuild, MediaWiki!ReadBlank,
     MediaWiki!ReadHeading, MediaWiki!ReadRule, MediaWiki!ReadRaw, MediaWiki!ReadHtml,
     MediaWiki!ReadPreformatted, MediaWiki!ReadItem, MediaWiki!ReadTable, MediaWiki!ReadFileLink,
     MediaWiki!ReadText, MediaWiki!ReturnRows, MediaWiki!Scanned, MediaWiki!BuildFrom, MediaWiki!Consumed,
     MediaWiki!Returned
<1>4. ASSUME Rst!Next PROVE format' = format /\ source' = source
  BY <1>4 DEF Rst!Next, Rst!ScanLine, Rst!StartBuild, Rst!ReadLiteral, Rst!ReadQuote, Rst!ReadBlank,
     Rst!ReadComment, Rst!ReadAdornment, Rst!ReadDirective, Rst!ReadField, Rst!ReadNumberedTitle,
     Rst!ReadList, Rst!ReadTerm, Rst!ReadText, Rst!ReadTable, Rst!ReadItem, Rst!ReadBlankInList,
     Rst!ReturnFromList, Rst!ReturnFromRun, Rst!ReturnRows, Rst!Step, Rst!Scanned, Rst!BuildFrom, Rst!Consumed, Rst!Returned
<1>5. ASSUME Latex!Next PROVE format' = format /\ source' = source
  BY <1>5 DEF Latex!Next, Latex!Scan, Latex!StartBuild, Latex!ReadText, Latex!ReadInline, Latex!ReadBreak,
     Latex!PassMacro, Latex!ReadMetadata, Latex!ReadHeading, Latex!ReadItem, Latex!BeginTransparent,
     Latex!BeginContainer, Latex!BeginList, Latex!ReadVerbatim, Latex!PassDropped, Latex!ReadTabular,
     Latex!ReadEnd, Latex!ReturnRows, Latex!Scanned, Latex!BuildFrom, Latex!Consumed, Latex!Returned
<1>6. ASSUME Docx!Next PROVE format' = format /\ source' = source
  BY <1>6 DEF Docx!Next, Docx!Scan, Docx!StartBuild, Docx!PassParagraph, Docx!ReadTable, Docx!ReadCode,
     Docx!ReadDefinition, Docx!ReadHeading, Docx!ReadItem, Docx!ReadQuote, Docx!ReadText, Docx!ReturnRows,
     Docx!Scanned, Docx!BuildFrom, Docx!Consumed, Docx!Returned
<1>7. ASSUME Odt!Next PROVE format' = format /\ source' = source
  BY <1>7 DEF Odt!Next, Odt!Scan, Odt!StartBuild, Odt!PassParagraph, Odt!ReadTable, Odt!ReadCode,
     Odt!ReadDefinition, Odt!ReadHeading, Odt!ReadItem, Odt!ReadQuote, Odt!ReadText, Odt!ReturnRows,
     Odt!Scanned, Odt!BuildFrom, Odt!Consumed, Odt!Returned
<1>8. ASSUME Epub!Next PROVE format' = format /\ source' = source
  BY <1>8 DEF Epub!Next, Epub!Parse, Epub!StartWalk, Epub!WalkText, Epub!WalkSkipped, Epub!WalkHeading,
     Epub!WalkRule, Epub!WalkPre, Epub!WalkList, Epub!WalkContainer, Epub!WalkPageBreak, Epub!WalkTable,
     Epub!WalkLeaf, Epub!EmitLeaf, Epub!WalkTransparent, Epub!WalkReturns, Epub!ReturnRows,
     Epub!Read, Epub!Walked, Epub!Scanned, Epub!BuildFrom, Epub!Consumed, Epub!Returned
<1> QED
  BY <1>1, <1>2, <1>3, <1>4, <1>5, <1>6, <1>7, <1>8 DEF Next

-----------------------------------------------------------------------------
(* Texts are numbers, three to a line.                                     *)

\* A number is of a line when it is one of that line's three.
LEMMA LineIs ==
    ASSUME NEW t \in Nat \ {0}, NEW a \in Nat, NEW b \in Nat
    PROVE  /\ t \in LeadOf(a) .. TextOf(b) <=> LineOf(t) \in a .. b
           /\ LineOf(t) \in Nat
  BY DEF LeadOf, TextOf, LineOf

\* The texts of a line are those of no other, and of the line before come first.
LEMMA TextsOfLines ==
    ASSUME NEW n \in Nat \ {0}
    PROVE  /\ LineOf(LeadOf(n)) = n /\ LineOf(TermOf(n)) = n /\ LineOf(TextOf(n)) = n
           /\ LeadOf(n) < TermOf(n) /\ TermOf(n) < TextOf(n) /\ TextOf(n) < LeadOf(n + 1)
           /\ LeadOf(n) \in Nat \ {0} /\ TermOf(n) \in Nat \ {0} /\ TextOf(n) \in Nat \ {0}
  BY DEF LeadOf, TermOf, TextOf, LineOf

\* s is a text made of texts of the lines a .. b.
From(s, a, b) == s \in Seq(Nat \ {0}) /\ \A t \in Range(s) : LineOf(t) \in a .. b

\* What a text of one number, or of none, holds.
LEMMA TextIfGives ==
    ASSUME NEW condition, NEW t \in Nat \ {0}
    PROVE  /\ TextIf(condition, t) \in Seq(Nat \ {0})
           /\ Range(TextIf(condition, t)) = IF condition THEN {t} ELSE {}
<1>1. CASE condition
  <2>1. TextIf(condition, t) = <<t>>
    BY <1>1 DEF TextIf
  <2>2. <<t>> \in Seq(Nat \ {0}) /\ Range(<<t>>) = {t}
    BY DEF Range
  <2> QED
    BY <1>1, <2>1, <2>2
<1>2. CASE ~condition
  <2>1. TextIf(condition, t) = << >>
    BY <1>2 DEF TextIf
  <2>2. << >> \in Seq(Nat \ {0}) /\ Range(<< >>) = {}
    BY EmptySeq DEF Range
  <2> QED
    BY <1>2, <2>1, <2>2
<1> QED
  BY <1>1, <1>2

\* Texts of some lines, joined, are of those lines.
LEMMA Joined ==
    ASSUME NEW a \in Nat, NEW b \in Nat, NEW s, NEW t, From(s, a, b), From(t, a, b)
    PROVE  From(s \o t, a, b) /\ Range(s \o t) = Range(s) \cup Range(t)
<1>1. s \o t \in Seq(Nat \ {0}) /\ Range(s \o t) = Range(s) \cup Range(t)
  BY ConcatProperties, RangeConcatenation DEF From
<1> QED
  BY <1>1 DEF From

\* A line of the source holds its texts, and its own only.
LEMMA WrittenGives ==
    ASSUME NEW n \in Nat \ {0}, NEW led
    PROVE  /\ From(Written(n, led), n, n)
           /\ TextOf(n) \in Range(Written(n, led)) <=> source[n].text
<1> DEFINE first == TextIf(led, LeadOf(n))
           second == TextIf(source[n].definition, TermOf(n))
           third == TextIf(source[n].text, TextOf(n))
<1>1. /\ From(first, n, n) /\ From(second, n, n) /\ From(third, n, n)
      /\ Range(first) \subseteq {LeadOf(n)} /\ Range(second) \subseteq {TermOf(n)}
      /\ Range(third) = IF source[n].text THEN {TextOf(n)} ELSE {}
  <2> DEFINE l == LeadOf(n)
             m == TermOf(n)
             t == TextOf(n)
  <2>1. /\ l \in Nat \ {0} /\ m \in Nat \ {0} /\ t \in Nat \ {0}
        /\ LineOf(l) \in n .. n /\ LineOf(m) \in n .. n /\ LineOf(t) \in n .. n
    BY TextsOfLines
  <2> HIDE DEF l, m, t
  <2>2. first \in Seq(Nat \ {0}) /\ Range(first) = IF led THEN {l} ELSE {}
    BY <2>1, TextIfGives DEF l
  <2>3. second \in Seq(Nat \ {0}) /\ Range(second) = IF source[n].definition THEN {m} ELSE {}
    BY <2>1, TextIfGives DEF m
  <2>4. third \in Seq(Nat \ {0}) /\ Range(third) = IF source[n].text THEN {t} ELSE {}
    BY <2>1, TextIfGives DEF t
  <2> HIDE DEF first, second, third
  <2>5. /\ Range(first) \subseteq {l} /\ Range(second) \subseteq {m} /\ Range(third) \subseteq {t}
    BY <2>2, <2>3, <2>4
  <2> QED
    BY <2>1, <2>2, <2>3, <2>4, <2>5 DEF From, l, m, t
<1>2. Written(n, led) = (first \o second) \o third
  BY DEF Written
<1> HIDE DEF first, second, third
<1>3. From(first \o second, n, n) /\ Range(first \o second) = Range(first) \cup Range(second)
  BY <1>1, Joined
<1>4. /\ From((first \o second) \o third, n, n)
      /\ Range((first \o second) \o third) = Range(first \o second) \cup Range(third)
  BY <1>1, <1>3, Joined
<1>5. TextOf(n) # LeadOf(n) /\ TextOf(n) # TermOf(n)
  BY TextsOfLines
<1> QED
  BY <1>1, <1>2, <1>3, <1>4, <1>5

\* What a flattened sequence holds is what its parts hold.
LEMMA FlattenRange ==
    ASSUME NEW T, NEW parts \in Seq(Seq(T))
    PROVE  /\ FlattenSeq(parts) \in Seq(T)
           /\ \A x : x \in Range(FlattenSeq(parts)) <=> \E b \in 1 .. Len(parts) : x \in Range(parts[b])
<1> DEFINE flat == FlattenSeq(parts)
<1>1. /\ Len(parts) \in Nat /\ DOMAIN parts = 1 .. Len(parts)
      /\ \A b \in 1 .. Len(parts) : Len(parts[b]) \in Nat /\ DOMAIN parts[b] = 1 .. Len(parts[b])
  BY LenProperties, ElementOfSeq
<1>2. flat \in Seq(T) /\ \E places : PartsAt(parts, places, flat)
  BY Flattening
<1>3. PICK places : PartsAt(parts, places, flat)
  BY <1>2
<1>4. Len(flat) \in Nat /\ DOMAIN flat = 1 .. Len(flat)
  BY <1>2, LenProperties
<1>5. ASSUME NEW x \in Range(flat) PROVE \E b \in 1 .. Len(parts) : x \in Range(parts[b])
  <2>1. PICK n \in 1 .. Len(flat) : x = flat[n]
    BY <1>4 DEF Range
  <2> HIDE DEF flat
  <2>2. StandsIn(parts, places, flat, n)
    BY <1>1, <1>3, InPart
  <2>3. PICK b \in 1 .. Len(parts) : \E k \in 1 .. Len(parts[b]) : flat[n] = parts[b][k]
    BY <2>2 DEF StandsIn
  <2> QED
    BY <1>1, <2>1, <2>3 DEF Range
<1>6. ASSUME NEW b \in 1 .. Len(parts), NEW x \in Range(parts[b]) PROVE x \in Range(flat)
  <2>1. PICK k \in 1 .. Len(parts[b]) : x = parts[b][k]
    BY <1>1 DEF Range
  <2> HIDE DEF flat
  <2>2. flat[places[b - 1] + k] = x
    BY <1>3, <2>1 DEF PartsAt
  <2>3. places[b - 1] + k \in 1 .. Len(flat)
    <3>1. /\ places \in [0 .. Len(parts) -> Nat] /\ Len(flat) = places[Len(parts)]
          /\ places[b] = places[b - 1] + Len(parts[b])
      BY <1>3 DEF PartsAt
    <3>2. b \in 0 .. Len(parts) /\ Len(parts) \in b .. Len(parts) /\ b - 1 \in 0 .. Len(parts)
      BY <1>1
    <3>3. places[b] <= places[Len(parts)]
      BY <1>1, <1>3, <3>2, PlacesGrow
    <3> DEFINE p == places[b - 1]
               q == places[b]
               l == Len(parts[b])
    <3>4. p \in Nat /\ q \in Nat /\ l \in Nat /\ q = p + l /\ q <= Len(flat) /\ k \in 1 .. l
      BY <1>1, <3>1, <3>2, <3>3
    <3> HIDE DEF p, q, l
    <3>5. p + k \in 1 .. Len(flat)
      BY <1>4, <3>4
    <3> QED
      BY <3>5 DEF p
  <2> QED
    BY <1>4, <2>2, <2>3 DEF Range
<1> QED
  BY <1>2, <1>5, <1>6

-----------------------------------------------------------------------------
(* The lines of a Textile source.                                          *)

\* The reader has its texts from the module that all readers extend.
LEMMA TextileTexts ==
    /\ \A n : /\ Textile!Whole(n) = Whole(n) /\ Textile!Trimmed(n) = Trimmed(n)
              /\ Textile!TextOf(n) = TextOf(n) /\ Textile!TermOf(n) = TermOf(n)
    /\ \A condition, t : Textile!TextIf(condition, t) = TextIf(condition, t)
    /\ \A s : Textile!FlattenSeq(s) = FlattenSeq(s)
<1>1. \A n : /\ Textile!Whole(n) = Whole(n) /\ Textile!Trimmed(n) = Trimmed(n)
             /\ Textile!TextOf(n) = TextOf(n) /\ Textile!TermOf(n) = TermOf(n)
  BY DEF Textile!Whole, Whole, Textile!Trimmed, Trimmed, Textile!Written, Written, Textile!TextIf, TextIf,
     Textile!LeadOf, LeadOf, Textile!TermOf, TermOf, Textile!TextOf, TextOf
<1>2. \A condition, t : Textile!TextIf(condition, t) = TextIf(condition, t)
  BY DEF Textile!TextIf, TextIf
<1>3. \A s : Textile!FlattenSeq(s) = FlattenSeq(s)
  BY DEF FlattenSeq, Textile!FlattenSeq
<1> QED
  BY <1>1, <1>2, <1>3

\* The sources the proof is about.
IsSource == source \in Seq(SourceLine)

\* An element of HTML ends where it is closed, or at the end; any other line
\* is one line.
LEMMA LastLineIs ==
    ASSUME IsSource, NEW n \in DOMAIN source
    PROVE  /\ n \in Nat \ {0} /\ Len(source) \in Nat /\ DOMAIN source = 1 .. Len(source)
           /\ Textile!LastLineOf(n) \in n .. Len(source)
           /\ Textile!KindOf(source[n]) # "HTML_BLOCK" => Textile!LastLineOf(n) = n
<1>1. DOMAIN source = 1 .. Len(source) /\ Len(source) \in Nat
  BY LenProperties DEF IsSource
<1>2. CASE Textile!KindOf(source[n]) # "HTML_BLOCK"
  BY <1>1, <1>2 DEF Textile!LastLineOf
<1>3. CASE Textile!KindOf(source[n]) = "HTML_BLOCK"
  <2> DEFINE closing == {m \in n .. Len(source) : source[m].closing = source[n].name}
             first == CHOOSE m \in closing : \A k \in closing : m <= k
  <2>1. Textile!LastLineOf(n) = IF closing = {} THEN Len(source) ELSE first
    BY <1>3 DEF Textile!LastLineOf
  <2>2. closing # {} => first \in closing
    <3>1. closing \in SUBSET Nat
      BY <1>1
    <3> HIDE DEF closing
    <3> SUFFICES ASSUME closing # {} PROVE first \in closing
      OBVIOUS
    <3>2. \E m \in closing : \A k \in closing : m <= k
      BY <3>1, LeastOf
    <3> QED
      BY <3>2
  <2> HIDE DEF first
  <2> QED
    BY <1>1, <1>3, <2>1, <2>2
<1> QED
  BY <1>1, <1>2, <1>3

\* The kind of a line goes by its lead.
LEMMA KindIs ==
    ASSUME NEW s \in SourceLine
    PROVE  /\ s.lead \in {"word", "img"} => Textile!KindOf(s) = "TEXT"
           /\ Textile!KindOf(s) = "BLANK" <=> s.lead = ""
           /\ Textile!KindOf(s) = "LIST_ITEM" => s.lead = "list" \/ (s.lead = "- " /\ s.definition)
           /\ Textile!KindOf(s) \in {"BLANK", "TABLE_ROW", "COMMENT", "LIST_ITEM", "HTML_BLOCK", "HEADING", "PARA",
                                     "BLOCKQUOTE", "CODE", "NOTEXTILE", "TEXT"}
  BY DEF Textile!KindOf

TrimmedFrom(first, last) == [k \in 1 .. last - first + 1 |-> Trimmed(first + k - 1)]

\* What is trimmed of some lines holds their texts, and no others.
LEMMA TrimmedLinesGive ==
    ASSUME IsSource, NEW n \in DOMAIN source, NEW last \in n .. Len(source)
    PROVE  /\ From(Textile!TrimmedLines(n, last), n, last)
           /\ \A m \in n .. last : source[m].text => TextOf(m) \in Range(Textile!TrimmedLines(n, last))
<1> DEFINE parts == TrimmedFrom(n, last)
           size == last - n + 1
<1>1. n \in Nat \ {0} /\ last \in Nat /\ size \in Nat /\ last >= n
  BY LastLineIs
<1>2. \A k \in 1 .. size : n + k - 1 \in Nat \ {0} /\ n + k - 1 \in n .. last
  BY <1>1
<1>3. \A m \in Nat \ {0} : /\ From(Trimmed(m), m, m)
                           /\ TextOf(m) \in Range(Trimmed(m)) <=> source[m].text
  BY WrittenGives DEF Trimmed
<1>4. parts \in Seq(Seq(Nat \ {0})) /\ Len(parts) = size /\ DOMAIN parts = 1 .. size
      /\ \A k \in 1 .. size : parts[k] = Trimmed(n + k - 1)
  <2> HIDE DEF size
  <2>1. parts = [k \in 1 .. size |-> Trimmed(n + k - 1)]
    BY DEF TrimmedFrom, size
  <2>2. \A k \in 1 .. size : Trimmed(n + k - 1) \in Seq(Nat \ {0})
    BY <1>2, <1>3 DEF From
  <2>3. parts \in [1 .. size -> Seq(Nat \ {0})]
    BY <2>1, <2>2
  <2>4. parts \in Seq(Seq(Nat \ {0}))
    BY <1>1, <2>3, SeqDef
  <2>5. Len(parts) = size /\ DOMAIN parts = 1 .. size
    BY <1>1, <2>3, <2>4, LenProperties
  <2> QED
    BY <2>1, <2>4, <2>5
<1>5. Textile!TrimmedLines(n, last) = FlattenSeq(parts)
  BY TextileTexts DEF Textile!TrimmedLines, TrimmedFrom
<1> HIDE DEF parts
<1>6. /\ FlattenSeq(parts) \in Seq(Nat \ {0})
      /\ \A x : x \in Range(FlattenSeq(parts)) <=> \E b \in 1 .. Len(parts) : x \in Range(parts[b])
  BY <1>4, FlattenRange
<1>7. ASSUME NEW x \in Range(FlattenSeq(parts)) PROVE LineOf(x) \in n .. last
  <2>1. PICK b \in 1 .. size : x \in Range(Trimmed(n + b - 1))
    BY <1>4, <1>6
  <2> DEFINE m == n + b - 1
  <2>2. m \in Nat \ {0} /\ m \in n .. last /\ x \in Range(Trimmed(m))
    BY <1>2, <2>1
  <2> HIDE DEF m
  <2>3. LineOf(x) \in m .. m
    BY <1>3, <2>2 DEF From
  <2> QED
    BY <1>1, <2>2, <2>3
<1>8. ASSUME NEW m \in n .. last, source[m].text PROVE TextOf(m) \in Range(FlattenSeq(parts))
  <2> DEFINE b == m - n + 1
  <2>1. b \in 1 .. size /\ n + b - 1 = m /\ m \in Nat \ {0}
    BY <1>1
  <2> HIDE DEF b, size
  <2>2. parts[b] = Trimmed(m)
    BY <1>4, <2>1
  <2> QED
    BY <1>3, <1>4, <1>6, <1>8, <2>1, <2>2
<1> QED
  BY <1>5, <1>6, <1>7, <1>8 DEF From

\* What the scanner says of a line.
LEMMA ScannedFields ==
    ASSUME NEW n
    PROVE  LET s == source[n]
               line == Textile!ScannedLine(n)
               kind == Textile!KindOf(s)
           IN  /\ line.kind = kind /\ line.header = s.header /\ line.raw = Whole(n)
               /\ line.markers = IF kind # "LIST_ITEM" THEN << >> ELSE IF s.definition THEN <<"-">> ELSE s.markers
               /\ line.definition = (kind = "LIST_ITEM" /\ s.definition)
               /\ line.style = IF s.lead = "." /\ s.style THEN n ELSE 0
               /\ line.term = TextIf(kind = "LIST_ITEM" /\ s.definition, TermOf(n))
               /\ kind \in {"TEXT", "TABLE_ROW", "HTML_BLOCK"} =>
                      line.text = Textile!TrimmedLines(n, Textile!LastLineOf(n))
               /\ kind \notin {"TEXT", "TABLE_ROW", "HTML_BLOCK"} =>
                      line.text = TextIf(s.text /\ kind # "COMMENT", TextOf(n))
  BY TextileTexts DEF Textile!ScannedLine

\* Its texts are of its own lines; prose is in them, of a line of its own also
\* as it stands; and what has a style and a text holds that text.
LEMMA ScannedTexts ==
    ASSUME IsSource, NEW n \in DOMAIN source
    PROVE  LET s == source[n]
               line == Textile!ScannedLine(n)
               last == Textile!LastLineOf(n)
           IN  /\ From(line.text, n, last) /\ From(line.raw, n, n) /\ From(line.term, n, n)
               /\ Range(line.term) \subseteq {TermOf(n)}
               /\ s.text => TextOf(n) \in Range(line.raw)
               /\ line.kind \in {"TEXT", "HTML_BLOCK"} =>
                      \A m \in n .. last : source[m].text => TextOf(m) \in Range(line.text)
               /\ line.kind \in {"HEADING", "PARA", "BLOCKQUOTE", "CODE", "LIST_ITEM"} =>
                      line.text = IF s.text THEN <<TextOf(n)>> ELSE << >>
<1> DEFINE s == source[n]
           kind == Textile!KindOf(s)
           last == Textile!LastLineOf(n)
           line == Textile!ScannedLine(n)
<1>1. /\ n \in Nat \ {0} /\ Len(source) \in Nat /\ DOMAIN source = 1 .. Len(source)
      /\ last \in n .. Len(source) /\ (kind # "HTML_BLOCK" => last = n)
  BY LastLineIs
<1>2. s \in SourceLine
  BY <1>1, ElementOfSeq DEF IsSource
<1>3. /\ line.kind = kind /\ line.raw = Whole(n)
      /\ line.term = TextIf(kind = "LIST_ITEM" /\ s.definition, TermOf(n))
      /\ kind \in {"TEXT", "TABLE_ROW", "HTML_BLOCK"} => line.text = Textile!TrimmedLines(n, last)
      /\ kind \notin {"TEXT", "TABLE_ROW", "HTML_BLOCK"} =>
             line.text = TextIf(s.text /\ kind # "COMMENT", TextOf(n))
  BY ScannedFields
<1>4. TermOf(n) \in Nat \ {0} /\ TextOf(n) \in Nat \ {0} /\ LineOf(TermOf(n)) = n /\ LineOf(TextOf(n)) = n
  BY <1>1, TextsOfLines
<1> HIDE DEF s, kind, line, last
<1>5. From(line.raw, n, n) /\ (s.text => TextOf(n) \in Range(line.raw))
  BY <1>1, <1>3, WrittenGives DEF Whole, s
<1>6. From(line.term, n, n) /\ Range(line.term) \subseteq {TermOf(n)}
  <2> DEFINE given == kind = "LIST_ITEM" /\ s.definition
             t == TermOf(n)
  <2>1. line.term = TextIf(given, t) /\ t \in Nat \ {0} /\ LineOf(t) = n
    BY <1>3, <1>4
  <2> HIDE DEF given, t
  <2>2. line.term \in Seq(Nat \ {0}) /\ Range(line.term) \subseteq {t}
    BY <2>1, TextIfGives
  <2> QED
    BY <1>1, <2>1, <2>2 DEF From, t
<1>7. CASE kind \in {"TEXT", "TABLE_ROW", "HTML_BLOCK"}
  <2>1. /\ From(line.text, n, last)
        /\ \A m \in n .. last : source[m].text => TextOf(m) \in Range(line.text)
    BY <1>1, <1>3, <1>7, TrimmedLinesGive
  <2> QED
    BY <1>3, <1>5, <1>6, <1>7, <2>1 DEF s, line, last
<1>8. CASE kind \notin {"TEXT", "TABLE_ROW", "HTML_BLOCK"}
  <2> DEFINE given == s.text /\ kind # "COMMENT"
             t == TextOf(n)
  <2>1. line.text = TextIf(given, t)
    BY <1>3, <1>8
  <2>2. /\ TextIf(given, t) \in Seq(Nat \ {0})
        /\ Range(TextIf(given, t)) = IF given THEN {t} ELSE {}
    <3> HIDE DEF given
    <3> QED
      BY <1>4, TextIfGives
  <2>3. From(line.text, n, last)
    BY <1>1, <1>4, <2>1, <2>2 DEF From
  <2>4. kind # "COMMENT" => line.text = IF s.text THEN <<t>> ELSE << >>
    BY <2>1 DEF TextIf
  <2> QED
    BY <1>3, <1>5, <1>6, <1>8, <2>3, <2>4 DEF s, line, last
<1> QED
  BY <1>7, <1>8

-----------------------------------------------------------------------------
(* What the rows hold that the Textile reader has built from the lines     *)
(* before a line.                                                          *)

TextileType == {"paragraph", "heading", "blockquote", "code", "raw", "list", "list_item", "table"}

TextileRow ==
    [kind : {"block"}, type : TextileType, level : Nat, text : Seq(Nat \ {0}),
     list_type : {"", "bullet", "ordered", "definition"}, role : {"", "term", "definition"},
     header : Seq(Nat \ {0}), cells : Seq(Seq(Nat \ {0})), style : Nat, heading : {0}, key : {""}]

\* Two texts are in one of a table's rows just when they are of one line.
CellsWhole(r) ==
    \A c, d \in DOMAIN r.cells : \A x \in Range(r.cells[c]), y \in Range(r.cells[d]) :
        LineOf(x) <= LineOf(y) => (c = d <=> LineOf(x) = LineOf(y))

\* Between two lines of a paragraph there is nothing but prose.
RunsOn(r) ==
    r.type = "paragraph" /\ r.level = 1 =>
        \A x, y \in Range(r.text) :
            \A n \in LineOf(x) + 1 .. LineOf(y) - 1 : Textile!KindOf(source[n]) = "TEXT"

InOrder(R) ==
    \A m, n \in DOMAIN R : m < n => \A x \in Range(R[m].text), y \in Range(R[n].text) : x < y

\* A style is one row's, and its text is that row's, or of a quote the next one's.
StylesOwn(R) ==
    \A n \in DOMAIN R : R[n].style # 0 =>
        /\ \A m \in DOMAIN R : R[m].style = R[n].style => m = n
        /\ source[R[n].style].text =>
              LET m == IF R[n].type = "blockquote" THEN n + 1 ELSE n
              IN  m \in DOMAIN R /\ TextOf(R[n].style) \in Range(R[m].text)

RowIn(r, a, b) ==
    /\ \A x \in Range(r.text) : LineOf(x) \in a .. b
    /\ r.style \in {0} \cup a .. b
    /\ CellsWhole(r) /\ RunsOn(r)

\* Rows of the lines a .. b: the texts, styles, tables and paragraphs.
RowsOf(R, a, b) ==
    /\ R \in Seq(TextileRow)
    /\ \A n \in DOMAIN R : RowIn(R[n], a, b)
    /\ InOrder(R) /\ StylesOwn(R)

IsProse(n) == n \in DOMAIN source /\ source[n].text /\ source[n].lead \in {"word", "img"}

InRows(R, t) == \E m \in DOMAIN R : t \in Range(R[m].text)

\* The prose of the lines a .. b is in some row, or in the paragraph.
ProseIn(R, para, a, b) ==
    \A n \in a .. b : IsProse(n) => InRows(R, TextOf(n)) \/ TextOf(n) \in Range(para) \/ LostInListing(n)

\* The paragraph that is open before line `here` goes on to it, behind all rows.
ParaOpen(R, para, style, here) ==
    /\ From(para, 1, here - 1)
    /\ \A m \in DOMAIN R : \A x \in Range(R[m].text), y \in Range(para) : x < y
    /\ \A x \in Range(para) : \A n \in LineOf(x) + 1 .. here - 1 : Textile!KindOf(source[n]) = "TEXT"
    /\ style \in 0 .. here - 1
    /\ style # 0 => /\ \A m \in DOMAIN R : R[m].style # style
                    /\ source[style].text => TextOf(style) \in Range(para)

IsBuilder(b) ==
    b = [blocks |-> b.blocks, para |-> b.para, pending_style |-> b.pending_style, open |-> b.open]

TextsGood(b, here) ==
    /\ IsBuilder(b) /\ here \in Nat \ {0}
    /\ RowsOf(b.blocks, 1, here - 1)
    /\ ProseIn(b.blocks, b.para, 1, here - 1)
    /\ ParaOpen(b.blocks, b.para, b.pending_style, here)

\* A text of an earlier line is a lesser number.
LEMMA EarlierIsLess ==
    ASSUME NEW x \in Nat, NEW y \in Nat, LineOf(x) < LineOf(y)
    PROVE  x < y
  BY DEF LineOf

StyledRow(type, level, text, style) == [Textile!Row(type, level, text) EXCEPT !.style = style]

IsRow(r, type, level, text, style) ==
    /\ r \in TextileRow /\ r.type = type /\ r.level = level /\ r.text = text /\ r.style = style
    /\ CellsWhole(r)

\* What a row of the reader's is, but for the fields it is given.
LEMMA RowFields ==
    ASSUME NEW type \in TextileType, NEW level \in Nat, NEW text \in Seq(Nat \ {0}), NEW style \in Nat
    PROVE  /\ IsRow(StyledRow(type, level, text, style), type, level, text, style)
           /\ IsRow(Textile!Row(type, level, text), type, level, text, 0)
<1> DEFINE row == [kind |-> "block", type |-> type, level |-> level, text |-> text, list_type |-> "", role |-> "",
                   header |-> << >>, cells |-> << >>, style |-> 0, heading |-> 0, key |-> ""]
           styled == [row EXCEPT !.style = style]
<1>1. Textile!Row(type, level, text) = row
  BY DEF Textile!Row
<1>2. row \in TextileRow /\ styled \in TextileRow
  <2>1. << >> \in Seq(Nat \ {0}) /\ << >> \in Seq(Seq(Nat \ {0}))
    BY EmptySeq
  <2> HIDE DEF styled
  <2>2. row \in TextileRow
    BY <2>1 DEF TextileRow
  <2> HIDE DEF row
  <2>3. [row EXCEPT !.style = style] \in TextileRow
    BY <2>2 DEF TextileRow
  <2> QED
    BY <2>2, <2>3 DEF styled
<1>3. /\ row.type = type /\ row.level = level /\ row.text = text /\ row.style = 0 /\ DOMAIN row.cells = {}
      /\ styled.type = type /\ styled.level = level /\ styled.text = text /\ styled.style = style
      /\ DOMAIN styled.cells = {}
  OBVIOUS
<1>4. StyledRow(type, level, text, style) = styled
  BY <1>1 DEF StyledRow
<1> HIDE DEF row, styled
<1>5. CellsWhole(row) /\ CellsWhole(styled)
  BY <1>3 DEF CellsWhole
<1> QED
  BY <1>1, <1>2, <1>3, <1>4, <1>5 DEF IsRow

\* The rows in front stay what they are, and the others come behind them.
LEMMA JoinedRows ==
    ASSUME NEW R \in Seq(TextileRow), NEW N \in Seq(TextileRow)
    PROVE  /\ R \o N \in Seq(TextileRow)
           /\ Len(R) \in Nat /\ Len(N) \in Nat
           /\ DOMAIN R = 1 .. Len(R) /\ DOMAIN N = 1 .. Len(N) /\ DOMAIN (R \o N) = 1 .. Len(R) + Len(N)
           /\ Len(R \o N) = Len(R) + Len(N)
           /\ \A n \in 1 .. Len(R) : n \in DOMAIN (R \o N) /\ (R \o N)[n] = R[n]
           /\ \A n \in 1 .. Len(N) : Len(R) + n \in DOMAIN (R \o N) /\ (R \o N)[Len(R) + n] = N[n]
           /\ \A n \in DOMAIN (R \o N) : n \in 1 .. Len(R) \/ (n - Len(R) \in 1 .. Len(N) /\ n > Len(R))
<1> DEFINE J == R \o N
           l == Len(R)
           k == Len(N)
<1>1. /\ l \in Nat /\ k \in Nat /\ DOMAIN R = 1 .. l /\ DOMAIN N = 1 .. k
  BY LenProperties
<1>2. /\ J \in Seq(TextileRow) /\ Len(J) = l + k
      /\ \A n \in 1 .. l + k : J[n] = IF n <= l THEN R[n] ELSE N[n - l]
  BY ConcatProperties
<1>3. DOMAIN J = 1 .. l + k
  BY <1>2, LenProperties
<1> HIDE DEF J, l, k
<1>4. \A n \in 1 .. l : n \in 1 .. l + k /\ n <= l
  BY <1>1
<1>5. \A n \in 1 .. k : l + n \in 1 .. l + k /\ ~(l + n <= l) /\ (l + n) - l = n
  BY <1>1
<1>6. \A n \in 1 .. l : n \in DOMAIN J /\ J[n] = R[n]
  BY <1>2, <1>3, <1>4
<1>7. \A n \in 1 .. k : l + n \in DOMAIN J /\ J[l + n] = N[n]
  BY <1>2, <1>3, <1>5
<1>8. \A n \in DOMAIN J : n \in 1 .. l \/ (n - l \in 1 .. k /\ n > l)
  BY <1>1, <1>3
<1> QED
  BY <1>1, <1>2, <1>3, <1>6, <1>7, <1>8 DEF J, l, k

\* What a sequence holds is in the set its elements are of.
LEMMA RangeOf == ASSUME NEW T, NEW s \in Seq(T) PROVE Range(s) \subseteq T
  BY ElementOfSeq, LenProperties DEF Range

\* One row's texts come before the other's, and they share no style.
Before(r, s) ==
    /\ \A x \in Range(r.text), y \in Range(s.text) : x < y
    /\ r.style = s.style => r.style = 0

\* Rows that come behind others are in order and have their own styles.
LEMMA RowsJoined ==
    ASSUME NEW a \in Nat, NEW b \in Nat, NEW R, NEW N, RowsOf(R, a, b), RowsOf(N, a, b),
           \A m \in DOMAIN R, n \in DOMAIN N : Before(R[m], N[n])
    PROVE  RowsOf(R \o N, a, b)
<1> DEFINE J == R \o N
           l == Len(R)
           k == Len(N)
<1>0. R \in Seq(TextileRow) /\ N \in Seq(TextileRow)
  BY DEF RowsOf
<1>1. /\ J \in Seq(TextileRow) /\ l \in Nat /\ k \in Nat
      /\ DOMAIN R = 1 .. l /\ DOMAIN N = 1 .. k /\ DOMAIN J = 1 .. l + k
      /\ \A n \in 1 .. l : n \in DOMAIN J /\ J[n] = R[n]
      /\ \A n \in 1 .. k : l + n \in DOMAIN J /\ J[l + n] = N[n]
  BY <1>0, JoinedRows
<1> HIDE DEF J, l, k
<1>2. \A n \in DOMAIN J : \/ n \in DOMAIN R /\ J[n] = R[n]
                          \/ n - l \in DOMAIN N /\ n = l + (n - l) /\ n > l /\ J[n] = N[n - l]
  <2> TAKE n \in DOMAIN J
  <2>1. n \in 1 .. l \/ (n - l \in 1 .. k /\ n = l + (n - l) /\ n > l)
    BY <1>1
  <2> QED
    BY <1>1, <2>1
<1>3. \A n \in DOMAIN J : RowIn(J[n], a, b)
  BY <1>2 DEF RowsOf
<1>4. InOrder(J)
  <2> SUFFICES ASSUME NEW m \in DOMAIN J, NEW n \in DOMAIN J, m < n,
                      NEW x \in Range(J[m].text), NEW y \in Range(J[n].text)
               PROVE  x < y
    BY DEF InOrder
  <2>1. CASE n \in DOMAIN R
    <3>1. m \in DOMAIN R
      BY <1>1, <2>1
    <3> QED
      BY <1>1, <2>1, <3>1 DEF RowsOf, InOrder
  <2>2. CASE m \in DOMAIN R /\ n \notin DOMAIN R
    BY <1>1, <1>2, <2>2 DEF Before
  <2>3. CASE m \notin DOMAIN R /\ n \notin DOMAIN R
    <3>1. /\ m - l \in DOMAIN N /\ J[m] = N[m - l] /\ n - l \in DOMAIN N /\ J[n] = N[n - l]
          /\ m - l < n - l
      BY <1>1, <1>2, <2>3
    <3> QED
      BY <3>1 DEF RowsOf, InOrder
  <2> QED
    BY <2>1, <2>2, <2>3
<1>5. StylesOwn(J)
  <2> SUFFICES ASSUME NEW n \in DOMAIN J, J[n].style # 0
               PROVE  /\ \A m \in DOMAIN J : J[m].style = J[n].style => m = n
                      /\ source[J[n].style].text =>
                            LET m == IF J[n].type = "blockquote" THEN n + 1 ELSE n
                            IN  m \in DOMAIN J /\ TextOf(J[n].style) \in Range(J[m].text)
    BY DEF StylesOwn
  <2>1. CASE n \in DOMAIN R
    <3>1. J[n] = R[n]
      BY <1>1, <2>1
    <3>2. ASSUME NEW m \in DOMAIN J, J[m].style = J[n].style PROVE m = n
      <4>1. CASE m \in DOMAIN R
        BY <1>1, <2>1, <3>1, <3>2, <4>1 DEF RowsOf, StylesOwn
      <4>2. CASE m \notin DOMAIN R
        BY <1>2, <2>1, <3>1, <3>2, <4>2 DEF Before
      <4> QED
        BY <4>1, <4>2
    <3>3. ASSUME source[R[n].style].text
          PROVE  LET m == IF R[n].type = "blockquote" THEN n + 1 ELSE n
                 IN  m \in DOMAIN R /\ TextOf(R[n].style) \in Range(R[m].text)
      BY <2>1, <3>1, <3>3 DEF RowsOf, StylesOwn
    <3> QED
      BY <1>1, <3>1, <3>2, <3>3
  <2>2. CASE n \notin DOMAIN R
    <3> DEFINE h == n - l
    <3>1. h \in DOMAIN N /\ J[n] = N[h] /\ n = l + h /\ h \in Nat /\ n + 1 = l + (h + 1)
      BY <1>1, <1>2, <2>2
    <3> HIDE DEF h
    <3>2. ASSUME NEW m \in DOMAIN J, J[m].style = J[n].style PROVE m = n
      <4>1. CASE m \in DOMAIN R
        BY <1>1, <3>1, <3>2, <4>1 DEF Before
      <4>2. CASE m \notin DOMAIN R
        <5>1. m - l \in DOMAIN N /\ J[m] = N[m - l] /\ m = l + (m - l)
          BY <1>2, <4>2
        <5>2. m - l = h
          BY <3>1, <3>2, <5>1 DEF RowsOf, StylesOwn
        <5> QED
          BY <3>1, <5>1, <5>2
      <4> QED
        BY <4>1, <4>2
    <3>3. ASSUME source[N[h].style].text
          PROVE  LET m == IF N[h].type = "blockquote" THEN h + 1 ELSE h
                 IN  m \in DOMAIN N /\ TextOf(N[h].style) \in Range(N[m].text)
      BY <3>1, <3>3 DEF RowsOf, StylesOwn
    <3>4. \A m \in DOMAIN N : l + m \in DOMAIN J /\ J[l + m] = N[m]
      BY <1>1
    <3> QED
      BY <3>1, <3>2, <3>3, <3>4
  <2> QED
    BY <2>1, <2>2
<1> QED
  BY <1>1, <1>3, <1>4, <1>5 DEF RowsOf, J

\* Rows of some lines are rows of more lines.
LEMMA RowsWidened ==
    ASSUME NEW a \in Nat, NEW b \in Nat, NEW c \in Nat, NEW d \in Nat, c <= a, b <= d, NEW R, RowsOf(R, a, b)
    PROVE  RowsOf(R, c, d)
<1>1. a .. b \subseteq c .. d
  OBVIOUS
<1>2. \A n \in DOMAIN R : RowIn(R[n], c, d)
  <2> TAKE n \in DOMAIN R
  <2>1. RowIn(R[n], a, b)
    BY DEF RowsOf
  <2> QED
    BY <1>1, <2>1 DEF RowIn
<1> QED
  BY <1>2 DEF RowsOf

\* Rows of earlier lines come before rows of later ones.
LEMMA RowsFollow ==
    ASSUME NEW b \in Nat, NEW c \in Nat, NEW d \in Nat, b < c, c <= d, NEW R, NEW N,
           RowsOf(R, 1, b), RowsOf(N, c, d)
    PROVE  RowsOf(R \o N, 1, d)
<1>1. RowsOf(R, 1, d) /\ RowsOf(N, 1, d)
  BY RowsWidened
<1>2. ASSUME NEW m \in DOMAIN R, NEW n \in DOMAIN N PROVE Before(R[m], N[n])
  <2> DEFINE r == R[m]
             s == N[n]
  <2>1. RowIn(r, 1, b) /\ RowIn(s, c, d) /\ r \in TextileRow /\ s \in TextileRow
    BY ElementOfSeq DEF RowsOf
  <2> HIDE DEF r, s
  <2>2. r.style \in Nat /\ s.style \in Nat /\ r.text \in Seq(Nat \ {0}) /\ s.text \in Seq(Nat \ {0})
    BY <2>1 DEF TextileRow
  <2>3. r.style = s.style => r.style = 0
    BY <2>1, <2>2 DEF RowIn
  <2>4. ASSUME NEW x \in Range(r.text), NEW y \in Range(s.text) PROVE x < y
    <3>1. x \in Nat /\ y \in Nat
      BY <2>2, RangeOf
    <3>2. LineOf(x) \in 1 .. b /\ LineOf(y) \in c .. d
      BY <2>1 DEF RowIn
    <3> QED
      BY <3>1, <3>2, EarlierIsLess
  <2> QED
    BY <2>3, <2>4 DEF Before, r, s
<1> QED
  BY <1>1, <1>2, RowsJoined

\* A row by itself.
LEMMA OneRow ==
    ASSUME NEW a \in Nat, NEW b \in Nat, NEW r \in TextileRow, RowIn(r, a, b),
           r.style # 0 => /\ r.type # "blockquote"
                          /\ source[r.style].text => TextOf(r.style) \in Range(r.text)
    PROVE  RowsOf(<<r>>, a, b)
<1>1. <<r>> \in Seq(TextileRow) /\ DOMAIN <<r>> = {1} /\ <<r>>[1] = r
  OBVIOUS
<1> DEFINE R == <<r>>
<1> HIDE DEF R
<1>2. InOrder(R)
  BY <1>1 DEF InOrder, R
<1>3. StylesOwn(R)
  BY <1>1 DEF StylesOwn, R
<1> QED
  BY <1>1, <1>2, <1>3 DEF RowsOf, R

-----------------------------------------------------------------------------
(* The steps of the Textile reader's Builder, and the texts it holds.      *)

\* Several rows more, and one.
LEMMA AllEmittedIs ==
    ASSUME NEW b, IsBuilder(b), NEW new
    PROVE  /\ IsBuilder(Textile!AllEmitted(b, new))
           /\ Textile!AllEmitted(b, new).blocks = b.blocks \o new
           /\ Textile!AllEmitted(b, new).para = b.para
           /\ Textile!AllEmitted(b, new).pending_style = b.pending_style
           /\ Textile!AllEmitted(b, new).open = b.open
<1>1. Textile!AllEmitted(b, new) = [b EXCEPT !.blocks = b.blocks \o new]
  BY DEF Textile!AllEmitted
<1> QED
  BY <1>1 DEF IsBuilder

\* One row more, behind the others.
LEMMA EmittedIs ==
    ASSUME NEW b, IsBuilder(b), b.blocks \in Seq(TextileRow), NEW row \in TextileRow
    PROVE  /\ Textile!Emitted(b, row) = [b EXCEPT !.blocks = b.blocks \o <<row>>]
           /\ IsBuilder(Textile!Emitted(b, row))
           /\ Textile!Emitted(b, row).blocks = b.blocks \o <<row>>
           /\ Textile!Emitted(b, row).para = b.para
           /\ Textile!Emitted(b, row).pending_style = b.pending_style
           /\ Textile!Emitted(b, row).open = b.open
<1>1. Append(b.blocks, row) = b.blocks \o <<row>>
  BY AppendIsConcat
<1>2. Textile!Emitted(b, row) = [b EXCEPT !.blocks = Append(b.blocks, row)]
  BY DEF Textile!Emitted
<1> QED
  BY <1>1, <1>2 DEF IsBuilder

\* The paragraph row that Flush emits.
ParaRow(b) == StyledRow("paragraph", 1, b.para, b.pending_style)

\* The paragraph becomes a row, with the style that was pending; without one
\* nothing happens.
LEMMA FlushIs ==
    ASSUME NEW b, IsBuilder(b), b.blocks \in Seq(TextileRow), ParaRow(b) \in TextileRow
    PROVE  LET c == Textile!Flush(b)
           IN  /\ IsBuilder(c) /\ c.open = b.open /\ c.para = << >>
               /\ b.para = << >> => c = b
               /\ b.para # << >> => c.blocks = b.blocks \o <<ParaRow(b)>> /\ c.pending_style = 0
<1>1. CASE b.para = << >>
  BY <1>1 DEF Textile!Flush
<1>2. CASE b.para # << >>
  <2> DEFINE e == Textile!Emitted(b, ParaRow(b))
  <2>1. Textile!Flush(b) = [e EXCEPT !.para = << >>, !.pending_style = 0]
    BY <1>2 DEF Textile!Flush, ParaRow, StyledRow
  <2>2. IsBuilder(e) /\ e.blocks = b.blocks \o <<ParaRow(b)>> /\ e.open = b.open
    BY EmittedIs
  <2> HIDE DEF e
  <2> QED
    BY <1>2, <2>1, <2>2 DEF IsBuilder
<1> QED
  BY <1>1, <1>2

\* Rows that are added leave what is in a row in a row.
LEMMA RowsStay ==
    ASSUME NEW R \in Seq(TextileRow), NEW N \in Seq(TextileRow), NEW t
    PROVE  InRows(R \o N, t) <=> InRows(R, t) \/ InRows(N, t)
<1> DEFINE J == R \o N
           l == Len(R)
<1>1. /\ DOMAIN R = 1 .. l /\ DOMAIN N = 1 .. Len(N)
      /\ \A n \in 1 .. l : n \in DOMAIN J /\ J[n] = R[n]
      /\ \A n \in 1 .. Len(N) : l + n \in DOMAIN J /\ J[l + n] = N[n]
      /\ \A n \in DOMAIN J : n \in 1 .. l \/ (n - l \in 1 .. Len(N) /\ n > l)
      /\ l \in Nat /\ DOMAIN J = 1 .. l + Len(N)
      /\ Len(N) \in Nat
  BY JoinedRows
<1> HIDE DEF J, l
<1>2. \A n \in DOMAIN J : (n \in DOMAIN R /\ J[n] = R[n]) \/ (n - l \in DOMAIN N /\ J[n] = N[n - l])
  <2> TAKE n \in DOMAIN J
  <2>1. n \in 1 .. l \/ (n - l \in 1 .. Len(N) /\ n = l + (n - l))
    BY <1>1
  <2> QED
    BY <1>1, <2>1
<1> QED
  BY <1>1, <1>2 DEF InRows, J

\* What the open paragraph is as a row, behind the others.
LEMMA ParaAsRow ==
    ASSUME NEW b, NEW here, TextsGood(b, here)
    PROVE  /\ ParaRow(b) \in TextileRow /\ ParaRow(b).text = b.para
           /\ RowsOf(<<ParaRow(b)>>, 1, here - 1)
           /\ \A m \in DOMAIN b.blocks : Before(b.blocks[m], ParaRow(b))
<1> DEFINE r == ParaRow(b)
<1>1. b.para \in Seq(Nat \ {0}) /\ b.pending_style \in 0 .. here - 1 /\ here \in Nat \ {0}
  BY DEF TextsGood, ParaOpen, From
<1>2. /\ r \in TextileRow /\ r.type = "paragraph" /\ r.level = 1 /\ r.text = b.para /\ r.style = b.pending_style
      /\ CellsWhole(r)
  <2> DEFINE para == b.para
             style == b.pending_style
             type == "paragraph"
             row == StyledRow(type, 1, para, style)
  <2>1. para \in Seq(Nat \ {0}) /\ style \in Nat /\ 1 \in Nat /\ type \in TextileType
    BY <1>1 DEF TextileType
  <2> HIDE DEF para, style, type
  <2>2. IsRow(row, type, 1, para, style)
    BY <2>1, RowFields
  <2> QED
    BY <2>2 DEF ParaRow, IsRow, para, style, type
<1> HIDE DEF r
<1>3. RunsOn(r)
  <2> SUFFICES ASSUME NEW x \in Range(r.text), NEW y \in Range(r.text), NEW n \in LineOf(x) + 1 .. LineOf(y) - 1
               PROVE  Textile!KindOf(source[n]) = "TEXT"
    BY DEF RunsOn
  <2>1. LineOf(x) \in 1 .. here - 1 /\ LineOf(y) \in 1 .. here - 1
    BY <1>2 DEF TextsGood, ParaOpen, From
  <2>2. n \in LineOf(x) + 1 .. here - 1
    BY <1>1, <2>1
  <2> QED
    BY <1>2, <2>2 DEF TextsGood, ParaOpen
<1>4. RowIn(r, 1, here - 1)
  BY <1>1, <1>2, <1>3 DEF RowIn, TextsGood, ParaOpen, From
<1>5. RowsOf(<<r>>, 1, here - 1)
  <2>1. r.style # 0 => r.type # "blockquote" /\ (source[r.style].text => TextOf(r.style) \in Range(r.text))
    BY <1>2 DEF TextsGood, ParaOpen
  <2>2. 1 \in Nat /\ here - 1 \in Nat
    BY <1>1
  <2> QED
    BY <1>2, <1>4, <2>1, <2>2, OneRow
<1>6. \A m \in DOMAIN b.blocks : Before(b.blocks[m], r)
  BY <1>2 DEF Before, TextsGood, ParaOpen
<1> QED
  BY <1>2, <1>5, <1>6 DEF r

\* Flush leaves the texts where they are, the paragraph behind them all.
LEMMA FlushKeeps ==
    ASSUME NEW b, NEW here, TextsGood(b, here)
    PROVE  /\ TextsGood(Textile!Flush(b), here)
           /\ Textile!Flush(b).para = << >> /\ Textile!Flush(b).open = b.open
<1> DEFINE c == Textile!Flush(b)
           r == ParaRow(b)
<1>1. IsBuilder(b) /\ here \in Nat \ {0} /\ RowsOf(b.blocks, 1, here - 1) /\ b.blocks \in Seq(TextileRow)
  BY DEF TextsGood, RowsOf
<1>2. /\ r \in TextileRow /\ r.text = b.para /\ RowsOf(<<r>>, 1, here - 1)
      /\ \A m \in DOMAIN b.blocks : Before(b.blocks[m], r)
  BY ParaAsRow
<1>3. /\ IsBuilder(c) /\ c.open = b.open /\ c.para = << >>
      /\ b.para = << >> => c = b
      /\ b.para # << >> => c.blocks = b.blocks \o <<r>> /\ c.pending_style = 0
  BY <1>1, <1>2, FlushIs
<1> HIDE DEF c, r
<1>4. CASE b.para = << >>
  BY <1>3, <1>4 DEF c
<1>5. CASE b.para # << >>
  <2>1. RowsOf(c.blocks, 1, here - 1)
    <3>1. \A m \in DOMAIN b.blocks, n \in DOMAIN <<r>> : Before(b.blocks[m], <<r>>[n])
      BY <1>2
    <3>2. 1 \in Nat /\ here - 1 \in Nat
      BY <1>1
    <3>3. RowsOf(b.blocks \o <<r>>, 1, here - 1)
      BY <1>1, <1>2, <3>1, <3>2, RowsJoined
    <3> QED
      BY <1>3, <1>5, <3>3
  <2>2. ProseIn(c.blocks, c.para, 1, here - 1)
    <3>1. <<r>> \in Seq(TextileRow)
      BY <1>2
    <3>2. \A t : InRows(c.blocks, t) <=> InRows(b.blocks, t) \/ InRows(<<r>>, t)
      <4> DEFINE one == <<r>>
                 R == b.blocks
      <4>1. R \in Seq(TextileRow) /\ one \in Seq(TextileRow) /\ c.blocks = R \o one
        BY <1>1, <1>3, <1>5, <3>1
      <4> HIDE DEF one, R
      <4>2. \A t : InRows(R \o one, t) <=> InRows(R, t) \/ InRows(one, t)
        BY <4>1, RowsStay
      <4> QED
        BY <4>1, <4>2 DEF one, R
    <3>3. \A t \in Range(b.para) : InRows(<<r>>, t)
      BY <1>2 DEF InRows
    <3> QED
      BY <3>2, <3>3 DEF ProseIn, TextsGood
  <2>3. ParaOpen(c.blocks, c.para, c.pending_style, here)
    <3>1. << >> \in Seq(Nat \ {0}) /\ Range(<< >>) = {}
      BY EmptySeq DEF Range
    <3> QED
      BY <1>1, <1>3, <1>5, <3>1 DEF ParaOpen, From
  <2> QED
    BY <1>1, <1>3, <2>1, <2>2, <2>3 DEF TextsGood, c
<1> QED
  BY <1>4, <1>5

\* Rows of the lines here .. last behind the others, no paragraph being open.
LEMMA EmitKeeps ==
    ASSUME NEW b, NEW here, TextsGood(b, here), b.para = << >>, NEW last \in Nat, here <= last,
           NEW N, RowsOf(N, here, last),
           \A n \in here .. last : IsProse(n) => InRows(N, TextOf(n)) \/ LostInListing(n),
           NEW c, IsBuilder(c), c.para = << >>, c.pending_style = b.pending_style, c.blocks = b.blocks \o N
    PROVE  TextsGood(c, last + 1)
<1> DEFINE R == b.blocks
           J == c.blocks
           style == b.pending_style
<1>1. /\ here \in Nat \ {0} /\ here - 1 \in Nat /\ RowsOf(R, 1, here - 1) /\ R \in Seq(TextileRow)
      /\ N \in Seq(TextileRow) /\ J = R \o N
      /\ ProseIn(R, << >>, 1, here - 1) /\ ParaOpen(R, << >>, style, here)
  BY DEF TextsGood, RowsOf
<1> HIDE DEF R, J
<1>2. RowsOf(J, 1, last)
  BY <1>1, RowsFollow
<1>3. \A t : InRows(J, t) <=> InRows(R, t) \/ InRows(N, t)
  BY <1>1, RowsStay
<1>4. Range(<< >>) = {} /\ << >> \in Seq(Nat \ {0})
  BY EmptySeq DEF Range
<1>5. ProseIn(J, << >>, 1, last)
  <2> SUFFICES ASSUME NEW n \in 1 .. last, IsProse(n), ~LostInListing(n) PROVE InRows(J, TextOf(n))
    BY DEF ProseIn
  <2>1. n \in 1 .. here - 1 \/ n \in here .. last
    BY <1>1
  <2> QED
    BY <1>1, <1>3, <1>4, <2>1 DEF ProseIn
<1>6. ParaOpen(J, << >>, style, last + 1)
  <2>1. style \in 0 .. here - 1 /\ (style # 0 => /\ \A m \in DOMAIN R : R[m].style # style
                                                 /\ ~source[style].text)
    BY <1>1, <1>4 DEF ParaOpen
  <2>2. style \in 0 .. last
    BY <1>1, <2>1
  <2>3. ASSUME style # 0, NEW m \in DOMAIN J PROVE J[m].style # style
    <3>1. \A n \in DOMAIN N : N[n].style # style
      <4> TAKE n \in DOMAIN N
      <4>1. N[n].style \in {0} \cup here .. last
        BY DEF RowsOf, RowIn
      <4> QED
        BY <1>1, <2>1, <2>3, <4>1
    <3>2. (m \in DOMAIN R /\ J[m] = R[m]) \/ (m - Len(R) \in DOMAIN N /\ J[m] = N[m - Len(R)])
      <4> DEFINE l == Len(R)
      <4>1. /\ DOMAIN R = 1 .. l /\ DOMAIN N = 1 .. Len(N) /\ l \in Nat
            /\ \A n \in 1 .. l : J[n] = R[n]
            /\ \A n \in 1 .. Len(N) : J[l + n] = N[n]
            /\ m \in 1 .. l \/ (m - l \in 1 .. Len(N) /\ m > l)
            /\ DOMAIN J = 1 .. l + Len(N) /\ Len(N) \in Nat
        BY <1>1, JoinedRows
      <4> HIDE DEF l
      <4>2. m - l \in 1 .. Len(N) => m = l + (m - l)
        BY <4>1
      <4> QED
        BY <4>1, <4>2 DEF l
    <3> QED
      BY <2>1, <2>3, <3>1, <3>2
  <2>4. last + 1 - 1 = last
    OBVIOUS
  <2> HIDE DEF style
  <2> QED
    BY <1>4, <2>1, <2>2, <2>3, <2>4 DEF ParaOpen, From
<1>7. last + 1 - 1 = last /\ last + 1 \in Nat \ {0}
  OBVIOUS
<1> QED
  BY <1>2, <1>5, <1>6, <1>7 DEF TextsGood, J

\* Lines without prose that emit nothing.
LEMMA PassKeeps ==
    ASSUME NEW b, NEW here, TextsGood(b, here), b.para = << >>, ~IsProse(here)
    PROVE  TextsGood(b, here + 1)
<1>1. IsBuilder(b) /\ here \in Nat \ {0} /\ b.blocks \in Seq(TextileRow)
  BY DEF TextsGood, RowsOf
<1> DEFINE N == << >>
<1>2. RowsOf(N, here, here)
  <2>1. N \in Seq(TextileRow) /\ DOMAIN N = {}
    BY EmptySeq
  <2> HIDE DEF N
  <2> QED
    BY <2>1 DEF RowsOf, InOrder, StylesOwn
<1>3. b.blocks = b.blocks \o N
  BY <1>1, ConcatEmptySeq
<1> HIDE DEF N
<1>4. here \in Nat /\ \A n \in here .. here : ~IsProse(n)
  BY <1>1
<1> QED
  BY <1>1, <1>2, <1>3, <1>4, EmitKeeps

\* Lists are closed by any line but an item or a comment, and nothing else is.
LEMMA CloseKeeps ==
    ASSUME NEW b, NEW here, TextsGood(b, here)
    PROVE  LET c == Textile!CloseLists(b)
           IN  /\ TextsGood(c, here) /\ c.open = << >> /\ c.blocks = b.blocks
               /\ c.para = b.para /\ c.pending_style = b.pending_style
<1> DEFINE c == Textile!CloseLists(b)
<1>1. IsBuilder(b)
  BY DEF TextsGood
<1>2. IsBuilder(c) /\ c.open = << >> /\ c.blocks = b.blocks /\ c.para = b.para /\ c.pending_style = b.pending_style
  BY <1>1 DEF Textile!CloseLists, IsBuilder
<1> HIDE DEF c
<1> QED
  BY <1>2 DEF TextsGood, c

\* And what is done before most kinds of lines: the paragraph, then the lists.
LEMMA ClosedKeeps ==
    ASSUME NEW here, TextsGood(builder, here)
    PROVE  LET c == Textile!Closed
           IN  /\ TextsGood(c, here) /\ c.open = << >> /\ c.para = << >>
               /\ c.blocks = Textile!Flush(builder).blocks
<1> DEFINE f == Textile!Flush(builder)
<1>1. TextsGood(f, here) /\ f.para = << >>
  BY FlushKeeps
<1>2. Textile!Closed = Textile!CloseLists(f)
  BY DEF Textile!Closed
<1> HIDE DEF f
<1>3. LET c == Textile!CloseLists(f)
      IN  TextsGood(c, here) /\ c.open = << >> /\ c.blocks = f.blocks /\ c.para = f.para
  BY <1>1, CloseKeeps
<1> QED
  BY <1>1, <1>2, <1>3 DEF f

-----------------------------------------------------------------------------
(* The texts, one lemma for each kind of line.                             *)

\* The line the Builder reads is the one the scanner made of line `here`.
ReadingAt(here) == here \in DOMAIN source /\ Textile!Line = Textile!ScannedLine(here)

\* A line that may state a style is one line, no prose, and has its text and
\* its style from nowhere else.
LEMMA StyledLine ==
    ASSUME IsSource, NEW here, ReadingAt(here),
           Textile!Line.kind \in {"HEADING", "PARA", "BLOCKQUOTE", "CODE"}
    PROVE  LET line == Textile!Line
           IN  /\ here \in Nat \ {0} /\ From(line.text, here, here) /\ ~IsProse(here)
               /\ line.style \in {0} \cup here .. here /\ line.style \in 0 .. here
               /\ line.style # 0 /\ source[line.style].text => TextOf(line.style) \in Range(line.text)
<1> DEFINE s == source[here]
           line == Textile!Line
<1>1. here \in Nat \ {0} /\ here \in DOMAIN source /\ line = Textile!ScannedLine(here) /\ s \in SourceLine
  BY LastLineIs, ElementOfSeq DEF ReadingAt, IsSource
<1>2. line.kind = Textile!KindOf(s) /\ line.style = IF s.lead = "." /\ s.style THEN here ELSE 0
  BY <1>1, ScannedFields
<1>3. Textile!LastLineOf(here) = here /\ s.lead \notin {"word", "img"}
  BY <1>1, <1>2, LastLineIs, KindIs
<1>4. From(line.text, here, here) /\ line.text = IF s.text THEN <<TextOf(here)>> ELSE << >>
  BY <1>1, <1>2, <1>3, ScannedTexts
<1>5. s.text => TextOf(here) \in Range(line.text)
  BY <1>4 DEF Range
<1>6. ~IsProse(here)
  BY <1>3 DEF IsProse
<1> QED
  BY <1>1, <1>2, <1>4, <1>5, <1>6

\* A line of prose is in the paragraph whole.
LEMMA ProseLine ==
    ASSUME IsSource, NEW here, ReadingAt(here), Textile!Line.kind = "TEXT"
    PROVE  /\ here \in Nat \ {0} /\ From(Textile!Line.text, here, here)
           /\ source[here].text => TextOf(here) \in Range(Textile!Line.text)
           /\ Textile!KindOf(source[here]) = "TEXT"
<1> DEFINE s == source[here]
           line == Textile!Line
<1>1. here \in Nat \ {0} /\ here \in DOMAIN source /\ line = Textile!ScannedLine(here) /\ s \in SourceLine
  BY LastLineIs, ElementOfSeq DEF ReadingAt, IsSource
<1>2. line.kind = Textile!KindOf(s)
  BY <1>1, ScannedFields
<1>3. Textile!LastLineOf(here) = here
  BY <1>1, <1>2, LastLineIs
<1>4. From(line.text, here, here) /\ \A m \in here .. here : source[m].text => TextOf(m) \in Range(line.text)
  BY <1>1, <1>2, <1>3, ScannedTexts
<1>5. here \in here .. here
  BY <1>1
<1> QED
  BY <1>1, <1>2, <1>4, <1>5

\* A row with the texts and the style of some lines, neither a paragraph on the
\* top level nor a quote.
LEMMA RowOf ==
    ASSUME NEW a \in Nat, NEW b \in Nat, NEW type \in TextileType, NEW level \in Nat, NEW text, From(text, a, b),
           NEW style \in Nat, style \in {0} \cup a .. b,
           type # "paragraph" \/ level # 1, type # "blockquote",
           style # 0 /\ source[style].text => TextOf(style) \in Range(text),
           NEW r, IsRow(r, type, level, text, style)
    PROVE  RowsOf(<<r>>, a, b)
<1>1. RunsOn(r)
  BY DEF IsRow, RunsOn
<1>2. RowIn(r, a, b)
  BY <1>1 DEF IsRow, RowIn, From
<1>3. r \in TextileRow /\ (r.style # 0 => /\ r.type # "blockquote"
                                          /\ source[r.style].text => TextOf(r.style) \in Range(r.text))
  BY DEF IsRow
<1> QED
  BY <1>2, <1>3, OneRow

\* What a reader that has closed all emits, and the lines it has read.
LEMMA RowKeeps ==
    ASSUME NEW here, TextsGood(builder, here), NEW last \in Nat, here <= last, NEW type \in TextileType,
           type \notin {"paragraph", "blockquote"}, NEW text, From(text, here, last),
           NEW style \in Nat, style \in {0} \cup here .. last,
           style # 0 /\ source[style].text => TextOf(style) \in Range(text),
           \A n \in here .. last : IsProse(n) => TextOf(n) \in Range(text) \/ LostInListing(n),
           NEW r, IsRow(r, type, 1, text, style)
    PROVE  TextsGood(Textile!Emitted(Textile!Closed, r), last + 1)
<1> DEFINE N == <<r>>
           b == Textile!Closed
           c == Textile!Emitted(b, r)
<1>1. TextsGood(b, here) /\ b.para = << >>
  BY ClosedKeeps
<1>2. here \in Nat \ {0} /\ IsBuilder(b) /\ b.blocks \in Seq(TextileRow)
  BY <1>1 DEF TextsGood, RowsOf
<1>3. RowsOf(N, here, last)
  <2>1. here \in Nat /\ 1 \in Nat /\ type # "paragraph" /\ type # "blockquote"
    BY <1>2
  <2> QED
    BY <2>1, RowOf
<1>4. r \in TextileRow /\ r.text = text
  BY DEF IsRow
<1> HIDE DEF b
<1>5. /\ IsBuilder(c) /\ c.blocks = b.blocks \o N /\ c.para = b.para /\ c.pending_style = b.pending_style
  BY <1>2, <1>4, EmittedIs
<1>6. \A n \in here .. last : IsProse(n) => InRows(N, TextOf(n)) \/ LostInListing(n)
  <2>1. \A t \in Range(text) : InRows(N, t)
    BY <1>4 DEF InRows
  <2> QED
    BY <2>1
<1> HIDE DEF c, N
<1>7. TextsGood(c, last + 1)
  BY <1>1, <1>3, <1>5, <1>6, EmitKeeps
<1> QED
  BY <1>7 DEF c, b

\* A blank line ends the paragraph and the lists.
LEMMA BlankTexts ==
    ASSUME IsSource, NEW here, ReadingAt(here), TextsGood(builder, here), Textile!Line.kind = "BLANK"
    PROVE  TextsGood(Textile!Closed, here + 1)
<1>1. source[here] \in SourceLine /\ Textile!KindOf(source[here]) = "BLANK"
  BY ElementOfSeq, ScannedFields DEF ReadingAt, IsSource
<1>2. ~IsProse(here)
  BY <1>1, KindIs DEF IsProse
<1> QED
  BY <1>2, ClosedKeeps, PassKeeps

\* A comment ends the paragraph, and holds no prose.
LEMMA CommentTexts ==
    ASSUME IsSource, NEW here, ReadingAt(here), TextsGood(builder, here), Textile!Line.kind = "COMMENT"
    PROVE  TextsGood(Textile!Flush(builder), here + 1)
<1>1. source[here] \in SourceLine /\ Textile!KindOf(source[here]) = "COMMENT"
  BY ElementOfSeq, ScannedFields DEF ReadingAt, IsSource
<1>2. ~IsProse(here)
  BY <1>1, KindIs DEF IsProse
<1> QED
  BY <1>2, FlushKeeps, PassKeeps

\* A heading is a row with the line's text and style.
LEMMA HeadingTexts ==
    ASSUME IsSource, NEW here, ReadingAt(here), TextsGood(builder, here), Textile!Line.kind = "HEADING"
    PROVE  TextsGood(Textile!Emitted(Textile!Closed, Textile!Styled(Textile!Row("heading", 1, Textile!Line.text))),
                     here + 1)
<1> DEFINE text == Textile!Line.text
           style == Textile!Line.style
           type == "heading"
<1>1. /\ here \in Nat \ {0} /\ From(text, here, here) /\ ~IsProse(here)
      /\ style \in {0} \cup here .. here /\ style \in 0 .. here
      /\ style # 0 /\ source[style].text => TextOf(style) \in Range(text)
  BY StyledLine
<1>2. Textile!Styled(Textile!Row(type, 1, text)) = StyledRow(type, 1, text, style)
  BY DEF Textile!Styled, StyledRow
<1>3. type \in TextileType /\ type \notin {"paragraph", "blockquote"}
  BY DEF TextileType
<1>4. here \in Nat /\ here <= here /\ style \in Nat /\ \A n \in here .. here : ~IsProse(n)
  BY <1>1
<1> HIDE DEF text, style, type
<1> DEFINE r == StyledRow(type, 1, text, style)
<1>5. IsRow(r, type, 1, text, style)
  <2>1. text \in Seq(Nat \ {0}) /\ 1 \in Nat
    BY <1>1 DEF From
  <2> QED
    BY <1>3, <1>4, <2>1, RowFields
<1> HIDE DEF r
<1>6. TextsGood(Textile!Emitted(Textile!Closed, r), here + 1)
  BY <1>1, <1>3, <1>4, <1>5, RowKeeps
<1> QED
  BY <1>2, <1>6 DEF text, type, r

\* What is passed on raw, an HTML element with all its lines, is one row.
LEMMA RawTexts ==
    ASSUME IsSource, NEW here, ReadingAt(here), TextsGood(builder, here),
           Textile!Line.kind \in {"NOTEXTILE", "HTML_BLOCK"}
    PROVE  TextsGood(Textile!Emitted(Textile!Closed, Textile!Row("raw", 1, Textile!Line.text)),
                     Textile!LastLineOf(here) + 1)
<1> DEFINE text == Textile!Line.text
           type == "raw"
           last == Textile!LastLineOf(here)
<1>1. /\ here \in Nat \ {0} /\ source[here] \in SourceLine /\ Len(source) \in Nat
      /\ Textile!Line.kind = Textile!KindOf(source[here]) /\ last \in here .. Len(source)
      /\ Textile!KindOf(source[here]) # "HTML_BLOCK" => last = here
  BY ElementOfSeq, LastLineIs, ScannedFields DEF ReadingAt, IsSource
<1>2. From(text, here, last)
  BY ScannedTexts DEF ReadingAt
<1>3. \A n \in here .. last : IsProse(n) => TextOf(n) \in Range(text) \/ LostInListing(n)
  <2> SUFFICES ASSUME NEW n \in here .. last, IsProse(n) PROVE TextOf(n) \in Range(text)
    OBVIOUS
  <2>1. CASE Textile!Line.kind = "HTML_BLOCK"
    BY <2>1, ScannedTexts DEF ReadingAt, IsProse
  <2>2. CASE Textile!Line.kind = "NOTEXTILE"
    <3>1. last = here
      BY <1>1, <2>2
    <3> HIDE DEF last
    <3>2. n = here
      BY <1>1, <3>1
    <3>3. Textile!KindOf(source[n]) = "NOTEXTILE"
      BY <1>1, <2>2, <3>2
    <3> QED
      BY <1>1, <3>2, <3>3, KindIs DEF IsProse
  <2> QED
    BY <2>1, <2>2
<1> DEFINE r == Textile!Row(type, 1, text)
<1>4. type \in TextileType /\ type \notin {"paragraph", "blockquote"} /\ last \in Nat /\ here <= last
  BY <1>1 DEF TextileType
<1> HIDE DEF text, type, last
<1>5. IsRow(r, type, 1, text, 0)
  <2>1. text \in Seq(Nat \ {0}) /\ 1 \in Nat /\ 0 \in Nat
    BY <1>2 DEF From
  <2> QED
    BY <1>4, <2>1, RowFields
<1> HIDE DEF r
<1>6. TextsGood(Textile!Emitted(Textile!Closed, r), last + 1)
  BY <1>2, <1>3, <1>4, <1>5, RowKeeps
<1> QED
  BY <1>6 DEF text, type, last, r

\* A quote is a row with the style, and a paragraph below it with the text.
LEMMA QuoteTexts ==
    ASSUME IsSource, NEW here, ReadingAt(here), TextsGood(builder, here), Textile!Line.kind = "BLOCKQUOTE"
    PROVE  TextsGood(Textile!AllEmitted(Textile!Closed,
                                        <<Textile!Styled(Textile!Row("blockquote", 1, << >>)),
                                          Textile!Row("paragraph", 2, Textile!Line.text)>>), here + 1)
<1> DEFINE text == Textile!Line.text
           style == Textile!Line.style
           quote == StyledRow("blockquote", 1, << >>, style)
           para == Textile!Row("paragraph", 2, text)
           N == <<quote, para>>
           b == Textile!Closed
           c == Textile!AllEmitted(b, N)
<1>1. /\ here \in Nat \ {0} /\ From(text, here, here) /\ ~IsProse(here)
      /\ style \in {0} \cup here .. here /\ style \in 0 .. here
      /\ style # 0 /\ source[style].text => TextOf(style) \in Range(text)
  BY StyledLine
<1>2. N = <<Textile!Styled(Textile!Row("blockquote", 1, << >>)), Textile!Row("paragraph", 2, text)>>
  BY DEF Textile!Styled, StyledRow
<1>3. /\ IsRow(quote, "blockquote", 1, << >>, style)
      /\ IsRow(para, "paragraph", 2, text, 0)
  <2>1. /\ "blockquote" \in TextileType /\ "paragraph" \in TextileType /\ << >> \in Seq(Nat \ {0})
        /\ text \in Seq(Nat \ {0}) /\ style \in Nat /\ 0 \in Nat /\ 1 \in Nat /\ 2 \in Nat
    BY <1>1, EmptySeq DEF TextileType, From
  <2> DEFINE q == "blockquote"
             p == "paragraph"
             none == << >>
  <2> HIDE DEF q, p, none, text, style
  <2>2. IsRow(StyledRow(q, 1, none, style), q, 1, none, style)
    BY <2>1, RowFields DEF q, none
  <2>3. IsRow(Textile!Row(p, 2, text), p, 2, text, 0)
    BY <2>1, RowFields DEF p
  <2> QED
    BY <2>2, <2>3 DEF q, p, none
<1> HIDE DEF text, style, quote, para
<1>4. /\ quote \in TextileRow /\ quote.text = << >> /\ quote.style = style /\ quote.type = "blockquote"
      /\ para \in TextileRow /\ para.text = text /\ para.style = 0 /\ para.level = 2
      /\ CellsWhole(quote) /\ CellsWhole(para)
      /\ quote.level = 1 /\ para.type = "paragraph"
  BY <1>3 DEF IsRow
<1>5. /\ N \in Seq(TextileRow) /\ DOMAIN N = 1 .. 2 /\ N[1] = quote /\ N[2] = para
  BY <1>4
<1> HIDE DEF N
<1>6. Range(<< >>) = {}
  BY DEF Range
<1>7. RowIn(quote, here, here) /\ RowIn(para, here, here)
  BY <1>1, <1>4, <1>6 DEF RowIn, RunsOn, From
<1>8. InOrder(N)
  <2> SUFFICES ASSUME NEW m \in DOMAIN N, NEW n \in DOMAIN N, m < n,
                      NEW x \in Range(N[m].text), NEW y \in Range(N[n].text)
               PROVE  x < y
    BY DEF InOrder
  <2>1. m = 1
    BY <1>5
  <2> QED
    BY <1>4, <1>5, <1>6, <2>1
<1>9. StylesOwn(N)
  <2> SUFFICES ASSUME NEW n \in DOMAIN N, N[n].style # 0
               PROVE  /\ \A m \in DOMAIN N : N[m].style = N[n].style => m = n
                      /\ source[N[n].style].text =>
                            LET m == IF N[n].type = "blockquote" THEN n + 1 ELSE n
                            IN  m \in DOMAIN N /\ TextOf(N[n].style) \in Range(N[m].text)
    BY DEF StylesOwn
  <2>1. n = 1 /\ \A m \in DOMAIN N : m = 1 \/ N[m].style = 0
    BY <1>4, <1>5
  <2> QED
    BY <1>1, <1>4, <1>5, <2>1
<1>10. RowsOf(N, here, here)
  <2>1. \A n \in DOMAIN N : RowIn(N[n], here, here)
    BY <1>5, <1>7
  <2> QED
    BY <1>5, <1>8, <1>9, <2>1 DEF RowsOf
<1>11. TextsGood(b, here) /\ b.para = << >> /\ IsBuilder(b) /\ b.blocks \in Seq(TextileRow)
  BY ClosedKeeps DEF TextsGood, RowsOf
<1> HIDE DEF b
<1>12. IsBuilder(c) /\ c.blocks = b.blocks \o N /\ c.para = b.para /\ c.pending_style = b.pending_style
  BY <1>11, AllEmittedIs
<1> HIDE DEF c
<1>13. here \in Nat /\ here <= here /\ \A n \in here .. here : ~IsProse(n)
  BY <1>1
<1>14. TextsGood(c, here + 1)
  BY <1>10, <1>11, <1>12, <1>13, EmitKeeps
<1> QED
  BY <1>2, <1>14 DEF b, c, text

\* A paragraph that a marker begins has the line's style, and ends the last one.
LEMMA ParaTexts ==
    ASSUME IsSource, NEW here, ReadingAt(here), TextsGood(builder, here), Textile!Line.kind = "PARA"
    PROVE  TextsGood([Textile!Closed EXCEPT !.pending_style = Textile!Line.style, !.para = Textile!Line.text],
                     here + 1)
<1> DEFINE text == Textile!Line.text
           style == Textile!Line.style
           b == Textile!Closed
           c == [b EXCEPT !.pending_style = style, !.para = text]
           R == b.blocks
<1>1. /\ here \in Nat \ {0} /\ From(text, here, here) /\ ~IsProse(here)
      /\ style \in {0} \cup here .. here /\ style \in 0 .. here
      /\ style # 0 /\ source[style].text => TextOf(style) \in Range(text)
  BY StyledLine
<1>2. /\ TextsGood(b, here) /\ b.para = << >> /\ IsBuilder(b)
      /\ RowsOf(R, 1, here - 1) /\ ProseIn(R, << >>, 1, here - 1) /\ R \in Seq(TextileRow)
  BY ClosedKeeps DEF TextsGood, RowsOf
<1> HIDE DEF b, text, style
<1>3. IsBuilder(c) /\ c.blocks = R /\ c.para = text /\ c.pending_style = style
  <2> DEFINE d == [b EXCEPT !.pending_style = style]
  <2>1. IsBuilder(d) /\ d.blocks = R /\ d.pending_style = style
    BY <1>2 DEF IsBuilder
  <2>2. c = [d EXCEPT !.para = text]
    OBVIOUS
  <2> HIDE DEF c, d, R
  <2> QED
    BY <2>1, <2>2 DEF IsBuilder
<1> HIDE DEF c, R
<1>4. here - 1 \in Nat /\ here \in Nat /\ here + 1 \in Nat \ {0} /\ here + 1 - 1 = here /\ here - 1 <= here
  BY <1>1
<1>5. RowsOf(R, 1, here)
  BY <1>2, <1>4, RowsWidened
<1>6. Range(<< >>) = {}
  BY DEF Range
<1>7. ProseIn(R, text, 1, here)
  <2> SUFFICES ASSUME NEW n \in 1 .. here, IsProse(n) PROVE InRows(R, TextOf(n)) \/ LostInListing(n)
    BY DEF ProseIn
  <2>1. n \in 1 .. here - 1
    BY <1>1
  <2> QED
    BY <1>2, <1>6, <2>1 DEF ProseIn
<1>8. ASSUME NEW m \in DOMAIN R
      PROVE  /\ \A x \in Range(R[m].text), y \in Range(text) : x < y
             /\ style # 0 => R[m].style # style
  <2>1. RowIn(R[m], 1, here - 1) /\ R[m] \in TextileRow
    BY <1>2, ElementOfSeq DEF RowsOf
  <2>2. R[m].text \in Seq(Nat \ {0})
    BY <2>1 DEF TextileRow
  <2>3. ASSUME NEW x \in Range(R[m].text), NEW y \in Range(text) PROVE x < y
    <3>1. x \in Nat /\ y \in Nat
      BY <1>1, <2>2, RangeOf DEF From
    <3>2. LineOf(x) \in 1 .. here - 1 /\ LineOf(y) \in here .. here
      BY <1>1, <2>1 DEF RowIn, From
    <3> QED
      BY <1>1, <3>1, <3>2, EarlierIsLess
  <2>4. style # 0 => R[m].style # style
    BY <1>1, <2>1 DEF RowIn
  <2> QED
    BY <2>3, <2>4
<1>9. From(text, 1, here)
  BY <1>1 DEF From
<1>10. \A x \in Range(text) : LineOf(x) + 1 .. here = {}
  <2> TAKE x \in Range(text)
  <2>1. LineOf(x) \in here .. here
    BY <1>1 DEF From
  <2> QED
    BY <1>1, <2>1
<1>11. ParaOpen(R, text, style, here + 1)
  BY <1>1, <1>4, <1>8, <1>9, <1>10 DEF ParaOpen
<1> QED
  BY <1>3, <1>4, <1>5, <1>7, <1>11 DEF TextsGood, c, b, text, style

\* A line of prose goes on with the paragraph, or begins one.
LEMMA ProseTexts ==
    ASSUME IsSource, NEW here, ReadingAt(here), TextsGood(builder, here), Textile!Line.kind = "TEXT"
    PROVE  TextsGood([Textile!CloseLists(builder) EXCEPT !.para = @ \o Textile!Line.text], here + 1)
<1> DEFINE text == Textile!Line.text
           b == Textile!CloseLists(builder)
           style == b.pending_style
           joined == b.para \o text
           c == [b EXCEPT !.para = joined]
           R == b.blocks
<1>1. /\ here \in Nat \ {0} /\ From(text, here, here)
      /\ source[here].text => TextOf(here) \in Range(text)
      /\ Textile!KindOf(source[here]) = "TEXT"
  BY ProseLine
<1>2. TextsGood(b, here)
  BY CloseKeeps
<1> HIDE DEF b
<1>3. /\ IsBuilder(b) /\ RowsOf(R, 1, here - 1) /\ ProseIn(R, b.para, 1, here - 1) /\ R \in Seq(TextileRow)
      /\ From(b.para, 1, here - 1)
      /\ ParaOpen(R, b.para, style, here)
  BY <1>2 DEF TextsGood, RowsOf, ParaOpen
<1> HIDE DEF text, joined
<1>4. IsBuilder(c) /\ c.blocks = R /\ c.para = joined /\ c.pending_style = style
  BY <1>3 DEF IsBuilder
<1> HIDE DEF c, style, R
<1>5. here - 1 \in Nat /\ here \in Nat /\ here + 1 \in Nat \ {0} /\ here + 1 - 1 = here /\ here - 1 <= here
  BY <1>1
<1>6. RowsOf(R, 1, here)
  BY <1>3, <1>5, RowsWidened
<1>7. From(joined, 1, here) /\ Range(joined) = Range(b.para) \cup Range(text)
  <2>1. From(b.para, 1, here) /\ From(text, 1, here)
    BY <1>1, <1>3, <1>5 DEF From
  <2> QED
    BY <1>5, <2>1, Joined DEF joined
<1>8. ProseIn(R, joined, 1, here)
  <2> SUFFICES ASSUME NEW n \in 1 .. here, IsProse(n)
               PROVE  InRows(R, TextOf(n)) \/ TextOf(n) \in Range(joined) \/ LostInListing(n)
    BY DEF ProseIn
  <2>1. CASE n \in 1 .. here - 1
    BY <1>3, <1>7, <2>1 DEF ProseIn
  <2>2. CASE n \notin 1 .. here - 1
    <3>1. n = here
      BY <1>1, <2>2
    <3> QED
      BY <1>1, <1>7, <3>1 DEF IsProse
  <2> QED
    BY <2>1, <2>2
<1>9. ASSUME NEW m \in DOMAIN R, NEW x \in Range(R[m].text), NEW y \in Range(joined) PROVE x < y
  <2>1. CASE y \in Range(b.para)
    BY <1>3, <2>1 DEF ParaOpen
  <2>2. CASE y \in Range(text)
    <3>1. RowIn(R[m], 1, here - 1) /\ R[m] \in TextileRow
      BY <1>3, ElementOfSeq DEF RowsOf
    <3>2. R[m].text \in Seq(Nat \ {0})
      BY <3>1 DEF TextileRow
    <3>3. x \in Nat /\ y \in Nat
      BY <1>1, <2>2, <3>2, RangeOf DEF From
    <3>4. LineOf(x) \in 1 .. here - 1 /\ LineOf(y) \in here .. here
      BY <1>1, <2>2, <3>1 DEF RowIn, From
    <3> QED
      BY <1>1, <3>3, <3>4, EarlierIsLess
  <2> QED
    BY <1>7, <2>1, <2>2
<1>10. ASSUME NEW x \in Range(joined), NEW n \in LineOf(x) + 1 .. here PROVE Textile!KindOf(source[n]) = "TEXT"
  <2>1. CASE n = here
    BY <1>1, <2>1
  <2>2. CASE n # here
    <3>1. LineOf(x) \in 1 .. here
      BY <1>7 DEF From
    <3>2. n \in LineOf(x) + 1 .. here - 1 /\ LineOf(x) # here
      BY <1>1, <2>2, <3>1
    <3>3. x \in Range(b.para)
      BY <1>1, <1>7, <3>1, <3>2 DEF From
    <3> QED
      BY <1>3, <3>2, <3>3 DEF ParaOpen
  <2> QED
    BY <2>1, <2>2
<1>11. ParaOpen(R, joined, style, here + 1)
  <2>1. /\ style \in 0 .. here - 1
        /\ style # 0 => /\ \A m \in DOMAIN R : R[m].style # style
                        /\ source[style].text => TextOf(style) \in Range(b.para)
    BY <1>3 DEF ParaOpen
  <2>2. style \in 0 .. here
    BY <1>5, <2>1
  <2> QED
    BY <1>5, <1>7, <1>9, <1>10, <2>1, <2>2 DEF ParaOpen
<1>12. c = [Textile!CloseLists(builder) EXCEPT !.para = @ \o Textile!Line.text]
  BY DEF c, b, joined, text
<1>13. TextsGood(c, here + 1)
  BY <1>4, <1>5, <1>6, <1>8, <1>11 DEF TextsGood, R, style
<1> QED
  BY <1>12, <1>13

-----------------------------------------------------------------------------
(* What the scanner has made of the source: line k of its lines is made of *)
(* the source's line first[k], and of those up to first[k + 1].            *)

ScannedLines == {Textile!ScannedLine(n) : n \in DOMAIN source}

Scanning(first, m) ==
    /\ lines \in Seq(ScannedLines)
    /\ Rising(first, Len(lines) + 1)
    /\ first[1] = 1 /\ first[Len(lines) + 1] = m
    /\ \A k \in 1 .. Len(lines) : /\ first[k] \in DOMAIN source
                                  /\ lines[k] = Textile!ScannedLine(first[k])
                                  /\ first[k + 1] = Textile!LastLineOf(first[k]) + 1

\* The facts of one of the scanner's lines.
LEMMA ScannedAt ==
    ASSUME IsSource, NEW first, NEW m, Scanning(first, m), NEW k \in 1 .. Len(lines)
    PROVE  /\ Len(lines) \in Nat /\ k + 1 \in 1 .. Len(lines) + 1
           /\ first[k] \in Nat \ {0} /\ first[k + 1] \in Nat /\ first[k] < first[k + 1]
           /\ first[k] \in DOMAIN source /\ lines[k] = Textile!ScannedLine(first[k])
           /\ first[k + 1] - 1 = Textile!LastLineOf(first[k])
           /\ lines[k].kind = Textile!KindOf(source[first[k]]) /\ source[first[k]] \in SourceLine
           /\ lines[k].kind # "HTML_BLOCK" => first[k + 1] - 1 = first[k]
<1> DEFINE n == first[k]
           next == first[k + 1]
<1>1. Len(lines) \in Nat /\ k + 1 \in 1 .. Len(lines) + 1 /\ k \in 1 .. Len(lines) + 1
  BY LenProperties DEF Scanning
<1>2. n \in DOMAIN source /\ lines[k] = Textile!ScannedLine(n) /\ next = Textile!LastLineOf(n) + 1
  BY DEF Scanning
<1>3. next \in Nat
  BY <1>1 DEF Scanning, Rising
<1> HIDE DEF n, next
<1>4. /\ n \in Nat \ {0} /\ Textile!LastLineOf(n) \in n .. Len(source) /\ Len(source) \in Nat
      /\ Textile!KindOf(source[n]) # "HTML_BLOCK" => Textile!LastLineOf(n) = n
  BY <1>2, LastLineIs
<1>5. source[n] \in SourceLine
  BY <1>2, ElementOfSeq DEF IsSource
<1>6. lines[k].kind = Textile!KindOf(source[n])
  BY <1>2, ScannedFields
<1>7. n < next /\ next - 1 = Textile!LastLineOf(n)
  BY <1>2, <1>3, <1>4
<1> QED
  BY <1>1, <1>2, <1>3, <1>4, <1>5, <1>6, <1>7 DEF n, next

\* Later lines of the scanner are of later lines of the source.
LEMMA ScannedInOrder ==
    ASSUME NEW first, NEW m, Scanning(first, m), NEW a \in 1 .. Len(lines) + 1, NEW b \in 1 .. Len(lines) + 1
    PROVE  /\ first[a] \in Nat /\ first[b] \in Nat
           /\ a < b => first[a] < first[b]
<1>1. Len(lines) + 1 \in Nat /\ Rising(first, Len(lines) + 1)
  BY LenProperties DEF Scanning
<1>2. first[a] \in Nat /\ first[b] \in Nat
  BY DEF Scanning, Rising
<1>3. a < b => first[a] < first[b]
  BY <1>1, RisingOrder
<1> QED
  BY <1>2, <1>3

\* Every line of the source is in one of the scanner's.
LEMMA ScannedHolds ==
    ASSUME IsSource, NEW first, NEW m, Scanning(first, m),
           NEW a \in 1 .. Len(lines) + 1, NEW b \in 1 .. Len(lines) + 1, a < b,
           NEW n \in first[a] .. first[b] - 1
    PROVE  \E k \in a .. b - 1 : k \in 1 .. Len(lines) /\ n \in first[k] .. Textile!LastLineOf(first[k])
<1>1. Len(lines) \in Nat /\ Len(lines) + 1 \in Nat /\ Rising(first, Len(lines) + 1)
  BY LenProperties DEF Scanning
<1>2. PICK k \in a .. b - 1 : n \in first[k] .. first[k + 1] - 1
  BY <1>1, RisingBetween
<1>3. k \in 1 .. Len(lines)
  BY <1>1
<1>4. first[k + 1] - 1 = Textile!LastLineOf(first[k])
  BY <1>3, ScannedAt
<1> QED
  BY <1>2, <1>3, <1>4

\* Where a listing ends: at the first blank line behind it, or at the end.
LEMMA CodeEnds ==
    ASSUME Len(lines) \in Nat, NEW k \in 1 .. Len(lines)
    PROVE  LET end == Textile!EndOfCode(k)
           IN  /\ end \in k + 1 .. Len(lines) + 1
               /\ \A n \in k + 1 .. end - 1 : lines[n].kind # "BLANK"
<1> DEFINE Ends(n) == /\ n > Len(lines) \/ lines[n].kind = "BLANK"
                      /\ \A j \in k + 1 .. n - 1 : ~(lines[j].kind = "BLANK")
           stops == {n \in k + 1 .. Len(lines) + 1 : n > Len(lines) \/ lines[n].kind = "BLANK"}
<1>1. Textile!EndOfCode(k) = CHOOSE n \in k + 1 .. Len(lines) + 1 : Ends(n)
  BY DEF Textile!EndOfCode, Textile!FirstFrom
<1>2. stops \in SUBSET Nat /\ Len(lines) + 1 \in stops
  OBVIOUS
<1>3. PICK n \in stops : \A j \in stops : n <= j
  <2> HIDE DEF stops
  <2> QED
    BY <1>2, LeastOf
<1>4. n \in k + 1 .. Len(lines) + 1 /\ Ends(n)
  <2>1. \A j \in k + 1 .. n - 1 : j \in k + 1 .. Len(lines) + 1 /\ ~(n <= j)
    OBVIOUS
  <2> QED
    BY <1>3, <2>1
<1>5. \E j \in k + 1 .. Len(lines) + 1 : Ends(j)
  BY <1>4
<1> HIDE DEF Ends
<1>6. Textile!EndOfCode(k) \in k + 1 .. Len(lines) + 1 /\ Ends(Textile!EndOfCode(k))
  BY <1>1, <1>5
<1> QED
  BY <1>6 DEF Ends

\* Where a table ends: behind its last row.
LEMMA TableEnds ==
    ASSUME Len(lines) \in Nat, NEW k \in 1 .. Len(lines), lines[k].kind = "TABLE_ROW"
    PROVE  LET end == Textile!EndOfTable(k)
           IN  /\ end \in k + 1 .. Len(lines) + 1
               /\ \A n \in k .. end - 1 : lines[n].kind = "TABLE_ROW"
<1> DEFINE Ends(n) == /\ n > Len(lines) \/ lines[n].kind # "TABLE_ROW"
                      /\ \A j \in k .. n - 1 : ~(lines[j].kind # "TABLE_ROW")
           stops == {n \in k .. Len(lines) + 1 : n > Len(lines) \/ lines[n].kind # "TABLE_ROW"}
<1>1. Textile!EndOfTable(k) = CHOOSE n \in k .. Len(lines) + 1 : Ends(n)
  BY DEF Textile!EndOfTable, Textile!FirstFrom
<1>2. stops \in SUBSET Nat /\ Len(lines) + 1 \in stops
  OBVIOUS
<1>3. PICK n \in stops : \A j \in stops : n <= j
  <2> HIDE DEF stops
  <2> QED
    BY <1>2, LeastOf
<1>4. n \in k .. Len(lines) + 1 /\ Ends(n)
  <2>1. \A j \in k .. n - 1 : j \in k .. Len(lines) + 1 /\ ~(n <= j)
    OBVIOUS
  <2> QED
    BY <1>3, <2>1
<1>5. \E j \in k .. Len(lines) + 1 : Ends(j)
  BY <1>4
<1> HIDE DEF Ends
<1>6. Textile!EndOfTable(k) \in k .. Len(lines) + 1 /\ Ends(Textile!EndOfTable(k))
  BY <1>1, <1>5
<1>7. ~Ends(k)
  BY DEF Ends
<1> QED
  BY <1>6, <1>7 DEF Ends

\* The lines of a listing behind its first, as they stand in the source.
RestOf(k, end) == FlattenSeq([n \in 1 .. end - k - 1 |-> lines[k + n].raw])

\* They hold the text of each line but of those in an HTML element.
LEMMA CodeRest ==
    ASSUME IsSource, NEW first, NEW m, Scanning(first, m), NEW k \in 1 .. Len(lines),
           NEW end \in k + 1 .. Len(lines) + 1
    PROVE  /\ From(RestOf(k, end), first[k], first[end] - 1)
           /\ \A j \in k + 1 .. end - 1 : source[first[j]].text => TextOf(first[j]) \in Range(RestOf(k, end))
<1> DEFINE size == end - k - 1
           parts == [n \in 1 .. size |-> lines[k + n].raw]
<1>1. /\ Len(lines) \in Nat /\ size \in Nat /\ end \in 1 .. Len(lines) + 1 /\ k \in 1 .. Len(lines) + 1
      /\ \A n \in 1 .. size : k + n \in k + 1 .. end - 1 /\ k + n \in 1 .. Len(lines) /\ k + n < end
      /\ \A j \in k + 1 .. end - 1 : j - k \in 1 .. size /\ k + (j - k) = j /\ j \in 1 .. Len(lines)
      /\ \A n \in 1 .. size : k + n \in 1 .. Len(lines) + 1 /\ k < k + n
  BY LenProperties DEF Scanning
<1>2. ASSUME NEW j \in 1 .. Len(lines)
      PROVE  /\ From(lines[j].raw, first[j], first[j])
             /\ source[first[j]].text => TextOf(first[j]) \in Range(lines[j].raw)
  <2>1. first[j] \in DOMAIN source /\ lines[j] = Textile!ScannedLine(first[j])
    BY DEF Scanning
  <2> QED
    BY <2>1, ScannedTexts
<1>3. parts \in Seq(Seq(Nat \ {0})) /\ Len(parts) = size /\ \A n \in 1 .. size : parts[n] = lines[k + n].raw
  <2> HIDE DEF size
  <2>1. \A n \in 1 .. size : lines[k + n].raw \in Seq(Nat \ {0})
    BY <1>1, <1>2 DEF From
  <2>2. parts \in [1 .. size -> Seq(Nat \ {0})]
    BY <2>1
  <2>3. parts \in Seq(Seq(Nat \ {0}))
    BY <1>1, <2>2, SeqDef
  <2>4. Len(parts) = size
    BY <1>1, <2>2, <2>3, LenProperties
  <2> QED
    BY <2>3, <2>4
<1> DEFINE rest == FlattenSeq(parts)
<1>4. RestOf(k, end) = rest
  BY DEF RestOf
<1> HIDE DEF parts
<1>5. /\ rest \in Seq(Nat \ {0})
      /\ \A x : x \in Range(rest) <=> \E b \in 1 .. Len(parts) : x \in Range(parts[b])
  BY <1>3, FlattenRange
<1> HIDE DEF rest, size
<1>6. ASSUME NEW x \in Range(rest) PROVE LineOf(x) \in first[k] .. first[end] - 1
  <2>1. PICK n \in 1 .. size : x \in Range(parts[n])
    BY <1>3, <1>5
  <2> DEFINE j == k + n
  <2>2. j \in 1 .. Len(lines) /\ j \in 1 .. Len(lines) + 1 /\ k < j /\ j < end /\ x \in Range(lines[j].raw)
    BY <1>1, <1>3, <2>1
  <2> HIDE DEF j
  <2>3. LineOf(x) \in first[j] .. first[j]
    BY <1>2, <2>2 DEF From
  <2>4. first[k] < first[j] /\ first[j] < first[end] /\ first[k] \in Nat /\ first[j] \in Nat /\ first[end] \in Nat
    BY <1>1, <2>2, ScannedInOrder
  <2> DEFINE u == first[k]
             v == first[j]
             w == first[end]
  <2>5. u < v /\ v < w /\ u \in Nat /\ v \in Nat /\ w \in Nat /\ LineOf(x) \in v .. v
    BY <2>3, <2>4
  <2> HIDE DEF u, v, w
  <2>6. LineOf(x) \in u .. w - 1
    BY <2>5
  <2> QED
    BY <2>6 DEF u, w
<1>7. ASSUME NEW j \in k + 1 .. end - 1, source[first[j]].text PROVE TextOf(first[j]) \in Range(rest)
  <2> DEFINE n == j - k
  <2>1. n \in 1 .. size /\ k + n = j /\ j \in 1 .. Len(lines)
    BY <1>1
  <2> HIDE DEF n
  <2>2. parts[n] = lines[j].raw /\ n \in 1 .. Len(parts)
    BY <1>3, <2>1
  <2> QED
    BY <1>2, <1>5, <1>7, <2>1, <2>2
<1> QED
  BY <1>4, <1>5, <1>6, <1>7 DEF From

\* Of a listing's lines all prose is in it, but below HTML that opens in it.
LEMMA CodeProse ==
    ASSUME IsSource, NEW first, NEW m, Scanning(first, m), NEW k \in 1 .. Len(lines), lines[k].kind = "CODE",
           NEW end \in k + 1 .. Len(lines) + 1, \A j \in k + 1 .. end - 1 : lines[j].kind # "BLANK",
           NEW n \in first[k] .. first[end] - 1, IsProse(n)
    PROVE  TextOf(n) \in Range(RestOf(k, end)) \/ LostInListing(n)
<1>1. /\ Len(lines) \in Nat /\ end \in 1 .. Len(lines) + 1 /\ k \in 1 .. Len(lines) + 1 /\ k < end
  BY LenProperties DEF Scanning
<1>2. \A l \in first[k] .. first[end] - 1 : \E j \in k .. end - 1 :
         j \in 1 .. Len(lines) /\ l \in first[j] .. Textile!LastLineOf(first[j])
  BY <1>1, ScannedHolds
<1>3. PICK j \in k .. end - 1 : j \in 1 .. Len(lines) /\ n \in first[j] .. Textile!LastLineOf(first[j])
  BY <1>2
<1>4. ASSUME NEW l \in first[k] .. first[end] - 1, source[l].lead = ""
      PROVE  HtmlAround(l) # {}
  <2>1. PICK h \in k .. end - 1 : h \in 1 .. Len(lines) /\ l \in first[h] .. Textile!LastLineOf(first[h])
    BY <1>2
  <2>2. /\ first[h] \in Nat \ {0} /\ lines[h].kind = Textile!KindOf(source[first[h]])
        /\ source[first[h]] \in SourceLine /\ first[h + 1] - 1 = Textile!LastLineOf(first[h])
        /\ lines[h].kind # "HTML_BLOCK" => first[h + 1] - 1 = first[h]
    BY <2>1, ScannedAt
  <2>3. lines[h].kind # "BLANK"
    BY <1>1, <2>1
  <2> DEFINE f == first[h]
  <2>4. f \in Nat \ {0} /\ l \in f .. Textile!LastLineOf(f) /\ lines[h].kind = Textile!KindOf(source[f])
        /\ source[f] \in SourceLine /\ (lines[h].kind # "HTML_BLOCK" => Textile!LastLineOf(f) = f)
    BY <2>1, <2>2
  <2> HIDE DEF f
  <2>5. l # f
    <3> SUFFICES ASSUME l = f PROVE FALSE
      OBVIOUS
    <3>1. source[f].lead = ""
      BY <1>4
    <3>2. Textile!KindOf(source[f]) = "BLANK"
      BY <2>4, <3>1, KindIs
    <3> QED
      BY <2>3, <2>4, <3>2
  <2>6. l > f /\ l <= Textile!LastLineOf(f) /\ lines[h].kind = "HTML_BLOCK"
    BY <2>4, <2>5
  <2>7. f \in HtmlAround(l)
    <3>1. f \in 1 .. l - 1 /\ Textile!KindOf(source[f]) = "HTML_BLOCK"
      BY <2>4, <2>6
    <3> QED
      BY <2>6, <3>1 DEF HtmlAround
  <2> QED
    BY <2>7
<1> DEFINE f == first[j]
           here == first[k]
           past == first[end]
<1>5. /\ f \in Nat \ {0} /\ n \in f .. Textile!LastLineOf(f) /\ lines[j].kind = Textile!KindOf(source[f])
      /\ lines[j].kind # "HTML_BLOCK" => Textile!LastLineOf(f) = f
      /\ here \in Nat \ {0} /\ Textile!KindOf(source[here]) = "CODE" /\ source[here] \in SourceLine
      /\ past \in Nat /\ here <= f /\ f < past
  <2>1. first[k] \in Nat /\ first[j] \in Nat /\ (k < j => first[k] < first[j])
    BY <1>1, <1>3, ScannedInOrder
  <2>2. first[end] \in Nat /\ first[j] < first[end]
    BY <1>1, <1>3, ScannedInOrder
  <2>3. k <= j /\ (k = j \/ k < j)
    BY <1>1, <1>3
  <2>4. /\ f \in Nat \ {0} /\ lines[j].kind = Textile!KindOf(source[f])
        /\ first[j + 1] - 1 = Textile!LastLineOf(first[j])
        /\ lines[j].kind # "HTML_BLOCK" => first[j + 1] - 1 = first[j]
    BY <1>3, ScannedAt
  <2>5. here \in Nat \ {0} /\ lines[k].kind = Textile!KindOf(source[here]) /\ source[here] \in SourceLine
    BY ScannedAt
  <2>6. here <= f
    BY <2>1, <2>3
  <2> QED
    BY <1>3, <2>2, <2>4, <2>5, <2>6
<1>6. j = k => here = f
  OBVIOUS
<1>7. j # k => j \in k + 1 .. end - 1
  BY <1>1, <1>3
<1>8. f \in first[k] .. first[end] - 1 /\ here = first[k] /\ past = first[end]
  BY <1>5
<1>9. CASE n = f
  <2>1. j # k
    BY <1>5, <1>6, <1>9, KindIs DEF IsProse
  <2>2. TextOf(first[j]) \in Range(RestOf(k, end))
    BY <1>7, <1>9, <2>1, CodeRest DEF IsProse
  <2> QED
    BY <1>9, <2>2
<1>10. CASE n # f
  <2> HIDE DEF f, here, past
  <2>1. n > f /\ n <= Textile!LastLineOf(f) /\ lines[j].kind = "HTML_BLOCK" /\ n \in Nat
    BY <1>5, <1>10
  <2>2. f \in HtmlAround(n)
    <3>1. f \in 1 .. n - 1 /\ Textile!KindOf(source[f]) = "HTML_BLOCK"
      BY <1>5, <2>1
    <3> QED
      BY <2>1, <3>1 DEF HtmlAround
  <2>3. here < f
    <3>1. here # f
      BY <1>5, <2>1
    <3> QED
      BY <1>5, <3>1
  <2>4. here \in 1 .. n - 1
    BY <1>5, <2>1, <2>3
  <2>5. \A l \in here .. f : source[l].lead = "" => HtmlAround(l) # {}
    <3> TAKE l \in here .. f
    <3>1. l \in here .. past - 1
      BY <1>5
    <3> QED
      BY <1>4, <1>8, <3>1
  <2>6. LostInListing(n)
    BY <1>5, <2>2, <2>3, <2>4, <2>5 DEF LostInListing
  <2> QED
    BY <2>6
<1> QED
  BY <1>9, <1>10

\* A listing is one row, of all the lines up to the one that ends it.
LEMMA CodeTexts ==
    ASSUME IsSource, NEW first, NEW m, Scanning(first, m), i \in 1 .. Len(lines), TextsGood(builder, first[i]),
           lines[i].kind = "CODE"
    PROVE  LET end == Textile!EndOfCode(i)
               rest == Textile!FlattenSeq([n \in 1 .. end - i - 1 |-> lines[i + n].raw])
           IN  /\ TextsGood(Textile!Emitted(Textile!Closed, Textile!Styled(Textile!Row("code", 1, Textile!Line.text \o rest))),
                            first[end])
               /\ end \in i + 1 .. Len(lines) + 1
<1> DEFINE end == Textile!EndOfCode(i)
           rest == Textile!FlattenSeq([n \in 1 .. end - i - 1 |-> lines[i + n].raw])
           head == Textile!Line.text
           text == head \o rest
           style == Textile!Line.style
           type == "code"
           here == first[i]
           last == first[end] - 1
           r == StyledRow(type, 1, text, style)
<1>1. Len(lines) \in Nat
  BY LenProperties DEF Scanning
<1>2. end \in i + 1 .. Len(lines) + 1 /\ \A n \in i + 1 .. end - 1 : lines[n].kind # "BLANK"
  BY <1>1, CodeEnds
<1>3. ReadingAt(here) /\ Textile!Line = lines[i]
  BY ScannedAt DEF ReadingAt, Textile!Line
<1>4. /\ here \in Nat \ {0} /\ From(head, here, here) /\ ~IsProse(here)
      /\ style \in {0} \cup here .. here /\ style \in 0 .. here
      /\ style # 0 /\ source[style].text => TextOf(style) \in Range(head)
  BY <1>3, StyledLine
<1>5. rest = RestOf(i, end)
  BY TextileTexts DEF RestOf
<1>6. Textile!Styled(Textile!Row(type, 1, text)) = r
  BY DEF Textile!Styled, StyledRow
<1>7. type \in TextileType /\ type \notin {"paragraph", "blockquote"}
  BY DEF TextileType
<1> HIDE DEF end, rest
<1>8. first[end] \in Nat /\ here < first[end]
  <2>1. end \in 1 .. Len(lines) + 1 /\ i \in 1 .. Len(lines) + 1 /\ i < end
    BY <1>1, <1>2
  <2> QED
    BY <2>1, ScannedInOrder
<1>9. From(rest, here, last)
  BY <1>2, <1>5, CodeRest
<1>10. \A n \in here .. last : IsProse(n) => TextOf(n) \in Range(rest) \/ LostInListing(n)
  BY <1>2, <1>5, CodeProse
<1> HIDE DEF head, style, here, type
<1>11. last \in Nat /\ here <= last /\ last + 1 = first[end]
  BY <1>4, <1>8
<1> HIDE DEF last
<1>12. From(head, here, last)
  BY <1>4, <1>11 DEF From
<1>13. From(text, here, last) /\ Range(text) = Range(head) \cup Range(rest)
  BY <1>4, <1>9, <1>11, <1>12, Joined
<1> HIDE DEF text
<1>14. \A n \in here .. last : IsProse(n) => TextOf(n) \in Range(text) \/ LostInListing(n)
  BY <1>10, <1>13
<1>15. IsRow(r, type, 1, text, style)
  <2>1. text \in Seq(Nat \ {0}) /\ 1 \in Nat /\ style \in Nat
    BY <1>4, <1>13 DEF From
  <2> QED
    BY <1>7, <2>1, RowFields
<1> HIDE DEF r
<1>16. /\ style \in Nat /\ style \in {0} \cup here .. last
       /\ style # 0 /\ source[style].text => TextOf(style) \in Range(text)
  BY <1>4, <1>11, <1>13
<1>17. TextsGood(builder, here)
  BY DEF here
<1>18. TextsGood(Textile!Emitted(Textile!Closed, r), last + 1)
  BY <1>7, <1>11, <1>13, <1>14, <1>15, <1>16, <1>17, RowKeeps
<1> QED
  BY <1>2, <1>6, <1>11, <1>18 DEF text, head, end, rest, type

\* A table's lines, each a cell's worth of its own, but for the header.
PartsOf(k, end, header) ==
    [n \in 1 .. end - k |-> IF k + n - 1 = header THEN << >> ELSE <<lines[k + n - 1].text>>]

CellsOf(k, end, header) == FlattenSeq(PartsOf(k, end, header))

\* Each row of cells is of one of the table's lines, and different ones are of
\* different lines.
Apart(cells, k, end) ==
    /\ cells \in Seq(Seq(Nat \ {0}))
    /\ \A c \in DOMAIN cells : \E j \in k .. end - 1 : cells[c] = lines[j].text
    /\ \A c, d \in DOMAIN cells : c # d =>
           \E j, l \in k .. end - 1 : j # l /\ cells[c] = lines[j].text /\ cells[d] = lines[l].text

\* Whichever line is the header, the cells of a table are kept apart.
LEMMA CellsApart ==
    ASSUME NEW k \in Nat, NEW end \in Nat, k < end, NEW header,
           \A j \in k .. end - 1 : lines[j].text \in Seq(Nat \ {0})
    PROVE  Apart(CellsOf(k, end, header), k, end)
<1> DEFINE T == Seq(Nat \ {0})
           size == end - k
           parts == PartsOf(k, end, header)
           cells == FlattenSeq(parts)
<1>1. size \in Nat /\ \A n \in 1 .. size : k + n - 1 \in k .. end - 1
  OBVIOUS
<1>2. /\ parts \in Seq(Seq(T)) /\ Len(parts) = size
      /\ \A n \in 1 .. size : parts[n] = IF k + n - 1 = header THEN << >> ELSE <<lines[k + n - 1].text>>
  <2> HIDE DEF size, T
  <2>1. parts = [n \in 1 .. size |-> IF k + n - 1 = header THEN << >> ELSE <<lines[k + n - 1].text>>]
    BY DEF PartsOf, size
  <2>2. ASSUME NEW n \in 1 .. size
        PROVE  (IF k + n - 1 = header THEN << >> ELSE <<lines[k + n - 1].text>>) \in Seq(T)
    <3>1. lines[k + n - 1].text \in T
      BY <1>1 DEF T
    <3> QED
      BY <3>1, EmptySeq
  <2>3. parts \in [1 .. size -> Seq(T)]
    BY <2>1, <2>2
  <2>4. parts \in Seq(Seq(T))
    BY <1>1, <2>3, SeqDef
  <2>5. Len(parts) = size
    BY <1>1, <2>3, <2>4, LenProperties
  <2> QED
    BY <2>1, <2>4, <2>5
<1> HIDE DEF parts, T
<1>3. cells \in Seq(T) /\ \E places : PartsAt(parts, places, cells)
  BY <1>2, Flattening
<1>4. PICK places : PartsAt(parts, places, cells)
  BY <1>3
<1>5. Len(cells) \in Nat /\ DOMAIN cells = 1 .. Len(cells)
  BY <1>3, LenProperties
<1>6. Len(parts) \in Nat /\ \A b \in 1 .. Len(parts) : Len(parts[b]) \in Nat
  BY <1>2, LenProperties, ElementOfSeq
<1> HIDE DEF cells, size
<1>7. ASSUME NEW c \in DOMAIN cells
      PROVE  \E n \in 1 .. size : c = places[n - 1] + 1 /\ cells[c] = lines[k + n - 1].text
  <2>1. StandsIn(parts, places, cells, c)
    BY <1>4, <1>5, <1>6, InPart
  <2>2. PICK n \in 1 .. size : \E p \in 1 .. Len(parts[n]) : c = places[n - 1] + p /\ cells[c] = parts[n][p]
    BY <1>2, <2>1 DEF StandsIn
  <2>3. PICK p \in 1 .. Len(parts[n]) : c = places[n - 1] + p /\ cells[c] = parts[n][p]
    BY <2>2
  <2>4. parts[n] = << >> \/ parts[n] = <<lines[k + n - 1].text>>
    BY <1>2
  <2>5. Len(parts[n]) # 0
    OBVIOUS
  <2>6. parts[n] = <<lines[k + n - 1].text>>
    BY <2>4, <2>5, EmptySeq
  <2>7. Len(parts[n]) = 1 /\ parts[n][1] = lines[k + n - 1].text
    BY <2>6
  <2>8. p = 1
    BY <2>7
  <2> QED
    BY <2>3, <2>7, <2>8
<1>8. ASSUME NEW c \in DOMAIN cells, NEW d \in DOMAIN cells, c # d
      PROVE  \E j, l \in k .. end - 1 : j # l /\ cells[c] = lines[j].text /\ cells[d] = lines[l].text
  <2>1. PICK n \in 1 .. size : c = places[n - 1] + 1 /\ cells[c] = lines[k + n - 1].text
    BY <1>7
  <2>2. PICK o \in 1 .. size : d = places[o - 1] + 1 /\ cells[d] = lines[k + o - 1].text
    BY <1>7
  <2>3. n # o
    BY <1>8, <2>1, <2>2
  <2>4. k + n - 1 \in k .. end - 1 /\ k + o - 1 \in k .. end - 1 /\ k + n - 1 # k + o - 1
    BY <1>1, <2>3
  <2> QED
    BY <2>1, <2>2, <2>4
<1>9. ASSUME NEW c \in DOMAIN cells PROVE \E j \in k .. end - 1 : cells[c] = lines[j].text
  <2>1. PICK n \in 1 .. size : cells[c] = lines[k + n - 1].text
    BY <1>7
  <2> QED
    BY <1>1, <2>1
<1> QED
  BY <1>3, <1>8, <1>9 DEF Apart, CellsOf, cells, parts, T

\* A text of a line in a table is that line's.
LEMMA RowText ==
    ASSUME IsSource, NEW first, NEW m, Scanning(first, m), NEW j \in 1 .. Len(lines),
           lines[j].kind = "TABLE_ROW"
    PROVE  From(lines[j].text, first[j], first[j])
<1>1. /\ first[j] \in DOMAIN source /\ lines[j] = Textile!ScannedLine(first[j])
      /\ first[j + 1] - 1 = Textile!LastLineOf(first[j]) /\ first[j + 1] - 1 = first[j]
  BY ScannedAt
<1> QED
  BY <1>1, ScannedTexts

\* The header of a table is the first of its lines that has a header cell.
HeaderOf(k, end) ==
    LET marked == {n \in k .. end - 1 : lines[n].header}
    IN  IF marked = {} THEN 0 ELSE CHOOSE n \in marked : \A j \in marked : n <= j

\* It is one of them, or there is none.
LEMMA HeaderIs ==
    ASSUME NEW k \in Nat, NEW end \in Nat
    PROVE  HeaderOf(k, end) \in {0} \cup k .. end - 1
<1> DEFINE marked == {n \in k .. end - 1 : lines[n].header}
           header == CHOOSE n \in marked : \A j \in marked : n <= j
<1>1. marked # {} => header \in marked
  <2>1. marked \in SUBSET Nat
    OBVIOUS
  <2> HIDE DEF marked
  <2>2. marked # {} => \E n \in marked : \A j \in marked : n <= j
    BY <2>1, LeastOf
  <2> QED
    BY <2>2
<1>2. HeaderOf(k, end) = IF marked = {} THEN 0 ELSE header
  BY DEF HeaderOf
<1> HIDE DEF header
<1> QED
  BY <1>1, <1>2

\* The row of a table.
TableRow(k, end) ==
    LET header == IF HeaderOf(k, end) = 0 THEN << >> ELSE lines[HeaderOf(k, end)].text
        cells == CellsOf(k, end, HeaderOf(k, end))
        text == header \o FlattenSeq(cells)
    IN  [[Textile!Row("table", 1, text) EXCEPT !.header = header] EXCEPT !.cells = cells]

\* The reader's table is the row with that header and those cells.
LEMMA TableIs ==
    ASSUME NEW k
    PROVE  Textile!TableOf(k) = TableRow(k, Textile!EndOfTable(k))
<1> DEFINE end == Textile!EndOfTable(k)
<1>0. Textile!TableOf(k) = Textile!Table(1, IF HeaderOf(k, end) = 0 THEN << >> ELSE lines[HeaderOf(k, end)].text,
                                         Textile!FlattenSeq(PartsOf(k, end, HeaderOf(k, end))))
  BY DEF Textile!TableOf, HeaderOf, PartsOf
<1> HIDE DEF end
<1>1. Textile!TableOf(k) = Textile!Table(1, IF HeaderOf(k, end) = 0 THEN << >> ELSE lines[HeaderOf(k, end)].text,
                                         CellsOf(k, end, HeaderOf(k, end)))
  BY <1>0, TextileTexts DEF CellsOf
<1>2. \A header, cells : Textile!Table(1, header, cells) =
         [[Textile!Row("table", 1, header \o FlattenSeq(cells)) EXCEPT !.header = header] EXCEPT !.cells = cells]
  BY TextileTexts DEF Textile!Table
<1>3. TableRow(k, end) = Textile!Table(1, IF HeaderOf(k, end) = 0 THEN << >> ELSE lines[HeaderOf(k, end)].text,
                                       CellsOf(k, end, HeaderOf(k, end)))
  BY <1>2 DEF TableRow
<1> QED
  BY <1>1, <1>3 DEF end

\* The row of a table holds its lines' texts and no others, each of its rows'
\* whole and by itself.
LEMMA TableRowIs ==
    ASSUME IsSource, NEW first, NEW m, Scanning(first, m), NEW k \in 1 .. Len(lines),
           NEW end \in k + 1 .. Len(lines) + 1, \A j \in k .. end - 1 : lines[j].kind = "TABLE_ROW"
    PROVE  LET r == TableRow(k, end)
           IN  IsRow(r, "table", 1, r.text, 0) /\ From(r.text, first[k], first[end] - 1)
<1> DEFINE at == HeaderOf(k, end)
           header == IF at = 0 THEN << >> ELSE lines[at].text
           cells == CellsOf(k, end, at)
           text == header \o FlattenSeq(cells)
           r == TableRow(k, end)
           here == first[k]
           last == first[end] - 1
           T == Nat \ {0}
<1>1. /\ Len(lines) \in Nat /\ k \in Nat /\ end \in Nat /\ k < end
      /\ k \in 1 .. Len(lines) + 1 /\ end \in 1 .. Len(lines) + 1
      /\ \A j \in k .. end - 1 : j \in 1 .. Len(lines) /\ j \in 1 .. Len(lines) + 1 /\ k <= j /\ j < end
  BY LenProperties DEF Scanning
<1>2. here \in Nat /\ first[end] \in Nat /\ here < first[end]
  BY <1>1, ScannedInOrder
<1>3. ASSUME NEW j \in k .. end - 1
      PROVE  /\ From(lines[j].text, first[j], first[j])
             /\ From(lines[j].text, here, last)
             /\ first[j] \in Nat
  <2>1. From(lines[j].text, first[j], first[j])
    BY <1>1, RowText
  <2>2. first[j] \in Nat /\ first[j] < first[end] /\ (k < j => here < first[j])
    BY <1>1, ScannedInOrder
  <2>3. k = j \/ k < j
    BY <1>1
  <2>4. k = j => here = first[j]
    OBVIOUS
  <2>5. first[j] \in here .. last
    BY <1>2, <2>2, <2>3, <2>4
  <2> DEFINE f == first[j]
  <2>6. f .. f \subseteq here .. last
    BY <2>5
  <2> QED
    BY <2>1, <2>2, <2>6 DEF From
<1>4. \A j \in k .. end - 1 : lines[j].text \in Seq(T)
  BY <1>3 DEF From
<1>5. at \in {0} \cup k .. end - 1
  BY <1>1, HeaderIs
<1>6. /\ cells \in Seq(Seq(T))
      /\ \A c \in DOMAIN cells : \E j \in k .. end - 1 : cells[c] = lines[j].text
      /\ \A c, d \in DOMAIN cells : c # d =>
             \E j, l \in k .. end - 1 : j # l /\ cells[c] = lines[j].text /\ cells[d] = lines[l].text
  <2>1. Apart(cells, k, end)
    BY <1>1, <1>4, CellsApart
  <2> HIDE DEF cells
  <2> QED
    BY <2>1 DEF Apart
<1>7. r = [[Textile!Row("table", 1, text) EXCEPT !.header = header] EXCEPT !.cells = cells]
  BY DEF TableRow
<1> HIDE DEF at
<1>8. From(header, here, last)
  <2>1. From(<< >>, here, last)
    BY EmptySeq DEF From, Range
  <2> QED
    BY <1>3, <1>5, <2>1
<1> HIDE DEF cells, header
<1>9. From(FlattenSeq(cells), here, last)
  <2>1. /\ FlattenSeq(cells) \in Seq(T)
        /\ \A x : x \in Range(FlattenSeq(cells)) <=> \E b \in 1 .. Len(cells) : x \in Range(cells[b])
    BY <1>6, FlattenRange
  <2>2. DOMAIN cells = 1 .. Len(cells)
    BY <1>6, LenProperties
  <2>3. \A b \in 1 .. Len(cells) : \A x \in Range(cells[b]) : LineOf(x) \in here .. last
    BY <1>3, <1>6, <2>2 DEF From
  <2> QED
    BY <2>1, <2>3 DEF From
<1>10. From(text, here, last)
  <2>1. here \in Nat /\ last \in Nat
    BY <1>2
  <2> HIDE DEF here, last
  <2> QED
    BY <1>8, <1>9, <2>1, Joined
<1> HIDE DEF text
<1>11. /\ r \in TextileRow /\ r.type = "table" /\ r.level = 1 /\ r.text = text /\ r.style = 0 /\ r.cells = cells
  <2> DEFINE type == "table"
             q == Textile!Row(type, 1, text)
  <2>1. IsRow(q, type, 1, text, 0)
    <3>1. text \in Seq(Nat \ {0}) /\ 1 \in Nat /\ type \in TextileType
      BY <1>10 DEF From, TextileType
    <3> HIDE DEF type
    <3> QED
      BY <3>1, RowFields
  <2>2. r = [[q EXCEPT !.header = header] EXCEPT !.cells = cells]
    BY <1>7
  <2>3. header \in Seq(Nat \ {0})
    BY <1>8 DEF From
  <2> HIDE DEF q, r
  <2> DEFINE p == [q EXCEPT !.header = header]
  <2>4. p \in TextileRow /\ p.type = "table" /\ p.level = 1 /\ p.text = text /\ p.style = 0
    BY <2>1, <2>3 DEF IsRow, TextileRow
  <2>5. r = [p EXCEPT !.cells = cells]
    BY <2>2
  <2> HIDE DEF p
  <2> QED
    BY <1>6, <2>4, <2>5 DEF TextileRow
<1> HIDE DEF r
<1>12. CellsWhole(r)
  <2> SUFFICES ASSUME NEW c \in DOMAIN cells, NEW d \in DOMAIN cells,
                      NEW x \in Range(cells[c]), NEW y \in Range(cells[d])
               PROVE  c = d <=> LineOf(x) = LineOf(y)
    BY <1>11 DEF CellsWhole
  <2>1. CASE c = d
    <3>1. PICK j \in k .. end - 1 : cells[c] = lines[j].text
      BY <1>6
    <3>2. LineOf(x) \in first[j] .. first[j] /\ LineOf(y) \in first[j] .. first[j] /\ first[j] \in Nat
      BY <1>3, <2>1, <3>1 DEF From
    <3> QED
      BY <2>1, <3>2
  <2>2. CASE c # d
    <3>1. PICK j \in k .. end - 1, l \in k .. end - 1 : j # l /\ cells[c] = lines[j].text /\ cells[d] = lines[l].text
      BY <1>6, <2>2
    <3>2. LineOf(x) \in first[j] .. first[j] /\ LineOf(y) \in first[l] .. first[l]
      BY <1>3, <3>1 DEF From
    <3>3. first[j] \in Nat /\ first[l] \in Nat /\ (j < l => first[j] < first[l]) /\ (l < j => first[l] < first[j])
      BY <1>1, ScannedInOrder
    <3>4. j < l \/ l < j
      BY <1>1, <3>1
    <3> QED
      BY <2>2, <3>2, <3>3, <3>4
  <2> QED
    BY <2>1, <2>2
<1> QED
  BY <1>10, <1>11, <1>12 DEF IsRow, r, here, last

\* A table is one row, of all its lines.
LEMMA TableTexts ==
    ASSUME IsSource, NEW first, NEW m, Scanning(first, m), i \in 1 .. Len(lines), TextsGood(builder, first[i]),
           lines[i].kind = "TABLE_ROW"
    PROVE  LET end == Textile!EndOfTable(i)
           IN  /\ TextsGood(Textile!Emitted(Textile!Closed, Textile!TableOf(i)), first[end])
               /\ end \in i + 1 .. Len(lines) + 1
<1> DEFINE end == Textile!EndOfTable(i)
           r == TableRow(i, end)
           text == r.text
           type == "table"
           here == first[i]
           last == first[end] - 1
<1>1. Len(lines) \in Nat
  BY LenProperties DEF Scanning
<1>2. end \in i + 1 .. Len(lines) + 1 /\ \A n \in i .. end - 1 : lines[n].kind = "TABLE_ROW"
  BY <1>1, TableEnds
<1>3. Textile!TableOf(i) = r
  BY TableIs
<1> HIDE DEF end
<1>4. IsRow(r, type, 1, text, 0) /\ From(text, here, last)
  BY <1>2, TableRowIs
<1>5. /\ end \in 1 .. Len(lines) + 1 /\ i \in 1 .. Len(lines) + 1 /\ i < end
      /\ \A j \in i .. end - 1 : j \in 1 .. Len(lines)
  BY <1>1, <1>2
<1>6. here \in Nat /\ first[end] \in Nat /\ here < first[end]
  BY <1>5, ScannedInOrder
<1>7. \A n \in here .. last : ~IsProse(n)
  <2> TAKE n \in here .. last
  <2>1. PICK j \in i .. end - 1 : j \in 1 .. Len(lines) /\ n \in first[j] .. Textile!LastLineOf(first[j])
    BY <1>5, ScannedHolds
  <2>2. /\ lines[j].kind = Textile!KindOf(source[first[j]]) /\ source[first[j]] \in SourceLine
        /\ lines[j].kind # "HTML_BLOCK" => first[j + 1] - 1 = first[j]
        /\ first[j + 1] - 1 = Textile!LastLineOf(first[j]) /\ first[j] \in Nat \ {0}
    BY <2>1, ScannedAt
  <2>3. lines[j].kind = "TABLE_ROW"
    BY <1>2
  <2> DEFINE f == first[j]
  <2>4. /\ n \in f .. Textile!LastLineOf(f) /\ Textile!LastLineOf(f) = f /\ f \in Nat
        /\ Textile!KindOf(source[f]) = "TABLE_ROW" /\ source[f] \in SourceLine
    BY <2>1, <2>2, <2>3
  <2> HIDE DEF f
  <2>5. n = f
    BY <2>4
  <2> QED
    BY <2>4, <2>5, KindIs DEF IsProse
<1> HIDE DEF here
<1>8. last \in Nat /\ here <= last /\ last + 1 = first[end]
  BY <1>6
<1>9. type \in TextileType /\ type \notin {"paragraph", "blockquote"}
  BY DEF TextileType
<1> HIDE DEF last, type, r, text
<1>10. TextsGood(builder, here)
  BY DEF here
<1>11. TextsGood(Textile!Emitted(Textile!Closed, r), last + 1)
  BY <1>4, <1>7, <1>8, <1>9, <1>10, RowKeeps
<1> QED
  BY <1>2, <1>3, <1>8, <1>11 DEF end

-----------------------------------------------------------------------------
(* The lists that are open, and the items in them.                         *)

Marker == {"*", "#", "-"}

\* How many lists stay open: those of markers that are the same from the first.
LEMMA CommonIs ==
    ASSUME NEW open \in Seq(Marker), NEW markers \in Seq(Marker)
    PROVE  LET common == Len(Textile!LongestCommonPrefix({open, markers}))
           IN  /\ common \in Nat /\ common <= Len(open) /\ common <= Len(markers)
               /\ \A d \in 1 .. common : open[d] = markers[d]
<1> DEFINE both == {open, markers}
           P == Textile!CommonPrefixes(both)
           longest == CHOOSE p \in P : \A q \in P : Len(q) <= Len(p)
           sizes == {Len(p) : p \in P}
<1>1. Len(open) \in Nat /\ Len(markers) \in Nat
  BY LenProperties
<1>2. Textile!LongestCommonPrefix(both) = longest
  BY DEF Textile!LongestCommonPrefix
<1>3. P = {p \in UNION {Textile!Prefixes(s) : s \in both} : \A s \in both : Textile!IsPrefix(p, s)}
  BY DEF Textile!CommonPrefixes
<1>4. ASSUME NEW p \in P
      PROVE  /\ Len(p) \in Nat /\ Len(p) <= Len(open) /\ Len(p) <= Len(markers)
             /\ \A d \in 1 .. Len(p) : open[d] = markers[d]
  <2>1. Textile!IsPrefix(p, open) /\ Textile!IsPrefix(p, markers)
    BY <1>3
  <2>2. PICK s \in both : p \in Textile!Prefixes(s)
    BY <1>3
  <2>3. s \in Seq(Marker) /\ Len(s) \in Nat
    BY <1>1
  <2>4. PICK l \in 0 .. Len(s) : p = SubSeq(s, 1, l)
    BY <2>2 DEF Textile!Prefixes
  <2>5. Len(p) = l /\ l \in Nat
    <3>1. 1 \in 1 .. Len(s) + 1 /\ l \in 1 - 1 .. Len(s) /\ l - 1 + 1 = l
      BY <2>3
    <3>2. Len(SubSeq(s, 1, l)) = IF 1 <= l THEN l - 1 + 1 ELSE 0
      BY <2>3, <3>1, SubSeqProperties
    <3> QED
      BY <2>3, <2>4, <3>2
  <2>6. Len(p) <= Len(open) /\ Len(p) <= Len(markers) /\ SubSeq(open, 1, Len(p)) = SubSeq(markers, 1, Len(p))
    BY <2>1 DEF Textile!IsPrefix
  <2>7. ASSUME NEW d \in 1 .. Len(p) PROVE open[d] = markers[d]
    <3> DEFINE k == Len(p)
    <3>1. k \in Nat /\ k <= Len(open) /\ k <= Len(markers) /\ d \in 1 .. k
      BY <2>5, <2>6
    <3> HIDE DEF k
    <3>2. \A s0 \in Seq(Marker) : k <= Len(s0) => SubSeq(s0, 1, k)[d] = s0[d]
      <4> TAKE s0 \in Seq(Marker)
      <4> SUFFICES ASSUME k <= Len(s0) PROVE SubSeq(s0, 1, k)[d] = s0[d]
        OBVIOUS
      <4>1. Len(s0) \in Nat
        BY LenProperties
      <4>2. 1 \in 1 .. Len(s0) + 1 /\ k \in 1 - 1 .. Len(s0) /\ d \in 1 .. k - 1 + 1 /\ 1 + d - 1 = d
        BY <3>1, <4>1
      <4>3. \A n \in 1 .. k - 1 + 1 : SubSeq(s0, 1, k)[n] = s0[1 + n - 1]
        BY <4>2, SubSeqProperties
      <4> QED
        BY <4>2, <4>3
    <3> QED
      BY <2>6, <3>1, <3>2 DEF k
  <2> QED
    BY <2>5, <2>6, <2>7
<1>5. P # {}
  <2> DEFINE none == SubSeq(open, 1, 0)
  <2>1. none \in Textile!Prefixes(open)
    BY <1>1 DEF Textile!Prefixes
  <2>2. \A s \in Seq(Marker) : SubSeq(s, 1, 0) = << >>
    <3> TAKE s \in Seq(Marker)
    <3>1. Len(s) \in Nat
      BY LenProperties
    <3>2. 1 \in 1 .. Len(s) + 1 /\ 0 \in 1 - 1 .. Len(s)
      BY <3>1
    <3>3. Len(SubSeq(s, 1, 0)) = (IF 1 <= 0 THEN 0 - 1 + 1 ELSE 0) /\ SubSeq(s, 1, 0) \in Seq(Marker)
      BY <3>2, SubSeqProperties
    <3> QED
      BY <3>3, EmptySeq
  <2>3. none = << >> /\ Len(none) = 0
    BY <2>2, EmptySeq
  <2> HIDE DEF none
  <2>4. Textile!IsPrefix(none, open) /\ Textile!IsPrefix(none, markers)
    BY <1>1, <2>2, <2>3 DEF Textile!IsPrefix
  <2>5. none \in P
    BY <1>3, <2>1, <2>4
  <2> QED
    BY <2>5
<1> HIDE DEF P
<1>6. sizes \in SUBSET Nat /\ sizes # {} /\ \A n \in sizes : n <= Len(open)
  BY <1>4, <1>5
<1>7. PICK p \in P : \A q \in P : Len(q) <= Len(p)
  <2>1. Max(sizes) \in sizes /\ \A n \in sizes : n <= Max(sizes)
    <3> HIDE DEF sizes
    <3> QED
      BY <1>1, <1>6, GreatestOf
  <2>2. PICK p \in P : Len(p) = Max(sizes)
    BY <2>1
  <2>3. \A q \in P : Len(q) \in sizes
    OBVIOUS
  <2> HIDE DEF sizes
  <2> QED
    BY <2>1, <2>2, <2>3
<1>8. longest \in P
  BY <1>7
<1> HIDE DEF longest
<1> QED
  BY <1>2, <1>4, <1>8

\* The lists an item opens.
ListsOf(open, markers) == Textile!MarkerLists(open, markers, Textile!TypeOf)

CommonOf(open, markers) == Len(Textile!LongestCommonPrefix({open, markers}))

IsList(r, level, list_type) ==
    /\ r \in TextileRow /\ r.type = "list" /\ r.level = level /\ r.list_type = list_type
    /\ r.text = << >> /\ r.style = 0 /\ r.cells = << >>

IsItem(r, level, role, text) ==
    /\ r \in TextileRow /\ r.type = "list_item" /\ r.level = level /\ r.role = role
    /\ r.text = text /\ r.style = 0 /\ r.cells = << >>

\* What a list's row is.
LEMMA ListRowIs ==
    ASSUME NEW level \in Nat, NEW list_type \in {"bullet", "ordered", "definition"}
    PROVE  IsList(Textile!List(level, list_type), level, list_type)
<1> DEFINE row == [kind |-> "block", type |-> "list", level |-> level, text |-> << >>, list_type |-> "", role |-> "",
                   header |-> << >>, cells |-> << >>, style |-> 0, heading |-> 0, key |-> ""]
<1>1. Textile!List(level, list_type) = [row EXCEPT !.list_type = list_type]
  BY DEF Textile!List, Textile!Row
<1>2. row \in TextileRow /\ row.type = "list" /\ row.level = level /\ row.text = << >> /\ row.style = 0
      /\ row.cells = << >>
  <2>1. << >> \in Seq(Nat \ {0}) /\ << >> \in Seq(Seq(Nat \ {0})) /\ "list" \in TextileType
    BY EmptySeq DEF TextileType
  <2> QED
    BY <2>1 DEF TextileRow
<1> HIDE DEF row
<1>3. [row EXCEPT !.list_type = list_type] \in TextileRow
  BY <1>2 DEF TextileRow
<1> QED
  BY <1>1, <1>2, <1>3 DEF IsList, TextileRow

\* What an item's row is.
LEMMA ItemRowIs ==
    ASSUME NEW level \in Nat, NEW role \in {"", "term", "definition"}, NEW text \in Seq(Nat \ {0})
    PROVE  IsItem(Textile!ItemOf(level, role, text), level, role, text)
<1> DEFINE row == [kind |-> "block", type |-> "list_item", level |-> level, text |-> text, list_type |-> "", role |-> "",
                   header |-> << >>, cells |-> << >>, style |-> 0, heading |-> 0, key |-> ""]
<1>1. Textile!ItemOf(level, role, text) = [row EXCEPT !.role = role]
  BY DEF Textile!ItemOf, Textile!Row
<1>2. row \in TextileRow /\ row.type = "list_item" /\ row.level = level /\ row.text = text /\ row.style = 0
      /\ row.cells = << >>
  <2>1. << >> \in Seq(Nat \ {0}) /\ << >> \in Seq(Seq(Nat \ {0})) /\ "list_item" \in TextileType
    BY EmptySeq DEF TextileType
  <2> QED
    BY <2>1 DEF TextileRow
<1> HIDE DEF row
<1>3. [row EXCEPT !.role = role] \in TextileRow
  BY <1>2 DEF TextileRow
<1> QED
  BY <1>1, <1>2, <1>3 DEF IsItem, TextileRow

\* One list for each marker behind those in common, two levels deeper each.
LEMMA ListsAre ==
    ASSUME NEW open \in Seq(Marker), NEW markers \in Seq(Marker)
    PROVE  /\ CommonOf(open, markers) \in Nat
           /\ CommonOf(open, markers) <= Len(open) /\ CommonOf(open, markers) <= Len(markers)
           /\ \A d \in 1 .. CommonOf(open, markers) : open[d] = markers[d]
           /\ ListsOf(open, markers) \in Seq(TextileRow)
           /\ Len(ListsOf(open, markers)) = Len(markers) - CommonOf(open, markers)
           /\ DOMAIN ListsOf(open, markers) = 1 .. Len(markers) - CommonOf(open, markers)
           /\ \A n \in 1 .. Len(markers) - CommonOf(open, markers) :
                  IsList(ListsOf(open, markers)[n], 2 * (CommonOf(open, markers) + n) - 1,
                         Textile!TypeOf(markers[CommonOf(open, markers) + n]))
<1> DEFINE common == CommonOf(open, markers)
           size == Len(markers) - common
           L == ListsOf(open, markers)
<1>1. /\ common \in Nat /\ common <= Len(open) /\ common <= Len(markers)
      /\ \A d \in 1 .. common : open[d] = markers[d]
  BY CommonIs DEF CommonOf
<1>2. L = [n \in 1 .. size |-> Textile!List(2 * (common + n) - 1, Textile!TypeOf(markers[common + n]))]
  BY DEF ListsOf, Textile!MarkerLists, CommonOf
<1>3. Len(markers) \in Nat /\ size \in Nat
  BY <1>1, LenProperties
<1> HIDE DEF common, L
<1>4. ASSUME NEW n \in 1 .. size
      PROVE  IsList(Textile!List(2 * (common + n) - 1, Textile!TypeOf(markers[common + n])),
                    2 * (common + n) - 1, Textile!TypeOf(markers[common + n]))
  <2> DEFINE type == Textile!TypeOf(markers[common + n])
             level == 2 * (common + n) - 1
  <2>1. type \in {"bullet", "ordered", "definition"}
    BY DEF Textile!TypeOf
  <2>2. level \in Nat
    BY <1>1, <1>3
  <2> HIDE DEF type, level
  <2>3. IsList(Textile!List(level, type), level, type)
    BY <2>1, <2>2, ListRowIs
  <2> QED
    BY <2>3 DEF type, level
<1> HIDE DEF size
<1>5. \A n \in 1 .. size : IsList(L[n], 2 * (common + n) - 1, Textile!TypeOf(markers[common + n]))
  BY <1>2, <1>4
<1>6. L \in Seq(TextileRow) /\ Len(L) = size /\ DOMAIN L = 1 .. size
  <2>1. \A n \in 1 .. size : L[n] \in TextileRow
    BY <1>5 DEF IsList
  <2>2. L \in [1 .. size -> TextileRow]
    BY <1>2, <2>1
  <2>3. L \in Seq(TextileRow)
    BY <1>3, <2>2, SeqDef
  <2>4. Len(L) = size
    BY <1>3, <2>2, <2>3, LenProperties
  <2> QED
    BY <2>2, <2>3, <2>4
<1> QED
  BY <1>1, <1>5, <1>6 DEF size, common, L

\* Row p is the list that row n is an item of: the last row above with a lesser
\* level, and that by one.
HangsUnder(R, n, p) ==
    /\ p \in 1 .. n - 1 /\ R[p].type = "list" /\ R[p].level = R[n].level - 1
    /\ \A k \in p + 1 .. n - 1 : R[k].level >= R[n].level

\* What its marker says of an item's list.
NamedType(r) ==
    IF r.role # "" THEN "definition" ELSE MediaWiki!TypeOf(Last(source[LineOf(r.text[1])].markers))

IsOfLine(r) == r.role = "" => source[LineOf(r.text[1])].lead = "list"

ItemGood(R, n) ==
    R[n].type = "list_item" =>
        /\ IsOfLine(R[n])
        /\ \E p \in 1 .. n - 1 : HangsUnder(R, n, p) /\ R[p].list_type = NamedType(R[n])

Listed(R) == \A n \in DOMAIN R : ItemGood(R, n)

\* Row p is the open list of depth d: what comes next goes below it.
IsOpenList(R, d, marker, p) ==
    /\ p \in DOMAIN R /\ R[p].type = "list" /\ R[p].level = 2 * d - 1
    /\ R[p].list_type = Textile!TypeOf(marker)
    /\ \A k \in p + 1 .. Len(R) : R[k].level >= 2 * d

Opened(R, open) == \A d \in 1 .. Len(open) : \E p \in DOMAIN R : IsOpenList(R, d, open[d], p)

ListsGood(b) ==
    /\ b.blocks \in Seq(TextileRow) /\ Listed(b.blocks)
    /\ b.open \in Seq(Marker) /\ Opened(b.blocks, b.open)
    /\ b.open # << >> => b.para = << >>

\* An item goes on hanging under its list when rows come behind.
LEMMA ItemStays ==
    ASSUME NEW R, NEW J, NEW n \in Nat, \A k \in 1 .. n : J[k] = R[k], n >= 1, ItemGood(R, n)
    PROVE  ItemGood(J, n)
<1>1. n \in 1 .. n /\ J[n] = R[n]
  OBVIOUS
<1> SUFFICES ASSUME R[n].type = "list_item"
             PROVE  IsOfLine(J[n]) /\ \E p \in 1 .. n - 1 : HangsUnder(J, n, p) /\ J[p].list_type = NamedType(J[n])
  BY <1>1 DEF ItemGood
<1>2. PICK p \in 1 .. n - 1 : HangsUnder(R, n, p) /\ R[p].list_type = NamedType(R[n])
  BY DEF ItemGood
<1>3. p \in 1 .. n /\ J[p] = R[p] /\ \A k \in p + 1 .. n - 1 : k \in 1 .. n
  OBVIOUS
<1>4. HangsUnder(J, n, p)
  BY <1>1, <1>2, <1>3 DEF HangsUnder
<1> QED
  BY <1>1, <1>2, <1>3, <1>4 DEF ItemGood

\* Rows without items add none.
LEMMA ListedBehind ==
    ASSUME NEW R \in Seq(TextileRow), NEW N \in Seq(TextileRow), Listed(R),
           \A n \in DOMAIN N : N[n].type # "list_item"
    PROVE  Listed(R \o N)
<1> DEFINE J == R \o N
           l == Len(R)
<1>1. /\ DOMAIN R = 1 .. l /\ DOMAIN N = 1 .. Len(N) /\ l \in Nat /\ Len(N) \in Nat
      /\ \A n \in 1 .. l : J[n] = R[n]
      /\ \A n \in 1 .. Len(N) : J[l + n] = N[n]
      /\ \A n \in DOMAIN J : n \in 1 .. l \/ (n - l \in 1 .. Len(N) /\ n > l)
      /\ DOMAIN J = 1 .. l + Len(N)
  BY JoinedRows
<1> HIDE DEF J, l
<1>2. ASSUME NEW n \in DOMAIN J PROVE ItemGood(J, n)
  <2>1. CASE n \in 1 .. l
    <3>1. n \in Nat /\ n >= 1 /\ \A k \in 1 .. n : k \in 1 .. l
      BY <1>1, <2>1
    <3>2. ItemGood(R, n) /\ \A k \in 1 .. n : J[k] = R[k]
      BY <1>1, <2>1, <3>1 DEF Listed
    <3> QED
      BY <3>1, <3>2, ItemStays
  <2>2. CASE n \notin 1 .. l
    <3> DEFINE k == n - l
    <3>1. k \in 1 .. Len(N) /\ n = l + k
      BY <1>1, <2>2
    <3> HIDE DEF k
    <3>2. J[n] = N[k]
      BY <1>1, <3>1
    <3> QED
      BY <1>1, <3>1, <3>2 DEF ItemGood
  <2> QED
    BY <2>1, <2>2
<1> QED
  BY <1>2 DEF Listed, J

\* The lists an item opens come below those that stay open.
LEMMA ListsOpen ==
    ASSUME NEW R \in Seq(TextileRow), Listed(R), NEW open \in Seq(Marker), Opened(R, open),
           NEW markers \in Seq(Marker)
    PROVE  /\ R \o ListsOf(open, markers) \in Seq(TextileRow)
           /\ Listed(R \o ListsOf(open, markers))
           /\ Opened(R \o ListsOf(open, markers), markers)
<1> DEFINE N == ListsOf(open, markers)
           c == CommonOf(open, markers)
           J == R \o N
           l == Len(R)
           k == Len(N)
           M == Len(markers)
<1>1. /\ c \in Nat /\ c <= Len(open) /\ c <= M /\ M \in Nat /\ Len(open) \in Nat
      /\ \A d \in 1 .. c : open[d] = markers[d]
      /\ N \in Seq(TextileRow) /\ k = M - c /\ DOMAIN N = 1 .. k
      /\ \A n \in 1 .. k : IsList(N[n], 2 * (c + n) - 1, Textile!TypeOf(markers[c + n]))
  BY ListsAre, LenProperties
<1> HIDE DEF N, c, M
<1>2. \A n \in 1 .. k : N[n].type = "list" /\ N[n].level = 2 * (c + n) - 1
                        /\ N[n].list_type = Textile!TypeOf(markers[c + n])
  BY <1>1 DEF IsList
<1>3. Listed(J)
  BY <1>1, <1>2, ListedBehind
<1>4. /\ DOMAIN R = 1 .. l /\ l \in Nat /\ k \in Nat /\ Len(J) = l + k /\ J \in Seq(TextileRow)
      /\ \A n \in 1 .. l : n \in DOMAIN J /\ J[n] = R[n]
      /\ \A n \in 1 .. k : l + n \in DOMAIN J /\ J[l + n] = N[n]
  BY <1>1, JoinedRows
<1> HIDE DEF J, l, k
<1>5. ASSUME NEW d \in 1 .. M PROVE \E p \in DOMAIN J : IsOpenList(J, d, markers[d], p)
  <2>1. CASE d <= c
    <3>1. d \in 1 .. Len(open) /\ open[d] = markers[d] /\ d \in Nat
      BY <1>1, <2>1
    <3>2. PICK p \in DOMAIN R : IsOpenList(R, d, open[d], p)
      BY <3>1 DEF Opened
    <3>3. p \in DOMAIN J /\ J[p] = R[p] /\ p \in 1 .. l
      BY <1>4
    <3>4. ASSUME NEW n \in p + 1 .. Len(J) PROVE J[n].level >= 2 * d
      <4>1. CASE n <= l
        <5>1. n \in 1 .. l /\ n \in p + 1 .. l
          BY <1>4, <3>3, <4>1
        <5> QED
          BY <1>4, <3>2, <5>1 DEF IsOpenList, l
      <4>2. CASE ~(n <= l)
        <5> DEFINE o == n - l
        <5>1. o \in 1 .. k /\ n = l + o
          BY <1>4, <3>3, <4>2
        <5> HIDE DEF o
        <5>2. J[n].level = 2 * (c + o) - 1
          BY <1>2, <1>4, <5>1
        <5>3. 2 * (c + o) - 1 >= 2 * d
          BY <1>1, <1>4, <2>1, <3>1, <5>1
        <5> QED
          BY <5>2, <5>3
      <4> QED
        BY <4>1, <4>2
    <3>5. IsOpenList(J, d, markers[d], p)
      BY <3>1, <3>2, <3>3, <3>4 DEF IsOpenList
    <3> QED
      BY <3>3, <3>5
  <2>2. CASE ~(d <= c)
    <3> DEFINE e == d - c
               p == l + e
    <3>1. e \in 1 .. k /\ c + e = d /\ d \in Nat
      BY <1>1, <2>2
    <3> HIDE DEF e
    <3>2. p \in DOMAIN J /\ J[p] = N[e] /\ p \in Nat
      BY <1>4, <3>1
    <3>3. J[p].type = "list" /\ J[p].level = 2 * d - 1 /\ J[p].list_type = Textile!TypeOf(markers[d])
      BY <1>2, <3>1, <3>2
    <3>4. ASSUME NEW n \in p + 1 .. Len(J) PROVE J[n].level >= 2 * d
      <4> DEFINE o == n - l
      <4>1. o \in 1 .. k /\ n = l + o /\ o > e
        BY <1>4, <3>1
      <4> HIDE DEF o
      <4>2. J[n].level = 2 * (c + o) - 1
        BY <1>2, <1>4, <4>1
      <4>3. 2 * (c + o) - 1 >= 2 * d
        BY <1>1, <1>4, <3>1, <4>1
      <4> QED
        BY <4>2, <4>3
    <3> HIDE DEF p
    <3>5. IsOpenList(J, d, markers[d], p)
      BY <3>2, <3>3, <3>4 DEF IsOpenList
    <3> QED
      BY <3>2, <3>5
  <2> QED
    BY <1>1, <2>1, <2>2
<1>6. Opened(J, markers)
  BY <1>5 DEF Opened, M
<1> QED
  BY <1>3, <1>4, <1>6 DEF J, N

\* An item goes into the deepest list that is open, and leaves all open.
LEMMA ItemHangs ==
    ASSUME NEW R \in Seq(TextileRow), Listed(R), NEW markers \in Seq(Marker), markers # << >>, Opened(R, markers),
           NEW r \in TextileRow, r.type = "list_item", r.level = 2 * Len(markers), IsOfLine(r),
           NamedType(r) = Textile!TypeOf(markers[Len(markers)])
    PROVE  R \o <<r>> \in Seq(TextileRow) /\ Listed(R \o <<r>>) /\ Opened(R \o <<r>>, markers)
<1> DEFINE J == R \o <<r>>
           l == Len(R)
           M == Len(markers)
<1>1. M \in Nat /\ M # 0 /\ M \in 1 .. M
  BY EmptySeq
<1>2. /\ DOMAIN R = 1 .. l /\ l \in Nat /\ Len(J) = l + 1 /\ DOMAIN J = 1 .. l + 1 /\ J \in Seq(TextileRow)
      /\ \A n \in 1 .. l : n \in DOMAIN J /\ J[n] = R[n]
      /\ J[l + 1] = r
  <2> DEFINE one == <<r>>
  <2>1. one \in Seq(TextileRow) /\ Len(one) = 1 /\ one[1] = r
    OBVIOUS
  <2> HIDE DEF one
  <2>2. /\ DOMAIN R = 1 .. l /\ l \in Nat /\ Len(R \o one) = l + Len(one) /\ DOMAIN (R \o one) = 1 .. l + Len(one)
        /\ R \o one \in Seq(TextileRow)
        /\ \A n \in 1 .. l : n \in DOMAIN (R \o one) /\ (R \o one)[n] = R[n]
        /\ \A n \in 1 .. Len(one) : (R \o one)[l + n] = one[n]
    BY <2>1, JoinedRows
  <2> QED
    BY <2>1, <2>2 DEF one
<1> HIDE DEF J
<1>3. ItemGood(J, l + 1)
  <2>1. PICK p \in DOMAIN R : IsOpenList(R, M, markers[M], p)
    BY <1>1 DEF Opened
  <2>2. p \in 1 .. l /\ p \in 1 .. (l + 1) - 1 /\ J[p] = R[p]
    BY <1>2
  <2>3. \A k \in p + 1 .. (l + 1) - 1 : k \in p + 1 .. Len(R) /\ J[k] = R[k]
    BY <1>2, <2>2
  <2> HIDE DEF M, l
  <2>4. J[p].type = "list" /\ J[p].level = 2 * M - 1 /\ J[p].list_type = Textile!TypeOf(markers[M])
        /\ \A k \in p + 1 .. (l + 1) - 1 : J[k].level >= 2 * M
    BY <2>1, <2>2, <2>3 DEF IsOpenList
  <2>5. HangsUnder(J, l + 1, p)
    BY <1>2, <2>2, <2>4 DEF HangsUnder, M
  <2>6. J[p].list_type = NamedType(J[l + 1]) /\ IsOfLine(J[l + 1])
    BY <1>2, <2>4 DEF M
  <2> QED
    BY <2>2, <2>5, <2>6 DEF ItemGood
<1> HIDE DEF l
<1>4. Listed(J)
  <2>1. ASSUME NEW n \in DOMAIN J PROVE ItemGood(J, n)
    <3>1. CASE n = l + 1
      BY <1>3, <3>1
    <3>2. CASE n # l + 1
      <4>1. n \in 1 .. l /\ n \in Nat /\ n >= 1 /\ \A k \in 1 .. n : k \in 1 .. l
        BY <1>2, <3>2
      <4>2. ItemGood(R, n) /\ \A k \in 1 .. n : J[k] = R[k]
        BY <1>2, <4>1 DEF Listed
      <4> QED
        BY <4>1, <4>2, ItemStays
    <3> QED
      BY <3>1, <3>2
  <2> QED
    BY <2>1 DEF Listed
<1>5. Opened(J, markers)
  <2> SUFFICES ASSUME NEW d \in 1 .. M PROVE \E p \in DOMAIN J : IsOpenList(J, d, markers[d], p)
    BY DEF Opened
  <2>1. PICK p \in DOMAIN R : IsOpenList(R, d, markers[d], p)
    BY DEF Opened
  <2>2. p \in 1 .. l /\ p \in DOMAIN J /\ J[p] = R[p] /\ d \in Nat /\ d <= M
    BY <1>1, <1>2
  <2>3. ASSUME NEW n \in p + 1 .. Len(J) PROVE J[n].level >= 2 * d
    <3>1. CASE n = l + 1
      <4>1. J[n].level = 2 * M
        BY <1>2, <3>1
      <4> HIDE DEF M
      <4> QED
        BY <1>1, <2>2, <4>1
    <3>2. CASE n # l + 1
      <4>1. n \in p + 1 .. l /\ n \in 1 .. l
        BY <1>2, <2>2, <3>2
      <4>2. J[n] = R[n]
        BY <1>2, <4>1
      <4> QED
        BY <2>1, <4>1, <4>2 DEF IsOpenList, l
    <3> QED
      BY <3>1, <3>2
  <2>4. IsOpenList(J, d, markers[d], p)
    BY <2>1, <2>2, <2>3 DEF IsOpenList
  <2> QED
    BY <2>2, <2>4
<1> QED
  BY <1>2, <1>4, <1>5 DEF J

-----------------------------------------------------------------------------
(* The step an item is read in.                                            *)

\* What the assumption on sources of Textile says of this one.
ItemsHaveText ==
    \A n \in DOMAIN source : source[n].lead = "list" =>
        /\ source[n].text /\ ~source[n].definition
        /\ source[n].markers # << >> /\ source[n].markers \in Seq({"*", "#"})

\* The rows of an item, one or, of a term with its definition, two.
ItemRows(line) ==
    IF line.definition
    THEN <<Textile!ItemOf(2 * Len(line.markers), "term", line.term),
           Textile!ItemOf(2 * Len(line.markers), "definition", line.text)>>
    ELSE <<Textile!ItemOf(2 * Len(line.markers), "", line.text)>>

\* An item opens its lists, then emits its rows.
LEMMA ListItemIs ==
    ASSUME NEW b, IsBuilder(b), NEW line, b.blocks \in Seq(TextileRow),
           ListsOf(b.open, line.markers) \in Seq(TextileRow), ItemRows(line) \in Seq(TextileRow)
    PROVE  LET c == Textile!ListItem(b, line)
           IN  /\ IsBuilder(c) /\ c.open = line.markers /\ c.para = b.para /\ c.pending_style = b.pending_style
               /\ c.blocks = (b.blocks \o ListsOf(b.open, line.markers)) \o ItemRows(line)
<1> DEFINE L == ListsOf(b.open, line.markers)
           a == Textile!AllEmitted(b, L)
           opened == [a EXCEPT !.open = line.markers]
           rows2 == ItemRows(line)
           c == Textile!ListItem(b, line)
           first == Textile!ItemOf(2 * Len(line.markers), "term", line.term)
           second == Textile!ItemOf(2 * Len(line.markers), "definition", line.text)
           only == Textile!ItemOf(2 * Len(line.markers), "", line.text)
<1>1. c = IF line.definition THEN Textile!AllEmitted(opened, <<first, second>>) ELSE Textile!Emitted(opened, only)
  BY DEF Textile!ListItem, ListsOf
<1>2. rows2 = IF line.definition THEN <<first, second>> ELSE <<only>>
  BY DEF ItemRows
<1>3. /\ IsBuilder(a) /\ a.blocks = b.blocks \o L /\ a.para = b.para /\ a.pending_style = b.pending_style
  BY AllEmittedIs
<1> HIDE DEF a, L
<1>4. /\ IsBuilder(opened) /\ opened.blocks = b.blocks \o L /\ opened.para = b.para
      /\ opened.pending_style = b.pending_style /\ opened.open = line.markers
  <2> DEFINE markers == line.markers
             joined == b.blocks \o L
  <2>1. opened = [a EXCEPT !.open = markers]
    OBVIOUS
  <2> HIDE DEF markers, opened, joined
  <2>2. opened.open = markers /\ IsBuilder(opened) /\ opened.blocks = a.blocks /\ opened.para = a.para
        /\ opened.pending_style = a.pending_style
    BY <1>3, <2>1 DEF IsBuilder
  <2> QED
    BY <1>3, <2>2 DEF markers
<1>5. opened.blocks \in Seq(TextileRow)
  BY <1>4, ConcatProperties DEF L
<1> HIDE DEF opened, first, second, only, c, rows2
<1>6. CASE line.definition
  <2>1. c = Textile!AllEmitted(opened, <<first, second>>) /\ rows2 = <<first, second>>
    BY <1>1, <1>2, <1>6
  <2>2. /\ IsBuilder(c) /\ c.blocks = opened.blocks \o rows2 /\ c.para = opened.para
        /\ c.pending_style = opened.pending_style /\ c.open = opened.open
    BY <1>4, <2>1, AllEmittedIs
  <2> QED
    BY <1>4, <2>2 DEF c, L, rows2
<1>7. CASE ~line.definition
  <2>1. c = Textile!Emitted(opened, only) /\ rows2 = <<only>>
    BY <1>1, <1>2, <1>7
  <2>2. only \in TextileRow
    <3>1. rows2 \in Seq(TextileRow)
      BY DEF rows2
    <3>2. <<only>> \in Seq(TextileRow) /\ 1 \in 1 .. Len(<<only>>) /\ <<only>>[1] = only
      BY <2>1, <3>1
    <3> QED
      BY <3>2, ElementOfSeq
  <2>3. /\ IsBuilder(c) /\ c.blocks = opened.blocks \o rows2 /\ c.para = opened.para
        /\ c.pending_style = opened.pending_style /\ c.open = opened.open
    BY <1>4, <1>5, <2>1, <2>2, EmittedIs
  <2> QED
    BY <1>4, <2>3 DEF c, L, rows2
<1> QED
  BY <1>6, <1>7

\* A line with an item has the markers of a list, and a text or a term.
LEMMA ItemLine ==
    ASSUME IsSource, ItemsHaveText, NEW here, ReadingAt(here), Textile!Line.kind = "LIST_ITEM"
    PROVE  LET line == Textile!Line
           IN  /\ here \in Nat \ {0} /\ ~IsProse(here)
               /\ line.markers \in Seq(Marker) /\ line.markers # << >>
               /\ From(line.text, here, here)
               /\ line.definition =>
                      /\ From(line.term, here, here) /\ Range(line.term) \subseteq {TermOf(here)}
                      /\ Range(line.text) \subseteq {TextOf(here)}
                      /\ Textile!TypeOf(line.markers[Len(line.markers)]) = "definition"
               /\ ~line.definition =>
                      /\ source[here].lead = "list" /\ line.text = <<TextOf(here)>>
                      /\ MediaWiki!TypeOf(Last(source[here].markers))
                            = Textile!TypeOf(line.markers[Len(line.markers)])
<1> DEFINE s == source[here]
           line == Textile!Line
<1>1. here \in Nat \ {0} /\ here \in DOMAIN source /\ line = Textile!ScannedLine(here) /\ s \in SourceLine
  BY LastLineIs, ElementOfSeq DEF ReadingAt, IsSource
<1>2. /\ line.kind = Textile!KindOf(s)
      /\ line.markers = IF s.definition THEN <<"-">> ELSE s.markers
      /\ line.definition = (TRUE /\ s.definition)
  BY <1>1, ScannedFields
<1>3. Textile!KindOf(s) = "LIST_ITEM" /\ Textile!LastLineOf(here) = here
  BY <1>1, <1>2, LastLineIs
<1>4. s.lead = "list" \/ (s.lead = "- " /\ s.definition)
  BY <1>1, <1>3, KindIs
<1>5. s.definition \in BOOLEAN
  BY <1>1 DEF SourceLine
<1>6. s.lead = "list" => s.text /\ ~s.definition /\ s.markers # << >> /\ s.markers \in Seq({"*", "#"})
  BY <1>1 DEF ItemsHaveText
<1>7. /\ From(line.text, here, here) /\ From(line.term, here, here) /\ Range(line.term) \subseteq {TermOf(here)}
      /\ line.text = IF s.text THEN <<TextOf(here)>> ELSE << >>
  BY <1>1, <1>2, <1>3, ScannedTexts
<1>8. ~IsProse(here)
  BY <1>4 DEF IsProse
<1> HIDE DEF line, s
<1>9. Range(line.text) \subseteq {TextOf(here)}
  BY <1>7 DEF Range
<1>10. CASE s.definition
  <2>1. line.markers = <<"-">> /\ line.definition
    BY <1>2, <1>10
  <2>2. line.markers \in Seq(Marker) /\ line.markers # << >> /\ Len(line.markers) = 1 /\ line.markers[1] = "-"
    BY <2>1 DEF Marker
  <2>3. Textile!TypeOf(line.markers[Len(line.markers)]) = "definition"
    BY <2>2 DEF Textile!TypeOf
  <2> QED
    BY <1>1, <1>7, <1>8, <1>9, <2>1, <2>2, <2>3 DEF line, s
<1>11. CASE ~s.definition
  <2>1. line.markers = s.markers /\ ~line.definition /\ s.lead = "list" /\ s.text
    BY <1>2, <1>4, <1>6, <1>11
  <2>2. s.markers \in Seq({"*", "#"}) /\ s.markers # << >>
    BY <1>6, <2>1
  <2>3. s.markers \in Seq(Marker)
    <3>1. \A n \in 1 .. Len(s.markers) : s.markers[n] \in Marker
      BY <2>2, ElementOfSeq DEF Marker
    <3>2. Len(s.markers) \in Nat /\ s.markers \in [1 .. Len(s.markers) -> {"*", "#"}]
      BY <2>2, LenProperties
    <3>3. s.markers \in [1 .. Len(s.markers) -> Marker]
      BY <3>1, <3>2
    <3> QED
      BY <3>2, <3>3, SeqDef
  <2>4. MediaWiki!TypeOf(Last(s.markers)) = Textile!TypeOf(s.markers[Len(s.markers)])
    <3> DEFINE m == s.markers[Len(s.markers)]
    <3>1. Len(s.markers) \in Nat \ {0}
      BY <2>2, EmptySeq
    <3>2. m \in {"*", "#"}
      BY <2>2, <3>1, ElementOfSeq
    <3>3. Last(s.markers) = m
      BY DEF Last
    <3> HIDE DEF m
    <3>4. MediaWiki!TypeOf(m) = Textile!TypeOf(m)
      BY <3>2 DEF MediaWiki!TypeOf, Textile!TypeOf
    <3> QED
      BY <3>3, <3>4 DEF m
  <2> QED
    BY <1>1, <1>7, <1>8, <2>1, <2>2, <2>3, <2>4 DEF line, s
<1> QED
  BY <1>10, <1>11

\* A pair is one element behind another.
LEMMA Pair ==
    ASSUME NEW T, NEW x \in T, NEW y \in T
    PROVE  <<x>> \o <<y>> = <<x, y>>
<1> DEFINE s == <<x>> \o <<y>>
           t == <<x, y>>
<1>1. s \in Seq(T) /\ t \in Seq(T) /\ Len(s) = Len(t) /\ Len(t) = 2 /\ s[1] = t[1] /\ s[2] = t[2]
  BY ConcatProperties
<1> HIDE DEF s, t
<1>2. \A k \in 1 .. Len(s) : s[k] = t[k]
  BY <1>1
<1>3. s = t
  BY <1>1, <1>2, SeqEqual
<1> QED
  BY <1>3 DEF s, t

\* The rows of an item have its texts, the term's first.
LEMMA ItemRowsAre ==
    ASSUME IsSource, ItemsHaveText, NEW here, ReadingAt(here), Textile!Line.kind = "LIST_ITEM"
    PROVE  LET line == Textile!Line
               M == Len(line.markers)
           IN  /\ ItemRows(line) \in Seq(TextileRow)
               /\ RowsOf(ItemRows(line), here, here)
               /\ line.definition => \E r, t : ItemRows(line) = <<r>> \o <<t>>
                                               /\ IsItem(r, 2 * M, "term", line.term)
                                               /\ IsItem(t, 2 * M, "definition", line.text)
               /\ ~line.definition => \E r : ItemRows(line) = <<r>> /\ IsItem(r, 2 * M, "", line.text)
<1> DEFINE line == Textile!Line
           M == Len(line.markers)
           level == 2 * M
           term == Textile!ItemOf(level, "term", line.term)
           definition == Textile!ItemOf(level, "definition", line.text)
           only == Textile!ItemOf(level, "", line.text)
<1>1. /\ here \in Nat \ {0} /\ line.markers \in Seq(Marker) /\ line.markers # << >>
      /\ From(line.text, here, here)
      /\ line.definition => /\ From(line.term, here, here) /\ Range(line.term) \subseteq {TermOf(here)}
                            /\ Range(line.text) \subseteq {TextOf(here)}
  BY ItemLine
<1>2. ItemRows(line) = IF line.definition THEN <<term, definition>> ELSE <<only>>
  BY DEF ItemRows
<1>3. M \in Nat /\ level \in Nat
  <2>1. M \in Nat
    BY <1>1, LenProperties
  <2> QED
    BY <2>1
<1> HIDE DEF line, M, level, term, definition, only
<1>4. ASSUME NEW r, NEW role, NEW text, IsItem(r, level, role, text), From(text, here, here)
      PROVE  r \in TextileRow /\ RowsOf(<<r>>, here, here)
  <2>1. /\ r \in TextileRow /\ r.type = "list_item" /\ r.text = text /\ r.style = 0 /\ r.cells = << >>
    BY <1>4 DEF IsItem
  <2>2. DOMAIN r.cells = {}
    BY <2>1
  <2>3. CellsWhole(r) /\ RunsOn(r)
    BY <2>1, <2>2 DEF CellsWhole, RunsOn
  <2>4. RowIn(r, here, here)
    BY <1>4, <2>1, <2>3 DEF RowIn, From
  <2> QED
    BY <1>1, <2>1, <2>4, OneRow
<1>5. \A text \in Seq(Nat \ {0}) : /\ IsItem(Textile!ItemOf(level, "", text), level, "", text)
                                   /\ IsItem(Textile!ItemOf(level, "term", text), level, "term", text)
                                   /\ IsItem(Textile!ItemOf(level, "definition", text), level, "definition", text)
  BY <1>3, ItemRowIs
<1>6. CASE line.definition
  <2>1. /\ IsItem(term, level, "term", line.term) /\ IsItem(definition, level, "definition", line.text)
    BY <1>1, <1>5, <1>6 DEF From, term, definition
  <2>2. /\ term \in TextileRow /\ definition \in TextileRow
        /\ RowsOf(<<term>>, here, here) /\ RowsOf(<<definition>>, here, here)
    BY <1>1, <1>4, <1>6, <2>1
  <2>3. Before(term, definition)
    <3>1. term.text = line.term /\ definition.text = line.text /\ term.style = 0
      BY <2>1 DEF IsItem
    <3>2. TermOf(here) < TextOf(here)
      BY <1>1, TextsOfLines
    <3> QED
      BY <1>1, <1>6, <3>1, <3>2 DEF Before
  <2>4. <<term, definition>> = <<term>> \o <<definition>>
    BY <2>2, Pair
  <2>5. \A m \in DOMAIN <<term>>, n \in DOMAIN <<definition>> : Before(<<term>>[m], <<definition>>[n])
    BY <2>3
  <2> DEFINE R == <<term>>
             N == <<definition>>
  <2>6. RowsOf(R, here, here) /\ RowsOf(N, here, here) /\ \A m \in DOMAIN R, n \in DOMAIN N : Before(R[m], N[n])
    BY <2>2, <2>5
  <2> HIDE DEF R, N
  <2>7. RowsOf(R \o N, here, here)
    BY <1>1, <2>6, RowsJoined
  <2>8. ItemRows(line) = R \o N
    BY <1>2, <1>6, <2>4 DEF R, N
  <2>9. ItemRows(line) \in Seq(TextileRow)
    BY <2>7, <2>8 DEF RowsOf
  <2> QED
    BY <1>6, <2>1, <2>7, <2>8, <2>9 DEF R, N, level, M, line
<1>7. CASE ~line.definition
  <2>1. IsItem(only, level, "", line.text)
    BY <1>1, <1>5 DEF From, only
  <2>2. only \in TextileRow /\ RowsOf(<<only>>, here, here)
    BY <1>1, <1>4, <2>1
  <2>3. ItemRows(line) = <<only>>
    BY <1>2, <1>7
  <2>4. ItemRows(line) \in Seq(TextileRow)
    BY <2>2, <2>3
  <2> QED
    BY <1>7, <2>1, <2>2, <2>3, <2>4 DEF level, M, line
<1> QED
  BY <1>6, <1>7

\* The lists that an item opens hold no texts, and neither has a style.
LEMMA ItemTexts ==
    ASSUME IsSource, ItemsHaveText, NEW here, ReadingAt(here), Textile!Line.kind = "LIST_ITEM",
           NEW b, TextsGood(b, here), b.para = << >>, b.open \in Seq(Marker)
    PROVE  TextsGood(Textile!ListItem(b, Textile!Line), here + 1)
<1> DEFINE line == Textile!Line
           L == ListsOf(b.open, line.markers)
           rows2 == ItemRows(line)
           N == L \o rows2
           c == Textile!ListItem(b, line)
<1>1. here \in Nat \ {0} /\ here \in Nat /\ line.markers \in Seq(Marker) /\ ~IsProse(here)
  BY ItemLine
<1>2. /\ L \in Seq(TextileRow)
      /\ \A n \in DOMAIN L : /\ L[n] \in TextileRow /\ L[n].type = "list" /\ L[n].text = << >> /\ L[n].style = 0
                             /\ L[n].cells = << >>
  <2> DEFINE open == b.open
             markers == line.markers
             lists == ListsOf(open, markers)
             size == Len(markers) - CommonOf(open, markers)
  <2>1. open \in Seq(Marker) /\ markers \in Seq(Marker) /\ L = lists
    BY <1>1
  <2> HIDE DEF open, markers, L
  <2>2. /\ lists \in Seq(TextileRow) /\ DOMAIN lists = 1 .. size
        /\ \A n \in 1 .. size : IsList(lists[n], 2 * (CommonOf(open, markers) + n) - 1,
                                       Textile!TypeOf(markers[CommonOf(open, markers) + n]))
    BY <2>1, ListsAre
  <2> QED
    BY <2>1, <2>2 DEF IsList
<1>3. rows2 \in Seq(TextileRow) /\ RowsOf(rows2, here, here)
  BY ItemRowsAre
<1>4. IsBuilder(b) /\ b.blocks \in Seq(TextileRow)
  BY DEF TextsGood, RowsOf
<1>5. /\ IsBuilder(c) /\ c.para = b.para /\ c.pending_style = b.pending_style
      /\ c.blocks = (b.blocks \o L) \o rows2
  BY <1>2, <1>3, <1>4, ListItemIs
<1> HIDE DEF c, L, rows2, line
<1>6. c.blocks = b.blocks \o N
  <2> DEFINE s == b.blocks
  <2>1. s \in Seq(TextileRow) /\ L \in Seq(TextileRow) /\ rows2 \in Seq(TextileRow) /\ c.blocks = (s \o L) \o rows2
    BY <1>2, <1>3, <1>4, <1>5
  <2> HIDE DEF s
  <2>2. (s \o L) \o rows2 = s \o (L \o rows2)
    BY <2>1, ConcatAssociative
  <2> QED
    BY <2>1, <2>2 DEF s
<1>7. Range(<< >>) = {}
  BY DEF Range
<1>8. RowsOf(L, here, here)
  <2>1. ASSUME NEW n \in DOMAIN L PROVE RowIn(L[n], here, here)
    <3>1. DOMAIN L[n].cells = {}
      BY <1>2
    <3>2. CellsWhole(L[n]) /\ RunsOn(L[n])
      BY <1>2, <3>1 DEF CellsWhole, RunsOn
    <3> QED
      BY <1>2, <1>7, <3>2 DEF RowIn
  <2>2. InOrder(L) /\ StylesOwn(L)
    BY <1>2, <1>7 DEF InOrder, StylesOwn
  <2> QED
    BY <1>2, <2>1, <2>2 DEF RowsOf
<1>9. \A m \in DOMAIN L, n \in DOMAIN rows2 : Before(L[m], rows2[n])
  BY <1>2, <1>7 DEF Before
<1>10. RowsOf(N, here, here)
  BY <1>1, <1>3, <1>8, <1>9, RowsJoined
<1> HIDE DEF N
<1>11. here <= here /\ \A n \in here .. here : ~IsProse(n)
  BY <1>1
<1>12. c.para = << >>
  BY <1>5
<1>13. TextsGood(c, here + 1)
  BY <1>1, <1>5, <1>6, <1>10, <1>11, <1>12, EmitKeeps
<1> QED
  BY <1>13 DEF c, line

\* The item hangs under the list of its depth that its marker names.
LEMMA ItemLists ==
    ASSUME IsSource, ItemsHaveText, NEW here, ReadingAt(here), Textile!Line.kind = "LIST_ITEM",
           NEW b, IsBuilder(b), ListsGood(b), b.para = << >>
    PROVE  ListsGood(Textile!ListItem(b, Textile!Line))
<1> DEFINE line == Textile!Line
           markers == line.markers
           L == ListsOf(b.open, markers)
           R == b.blocks \o L
           M == Len(markers)
           c == Textile!ListItem(b, line)
<1>1. /\ here \in Nat \ {0} /\ markers \in Seq(Marker) /\ markers # << >>
      /\ line.definition => Textile!TypeOf(markers[M]) = "definition"
      /\ ~line.definition => /\ source[here].lead = "list" /\ line.text = <<TextOf(here)>>
                             /\ MediaWiki!TypeOf(Last(source[here].markers)) = Textile!TypeOf(markers[M])
  BY ItemLine
<1>2. b.blocks \in Seq(TextileRow) /\ Listed(b.blocks) /\ b.open \in Seq(Marker) /\ Opened(b.blocks, b.open)
  BY DEF ListsGood
<1>3. L \in Seq(TextileRow)
  BY <1>1, <1>2, ListsAre
<1>4. R \in Seq(TextileRow) /\ Listed(R) /\ Opened(R, markers)
  BY <1>1, <1>2, ListsOpen
<1>5. ItemRows(line) \in Seq(TextileRow)
      /\ (line.definition => \E r, t : ItemRows(line) = <<r>> \o <<t>>
                                       /\ IsItem(r, 2 * M, "term", line.term)
                                       /\ IsItem(t, 2 * M, "definition", line.text))
      /\ (~line.definition => \E r : ItemRows(line) = <<r>> /\ IsItem(r, 2 * M, "", line.text))
  BY ItemRowsAre
<1>6. IsBuilder(c) /\ c.open = markers /\ c.para = << >> /\ c.blocks = R \o ItemRows(line)
  BY <1>2, <1>3, <1>5, ListItemIs
<1> HIDE DEF line, markers, R, M, c
<1>7. ASSUME R \o ItemRows(line) \in Seq(TextileRow), Listed(R \o ItemRows(line)), Opened(R \o ItemRows(line), markers)
      PROVE  ListsGood(c)
  BY <1>1, <1>6, <1>7 DEF ListsGood
<1>8. ASSUME line.definition PROVE ListsGood(c)
  <2>1. PICK r, t : /\ ItemRows(line) = <<r>> \o <<t>>
                    /\ IsItem(r, 2 * M, "term", line.term) /\ IsItem(t, 2 * M, "definition", line.text)
    BY <1>5, <1>8
  <2>2. /\ r \in TextileRow /\ r.type = "list_item" /\ r.level = 2 * M /\ r.role = "term"
        /\ t \in TextileRow /\ t.type = "list_item" /\ t.level = 2 * M /\ t.role = "definition"
    BY <2>1 DEF IsItem
  <2>3. IsOfLine(r) /\ NamedType(r) = "definition" /\ IsOfLine(t) /\ NamedType(t) = "definition"
    BY <2>2 DEF IsOfLine, NamedType
  <2>4. R \o <<r>> \in Seq(TextileRow) /\ Listed(R \o <<r>>) /\ Opened(R \o <<r>>, markers)
    BY <1>1, <1>4, <1>8, <2>2, <2>3, ItemHangs DEF M
  <2> DEFINE J == R \o <<r>>
  <2> HIDE DEF J
  <2>5. J \o <<t>> \in Seq(TextileRow) /\ Listed(J \o <<t>>) /\ Opened(J \o <<t>>, markers)
    <3>1. J \in Seq(TextileRow) /\ Listed(J) /\ Opened(J, markers)
      BY <2>4 DEF J
    <3> QED
      BY <1>1, <1>8, <2>2, <2>3, <3>1, ItemHangs DEF M
  <2>6. J \o <<t>> = R \o ItemRows(line)
    <3> DEFINE u == <<r>>
               v == <<t>>
    <3>1. u \in Seq(TextileRow) /\ v \in Seq(TextileRow) /\ ItemRows(line) = u \o v /\ J = R \o u
      BY <2>1, <2>2 DEF J
    <3> HIDE DEF u, v
    <3>2. (R \o u) \o v = R \o (u \o v)
      BY <1>4, <3>1, ConcatAssociative
    <3> QED
      BY <3>1, <3>2 DEF v
  <2>7. /\ R \o ItemRows(line) \in Seq(TextileRow) /\ Listed(R \o ItemRows(line))
        /\ Opened(R \o ItemRows(line), markers)
    BY <2>5, <2>6
  <2> QED
    BY <1>7, <2>7
<1>9. ASSUME ~line.definition PROVE ListsGood(c)
  <2>1. PICK r : ItemRows(line) = <<r>> /\ IsItem(r, 2 * M, "", line.text)
    BY <1>5, <1>9
  <2>2. r \in TextileRow /\ r.type = "list_item" /\ r.level = 2 * M /\ r.role = "" /\ r.text = <<TextOf(here)>>
    BY <1>1, <1>9, <2>1 DEF IsItem
  <2>3. LineOf(r.text[1]) = here
    <3> DEFINE t == TextOf(here)
    <3>1. r.text[1] = t
      <4>1. r.text = <<t>>
        BY <2>2
      <4> HIDE DEF t
      <4> QED
        BY <4>1
    <3> QED
      BY <1>1, <3>1, TextsOfLines
  <2>4. IsOfLine(r) /\ NamedType(r) = Textile!TypeOf(markers[M])
    BY <1>1, <1>9, <2>2, <2>3 DEF IsOfLine, NamedType
  <2>5. R \o <<r>> \in Seq(TextileRow) /\ Listed(R \o <<r>>) /\ Opened(R \o <<r>>, markers)
    BY <1>1, <1>4, <2>2, <2>4, ItemHangs DEF M
  <2>6. /\ R \o ItemRows(line) \in Seq(TextileRow) /\ Listed(R \o ItemRows(line))
        /\ Opened(R \o ItemRows(line), markers)
    BY <2>1, <2>5
  <2> QED
    BY <1>7, <2>6
<1>10. ListsGood(c)
  BY <1>8, <1>9
<1> QED
  BY <1>10 DEF c, line

-----------------------------------------------------------------------------
(* What is said of a source stays true of it.                              *)

\* What is said of the lines of a source, when it stays the same.
LEMMA SaysTheSame ==
    ASSUME source' = source
    PROVE  /\ \A n : Textile!LastLineOf(n)' = Textile!LastLineOf(n)
           /\ \A n : Textile!ScannedLine(n)' = Textile!ScannedLine(n)
           /\ \A n : LostInListing(n)' = LostInListing(n)
           /\ \A n : IsProse(n)' = IsProse(n)
           /\ \A n : HtmlAround(n)' = HtmlAround(n)
<1>1. \A n : Textile!LastLineOf(n)' = Textile!LastLineOf(n)
  BY DEF Textile!LastLineOf
<1>2. \A n : HtmlAround(n)' = HtmlAround(n)
  BY <1>1 DEF HtmlAround
<1>3. \A n : LostInListing(n)' = LostInListing(n)
  BY <1>2 DEF LostInListing
<1>4. \A n : Textile!Trimmed(n)' = Textile!Trimmed(n) /\ Textile!Whole(n)' = Textile!Whole(n)
  BY DEF Textile!Trimmed, Textile!Whole, Textile!Written
<1>5. \A n, m : Textile!TrimmedLines(n, m)' = Textile!TrimmedLines(n, m)
  BY <1>4 DEF Textile!TrimmedLines
<1>6. \A n : Textile!ScannedLine(n)' = Textile!ScannedLine(n)
  BY <1>1, <1>4, <1>5 DEF Textile!ScannedLine
<1>7. \A n : IsProse(n)' = IsProse(n)
  BY DEF IsProse
<1> QED
  BY <1>1, <1>2, <1>3, <1>6, <1>7

\* What the scanner has made of them.
LEMMA ScannedSame ==
    ASSUME source' = source, lines' = lines
    PROVE  \A first, m : Scanning(first, m)' <=> Scanning(first, m)
  BY SaysTheSame DEF Scanning, ScannedLines

\* And what the Builder holds of them.
LEMMA GoodSame ==
    ASSUME source' = source
    PROVE  \A b, here : /\ TextsGood(b, here)' <=> TextsGood(b, here)
                        /\ ListsGood(b)' <=> ListsGood(b)
<1>1. \A r : RunsOn(r)' <=> RunsOn(r)
  BY DEF RunsOn
<1>2. \A r, a, b : RowIn(r, a, b)' <=> RowIn(r, a, b)
  BY <1>1 DEF RowIn
<1>3. \A R : StylesOwn(R)' <=> StylesOwn(R)
  BY DEF StylesOwn
<1>4. \A R, a, b : RowsOf(R, a, b)' <=> RowsOf(R, a, b)
  BY <1>2, <1>3 DEF RowsOf
<1>5. \A R, para, a, b : ProseIn(R, para, a, b)' <=> ProseIn(R, para, a, b)
  BY SaysTheSame DEF ProseIn
<1>6. \A R, para, style, here : ParaOpen(R, para, style, here)' <=> ParaOpen(R, para, style, here)
  BY DEF ParaOpen
<1>7. \A b, here : TextsGood(b, here)' <=> TextsGood(b, here)
  BY <1>4, <1>5, <1>6 DEF TextsGood
<1>8. \A r : NamedType(r)' = NamedType(r)
  BY DEF NamedType
<1>9. \A r : IsOfLine(r)' <=> IsOfLine(r)
  BY DEF IsOfLine
<1>10. \A R, n : ItemGood(R, n)' <=> ItemGood(R, n)
  BY <1>8, <1>9 DEF ItemGood
<1>11. \A R : Listed(R)' <=> Listed(R)
  BY <1>10 DEF Listed
<1>12. \A b : ListsGood(b)' <=> ListsGood(b)
  BY <1>11 DEF ListsGood
<1> QED
  BY <1>7, <1>12

\* The scanner's next line is made of the next lines of the source.
LEMMA ScanStep ==
    ASSUME IsSource, NEW first, Scanning(first, i), i <= Len(source), source' = source,
           lines' = Append(lines, Textile!ScannedLine(i)), NEW next, next = Textile!LastLineOf(i) + 1
    PROVE  /\ \E f : Scanning(f, next)'
           /\ next \in 1 .. Len(source) + 1
<1> DEFINE l == Len(lines)
           line == Textile!ScannedLine(i)
<1>0. PICK f : f = [k \in 1 .. l + 2 |-> IF k <= l + 1 THEN first[k] ELSE next]
  OBVIOUS
<1>1. lines \in Seq(ScannedLines) /\ l \in Nat /\ Len(source) \in Nat /\ DOMAIN source = 1 .. Len(source)
  BY LenProperties DEF Scanning, IsSource
<1>2. /\ first \in [1 .. l + 1 -> Nat] /\ first[1] = 1 /\ first[l + 1] = i
      /\ \A k \in 1 .. l : /\ first[k] \in DOMAIN source
                           /\ lines[k] = Textile!ScannedLine(first[k])
                           /\ first[k + 1] = Textile!LastLineOf(first[k]) + 1
      /\ \A j \in 1 .. l : first[j] < first[j + 1]
  BY <1>1 DEF Scanning, Rising
<1>3. i \in Nat /\ i \in DOMAIN source
  <2>1. l + 1 \in 1 .. l + 1 /\ 1 \in 1 .. l + 1
    BY <1>1
  <2>2. i \in Nat
    BY <1>2, <2>1
  <2>3. i >= 1
    <3>1. 1 = l + 1 \/ 1 < l + 1
      BY <1>1
    <3>2. 1 < l + 1 => first[1] < first[l + 1]
      BY <2>1, ScannedInOrder DEF l
    <3> QED
      BY <1>2, <2>2, <3>1, <3>2
  <2> QED
    BY <1>1, <2>2, <2>3
<1>4. next \in Nat /\ i < next /\ next \in 1 .. Len(source) + 1
  <2>1. Textile!LastLineOf(i) \in i .. Len(source) /\ i \in Nat \ {0}
    BY <1>3, LastLineIs
  <2> QED
    BY <1>1, <2>1
<1>5. line \in ScannedLines
  BY <1>3 DEF ScannedLines
<1>6. /\ lines' \in Seq(ScannedLines) /\ Len(lines') = l + 1
      /\ \A k \in 1 .. l : lines'[k] = lines[k]
      /\ lines'[l + 1] = line
  BY <1>1, <1>5, AppendProperties
<1> HIDE DEF l, line
<1>7. f \in [1 .. l + 2 -> Nat]
  <2>1. \A k \in 1 .. l + 2 : (IF k <= l + 1 THEN first[k] ELSE next) \in Nat
    <3> TAKE k \in 1 .. l + 2
    <3>1. k <= l + 1 => k \in 1 .. l + 1
      BY <1>1
    <3> QED
      BY <1>2, <1>4, <3>1
  <2> QED
    BY <1>0, <2>1
<1>8. /\ \A k \in 1 .. l + 1 : f[k] = first[k]
      /\ f[l + 2] = next
  BY <1>0, <1>1
<1>9. f[1] = 1 /\ f[l + 1] = i
  BY <1>1, <1>2, <1>8
<1>10. \A k \in 1 .. l : f[k] = first[k] /\ f[k + 1] = first[k + 1]
  <2> TAKE k \in 1 .. l
  <2>1. k \in 1 .. l + 1 /\ k + 1 \in 1 .. l + 1
    BY <1>1
  <2> QED
    BY <1>8, <2>1
<1>11. \A k \in 1 .. l + 1 :
          /\ f[k] < f[k + 1] /\ f[k] \in DOMAIN source /\ lines'[k] = Textile!ScannedLine(f[k])
          /\ f[k + 1] = Textile!LastLineOf(f[k]) + 1
  <2>1. ASSUME NEW k \in 1 .. l
        PROVE  /\ f[k] < f[k + 1] /\ f[k] \in DOMAIN source /\ lines'[k] = Textile!ScannedLine(f[k])
               /\ f[k + 1] = Textile!LastLineOf(f[k]) + 1
    BY <1>2, <1>6, <1>10, <2>1
  <2>2. /\ f[l + 1] < f[(l + 1) + 1] /\ f[l + 1] \in DOMAIN source
        /\ lines'[l + 1] = Textile!ScannedLine(f[l + 1])
        /\ f[(l + 1) + 1] = Textile!LastLineOf(f[l + 1]) + 1
    <3>1. (l + 1) + 1 = l + 2
      BY <1>1
    <3> QED
      BY <1>3, <1>4, <1>6, <1>8, <1>9, <3>1 DEF line
  <2>3. \A k \in 1 .. l + 1 : k \in 1 .. l \/ k = l + 1
    BY <1>1
  <2> QED
    BY <2>1, <2>2, <2>3
<1>12. Rising(f, Len(lines') + 1)
  <2>1. Len(lines') + 1 = l + 2 /\ (l + 2) - 1 = l + 1
    BY <1>1, <1>6
  <2> QED
    BY <1>7, <1>11, <2>1 DEF Rising
<1>13. Scanning(f, next)'
  <2>1. Len(lines') + 1 = l + 2 /\ ScannedLines' = ScannedLines /\ DOMAIN source' = DOMAIN source
    BY <1>1, <1>6, SaysTheSame DEF ScannedLines
  <2>2. 1 .. Len(lines') = 1 .. l + 1 /\ f[Len(lines') + 1] = next
    BY <1>6, <1>8, <2>1
  <2>3. \A k \in 1 .. Len(lines') :
           /\ f[k] \in DOMAIN source' /\ lines'[k] = Textile!ScannedLine(f[k])'
           /\ f[k + 1] = Textile!LastLineOf(f[k])' + 1
    BY <1>11, <2>1, <2>2, SaysTheSame
  <2>4. lines' \in Seq(ScannedLines')
    BY <1>6, <2>1
  <2> QED
    BY <1>9, <1>12, <2>2, <2>3, <2>4 DEF Scanning
<1> QED
  BY <1>4, <1>13

-----------------------------------------------------------------------------
(* The lists, when the line is no item.                                    *)

\* Without a list open, rows that are no items leave every item in its list.
LEMMA RowsLists ==
    ASSUME NEW b, ListsGood(b), b.open = << >>,
           NEW N \in Seq(TextileRow), \A n \in DOMAIN N : N[n].type # "list_item",
           NEW c, c.blocks = b.blocks \o N, c.open = << >>
    PROVE  ListsGood(c)
<1> DEFINE R == b.blocks
<1>1. R \in Seq(TextileRow) /\ Listed(R)
  BY DEF ListsGood
<1> HIDE DEF R
<1>2. Listed(R \o N) /\ R \o N \in Seq(TextileRow)
  BY <1>1, ListedBehind, ConcatProperties
<1>3. << >> \in Seq(Marker) /\ Len(<< >>) = 0
  BY EmptySeq
<1>4. Opened(c.blocks, c.open)
  BY <1>3 DEF Opened
<1> QED
  BY <1>2, <1>3, <1>4 DEF ListsGood, R

\* What closes the lists, or has closed them, is good whatever paragraph it has.
LEMMA NoLists ==
    ASSUME NEW b, ListsGood(b), NEW c, c.blocks = b.blocks, c.open = << >>
    PROVE  ListsGood(c)
<1>1. << >> \in Seq(Marker) /\ Len(<< >>) = 0
  BY EmptySeq
<1>2. Opened(c.blocks, c.open)
  BY <1>1 DEF Opened
<1> QED
  BY <1>1, <1>2 DEF ListsGood

\* The paragraph that Flush emits is no item, and no list is open when there is one.
LEMMA FlushLists ==
    ASSUME NEW b, NEW here, TextsGood(b, here), ListsGood(b)
    PROVE  ListsGood(Textile!Flush(b))
<1> DEFINE c == Textile!Flush(b)
           r == ParaRow(b)
           N == <<r>>
<1>1. /\ r \in TextileRow
      /\ IsBuilder(b) /\ b.blocks \in Seq(TextileRow)
  BY ParaAsRow DEF TextsGood, RowsOf
<1>2. r.type = "paragraph"
  BY DEF ParaRow, StyledRow, Textile!Row
<1>3. /\ c.open = b.open
      /\ b.para = << >> => c = b
      /\ b.para # << >> => c.blocks = b.blocks \o N
  BY <1>1, FlushIs
<1>4. N \in Seq(TextileRow) /\ \A n \in DOMAIN N : N[n].type # "list_item"
  BY <1>1, <1>2
<1> HIDE DEF c, N
<1>5. CASE b.para # << >>
  <2>1. b.open = << >>
    BY <1>5 DEF ListsGood
  <2> QED
    BY <1>3, <1>4, <1>5, <2>1, RowsLists DEF c
<1> QED
  BY <1>3, <1>5 DEF c

\* With the paragraph and the lists closed every item is where it was.
LEMMA ClosedLists ==
    ASSUME NEW here, TextsGood(builder, here), ListsGood(builder)
    PROVE  ListsGood(Textile!Closed)
<1> DEFINE f == Textile!Flush(builder)
           c == Textile!Closed
<1>1. ListsGood(f)
  BY FlushLists
<1>2. c.open = << >> /\ c.blocks = f.blocks
  BY ClosedKeeps
<1> HIDE DEF f, c
<1> QED
  BY <1>1, <1>2, NoLists DEF c

\* A row that is no item, emitted when all is closed.
LEMMA EmittedLists ==
    ASSUME NEW here, TextsGood(builder, here), ListsGood(builder), NEW row, row.type # "list_item",
           NEW next, TextsGood(Textile!Emitted(Textile!Closed, row), next)
    PROVE  ListsGood(Textile!Emitted(Textile!Closed, row))
<1> DEFINE b == Textile!Closed
           c == Textile!Emitted(b, row)
           N == <<row>>
<1>1. /\ ListsGood(b) /\ IsBuilder(b) /\ b.open = << >> /\ b.blocks \in Seq(TextileRow)
      /\ c.blocks \in Seq(TextileRow)
  BY ClosedLists, ClosedKeeps DEF TextsGood, RowsOf
<1> HIDE DEF b
<1>2. row \in TextileRow
  <2> DEFINE R == b.blocks
             S == TextileRow \cup {row}
             J == Append(R, row)
  <2>1. c = [b EXCEPT !.blocks = J]
    BY DEF Textile!Emitted
  <2>2. R \in Seq(TextileRow) /\ J \in Seq(TextileRow)
    <3>1. c.blocks = J
      <4> HIDE DEF c, J
      <4> QED
        BY <1>1, <2>1 DEF IsBuilder
    <3> QED
      BY <1>1, <3>1
  <2> HIDE DEF R, c
  <2>3. R \in Seq(S) /\ row \in S
    BY <2>2, ElementOfSeq, LenProperties, SeqDef
  <2> HIDE DEF S
  <2>4. Len(J) = Len(R) + 1 /\ J[Len(R) + 1] = row /\ Len(R) \in Nat
    BY <2>3, AppendProperties, LenProperties
  <2> HIDE DEF J
  <2>5. Len(R) + 1 \in 1 .. Len(J)
    BY <2>4
  <2> QED
    BY <2>2, <2>4, <2>5, ElementOfSeq
<1>3. c.blocks = b.blocks \o N /\ c.open = b.open
  BY <1>1, <1>2, EmittedIs
<1>4. N \in Seq(TextileRow) /\ \A n \in DOMAIN N : N[n].type # "list_item"
  BY <1>2
<1> HIDE DEF c, N
<1>5. ListsGood(c)
  BY <1>1, <1>3, <1>4, RowsLists
<1> QED
  BY <1>5 DEF c, b

-----------------------------------------------------------------------------
(* One line of the Textile reader, whichever it is.                        *)

\* The Builder has read the lines of the source before first[k].
GoodAt(first, b, k) ==
    k \in 1 .. Len(lines) + 1 /\ TextsGood(b, first[k]) /\ ListsGood(b)

\* The iteration goes on at line k with b, which holds what was read.
GoesOn(first) ==
    /\ UNCHANGED <<format, source, phase, lines, rows>>
    /\ \E b, k : builder' = b /\ i' = k /\ GoodAt(first, b, k)

\* The line that is read, and where the next one is.
LEMMA LineAt ==
    ASSUME IsSource, NEW first, NEW m, Scanning(first, m), NEW k, i = k, k \in 1 .. Len(lines)
    PROVE  /\ ReadingAt(first[k]) /\ Textile!Line = lines[k]
           /\ Textile!LastLineOf(first[k]) + 1 = first[k + 1]
           /\ Textile!Line.kind # "HTML_BLOCK" => first[k] + 1 = first[k + 1]
           /\ k \in Nat /\ Len(lines) \in Nat /\ k + 1 \in 1 .. Len(lines) + 1
<1>1. Textile!Line = lines[k]
  BY DEF Textile!Line
<1>2. /\ Len(lines) \in Nat /\ k + 1 \in 1 .. Len(lines) + 1
      /\ first[k] \in Nat \ {0} /\ first[k + 1] \in Nat
      /\ first[k] \in DOMAIN source /\ lines[k] = Textile!ScannedLine(first[k])
      /\ first[k + 1] - 1 = Textile!LastLineOf(first[k])
      /\ lines[k].kind # "HTML_BLOCK" => first[k + 1] - 1 = first[k]
  BY ScannedAt
<1> DEFINE n == first[k]
           next == first[k + 1]
<1>3. n \in Nat /\ next \in Nat /\ next - 1 = Textile!LastLineOf(n)
      /\ (lines[k].kind # "HTML_BLOCK" => next - 1 = n)
  BY <1>2
<1> HIDE DEF n, next
<1>4. Textile!LastLineOf(n) + 1 = next /\ (lines[k].kind # "HTML_BLOCK" => n + 1 = next)
  BY <1>3
<1> QED
  BY <1>1, <1>2, <1>4 DEF ReadingAt, n, next

\* A quote is two rows, neither of them an item.
LEMMA QuoteLists ==
    ASSUME IsSource, NEW here, ReadingAt(here), TextsGood(builder, here), ListsGood(builder),
           Textile!Line.kind = "BLOCKQUOTE"
    PROVE  ListsGood(Textile!AllEmitted(Textile!Closed,
                                        <<Textile!Styled(Textile!Row("blockquote", 1, << >>)),
                                          Textile!Row("paragraph", 2, Textile!Line.text)>>))
<1> DEFINE text == Textile!Line.text
           style == Textile!Line.style
           quote == Textile!Styled(Textile!Row("blockquote", 1, << >>))
           para == Textile!Row("paragraph", 2, text)
           N == <<quote, para>>
           b == Textile!Closed
           c == Textile!AllEmitted(b, N)
<1>1. text \in Seq(Nat \ {0}) /\ style \in Nat
  <2>1. here \in Nat \ {0} /\ From(text, here, here) /\ style \in 0 .. here
    BY StyledLine
  <2> QED
    BY <2>1 DEF From
<1>2. quote \in TextileRow /\ para \in TextileRow
  <2> DEFINE q == "blockquote"
             p == "paragraph"
             none == << >>
  <2>1. q \in TextileType /\ p \in TextileType /\ none \in Seq(Nat \ {0})
    BY EmptySeq DEF TextileType
  <2>2. quote = StyledRow(q, 1, none, style)
    BY DEF Textile!Styled, StyledRow
  <2> HIDE DEF q, p, none, text, style, quote
  <2>3. IsRow(StyledRow(q, 1, none, style), q, 1, none, style)
    BY <1>1, <2>1, RowFields
  <2>4. IsRow(Textile!Row(p, 2, text), p, 2, text, 0)
    BY <1>1, <2>1, RowFields
  <2> QED
    BY <2>2, <2>3, <2>4 DEF IsRow, p
<1>3. quote.type = "blockquote" /\ para.type = "paragraph"
  BY DEF Textile!Styled, Textile!Row
<1> HIDE DEF quote, para
<1>4. N \in Seq(TextileRow) /\ \A n \in DOMAIN N : N[n].type # "list_item"
  BY <1>2, <1>3
<1>5. ListsGood(b) /\ IsBuilder(b) /\ b.open = << >>
  BY ClosedLists, ClosedKeeps DEF TextsGood
<1> HIDE DEF b, N
<1>6. c.blocks = b.blocks \o N /\ c.open = b.open
  BY <1>5, AllEmittedIs
<1> HIDE DEF c
<1>7. ListsGood(c)
  BY <1>4, <1>5, <1>6, RowsLists
<1> QED
  BY <1>7 DEF c, b, N, quote, para, text

\* A row's type is the one it is given, also when a style is.
LEMMA TypesAre ==
    /\ Textile!Styled(Textile!Row("heading", 1, Textile!Line.text)).type # "list_item"
    /\ \A text : Textile!Styled(Textile!Row("code", 1, text)).type # "list_item"
    /\ Textile!Row("raw", 1, Textile!Line.text).type # "list_item"
    /\ Textile!TableOf(i).type # "list_item"
<1>1. Textile!Styled(Textile!Row("heading", 1, Textile!Line.text)).type = "heading"
  BY DEF Textile!Styled, Textile!Row
<1>2. \A text : Textile!Styled(Textile!Row("code", 1, text)).type = "code"
  BY DEF Textile!Styled, Textile!Row
<1>3. Textile!Row("raw", 1, Textile!Line.text).type = "raw"
  BY DEF Textile!Row
<1>4. \A header, cells : Textile!Table(1, header, cells).type = "table"
  BY DEF Textile!Table, Textile!Row
<1>5. Textile!TableOf(i).type = "table"
  BY <1>4 DEF Textile!TableOf
<1> QED
  BY <1>1, <1>2, <1>3, <1>5

\* One step for each kind of line: what was good before line k is good before
\* the line that is read next.
LEMMA LineRead ==
    ASSUME IsSource, ItemsHaveText, NEW first, NEW m, Scanning(first, m), GoodAt(first, builder, i),
           \/ Textile!ReadBlank \/ Textile!ReadComment \/ Textile!ReadHeading \/ Textile!ReadQuote
           \/ Textile!ReadCode \/ Textile!ReadRaw \/ Textile!ReadItem \/ Textile!ReadTable
           \/ Textile!ReadPara \/ Textile!ReadText
    PROVE  phase = "build" /\ GoesOn(first)
<1> DEFINE line == Textile!Line
           here == first[i]
           next == first[i + 1]
<1>1. /\ phase = "build" /\ i \in 1 .. Len(lines)
      /\ UNCHANGED <<format, source, phase, lines, rows>>
  <2>1. i \in 1 .. Len(lines) + 1 /\ Len(lines) \in Nat
    BY LenProperties DEF GoodAt, Scanning
  <2>2. phase = "build" /\ i <= Len(lines) /\ UNCHANGED <<format, source, phase, lines, rows>>
    BY DEF Textile!ReadBlank, Textile!ReadComment, Textile!ReadHeading, Textile!ReadQuote, Textile!ReadCode,
       Textile!ReadRaw, Textile!ReadItem, Textile!ReadTable, Textile!ReadPara, Textile!ReadText,
       Textile!Reading, Textile!Consumed
  <2> QED
    BY <2>1, <2>2
<1>2. /\ ReadingAt(here) /\ line = lines[i]
      /\ Textile!LastLineOf(here) + 1 = next
      /\ line.kind # "HTML_BLOCK" => here + 1 = next
      /\ i \in Nat /\ Len(lines) \in Nat /\ i + 1 \in 1 .. Len(lines) + 1
  BY <1>1, LineAt
<1>3. TextsGood(builder, here) /\ ListsGood(builder)
  BY DEF GoodAt
<1> DEFINE closed == Textile!Closed
<1>4. TextsGood(closed, here) /\ ListsGood(closed) /\ closed.open = << >> /\ closed.para = << >>
  BY <1>3, ClosedKeeps, ClosedLists
<1>5. ASSUME NEW b, builder' = b, NEW k, i' = k, GoodAt(first, b, k)
      PROVE  GoesOn(first)
  BY <1>1, <1>5 DEF GoesOn
<1>6. ASSUME NEW b, builder' = b, i' = i + 1, TextsGood(b, here + 1), ListsGood(b), line.kind # "HTML_BLOCK"
      PROVE  GoesOn(first)
  <2>1. TextsGood(b, next)
    BY <1>2, <1>6
  <2>2. PICK k : k = i + 1
    OBVIOUS
  <2>3. GoodAt(first, b, k)
    BY <1>2, <1>6, <2>1, <2>2 DEF GoodAt
  <2> QED
    BY <1>5, <1>6, <2>2, <2>3
<1>7. ASSUME Textile!ReadBlank PROVE GoesOn(first)
  <2>1. line.kind = "BLANK" /\ builder' = closed /\ i' = i + 1
    BY <1>2, <1>7 DEF Textile!ReadBlank, Textile!Reading, Textile!Consumed
  <2>2. TextsGood(closed, here + 1)
    BY <1>2, <1>3, <2>1, BlankTexts
  <2> HIDE DEF closed, line, here
  <2> QED
    BY <1>4, <1>6, <2>1, <2>2
<1>8. ASSUME Textile!ReadComment PROVE GoesOn(first)
  <2> DEFINE c == Textile!Flush(builder)
  <2>1. line.kind = "COMMENT" /\ builder' = c /\ i' = i + 1
    BY <1>2, <1>8 DEF Textile!ReadComment, Textile!Reading, Textile!Consumed
  <2>2. TextsGood(c, here + 1) /\ ListsGood(c)
    BY <1>2, <1>3, <2>1, CommentTexts, FlushLists
  <2> HIDE DEF c, line, here
  <2> QED
    BY <1>6, <2>1, <2>2
<1>9. ASSUME Textile!ReadHeading PROVE GoesOn(first)
  <2> DEFINE row == Textile!Styled(Textile!Row("heading", 1, Textile!Line.text))
             c == Textile!Emitted(closed, row)
  <2>1. line.kind = "HEADING" /\ builder' = c /\ i' = i + 1
    BY <1>2, <1>9 DEF Textile!ReadHeading, Textile!Reading, Textile!Consumed
  <2>2. TextsGood(c, here + 1)
    BY <1>2, <1>3, <2>1, HeadingTexts
  <2>3. row.type # "list_item"
    BY TypesAre
  <2> HIDE DEF row
  <2>4. ListsGood(c)
    BY <1>3, <2>2, <2>3, EmittedLists
  <2> HIDE DEF c, line, here
  <2> QED
    BY <1>6, <2>1, <2>2, <2>4
<1>10. ASSUME Textile!ReadQuote PROVE GoesOn(first)
  <2> DEFINE c == Textile!AllEmitted(closed, <<Textile!Styled(Textile!Row("blockquote", 1, << >>)),
                                               Textile!Row("paragraph", 2, Textile!Line.text)>>)
  <2>1. line.kind = "BLOCKQUOTE" /\ builder' = c /\ i' = i + 1
    BY <1>2, <1>10 DEF Textile!ReadQuote, Textile!Reading, Textile!Consumed
  <2>2. TextsGood(c, here + 1) /\ ListsGood(c)
    BY <1>2, <1>3, <2>1, QuoteTexts, QuoteLists
  <2> HIDE DEF c, line, here
  <2> QED
    BY <1>6, <2>1, <2>2
<1>11. ASSUME Textile!ReadCode PROVE GoesOn(first)
  <2> DEFINE end == Textile!EndOfCode(i)
             rest == Textile!FlattenSeq([n \in 1 .. end - i - 1 |-> lines[i + n].raw])
             row == Textile!Styled(Textile!Row("code", 1, Textile!Line.text \o rest))
             c == Textile!Emitted(closed, row)
  <2>1. lines[i].kind = "CODE" /\ builder' = c /\ i' = (end - 1) + 1
    BY <1>2, <1>11 DEF Textile!ReadCode, Textile!Reading, Textile!Consumed
  <2>2. TextsGood(c, first[end]) /\ end \in i + 1 .. Len(lines) + 1
    BY <1>1, <1>3, <2>1, CodeTexts
  <2>3. row.type # "list_item"
    BY TypesAre
  <2> HIDE DEF row, end
  <2>4. ListsGood(c)
    BY <1>3, <2>2, <2>3, EmittedLists
  <2>5. i' = end /\ end \in 1 .. Len(lines) + 1
    BY <1>2, <2>1, <2>2
  <2>6. GoodAt(first, c, end)
    BY <2>2, <2>4, <2>5 DEF GoodAt
  <2> HIDE DEF c
  <2> QED
    BY <1>5, <2>1, <2>5, <2>6
<1>12. ASSUME Textile!ReadRaw PROVE GoesOn(first)
  <2> DEFINE row == Textile!Row("raw", 1, Textile!Line.text)
             c == Textile!Emitted(closed, row)
  <2>1. line.kind \in {"NOTEXTILE", "HTML_BLOCK"} /\ builder' = c /\ i' = i + 1
    BY <1>2, <1>12 DEF Textile!ReadRaw, Textile!Reading, Textile!Consumed
  <2>2. TextsGood(c, next)
    BY <1>2, <1>3, <2>1, RawTexts
  <2>3. row.type # "list_item"
    BY TypesAre
  <2> HIDE DEF row
  <2>4. ListsGood(c)
    BY <1>3, <2>2, <2>3, EmittedLists
  <2>5. PICK k : k = i + 1
    OBVIOUS
  <2>6. GoodAt(first, c, k)
    BY <1>2, <2>2, <2>4, <2>5 DEF GoodAt
  <2> HIDE DEF c
  <2> QED
    BY <1>5, <2>1, <2>5, <2>6
<1>13. ASSUME Textile!ReadItem PROVE GoesOn(first)
  <2> DEFINE f == Textile!Flush(builder)
             c == Textile!ListItem(f, Textile!Line)
  <2>1. line.kind = "LIST_ITEM" /\ builder' = c /\ i' = i + 1
    BY <1>2, <1>13 DEF Textile!ReadItem, Textile!Reading, Textile!Consumed
  <2>2. TextsGood(f, here) /\ f.para = << >> /\ ListsGood(f)
    BY <1>3, FlushKeeps, FlushLists
  <2>3. IsBuilder(f) /\ f.open \in Seq(Marker)
    BY <2>2 DEF TextsGood, ListsGood
  <2> HIDE DEF f
  <2>4. TextsGood(c, here + 1) /\ ListsGood(c)
    BY <1>2, <2>1, <2>2, <2>3, ItemTexts, ItemLists
  <2> HIDE DEF c, line, here
  <2> QED
    BY <1>6, <2>1, <2>4
<1>14. ASSUME Textile!ReadTable PROVE GoesOn(first)
  <2> DEFINE end == Textile!EndOfTable(i)
             row == Textile!TableOf(i)
             c == Textile!Emitted(closed, row)
  <2>1. lines[i].kind = "TABLE_ROW" /\ builder' = c /\ i' = (end - 1) + 1
    BY <1>2, <1>14 DEF Textile!ReadTable, Textile!Reading, Textile!Consumed
  <2>2. TextsGood(c, first[end]) /\ end \in i + 1 .. Len(lines) + 1
    BY <1>1, <1>3, <2>1, TableTexts
  <2>3. row.type # "list_item"
    BY TypesAre
  <2> HIDE DEF row, end
  <2>4. ListsGood(c)
    BY <1>3, <2>2, <2>3, EmittedLists
  <2>5. i' = end /\ end \in 1 .. Len(lines) + 1
    BY <1>2, <2>1, <2>2
  <2>6. GoodAt(first, c, end)
    BY <2>2, <2>4, <2>5 DEF GoodAt
  <2> HIDE DEF c
  <2> QED
    BY <1>5, <2>1, <2>5, <2>6
<1>15. ASSUME Textile!ReadPara PROVE GoesOn(first)
  <2> DEFINE c == [closed EXCEPT !.pending_style = Textile!Line.style, !.para = Textile!Line.text]
  <2>1. line.kind = "PARA" /\ builder' = c /\ i' = i + 1
    BY <1>2, <1>15 DEF Textile!ReadPara, Textile!Reading, Textile!Consumed
  <2>2. TextsGood(c, here + 1)
    BY <1>2, <1>3, <2>1, ParaTexts
  <2>3. c.blocks = closed.blocks /\ c.open = << >>
    <3>1. IsBuilder(closed)
      BY <1>4 DEF TextsGood
    <3> HIDE DEF closed
    <3> QED
      BY <1>4, <3>1 DEF IsBuilder
  <2> HIDE DEF c
  <2>4. ListsGood(c)
    BY <1>4, <2>3, NoLists
  <2> HIDE DEF line, here
  <2> QED
    BY <1>6, <2>1, <2>2, <2>4
<1>16. ASSUME Textile!ReadText PROVE GoesOn(first)
  <2> DEFINE b == Textile!CloseLists(builder)
             c == [b EXCEPT !.para = @ \o Textile!Line.text]
  <2>1. line.kind = "TEXT" /\ builder' = c /\ i' = i + 1
    BY <1>2, <1>16 DEF Textile!ReadText, Textile!Reading, Textile!Consumed
  <2>2. TextsGood(c, here + 1)
    BY <1>2, <1>3, <2>1, ProseTexts
  <2>3. c.blocks = builder.blocks /\ c.open = << >>
    <3>1. TextsGood(b, here) /\ b.open = << >> /\ b.blocks = builder.blocks
      BY <1>3, CloseKeeps
    <3>2. IsBuilder(b)
      BY <3>1 DEF TextsGood
    <3> DEFINE para == b.para \o Textile!Line.text
    <3>3. c = [b EXCEPT !.para = para]
      OBVIOUS
    <3> HIDE DEF b, c, para
    <3> QED
      BY <3>1, <3>2, <3>3 DEF IsBuilder
  <2> HIDE DEF c
  <2>4. ListsGood(c)
    BY <1>3, <2>3, NoLists
  <2> HIDE DEF line, here
  <2> QED
    BY <1>6, <2>1, <2>2, <2>4
<1> QED
  BY <1>1, <1>7, <1>8, <1>9, <1>10, <1>11, <1>12, <1>13, <1>14, <1>15, <1>16

-----------------------------------------------------------------------------
(* The invariant of the Textile reader, and that every step keeps it.      *)

TextileScans == rows = << >> /\ \E first, m : m = i /\ Scanning(first, m)

\* The Builder has read the lines before line i, of all that there are.
TextileBuilds ==
    \E first, m, b, k : /\ m = Len(source) + 1 /\ b = builder /\ k = i
                        /\ Scanning(first, m) /\ GoodAt(first, b, k)

TextileReturns == i > Len(lines) /\ builder.para = << >> /\ rows = builder.blocks

TextileInv ==
    format = "textile" =>
        /\ IsSource /\ ItemsHaveText
        /\ phase \in {"scan", "build", "done"}
        /\ phase = "scan" => TextileScans
        /\ phase # "scan" => TextileBuilds
        /\ phase = "done" => TextileReturns

\* A call starts with a source of the format, nothing of it being scanned.
LEMMA TextileStarts == ASSUME Init PROVE TextileInv
<1> SUFFICES ASSUME format = "textile"
             PROVE  /\ IsSource /\ ItemsHaveText /\ phase = "scan" /\ TextileScans
  BY DEF TextileInv
<1>1. /\ "textile" \in DOMAIN Document /\ source \in Document["textile"]
      /\ phase = "scan" /\ i = 1 /\ lines = << >> /\ rows = << >>
  BY DEF Init
<1>2. IsSource
  BY <1>1, DocumentAssumption DEF IsSource
<1>3. ItemsHaveText
  BY <1>1, TextileAssumption DEF ItemsHaveText
<1>4. PICK first : first = [n \in 1 .. 1 |-> 1]
  OBVIOUS
<1>5. /\ first \in [1 .. 1 -> Nat] /\ first[1] = 1
      /\ lines \in Seq(ScannedLines) /\ Len(lines) = 0 /\ 0 + 1 = 1
  BY <1>1, <1>4, EmptySeq
<1>6. Rising(first, 1)
  BY <1>5 DEF Rising
<1>7. Scanning(first, 1)
  BY <1>5, <1>6 DEF Scanning
<1> QED
  BY <1>1, <1>2, <1>3, <1>7 DEF TextileScans

\* What was good before a line is when neither source nor lines change.
LEMMA GoodAtSame ==
    ASSUME source' = source, lines' = lines
    PROVE  \A first, b, k : GoodAt(first, b, k)' <=> GoodAt(first, b, k)
  BY GoodSame DEF GoodAt

\* The Builder starts with nothing, before the first line.
LEMMA NothingBuilt ==
    ASSUME IsSource, NEW first, NEW m, Scanning(first, m),
           NEW b, b = [blocks |-> << >>, para |-> << >>, pending_style |-> 0, open |-> << >>]
    PROVE  GoodAt(first, b, 1)
<1>1. /\ IsBuilder(b) /\ b.blocks = << >> /\ b.para = << >> /\ b.pending_style = 0 /\ b.open = << >>
  BY DEF IsBuilder
<1>2. Len(lines) \in Nat /\ first[1] = 1
  BY LenProperties DEF Scanning
<1>3. /\ << >> \in Seq(TextileRow) /\ << >> \in Seq(Nat \ {0}) /\ << >> \in Seq(Marker)
      /\ Len(<< >>) = 0 /\ DOMAIN << >> = {} /\ Range(<< >>) = {}
  BY EmptySeq DEF Range
<1> DEFINE none == << >>
<1> HIDE DEF none
<1>4. RowsOf(b.blocks, 1, 1 - 1)
  BY <1>1, <1>3 DEF RowsOf, InOrder, StylesOwn
<1>5. ProseIn(b.blocks, b.para, 1, 1 - 1)
  BY DEF ProseIn
<1>6. ParaOpen(b.blocks, b.para, b.pending_style, 1)
  BY <1>1, <1>3 DEF ParaOpen, From
<1>7. TextsGood(b, 1)
  BY <1>1, <1>4, <1>5, <1>6 DEF TextsGood
<1>8. ListsGood(b)
  BY <1>1, <1>3 DEF ListsGood, Listed, Opened
<1> QED
  BY <1>2, <1>7, <1>8 DEF GoodAt

\* A scanner that is behind the last line is right behind it.
LEMMA ScannedEnds ==
    ASSUME IsSource, NEW first, Scanning(first, i), i > Len(source)
    PROVE  i = Len(source) + 1
<1> DEFINE l == Len(lines)
<1>1. l \in Nat /\ first[1] = 1 /\ first[l + 1] = i /\ Len(source) \in Nat
  BY LenProperties DEF Scanning, IsSource
<1>2. CASE l = 0
  <2>1. i = 1
    BY <1>1, <1>2
  <2> QED
    BY <1>1, <2>1
<1>3. CASE l # 0
  <2>1. l \in 1 .. Len(lines)
    BY <1>1, <1>3
  <2> HIDE DEF l
  <2>2. first[l] \in DOMAIN source /\ first[l + 1] = Textile!LastLineOf(first[l]) + 1
    BY <2>1 DEF Scanning
  <2>3. Textile!LastLineOf(first[l]) \in first[l] .. Len(source) /\ first[l] \in Nat
    BY <2>2, LastLineIs
  <2> DEFINE last == Textile!LastLineOf(first[l])
             n == first[l]
  <2>4. last \in n .. Len(source) /\ n \in Nat /\ i = last + 1
    BY <1>1, <2>2, <2>3
  <2> HIDE DEF last, n
  <2> QED
    BY <1>1, <2>4
<1> QED
  BY <1>2, <1>3

\* The scanner classifies the next line.
LEMMA TextileScanning ==
    ASSUME TextileInv, format = "textile", Textile!ScanLine PROVE TextileInv'
<1>1. /\ phase = "scan" /\ i <= Len(source)
      /\ lines' = Append(lines, Textile!ScannedLine(i)) /\ i' = Textile!LastLineOf(i) + 1
      /\ UNCHANGED <<format, source, phase, builder, rows>>
  BY DEF Textile!ScanLine, Textile!Scanned
<1>2. IsSource /\ ItemsHaveText /\ rows = << >>
  BY <1>1 DEF TextileInv, TextileScans
<1>3. PICK first : Scanning(first, i)
  BY <1>1 DEF TextileInv, TextileScans
<1>4. PICK next : next = Textile!LastLineOf(i) + 1
  OBVIOUS
<1>5. \E f : Scanning(f, next)'
  BY <1>1, <1>2, <1>3, <1>4, ScanStep
<1>6. TextileScans'
  BY <1>1, <1>2, <1>4, <1>5 DEF TextileScans
<1>7. IsSource' /\ ItemsHaveText'
  BY <1>1, <1>2 DEF IsSource, ItemsHaveText
<1> QED
  BY <1>1, <1>6, <1>7 DEF TextileInv

\* The Builder starts when all lines are classified.
LEMMA TextileStartsBuild ==
    ASSUME TextileInv, format = "textile", Textile!StartBuild PROVE TextileInv'
<1> DEFINE empty == [blocks |-> << >>, para |-> << >>, pending_style |-> 0, open |-> << >>]
<1>1. /\ phase = "scan" /\ i > Len(source) /\ lines' = lines /\ i' = 1 /\ phase' = "build"
      /\ builder' = empty /\ UNCHANGED <<format, source, rows>>
  BY DEF Textile!StartBuild, Textile!BuildFrom
<1>2. IsSource /\ ItemsHaveText
  BY <1>1 DEF TextileInv
<1>3. PICK first : Scanning(first, i)
  BY <1>1 DEF TextileInv, TextileScans
<1>4. i = Len(source) + 1
  BY <1>1, <1>2, <1>3, ScannedEnds
<1>5. PICK m, b, k : m = Len(source) + 1 /\ b = empty /\ k = 1
  OBVIOUS
<1>6. Scanning(first, m) /\ GoodAt(first, b, k)
  BY <1>2, <1>3, <1>4, <1>5, NothingBuilt
<1>7. Scanning(first, m)' /\ GoodAt(first, b, k)'
  BY <1>1, <1>6, ScannedSame, GoodAtSame
<1>8. m = (Len(source) + 1)' /\ b = builder' /\ k = i'
  BY <1>1, <1>5
<1>9. TextileBuilds'
  BY <1>7, <1>8 DEF TextileBuilds
<1>10. IsSource' /\ ItemsHaveText'
  BY <1>1, <1>2 DEF IsSource, ItemsHaveText
<1> QED
  BY <1>1, <1>9, <1>10 DEF TextileInv

\* The Builder reads a line, of whatever kind.
LEMMA TextileReads ==
    ASSUME TextileInv, format = "textile",
           \/ Textile!ReadBlank \/ Textile!ReadComment \/ Textile!ReadHeading \/ Textile!ReadQuote
           \/ Textile!ReadCode \/ Textile!ReadRaw \/ Textile!ReadItem \/ Textile!ReadTable
           \/ Textile!ReadPara \/ Textile!ReadText
    PROVE  TextileInv'
<1>1. phase = "build"
  BY DEF Textile!ReadBlank, Textile!ReadComment, Textile!ReadHeading, Textile!ReadQuote, Textile!ReadCode,
     Textile!ReadRaw, Textile!ReadItem, Textile!ReadTable, Textile!ReadPara, Textile!ReadText,
     Textile!Reading
<1>2. IsSource /\ ItemsHaveText /\ TextileBuilds
  BY <1>1 DEF TextileInv
<1>3. PICK first, m : m = Len(source) + 1 /\ Scanning(first, m) /\ GoodAt(first, builder, i)
  BY <1>2 DEF TextileBuilds
<1>4. GoesOn(first)
  BY <1>2, <1>3, LineRead
<1>5. UNCHANGED <<format, source, phase, lines, rows>>
  BY <1>4 DEF GoesOn
<1>6. PICK b, k : builder' = b /\ i' = k /\ GoodAt(first, b, k)
  BY <1>4 DEF GoesOn
<1>7. Scanning(first, m)' /\ GoodAt(first, b, k)'
  BY <1>3, <1>5, <1>6, ScannedSame, GoodAtSame
<1>8. m = (Len(source) + 1)' /\ b = builder' /\ k = i'
  BY <1>3, <1>5, <1>6
<1>9. TextileBuilds'
  BY <1>7, <1>8 DEF TextileBuilds
<1>10. IsSource' /\ ItemsHaveText'
  BY <1>2, <1>5 DEF IsSource, ItemsHaveText
<1> QED
  BY <1>1, <1>5, <1>9, <1>10 DEF TextileInv

\* The Builder returns its rows.
LEMMA TextileReturnsRows ==
    ASSUME TextileInv, format = "textile", Textile!ReturnRows PROVE TextileInv'
<1> DEFINE c == Textile!Closed
<1>1. /\ phase = "build" /\ i > Len(lines) /\ phase' = "done" /\ builder' = c /\ rows' = c.blocks
      /\ UNCHANGED <<format, source, i, lines>>
  BY DEF Textile!ReturnRows, Textile!Returned
<1>2. IsSource /\ ItemsHaveText /\ TextileBuilds
  BY <1>1 DEF TextileInv
<1>3. PICK first, m : m = Len(source) + 1 /\ Scanning(first, m) /\ GoodAt(first, builder, i)
  BY <1>2 DEF TextileBuilds
<1>4. TextsGood(c, first[i]) /\ ListsGood(c) /\ c.para = << >> /\ i \in 1 .. Len(lines) + 1
  <2>1. TextsGood(builder, first[i]) /\ ListsGood(builder) /\ i \in 1 .. Len(lines) + 1
    BY <1>3 DEF GoodAt
  <2> QED
    BY <2>1, ClosedKeeps, ClosedLists
<1> HIDE DEF c
<1>5. PICK b, k : b = c /\ k = i
  OBVIOUS
<1>6. GoodAt(first, b, k)
  BY <1>4, <1>5 DEF GoodAt
<1>7. Scanning(first, m)' /\ GoodAt(first, b, k)'
  BY <1>1, <1>3, <1>6, ScannedSame, GoodAtSame
<1>8. m = (Len(source) + 1)' /\ b = builder' /\ k = i'
  BY <1>1, <1>3, <1>5
<1>9. TextileBuilds'
  BY <1>7, <1>8 DEF TextileBuilds
<1>10. TextileReturns'
  BY <1>1, <1>4 DEF TextileReturns
<1>11. IsSource' /\ ItemsHaveText'
  BY <1>1, <1>2 DEF IsSource, ItemsHaveText
<1> QED
  BY <1>1, <1>9, <1>10, <1>11 DEF TextileInv

\* Every step of a call keeps the invariant, whichever reader it is of.
LEMMA TextileStep == ASSUME TextileInv, [Next]_markupVars PROVE TextileInv'
<1> SUFFICES ASSUME (format = "textile")' PROVE TextileInv'
  BY DEF TextileInv
<1>1. format = "textile"
  <2>1. CASE Next
    BY <2>1, SourceIsKept
  <2>2. CASE UNCHANGED markupVars
    BY <2>2 DEF markupVars
  <2> QED
    BY <2>1, <2>2
<1>2. CASE UNCHANGED markupVars
  <2>1. UNCHANGED <<format, source, phase, i, lines, builder, rows>>
    BY <1>2 DEF markupVars
  <2>2. (phase = "scan" => TextileScans) => (phase = "scan" => TextileScans)'
    BY <2>1, ScannedSame DEF TextileScans
  <2>3. (phase # "scan" => TextileBuilds) => (phase # "scan" => TextileBuilds)'
    <3> SUFFICES ASSUME TextileBuilds PROVE TextileBuilds'
      BY <2>1
    <3>1. PICK first, m, b, k : /\ m = Len(source) + 1 /\ b = builder /\ k = i
                                /\ Scanning(first, m) /\ GoodAt(first, b, k)
      BY DEF TextileBuilds
    <3>2. Scanning(first, m)' /\ GoodAt(first, b, k)'
      BY <2>1, <3>1, ScannedSame, GoodAtSame
    <3>3. m = (Len(source) + 1)' /\ b = builder' /\ k = i'
      BY <2>1, <3>1
    <3> QED
      BY <3>2, <3>3 DEF TextileBuilds
  <2>4. (phase = "done" => TextileReturns) => (phase = "done" => TextileReturns)'
    BY <2>1 DEF TextileReturns
  <2>5. (IsSource /\ ItemsHaveText) => (IsSource /\ ItemsHaveText)'
    BY <2>1 DEF IsSource, ItemsHaveText
  <2> QED
    BY <1>1, <2>1, <2>2, <2>3, <2>4, <2>5 DEF TextileInv
<1>3. CASE Textile!Next
  <2>1. CASE Textile!ScanLine
    BY <1>1, <2>1, TextileScanning
  <2>2. CASE Textile!StartBuild
    BY <1>1, <2>2, TextileStartsBuild
  <2>3. CASE \/ Textile!ReadBlank \/ Textile!ReadComment \/ Textile!ReadHeading \/ Textile!ReadQuote
             \/ Textile!ReadCode \/ Textile!ReadRaw \/ Textile!ReadItem \/ Textile!ReadTable
             \/ Textile!ReadPara \/ Textile!ReadText
    BY <1>1, <2>3, TextileReads
  <2>4. CASE Textile!ReturnRows
    BY <1>1, <2>4, TextileReturnsRows
  <2> QED
    BY <1>3, <2>1, <2>2, <2>3, <2>4 DEF Textile!Next
<1> QED
  BY <1>1, <1>2, <1>3 DEF Next

-----------------------------------------------------------------------------
(* What the rows are when the reader returns them.                         *)

\* They are of all lines of the source.
LEMMA TextileDone ==
    ASSUME TextileInv, format = "textile", Done
    PROVE  /\ IsSource /\ Len(source) \in Nat /\ DOMAIN source = 1 .. Len(source)
           /\ rows \in Seq(TextileRow) /\ DOMAIN rows = 1 .. Len(rows) /\ Len(rows) \in Nat
           /\ RowsOf(rows, 1, Len(source)) /\ ProseIn(rows, << >>, 1, Len(source)) /\ Listed(rows)
<1>1. IsSource /\ TextileBuilds /\ TextileReturns
  BY DEF TextileInv, Done
<1>2. PICK first, m : m = Len(source) + 1 /\ Scanning(first, m) /\ GoodAt(first, builder, i)
  BY <1>1 DEF TextileBuilds
<1>3. Len(lines) \in Nat /\ i = Len(lines) + 1 /\ first[i] = Len(source) + 1
  <2>1. Len(lines) \in Nat /\ first[Len(lines) + 1] = m
    BY <1>2, LenProperties DEF Scanning
  <2>2. i > Len(lines) /\ i \in 1 .. Len(lines) + 1
    BY <1>1, <1>2 DEF TextileReturns, GoodAt
  <2>3. i = Len(lines) + 1
    BY <2>1, <2>2
  <2> QED
    BY <1>2, <2>1, <2>3
<1>4. Len(source) \in Nat /\ DOMAIN source = 1 .. Len(source) /\ (Len(source) + 1) - 1 = Len(source)
  BY <1>1, LenProperties DEF IsSource
<1>5. TextsGood(builder, Len(source) + 1) /\ ListsGood(builder)
  BY <1>2, <1>3 DEF GoodAt
<1>6. rows = builder.blocks /\ builder.para = << >>
  BY <1>1 DEF TextileReturns
<1>7. RowsOf(rows, 1, Len(source)) /\ ProseIn(rows, << >>, 1, Len(source)) /\ Listed(rows)
  BY <1>4, <1>5, <1>6 DEF TextsGood, ListsGood
<1>8. rows \in Seq(TextileRow)
  BY <1>7 DEF RowsOf
<1> QED
  BY <1>1, <1>4, <1>7, <1>8, LenProperties

\* A style is one row's, and its text is in place.
LEMMA TextileStyles == ASSUME TextileInv PROVE StylesInPlace
<1> SUFFICES ASSUME Done, format = "textile"
             PROVE  StylesOwn(rows)
  BY DEF StylesInPlace, StylesOwn
<1> QED
  BY TextileDone DEF RowsOf

\* The rows' texts come in order.
LEMMA TextileOrder == ASSUME TextileInv, format = "textile" PROVE TextsInOrder
<1> SUFFICES ASSUME Done, NEW m \in DOMAIN rows, NEW n \in DOMAIN rows, m < n,
                    NEW a \in DOMAIN rows[m].text, NEW b \in DOMAIN rows[n].text
             PROVE  rows[m].text[a] < rows[n].text[b]
  BY DEF TextsInOrder
<1>1. InOrder(rows)
  BY TextileDone DEF RowsOf
<1>2. rows[m].text[a] \in Range(rows[m].text) /\ rows[n].text[b] \in Range(rows[n].text)
  BY DEF Range
<1> QED
  BY <1>1, <1>2 DEF InOrder

\* No line of prose is lost but those that LostInListing says.
LEMMA TextileProse == ASSUME TextileInv, format = "textile" PROVE ProseKept
<1> SUFFICES ASSUME Done, NEW n \in DOMAIN source, IsPlain(n), ~Hidden(n)
             PROVE  InSomeRow(n)
  BY DEF ProseKept
<1>1. n \in 1 .. Len(source) /\ ProseIn(rows, << >>, 1, Len(source))
  BY TextileDone
<1>2. IsProse(n)
  BY DEF IsPlain, IsProse
<1>3. ~LostInListing(n)
  BY DEF Hidden
<1>4. TextOf(n) \notin Range(<< >>)
  BY DEF Range
<1>5. InRows(rows, TextOf(n))
  BY <1>1, <1>2, <1>3, <1>4 DEF ProseIn
<1> QED
  BY <1>5 DEF InRows, InSomeRow

\* A paragraph on the top level is a run of prose.
LEMMA TextileParagraphs == ASSUME TextileInv, format = "textile" PROVE ParagraphsWhole
<1> SUFFICES ASSUME Done, NEW m \in DOMAIN rows, rows[m].type = "paragraph", rows[m].level = 1,
                    NEW a \in DOMAIN rows[m].text, NEW b \in DOMAIN rows[m].text,
                    NEW n \in LineOf(rows[m].text[a]) + 1 .. LineOf(rows[m].text[b]) - 1
             PROVE  Transparent(n)
  BY DEF ParagraphsWhole
<1>1. RunsOn(rows[m])
  BY TextileDone DEF RowsOf, RowIn
<1>2. rows[m].text[a] \in Range(rows[m].text) /\ rows[m].text[b] \in Range(rows[m].text)
  BY DEF Range
<1>3. Textile!KindOf(source[n]) = "TEXT"
  BY <1>1, <1>2 DEF RunsOn
<1>4. Transparent(n) = (Textile!KindOf(source[n]) = "TEXT")
  BY DEF Transparent, Office
<1> QED
  BY <1>3, <1>4

\* Two texts are in one row of a table just when they are of one line.
LEMMA TextileTables == ASSUME TextileInv, format = "textile" PROVE RowsWhole
<1> SUFFICES ASSUME Done, NEW m \in DOMAIN rows, NEW c \in DOMAIN rows[m].cells, NEW d \in DOMAIN rows[m].cells,
                    NEW a \in DOMAIN rows[m].cells[c], NEW b \in DOMAIN rows[m].cells[d],
                    LineOf(rows[m].cells[c][a]) <= LineOf(rows[m].cells[d][b])
             PROVE  c = d <=> ~(LineOf(rows[m].cells[c][a]) # LineOf(rows[m].cells[d][b]))
  BY DEF RowsWhole
<1>1. CellsWhole(rows[m])
  BY TextileDone DEF RowsOf, RowIn
<1>2. rows[m].cells[c][a] \in Range(rows[m].cells[c]) /\ rows[m].cells[d][b] \in Range(rows[m].cells[d])
  BY DEF Range
<1> QED
  BY <1>1, <1>2 DEF CellsWhole

\* The list an item hangs under is the row that is its parent.
LEMMA ParentIsList ==
    ASSUME NEW R \in Seq(TextileRow), NEW n \in DOMAIN R, NEW p, HangsUnder(R, n, p)
    PROVE  ParentOf(R, n) = p /\ p # 0
<1> DEFINE above == {m \in 1 .. n - 1 : R[m].level < R[n].level}
<1>1. n \in Nat \ {0} /\ DOMAIN R = 1 .. Len(R) /\ Len(R) \in Nat
  BY LenProperties
<1>2. \A m \in 1 .. n : R[m].level \in Nat
  <2> TAKE m \in 1 .. n
  <2>1. m \in DOMAIN R
    BY <1>1
  <2>2. R[m] \in TextileRow
    BY <2>1, <1>1, ElementOfSeq
  <2> QED
    BY <2>2 DEF TextileRow
<1>3. p \in 1 .. n - 1 /\ p \in 1 .. n /\ n \in 1 .. n /\ R[p].level = R[n].level - 1
      /\ \A k \in p + 1 .. n - 1 : R[k].level >= R[n].level
  BY <1>1 DEF HangsUnder
<1> DEFINE l == R[n].level
           q == R[p].level
<1>4. q < l
  <2>1. q \in Nat /\ l \in Nat /\ q = l - 1
    BY <1>2, <1>3
  <2> HIDE DEF q, l
  <2> QED
    BY <2>1
<1>5. p \in above
  BY <1>3, <1>4
<1>6. ASSUME NEW k \in above PROVE k <= p
  <2> SUFFICES ASSUME ~(k <= p) PROVE FALSE
    OBVIOUS
  <2>1. k \in 1 .. n - 1 /\ k \in 1 .. n /\ R[k].level < l
    BY <1>1
  <2>2. k \in p + 1 .. n - 1
    BY <1>3, <2>1
  <2> DEFINE o == R[k].level
  <2>3. o \in Nat /\ l \in Nat /\ o < l /\ o >= l
    BY <1>2, <1>3, <2>1, <2>2
  <2> HIDE DEF o, l
  <2> QED
    BY <2>3
<1>7. \A m \in above : (\A k \in above : k <= m) => m = p
  <2> SUFFICES ASSUME NEW m \in above, \A k \in above : k <= m PROVE m = p
    OBVIOUS
  <2>1. m <= p /\ p <= m /\ m \in Nat /\ p \in Nat
    BY <1>1, <1>3, <1>5, <1>6
  <2> QED
    BY <2>1
<1>8. (CHOOSE m \in above : \A k \in above : k <= m) = p
  <2> HIDE DEF above
  <2> QED
    BY <1>5, <1>6, <1>7
<1>9. ParentOf(R, n) = IF above = {} THEN 0 ELSE CHOOSE m \in above : \A k \in above : k <= m
  BY DEF ParentOf
<1> HIDE DEF above
<1> QED
  BY <1>3, <1>5, <1>8, <1>9

\* Every item is in a list of the type its marker names.
LEMMA TextileItems == ASSUME TextileInv, format = "textile" PROVE ItemsInLists
<1>1. Flow = rows
  BY DEF Flow, Between
<1> SUFFICES ASSUME Done, NEW n \in DOMAIN rows, rows[n].type = "list_item"
             PROVE  LET p == ParentOf(rows, n)
                    IN  /\ p # 0 /\ rows[p].type = "list" /\ rows[p].level = rows[n].level - 1
                        /\ rows[n].role # "" => rows[p].list_type = "definition"
                        /\ rows[n].role = "" =>
                             rows[p].list_type = TypeNamed(source[LineOf(rows[n].text[1])])
  <2>1. format \notin Office
    BY DEF Office
  <2> QED
    BY <1>1, <2>1 DEF ItemsInLists
<1>2. rows \in Seq(TextileRow) /\ ItemGood(rows, n)
  BY TextileDone DEF Listed
<1>3. PICK p \in 1 .. n - 1 : HangsUnder(rows, n, p) /\ rows[p].list_type = NamedType(rows[n])
  BY <1>2 DEF ItemGood
<1>4. ParentOf(rows, n) = p /\ p # 0
  BY <1>2, <1>3, ParentIsList
<1>5. rows[p].type = "list" /\ rows[p].level = rows[n].level - 1
  BY <1>3 DEF HangsUnder
<1>6. rows[n].role # "" => rows[p].list_type = "definition"
  BY <1>3 DEF NamedType
<1>7. rows[n].role = "" => rows[p].list_type = TypeNamed(source[LineOf(rows[n].text[1])])
  <2> SUFFICES ASSUME rows[n].role = "" PROVE rows[p].list_type = TypeNamed(source[LineOf(rows[n].text[1])])
    OBVIOUS
  <2> DEFINE s == source[LineOf(rows[n].text[1])]
  <2>1. s.lead = "list" /\ rows[p].list_type = MediaWiki!TypeOf(Last(s.markers))
    BY <1>2, <1>3 DEF ItemGood, IsOfLine, NamedType
  <2> HIDE DEF s
  <2>2. TypeNamed(s) = MediaWiki!TypeOf(Last(s.markers))
    BY <2>1 DEF TypeNamed, Office
  <2> QED
    BY <2>1, <2>2 DEF s
<1> QED
  BY <1>4, <1>5, <1>6, <1>7

-----------------------------------------------------------------------------
(* The theorems.                                                           *)

\* What the reader holds is good throughout a call.
LEMMA TextileAlways == Spec => []TextileInv
<1>1. Init => TextileInv
  BY TextileStarts
<1>2. TextileInv /\ [Next]_markupVars => TextileInv'
  BY TextileStep
<1> QED
  BY <1>1, <1>2, PTL DEF Spec

\* In Textile a style is one row's only, and one that is stated with a text is
\* the style of that text's row, of a quote's text the row above it (Flush and
\* the readers of headings, quotes and listings in textile.cpp).
THEOREM TextileStylesInPlace == Spec => []StylesInPlace
<1>1. TextileInv => StylesInPlace
  BY TextileStyles
<1> QED
  BY <1>1, TextileAlways, PTL

\* Of a source of Textile the rows' texts come in the source's order, whatever
\* paragraph, list, listing or table each was read in.
THEOREM TextileTextsInOrder == Spec => [](format = "textile" => TextsInOrder)
<1>1. TextileInv => (format = "textile" => TextsInOrder)
  BY TextileOrder
<1> QED
  BY <1>1, TextileAlways, PTL

\* Of a source of Textile every line of prose is in some row, but for what
\* LostInListing says: the lines of an HTML element that opens in a listing.
THEOREM TextileProseKept == Spec => [](format = "textile" => ProseKept)
<1>1. TextileInv => (format = "textile" => ProseKept)
  BY TextileProse
<1> QED
  BY <1>1, TextileAlways, PTL

\* Of a source of Textile a paragraph on the top level is a run of prose: none
\* goes on across a line of another kind (the calls of Flush before each).
THEOREM TextileParagraphsWhole == Spec => [](format = "textile" => ParagraphsWhole)
<1>1. TextileInv => (format = "textile" => ParagraphsWhole)
  BY TextileParagraphs
<1> QED
  BY <1>1, TextileAlways, PTL

\* Of a source of Textile every item hangs under a list of the type that its
\* marker names, whatever items and comments came before it (ListItem).
THEOREM TextileItemsInLists == Spec => [](format = "textile" => ItemsInLists)
<1>1. TextileInv => (format = "textile" => ItemsInLists)
  BY TextileItems
<1> QED
  BY <1>1, TextileAlways, PTL

\* Of a source of Textile the rows of a table are lines of the source, the
\* header one of them and in no other row.
THEOREM TextileRowsWhole == Spec => [](format = "textile" => RowsWhole)
<1>1. TextileInv => (format = "textile" => RowsWhole)
  BY TextileTables
<1> QED
  BY <1>1, TextileAlways, PTL
=============================================================================
