----------------------------- MODULE DocxReader -----------------------------
(***************************************************************************)
(* The DOCX reader (libpanduck/src/docx.cpp): the loop of ParseDocxFile    *)
(* over the nodes of the body, and ReadDocx.                               *)
(***************************************************************************)
EXTENDS OfficeRows

\* A paragraph with an outline level is in no list, whatever its numbering.
Depth(n) == IF source[n].count > 0 THEN 0 ELSE Len(source[n].markers)

\* All the lists an item opens are of the item's own type.
ListTypes(n) == [d \in 1 .. Depth(n) |-> Last(source[n].markers)]

IsBodyText(n) == source[n].count = 0 /\ Depth(n) = 0

IsCode(n) == source[n].name = "SourceCode" /\ Depth(n) = 0

IsDefinition(n) == source[n].name \in {"DefinitionTerm", "Definition"} /\ IsBodyText(n)

\* A quote is known by its style or by its indentation.
IsQuote(n) == IsBodyText(n) /\ (source[n].name = "Quote" \/ source[n].indent > 0)

\* An empty paragraph is passed over before the lists are looked at.
PassParagraph == Reading({"paragraph"}) /\ IsEmpty(N) /\ Consumed(builder, i)

Reads(n) == Reading({"paragraph"}) /\ ~IsEmpty(n)

Entered ==
    LET b == EnteredLists(builder, ListTypes(N))
    IN  IF IsBodyText(N) THEN WithCandidate(b, N) ELSE b

ReadCode == Reads(N) /\ IsCode(N) /\ Consumed(WithCode(Entered, N), i)

ReadDefinition == Reads(N) /\ ~IsCode(N) /\ IsDefinition(N) /\ Consumed(WithDefinition(Entered, N), i)

IsOther(n) == ~IsCode(n) /\ ~IsDefinition(n)

ReadHeading ==
    Reads(N) /\ IsOther(N) /\ Para.count > 0 /\ Consumed(WithHeading(Entered, N), i)

ReadItem ==
    /\ Reads(N) /\ IsOther(N) /\ Depth(N) > 0
    /\ Consumed(Emitted(Entered, ItemOf(ItemLevel(Depth(N)), "", Inlines(N))), i)

ReadQuote == Reads(N) /\ IsOther(N) /\ IsQuote(N) /\ Consumed(WithQuote(Entered, N), i)

ReadText ==
    /\ Reads(N) /\ IsOther(N) /\ IsBodyText(N) /\ ~IsQuote(N)
    /\ Consumed(Emitted(Entered, Row("paragraph", 1, Inlines(N))), i)

Next ==
    \/ Scan \/ StartBuild
    \/ PassParagraph \/ ReadTable \/ ReadCode \/ ReadDefinition
    \/ ReadHeading \/ ReadItem \/ ReadQuote \/ ReadText
    \/ ReturnRows
=============================================================================
