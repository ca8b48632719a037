----------------------------- MODULE OdtReader -----------------------------
(***************************************************************************)
(* The ODT reader (libpanduck/src/odt.cpp): collect, the loop of           *)
(* ParseOdtFile over what it collected, and ReadOdt.                       *)
(***************************************************************************)
EXTENDS OfficeRows

IsHeading(n) == source[n].count > 0

Depth(n) == IF IsHeading(n) THEN 0 ELSE Len(source[n].markers)

\* A style states the type of each depth.
ListTypes(n) == [d \in 1 .. Depth(n) |-> source[n].markers[d]]

\* A heading in a list is not body text either, and has no style.
IsTop(n) == ~IsHeading(n) /\ source[n].markers = << >>

Entered == EnteredLists(builder, ListTypes(N))

\* An empty paragraph has opened and closed lists before it is passed over.
PassParagraph == Reading({"paragraph"}) /\ IsEmpty(N) /\ Consumed(Entered, i)

Reads(n) == Reading({"paragraph"}) /\ ~IsEmpty(n)

IsDefinition(n) == source[n].name \in {"DefinitionTerm", "Definition"}

ReadCode ==
    Reads(N) /\ IsTop(N) /\ Para.name = "SourceCode" /\ Consumed(WithCode(Entered, N), i)

ReadDefinition ==
    Reads(N) /\ IsTop(N) /\ IsDefinition(N) /\ Consumed(WithDefinition(Entered, N), i)

ReadHeading == Reads(N) /\ IsHeading(N) /\ Consumed(WithHeading(Entered, N), i)

ReadItem ==
    /\ Reads(N) /\ Depth(N) > 0
    /\ Consumed(Emitted(Entered, ItemOf(ItemLevel(Depth(N)), "", Inlines(N))), i)

ReadQuote == Reads(N) /\ IsTop(N) /\ Para.name = "Quote" /\ Consumed(WithQuote(Entered, N), i)

ReadText ==
    /\ Reads(N) /\ IsTop(N)
    /\ Para.name \notin {"SourceCode", "DefinitionTerm", "Definition", "Quote"}
    /\ Consumed(Emitted(WithCandidate(Entered, N), Row("paragraph", 1, Inlines(N))), i)

Next ==
    \/ Scan \/ StartBuild
    \/ PassParagraph \/ ReadTable \/ ReadCode \/ ReadDefinition
    \/ ReadHeading \/ ReadItem \/ ReadQuote \/ ReadText
    \/ ReturnRows
=============================================================================
