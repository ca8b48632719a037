----------------------------- MODULE LonePlain -----------------------------
(***************************************************************************)
(* CollapseLonePlainIntoParent (src/src/include/duck_block_normalize.hpp): *)
(* the last pass over the blocks of a pandoc document on its way in.  A    *)
(* container whose only child at its next level is a `plain` takes over    *)
(* the plain's text, and the plain is erased.                              *)
(*                                                                         *)
(* One action per turn of the pass's loop, which stays at an element it    *)
(* has collapsed a plain into (the code steps back and on again).          *)
(***************************************************************************)
EXTENDS BlockTree

CONSTANTS
    Content,    \* texts an element may carry
    NoText,     \* the empty one
    Converted   \* what the converter hands to the pass

\* A block as the pass sees it: a NULL level is -1.
Block == [kind : ElementKind, type : BlockType, level : Int, content : Content,
          attributes : BOOLEAN]

ASSUME ConvertedAssumption ==
    /\ NoText \in Content
    /\ Converted \subseteq Seq(Block)

VARIABLES
    given,   \* the blocks as converted
    rows,    \* the vector being normalised
    at       \* the loop index

plainVars == <<given, rows, at>>

-----------------------------------------------------------------------------

IsBlock(n) == rows[n].kind = "block"

\* Mutated form: everything that follows moves up with the plain's children.
BelowToTheEnd(j) == j + 1 .. Len(rows)

\* The plain's own children: what follows it and is deeper.
Below(j) ==
    {k \in j + 1 .. Len(rows) : \A m \in j + 1 .. k : rows[m].level > rows[j].level}

\* After its children, something stands at the plain's own level.
HasSibling(j) ==
    \E k \in j + 1 .. Len(rows) :
        /\ \A m \in j + 1 .. k - 1 : rows[m].level > rows[j].level
        /\ rows[k].level = rows[j].level

\* n takes over the text of the plain after it.
Adopts(n) ==
    /\ n + 1 <= Len(rows)
    /\ IsBlock(n) /\ rows[n].content = NoText /\ rows[n].level >= 1
    /\ IsBlock(n + 1) /\ rows[n + 1].type = "plain"
    /\ rows[n + 1].level = rows[n].level + 1
    /\ ~HasSibling(n + 1)
    /\ ~rows[n + 1].attributes

\* Mutated form: the plain's children stay where they are.
RaisedNever(n, k) ==
    IF k = n THEN [rows[n] EXCEPT !.content = rows[n + 1].content] ELSE rows[k]

\* k after the plain below n is gone: n has its text, its children move up.
Raised(n, k) ==
    IF k = n THEN [rows[n] EXCEPT !.content = rows[n + 1].content]
    ELSE IF k \in Below(n + 1) THEN [rows[k] EXCEPT !.level = rows[k].level - 1]
    ELSE rows[k]

\* Mutated form: the loop goes on after a collapse, as it once did.
NextIndexAfterCollapse(n) == n + 1

NextIndex(n) == n

-----------------------------------------------------------------------------
PlainInit == given \in Converted /\ rows = given /\ at = 1

\* The loop is at a block that adopts: the plain after it is erased.
CollapsePlain ==
    /\ at <= Len(rows)
    /\ Adopts(at)
    /\ rows' = [k \in 1 .. Len(rows) - 1 |-> Raised(at, IF k <= at THEN k ELSE k + 1)]
    /\ at' = NextIndex(at)
    /\ UNCHANGED given

Skip ==
    /\ at <= Len(rows)
    /\ ~Adopts(at)
    /\ at' = at + 1
    /\ UNCHANGED <<given, rows>>

PlainNext == CollapsePlain \/ Skip

PlainSpec == PlainInit /\ [][PlainNext]_plainVars

-----------------------------------------------------------------------------
(* Properties.                                                             *)

Finished == at > Len(rows)

\* "Lint(normalize(x)) is empty": one pass leaves no plain that its parent
\* could adopt, in chains of plains as well.
NoLonePlainLeft == Finished => \A n \in DOMAIN rows : ~Adopts(n)

\* "Leaving a gap would break the one invariant the whole tree is rebuilt
\* from": a list without level jumps has none at any point of the pass.
NoJumpIntroduced == NoLevelJump(given) => NoLevelJump(rows)

\* No inline, list item or caption loses the ancestor it needs with a plain.
AncestorsKept == AncestorsPresent(given) => AncestorsPresent(rows)
=============================================================================
