----------------------------- MODULE BlockTree -----------------------------
(***************************************************************************)
(* duck_block lists as trees (src/src/include/duck_block_vocabulary.hpp).  *)
(*                                                                         *)
(* A document is a flat list; an element's `level` is its depth, and its   *)
(* parent is the nearest element before it that is shallower.  The         *)
(* vocabulary declares which elements need an ancestor of a certain type,  *)
(* and which wrapper a fragment without one is given.                      *)
(***************************************************************************)
EXTENDS Integers, Sequences

CONSTANT BlockType  \* element types; only the ones named below are special

ASSUME BlockTypeAssumption == {"list", "figure", "plain"} \subseteq BlockType

ElementKind == {"block", "inline", "value"}

\* origin is where the element stood in the input, 0 for a wrapper.
Element == [kind : ElementKind, type : BlockType, level : Int, origin : Nat]

-----------------------------------------------------------------------------

\* The wrapper a fragment of this kind and type gets, "" when it needs none.
ImplicitParentOf(e) ==
    IF e.kind = "inline" THEN "plain"
    ELSE IF e.kind = "block" /\ e.type = "list_item" THEN "list"
    ELSE IF e.kind = "block" /\ e.type = "caption" THEN "figure"
    ELSE ""

\* Does f, somewhere above e, answer e's requirement?
Answers(e, f) ==
    IF e.kind = "inline" THEN f.kind # "inline"
    ELSE /\ f.kind = "block"
         /\ \/ e.type = "list_item" /\ f.type \in {"list", "deflist"}
            \/ e.type = "caption" /\ f.type \in {"figure", "table"}

-----------------------------------------------------------------------------
(* The rules on lists, as the specification of duck_blocks states them.    *)

\* The elements n hangs under.
Ancestors(els, n) ==
    {m \in 1 .. n - 1 : \A k \in m + 1 .. n : els[m].level < els[k].level}

LevelBefore(els, n) == IF n = 1 THEN 0 ELSE els[n - 1].level

ShallowestIsOne(els) ==
    /\ \A n \in DOMAIN els : els[n].level >= 1
    /\ els # << >> => els[1].level = 1

NoLevelJump(els) == \A n \in DOMAIN els : els[n].level <= LevelBefore(els, n) + 1

AncestorsPresent(els) ==
    \A n \in DOMAIN els :
        ImplicitParentOf(els[n]) # "" =>
            \E m \in Ancestors(els, n) : Answers(els[n], els[m])

WholeDocument(els) == ShallowestIsOne(els) /\ NoLevelJump(els) /\ AncestorsPresent(els)
=============================================================================
