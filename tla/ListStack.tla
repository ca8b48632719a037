----------------------------- MODULE ListStack -----------------------------
(***************************************************************************)
(* The list stack of the RTF, DOCX and ODT readers: which lists are open   *)
(* when a paragraph arrives, and which `list` rows it opens.  The three    *)
(* readers share it word for word (libpanduck/src/rtf.cpp, docx.cpp,       *)
(* odt.cpp).  A list type is TRUE for an ordered list, FALSE for a bullet  *)
(* list; an open stack is the sequence of types, outermost first.          *)
(***************************************************************************)
EXTENDS Integers, Sequences

\* Mutated form: only the depth is compared.
StillOpenByDepth(open, wanted) ==
    SubSeq(open, 1, IF Len(wanted) < Len(open) THEN Len(wanted) ELSE Len(open))

\* What stays open of `open` for a paragraph in lists of the types `wanted`,
\* which is empty outside lists.  A list at the very depth is closed when its
\* type differs; deeper ones are closed whatever their types are.
StillOpen(open, wanted) ==
    LET depth == Len(wanted)
        differs == depth > 0 /\ Len(open) = depth /\ open[depth] # wanted[depth]
    IN  SubSeq(open, 1, IF differs THEN depth - 1
                        ELSE IF depth < Len(open) THEN depth ELSE Len(open))

\* The stack once the paragraph's lists have been opened.
Opened(open, wanted) ==
    LET kept == StillOpen(open, wanted)
    IN  kept \o SubSeq(wanted, Len(kept) + 1, Len(wanted))

\* Mutated form: one list at most is opened.
NewDepthsOfOne(open, wanted) ==
    LET kept == Len(StillOpen(open, wanted))
    IN  IF kept < Len(wanted) THEN <<kept + 1>> ELSE << >>

\* The depths at which a `list` row is emitted, outermost first.
NewDepths(open, wanted) ==
    LET kept == Len(StillOpen(open, wanted))
    IN  [n \in 1 .. Len(wanted) - kept |-> kept + n]

\* Levels alternate between lists and their items.
ListLevel(depth) == 2 * depth - 1
ItemLevel(depth) == 2 * depth
=============================================================================
