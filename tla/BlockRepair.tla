---------------------------- MODULE BlockRepair ----------------------------
(***************************************************************************)
(* RepairBlocks (src/src/duck_block_repair.cpp): what every block list     *)
(* goes through on its way out to a pandoc document.  Orphans are wrapped  *)
(* in their implicit parents, levels are rebased to 1, jumps collapsed.    *)
(*                                                                         *)
(* One action per turn of each pass's loop.  element_order is the position *)
(* in the list (pass 4), and the fields nobody rewrites are left out.      *)
(***************************************************************************)
EXTENDS BlockTree, FiniteSets

CONSTANTS
    Input,      \* the lists callers pass: sequences of elements and NoElement
    NoElement,  \* a NULL element
    NoLevel     \* a NULL level

InputElement == [kind : ElementKind, type : BlockType, level : Int \cup {NoLevel}]

ASSUME InputAssumption ==
    /\ Input \subseteq Seq(InputElement \cup {NoElement})
    /\ NoElement \notin InputElement
    /\ NoLevel \notin Int

VARIABLES
    input,      \* what the caller passed
    pass,       \* the pass that is running
    i,          \* its loop index
    els,        \* the working copies
    out,        \* WrapOrphans' output
    stack,      \* the positions in out whose frames are on WrapOrphans' stack
    min_level   \* Rebase's minimum so far

repairVars == <<input, pass, i, els, out, stack, min_level>>

-----------------------------------------------------------------------------
RepairInit ==
    /\ input \in Input
    /\ pass = "load"
    /\ i = 1
    /\ els = << >>
    /\ out = << >>
    /\ stack = {}
    /\ min_level = 0

AtElement(p, list) == pass = p /\ i <= Len(list)

\* A loop has seen the whole list, and the next one starts.
Finish(p, list, next) == pass = p /\ i > Len(list) /\ pass' = next /\ i' = 1

\* IntField: a NULL level reads as 1.
LevelOf(x) == IF x.level = NoLevel THEN 1 ELSE x.level

WorkingCopy(n) == [kind |-> input[n].kind, type |-> input[n].type,
                   level |-> LevelOf(input[n]), origin |-> n]

\* Mutated form: an element without a level is skipped with the NULL ones.
LoadWhatHasALevel ==
    /\ AtElement("load", input)
    /\ els' = IF input[i] = NoElement \/ (input[i] # NoElement /\ input[i].level = NoLevel)
              THEN els ELSE Append(els, WorkingCopy(i))
    /\ i' = i + 1
    /\ UNCHANGED <<input, pass, out, stack, min_level>>

\* A NULL element is skipped.
Load ==
    /\ AtElement("load", input)
    /\ els' = IF input[i] = NoElement THEN els ELSE Append(els, WorkingCopy(i))
    /\ i' = i + 1
    /\ UNCHANGED <<input, pass, out, stack, min_level>>

EndLoad == Finish("load", input, "wrap") /\ UNCHANGED <<input, els, out, stack, min_level>>

-----------------------------------------------------------------------------
(* Pass 1, WrapOrphans.  Levels never fall from the bottom of the stack to *)
(* its top, so popping while the top is not shallower than the element     *)
(* leaves exactly the frames that are.                                     *)

\* Mutated forms: an element at the same level stays; nothing is ever popped.
StackAboveKeepingSiblings(l) == {n \in stack : out[n].level <= l}
StackAboveUnpopped(l) == stack

StackAbove(l) == {n \in stack : out[n].level < l}

\* Mutated form: only the nearest frame counts.
SatisfiedByTheTop(e) ==
    \/ ImplicitParentOf(e) = ""
    \/ \E n \in StackAbove(e.level) :
         Answers(e, out[n]) /\ \A m \in StackAbove(e.level) : m <= n

Satisfied(e) ==
    \/ ImplicitParentOf(e) = ""
    \/ \E n \in StackAbove(e.level) : Answers(e, out[n])

\* x carries on the run of orphans that starts at e.
SameOrphan(e, x) ==
    /\ x.level = e.level
    /\ IF e.kind = "inline" THEN x.kind = "inline" ELSE x.kind = e.kind /\ x.type = e.type

\* How many elements the run that starts at n has.
RunLength(n) ==
    Cardinality({k \in n .. Len(els) :
        \A m \in n .. k : SameOrphan(els[n], els[m]) \/ els[m].level > els[n].level})

\* The wrapper cannot sit at level 0, so a run at level 1 moves down instead.
Shift(l) == IF l <= 1 THEN 1 ELSE 0

Lowered(e, shift) == [e EXCEPT !.level = e.level + shift]

Keep ==
    /\ AtElement("wrap", els)
    /\ Satisfied(els[i])
    /\ stack' = StackAbove(els[i].level) \cup {Len(out) + 1}
    /\ out' = Append(out, els[i])
    /\ i' = i + 1
    /\ UNCHANGED <<input, pass, els, min_level>>

WrapRun ==
    /\ AtElement("wrap", els)
    /\ ~Satisfied(els[i])
    /\ LET e == els[i]
           shift == Shift(e.level)
           wrapper == [kind |-> "block", type |-> ImplicitParentOf(e),
                       level |-> e.level - 1 + shift, origin |-> 0]
           run == [k \in 1 .. RunLength(i) |-> Lowered(els[i + k - 1], shift)]
       IN  /\ out' = Append(out, wrapper) \o run
           /\ stack' = StackAbove(e.level) \cup {Len(out) + 1}
           /\ i' = i + RunLength(i)
    /\ UNCHANGED <<input, pass, els, min_level>>

EndWrap ==
    /\ Finish("wrap", els, "rebase")
    /\ els' = out
    /\ out' = << >>
    /\ stack' = {}
    /\ UNCHANGED <<input, min_level>>

-----------------------------------------------------------------------------
(* Pass 2, Rebase.                                                         *)

\* Mutated form: the minimum of the elements after the first.
MinOfTheRest(m, l) == IF i <= 2 \/ l < m THEN l ELSE m

MinSoFar(m, l) == IF i = 1 \/ l < m THEN l ELSE m

FindMin ==
    /\ AtElement("rebase", els)
    /\ min_level' = MinSoFar(min_level, els[i].level)
    /\ i' = i + 1
    /\ UNCHANGED <<input, pass, els, out, stack>>

EndRebase ==
    /\ Finish("rebase", els, "collapse")
    /\ els' = [n \in DOMAIN els |-> [els[n] EXCEPT !.level = els[n].level - (min_level - 1)]]
    /\ UNCHANGED <<input, out, stack, min_level>>

-----------------------------------------------------------------------------
(* Pass 3, CollapseJumps.                                                  *)

\* The elements pulled up with n: until something shallower than n.
PulledWith(n) == {k \in n .. Len(els) : \A m \in n .. k : els[m].level >= els[n].level}

Collapse ==
    /\ AtElement("collapse", els)
    /\ LET excess == els[i].level - (LevelBefore(els, i) + 1)
       IN  els' = IF excess <= 0 THEN els
                  ELSE [n \in DOMAIN els |->
                          IF n \in PulledWith(i)
                          THEN [els[n] EXCEPT !.level = els[n].level - excess]
                          ELSE els[n]]
    /\ i' = i + 1
    /\ UNCHANGED <<input, pass, out, stack, min_level>>

EndCollapse ==
    Finish("collapse", els, "done") /\ UNCHANGED <<input, els, out, stack, min_level>>

RepairNext ==
    \/ Load \/ EndLoad
    \/ Keep \/ WrapRun \/ EndWrap
    \/ FindMin \/ EndRebase
    \/ Collapse \/ EndCollapse

RepairSpec == RepairInit /\ [][RepairNext]_repairVars

-----------------------------------------------------------------------------
(* Properties.                                                             *)

Done == pass = "done"

\* Where the caller passed an element, and how many there are up to n.
Present == {n \in DOMAIN input : input[n] # NoElement}
CountUpTo(n) == Cardinality({m \in Present : m <= n})

\* The elements the caller passed, as the passes first see them.
Given ==
    LET Loaded(n) == [kind |-> input[n].kind, type |-> input[n].type,
                      level |-> IF input[n].level = NoLevel THEN 1 ELSE input[n].level,
                      origin |-> n]
    IN  [k \in 1 .. Cardinality(Present) |-> Loaded(CHOOSE n \in Present : CountUpTo(n) = k)]

\* The lists hold elements, the index never runs past the list it walks, and
\* the stack only names elements already in the output.
RepairTypeOK ==
    /\ input \in Seq(InputElement \cup {NoElement})
    /\ pass \in {"load", "wrap", "rebase", "collapse", "done"}
    /\ els \in Seq(Element) /\ out \in Seq(Element)
    /\ i \in 1 .. Len(IF pass = "load" THEN input ELSE els) + 1
    /\ stack \subseteq DOMAIN out
    /\ min_level \in Int

\* What pass 1 pops by comes out right only while levels grow along the stack.
StackGrows ==
    \A m, n \in stack : m < n => out[m].level <= out[n].level

\* Rules L2 and L3 hold of every repaired list, whatever the levels were: the
\* shallowest element is at 1 and no element is more than one deeper than the
\* one before it.
LevelsRepaired == Done => ShallowestIsOne(els) /\ NoLevelJump(els)

\* Repair "never touches an existing element" and drops none: without the
\* wrappers, the list is what the caller passed, in its order.
NothingLost ==
    LET kept == {n \in DOMAIN els : els[n].origin # 0}
    IN  Done =>
        /\ \A m, n \in kept : m < n => els[m].origin < els[n].origin
        /\ {els[n].origin : n \in kept} = Present
        /\ \A n \in kept : /\ els[n].kind = input[els[n].origin].kind
                           /\ els[n].type = input[els[n].origin].type

\* "A NO-OP on a whole document": why export may apply it unconditionally.
NoOpOnWholeDocuments == Done /\ WholeDocument(Given) => els = Given

\* A flat list of fragments at the top level comes out whole, however the
\* kinds of fragment alternate in it.
TopLevelFragmentsComeOutWhole ==
    Done /\ (\A n \in DOMAIN Given : Given[n].level = 1) => WholeDocument(els)

\* "Wrap orphaned fragments in their implicit parents" (duck_block_repair.hpp):
\* the same of a flat list at any level.
FlatFragmentsComeOutWhole ==
    Done /\ (\A n \in DOMAIN Given : Given[n].level = Given[1].level) => AncestorsPresent(els)
=============================================================================
