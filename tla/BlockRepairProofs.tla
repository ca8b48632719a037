------------------------- MODULE BlockRepairProofs -------------------------
(* RepairBlocks on every list of elements, of every type and level: the    *)
(* levels it leaves behind satisfy the list rules, the frames on its stack *)
(* are ordered as its popping loop needs them to be, no element is lost or *)
(* changed but in its level, a whole document comes back as it was, and a  *)
(* flat list at the top level comes out whole.                             *)
EXTENDS BlockRepair, SequenceTheorems, FiniteSetTheorems, TLAPS

\* While Rebase looks for the minimum, what it has is no deeper than anything
\* it has seen.
MinSoFarIsLow ==
    pass = "rebase" => \A n \in DOMAIN els : n < i => min_level <= els[n].level

\* From the rebase on nothing is above level 1, and CollapseJumps leaves no
\* jump behind it.
NoJumpBehind ==
    pass \in {"collapse", "done"} =>
        \A n \in DOMAIN els :
            /\ els[n].level >= 1
            /\ (pass = "done" \/ n < i) => els[n].level <= LevelBefore(els, n) + 1

RepairInv == RepairTypeOK /\ StackGrows /\ MinSoFarIsLow /\ NoJumpBehind

-----------------------------------------------------------------------------
(* Sequences of elements.                                                  *)

\* A function on 1 .. n is a sequence of length n.
LEMMA FunctionIsSequence ==
    ASSUME NEW S, NEW n \in Nat, NEW f \in [1 .. n -> S]
    PROVE  f \in Seq(S) /\ Len(f) = n /\ DOMAIN f = 1 .. n
<1>1. f \in Seq(S)
  BY SeqDef
<1> QED
  BY <1>1, LenProperties

\* Appending one element.
LEMMA Appended ==
    ASSUME NEW S, NEW s \in Seq(S), NEW e \in S
    PROVE  /\ Append(s, e) \in Seq(S)
           /\ Len(Append(s, e)) = Len(s) + 1
           /\ \A n \in 1 .. Len(s) : Append(s, e)[n] = s[n]
           /\ Append(s, e)[Len(s) + 1] = e
  OBVIOUS

\* Moving an element to another level.
LEMMA Relevelled ==
    ASSUME NEW e \in Element, NEW l \in Int
    PROVE  [e EXCEPT !.level = l] \in Element /\ [e EXCEPT !.level = l].level = l
  BY DEF Element

\* The elements of a list, and their levels.
LEMMA Elements ==
    ASSUME NEW list \in Seq(Element)
    PROVE  \A n \in 1 .. Len(list) : list[n] \in Element /\ list[n].level \in Int
<1>1. \A n \in 1 .. Len(list) : list[n] \in Element
  BY ElementOfSeq
<1> QED
  BY <1>1 DEF Element

\* A run starts where it starts and ends inside the list.
LEMMA RunInList ==
    ASSUME els \in Seq(Element), NEW n \in 1 .. Len(els)
    PROVE  RunLength(n) \in 0 .. Len(els) + 1 - n
<1>1. Len(els) \in Nat /\ n \in Int /\ n <= Len(els)
  BY LenProperties
<1> DEFINE run == {k \in n .. Len(els) :
                     \A m \in n .. k : SameOrphan(els[n], els[m]) \/ els[m].level > els[n].level}
<1>2. run \in SUBSET (n .. Len(els))
  OBVIOUS
<1>3. IsFiniteSet(n .. Len(els)) /\ Cardinality(n .. Len(els)) = Len(els) - n + 1
  BY <1>1, FS_Interval
<1> HIDE DEF run
<1>4. IsFiniteSet(run) /\ Cardinality(run) <= Len(els) - n + 1
  BY <1>2, <1>3, FS_Subset
<1>5. Cardinality(run) \in Nat
  BY <1>4, FS_CardinalityType
<1>6. RunLength(n) = Cardinality(run)
  BY DEF RunLength, run
<1> QED
  BY <1>1, <1>4, <1>5, <1>6

-----------------------------------------------------------------------------
(* The passes.                                                             *)

\* The invariant holds of the list that repair is given.
LEMMA RepairInitInv == RepairInit => RepairInv
<1> SUFFICES ASSUME RepairInit PROVE RepairInv
  OBVIOUS
<1>1. << >> \in Seq(Element) /\ input \in Seq(InputElement \cup {NoElement})
  BY EmptySeq, InputAssumption DEF RepairInit
<1>2. Len(input) \in Nat
  BY <1>1, LenProperties
<1> QED
  BY <1>1, <1>2 DEF RepairInit, RepairInv, RepairTypeOK, StackGrows, MinSoFarIsLow,
                    NoJumpBehind

\* Loading leaves everything but the working copies alone.
LEMMA LoadKeepsInv == RepairInv /\ (Load \/ EndLoad) => RepairInv'
<1> SUFFICES ASSUME RepairInv, Load \/ EndLoad PROVE RepairInv'
  OBVIOUS
<1>1. /\ els \in Seq(Element) /\ out \in Seq(Element)
      /\ input \in Seq(InputElement \cup {NoElement})
      /\ Len(els) \in Nat /\ Len(input) \in Nat /\ i \in Int
      /\ stack \subseteq DOMAIN out /\ min_level \in Int
  <2>1. Len(els) \in Nat /\ Len(input) \in Nat
    BY LenProperties DEF RepairInv, RepairTypeOK
  <2> QED
    BY <2>1 DEF RepairInv, RepairTypeOK
<1>2. CASE Load
  <2>1. i \in 1 .. Len(input) /\ pass = "load"
    BY <1>1, <1>2 DEF Load, AtElement, RepairInv, RepairTypeOK
  <2>2. els' \in Seq(Element)
    <3>1. CASE input[i] = NoElement
      BY <1>1, <1>2, <3>1 DEF Load
    <3>2. CASE input[i] # NoElement
      <4>1. input[i] \in InputElement
        BY <1>1, <2>1, <3>2, ElementOfSeq
      <4>2. WorkingCopy(i) \in Element
        BY <2>1, <4>1, <1>1 DEF WorkingCopy, LevelOf, InputElement, Element
      <4> QED
        BY <1>1, <1>2, <3>2, <4>2, Appended DEF Load
    <3> QED
      BY <3>1, <3>2
  <2> QED
    BY <1>1, <1>2, <2>1, <2>2
    DEF Load, RepairInv, RepairTypeOK, StackGrows, MinSoFarIsLow, NoJumpBehind
<1>3. CASE EndLoad
  BY <1>1, <1>3
  DEF EndLoad, Finish, RepairInv, RepairTypeOK, StackGrows, MinSoFarIsLow, NoJumpBehind
<1> QED
  BY <1>2, <1>3

\* Pushing a frame that is at least as deep as every frame left on the stack,
\* on top of everything the output already holds.
LEMMA PushKeepsStack ==
    ASSUME RepairInv, NEW l \in Int, NEW e \in Element, e.level >= l - 1,
           stack' = StackAbove(l) \cup {Len(out) + 1},
           out' \in Seq(Element), Len(out') >= Len(out) + 1,
           \A n \in 1 .. Len(out) : out'[n] = out[n],
           out'[Len(out) + 1] = e
    PROVE  stack' \subseteq DOMAIN out' /\ StackGrows'
<1>1. /\ out \in Seq(Element) /\ Len(out) \in Nat /\ DOMAIN out = 1 .. Len(out)
      /\ Len(out') \in Nat /\ DOMAIN out' = 1 .. Len(out')
      /\ stack \subseteq 1 .. Len(out)
  <2>1. out \in Seq(Element) /\ stack \subseteq DOMAIN out
    BY DEF RepairInv, RepairTypeOK
  <2> QED
    BY <2>1, LenProperties
<1>2. \A n \in StackAbove(l) :
         n \in 1 .. Len(out) /\ n \in stack /\ out[n].level < l /\ out[n].level \in Int
  <2>1. \A n \in 1 .. Len(out) : out[n] \in Element
    BY <1>1, ElementOfSeq
  <2> QED
    BY <1>1, <2>1 DEF StackAbove, Element
<1>3. stack' \subseteq DOMAIN out'
  BY <1>1, <1>2
<1>4. ASSUME NEW m \in stack', NEW n \in stack', m < n
      PROVE  out'[m].level <= out'[n].level
  <2>1. m \in StackAbove(l)
    BY <1>1, <1>2, <1>4
  <2>2. CASE n \in StackAbove(l)
    BY <1>2, <1>4, <2>1, <2>2 DEF RepairInv, StackGrows
  <2>3. CASE n = Len(out) + 1
    <3>1. out'[m] = out[m] /\ out[m].level \in Int /\ out[m].level < l
      BY <1>2, <2>1
    <3>2. out'[n] = e /\ e.level \in Int
      BY <2>3 DEF Element
    <3> QED
      BY <3>1, <3>2
  <2> QED
    BY <2>2, <2>3
<1> QED
  BY <1>3, <1>4 DEF StackGrows

\* WrapOrphans: one element kept, or one run wrapped.
LEMMA WrapKeepsInv == RepairInv /\ (Keep \/ WrapRun \/ EndWrap) => RepairInv'
<1> SUFFICES ASSUME RepairInv, Keep \/ WrapRun \/ EndWrap PROVE RepairInv'
  OBVIOUS
<1>1. /\ els \in Seq(Element) /\ out \in Seq(Element)
      /\ Len(els) \in Nat /\ Len(out) \in Nat
      /\ pass = "wrap" /\ i \in 1 .. Len(els) + 1
      /\ min_level \in Int /\ input \in Seq(InputElement \cup {NoElement})
  <2>1. els \in Seq(Element) /\ out \in Seq(Element)
    BY DEF RepairInv, RepairTypeOK
  <2>2. Len(els) \in Nat /\ Len(out) \in Nat
    BY <2>1, LenProperties
  <2> QED
    BY <2>1, <2>2 DEF RepairInv, RepairTypeOK, Keep, WrapRun, EndWrap, AtElement, Finish
<1>2. \A n \in 1 .. Len(els) : els[n] \in Element
  BY <1>1, ElementOfSeq
<1>3. ASSUME out' \in Seq(Element), stack' \subseteq DOMAIN out', StackGrows',
             i' \in 1 .. Len(els) + 1, UNCHANGED <<input, pass, els, min_level>>
      PROVE  RepairInv'
  BY <1>1, <1>3 DEF RepairInv, RepairTypeOK, MinSoFarIsLow, NoJumpBehind
<1>4. CASE Keep
  <2>1. i \in 1 .. Len(els) /\ els[i] \in Element
    BY <1>1, <1>2, <1>4 DEF Keep, AtElement
  <2>2. /\ out' \in Seq(Element) /\ Len(out') = Len(out) + 1
        /\ \A n \in 1 .. Len(out) : out'[n] = out[n]
        /\ out'[Len(out) + 1] = els[i]
    BY <1>1, <1>4, <2>1, Appended DEF Keep
  <2>3. els[i].level \in Int
    BY <2>1 DEF Element
  <2>4. stack' = StackAbove(els[i].level) \cup {Len(out) + 1}
    BY <1>4 DEF Keep
  <2>5. stack' \subseteq DOMAIN out' /\ StackGrows'
    <3>1. els[i].level >= els[i].level - 1 /\ Len(out') >= Len(out) + 1
      BY <1>1, <2>2, <2>3
    <3> QED
      BY <2>1, <2>2, <2>3, <2>4, <3>1, PushKeepsStack
  <2>6. i' \in 1 .. Len(els) + 1 /\ UNCHANGED <<input, pass, els, min_level>>
    BY <1>1, <1>4, <2>1 DEF Keep
  <2> QED
    BY <1>3, <2>2, <2>5, <2>6
<1>5. CASE WrapRun
  <2>1. i \in 1 .. Len(els) /\ els[i] \in Element
    BY <1>1, <1>2, <1>5 DEF WrapRun, AtElement
  <2> DEFINE e == els[i]
             shift == Shift(e.level)
             wrapper == [kind |-> "block", type |-> ImplicitParentOf(e),
                         level |-> e.level - 1 + shift, origin |-> 0]
             run == [k \in 1 .. RunLength(i) |-> Lowered(els[i + k - 1], shift)]
  <2>2. e.level \in Int /\ shift \in {0, 1}
    BY <2>1 DEF Element, Shift
  <2>3. wrapper \in Element
    <3>1. ImplicitParentOf(e) \in BlockType
      BY <1>5, BlockTypeAssumption DEF WrapRun, Satisfied, ImplicitParentOf
    <3> QED
      BY <2>2, <3>1 DEF Element, ElementKind
  <2>4. RunLength(i) \in 0 .. Len(els) + 1 - i
    BY <1>1, <2>1, RunInList
  <2>5. run \in Seq(Element)
    <3>1. \A k \in 1 .. RunLength(i) : els[i + k - 1] \in Element
      BY <1>1, <1>2, <2>1, <2>4
    <3>2. \A x \in Element : Lowered(x, shift) \in Element
      BY <2>2 DEF Lowered, Element
    <3>3. run \in [1 .. RunLength(i) -> Element]
      BY <3>1, <3>2
    <3>4. RunLength(i) \in Nat
      BY <2>4, <1>1
    <3> HIDE DEF run
    <3> QED
      BY <3>3, <3>4, FunctionIsSequence
  <2>6. out' = Append(out, wrapper) \o run
    BY <1>5 DEF WrapRun
  <2>7. stack' = StackAbove(e.level) \cup {Len(out) + 1}
    BY <1>5 DEF WrapRun
  <2>8. wrapper.level >= e.level - 1
    BY <2>2
  <2>9. i' \in 1 .. Len(els) + 1 /\ UNCHANGED <<input, pass, els, min_level>>
    BY <1>1, <1>5, <2>1, <2>4 DEF WrapRun
  <2> HIDE DEF wrapper, run, shift, e
  <2>10. /\ Append(out, wrapper) \in Seq(Element)
         /\ Len(Append(out, wrapper)) = Len(out) + 1
         /\ \A n \in 1 .. Len(out) : Append(out, wrapper)[n] = out[n]
         /\ Append(out, wrapper)[Len(out) + 1] = wrapper
    BY <1>1, <2>3, Appended
  <2>11. /\ out' \in Seq(Element)
         /\ Len(out') >= Len(out) + 1
         /\ \A n \in 1 .. Len(out) : out'[n] = out[n]
         /\ out'[Len(out) + 1] = wrapper
    <3>1. Len(run) \in Nat
      BY <2>5, LenProperties
    <3>2. /\ out' \in Seq(Element)
          /\ Len(out') = Len(out) + 1 + Len(run)
          /\ \A n \in 1 .. Len(out) + 1 + Len(run) :
                n <= Len(out) + 1 => out'[n] = Append(out, wrapper)[n]
      BY <2>5, <2>6, <2>10, ConcatProperties
    <3> QED
      BY <1>1, <2>10, <3>1, <3>2
  <2>12. stack' \subseteq DOMAIN out' /\ StackGrows'
    BY <2>2, <2>3, <2>7, <2>8, <2>11, PushKeepsStack
  <2> QED
    BY <1>3, <2>9, <2>11, <2>12
<1>6. CASE EndWrap
  <2>1. << >> \in Seq(Element)
    BY EmptySeq
  <2> QED
    BY <1>1, <1>6, <2>1
    DEF EndWrap, Finish, RepairInv, RepairTypeOK, StackGrows, MinSoFarIsLow, NoJumpBehind
<1> QED
  BY <1>4, <1>5, <1>6

\* Rebase: the minimum is found before every level is moved by it.
LEMMA RebaseKeepsInv == RepairInv /\ (FindMin \/ EndRebase) => RepairInv'
<1> SUFFICES ASSUME RepairInv, FindMin \/ EndRebase PROVE RepairInv'
  OBVIOUS
<1>1. /\ els \in Seq(Element) /\ Len(els) \in Nat /\ DOMAIN els = 1 .. Len(els)
      /\ pass = "rebase" /\ i \in 1 .. Len(els) + 1 /\ min_level \in Int
  <2>1. els \in Seq(Element)
    BY DEF RepairInv, RepairTypeOK
  <2> QED
    BY <2>1, LenProperties DEF RepairInv, RepairTypeOK, FindMin, EndRebase, AtElement, Finish
<1>2. \A n \in 1 .. Len(els) : els[n] \in Element /\ els[n].level \in Int
  BY <1>1, Elements
<1>3. CASE FindMin
  <2>1. i \in 1 .. Len(els)
    BY <1>1, <1>3 DEF FindMin, AtElement
  <2>2. min_level' \in Int /\ min_level' <= els[i].level /\ (i # 1 => min_level' <= min_level)
    BY <1>1, <1>2, <1>3, <2>1 DEF FindMin, MinSoFar
  <2>3. i' = i + 1 /\ UNCHANGED <<input, pass, els, out, stack>>
    BY <1>3 DEF FindMin
  <2>4. MinSoFarIsLow'
    BY <1>1, <1>2, <2>1, <2>2, <2>3 DEF RepairInv, MinSoFarIsLow
  <2> QED
    BY <1>1, <2>1, <2>2, <2>3, <2>4 DEF RepairInv, RepairTypeOK, StackGrows, NoJumpBehind
<1>4. CASE EndRebase
  <2>1. /\ pass' = "collapse" /\ i' = 1 /\ UNCHANGED <<input, out, stack, min_level>>
        /\ els' = [n \in 1 .. Len(els) |->
                     [els[n] EXCEPT !.level = els[n].level - (min_level - 1)]]
    BY <1>1, <1>4 DEF EndRebase, Finish
  <2>2. \A n \in 1 .. Len(els) :
          /\ [els[n] EXCEPT !.level = els[n].level - (min_level - 1)] \in Element
          /\ [els[n] EXCEPT !.level = els[n].level - (min_level - 1)].level
               = els[n].level - (min_level - 1)
    <3>1. \A n \in 1 .. Len(els) : els[n] \in Element /\ els[n].level - (min_level - 1) \in Int
      BY <1>1, <1>2
    <3> QED
      BY <3>1, Relevelled
  <2>3. els' \in [1 .. Len(els) -> Element]
    BY <2>1, <2>2
  <2>4. els' \in Seq(Element) /\ Len(els') = Len(els) /\ DOMAIN els' = 1 .. Len(els)
    BY <1>1, <2>3, FunctionIsSequence
  <2>5. \A n \in 1 .. Len(els) : min_level <= els[n].level
    BY <1>1, <1>4 DEF EndRebase, Finish, RepairInv, MinSoFarIsLow
  <2>6. \A n \in 1 .. Len(els) : els'[n].level >= 1
    <3>1. \A n \in 1 .. Len(els) : els'[n].level = els[n].level - (min_level - 1)
      BY <2>1, <2>2
    <3> QED
      BY <1>1, <1>2, <2>5, <3>1
  <2>7. NoJumpBehind'
    BY <2>1, <2>4, <2>6 DEF NoJumpBehind
  <2> QED
    BY <1>1, <2>1, <2>4, <2>7 DEF RepairInv, RepairTypeOK, StackGrows, MinSoFarIsLow
<1> QED
  BY <1>3, <1>4

\* CollapseJumps: what is pulled up stays below what stands before it.
LEMMA CollapseKeepsInv == RepairInv /\ (Collapse \/ EndCollapse) => RepairInv'
<1> SUFFICES ASSUME RepairInv, Collapse \/ EndCollapse PROVE RepairInv'
  OBVIOUS
<1>1. /\ els \in Seq(Element) /\ Len(els) \in Nat /\ DOMAIN els = 1 .. Len(els)
      /\ pass = "collapse" /\ i \in 1 .. Len(els) + 1
  <2>1. els \in Seq(Element)
    BY DEF RepairInv, RepairTypeOK
  <2> QED
    BY <2>1, LenProperties
    DEF RepairInv, RepairTypeOK, Collapse, EndCollapse, AtElement, Finish
<1>2. \A n \in 1 .. Len(els) : els[n] \in Element /\ els[n].level \in Int
  BY <1>1, Elements
<1>3. \A n \in 1 .. Len(els) : /\ els[n].level >= 1
                               /\ n < i => els[n].level <= LevelBefore(els, n) + 1
  BY <1>1 DEF RepairInv, NoJumpBehind
<1>4. CASE Collapse
  <2>1. i \in 1 .. Len(els) /\ i' = i + 1 /\ UNCHANGED <<input, pass, out, stack, min_level>>
    BY <1>1, <1>4 DEF Collapse, AtElement
  <2> DEFINE before == LevelBefore(els, i)
             excess == els[i].level - (before + 1)
  <2>2. before \in Nat
    BY <1>1, <1>2, <1>3, <2>1 DEF LevelBefore
  <2>3. CASE excess <= 0
    <3>1. els' = els
      BY <1>4, <2>3 DEF Collapse
    <3>2. els[i].level <= before + 1
      BY <1>2, <2>1, <2>2, <2>3
    <3>3. \A n \in 1 .. Len(els) : n < i + 1 => els[n].level <= LevelBefore(els, n) + 1
      BY <1>1, <1>3, <2>1, <3>2
    <3>4. NoJumpBehind'
      BY <1>1, <1>3, <2>1, <3>1, <3>3 DEF NoJumpBehind
    <3> QED
      BY <1>1, <2>1, <3>1, <3>4 DEF RepairInv, RepairTypeOK, StackGrows, MinSoFarIsLow
  <2>4. CASE excess > 0
    <3>1. els' = [n \in 1 .. Len(els) |->
                    IF n \in PulledWith(i)
                    THEN [els[n] EXCEPT !.level = els[n].level - excess]
                    ELSE els[n]]
      BY <1>1, <1>2, <1>4, <2>1, <2>2, <2>4 DEF Collapse
    <3>2. excess \in Int /\ before = els[i].level - excess - 1
      BY <1>2, <2>1, <2>2
    <3> HIDE DEF excess
    <3>3. \A n \in 1 .. Len(els) :
            /\ [els[n] EXCEPT !.level = els[n].level - excess] \in Element
            /\ [els[n] EXCEPT !.level = els[n].level - excess].level = els[n].level - excess
      <4>1. \A n \in 1 .. Len(els) : els[n] \in Element /\ els[n].level - excess \in Int
        BY <1>2, <3>2
      <4> QED
        BY <4>1, Relevelled
    <3>4. els' \in [1 .. Len(els) -> Element]
      BY <1>2, <3>1, <3>3
    <3>5. els' \in Seq(Element) /\ Len(els') = Len(els) /\ DOMAIN els' = 1 .. Len(els)
      BY <1>1, <3>4, FunctionIsSequence
    <3>6. /\ i \in PulledWith(i)
          /\ \A n \in PulledWith(i) : n >= i /\ n <= Len(els) /\ els[n].level >= els[i].level
      BY <1>1, <1>2, <2>1 DEF PulledWith
    <3>7. \A n \in 1 .. Len(els) : n < i => els'[n] = els[n]
      BY <1>1, <3>1, <3>6
    <3>8. els'[i].level = before + 1
      <4>1. els'[i] = [els[i] EXCEPT !.level = els[i].level - excess]
        BY <2>1, <3>1, <3>6
      <4>2. els'[i].level = els[i].level - excess
        BY <2>1, <3>3, <4>1
      <4> HIDE DEF before
      <4> QED
        BY <1>2, <2>1, <2>2, <3>2, <4>2
    <3>9. \A n \in 1 .. Len(els) : els'[n].level >= 1
      BY <1>2, <1>3, <2>1, <2>2, <3>1, <3>2, <3>3, <3>6
    <3>10. LevelBefore(els', i) = before
      BY <1>1, <2>1, <3>7 DEF LevelBefore
    <3>11. \A n \in 1 .. Len(els) : n < i =>
             els'[n].level <= LevelBefore(els', n) + 1
      BY <1>1, <1>3, <2>1, <3>7 DEF LevelBefore
    <3>12. \A n \in 1 .. Len(els) : n < i + 1 => els'[n].level <= LevelBefore(els', n) + 1
      BY <1>1, <2>1, <2>2, <3>8, <3>10, <3>11
    <3>13. NoJumpBehind'
      BY <1>1, <2>1, <3>5, <3>9, <3>12 DEF NoJumpBehind, LevelBefore
    <3> QED
      BY <1>1, <2>1, <3>5, <3>13 DEF RepairInv, RepairTypeOK, StackGrows, MinSoFarIsLow
  <2> QED
    BY <1>2, <2>1, <2>2, <2>3, <2>4
<1>5. CASE EndCollapse
  <2>1. pass' = "done" /\ i' = 1 /\ i > Len(els) /\ UNCHANGED <<input, els, out, stack, min_level>>
    BY <1>5 DEF EndCollapse, Finish
  <2>2. NoJumpBehind'
    BY <1>1, <1>3, <2>1 DEF NoJumpBehind, LevelBefore
  <2> QED
    BY <1>1, <2>1, <2>2 DEF RepairInv, RepairTypeOK, StackGrows, MinSoFarIsLow
<1> QED
  BY <1>4, <1>5

-----------------------------------------------------------------------------
(* The results.                                                            *)

\* Every step of repair keeps its invariant.
THEOREM RepairInvariant == RepairSpec => []RepairInv
<1>1. RepairInv /\ [RepairNext]_repairVars => RepairInv'
  <2>1. RepairInv /\ UNCHANGED repairVars => RepairInv'
    BY DEF repairVars, RepairInv, RepairTypeOK, StackGrows, MinSoFarIsLow, NoJumpBehind
  <2> QED
    BY <2>1, LoadKeepsInv, WrapKeepsInv, RebaseKeepsInv, CollapseKeepsInv DEF RepairNext
<1> QED
  BY <1>1, RepairInitInv, PTL DEF RepairSpec

\* Whatever list RepairBlocks is given, its working copies are elements and
\* its indices stay inside the lists they walk.
THEOREM RepairTyped == RepairSpec => []RepairTypeOK
  BY RepairInvariant, PTL DEF RepairInv

\* Levels never fall along WrapOrphans' stack, so popping from its top while
\* the top is not shallower leaves exactly the shallower frames.
THEOREM StackIsSorted == RepairSpec => []StackGrows
  BY RepairInvariant, PTL DEF RepairInv

\* Whatever levels it is given, RepairBlocks leaves a list whose shallowest
\* element is at level 1 and which has no level jump.
THEOREM LevelsAreRepaired == RepairSpec => []LevelsRepaired
<1>1. RepairInv => LevelsRepaired
  <2> SUFFICES ASSUME RepairInv, Done PROVE ShallowestIsOne(els) /\ NoLevelJump(els)
    BY DEF LevelsRepaired
  <2>1. els \in Seq(Element) /\ DOMAIN els = 1 .. Len(els) /\ Len(els) \in Nat
    BY LenProperties DEF RepairInv, RepairTypeOK
  <2>2. \A n \in DOMAIN els : els[n].level >= 1 /\ els[n].level <= LevelBefore(els, n) + 1
    BY DEF RepairInv, NoJumpBehind, Done
  <2>3. ASSUME els # << >> PROVE els[1].level = 1
    <3>1. 1 \in DOMAIN els
      BY <2>1, <2>3, EmptySeq
    <3>2. els[1] \in Element
      BY <2>1, <3>1, ElementOfSeq
    <3> QED
      BY <2>2, <3>1, <3>2 DEF LevelBefore, Element
  <2> QED
    BY <2>2, <2>3 DEF ShallowestIsOne, NoLevelJump
<1> QED
  BY <1>1, RepairInvariant, PTL

-----------------------------------------------------------------------------
(* The elements are the caller's.                                          *)

\* Every element that is not a wrapper is one the caller passed.
Copies(list) ==
    \A n \in DOMAIN list : list[n].origin # 0 =>
        /\ list[n].origin \in Present
        /\ list[n].kind = input[list[n].origin].kind
        /\ list[n].type = input[list[n].origin].type

\* They stand in the caller's order.
InOrder(list) ==
    \A m, n \in DOMAIN list :
        m < n /\ list[m].origin # 0 /\ list[n].origin # 0 => list[m].origin < list[n].origin

\* Every element the caller passed before a place is there.
Covers(list, limit) ==
    \A p \in Present : p < limit => \E n \in DOMAIN list : list[n].origin = p

\* What WrapOrphans has put out are the elements it has seen.
OutHoldsSeen ==
    /\ Copies(out) /\ InOrder(out)
    /\ \A n \in DOMAIN out : out[n].origin # 0 => \E k \in 1 .. i - 1 : out[n].origin = els[k].origin
    /\ \A k \in 1 .. i - 1 : \E n \in DOMAIN out : out[n].origin = els[k].origin

KeptInv ==
    /\ Copies(els) /\ InOrder(els)
    /\ pass \in {"load", "wrap"} => \A n \in DOMAIN els : els[n].origin # 0
    /\ pass = "load" => Covers(els, i) /\ (\A n \in DOMAIN els : els[n].origin < i) /\ out = << >>
    /\ pass # "load" => Covers(els, Len(input) + 1)
    /\ pass = "wrap" => OutHoldsSeen

\* The length of a list and the places in it.
LEMMA Lists ==
    ASSUME RepairTypeOK
    PROVE  /\ els \in Seq(Element) /\ Len(els) \in Nat /\ DOMAIN els = 1 .. Len(els)
           /\ out \in Seq(Element) /\ Len(out) \in Nat /\ DOMAIN out = 1 .. Len(out)
           /\ Len(input) \in Nat /\ DOMAIN input = 1 .. Len(input)
           /\ \A n \in 1 .. Len(els) : els[n] \in Element /\ els[n].level \in Int /\ els[n].origin \in Nat
           /\ \A n \in 1 .. Len(out) : out[n] \in Element /\ out[n].level \in Int /\ out[n].origin \in Nat
           /\ i \in Nat \ {0}
<1>1. els \in Seq(Element) /\ out \in Seq(Element) /\ input \in Seq(InputElement \cup {NoElement})
  BY DEF RepairTypeOK
<1>2. /\ Len(els) \in Nat /\ DOMAIN els = 1 .. Len(els)
      /\ Len(out) \in Nat /\ DOMAIN out = 1 .. Len(out)
      /\ Len(input) \in Nat /\ DOMAIN input = 1 .. Len(input)
  BY <1>1, LenProperties
<1>3. \A n \in 1 .. Len(els) : els[n] \in Element
  BY <1>1, ElementOfSeq
<1>4. \A n \in 1 .. Len(out) : out[n] \in Element
  BY <1>1, ElementOfSeq
<1>5. i \in Nat \ {0}
  BY <1>2 DEF RepairTypeOK
<1>6. \A e \in Element : e.level \in Int /\ e.origin \in Nat
  BY DEF Element
<1> QED
  BY <1>1, <1>2, <1>3, <1>4, <1>5, <1>6

\* The working copy of an element.
LEMMA CopyOf ==
    ASSUME RepairTypeOK, NEW n \in Present
    PROVE  /\ n \in 1 .. Len(input)
           /\ WorkingCopy(n) \in Element
           /\ WorkingCopy(n).origin = n
           /\ WorkingCopy(n).kind = input[n].kind /\ WorkingCopy(n).type = input[n].type
<1>1. n \in 1 .. Len(input) /\ n \in Nat /\ input[n] \in InputElement
  <2>1. input \in Seq(InputElement \cup {NoElement}) /\ n \in 1 .. Len(input) /\ input[n] # NoElement
    BY Lists DEF Present, RepairTypeOK
  <2> QED
    BY <2>1, ElementOfSeq
<1>2. LevelOf(input[n]) \in Int
  BY <1>1 DEF InputElement, LevelOf
<1> QED
  BY <1>1, <1>2 DEF WorkingCopy, InputElement, Element

\* A run holds at least the orphan it starts with.
LEMMA RunNotEmpty ==
    ASSUME RepairTypeOK, NEW n \in 1 .. Len(els)
    PROVE  RunLength(n) \in 1 .. Len(els) + 1 - n
<1> DEFINE run == {k \in n .. Len(els) :
                     \A m \in n .. k : SameOrphan(els[n], els[m]) \/ els[m].level > els[n].level}
<1>1. Len(els) \in Nat /\ n \in Nat
  BY Lists
<1>2. SameOrphan(els[n], els[n])
  BY DEF SameOrphan
<1>3. n \in run
  BY <1>1, <1>2
<1>4. run \subseteq n .. Len(els) /\ IsFiniteSet(n .. Len(els))
  BY <1>1, FS_Interval
<1> HIDE DEF run
<1>5. IsFiniteSet(run) /\ Cardinality(run) # 0
  BY <1>3, <1>4, FS_Subset, FS_EmptySet
<1>6. RunLength(n) = Cardinality(run)
  BY DEF RunLength, run
<1>7. RunLength(n) \in 0 .. Len(els) + 1 - n
  BY RunInList DEF RepairTypeOK
<1> QED
  BY <1>1, <1>5, <1>6, <1>7

\* The wrapper an orphan gets, and what a wrapped run puts out.
Wrapper(e) == [kind |-> "block", type |-> ImplicitParentOf(e),
               level |-> e.level - 1 + Shift(e.level), origin |-> 0]

\* A run of orphans is appended behind its wrapper.
LEMMA WrapRunGives ==
    ASSUME RepairTypeOK, WrapRun
    PROVE  /\ pass = "wrap" /\ UNCHANGED <<input, pass, els, min_level>>
           /\ i \in 1 .. Len(els) /\ ~Satisfied(els[i])
           /\ RunLength(i) \in 1 .. Len(els) + 1 - i /\ i' = i + RunLength(i)
           /\ out' \in Seq(Element)
           /\ DOMAIN out' = 1 .. Len(out) + 1 + RunLength(i)
           /\ \A n \in 1 .. Len(out) : out'[n] = out[n]
           /\ out'[Len(out) + 1] = Wrapper(els[i])
           /\ \A k \in 0 .. RunLength(i) - 1 :
                out'[Len(out) + 2 + k] = Lowered(els[i + k], Shift(els[i].level))
           /\ stack' = StackAbove(els[i].level) \cup {Len(out) + 1}
<1>1. pass = "wrap" /\ i \in 1 .. Len(els) /\ els[i] \in Element /\ els[i].level \in Int
  BY Lists DEF WrapRun, AtElement
<1> DEFINE e == els[i]
           shift == Shift(e.level)
           count == RunLength(i)
           run == [k \in 1 .. count |-> Lowered(els[i + k - 1], shift)]
<1>2. Wrapper(e) \in Element
  <2>1. ImplicitParentOf(e) \in BlockType
    BY BlockTypeAssumption DEF WrapRun, Satisfied, ImplicitParentOf
  <2>2. e.level - 1 + Shift(e.level) \in Int
    BY <1>1 DEF Shift
  <2> QED
    BY <2>1, <2>2 DEF Wrapper, Element, ElementKind
<1>3. count \in 1 .. Len(els) + 1 - i /\ count \in Nat /\ shift \in Int
  BY <1>1, Lists, RunNotEmpty DEF Shift
<1>4. run \in [1 .. count -> Element]
  <2>1. \A k \in 1 .. count : els[i + k - 1] \in Element
    BY <1>1, <1>3, Lists
  <2>2. \A x \in Element : Lowered(x, shift) \in Element
    BY <1>3 DEF Lowered, Element
  <2> QED
    BY <2>1, <2>2
<1>5. \A k \in 0 .. count - 1 : run[k + 1] = Lowered(els[i + k], shift)
  <2> TAKE k \in 0 .. count - 1
  <2>1. k + 1 \in 1 .. count /\ i + (k + 1) - 1 = i + k
    BY <1>1, <1>3
  <2> QED
    BY <2>1
<1>6. /\ out' = Append(out, Wrapper(e)) \o run /\ i' = i + count /\ ~Satisfied(e)
      /\ stack' = StackAbove(e.level) \cup {Len(out) + 1}
      /\ UNCHANGED <<input, pass, els, min_level>>
  BY DEF WrapRun, Wrapper
<1> HIDE DEF e, shift, count, run
<1>7. run \in Seq(Element) /\ Len(run) = count
  BY <1>3, <1>4, FunctionIsSequence
<1>8. /\ Append(out, Wrapper(e)) \in Seq(Element)
      /\ Len(Append(out, Wrapper(e))) = Len(out) + 1
      /\ \A n \in 1 .. Len(out) : Append(out, Wrapper(e))[n] = out[n]
      /\ Append(out, Wrapper(e))[Len(out) + 1] = Wrapper(e)
  BY <1>2, Lists, Appended
<1> DEFINE head == Append(out, Wrapper(e))
<1> HIDE DEF head
<1>14. head \in Seq(Element) /\ Len(head) = Len(out) + 1 /\ out' = head \o run
  BY <1>6, <1>8 DEF head
<1>15. /\ head \o run \in Seq(Element) /\ Len(head \o run) = Len(head) + Len(run)
       /\ \A n \in 1 .. Len(head) + Len(run) :
            (head \o run)[n] = IF n <= Len(head) THEN head[n] ELSE run[n - Len(head)]
  BY <1>7, <1>14, ConcatProperties
<1>9. /\ out' \in Seq(Element) /\ Len(out') = Len(out) + 1 + count
      /\ \A n \in 1 .. Len(out) + 1 + count :
           out'[n] = IF n <= Len(out) + 1 THEN Append(out, Wrapper(e))[n]
                     ELSE run[n - (Len(out) + 1)]
  BY <1>7, <1>14, <1>15 DEF head
<1>10. DOMAIN out' = 1 .. Len(out) + 1 + count
  BY <1>9, LenProperties
<1>11. Len(out) \in Nat
  BY Lists
<1>12. /\ \A n \in 1 .. Len(out) : out'[n] = out[n]
       /\ out'[Len(out) + 1] = Wrapper(e)
  BY <1>3, <1>8, <1>9, <1>11
<1>13. ASSUME NEW k \in 0 .. count - 1
       PROVE  out'[Len(out) + 2 + k] = Lowered(els[i + k], shift)
  <2>1. /\ Len(out) + 2 + k \in 1 .. Len(out) + 1 + count
        /\ ~(Len(out) + 2 + k <= Len(out) + 1)
        /\ Len(out) + 2 + k - (Len(out) + 1) = k + 1
    BY <1>3, <1>11
  <2> QED
    BY <1>5, <1>9, <2>1
<1> QED
  BY <1>1, <1>3, <1>6, <1>9, <1>10, <1>12, <1>13 DEF e, shift, count

\* What keeping an element puts out.
LEMMA KeepGives ==
    ASSUME RepairTypeOK, Keep
    PROVE  /\ pass = "wrap" /\ UNCHANGED <<input, pass, els, min_level>>
           /\ i \in 1 .. Len(els) /\ Satisfied(els[i]) /\ i' = i + 1
           /\ out' \in Seq(Element)
           /\ DOMAIN out' = 1 .. Len(out) + 1
           /\ \A n \in 1 .. Len(out) : out'[n] = out[n]
           /\ out'[Len(out) + 1] = els[i]
           /\ stack' = StackAbove(els[i].level) \cup {Len(out) + 1}
<1>1. i \in 1 .. Len(els) /\ els[i] \in Element /\ out \in Seq(Element)
  BY Lists DEF Keep, AtElement
<1>2. out' = Append(out, els[i])
  BY DEF Keep
<1>3. /\ out' \in Seq(Element) /\ Len(out') = Len(out) + 1
      /\ \A n \in 1 .. Len(out) : out'[n] = out[n]
      /\ out'[Len(out) + 1] = els[i]
  BY <1>1, <1>2, Appended
<1>4. DOMAIN out' = 1 .. Len(out) + 1
  BY <1>3, LenProperties
<1> QED
  BY <1>1, <1>3, <1>4 DEF Keep, AtElement

\* Loading appends the elements one by one.
LEMMA LoadKeeps == RepairInv /\ KeptInv /\ (Load \/ EndLoad) => KeptInv'
<1> SUFFICES ASSUME RepairInv, KeptInv, Load \/ EndLoad PROVE KeptInv'
  OBVIOUS
<1>1. RepairTypeOK
  BY DEF RepairInv
<1>2. CASE Load
  <2>1. /\ pass = "load" /\ pass' = "load" /\ i' = i + 1 /\ input' = input
        /\ Present' = Present /\ i \in DOMAIN input
    BY <1>1, <1>2, Lists DEF Load, AtElement, Present
  <2>2. CASE input[i] = NoElement
    <3>1. els' = els
      BY <1>2, <2>2 DEF Load
    <3>2. \A p \in Present : p < i + 1 => p < i
      BY <1>1, <2>2, Lists DEF Present
    <3>3. Copies(els)' /\ InOrder(els)' /\ Covers(els, i)'
      BY <2>1, <3>1, <3>2 DEF KeptInv, Copies, InOrder, Covers
    <3>4. \A n \in DOMAIN els' : els'[n].origin # 0 /\ els'[n].origin < i'
      BY <1>1, <2>1, <3>1, Lists DEF KeptInv
    <3>5. out' = << >>
      BY <1>2, <2>1 DEF KeptInv, Load
    <3> QED
      BY <2>1, <3>3, <3>4, <3>5 DEF KeptInv
  <2>3. CASE input[i] # NoElement
    <3> DEFINE e == WorkingCopy(i)
    <3>1. i \in Present /\ els' = Append(els, e)
      BY <1>2, <2>1, <2>3 DEF Load, Present
    <3>2. e \in Element /\ e.origin = i /\ e.kind = input[i].kind /\ e.type = input[i].type
      BY <1>1, <3>1, CopyOf
    <3> HIDE DEF e
    <3>3. /\ Len(els') = Len(els) + 1 /\ DOMAIN els' = 1 .. Len(els) + 1
          /\ \A n \in 1 .. Len(els) : els'[n] = els[n]
          /\ els'[Len(els) + 1] = e
      BY <1>1, <3>1, <3>2, Lists, Appended, LenProperties
    <3>4. /\ Len(els) \in Nat /\ DOMAIN els = 1 .. Len(els) /\ i \in Nat \ {0}
          /\ \A n \in 1 .. Len(els) : els[n].origin # 0 /\ els[n].origin < i
      BY <1>1, <2>1, Lists DEF KeptInv
    <3>5. Copies(els)'
      BY <2>1, <3>1, <3>2, <3>3, <3>4 DEF KeptInv, Copies
    <3>6. InOrder(els)'
      BY <2>1, <3>2, <3>3, <3>4 DEF KeptInv, InOrder
    <3>7. Covers(els, i)'
      <4>1. ASSUME NEW p \in Present, p < i + 1
            PROVE  \E n \in DOMAIN els' : els'[n].origin = p
        <5>1. CASE p = i
          BY <3>2, <3>3, <3>4, <5>1
        <5>2. CASE p # i
          <6>1. p < i
            BY <1>1, <3>4, <4>1, <5>2, Lists DEF Present
          <6>2. PICK n \in DOMAIN els : els[n].origin = p
            BY <2>1, <6>1 DEF KeptInv, Covers
          <6> QED
            BY <3>3, <3>4, <6>2
        <5> QED
          BY <5>1, <5>2
      <4> QED
        BY <2>1, <4>1 DEF Covers
    <3>8. \A n \in DOMAIN els' : els'[n].origin # 0 /\ els'[n].origin < i + 1
      <4>1. \A n \in 1 .. Len(els) : els[n].origin \in Nat
        BY <1>1, Lists
      <4> QED
        BY <3>2, <3>3, <3>4, <4>1
    <3>9. out' = << >>
      BY <1>2, <2>1 DEF KeptInv, Load
    <3> QED
      BY <2>1, <3>5, <3>6, <3>7, <3>8, <3>9 DEF KeptInv
  <2> QED
    BY <2>2, <2>3
<1>3. CASE EndLoad
  <2>1. /\ pass = "load" /\ pass' = "wrap" /\ i' = 1 /\ i > Len(input)
        /\ UNCHANGED <<input, els, out>> /\ Present' = Present
    BY <1>3 DEF EndLoad, Finish, Present
  <2>2. i = Len(input) + 1 
    BY <1>1, <2>1, Lists DEF RepairTypeOK
  <2>3. Copies(els)' /\ InOrder(els)' /\ Covers(els, Len(input) + 1)'
    BY <2>1, <2>2 DEF KeptInv, Copies, InOrder, Covers
  <2>4. OutHoldsSeen'
    <3>1. out' = << >> /\ i' - 1 = 0
      BY <2>1 DEF KeptInv
    <3> QED
      BY <3>1 DEF OutHoldsSeen, Copies, InOrder
  <2> QED
    BY <2>1, <2>3, <2>4 DEF KeptInv
<1> QED
  BY <1>2, <1>3

\* WrapOrphans puts out what it has seen, with wrappers between.
LEMMA WrapKeeps == RepairInv /\ KeptInv /\ (Keep \/ WrapRun \/ EndWrap) => KeptInv'
<1> SUFFICES ASSUME RepairInv, KeptInv, Keep \/ WrapRun \/ EndWrap PROVE KeptInv'
  OBVIOUS
<1>1. RepairTypeOK
  BY DEF RepairInv
<1>2. /\ pass = "wrap" /\ OutHoldsSeen /\ Copies(els) /\ InOrder(els)
      /\ Covers(els, Len(input) + 1)
      /\ \A n \in 1 .. Len(els) : els[n].origin \in Nat \ {0}
      /\ input' = input /\ Present' = Present
  <2>1. pass = "wrap" /\ input' = input
    BY DEF Keep, WrapRun, EndWrap, AtElement, Finish
  <2> QED
    BY <1>1, <2>1, Lists DEF KeptInv, Present
\* What has been put out grows by one element that stands further down.
<1>3. ASSUME i \in 1 .. Len(els), NEW shown \in Nat, shown > 0, i + shown <= Len(els) + 1,
             UNCHANGED <<input, pass, els>>, i' = i + shown,
             NEW first \in Nat, first > Len(out), DOMAIN out' = 1 .. first + shown - 1,
             \A n \in 1 .. Len(out) : out'[n] = out[n],
             \A n \in Len(out) + 1 .. first - 1 : out'[n].origin = 0,
             \A k \in 0 .. shown - 1 :
                 /\ out'[first + k].origin = els[i + k].origin
                 /\ out'[first + k].kind = els[i + k].kind
                 /\ out'[first + k].type = els[i + k].type
      PROVE  KeptInv'
  <2>1. \A n \in 1 .. first + shown - 1 :
          \/ n \in 1 .. Len(out) /\ out'[n] = out[n]
          \/ n \in Len(out) + 1 .. first - 1 /\ out'[n].origin = 0
          \/ \E k \in 0 .. shown - 1 : n = first + k
    <3> TAKE n \in 1 .. first + shown - 1
    <3>1. Len(out) \in Nat
      BY <1>1, Lists
    <3>2. CASE n >= first
      <4>1. n - first \in 0 .. shown - 1 /\ n = first + (n - first)
        BY <1>3, <3>2
      <4> QED
        BY <4>1
    <3> QED
      BY <1>3, <3>1, <3>2
  <2>2. Copies(out)'
    <3>1. \A k \in 0 .. shown - 1 : i + k \in DOMAIN els
      BY <1>1, <1>3, Lists
    <3> SUFFICES ASSUME NEW n \in DOMAIN out', out'[n].origin # 0
                 PROVE  /\ out'[n].origin \in Present
                        /\ out'[n].kind = input[out'[n].origin].kind
                        /\ out'[n].type = input[out'[n].origin].type
      BY <1>2 DEF Copies
    <3>2. CASE n \in 1 .. Len(out)
      <4>1. n \in DOMAIN out /\ out'[n] = out[n]
        BY <1>1, <1>3, <3>2, Lists
      <4> QED
        BY <1>2, <4>1 DEF OutHoldsSeen, Copies
    <3>3. ASSUME NEW k \in 0 .. shown - 1, n = first + k
          PROVE  /\ out'[n].origin \in Present
                 /\ out'[n].kind = input[out'[n].origin].kind
                 /\ out'[n].type = input[out'[n].origin].type
      <4>1. /\ out'[n].origin = els[i + k].origin
            /\ out'[n].kind = els[i + k].kind
            /\ out'[n].type = els[i + k].type
        BY <1>3, <3>3
      <4> QED
        BY <1>2, <3>1, <4>1 DEF Copies
    <3>4. n \in 1 .. Len(out) \/ \E k \in 0 .. shown - 1 : n = first + k
      BY <1>3, <2>1
    <3> QED
      BY <3>2, <3>3, <3>4
  <2>3. InOrder(out)'
    <3> SUFFICES ASSUME NEW m \in DOMAIN out', NEW n \in DOMAIN out', m < n,
                        out'[m].origin # 0, out'[n].origin # 0
                 PROVE  out'[m].origin < out'[n].origin
      BY DEF InOrder
    <3>1. CASE n \in 1 .. Len(out) 
      <4>1. m \in 1 .. Len(out)
        BY <1>1, <1>3, <3>1, Lists
      <4> QED
        BY <1>1, <1>2, <1>3, <3>1, <4>1, Lists DEF OutHoldsSeen, InOrder
    <3>2. ASSUME NEW l \in 0 .. shown - 1, n = first + l
          PROVE  out'[m].origin < out'[n].origin
      <4>1. \E k \in 1 .. i + l - 1 : out'[m].origin = els[k].origin
        <5>1. CASE m \in 1 .. Len(out)
          <6>0. m \in DOMAIN out /\ out'[m] = out[m] /\ out[m].origin # 0
            BY <1>1, <1>3, <5>1, Lists
          <6>1. PICK k \in 1 .. i - 1 : out[m].origin = els[k].origin
            BY <1>2, <6>0 DEF OutHoldsSeen
          <6>2. k \in 1 .. i + l - 1 /\ out'[m] = out[m]
            BY <1>3, <5>1
          <6> QED
            BY <6>1, <6>2
        <5>2. ASSUME NEW k \in 0 .. shown - 1, m = first + k
              PROVE  \E j \in 1 .. i + l - 1 : out'[m].origin = els[j].origin
          <6>1. i + k \in 1 .. i + l - 1
            BY <1>3, <3>2, <5>2
          <6> QED
            BY <1>3, <5>2, <6>1
        <5>3. m \in 1 .. Len(out) \/ \E k \in 0 .. shown - 1 : m = first + k
          BY <1>3, <2>1
        <5> QED
          BY <5>1, <5>2, <5>3
      <4>2. PICK k \in 1 .. i + l - 1 : out'[m].origin = els[k].origin
        BY <4>1
      <4>3. k \in DOMAIN els /\ i + l \in DOMAIN els /\ k < i + l
        BY <1>1, <1>3, <4>2, Lists
      <4>4. els[k].origin < els[i + l].origin
        BY <1>1, <1>2, <4>3, Lists DEF InOrder
      <4> QED
        BY <1>3, <3>2, <4>2, <4>4
    <3> QED
      BY <1>3, <2>1, <3>1, <3>2
  <2>4. \A n \in DOMAIN out' : out'[n].origin # 0 => \E k \in 1 .. i' - 1 : out'[n].origin = els[k].origin
    <3> SUFFICES ASSUME NEW n \in DOMAIN out', out'[n].origin # 0
                 PROVE  \E k \in 1 .. i' - 1 : out'[n].origin = els[k].origin
      OBVIOUS
    <3>1. CASE n \in 1 .. Len(out)
      <4>1. PICK k \in 1 .. i - 1 : out[n].origin = els[k].origin
        BY <1>1, <1>2, <1>3, <3>1, Lists DEF OutHoldsSeen
      <4> QED
        BY <1>3, <3>1, <4>1
    <3>2. ASSUME NEW k \in 0 .. shown - 1, n = first + k
          PROVE  \E j \in 1 .. i' - 1 : out'[n].origin = els[j].origin
      <4>1. i + k \in 1 .. i' - 1
        BY <1>3
      <4> QED
        BY <1>3, <3>2, <4>1
    <3> QED
      BY <1>3, <2>1, <3>1, <3>2
  <2>5. \A k \in 1 .. i' - 1 : \E n \in DOMAIN out' : out'[n].origin = els[k].origin
    <3> TAKE k \in 1 .. i' - 1
    <3>1. CASE k < i
      <4>3. k \in 1 .. i - 1
        BY <1>3, <3>1
      <4>1. PICK n \in DOMAIN out : out[n].origin = els[k].origin
        BY <1>2, <4>3 DEF OutHoldsSeen
      <4>2. n \in DOMAIN out' /\ out'[n] = out[n]
        BY <1>1, <1>3, Lists
      <4> QED
        BY <4>1, <4>2
    <3>2. CASE k >= i
      <4>1. /\ k - i \in 0 .. shown - 1 /\ i + (k - i) = k
            /\ first + (k - i) \in DOMAIN out'
        BY <1>3, <3>2
      <4> QED
        BY <1>3, <4>1
    <3> QED
      BY <1>3, <3>1, <3>2
  <2>6. OutHoldsSeen'
    BY <1>3, <2>2, <2>3, <2>4, <2>5 DEF OutHoldsSeen
  <2>7. Copies(els)' /\ InOrder(els)' /\ Covers(els, Len(input) + 1)'
    BY <1>2, <1>3 DEF Copies, InOrder, Covers
  <2> QED
    BY <1>2, <1>3, <2>6, <2>7 DEF KeptInv
<1>4. CASE Keep
  <2>1. Len(out) + 1 \in Nat /\ Len(out) + 1 > Len(out) /\ i + 1 <= Len(els) + 1
    BY <1>1, <1>4, Lists, KeepGives
  <2>2. DOMAIN out' = 1 .. (Len(out) + 1) + 1 - 1
    BY <1>1, <1>4, <2>1, KeepGives
  <2>3. \A n \in Len(out) + 1 .. (Len(out) + 1) - 1 : FALSE
    BY <2>1
  <2>4. \A k \in 0 .. 1 - 1 : k = 0 /\ (Len(out) + 1) + k = Len(out) + 1 /\ i + k = i
    BY <1>1, <2>1, Lists
  <2>5. \A k \in 0 .. 1 - 1 : /\ out'[(Len(out) + 1) + k].origin = els[i + k].origin
                              /\ out'[(Len(out) + 1) + k].kind = els[i + k].kind
                              /\ out'[(Len(out) + 1) + k].type = els[i + k].type
    BY <1>1, <1>4, <2>4, KeepGives
  <2>6. /\ i \in 1 .. Len(els) /\ i' = i + 1 /\ UNCHANGED <<input, pass, els>>
        /\ \A n \in 1 .. Len(out) : out'[n] = out[n]
    BY <1>1, <1>4, KeepGives
  <2> QED
    BY <1>3, <2>1, <2>2, <2>3, <2>5, <2>6
<1>5. CASE WrapRun
  <2> DEFINE count == RunLength(i)
  <2>1. /\ i \in 1 .. Len(els) /\ count \in 1 .. Len(els) + 1 - i /\ i' = i + count
        /\ UNCHANGED <<input, pass, els>>
        /\ DOMAIN out' = 1 .. Len(out) + 1 + count
        /\ \A n \in 1 .. Len(out) : out'[n] = out[n]
        /\ out'[Len(out) + 1] = Wrapper(els[i])
        /\ \A k \in 0 .. count - 1 :
             out'[Len(out) + 2 + k] = Lowered(els[i + k], Shift(els[i].level))
    BY <1>1, <1>5, WrapRunGives
  <2> HIDE DEF count
  <2>2. /\ Len(out) \in Nat /\ Len(els) \in Nat /\ count \in Nat /\ count > 0
        /\ i + count <= Len(els) + 1
        /\ Len(out) + 2 \in Nat /\ Len(out) + 2 > Len(out)
        /\ DOMAIN out' = 1 .. (Len(out) + 2) + count - 1
    BY <1>1, <2>1, Lists
  <2>3. \A n \in Len(out) + 1 .. (Len(out) + 2) - 1 : out'[n].origin = 0
    <3>1. \A n \in Len(out) + 1 .. (Len(out) + 2) - 1 : n = Len(out) + 1
      BY <2>2
    <3> QED
      BY <2>1, <3>1 DEF Wrapper
  <2>4. ASSUME NEW k \in 0 .. count - 1
        PROVE  /\ out'[(Len(out) + 2) + k].origin = els[i + k].origin
               /\ out'[(Len(out) + 2) + k].kind = els[i + k].kind
               /\ out'[(Len(out) + 2) + k].type = els[i + k].type
    <3>1. i + k \in 1 .. Len(els)
      BY <2>1, <2>2
    <3>2. els[i + k] \in Element
      BY <1>1, <3>1, Lists
    <3>3. \A x \in Element : \A s : /\ Lowered(x, s).origin = x.origin
                                    /\ Lowered(x, s).kind = x.kind
                                    /\ Lowered(x, s).type = x.type
      BY DEF Lowered, Element
    <3>4. out'[(Len(out) + 2) + k] = Lowered(els[i + k], Shift(els[i].level))
      BY <2>1
    <3> QED
      BY <3>2, <3>3, <3>4
  <2> QED
    BY <1>3, <2>1, <2>2, <2>3, <2>4
<1>6. CASE EndWrap
  <2>1. /\ pass' = "rebase" /\ i > Len(els) /\ els' = out /\ UNCHANGED input
    BY <1>6 DEF EndWrap, Finish
  <2>2. i - 1 = Len(els)
    BY <1>1, <1>2, <2>1, Lists DEF RepairTypeOK
  <2>3. Copies(els)' /\ InOrder(els)'
    BY <1>2, <2>1 DEF OutHoldsSeen, Copies, InOrder
  <2>4. Covers(els, Len(input) + 1)'
    <3>1. ASSUME NEW p \in Present, p < Len(input) + 1
          PROVE  \E n \in DOMAIN out : out[n].origin = p
      <4>1. PICK k \in 1 .. Len(els) : els[k].origin = p
        BY <1>1, <1>2, <3>1, Lists DEF Covers
      <4> QED
        BY <1>2, <2>2, <4>1 DEF OutHoldsSeen
    <3> QED
      BY <1>2, <2>1, <3>1 DEF Covers
  <2> QED
    BY <2>1, <2>3, <2>4 DEF KeptInv
<1> QED
  BY <1>4, <1>5, <1>6

\* The passes after it only move elements to other levels.
LEMMA RelevelKeeps ==
    ASSUME RepairTypeOK, KeptInv, input' = input, pass' \in {"rebase", "collapse", "done"},
           pass \in {"rebase", "collapse", "done"},
           DOMAIN els' = DOMAIN els,
           \A n \in DOMAIN els : /\ els'[n].origin = els[n].origin
                                 /\ els'[n].kind = els[n].kind
                                 /\ els'[n].type = els[n].type
    PROVE  KeptInv'
<1>1. Present' = Present
  BY DEF Present
<1>2. Copies(els)'
  BY <1>1 DEF KeptInv, Copies
<1>3. InOrder(els)'
  BY DEF KeptInv, InOrder
<1>4. Covers(els, Len(input) + 1)'
  BY <1>1 DEF KeptInv, Covers
<1> QED
  BY <1>2, <1>3, <1>4 DEF KeptInv

\* The passes over the levels keep every element.
LEMMA LevelPassesKeep ==
    RepairInv /\ KeptInv /\ (FindMin \/ EndRebase \/ Collapse \/ EndCollapse) => KeptInv'
<1> SUFFICES ASSUME RepairInv, KeptInv, FindMin \/ EndRebase \/ Collapse \/ EndCollapse
             PROVE  KeptInv'
  OBVIOUS
<1>1. RepairTypeOK
  BY DEF RepairInv
<1>2. /\ input' = input
      /\ pass \in {"rebase", "collapse", "done"} /\ pass' \in {"rebase", "collapse", "done"}
  BY DEF FindMin, EndRebase, Collapse, EndCollapse, AtElement, Finish
<1>3. \A e \in Element : \A l : /\ [e EXCEPT !.level = l].origin = e.origin
                                /\ [e EXCEPT !.level = l].kind = e.kind
                                /\ [e EXCEPT !.level = l].type = e.type
  BY DEF Element
<1>4. \A n \in DOMAIN els : els[n] \in Element
  BY <1>1, Lists
<1>5. CASE FindMin \/ EndCollapse
  <2>1. els' = els
    BY <1>5 DEF FindMin, EndCollapse
  <2> QED
    BY <1>1, <1>2, <2>1, RelevelKeeps
<1>6. CASE EndRebase
  <2>1. els' = [n \in DOMAIN els |-> [els[n] EXCEPT !.level = els[n].level - (min_level - 1)]]
    BY <1>6 DEF EndRebase
  <2>2. DOMAIN els' = DOMAIN els
    BY <2>1
  <2>3. \A n \in DOMAIN els : /\ els'[n].origin = els[n].origin
                              /\ els'[n].kind = els[n].kind
                              /\ els'[n].type = els[n].type
    BY <1>3, <1>4, <2>1
  <2> QED
    BY <1>1, <1>2, <2>2, <2>3, RelevelKeeps
<1>7. CASE Collapse
  <2> DEFINE excess == els[i].level - (LevelBefore(els, i) + 1)
             pulled == [n \in DOMAIN els |->
                          IF n \in PulledWith(i)
                          THEN [els[n] EXCEPT !.level = els[n].level - excess]
                          ELSE els[n]]
  <2>1. els' = els \/ els' = pulled
    BY <1>7 DEF Collapse
  <2>2. DOMAIN pulled = DOMAIN els
    OBVIOUS
  <2>3. \A n \in DOMAIN els : /\ pulled[n].origin = els[n].origin
                              /\ pulled[n].kind = els[n].kind
                              /\ pulled[n].type = els[n].type
    BY <1>3, <1>4
  <2> HIDE DEF pulled
  <2> QED
    BY <1>1, <1>2, <2>1, <2>2, <2>3, RelevelKeeps
<1> QED
  BY <1>5, <1>6, <1>7

\* Between a repair's steps the elements are the caller's.
LEMMA KeptInvariant == RepairSpec => []KeptInv
<1>1. RepairInit => KeptInv
  <2> SUFFICES ASSUME RepairInit PROVE KeptInv
    OBVIOUS
  <2>1. els = << >> /\ out = << >> /\ i = 1 /\ pass = "load" /\ input \in Seq(InputElement \cup {NoElement})
    BY InputAssumption DEF RepairInit
  <2>2. \A p \in Present : ~(p < 1)
    BY <2>1, LenProperties DEF Present
  <2> QED
    BY <2>1, <2>2 DEF KeptInv, Copies, InOrder, Covers
<1>2. RepairInv /\ KeptInv /\ [RepairNext]_repairVars => KeptInv'
  <2>1. KeptInv /\ UNCHANGED repairVars => KeptInv'
    BY DEF repairVars, KeptInv, Copies, InOrder, Covers, OutHoldsSeen, Present
  <2> QED
    BY <2>1, LoadKeeps, WrapKeeps, LevelPassesKeep DEF RepairNext
<1> QED
  BY <1>1, <1>2, RepairInvariant, PTL DEF RepairSpec

\* Whatever list RepairBlocks is given, every element of it comes out, once,
\* in its place among the others and of its own kind and type.
THEOREM NothingIsLost == RepairSpec => []NothingLost
<1>1. RepairInv /\ KeptInv => NothingLost
  <2> SUFFICES ASSUME RepairInv, KeptInv, Done PROVE NothingLost
    BY DEF NothingLost
  <2> DEFINE kept == {n \in DOMAIN els : els[n].origin # 0}
  <2>1. \A m, n \in kept : m < n => els[m].origin < els[n].origin
    BY DEF KeptInv, InOrder
  <2>2. {els[n].origin : n \in kept} = Present
    <3>1. {els[n].origin : n \in kept} \subseteq Present
      BY DEF KeptInv, Copies
    <3>2. ASSUME NEW p \in Present PROVE p \in {els[n].origin : n \in kept}
      <4>1. p \in 1 .. Len(input) /\ Len(input) \in Nat
        BY Lists DEF RepairInv, Present
      <4>2. Covers(els, Len(input) + 1) /\ p < Len(input) + 1 /\ p # 0
        BY <4>1 DEF KeptInv, Done
      <4>3. PICK n \in DOMAIN els : els[n].origin = p
        BY <4>2 DEF Covers
      <4> QED
        BY <4>2, <4>3
    <3> QED
      BY <3>1, <3>2
  <2>3. \A n \in kept : /\ els[n].kind = input[els[n].origin].kind
                        /\ els[n].type = input[els[n].origin].type
    BY DEF KeptInv, Copies
  <2> QED
    BY <2>1, <2>2, <2>3 DEF NothingLost
<1> QED
  BY <1>1, RepairInvariant, KeptInvariant, PTL

-----------------------------------------------------------------------------
(* What the passes first see.                                              *)

\* The elements loading has seen.
Seen == {n \in Present : n < i}

\* Loading has put the elements it has seen each at its place among them.
LoadedInv ==
    /\ pass = "load" =>
         /\ Len(els) = Cardinality(Seen)
         /\ \A n \in Seen : /\ CountUpTo(n) \in 1 .. Len(els)
                            /\ els[CountUpTo(n)] = WorkingCopy(n)
         /\ \A k \in 1 .. Len(els) : \E n \in Seen : CountUpTo(n) = k
    /\ pass = "wrap" => els = Given

\* The caller's elements are finitely many.
LEMMA PresentFinite ==
    ASSUME RepairTypeOK
    PROVE  IsFiniteSet(Present) /\ \A S \in SUBSET Present : IsFiniteSet(S) /\ Cardinality(S) \in Nat
<1>1. Present \subseteq 1 .. Len(input) /\ Len(input) \in Nat
  BY Lists DEF Present
<1>2. IsFiniteSet(1 .. Len(input))
  BY <1>1, FS_Interval
<1> QED
  BY <1>1, <1>2, FS_Subset, FS_CardinalityType

\* Loading the next element gives it the next place.
LEMMA LoadCounts == RepairInv /\ LoadedInv /\ Load => LoadedInv'
<1> SUFFICES ASSUME RepairInv, LoadedInv, Load PROVE LoadedInv'
  OBVIOUS
<1>1. RepairTypeOK
  BY DEF RepairInv
<1>2. /\ pass = "load" /\ pass' = "load" /\ i' = i + 1 /\ input' = input
      /\ Present' = Present /\ i \in DOMAIN input
      /\ \A n : CountUpTo(n)' = CountUpTo(n)
      /\ \A n : WorkingCopy(n)' = WorkingCopy(n)
  BY <1>1, Lists DEF Load, AtElement, Present, CountUpTo, WorkingCopy, LevelOf
<1>3. /\ Len(els) = Cardinality(Seen)
      /\ \A n \in Seen : /\ CountUpTo(n) \in 1 .. Len(els)
                         /\ els[CountUpTo(n)] = WorkingCopy(n)
      /\ \A k \in 1 .. Len(els) : \E n \in Seen : CountUpTo(n) = k
  BY <1>2 DEF LoadedInv
<1>4. i \in Nat /\ \A n \in Present : n \in Nat
  BY <1>1, Lists DEF Present
<1>5. CASE input[i] = NoElement
  <2>1. els' = els
    BY <1>5 DEF Load
  <2>2. Seen' = Seen
    BY <1>2, <1>4, <1>5 DEF Seen, Present
  <2> QED
    BY <1>2, <1>3, <2>1, <2>2 DEF LoadedInv
<1>6. CASE input[i] # NoElement
  <2>1. i \in Present /\ i \notin Seen /\ els' = Append(els, WorkingCopy(i))
    BY <1>2, <1>4, <1>6 DEF Load, Present, Seen
  <2>2. Seen' = Seen \cup {i} /\ {m \in Present : m <= i} = Seen \cup {i}
    BY <1>2, <1>4, <2>1 DEF Seen
  <2>3. Cardinality(Seen \cup {i}) = Len(els) + 1 /\ Len(els) \in Nat
    <3>1. IsFiniteSet(Seen) /\ Cardinality(Seen) \in Nat
      BY <1>1, PresentFinite DEF Seen
    <3> QED
      BY <1>3, <2>1, <3>1, FS_AddElement
  <2>4. CountUpTo(i) = Len(els) + 1
    BY <2>2, <2>3 DEF CountUpTo
  <2>5. /\ Len(els') = Len(els) + 1
        /\ \A k \in 1 .. Len(els) : els'[k] = els[k]
        /\ els'[Len(els) + 1] = WorkingCopy(i)
    <3>1. WorkingCopy(i) \in Element /\ els \in Seq(Element)
      BY <1>1, <2>1, Lists, CopyOf
    <3> QED
      BY <2>1, <3>1, Appended
  <2>6. Len(els') = Cardinality(Seen')
    BY <2>2, <2>3, <2>5
  <2>7. \A n \in Seen' : /\ CountUpTo(n) \in 1 .. Len(els')
                         /\ els'[CountUpTo(n)] = WorkingCopy(n)
    <3> SUFFICES ASSUME NEW n \in Seen \cup {i}
                 PROVE  /\ CountUpTo(n) \in 1 .. Len(els')
                        /\ els'[CountUpTo(n)] = WorkingCopy(n)
      BY <2>2
    <3>1. CASE n = i
      BY <2>3, <2>4, <2>5, <3>1
    <3>2. CASE n \in Seen
      <4>1. CountUpTo(n) \in 1 .. Len(els) /\ els[CountUpTo(n)] = WorkingCopy(n)
        BY <1>3, <3>2
      <4> QED
        BY <2>3, <2>5, <4>1
    <3> QED
      BY <3>1, <3>2
  <2>8. \A k \in 1 .. Len(els') : \E n \in Seen' : CountUpTo(n) = k
    <3> TAKE k \in 1 .. Len(els')
    <3>1. CASE k \in 1 .. Len(els)
      BY <1>3, <2>2, <3>1
    <3>2. CASE k = Len(els) + 1
      BY <2>2, <2>4, <3>2
    <3> QED
      BY <2>3, <2>5, <3>1, <3>2
  <2> QED
    BY <1>2, <2>6, <2>7, <2>8 DEF LoadedInv
<1> QED
  BY <1>5, <1>6

\* When loading ends the working copies are what the caller gave.
LEMMA LoadEnds == RepairInv /\ LoadedInv /\ EndLoad => LoadedInv'
<1> SUFFICES ASSUME RepairInv, LoadedInv, EndLoad PROVE LoadedInv'
  OBVIOUS
<1>1. RepairTypeOK
  BY DEF RepairInv
<1>2. pass = "load" /\ pass' = "wrap" /\ i > Len(input) /\ els' = els /\ input' = input
  BY DEF EndLoad, Finish
<1>3. Seen = Present
  BY <1>1, <1>2, Lists DEF Seen, Present
<1>4. /\ Len(els) = Cardinality(Present)
      /\ \A n \in Present : els[CountUpTo(n)] = WorkingCopy(n)
      /\ \A k \in 1 .. Len(els) : \E n \in Present : CountUpTo(n) = k
  BY <1>2, <1>3 DEF LoadedInv
<1> DEFINE at(k) == CHOOSE n \in Present : CountUpTo(n) = k
<1>5. \A k \in 1 .. Len(els) : at(k) \in Present /\ CountUpTo(at(k)) = k
  BY <1>4
<1> HIDE DEF at
<1>6. \A k \in 1 .. Len(els) : els[k] = WorkingCopy(at(k))
  BY <1>4, <1>5
<1>7. Given = [k \in 1 .. Len(els) |-> WorkingCopy(at(k))]
  BY <1>4 DEF Given, WorkingCopy, LevelOf, at
<1>8. els = [k \in 1 .. Len(els) |-> els[k]]
  BY <1>1, Lists
<1>9. els = Given
  BY <1>6, <1>7, <1>8
<1>10. Given' = Given
  BY <1>2 DEF Given, Present, CountUpTo
<1> QED
  BY <1>2, <1>9, <1>10 DEF LoadedInv

\* WrapOrphans walks the list the caller gave.
LEMMA LoadedInvariant == RepairSpec => []LoadedInv
<1>1. RepairInit => LoadedInv
  <2> SUFFICES ASSUME RepairInit PROVE LoadedInv
    OBVIOUS
  <2>1. /\ els = << >> /\ i = 1 /\ pass = "load"
        /\ input \in Seq(InputElement \cup {NoElement})
    BY InputAssumption DEF RepairInit
  <2>2. Seen = {}
    BY <2>1, LenProperties DEF Seen, Present
  <2>3. Cardinality({}) = 0 /\ Len(els) = 0
    BY <2>1, FS_EmptySet
  <2> QED
    BY <2>1, <2>2, <2>3 DEF LoadedInv
<1>2. RepairInv /\ LoadedInv /\ [RepairNext]_repairVars => LoadedInv'
  <2> SUFFICES ASSUME RepairInv, LoadedInv, [RepairNext]_repairVars PROVE LoadedInv'
    OBVIOUS
  <2>1. CASE UNCHANGED <<input, els, pass, i>>
    <3>1. /\ Seen' = Seen /\ Given' = Given
          /\ \A n : CountUpTo(n)' = CountUpTo(n) /\ WorkingCopy(n)' = WorkingCopy(n)
      BY <2>1 DEF Seen, Given, Present, CountUpTo, WorkingCopy, LevelOf
    <3> QED
      BY <2>1, <3>1 DEF LoadedInv
  <2>2. CASE Keep \/ WrapRun
    <3>1. pass = "wrap" /\ pass' = "wrap" /\ els' = els /\ input' = input
      BY <2>2 DEF Keep, WrapRun, AtElement
    <3>2. Given' = Given
      BY <3>1 DEF Given, Present, CountUpTo
    <3> QED
      BY <3>1, <3>2 DEF LoadedInv
  <2>3. CASE EndWrap \/ FindMin \/ EndRebase \/ Collapse \/ EndCollapse
    <3>1. pass' \notin {"load", "wrap"}
      BY <2>3 DEF EndWrap, FindMin, EndRebase, Collapse, EndCollapse, AtElement, Finish
    <3> QED
      BY <3>1 DEF LoadedInv
  <2> QED
    BY <2>1, <2>2, <2>3, LoadCounts, LoadEnds DEF RepairNext, repairVars
<1> QED
  BY <1>1, <1>2, RepairInvariant, PTL DEF RepairSpec

\* What the caller gave does not change, and is what WrapOrphans walks.
GivenInv == RepairInv /\ KeptInv /\ LoadedInv

\* The input is only read.
LEMMA GivenStays == RepairNext => Given' = Given
<1>1. RepairNext => input' = input
  BY DEF RepairNext, Load, EndLoad, Keep, WrapRun, EndWrap, FindMin, EndRebase, Collapse,
         EndCollapse
<1> QED
  BY <1>1 DEF Given, Present, CountUpTo

\* Where WrapOrphans starts.
LEMMA WrapStarts ==
    GivenInv /\ EndLoad => pass' = "wrap" /\ i' = 1 /\ out' = << >> /\ stack' = {}
<1> SUFFICES ASSUME GivenInv, EndLoad
             PROVE  pass' = "wrap" /\ i' = 1 /\ out' = << >> /\ stack' = {}
  OBVIOUS
<1>1. pass = "load" /\ pass' = "wrap" /\ i' = 1 /\ out' = out /\ stack' = stack
  BY DEF EndLoad, Finish
<1>2. out = << >>
  BY <1>1 DEF GivenInv, KeptInv
<1>3. DOMAIN << >> = {}
  OBVIOUS
<1>4. stack = {}
  BY <1>2, <1>3 DEF GivenInv, RepairInv, RepairTypeOK
<1> QED
  BY <1>1, <1>2, <1>4

\* A list whose shallowest element is at 1 is not moved by Rebase.
LEMMA RebaseLeaves ==
    ASSUME RepairTypeOK, EndRebase, i > 1 => min_level = 1
    PROVE  els' = els
<1>1. /\ els \in Seq(Element) /\ Len(els) \in Nat /\ DOMAIN els = 1 .. Len(els) /\ i \in Nat
      /\ \A n \in 1 .. Len(els) : els[n] \in Element /\ els[n].level \in Int
  BY Lists
<1>2. i > Len(els)
  BY DEF EndRebase, Finish
<1>3. els' = [n \in 1 .. Len(els) |-> [els[n] EXCEPT !.level = els[n].level - (min_level - 1)]]
  BY <1>1 DEF EndRebase
<1>4. ASSUME NEW n \in 1 .. Len(els)
      PROVE  [els[n] EXCEPT !.level = els[n].level - (min_level - 1)] = els[n]
  <2>1. min_level = 1
    BY <1>1, <1>2
  <2>2. els[n].level - (min_level - 1) = els[n].level
    BY <1>1, <2>1
  <2>3. [els[n] EXCEPT !.level = els[n].level] = els[n]
    BY <1>1 DEF Element
  <2> QED
    BY <2>2, <2>3
<1>5. els = [n \in 1 .. Len(els) |-> els[n]]
  BY <1>1
<1> QED
  BY <1>3, <1>4, <1>5

\* CollapseJumps leaves an element alone that is no jump below its neighbour.
LEMMA CollapseLeaves ==
    ASSUME RepairTypeOK, Collapse, ShallowestIsOne(els), NoLevelJump(els)
    PROVE  els' = els
<1>1. i \in DOMAIN els /\ i \in 1 .. Len(els) /\ els[i].level \in Int
  BY Lists DEF Collapse, AtElement
<1>2. LevelBefore(els, i) \in Int
  <2>1. CASE i = 1
    BY <2>1 DEF LevelBefore
  <2>2. CASE i # 1
    <3>1. i - 1 \in 1 .. Len(els)
      BY <1>1, <2>2, Lists
    <3>2. els[i - 1].level \in Int
      BY <3>1, Lists
    <3> QED
      BY <2>2, <3>2 DEF LevelBefore
  <2> QED
    BY <2>1, <2>2
<1>3. els[i].level - (LevelBefore(els, i) + 1) <= 0
  BY <1>1, <1>2 DEF NoLevelJump
<1> QED
  BY <1>3 DEF Collapse

\* Rebase's minimum over a list whose first element is at 1 and nothing above.
LEMMA MinimumIsOne ==
    ASSUME RepairTypeOK, FindMin, ShallowestIsOne(els), i > 1 => min_level = 1
    PROVE  min_level' = 1
<1>1. i \in DOMAIN els /\ i \in 1 .. Len(els) /\ els[i].level \in Int /\ i \in Nat
  BY Lists DEF FindMin, AtElement
<1>2. els[i].level >= 1 /\ (i = 1 => els[1].level = 1)
  BY <1>1 DEF ShallowestIsOne
<1>3. min_level' = MinSoFar(min_level, els[i].level)
  BY DEF FindMin
<1> QED
  BY <1>1, <1>2, <1>3 DEF MinSoFar

-----------------------------------------------------------------------------
(* A whole document.                                                       *)

\* While WrapOrphans walks a whole document, it has put out what it has seen
\* and its stack holds the elements the next one could hang under.
WholeSoFar ==
    WholeDocument(Given) =>
        /\ pass = "wrap" => /\ Len(out) = i - 1
                            /\ \A n \in 1 .. i - 1 : out[n] = els[n]
                            /\ stack = {m \in 1 .. i - 1 : \A k \in m + 1 .. i - 1 :
                                          els[m].level < els[k].level}
        /\ pass \in {"rebase", "collapse", "done"} => els = Given
        /\ pass = "rebase" /\ i > 1 => min_level = 1

\* The frames left on the stack are the element's ancestors.
LEMMA StackIsAncestors ==
    ASSUME GivenInv, WholeSoFar, WholeDocument(Given), pass = "wrap", i \in 1 .. Len(els)
    PROVE  StackAbove(els[i].level) = Ancestors(els, i)
<1>1. /\ \A n \in 1 .. i - 1 : out[n] = els[n]
      /\ stack = {m \in 1 .. i - 1 : \A k \in m + 1 .. i - 1 : els[m].level < els[k].level}
  BY DEF WholeSoFar
<1>2. i \in Nat /\ \A n \in 1 .. Len(els) : els[n].level \in Int
  BY Lists DEF GivenInv, RepairInv
<1>3. ASSUME NEW m \in 1 .. i - 1
      PROVE  m \in StackAbove(els[i].level) <=> m \in Ancestors(els, i)
  <2>1. m \in stack <=> \A k \in m + 1 .. i - 1 : els[m].level < els[k].level
    BY <1>1
  <2>2. m \in StackAbove(els[i].level) <=> m \in stack /\ els[m].level < els[i].level
    BY <1>1 DEF StackAbove
  <2>3. m \in Ancestors(els, i) <=> \A k \in m + 1 .. i : els[m].level < els[k].level
    BY DEF Ancestors
  <2>4. \A k : k \in m + 1 .. i <=> k \in m + 1 .. i - 1 \/ k = i
    BY <1>2
  <2> QED
    BY <2>1, <2>2, <2>3, <2>4
<1>4. StackAbove(els[i].level) \subseteq 1 .. i - 1 /\ Ancestors(els, i) \subseteq 1 .. i - 1
  BY <1>1 DEF StackAbove, Ancestors
<1> QED
  BY <1>3, <1>4

\* Every turn keeps what has been left alone.
LEMMA WholeKept == GivenInv /\ WholeSoFar /\ [RepairNext]_repairVars => WholeSoFar'
<1> SUFFICES ASSUME GivenInv, WholeSoFar, [RepairNext]_repairVars PROVE WholeSoFar'
  OBVIOUS
<1>1. CASE UNCHANGED repairVars
  <2>1. Given' = Given
    BY <1>1 DEF repairVars, Given, Present, CountUpTo
  <2> QED
    BY <1>1, <2>1 DEF repairVars, WholeSoFar
<1>2. CASE RepairNext
  <2> SUFFICES ASSUME WholeDocument(Given), Given' = Given
               PROVE  /\ pass' = "wrap" =>
                           /\ Len(out') = i' - 1
                           /\ \A n \in 1 .. i' - 1 : out'[n] = els'[n]
                           /\ stack' = {m \in 1 .. i' - 1 : \A k \in m + 1 .. i' - 1 :
                                          els'[m].level < els'[k].level}
                      /\ pass' \in {"rebase", "collapse", "done"} => els' = Given
                      /\ pass' = "rebase" /\ i' > 1 => min_level' = 1
    BY <1>2, GivenStays DEF WholeSoFar
  <2>1. RepairTypeOK
    BY DEF GivenInv, RepairInv
  <2>2. CASE Load
    BY <2>2 DEF Load, AtElement
  <2>3. CASE EndLoad
    <3>1. pass' = "wrap" /\ i' = 1 /\ out' = << >> /\ stack' = {}
      BY <2>3, WrapStarts
    <3> QED
      BY <3>1
  <2>4. CASE Keep
    <3>1. /\ pass = "wrap" /\ UNCHANGED <<pass, els>> /\ i \in 1 .. Len(els) /\ i' = i + 1
          /\ out' \in Seq(Element) /\ DOMAIN out' = 1 .. Len(out) + 1
          /\ \A n \in 1 .. Len(out) : out'[n] = out[n]
          /\ out'[Len(out) + 1] = els[i]
          /\ stack' = StackAbove(els[i].level) \cup {Len(out) + 1}
      BY <2>1, <2>4, KeepGives
    <3>2. /\ Len(out) = i - 1 /\ i \in Nat /\ Len(out) + 1 = i
          /\ \A n \in 1 .. i - 1 : out[n] = els[n]
      BY <2>1, <3>1, Lists DEF WholeSoFar
    <3>3. Len(out') = i' - 1
      BY <3>1, <3>2, LenProperties
    <3>4. \A n \in 1 .. i' - 1 : out'[n] = els'[n]
      <4> TAKE n \in 1 .. i' - 1
      <4>1. n = i \/ n \in 1 .. i - 1
        BY <3>1, <3>2
      <4> QED
        BY <3>1, <3>2, <4>1
    <3>5. stack' = Ancestors(els, i) \cup {i}
      BY <3>1, <3>2, StackIsAncestors
    <3>6. Ancestors(els, i) \cup {i} =
            {m \in 1 .. i : \A k \in m + 1 .. i : els[m].level < els[k].level}
      BY <3>2 DEF Ancestors
    <3>7. i' - 1 = i /\ els' = els /\ pass' = "wrap"
      BY <3>1, <3>2
    <3> QED
      BY <3>3, <3>4, <3>5, <3>6, <3>7
  <2>5. CASE WrapRun
    <3>1. pass = "wrap" /\ i \in 1 .. Len(els) /\ ~Satisfied(els[i])
      BY <2>1, <2>5, WrapRunGives
    <3>2. els = Given /\ i \in DOMAIN els
      BY <2>1, <3>1, Lists DEF GivenInv, LoadedInv
    <3>3. ImplicitParentOf(els[i]) # ""
      BY <3>1 DEF Satisfied
    <3>4. PICK m \in Ancestors(els, i) : Answers(els[i], els[m])
      BY <3>2, <3>3 DEF WholeDocument, AncestorsPresent
    <3>5. m \in StackAbove(els[i].level) /\ out[m] = els[m]
      <4>1. m \in 1 .. i - 1
        BY <3>4 DEF Ancestors
      <4> QED
        BY <3>1, <3>4, <4>1, StackIsAncestors DEF WholeSoFar
    <3> QED
      BY <3>1, <3>4, <3>5 DEF Satisfied
  <2>6. CASE EndWrap
    <3>1. pass = "wrap" /\ pass' = "rebase" /\ i' = 1 /\ i > Len(els) /\ els' = out
      BY <2>6 DEF EndWrap, Finish
    <3>2. els = Given /\ i = Len(els) + 1 /\ Len(els) \in Nat
      BY <2>1, <3>1, Lists DEF GivenInv, LoadedInv, RepairTypeOK
    <3>3. Len(out) = Len(els) /\ \A n \in 1 .. Len(els) : out[n] = els[n]
      BY <3>1, <3>2 DEF WholeSoFar
    <3>4. out = els
      <4>1. /\ els = [n \in 1 .. Len(els) |-> els[n]]
            /\ out = [n \in 1 .. Len(out) |-> out[n]]
        BY <2>1, Lists
      <4> QED
        BY <3>3, <4>1
    <3> QED
      BY <3>1, <3>2, <3>4
  <2>7. CASE FindMin
    <3>1. pass = "rebase" /\ pass' = pass /\ els' = els
      BY <2>7 DEF FindMin, AtElement
    <3>2. els = Given /\ (i > 1 => min_level = 1)
      BY <3>1 DEF WholeSoFar
    <3>3. min_level' = 1
      BY <2>1, <2>7, <3>2, MinimumIsOne DEF WholeDocument
    <3> QED
      BY <3>1, <3>2, <3>3
  <2>8. CASE EndRebase
    <3>1. pass = "rebase" /\ pass' = "collapse"
      BY <2>8 DEF EndRebase, Finish
    <3>2. els = Given /\ (i > 1 => min_level = 1)
      BY <3>1 DEF WholeSoFar
    <3>3. els' = els
      BY <2>1, <2>8, <3>2, RebaseLeaves
    <3> QED
      BY <3>1, <3>2, <3>3
  <2>9. CASE Collapse
    <3>1. pass = "collapse" /\ pass' = pass
      BY <2>9 DEF Collapse, AtElement
    <3>2. els = Given
      BY <3>1 DEF WholeSoFar
    <3>3. els' = els
      BY <2>1, <2>9, <3>2, CollapseLeaves DEF WholeDocument
    <3> QED
      BY <3>1, <3>2, <3>3
  <2>10. CASE EndCollapse
    <3>1. pass = "collapse" /\ pass' = "done" /\ els' = els
      BY <2>10 DEF EndCollapse, Finish
    <3> QED
      BY <3>1 DEF WholeSoFar
  <2> QED
    BY <1>2, <2>2, <2>3, <2>4, <2>5, <2>6, <2>7, <2>8, <2>9, <2>10 DEF RepairNext
<1> QED
  BY <1>1, <1>2

\* RepairBlocks gives every whole document back as it was, whatever elements
\* and levels it has.
THEOREM RepairIsANoOp == RepairSpec => []NoOpOnWholeDocuments
<1>1. RepairInit => WholeSoFar
  BY DEF RepairInit, WholeSoFar
<1>2. RepairSpec => []GivenInv
  BY RepairInvariant, KeptInvariant, LoadedInvariant, PTL DEF GivenInv
<1>3. WholeSoFar => NoOpOnWholeDocuments
  BY DEF WholeSoFar, NoOpOnWholeDocuments, Done
<1> QED
  BY <1>1, <1>2, <1>3, WholeKept, PTL DEF RepairSpec

-----------------------------------------------------------------------------
(* A flat list at the top level.                                           *)

Flat == \A n \in DOMAIN Given : Given[n].level = 1

\* A list of wrappers at the top level, of the elements they wrap under them,
\* and of elements that need no wrapper.
ComesOut(list) ==
    /\ \A n \in DOMAIN list : list[n].level \in {1, 2}
    /\ list # << >> => list[1].level = 1
    /\ AncestorsPresent(list)

TopLevelSoFar ==
    Flat =>
        /\ pass = "wrap" => ComesOut(out)
        /\ pass \in {"rebase", "collapse", "done"} => ComesOut(els)
        /\ pass = "rebase" /\ i > 1 => min_level = 1

\* Everything in a run carries it on, or is deeper.
LEMMA InTheRun ==
    ASSUME RepairTypeOK, NEW n \in 1 .. Len(els), NEW k \in 0 .. RunLength(n) - 1
    PROVE  SameOrphan(els[n], els[n + k]) \/ els[n + k].level > els[n].level
<1> DEFINE follows(m) == SameOrphan(els[n], els[m]) \/ els[m].level > els[n].level
           run == {j \in n .. Len(els) : \A m \in n .. j : follows(m)}
<1>1. Len(els) \in Nat /\ n \in Nat /\ RunLength(n) \in 1 .. Len(els) + 1 - n
  BY Lists, RunNotEmpty
<1>2. RunLength(n) = Cardinality(run)
  BY DEF RunLength
<1>3. n + k \in n .. Len(els)
  BY <1>1
<1> SUFFICES ASSUME n + k \notin run PROVE FALSE
  <2>1. n + k \in n .. n + k
    BY <1>1
  <2> QED
    BY <2>1
<1>4. run \subseteq n .. n + k - 1
  <2> SUFFICES ASSUME NEW j \in run, j >= n + k PROVE FALSE
    BY <1>1
  <2>1. \A m \in n .. n + k : m \in n .. j
    BY <1>1
  <2>2. \A m \in n .. n + k : follows(m)
    BY <2>1
  <2> QED
    BY <1>3, <2>2
<1> HIDE DEF run
<1>5. IsFiniteSet(n .. n + k - 1) /\ Cardinality(n .. n + k - 1) = k
  <2> DEFINE last == n + k - 1
  <2>1. last \in Int /\ n \in Int /\ (n > last <=> k = 0) /\ last - n + 1 = k
    BY <1>1
  <2> HIDE DEF last
  <2>2. IsFiniteSet(n .. last) /\ Cardinality(n .. last) = IF n > last THEN 0 ELSE last - n + 1
    BY <2>1, FS_Interval
  <2> QED
    BY <2>1, <2>2 DEF last
<1>6. Cardinality(run) <= k
  <2> DEFINE block == n .. n + k - 1
  <2> HIDE DEF block
  <2>1. run \subseteq block /\ IsFiniteSet(block) /\ Cardinality(block) = k
    BY <1>4, <1>5 DEF block
  <2> QED
    BY <2>1, FS_Subset
<1> QED
  BY <1>1, <1>2, <1>6

\* What an element hangs under is decided by what stands before it.
LEMMA AncestorsBefore ==
    ASSUME NEW s, NEW t, NEW n \in Nat, \A m \in 1 .. n : t[m] = s[m]
    PROVE  Ancestors(t, n) = Ancestors(s, n)
  BY DEF Ancestors

\* A wrapper answers for every element of its run.
LEMMA WrapperAnswers ==
    ASSUME NEW e \in Element, NEW x \in Element, SameOrphan(e, x), ImplicitParentOf(e) # "",
           NEW y \in Element, y.kind = x.kind, y.type = x.type
    PROVE  Answers(y, Wrapper(e)) /\ ImplicitParentOf(Wrapper(e)) = ""
<1>1. Wrapper(e).kind = "block" /\ Wrapper(e).type = ImplicitParentOf(e)
  BY DEF Wrapper
<1>2. ImplicitParentOf(e) \in {"plain", "list", "figure"}
  BY DEF ImplicitParentOf
<1>3. ImplicitParentOf(Wrapper(e)) = ""
  BY <1>1, <1>2 DEF ImplicitParentOf
<1>4. CASE e.kind = "inline"
  <2>1. y.kind = "inline"
    BY <1>4 DEF SameOrphan
  <2> QED
    BY <1>1, <1>3, <2>1 DEF Answers
<1>5. CASE e.kind # "inline"
  <2>1. y.kind = e.kind /\ y.type = e.type
    BY <1>5 DEF SameOrphan
  <2>2. e.kind = "block" /\ e.type \in {"list_item", "caption"}
    BY <1>5 DEF ImplicitParentOf
  <2> QED
    BY <1>1, <1>3, <2>1, <2>2 DEF Answers, ImplicitParentOf
<1> QED
  BY <1>4, <1>5

\* WrapOrphans on a flat list: what needs a wrapper gets one of its own.
LEMMA FlatRun ==
    ASSUME GivenInv, Flat, ComesOut(out), WrapRun
    PROVE  ComesOut(out')
<1>1. RepairTypeOK
  BY DEF GivenInv, RepairInv
<1> DEFINE e == els[i]
           count == RunLength(i)
           top == Len(out) + 1
<1>2. /\ pass = "wrap" /\ i \in 1 .. Len(els) /\ ~Satisfied(e)
      /\ count \in 1 .. Len(els) + 1 - i
      /\ out' \in Seq(Element) /\ DOMAIN out' = 1 .. Len(out) + 1 + count
      /\ \A n \in 1 .. Len(out) : out'[n] = out[n]
      /\ out'[top] = Wrapper(e)
      /\ \A k \in 0 .. count - 1 : out'[Len(out) + 2 + k] = Lowered(els[i + k], Shift(e.level))
  BY <1>1, WrapRunGives
<1>3. \A n \in 1 .. Len(els) : els[n].level = 1 /\ els[n] \in Element
  BY <1>1, <1>2, Lists DEF GivenInv, LoadedInv, Flat
<1>4. Shift(e.level) = 1 /\ Wrapper(e).level = 1 /\ ImplicitParentOf(e) # "" /\ e \in Element
  <2>1. e.level = 1 /\ e \in Element
    BY <1>2, <1>3
  <2>2. Shift(e.level) = 1
    BY <2>1 DEF Shift
  <2>3. Wrapper(e).level = e.level - 1 + Shift(e.level)
    BY DEF Wrapper
  <2>4. Wrapper(e).level = 1
    BY <2>1, <2>2, <2>3
  <2>5. ImplicitParentOf(e) # ""
    BY <1>2 DEF Satisfied
  <2> QED
    BY <2>1, <2>2, <2>4, <2>5
<1>5. /\ Len(out) \in Nat /\ Len(els) \in Nat /\ DOMAIN out = 1 .. Len(out)
      /\ count \in Nat /\ top \in Nat /\ i \in Nat
  BY <1>1, <1>2, Lists
<1>6. ASSUME NEW k \in 0 .. count - 1
      PROVE  /\ SameOrphan(e, els[i + k]) /\ els[i + k] \in Element
             /\ out'[Len(out) + 2 + k].level = 2
             /\ out'[Len(out) + 2 + k] \in Element
             /\ out'[Len(out) + 2 + k].kind = els[i + k].kind
             /\ out'[Len(out) + 2 + k].type = els[i + k].type
  <2>1. i + k \in 1 .. Len(els)
    BY <1>2, <1>5
  <2>2. SameOrphan(e, els[i + k])
    <3>1. ~(els[i + k].level > e.level)
      BY <1>2, <1>3, <2>1
    <3> QED
      BY <1>1, <1>2, <3>1, InTheRun
  <2>3. \A x \in Element : /\ Lowered(x, 1).kind = x.kind /\ Lowered(x, 1).type = x.type
                           /\ Lowered(x, 1).level = x.level + 1
                           /\ Lowered(x, 1) \in Element
    BY DEF Lowered, Element
  <2>4. out'[Len(out) + 2 + k] = Lowered(els[i + k], 1)
    BY <1>2, <1>4
  <2>5. els[i + k] \in Element /\ els[i + k].level = 1
    BY <1>3, <2>1
  <2> HIDE DEF e, count, top
  <2> QED
    BY <2>2, <2>3, <2>4, <2>5
<1> HIDE DEF e, count, top
<1>7. \A n \in 1 .. Len(out) + 1 + count :
        n \in 1 .. Len(out) \/ n = top \/ \E k \in 0 .. count - 1 : n = Len(out) + 2 + k
  <2> TAKE n \in 1 .. Len(out) + 1 + count
  <2>1. CASE n > Len(out) + 1
    <3>1. n - (Len(out) + 2) \in 0 .. count - 1 /\ n = Len(out) + 2 + (n - (Len(out) + 2))
      BY <1>5, <2>1
    <3> QED
      BY <3>1
  <2> QED
    BY <1>5, <2>1 DEF top
<1>8. \A n \in 1 .. Len(out) + 1 + count : out'[n].level \in {1, 2}
  <2>1. \A n \in 1 .. Len(out) : out[n].level \in {1, 2}
    BY <1>5 DEF ComesOut
  <2> QED
    BY <1>2, <1>4, <1>6, <1>7, <2>1
<1>9. out'[1].level = 1
  <2>1. CASE Len(out) = 0
    <3>1. top = 1
      BY <2>1 DEF top
    <3> QED
      BY <1>2, <1>4, <3>1
  <2>2. CASE Len(out) # 0
    <3>1. 1 \in 1 .. Len(out) /\ out # << >>
      BY <1>5, <2>2
    <3> QED
      BY <1>2, <3>1 DEF ComesOut
  <2> QED
    BY <2>1, <2>2
<1>10. ASSUME NEW n \in 1 .. Len(out) + 1 + count, ImplicitParentOf(out'[n]) # ""
       PROVE  \E m \in Ancestors(out', n) : Answers(out'[n], out'[m])
  <2>1. CASE n \in 1 .. Len(out)
    <3>1. out'[n] = out[n] /\ n \in Nat /\ \A m \in 1 .. n : out'[m] = out[m]
      BY <1>2, <1>5, <2>1
    <3>2. Ancestors(out', n) = Ancestors(out, n)
      BY <3>1, AncestorsBefore
    <3>3. PICK m \in Ancestors(out, n) : Answers(out[n], out[m])
      BY <1>5, <1>10, <2>1, <3>1 DEF ComesOut, AncestorsPresent
    <3>4. out'[m] = out[m]
      <4>1. m \in 1 .. n - 1
        BY <3>3 DEF Ancestors
      <4> QED
        BY <3>1, <4>1
    <3> QED
      BY <3>1, <3>2, <3>3, <3>4
  <2>2. CASE n = top
    <3>1. SameOrphan(e, e)
      BY DEF SameOrphan
    <3> QED
      BY <1>2, <1>4, <1>10, <2>2, <3>1, WrapperAnswers
  <2>3. ASSUME NEW k \in 0 .. count - 1, n = Len(out) + 2 + k
        PROVE  \E m \in Ancestors(out', n) : Answers(out'[n], out'[m])
    <3>1. Answers(out'[n], out'[top])
      BY <1>2, <1>4, <1>6, <2>3, WrapperAnswers
    <3>2. \A j \in top + 1 .. n : out'[top].level < out'[j].level
      <4> SUFFICES ASSUME NEW j \in top + 1 .. n PROVE out'[top].level < out'[j].level
        OBVIOUS
      <4>1. j - (Len(out) + 2) \in 0 .. count - 1 /\ j = Len(out) + 2 + (j - (Len(out) + 2))
        BY <1>5, <2>3 DEF top
      <4>2. out'[j].level = 2 /\ out'[top].level = 1
        BY <1>2, <1>4, <1>6, <4>1
      <4> QED
        BY <4>2
    <3>3. top \in 1 .. n - 1
      BY <1>5, <2>3 DEF top
    <3> QED
      BY <3>1, <3>2, <3>3 DEF Ancestors
  <2> QED
    BY <1>7, <2>1, <2>2, <2>3
<1> QED
  BY <1>2, <1>8, <1>9, <1>10 DEF ComesOut, AncestorsPresent

\* An element that WrapOrphans keeps on a flat list needs no wrapper.
LEMMA FlatKeep ==
    ASSUME GivenInv, Flat, ComesOut(out), Keep
    PROVE  ComesOut(out')
<1>1. RepairTypeOK
  BY DEF GivenInv, RepairInv
<1>2. /\ pass = "wrap" /\ i \in 1 .. Len(els) /\ Satisfied(els[i])
      /\ out' \in Seq(Element) /\ DOMAIN out' = 1 .. Len(out) + 1
      /\ \A n \in 1 .. Len(out) : out'[n] = out[n]
      /\ out'[Len(out) + 1] = els[i]
  BY <1>1, KeepGives
<1>3. els[i].level = 1
  BY <1>1, <1>2, Lists DEF GivenInv, LoadedInv, Flat
<1>4. Len(out) \in Nat /\ DOMAIN out = 1 .. Len(out)
      /\ \A n \in 1 .. Len(out) : out[n].level \in {1, 2}
  BY <1>1, Lists DEF ComesOut
<1>5. ImplicitParentOf(els[i]) = ""
  <2>1. StackAbove(1) = {}
    <3>1. stack \subseteq 1 .. Len(out)
      BY <1>1, <1>4 DEF RepairTypeOK
    <3>2. \A n \in stack : ~(out[n].level < 1)
      BY <1>4, <3>1
    <3> QED
      BY <3>2 DEF StackAbove
  <2> QED
    BY <1>2, <1>3, <2>1 DEF Satisfied
<1>6. \A n \in 1 .. Len(out) + 1 : out'[n].level \in {1, 2}
  BY <1>2, <1>3, <1>4
<1>7. out'[1].level = 1
  <2>1. CASE Len(out) = 0
    BY <1>2, <1>3, <2>1
  <2>2. CASE Len(out) # 0
    <3>1. 1 \in 1 .. Len(out) /\ out # << >>
      BY <1>4, <2>2
    <3> QED
      BY <1>2, <3>1 DEF ComesOut
  <2> QED
    BY <2>1, <2>2
<1>8. ASSUME NEW n \in 1 .. Len(out) + 1, ImplicitParentOf(out'[n]) # ""
      PROVE  \E m \in Ancestors(out', n) : Answers(out'[n], out'[m])
  <2>1. n \in 1 .. Len(out)
    <3>1. n # Len(out) + 1
      BY <1>2, <1>5, <1>8
    <3> QED
      BY <1>4, <3>1
  <2>2. out'[n] = out[n] /\ n \in Nat /\ \A m \in 1 .. n : out'[m] = out[m]
    BY <1>2, <1>4, <2>1
  <2>3. Ancestors(out', n) = Ancestors(out, n)
    BY <2>2, AncestorsBefore
  <2>4. PICK m \in Ancestors(out, n) : Answers(out[n], out[m])
    BY <1>4, <1>8, <2>1, <2>2 DEF ComesOut, AncestorsPresent
  <2>5. out'[m] = out[m]
    <3>1. m \in 1 .. n - 1
      BY <2>4 DEF Ancestors
    <3> QED
      BY <2>2, <3>1
  <2> QED
    BY <2>2, <2>3, <2>4, <2>5
<1> QED
  BY <1>2, <1>6, <1>7, <1>8 DEF ComesOut, AncestorsPresent

\* The passes after it find nothing to move.
LEMMA ComesOutRight ==
    ASSUME RepairTypeOK, ComesOut(els)
    PROVE  WholeDocument(els)
<1>1. Len(els) \in Nat /\ DOMAIN els = 1 .. Len(els)
  BY Lists
<1>2. \A n \in 1 .. Len(els) : els[n].level \in {1, 2}
  BY <1>1 DEF ComesOut
<1>3. ShallowestIsOne(els)
  BY <1>1, <1>2 DEF ComesOut, ShallowestIsOne
<1>4. ASSUME NEW n \in 1 .. Len(els) PROVE els[n].level <= LevelBefore(els, n) + 1
  <2>1. CASE n = 1
    <3>1. els # << >>
      BY <1>1
    <3> QED
      BY <2>1, <3>1 DEF ComesOut, LevelBefore
  <2>2. CASE n # 1
    <3>1. n - 1 \in 1 .. Len(els)
      BY <1>1, <2>2
    <3>2. LevelBefore(els, n) \in {1, 2}
      BY <1>2, <2>2, <3>1 DEF LevelBefore
    <3> QED
      BY <1>2, <3>2
  <2> QED
    BY <2>1, <2>2
<1> QED
  BY <1>1, <1>3, <1>4 DEF WholeDocument, NoLevelJump, ComesOut

\* Every turn keeps the output so far whole.
LEMMA TopLevelKept == GivenInv /\ TopLevelSoFar /\ [RepairNext]_repairVars => TopLevelSoFar'
<1> SUFFICES ASSUME GivenInv, TopLevelSoFar, [RepairNext]_repairVars PROVE TopLevelSoFar'
  OBVIOUS
<1>1. CASE UNCHANGED repairVars
  <2>1. Given' = Given
    BY <1>1 DEF repairVars, Given, Present, CountUpTo
  <2> QED
    BY <1>1, <2>1 DEF repairVars, TopLevelSoFar, Flat
<1>2. CASE RepairNext
  <2> SUFFICES ASSUME Flat
               PROVE  /\ pass' = "wrap" => ComesOut(out')
                      /\ pass' \in {"rebase", "collapse", "done"} => ComesOut(els')
                      /\ pass' = "rebase" /\ i' > 1 => min_level' = 1
    BY <1>2, GivenStays DEF TopLevelSoFar, Flat
  <2>1. RepairTypeOK
    BY DEF GivenInv, RepairInv
  <2>2. CASE Load
    BY <2>2 DEF Load, AtElement
  <2>3. CASE EndLoad
    <3>1. pass' = "wrap" /\ out' = << >>
      BY <2>3, WrapStarts
    <3>2. ComesOut(<< >>)
      BY DEF ComesOut, AncestorsPresent
    <3> QED
      BY <3>1, <3>2
  <2>4. CASE Keep \/ WrapRun
    <3>1. pass = "wrap" /\ pass' = pass
      BY <2>4 DEF Keep, WrapRun, AtElement
    <3> QED
      BY <2>4, <3>1, FlatKeep, FlatRun DEF TopLevelSoFar
  <2>5. CASE EndWrap
    <3>1. pass = "wrap" /\ pass' = "rebase" /\ i' = 1 /\ els' = out
      BY <2>5 DEF EndWrap, Finish
    <3> QED
      BY <3>1 DEF TopLevelSoFar
  <2>6. CASE FindMin
    <3>1. pass = "rebase" /\ pass' = pass /\ els' = els
      BY <2>6 DEF FindMin, AtElement
    <3>2. ComesOut(els) /\ (i > 1 => min_level = 1)
      BY <3>1 DEF TopLevelSoFar
    <3>3. min_level' = 1
      BY <2>1, <2>6, <3>2, MinimumIsOne, ComesOutRight DEF WholeDocument
    <3> QED
      BY <3>1, <3>2, <3>3
  <2>7. CASE EndRebase
    <3>1. pass = "rebase" /\ pass' = "collapse"
      BY <2>7 DEF EndRebase, Finish
    <3>2. ComesOut(els) /\ (i > 1 => min_level = 1)
      BY <3>1 DEF TopLevelSoFar
    <3>3. els' = els
      BY <2>1, <2>7, <3>2, RebaseLeaves
    <3> QED
      BY <3>1, <3>2, <3>3
  <2>8. CASE Collapse
    <3>1. pass = "collapse" /\ pass' = pass
      BY <2>8 DEF Collapse, AtElement
    <3>2. ComesOut(els)
      BY <3>1 DEF TopLevelSoFar
    <3>3. els' = els
      BY <2>1, <2>8, <3>2, CollapseLeaves, ComesOutRight DEF WholeDocument
    <3> QED
      BY <3>1, <3>2, <3>3
  <2>9. CASE EndCollapse
    <3>1. pass = "collapse" /\ pass' = "done" /\ els' = els
      BY <2>9 DEF EndCollapse, Finish
    <3> QED
      BY <3>1 DEF TopLevelSoFar
  <2> QED
    BY <1>2, <2>2, <2>3, <2>4, <2>5, <2>6, <2>7, <2>8, <2>9 DEF RepairNext
<1> QED
  BY <1>1, <1>2

\* However many fragments of whatever kinds stand at the top level, RepairBlocks
\* makes a whole document of them.
THEOREM TopLevelComesOutWhole == RepairSpec => []TopLevelFragmentsComeOutWhole
<1>1. RepairInit => TopLevelSoFar
  BY DEF RepairInit, TopLevelSoFar
<1>2. RepairSpec => []GivenInv
  BY RepairInvariant, KeptInvariant, LoadedInvariant, PTL DEF GivenInv
<1>3. GivenInv /\ TopLevelSoFar => TopLevelFragmentsComeOutWhole
  BY ComesOutRight DEF GivenInv, RepairInv, TopLevelSoFar, TopLevelFragmentsComeOutWhole, Flat, Done
<1> QED
  BY <1>1, <1>2, <1>3, TopLevelKept, PTL DEF RepairSpec
=============================================================================
