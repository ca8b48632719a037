-------------------------- MODULE LonePlainProofs --------------------------
(* CollapseLonePlainIntoParent on every list of blocks: it makes no level  *)
(* jump, takes no fragment's ancestor away, and its one pass, which goes   *)
(* on where it has collapsed, leaves nothing to collapse behind it.        *)
EXTENDS LonePlain, SequenceTheorems, TLAPS

BlocksTyped == rows \in Seq(Block) /\ at \in Nat \ {0}

\* Nothing behind the index could adopt the plain after it.
NothingBehind == \A n \in DOMAIN rows : n < at => ~Adopts(n)

PlainInv == BlocksTyped /\ NothingBehind /\ NoJumpIntroduced /\ AncestorsKept

\* Where a block stood before the collapse, and by how much it was lifted.
Before(k) == IF k <= at THEN k ELSE k + 1

Lift(k) == IF k \in Below(at + 1) THEN 1 ELSE 0

-----------------------------------------------------------------------------
(* What a collapse does.                                                   *)

\* A list of blocks is a function on 1 .. its length.
LEMMA Blocks ==
    ASSUME BlocksTyped
    PROVE  /\ Len(rows) \in Nat /\ DOMAIN rows = 1 .. Len(rows)
           /\ \A k \in 1 .. Len(rows) : rows[k] \in Block /\ rows[k].level \in Int
           /\ at \in Nat /\ at >= 1
<1>1. \A k \in 1 .. Len(rows) : rows[k] \in Block
  BY ElementOfSeq DEF BlocksTyped
<1> QED
  BY <1>1, LenProperties DEF BlocksTyped, Block

LEMMA Sizes == ASSUME BlocksTyped PROVE Len(rows) \in Nat /\ at \in Nat /\ at >= 1
  BY Blocks

\* The plain's children are the blocks right behind it, and are deeper; what
\* stands behind them is not.
LEMMA ChildrenFollow ==
    ASSUME BlocksTyped, at + 1 <= Len(rows)
    PROVE  /\ \A k \in Below(at + 1) :
                /\ k \in at + 2 .. Len(rows) /\ rows[k].level > rows[at + 1].level
                /\ \A m \in at + 2 .. k : m \in Below(at + 1)
           /\ \A k \in at + 2 .. Len(rows) :
                k \notin Below(at + 1) /\ (k - 1 = at + 1 \/ k - 1 \in Below(at + 1))
                  => rows[k].level <= rows[at + 1].level
<1>1. ASSUME NEW k \in Below(at + 1)
      PROVE  /\ k \in at + 2 .. Len(rows) /\ rows[k].level > rows[at + 1].level
             /\ \A m \in at + 2 .. k : m \in Below(at + 1)
  BY <1>1, Blocks DEF Below
<1>2. ASSUME NEW k \in at + 2 .. Len(rows), k \notin Below(at + 1),
             k - 1 = at + 1 \/ k - 1 \in Below(at + 1)
      PROVE  rows[k].level <= rows[at + 1].level
  <2>1. \A m \in at + 2 .. k - 1 : rows[m].level > rows[at + 1].level
    BY <1>1, <1>2, Blocks
  <2> QED
    BY <1>2, <2>1, Blocks DEF Below
<1> QED
  BY <1>1, <1>2

\* The plain is gone, its children are lifted, and nothing else but its
\* parent's text has changed.
LEMMA Collapsed ==
    ASSUME BlocksTyped, CollapsePlain
    PROVE  /\ BlocksTyped' /\ at' = at
           /\ at + 1 <= Len(rows) /\ Len(rows') = Len(rows) - 1
           /\ DOMAIN rows' = 1 .. Len(rows) - 1
           /\ \A k \in 1 .. Len(rows) - 1 :
                /\ rows'[k].kind = rows[Before(k)].kind
                /\ rows'[k].type = rows[Before(k)].type
                /\ rows'[k].attributes = rows[Before(k)].attributes
                /\ rows'[k].level = rows[Before(k)].level - Lift(Before(k))
                /\ k < at => rows'[k].content = rows[k].content
<1>1. at + 1 <= Len(rows) /\ at' = at
  BY DEF CollapsePlain, Adopts, NextIndex
<1>2. \A k \in 1 .. Len(rows) - 1 : Before(k) \in 1 .. Len(rows) /\ Before(k) # at + 1
  BY Blocks DEF Before
<1>3. \A k \in 1 .. Len(rows) - 1 : Raised(at, Before(k)) \in Block
  <2> SUFFICES ASSUME NEW k \in 1 .. Len(rows) - 1 PROVE Raised(at, Before(k)) \in Block
    OBVIOUS
  <2>1. rows[Before(k)] \in Block /\ rows[at] \in Block /\ rows[at + 1] \in Block
    BY <1>1, <1>2, Blocks
  <2> QED
    BY <2>1 DEF Raised, Block
<1>4. rows' = [k \in 1 .. Len(rows) - 1 |-> Raised(at, Before(k))]
  BY DEF CollapsePlain, Before
<1>5. rows' \in Seq(Block) /\ Len(rows') = Len(rows) - 1 /\ DOMAIN rows' = 1 .. Len(rows) - 1
  <2>1. rows' \in [1 .. Len(rows) - 1 -> Block] /\ Len(rows) - 1 \in Nat
    BY <1>1, <1>3, <1>4, Blocks
  <2>2. rows' \in Seq(Block)
    BY <2>1, SeqDef
  <2> QED
    BY <2>1, <2>2, LenProperties
<1>6. ASSUME NEW k \in 1 .. Len(rows) - 1
      PROVE  /\ rows'[k].kind = rows[Before(k)].kind
             /\ rows'[k].type = rows[Before(k)].type
             /\ rows'[k].attributes = rows[Before(k)].attributes
             /\ rows'[k].level = rows[Before(k)].level - Lift(Before(k))
             /\ k < at => rows'[k].content = rows[k].content
  <2>1. rows'[k] = Raised(at, Before(k))
    BY <1>4
  <2>2. rows[Before(k)] \in Block /\ rows[at] \in Block /\ rows[Before(k)].level \in Int
    BY <1>1, <1>2, Blocks
  <2>3. at \notin Below(at + 1)
    BY Blocks DEF Below
  <2>4. CASE Before(k) = at
    BY <2>1, <2>2, <2>3, <2>4, Blocks DEF Raised, Lift, Block, Before
  <2>5. CASE Before(k) # at /\ Before(k) \in Below(at + 1)
    <3>1. ~(k < at)
      BY <1>1, <2>5, ChildrenFollow, Blocks DEF Before
    <3> QED
      BY <2>1, <2>2, <2>5, <3>1 DEF Raised, Lift, Block
  <2>6. CASE Before(k) # at /\ Before(k) \notin Below(at + 1)
    BY <2>1, <2>2, <2>6, Blocks DEF Raised, Lift, Before
  <2> QED
    BY <2>4, <2>5, <2>6
<1> QED
  BY <1>1, <1>5, <1>6, Blocks DEF BlocksTyped

\* Lifting keeps levels apart from what is not lifted.
LEMMA Lifted ==
    ASSUME BlocksTyped, CollapsePlain
    PROVE  /\ \A k \in 1 .. Len(rows) - 1 : rows'[k].level \in Int
           /\ \A k \in 1 .. at : rows'[k].level = rows[k].level
           /\ \A k \in at + 1 .. Len(rows) - 1 :
                \/ /\ k + 1 \in Below(at + 1)
                   /\ rows'[k].level = rows[k + 1].level - 1
                   /\ rows'[k].level >= rows[at + 1].level
                \/ k + 1 \notin Below(at + 1) /\ rows'[k].level = rows[k + 1].level
           /\ rows[at + 1].level = rows[at].level + 1
<1>1. at + 1 <= Len(rows) /\ rows[at + 1].level = rows[at].level + 1
  BY DEF CollapsePlain, Adopts
<1>2. \A k \in 1 .. at : Before(k) = k /\ Lift(k) = 0
  <2>1. \A k \in 1 .. at : k \notin Below(at + 1)
    BY Sizes DEF Below
  <2> QED
    BY <2>1, Sizes DEF Before, Lift
<1>3. \A k \in 1 .. at : rows'[k].level = rows[k].level
  <2>1. \A k \in 1 .. at : k \in 1 .. Len(rows) - 1 /\ rows[k].level \in Int
    BY <1>1, Blocks
  <2> QED
    BY <1>2, <2>1, Collapsed
<1>4. ASSUME NEW k \in at + 1 .. Len(rows) - 1
      PROVE  \/ /\ k + 1 \in Below(at + 1)
                /\ rows'[k].level = rows[k + 1].level - 1
                /\ rows'[k].level >= rows[at + 1].level
             \/ k + 1 \notin Below(at + 1) /\ rows'[k].level = rows[k + 1].level
  <2>1. rows'[k].level = rows[k + 1].level - Lift(k + 1)
    BY <1>1, Collapsed, Blocks DEF Before
  <2>2. rows[k + 1].level \in Int /\ rows[at + 1].level \in Int
    BY <1>1, Blocks
  <2> QED
    BY <1>1, <2>1, <2>2, ChildrenFollow DEF Lift
<1>5. ASSUME NEW k \in 1 .. Len(rows) - 1 PROVE rows'[k].level \in Int
  <2>1. at \in Nat /\ Len(rows) \in Nat /\ \A n \in 1 .. Len(rows) : rows[n].level \in Int
    BY Blocks
  <2>2. CASE k <= at
    BY <1>3, <2>1, <2>2
  <2>3. CASE k > at
    BY <1>4, <2>1, <2>3
  <2> QED
    BY <2>1, <2>2, <2>3
<1> QED
  BY <1>1, <1>3, <1>4, <1>5

-----------------------------------------------------------------------------
(* Level jumps.                                                            *)

LEMMA CollapseMakesNoJump ==
    ASSUME BlocksTyped, CollapsePlain, NoLevelJump(rows)
    PROVE  NoLevelJump(rows')
<1> SUFFICES ASSUME NEW k \in 1 .. Len(rows) - 1
             PROVE  rows'[k].level <= LevelBefore(rows', k) + 1
  BY Collapsed DEF NoLevelJump
<1>1. \A n \in 1 .. Len(rows) : rows[n].level <= LevelBefore(rows, n) + 1 /\ rows[n].level \in Int
  BY Blocks DEF NoLevelJump
<1>2. at + 1 <= Len(rows)
  BY Collapsed
<1>3. CASE k <= at
  <2>1. rows'[k].level = rows[k].level
    BY <1>3, Lifted, Blocks
  <2>2. LevelBefore(rows', k) = LevelBefore(rows, k)
    <3>1. CASE k = 1
      BY <3>1 DEF LevelBefore
    <3>2. CASE k # 1
      <4>1. k - 1 \in 1 .. at
        BY <1>3, <3>2, Blocks
      <4> QED
        BY <3>2, <4>1, Lifted DEF LevelBefore
    <3> QED
      BY <3>1, <3>2
  <2> QED
    BY <1>1, <2>1, <2>2, Blocks
<1>4. CASE k = at + 1
  <2>1. rows[at + 2].level <= rows[at + 1].level + 1
    <3>1. at + 2 \in 1 .. Len(rows)
      BY <1>4, Sizes
    <3>2. LevelBefore(rows, at + 2) = rows[at + 1].level
      <4>1. (at + 2) - 1 = at + 1 /\ at + 2 # 1
        BY Sizes
      <4> QED
        BY <4>1 DEF LevelBefore
    <3> QED
      BY <1>1, <3>1, <3>2
  <2>2. at + 2 \notin Below(at + 1) => rows[at + 2].level <= rows[at + 1].level
    <3>1. at + 2 \in at + 2 .. Len(rows) /\ (at + 2) - 1 = at + 1
      BY <1>4, Sizes
    <3> QED
      BY <1>2, <3>1, ChildrenFollow
  <2>3. LevelBefore(rows', k) = rows[at].level
    <3>1. LevelBefore(rows', k) = rows'[at].level
      BY <1>4, Sizes DEF LevelBefore
    <3>2. at \in 1 .. at
      BY Sizes
    <3> QED
      BY <3>1, <3>2, Lifted
  <2> QED
    <3>1. k \in at + 1 .. Len(rows) - 1 /\ k + 1 = at + 2
      BY <1>4, Sizes
    <3>2. \/ at + 2 \in Below(at + 1) /\ rows'[k].level = rows[at + 2].level - 1
          \/ at + 2 \notin Below(at + 1) /\ rows'[k].level = rows[at + 2].level
      BY <3>1, Lifted
    <3>3. rows[at + 1].level = rows[at].level + 1
      BY Lifted
    <3>4. rows[at].level \in Int /\ rows[at + 2].level \in Int
      BY <1>1, <1>4, Sizes
    <3> QED
      BY <2>1, <2>2, <2>3, <3>2, <3>3, <3>4
<1>5. CASE k > at + 1
  <2>1. rows[k + 1].level <= rows[k].level + 1
    BY <1>1, <1>5, Blocks DEF LevelBefore
  <2>2. LevelBefore(rows', k) = rows'[k - 1].level
    BY <1>5, Blocks DEF LevelBefore
  <2>3. k + 1 \in Below(at + 1) => k \in Below(at + 1)
    BY <1>2, <1>5, ChildrenFollow, Blocks
  <2>4. k + 1 \notin Below(at + 1) /\ k \in Below(at + 1) =>
            rows[k + 1].level <= rows[at + 1].level /\ rows[at + 1].level < rows[k].level
    <3>1. k + 1 \in at + 2 .. Len(rows) /\ (k + 1) - 1 = k
      BY <1>5, Sizes
    <3> QED
      BY <1>2, <3>1, ChildrenFollow
  <2>5. \/ k \in Below(at + 1) /\ rows'[k - 1].level = rows[k].level - 1
        \/ k \notin Below(at + 1) /\ rows'[k - 1].level = rows[k].level
    <3>1. k - 1 \in at + 1 .. Len(rows) - 1 /\ (k - 1) + 1 = k
      BY <1>5, Blocks
    <3> QED
      BY <3>1, Lifted
  <2>6. \/ k + 1 \in Below(at + 1) /\ rows'[k].level = rows[k + 1].level - 1
        \/ k + 1 \notin Below(at + 1) /\ rows'[k].level = rows[k + 1].level
    <3>1. k \in at + 1 .. Len(rows) - 1
      BY <1>5, Sizes
    <3> QED
      BY <3>1, Lifted
  <2>7. rows[k].level \in Int /\ rows[k + 1].level \in Int /\ rows[at + 1].level \in Int
    BY <1>1, <1>2, <1>5, Blocks
  <2> DEFINE before == rows[k].level
             here == rows[k + 1].level
             top == rows[at + 1].level
  <2> HIDE DEF before, here, top
  <2>8. before \in Int /\ here \in Int /\ top \in Int /\ here <= before + 1
    BY <2>1, <2>7 DEF before, here, top
  <2>9. CASE k \in Below(at + 1)
    <3>1. LevelBefore(rows', k) = before - 1
      BY <2>2, <2>5, <2>9 DEF before
    <3>2. CASE k + 1 \in Below(at + 1)
      <4>1. rows'[k].level = here - 1
        BY <2>6, <3>2 DEF here
      <4> QED
        BY <2>8, <3>1, <4>1
    <3>3. CASE k + 1 \notin Below(at + 1)
      <4>1. rows'[k].level = here /\ here <= top /\ top < before
        BY <2>4, <2>6, <2>9, <3>3 DEF before, here, top
      <4> QED
        BY <2>8, <3>1, <4>1
    <3> QED
      BY <3>2, <3>3
  <2>10. CASE k \notin Below(at + 1)
    <3>1. LevelBefore(rows', k) = before /\ rows'[k].level = here
      BY <2>2, <2>3, <2>5, <2>6, <2>10 DEF before, here
    <3> QED
      BY <2>8, <3>1
  <2> QED
    BY <2>9, <2>10
<1> QED
  BY <1>3, <1>4, <1>5, Blocks

-----------------------------------------------------------------------------
(* Ancestors.                                                              *)

\* What a block hangs under it hangs under afterwards, unless it is the plain;
\* and what hung under the plain hangs under the plain's parent.
LEMMA AncestorsMove ==
    ASSUME BlocksTyped, CollapsePlain, NEW k \in 1 .. Len(rows) - 1, NEW m \in 1 .. Len(rows) - 1
    PROVE  \/ Before(m) \in Ancestors(rows, Before(k))
           \/ m = at /\ at + 1 \in Ancestors(rows, Before(k))
           => m \in Ancestors(rows', k)
<1> SUFFICES ASSUME \/ Before(m) \in Ancestors(rows, Before(k))
                    \/ m = at /\ at + 1 \in Ancestors(rows, Before(k))
             PROVE  m \in Ancestors(rows', k)
  OBVIOUS
<1>1. at + 1 <= Len(rows) /\ rows[at + 1].level = rows[at].level + 1
  BY Lifted, Collapsed
<1>2. m < k
  BY <1>1, Blocks DEF Before, Ancestors
<1>3. ASSUME NEW j \in m + 1 .. k PROVE rows'[m].level < rows'[j].level
  <2>1. CASE Before(m) \in Ancestors(rows, Before(k))
    <3>1. \A n \in Before(m) + 1 .. Before(k) : rows[Before(m)].level < rows[n].level
      BY <2>1 DEF Ancestors
    <3>2. Before(j) \in Before(m) + 1 .. Before(k)
      BY Sizes DEF Before
    <3>3. rows[Before(m)].level < rows[Before(j)].level
      BY <3>1, <3>2
    <3>4. m <= at /\ j > at => rows[m].level < rows[at + 1].level
      <4> SUFFICES ASSUME m <= at, j > at PROVE rows[m].level < rows[at + 1].level
        OBVIOUS
      <4>1. Before(m) = m /\ at + 1 \in m + 1 .. Before(k)
        BY Sizes DEF Before
      <4> QED
        BY <3>1, <4>1
    <3>5. m > at => (m + 1 \in Below(at + 1) => j + 1 \in Below(at + 1))
      <4> SUFFICES ASSUME m > at, m + 1 \in Below(at + 1) PROVE j + 1 \in Below(at + 1)
        OBVIOUS
      <4>1. \A n \in at + 2 .. m + 1 : rows[n].level > rows[at + 1].level
        BY <1>1, ChildrenFollow
      <4>2. \A n \in m + 2 .. j + 1 : rows[n].level > rows[m + 1].level
        <5>1. Before(m) = m + 1 /\ Before(k) = k + 1 /\ j + 1 <= k + 1
          BY <1>2, Sizes DEF Before
        <5>2. \A n \in m + 2 .. j + 1 : n \in Before(m) + 1 .. Before(k)
          BY <5>1, Sizes
        <5> QED
          BY <3>1, <5>1, <5>2
      <4>3. ASSUME NEW n \in at + 2 .. j + 1 PROVE rows[n].level > rows[at + 1].level
        <5>1. /\ n \in 1 .. Len(rows) /\ m + 1 \in 1 .. Len(rows) /\ at + 1 \in 1 .. Len(rows)
              /\ m + 1 \in at + 2 .. m + 1
          BY <1>1, <1>2, Sizes
        <5>2. rows[n].level \in Int /\ rows[m + 1].level \in Int /\ rows[at + 1].level \in Int
          BY <5>1, Blocks
        <5>3. n \in at + 2 .. m + 1 \/ n \in m + 2 .. j + 1
          BY Sizes
        <5> QED
          BY <4>1, <4>2, <5>1, <5>2, <5>3
      <4>4. j + 1 \in (at + 1) + 1 .. Len(rows)
        BY <1>2, Sizes
      <4>5. \A n \in (at + 1) + 1 .. j + 1 : n \in at + 2 .. j + 1
        BY Sizes
      <4> QED
        BY <4>3, <4>4, <4>5 DEF Below
    <3>6. m > at => (j + 1 \in Below(at + 1) => m + 1 \in Below(at + 1))
      <4>1. m > at => m + 1 \in at + 2 .. j + 1
        BY Sizes
      <4> QED
        BY <1>1, <4>1, ChildrenFollow
    <3>7. CASE j <= at
      <4>1. j \in 1 .. at /\ m \in 1 .. at /\ Before(j) = j /\ Before(m) = m
        BY <3>7, Sizes DEF Before
      <4> QED
        BY <3>3, <4>1, Lifted
    <3>8. CASE m <= at /\ j > at
      <4>1. rows'[m].level = rows[m].level /\ rows[m].level < rows[j + 1].level
        <5>1. m \in 1 .. at /\ Before(m) = m /\ Before(j) = j + 1
          BY <3>8, Sizes DEF Before
        <5> QED
          BY <3>3, <5>1, Lifted
      <4>2. \/ rows'[j].level >= rows[at + 1].level
            \/ rows'[j].level = rows[j + 1].level
        <5>1. j \in at + 1 .. Len(rows) - 1
          BY <3>8, Sizes
        <5> QED
          BY <5>1, Lifted
      <4>3. /\ rows[m].level \in Int /\ rows[at + 1].level \in Int /\ rows[j + 1].level \in Int
            /\ rows'[j].level \in Int
        <5>1. j \in 1 .. Len(rows) - 1 /\ j + 1 \in 1 .. Len(rows) /\ at + 1 \in 1 .. Len(rows)
          BY <1>1, <3>8, Sizes
        <5> QED
          BY <5>1, Lifted, Blocks, Sizes
      <4> QED
        BY <3>4, <3>8, <4>1, <4>2, <4>3
    <3>9. CASE m > at
      <4>1. rows[m + 1].level < rows[j + 1].level
        BY <3>3, <3>9, Sizes DEF Before
      <4>2. \/ m + 1 \in Below(at + 1) /\ rows'[m].level = rows[m + 1].level - 1
            \/ m + 1 \notin Below(at + 1) /\ rows'[m].level = rows[m + 1].level
        <5>1. m \in at + 1 .. Len(rows) - 1
          BY <3>9, Sizes
        <5> QED
          BY <5>1, Lifted
      <4>3. \/ j + 1 \in Below(at + 1) /\ rows'[j].level = rows[j + 1].level - 1
            \/ j + 1 \notin Below(at + 1) /\ rows'[j].level = rows[j + 1].level
        <5>1. j \in at + 1 .. Len(rows) - 1
          BY <3>9, Blocks
        <5> QED
          BY <5>1, Lifted
      <4>4. rows[m + 1].level \in Int /\ rows[j + 1].level \in Int
        BY <3>9, Blocks
      <4> QED
        BY <3>5, <3>6, <3>9, <4>1, <4>2, <4>3, <4>4
    <3> QED
      BY <3>7, <3>8, <3>9, Blocks
  <2>2. CASE m = at /\ at + 1 \in Ancestors(rows, Before(k))
    <3>1. \A n \in at + 2 .. k + 1 : rows[at + 1].level < rows[n].level
      BY <1>2, <2>2, Blocks DEF Ancestors, Before
    <3>2. j + 1 \in Below(at + 1)
      BY <2>2, <3>1, Blocks DEF Below
    <3> QED
      BY <1>1, <1>2, <2>2, <3>2, Lifted, Blocks
  <2> QED
    BY <2>1, <2>2
<1> QED
  BY <1>2, <1>3, Blocks DEF Ancestors

\* Ancestors are blocks of the list.
LEMMA AncestorsInList ==
    ASSUME BlocksTyped, NEW n \in 1 .. Len(rows)
    PROVE  Ancestors(rows, n) \subseteq 1 .. Len(rows)
  BY Blocks DEF Ancestors

\* Every block but the plain stands where a block stood before.
LEMMA Positions ==
    ASSUME BlocksTyped, CollapsePlain
    PROVE  /\ \A k \in 1 .. Len(rows) - 1 : Before(k) \in 1 .. Len(rows)
           /\ \A k \in 1 .. Len(rows) : k # at + 1 => \E m \in 1 .. Len(rows) - 1 : Before(m) = k
           /\ at \in 1 .. Len(rows) - 1 /\ Before(at) = at
<1>1. at + 1 <= Len(rows) /\ Len(rows) \in Nat /\ at \in Nat /\ at >= 1
  BY Collapsed, Blocks
<1>2. ASSUME NEW k \in 1 .. Len(rows), k # at + 1
      PROVE  \E m \in 1 .. Len(rows) - 1 : Before(m) = k
  <2>1. CASE k <= at
    BY <1>1, <2>1 DEF Before
  <2>2. CASE k > at
    <3>1. k - 1 \in 1 .. Len(rows) - 1 /\ ~(k - 1 <= at) /\ (k - 1) + 1 = k
      BY <1>1, <1>2, <2>2
    <3> QED
      BY <3>1 DEF Before
  <2> QED
    BY <1>1, <2>1, <2>2
<1> QED
  BY <1>1, <1>2 DEF Before

\* A plain answers inlines only, and then its parent does as well.
LEMMA CollapseKeepsAncestors ==
    ASSUME BlocksTyped, CollapsePlain, AncestorsPresent(rows)
    PROVE  AncestorsPresent(rows')
<1> SUFFICES ASSUME NEW k \in 1 .. Len(rows) - 1, ImplicitParentOf(rows'[k]) # ""
             PROVE  \E m \in Ancestors(rows', k) : Answers(rows'[k], rows'[m])
  BY Collapsed DEF AncestorsPresent
<1>1. Before(k) \in 1 .. Len(rows)
  BY Positions
<1>2. DOMAIN rows = 1 .. Len(rows)
  BY Blocks
<1>3. rows'[k].kind = rows[Before(k)].kind /\ rows'[k].type = rows[Before(k)].type
  BY Collapsed
<1>4. PICK a \in Ancestors(rows, Before(k)) : Answers(rows[Before(k)], rows[a])
  BY <1>1, <1>2, <1>3 DEF AncestorsPresent, ImplicitParentOf
<1>5. a \in 1 .. Len(rows)
  <2>1. Ancestors(rows, Before(k)) \subseteq 1 .. Len(rows)
    BY <1>1, AncestorsInList
  <2> QED
    BY <1>4, <2>1
<1>6. CASE a # at + 1
  <2>1. PICK m \in 1 .. Len(rows) - 1 : Before(m) = a
    BY <1>5, <1>6, Positions
  <2>2. m \in Ancestors(rows', k)
    BY <1>4, <2>1, AncestorsMove
  <2>3. rows'[m].kind = rows[a].kind /\ rows'[m].type = rows[a].type
    BY <2>1, Collapsed
  <2>4. Answers(rows'[k], rows'[m])
    BY <1>3, <1>4, <2>3 DEF Answers
  <2> QED
    BY <2>2, <2>4
<1>7. CASE a = at + 1
  <2>1. at \in 1 .. Len(rows) - 1 /\ Before(at) = at
    BY Positions
  <2>2. at \in Ancestors(rows', k)
    BY <1>4, <1>7, <2>1, AncestorsMove
  <2>3. rows[at].kind = "block" /\ rows[a].type = "plain"
    BY <1>7 DEF CollapsePlain, Adopts, IsBlock
  <2>4. rows[Before(k)].kind = "inline"
    BY <1>4, <2>3 DEF Answers
  <2>5. rows'[at].kind = "block"
    BY <2>1, <2>3, Collapsed
  <2>6. Answers(rows'[k], rows'[at])
    BY <1>3, <2>4, <2>5 DEF Answers
  <2> QED
    BY <2>2, <2>6
<1> QED
  BY <1>6, <1>7

-----------------------------------------------------------------------------
(* The one pass.                                                           *)

\* A block up to the index that had a sibling has it after a collapse.
LEMMA CollapseKeepsSiblings ==
    ASSUME BlocksTyped, CollapsePlain, NEW j \in 1 .. at, HasSibling(j)
    PROVE  HasSibling(j)'
<1>1. /\ at + 1 <= Len(rows) /\ Len(rows') = Len(rows) - 1
      /\ rows[at + 1].level = rows[at].level + 1 /\ rows'[j].level = rows[j].level
  BY Collapsed, Lifted
<1>2. PICK k \in j + 1 .. Len(rows) :
            /\ \A m \in j + 1 .. k - 1 : rows[m].level > rows[j].level
            /\ rows[k].level = rows[j].level
  BY DEF HasSibling
<1>3. \A m \in 1 .. Len(rows) : rows[m].level \in Int
  BY Blocks
<1>4. CASE k <= at
  <2>1. k \in j + 1 .. Len(rows') /\ rows'[k].level = rows'[j].level
    BY <1>1, <1>2, <1>4, Lifted, Blocks
  <2>2. \A m \in j + 1 .. k - 1 : rows'[m].level > rows'[j].level
    BY <1>1, <1>2, <1>4, Lifted, Blocks
  <2> QED
    BY <2>1, <2>2 DEF HasSibling
<1>5. CASE k > at
  <2>1. rows[at].level >= rows[j].level
    <3>1. CASE j = at
      BY <1>1, <1>3, <3>1, Blocks
    <3>2. CASE j # at
      BY <1>1, <1>2, <1>3, <1>5, <3>2, Blocks
    <3> QED
      BY <3>1, <3>2
  <2>2. rows[at + 1].level > rows[j].level
    BY <1>1, <1>3, <2>1, Blocks
  <2>3. k - 1 \in at + 1 .. Len(rows) - 1 /\ (k - 1) + 1 = k
    BY <1>1, <1>2, <1>3, <1>5, <2>2, Blocks
  <2>4. k \notin Below(at + 1)
    <3>1. k \in 1 .. Len(rows) /\ j \in 1 .. Len(rows) /\ at + 1 \in 1 .. Len(rows)
      BY <1>1, <1>2, Blocks
    <3> QED
      BY <1>1, <1>2, <1>3, <2>2, <3>1, ChildrenFollow
  <2>5. rows'[k - 1].level = rows'[j].level
    BY <1>1, <1>2, <2>3, <2>4, Lifted
  <2>6. ASSUME NEW m \in j + 1 .. k - 2 PROVE rows'[m].level > rows'[j].level
    <3>1. CASE m <= at
      <4>1. m \in 1 .. at /\ m \in j + 1 .. k - 1
        BY <2>3, <3>1, Blocks
      <4> QED
        BY <1>1, <1>2, <4>1, Lifted
    <3>2. CASE m > at
      <4>1. m \in at + 1 .. Len(rows) - 1 /\ m + 1 \in j + 1 .. k - 1 /\ m + 1 \in 1 .. Len(rows)
        BY <2>3, <3>2, Blocks
      <4>2. rows[m + 1].level > rows[j].level
        BY <1>2, <4>1
      <4>3. rows'[m].level \in Int /\ rows[m + 1].level \in Int /\ rows[j].level \in Int
        BY <1>1, <1>3, <4>1, Lifted, Blocks
      <4>4. rows'[m].level >= rows[at + 1].level \/ rows'[m].level = rows[m + 1].level
        BY <4>1, Lifted
      <4>5. rows[at + 1].level \in Int
        BY <1>1, <1>3, Blocks
      <4> QED
        BY <1>1, <2>2, <4>2, <4>3, <4>4, <4>5
    <3> QED
      BY <3>1, <3>2, <2>3, Blocks
  <2>7. k - 1 \in j + 1 .. Len(rows') /\ (k - 1) - 1 = k - 2
    BY <1>1, <2>3, Blocks
  <2> QED
    BY <2>5, <2>6, <2>7 DEF HasSibling
<1> QED
  BY <1>4, <1>5, Blocks

\* What a collapse changes makes no block before it adopt.
LEMMA CollapseKeepsBehind ==
    ASSUME BlocksTyped, NothingBehind, CollapsePlain
    PROVE  NothingBehind'
<1>1. at + 1 <= Len(rows) /\ at' = at /\ DOMAIN rows' = 1 .. Len(rows) - 1
  BY Collapsed
<1> SUFFICES ASSUME NEW n \in 1 .. Len(rows) - 1, n < at, Adopts(n)'
             PROVE  FALSE
  BY <1>1 DEF NothingBehind
<1>2. n + 1 \in 1 .. at /\ n + 1 \in 1 .. Len(rows) - 1 /\ n + 1 <= Len(rows) /\ n \in DOMAIN rows
  BY <1>1, Blocks
<1>3. Before(n) = n /\ Before(n + 1) = n + 1
  BY <1>2, Blocks DEF Before
<1>4. /\ rows'[n].kind = rows[n].kind
      /\ rows'[n].content = rows[n].content
      /\ rows'[n].level = rows[n].level
      /\ rows'[n + 1].kind = rows[n + 1].kind
      /\ rows'[n + 1].type = rows[n + 1].type
      /\ rows'[n + 1].level = rows[n + 1].level
      /\ rows'[n + 1].attributes = rows[n + 1].attributes
  <2>1. rows'[n].level = rows[n].level /\ rows'[n + 1].level = rows[n + 1].level
    <3>1. n \in 1 .. at
      BY <1>2, Sizes
    <3> QED
      BY <1>2, <3>1, Lifted
  <2> QED
    BY <1>2, <1>3, <2>1, Collapsed
<1>5. ~HasSibling(n + 1)'
  BY DEF Adopts
<1>6. ~HasSibling(n + 1)
  BY <1>2, <1>5, CollapseKeepsSiblings
<1>7. Adopts(n)
  BY <1>2, <1>4, <1>6 DEF Adopts, IsBlock
<1> QED
  BY <1>2, <1>7 DEF NothingBehind

-----------------------------------------------------------------------------
(* The results.                                                            *)

\* Every step of the pass keeps its invariant.
THEOREM PlainInvariant == PlainSpec => []PlainInv
<1>1. PlainInit => PlainInv
  <2> SUFFICES ASSUME PlainInit PROVE PlainInv
    OBVIOUS
  <2>1. BlocksTyped
    BY ConvertedAssumption DEF PlainInit, BlocksTyped
  <2>2. NothingBehind
    BY <2>1, Blocks DEF PlainInit, NothingBehind
  <2> QED
    BY <2>1, <2>2 DEF PlainInit, PlainInv, NoJumpIntroduced, AncestorsKept
<1>2. PlainInv /\ [PlainNext]_plainVars => PlainInv'
  <2> SUFFICES ASSUME PlainInv, [PlainNext]_plainVars PROVE PlainInv'
    OBVIOUS
  <2> USE DEF PlainInv
  <2>1. CASE CollapsePlain
    <3>1. BlocksTyped'
      BY <2>1, Collapsed
    <3>2. NothingBehind'
      BY <2>1, CollapseKeepsBehind
    <3>3. NoJumpIntroduced'
      BY <2>1, CollapseMakesNoJump DEF NoJumpIntroduced, CollapsePlain
    <3>4. AncestorsKept'
      BY <2>1, CollapseKeepsAncestors DEF AncestorsKept, CollapsePlain
    <3> QED
      BY <3>1, <3>2, <3>3, <3>4
  <2>2. CASE Skip
    <3>1. BlocksTyped'
      BY <2>2 DEF Skip, BlocksTyped
    <3>2. NothingBehind'
      <4>1. rows' = rows /\ at' = at + 1 /\ ~Adopts(at)
        BY <2>2 DEF Skip
      <4>2. \A n \in DOMAIN rows : n < at + 1 => n < at \/ n = at
        BY Blocks
      <4>3. \A n \in DOMAIN rows : Adopts(n)' = Adopts(n)
        BY <4>1 DEF Adopts, IsBlock, HasSibling
      <4> QED
        BY <4>1, <4>2, <4>3 DEF NothingBehind
    <3> QED
      BY <2>2, <3>1, <3>2 DEF Skip, NoJumpIntroduced, AncestorsKept
  <2>3. CASE UNCHANGED plainVars
    BY <2>3 DEF plainVars, BlocksTyped, NothingBehind, Adopts, IsBlock, HasSibling,
               NoJumpIntroduced, AncestorsKept
  <2> QED
    BY <2>1, <2>2, <2>3 DEF PlainNext
<1> QED
  BY <1>1, <1>2, PTL DEF PlainSpec

\* One pass of CollapseLonePlainIntoParent reaches the fixpoint, since an
\* index that stays after a collapse leaves no block behind it that adopts.
THEOREM OnePassIsEnough == PlainSpec => []NoLonePlainLeft
<1>1. PlainInv => NoLonePlainLeft
  <2> SUFFICES ASSUME PlainInv, Finished PROVE \A n \in DOMAIN rows : ~Adopts(n)
    BY DEF NoLonePlainLeft
  <2>1. \A n \in DOMAIN rows : n < at
    BY Blocks DEF PlainInv, Finished
  <2> QED
    BY <2>1 DEF PlainInv, NothingBehind
<1> QED
  BY <1>1, PlainInvariant, PTL

\* A converted list without level jumps has none after any number of collapses.
THEOREM JumpsAreNeverMade == PlainSpec => []NoJumpIntroduced
  BY PlainInvariant, PTL DEF PlainInv

\* Every inline, list item and caption that had the ancestor it needs has one
\* still, at any point of the pass.
THEOREM AncestorsAreKept == PlainSpec => []AncestorsKept
  BY PlainInvariant, PTL DEF PlainInv
=============================================================================
