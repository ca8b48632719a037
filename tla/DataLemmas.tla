----------------------------- MODULE DataLemmas -----------------------------
(* What the proofs about several components rest on.  Least and greatest   *)
(* elements, induction and recursive functions on the naturals, told of    *)
(* sets and functions, so that they can be cited where a theorem about     *)
(* operators cannot be instantiated; and what FlattenSeq makes of its      *)
(* parts.                                                                  *)
EXTENDS Integers, SequencesExt, FiniteSetTheorems, SequenceTheorems, TLAPS

\* A set of naturals that is not empty has a least element: the one that the
\* shortest interval of those up to its elements belongs to.
LEMMA LeastOf ==
    ASSUME NEW S \in SUBSET Nat, S # {}
    PROVE  \E n \in S : \A m \in S : n <= m
<1> DEFINE T == {0 .. k : k \in S}
<1>1. T \subseteq FiniteSubsetsOf(Nat)
  <2>1. \A k \in S : IsFiniteSet(0 .. k) /\ 0 .. k \subseteq Nat
    BY FS_Interval
  <2> QED
    BY <2>1 DEF FiniteSubsetsOf
<1>2. T # {}
  OBVIOUS
<1>3. IsWellFoundedOn(StrictSubsetOrdering(Nat), FiniteSubsetsOf(Nat))
  BY FS_StrictSubsetOrderingWellFounded
<1> HIDE DEF T
<1>4. PICK t \in T : \A u \in T : <<u, t>> \notin StrictSubsetOrdering(Nat)
  BY <1>1, <1>2, <1>3, WFMin
<1> USE DEF T
<1>5. PICK n \in S : t = 0 .. n
  BY <1>4
<1>6. ASSUME NEW m \in S, m < n  PROVE FALSE
  <2>1. 0 .. m \in T
    BY <1>6
  <2>2. 0 .. m \subseteq 0 .. n /\ n \in 0 .. n /\ n \notin 0 .. m
    BY <1>6
  <2>3. <<0 .. m, 0 .. n>> \in StrictSubsetOrdering(Nat)
    BY <2>2 DEF StrictSubsetOrdering
  <2> QED
    BY <2>1, <2>3, <1>4, <1>5
<1> QED
  BY <1>6

\* Induction on the naturals, over a set of them.
LEMMA Induction ==
    ASSUME NEW S \in SUBSET Nat, 0 \in S, \A n \in S : n + 1 \in S
    PROVE  S = Nat
<1> SUFFICES ASSUME Nat \ S # {} PROVE FALSE
  OBVIOUS
<1>1. PICK n \in Nat \ S : \A m \in Nat \ S : n <= m
  BY LeastOf
<1>2. n - 1 \in S
  BY <1>1
<1>3. (n - 1) + 1 \in S
  BY <1>2
<1> QED
  BY <1>1, <1>3

\* A function on the naturals is defined by its first value and the step from
\* each value to the next.
Iterates(f, T, base, step) ==
    /\ f \in [Nat -> T] /\ f[0] = base
    /\ \A n \in Nat : f[n + 1] = step[n + 1][f[n]]

\* There is one such function for any first value and any step.
LEMMA Recursion ==
    ASSUME NEW T, NEW base \in T, NEW step \in [Nat -> [T -> T]]
    PROVE  \E f : Iterates(f, T, base, step)
<1> DEFINE Upto(n, g) == /\ g \in [0 .. n -> T] /\ g[0] = base
                         /\ \A k \in 0 .. n - 1 : g[k + 1] = step[k + 1][g[k]]
           S == {n \in Nat : \E g : Upto(n, g)}
<1>1. 0 \in S
  <2>1. Upto(0, [k \in 0 .. 0 |-> base])
    OBVIOUS
  <2> QED
    BY <2>1
<1>2. ASSUME NEW n \in S PROVE n + 1 \in S
  <2>1. PICK g : Upto(n, g)
    OBVIOUS
  <2> DEFINE h == [k \in 0 .. n + 1 |-> IF k <= n THEN g[k] ELSE step[n + 1][g[n]]]
  <2>2. n \in Nat /\ g \in [0 .. n -> T] /\ g[0] = base
        /\ \A k \in 0 .. n - 1 : g[k + 1] = step[k + 1][g[k]]
    BY <2>1
  <2>3. step[n + 1][g[n]] \in T
    BY <2>2
  <2>4. h \in [0 .. n + 1 -> T] /\ h[0] = base
    BY <2>2, <2>3
  <2>7. h[n + 1] = step[n + 1][g[n]] /\ \A k \in 0 .. n : h[k] = g[k]
    BY <2>2
  <2> HIDE DEF h
  <2>5. ASSUME NEW k \in 0 .. (n + 1) - 1 PROVE h[k + 1] = step[k + 1][h[k]]
    <3>1. CASE k = n
      <4>1. h[n] = g[n]
        BY <2>2, <2>7
      <4> QED
        BY <2>7, <3>1, <4>1
    <3>2. CASE k # n
      <4>1. k \in 0 .. n - 1 /\ k + 1 \in 0 .. n /\ k \in 0 .. n
        BY <2>2, <3>2
      <4> QED
        BY <2>2, <2>7, <4>1
    <3> QED
      BY <3>1, <3>2
  <2>6. Upto(n + 1, h)
    BY <2>4, <2>5
  <2>8. n + 1 \in Nat
    BY <2>2
  <2> HIDE DEF Upto
  <2> QED
    BY <2>6, <2>8
<1>3. S = Nat
  <2>1. S \in SUBSET Nat
    OBVIOUS
  <2> HIDE DEF S
  <2> QED
    BY <1>1, <1>2, <2>1, Induction
<1>4. ASSUME NEW m \in Nat, NEW n \in Nat, NEW g, NEW h, Upto(m, g), Upto(n, h)
      PROVE  \A k \in Nat : k <= m /\ k <= n => g[k] = h[k]
  <2> DEFINE Same == {k \in Nat : k <= m /\ k <= n => g[k] = h[k]}
  <2>1. 0 \in Same
    BY <1>4
  <2>2. ASSUME NEW k \in Same PROVE k + 1 \in Same
    <3> SUFFICES ASSUME k + 1 <= m, k + 1 <= n PROVE g[k + 1] = h[k + 1]
      OBVIOUS
    <3>1. k \in 0 .. m - 1 /\ k \in 0 .. n - 1 /\ g[k] = h[k]
      OBVIOUS
    <3> QED
      BY <1>4, <3>1
  <2>3. Same \in SUBSET Nat
    OBVIOUS
  <2>4. Same = Nat
    <3> HIDE DEF Same
    <3> QED
      BY <2>1, <2>2, <2>3, Induction
  <2> QED
    BY <2>4
<1> DEFINE G(n) == CHOOSE g : Upto(n, g)
           F == [n \in Nat |-> G(n)[n]]
<1>5. ASSUME NEW n \in Nat PROVE Upto(n, G(n))
  <2>1. \E g : Upto(n, g)
    BY <1>3
  <2> HIDE DEF Upto
  <2> QED
    BY <2>1
<1> HIDE DEF G
<1>6. F \in [Nat -> T]
  <2>1. \A n \in Nat : G(n)[n] \in T
    BY <1>5
  <2> QED
    BY <2>1
<1>7. F[0] = base
  BY <1>5
<1>8. ASSUME NEW n \in Nat PROVE F[n + 1] = step[n + 1][F[n]]
  <2>1. Upto(n, G(n)) /\ Upto(n + 1, G(n + 1))
    BY <1>5
  <2>2. G(n + 1)[n + 1] = step[n + 1][G(n + 1)[n]]
    BY <2>1
  <2>3. G(n + 1)[n] = G(n)[n]
    <3> HIDE DEF Upto
    <3>1. n <= n + 1 /\ n <= n /\ n + 1 \in Nat
      OBVIOUS
    <3> QED
      BY <1>4, <2>1, <3>1
  <2> QED
    BY <2>2, <2>3
<1> QED
  BY <1>6, <1>7, <1>8 DEF Iterates

\* A set of naturals with an upper bound has a greatest element.
LEMMA GreatestOf ==
    ASSUME NEW S \in SUBSET Nat, S # {}, NEW bound \in Nat, \A n \in S : n <= bound
    PROVE  /\ Max(S) \in S
           /\ \A m \in S : m <= Max(S)
<1> DEFINE T == {bound - n : n \in S}
<1>1. T \in SUBSET Nat /\ T # {}
  <2>1. \A n \in S : bound - n \in Nat
    OBVIOUS
  <2> QED
    BY <2>1
<1>2. PICK t \in T : \A u \in T : t <= u
  <2> HIDE DEF T
  <2> QED
    BY <1>1, LeastOf
<1>3. PICK n \in S : t = bound - n
  BY <1>2
<1>4. \A m \in S : n >= m
  <2> TAKE m \in S
  <2>1. bound - m \in T
    OBVIOUS
  <2> QED
    BY <1>2, <1>3, <2>1
<1>5. \E x \in S : \A y \in S : x >= y
  BY <1>4
<1>6. Max(S) \in S /\ \A y \in S : Max(S) >= y
  BY <1>5 DEF Max
<1> QED
  BY <1>6

\* The library's Min of a set of naturals is its least element.
LEMMA SmallestOf ==
    ASSUME NEW S \in SUBSET Nat, S # {}
    PROVE  /\ Min(S) \in S
           /\ \A m \in S : Min(S) <= m
<1>1. \E x \in S : \A y \in S : x <= y
  BY LeastOf
<1> QED
  BY <1>1 DEF Min

-----------------------------------------------------------------------------
(* Flattened sequences.                                                   *)

\* The parts of a flattened sequence stand in it one behind the other, each
\* whole: part b from the place after places[b - 1] to places[b].
PartsAt(parts, places, flat) ==
    /\ places \in [0 .. Len(parts) -> Nat]
    /\ places[0] = 0
    /\ \A b \in 1 .. Len(parts) : places[b] = places[b - 1] + Len(parts[b])
    /\ Len(flat) = places[Len(parts)]
    /\ \A b \in 1 .. Len(parts) : \A k \in 1 .. Len(parts[b]) :
           flat[places[b - 1] + k] = parts[b][k]

\* FlattenSeq joins its parts from the left, one at a time.
LEMMA FlattenedStepwise ==
    ASSUME NEW T, NEW parts \in Seq(Seq(T)), parts # << >>
    PROVE  \E f \in [Nat -> Seq(T)] :
              /\ f[0] = << >>
              /\ \A n \in 1 .. Len(parts) : f[n] = f[n - 1] \o parts[n]
              /\ FlattenSeq(parts) = f[Len(parts)]
<1> DEFINE S == Seq(T)
           step == [n \in Nat |-> [s \in S |-> IF n \in 1 .. Len(parts) THEN s \o parts[n] ELSE s]]
<1>0. Len(parts) \in Nat /\ Len(parts) >= 1 /\ << >> \in S
      /\ \A n \in 1 .. Len(parts) : parts[n] \in S
  BY EmptySeq, LenProperties, ElementOfSeq
<1>1. step \in [Nat -> [S -> S]]
  <2>1. ASSUME NEW n \in Nat, NEW s \in S
        PROVE  (IF n \in 1 .. Len(parts) THEN s \o parts[n] ELSE s) \in S
    BY <1>0, ConcatProperties
  <2> QED
    BY <2>1
<1>2. \E f : Iterates(f, S, << >>, step)
  <2> HIDE DEF step, S
  <2> QED
    BY <1>0, <1>1, Recursion
<1>3. PICK f \in [Nat -> S] : f[0] = << >> /\ \A n \in Nat : f[n + 1] = step[n + 1][f[n]]
  BY <1>2 DEF Iterates
<1>4. \A n \in 1 .. Len(parts) : f[n] = f[n - 1] \o parts[n]
  <2> TAKE n \in 1 .. Len(parts)
  <2>1. n - 1 \in Nat /\ (n - 1) + 1 = n /\ n \in Nat /\ f[n - 1] \in S
    BY <1>0, <1>3
  <2>2. step[n][f[n - 1]] = f[n - 1] \o parts[n]
    BY <2>1
  <2> QED
    BY <1>3, <2>1, <2>2
<1> HIDE DEF step
<1> DEFINE rule(h) == [n \in 1 .. Len(parts) |-> IF n = 1 THEN parts[n] ELSE h[n - 1] \o parts[n]]
           flatten == CHOOSE h : h = rule(h)
           f1 == [n \in 1 .. Len(parts) |-> f[n]]
<1>5. f1 = rule(f1)
  <2>1. ASSUME NEW n \in 1 .. Len(parts) PROVE f1[n] = rule(f1)[n]
    <3>1. CASE n = 1
      <4>0. 1 \in 1 .. Len(parts) /\ 1 - 1 = 0
        BY <1>0
      <4>1. f[1] = << >> \o parts[1]
        BY <1>3, <1>4, <4>0
      <4>2. f[1] = parts[1]
        BY <1>0, <4>1, ConcatEmptySeq
      <4> QED
        BY <3>1, <4>2
    <3>2. CASE n # 1
      <4>1. n - 1 \in 1 .. Len(parts)
        BY <1>0, <3>2
      <4> QED
        BY <1>4, <3>2, <4>1
    <3> QED
      BY <3>1, <3>2
  <2> QED
    BY <2>1
<1>6. flatten = rule(flatten)
  <2> HIDE DEF rule, f1
  <2> QED
    BY <1>5
<1>7. FlattenSeq(parts) = flatten[Len(parts)]
  BY <1>0 DEF FlattenSeq
<1> HIDE DEF flatten, f1
<1>8. \A n \in Nat : n \in 1 .. Len(parts) => flatten[n] = f[n]
  <2> DEFINE Same == {n \in Nat : n \in 1 .. Len(parts) => flatten[n] = f[n]}
  <2>1. 0 \in Same
    OBVIOUS
  <2>2. ASSUME NEW n \in Same PROVE n + 1 \in Same
    <3>0. n \in Nat /\ n + 1 \in Nat /\ (n + 1) - 1 = n
      OBVIOUS
    <3> SUFFICES ASSUME n + 1 \in 1 .. Len(parts) PROVE flatten[n + 1] = f[n + 1]
      BY <3>0
    <3>1. f[n + 1] = f[n] \o parts[n + 1]
      BY <1>4, <3>0
    <3>2. CASE n = 0
      <4>1. flatten[1] = parts[1]
        BY <1>6, <3>2
      <4>2. f[1] = << >> \o parts[1]
        <5>1. n + 1 = 1 /\ f[n] = << >>
          BY <1>3, <3>2
        <5> QED
          BY <3>1, <5>1
      <4>3. << >> \o parts[1] = parts[1]
        BY <1>0, ConcatEmptySeq
      <4> QED
        BY <3>2, <4>1, <4>2, <4>3
    <3>3. CASE n # 0
      <4>1. n \in 1 .. Len(parts) /\ n + 1 # 1
        BY <1>0, <3>0, <3>3
      <4>2. flatten[n] = f[n]
        BY <4>1
      <4>3. flatten[n + 1] = flatten[n] \o parts[n + 1]
        BY <1>6, <3>0, <4>1
      <4> QED
        BY <3>1, <4>2, <4>3
    <3> QED
      BY <3>2, <3>3
  <2>3. Same = Nat
    <3>1. Same \in SUBSET Nat
      OBVIOUS
    <3> HIDE DEF Same
    <3> QED
      BY <2>1, <2>2, <3>1, Induction
  <2> QED
    BY <2>3
<1>9. flatten[Len(parts)] = f[Len(parts)]
  BY <1>0, <1>8
<1> QED
  BY <1>3, <1>4, <1>7, <1>9

\* So each part stands in the flattened sequence behind those before it.
LEMMA Flattening ==
    ASSUME NEW T, NEW parts \in Seq(Seq(T))
    PROVE  /\ FlattenSeq(parts) \in Seq(T)
           /\ \E places : PartsAt(parts, places, FlattenSeq(parts))
<1>1. CASE parts = << >>
  <2>1. Len(parts) = 0 /\ FlattenSeq(parts) = << >>
    BY <1>1, EmptySeq DEF FlattenSeq
  <2>2. PartsAt(parts, [b \in 0 .. 0 |-> 0], FlattenSeq(parts))
    BY <2>1, EmptySeq DEF PartsAt
  <2> QED
    BY <2>1, <2>2, EmptySeq
<1>2. CASE parts # << >>
  <2>1. PICK f \in [Nat -> Seq(T)] :
              /\ f[0] = << >>
              /\ \A n \in 1 .. Len(parts) : f[n] = f[n - 1] \o parts[n]
              /\ FlattenSeq(parts) = f[Len(parts)]
    BY <1>2, FlattenedStepwise
  <2>2. Len(parts) \in Nat /\ \A n \in 1 .. Len(parts) : parts[n] \in Seq(T)
    BY LenProperties, ElementOfSeq
  <2>3. \A n \in Nat : f[n] \in Seq(T) /\ Len(f[n]) \in Nat
    BY <2>1, LenProperties
  <2> DEFINE places == [b \in 0 .. Len(parts) |-> Len(f[b])]
  <2>4. places \in [0 .. Len(parts) -> Nat] /\ places[0] = 0
    BY <2>1, <2>2, <2>3, EmptySeq
  <2>5. ASSUME NEW b \in 1 .. Len(parts)
        PROVE  /\ Len(f[b]) = Len(f[b - 1]) + Len(parts[b])
               /\ \A i \in 1 .. Len(f[b - 1]) + Len(parts[b]) :
                      f[b][i] = IF i <= Len(f[b - 1]) THEN f[b - 1][i] ELSE parts[b][i - Len(f[b - 1])]
    <3> DEFINE s == f[b - 1]
               t == parts[b]
    <3>1. s \in Seq(T) /\ t \in Seq(T) /\ f[b] = s \o t
      <4>1. b - 1 \in Nat
        BY <2>2
      <4> QED
        BY <2>1, <2>2, <4>1
    <3> HIDE DEF s, t
    <3>2. /\ Len(f[b]) = Len(s) + Len(t)
          /\ \A i \in 1 .. Len(s) + Len(t) : f[b][i] = IF i <= Len(s) THEN s[i] ELSE t[i - Len(s)]
      BY <3>1, ConcatProperties
    <3> QED
      BY <3>2 DEF s, t
  <2>6. \A b \in 1 .. Len(parts) : places[b] = places[b - 1] + Len(parts[b])
    <3> TAKE b \in 1 .. Len(parts)
    <3>1. b \in 0 .. Len(parts) /\ b - 1 \in 0 .. Len(parts)
      BY <2>2
    <3> QED
      BY <2>5, <3>1
  <2>7. \A n \in Nat : n <= Len(parts) =>
            \A b \in 1 .. n : \A k \in 1 .. Len(parts[b]) :
                /\ Len(f[b - 1]) + k \in 1 .. Len(f[n])
                /\ f[n][Len(f[b - 1]) + k] = parts[b][k]
    <3> DEFINE Part(n) == \A b \in 1 .. n : \A k \in 1 .. Len(parts[b]) :
                              /\ Len(f[b - 1]) + k \in 1 .. Len(f[n])
                              /\ f[n][Len(f[b - 1]) + k] = parts[b][k]
               Good == {n \in Nat : n <= Len(parts) => Part(n)}
    <3>1. 0 \in Good
      OBVIOUS
    <3>2. ASSUME NEW n \in Good PROVE n + 1 \in Good
      <4>1. n \in Nat /\ n + 1 \in Nat /\ (n + 1) - 1 = n
        OBVIOUS
      <4> SUFFICES ASSUME n + 1 <= Len(parts) PROVE Part(n + 1)
        BY <4>1
      <4>2. n + 1 \in 1 .. Len(parts) /\ n <= Len(parts)
        BY <2>2, <4>1
      <4>3. Part(n)
        BY <4>2
      <4>4. /\ Len(f[n + 1]) = Len(f[n]) + Len(parts[n + 1])
            /\ \A i \in 1 .. Len(f[n]) + Len(parts[n + 1]) :
                   f[n + 1][i] = IF i <= Len(f[n]) THEN f[n][i] ELSE parts[n + 1][i - Len(f[n])]
        <5> DEFINE m == n + 1
                   Step(b, c) ==
                       /\ Len(f[b]) = Len(f[c]) + Len(parts[b])
                       /\ \A i \in 1 .. Len(f[c]) + Len(parts[b]) :
                              f[b][i] = IF i <= Len(f[c]) THEN f[c][i] ELSE parts[b][i - Len(f[c])]
        <5>1. \A b \in 1 .. Len(parts) : Step(b, b - 1)
          BY <2>5
        <5>2. m \in 1 .. Len(parts) /\ m - 1 = n
          BY <4>1, <4>2
        <5> HIDE DEF m, Step
        <5>3. Step(m, n)
          BY <5>1, <5>2
        <5> QED
          BY <5>3 DEF m, Step
      <4>5. Len(f[n]) \in Nat /\ Len(parts[n + 1]) \in Nat
        BY <2>2, <2>3, <4>1, <4>2, LenProperties
      <4>6. ASSUME NEW b \in 1 .. n + 1, NEW k \in 1 .. Len(parts[b])
            PROVE  /\ Len(f[b - 1]) + k \in 1 .. Len(f[n + 1])
                   /\ f[n + 1][Len(f[b - 1]) + k] = parts[b][k]
        <5>1. CASE b = n + 1
          <6>1. b - 1 = n /\ k \in 1 .. Len(parts[n + 1])
            BY <4>1, <5>1
          <6>1a. \A x, y \in Nat : \A j \in 1 .. y :
                    x + j \in 1 .. x + y /\ ~(x + j <= x) /\ (x + j) - x = j
            OBVIOUS
          <6>2. /\ Len(f[n]) + k \in 1 .. Len(f[n]) + Len(parts[n + 1])
                /\ ~(Len(f[n]) + k <= Len(f[n])) /\ (Len(f[n]) + k) - Len(f[n]) = k
            <7> DEFINE x == Len(f[n])
                       y == Len(parts[n + 1])
            <7>1. x \in Nat /\ y \in Nat /\ k \in 1 .. y
              BY <4>5, <6>1
            <7> HIDE DEF x, y
            <7>2. k \in 1 .. y /\ x + k \in 1 .. x + y /\ ~(x + k <= x) /\ (x + k) - x = k
              BY <6>1a, <7>1
            <7> QED
              BY <7>2 DEF x, y
          <6> QED
            BY <4>4, <5>1, <6>1, <6>2
        <5>2. CASE b # n + 1
          <6>1. b \in 1 .. n
            BY <4>1, <5>2
          <6>2. /\ Len(f[b - 1]) + k \in 1 .. Len(f[n])
                /\ f[n][Len(f[b - 1]) + k] = parts[b][k]
            BY <4>3, <6>1
          <6>2a. \A x, y \in Nat : \A j \in 1 .. x : j \in 1 .. x + y /\ j <= x
            OBVIOUS
          <6>3. /\ Len(f[b - 1]) + k \in 1 .. Len(f[n]) + Len(parts[n + 1])
                /\ Len(f[b - 1]) + k <= Len(f[n])
            BY <4>5, <6>2, <6>2a
          <6> QED
            BY <4>4, <6>2, <6>3
        <5> QED
          BY <5>1, <5>2
      <4> QED
        BY <4>6
    <3>3. Good = Nat
      <4>1. Good \in SUBSET Nat
        OBVIOUS
      <4> HIDE DEF Good
      <4> QED
        BY <3>1, <3>2, <4>1, Induction
    <3> QED
      BY <3>3
  <2>8. \A b \in 1 .. Len(parts) : \A k \in 1 .. Len(parts[b]) :
            FlattenSeq(parts)[places[b - 1] + k] = parts[b][k]
    <3> TAKE b \in 1 .. Len(parts)
    <3> TAKE k \in 1 .. Len(parts[b])
    <3>1. b - 1 \in 0 .. Len(parts) /\ Len(parts) \in Nat /\ Len(parts) <= Len(parts)
      BY <2>2
    <3>2. f[Len(parts)][Len(f[b - 1]) + k] = parts[b][k]
      BY <2>7, <3>1
    <3>3. places[b - 1] = Len(f[b - 1])
      BY <3>1
    <3> HIDE DEF places
    <3> QED
      BY <2>1, <3>2, <3>3
  <2>9. Len(FlattenSeq(parts)) = places[Len(parts)] /\ FlattenSeq(parts) \in Seq(T)
    BY <2>1, <2>2, <2>3
  <2> HIDE DEF places
  <2>10. PartsAt(parts, places, FlattenSeq(parts))
    BY <2>4, <2>6, <2>8, <2>9 DEF PartsAt
  <2> QED
    BY <2>9, <2>10
<1> QED
  BY <1>1, <1>2

\* Later parts end later.
LEMMA PlacesGrow ==
    ASSUME NEW parts, Len(parts) \in Nat, \A b \in 1 .. Len(parts) : Len(parts[b]) \in Nat,
           NEW places, NEW flat, PartsAt(parts, places, flat),
           NEW a \in 0 .. Len(parts), NEW b \in a .. Len(parts)
    PROVE  places[a] <= places[b]
<1> DEFINE Good == {n \in Nat : a + n <= Len(parts) => places[a] <= places[a + n]}
<1>0. places \in [0 .. Len(parts) -> Nat]
  BY DEF PartsAt
<1>1. 0 \in Good
  <2>1. a + 0 = a /\ places[a] \in Nat
    BY <1>0
  <2> QED
    BY <2>1
<1>2. ASSUME NEW n \in Good PROVE n + 1 \in Good
  <2>1. n \in Nat /\ n + 1 \in Nat
    OBVIOUS
  <2> SUFFICES ASSUME a + (n + 1) <= Len(parts) PROVE places[a] <= places[a + (n + 1)]
    BY <2>1
  <2>2. a + n \in 0 .. Len(parts) /\ a + (n + 1) \in 1 .. Len(parts) /\ (a + (n + 1)) - 1 = a + n
    BY <2>1
  <2>3. places[a] <= places[a + n]
    BY <2>2
  <2>4. places[a + (n + 1)] = places[a + n] + Len(parts[a + (n + 1)])
    BY <2>2 DEF PartsAt
  <2>5. places[a] \in Nat /\ places[a + n] \in Nat /\ Len(parts[a + (n + 1)]) \in Nat
    BY <1>0, <2>2
  <2> QED
    BY <2>3, <2>4, <2>5
<1>3. Good = Nat
  <2>1. Good \in SUBSET Nat
    OBVIOUS
  <2> HIDE DEF Good
  <2> QED
    BY <1>1, <1>2, <2>1, Induction
<1>4. b - a \in Nat /\ a + (b - a) = b /\ a + (b - a) <= Len(parts)
  OBVIOUS
<1>5. b - a \in Good
  BY <1>3, <1>4
<1> HIDE DEF PartsAt
<1> QED
  BY <1>4, <1>5

\* Element n of the flattened sequence is one of a part, behind the parts before.
StandsIn(parts, places, flat, n) ==
    \E b \in 1 .. Len(parts) : \E k \in 1 .. Len(parts[b]) :
        n = places[b - 1] + k /\ flat[n] = parts[b][k]

\* Whatever stands in the flattened sequence stands in a part.
LEMMA InPart ==
    ASSUME NEW parts, Len(parts) \in Nat, \A b \in 1 .. Len(parts) : Len(parts[b]) \in Nat,
           NEW places, NEW flat, PartsAt(parts, places, flat), NEW n \in 1 .. Len(flat)
    PROVE  StandsIn(parts, places, flat, n)
<1> DEFINE S == {b \in 1 .. Len(parts) : n <= places[b]}
<1>1. /\ places \in [0 .. Len(parts) -> Nat] /\ places[0] = 0
      /\ Len(flat) = places[Len(parts)]
  BY DEF PartsAt
<1>2. S # {}
  <2>1. n <= places[Len(parts)] /\ Len(parts) # 0
    BY <1>1
  <2> QED
    BY <2>1
<1>3. PICK b \in S : \A c \in S : b <= c
  <2>1. S \in SUBSET Nat
    OBVIOUS
  <2> HIDE DEF S
  <2> QED
    BY <1>2, <2>1, LeastOf
<1>4. b \in 1 .. Len(parts) /\ b - 1 \in 0 .. Len(parts) /\ n <= places[b]
  OBVIOUS
<1>5. places[b - 1] < n
  <2>1. CASE b = 1
    BY <1>1, <2>1
  <2>2. CASE b # 1
    <3>1. b - 1 \in 1 .. Len(parts) /\ ~(b <= b - 1)
      BY <1>4, <2>2
    <3>2. b - 1 \notin S
      BY <1>3, <3>1
    <3> QED
      BY <1>1, <1>4, <3>1, <3>2
  <2> QED
    BY <2>1, <2>2
<1>6. places[b] = places[b - 1] + Len(parts[b])
  BY <1>4 DEF PartsAt
<1> DEFINE k == n - places[b - 1]
<1>7. k \in 1 .. Len(parts[b]) /\ n = places[b - 1] + k
  <2>1. places[b - 1] \in Nat
    <3> HIDE DEF S, k
    <3> QED
      BY <1>1, <1>4
  <2>2. Len(parts[b]) \in Nat
    BY <1>4
  <2>3. n \in Nat
    BY <1>1, <1>4
  <2>4. \A x, y, z \in Nat : x < z /\ z <= x + y => z - x \in 1 .. y /\ z = x + (z - x)
    OBVIOUS
  <2> HIDE DEF S
  <2> QED
    BY <1>4, <1>5, <1>6, <2>1, <2>2, <2>3, <2>4
<1>8. flat[places[b - 1] + k] = parts[b][k]
  BY <1>4, <1>7 DEF PartsAt
<1> QED
  BY <1>4, <1>7, <1>8 DEF StandsIn

\* What a flattened sequence holds is what its parts hold.
LEMMA FlattenedHolds ==
    ASSUME NEW T, NEW parts \in Seq(Seq(T)), NEW n \in 1 .. Len(FlattenSeq(parts))
    PROVE  \E b \in 1 .. Len(parts) : \E k \in 1 .. Len(parts[b]) :
              FlattenSeq(parts)[n] = parts[b][k]
<1>1. /\ Len(parts) \in Nat
      /\ \A b \in 1 .. Len(parts) : Len(parts[b]) \in Nat
  BY LenProperties, ElementOfSeq
<1> DEFINE flat == FlattenSeq(parts)
<1>2. PICK places : PartsAt(parts, places, flat)
  BY Flattening
<1>3. n \in 1 .. Len(flat)
  OBVIOUS
<1> HIDE DEF flat
<1>4. StandsIn(parts, places, flat, n)
  BY <1>1, <1>2, <1>3, InPart
<1> QED
  BY <1>4 DEF flat, StandsIn

-----------------------------------------------------------------------------
(* Functions that rise with every step.                                   *)

Rising(f, k) == f \in [1 .. k -> Nat] /\ \A j \in 1 .. k - 1 : f[j] < f[j + 1]

\* They rise from any argument to any later one.
LEMMA RisingOrder ==
    ASSUME NEW k \in Nat, NEW f, Rising(f, k), NEW a \in 1 .. k, NEW b \in 1 .. k, a < b
    PROVE  f[a] < f[b]
<1> DEFINE Good == {n \in Nat : a + n + 1 <= k => f[a] < f[a + n + 1]}
<1>1. /\ \A j \in 1 .. k : f[j] \in Nat
      /\ \A j \in 1 .. k - 1 : f[j] < f[j + 1]
  BY DEF Rising
<1>2. 0 \in Good
  <2>1. a + 1 <= k => f[a] < f[a + 1]
    BY <1>1
  <2> QED
    BY <2>1
<1>3. ASSUME NEW n \in Good PROVE n + 1 \in Good
  <2>1. n \in Nat /\ n + 1 \in Nat
    OBVIOUS
  <2>2. ASSUME a + (n + 1) + 1 <= k PROVE f[a] < f[a + (n + 1) + 1]
    <3> DEFINE j == a + n + 1
    <3>1. j \in 1 .. k - 1 /\ a + (n + 1) + 1 = j + 1 /\ j + 1 \in 1 .. k
      BY <2>1, <2>2
    <3>2. f[a] < f[j]
      BY <2>1, <2>2
    <3> HIDE DEF j
    <3>3. f[j] < f[j + 1] /\ f[a] \in Nat /\ f[j] \in Nat /\ f[j + 1] \in Nat
      BY <1>1, <3>1
    <3> DEFINE x == f[a]
               y == f[j]
               z == f[j + 1]
    <3>4. x \in Nat /\ y \in Nat /\ z \in Nat /\ x < y /\ y < z
      BY <3>2, <3>3
    <3> HIDE DEF x, y, z
    <3>5. x < z
      BY <3>4
    <3> QED
      BY <3>1, <3>5 DEF x, z
  <2> QED
    BY <2>1, <2>2
<1>4. Good = Nat
  <2>1. Good \in SUBSET Nat
    OBVIOUS
  <2> HIDE DEF Good
  <2> QED
    BY <1>2, <1>3, <2>1, Induction
<1>5. b - a - 1 \in Nat /\ a + (b - a - 1) + 1 = b
  OBVIOUS
<1>6. b - a - 1 \in Good
  BY <1>4, <1>5
<1> QED
  BY <1>5, <1>6

\* A number between two of its values is between two that are next to each other.
LEMMA RisingBetween ==
    ASSUME NEW k \in Nat, NEW f, Rising(f, k), NEW a \in 1 .. k, NEW b \in 1 .. k, a < b,
           NEW n \in f[a] .. f[b] - 1
    PROVE  \E m \in a .. b - 1 : n \in f[m] .. f[m + 1] - 1
<1> DEFINE S == {m \in a .. b - 1 : f[m] <= n}
<1>1. \A j \in 1 .. k : f[j] \in Nat
  BY DEF Rising
<1>2. S \in SUBSET Nat /\ a \in S /\ b \in Nat /\ \A m \in S : m <= b
  <2>1. f[a] \in Nat /\ f[b] \in Nat
    BY <1>1
  <2>2. f[a] <= n
    BY <2>1
  <2> QED
    BY <2>2
<1> DEFINE m == Max(S)
<1>3. m \in S /\ \A j \in S : j <= m
  <2> HIDE DEF S
  <2> QED
    BY <1>2, GreatestOf
<1> HIDE DEF m
<1>4. m \in a .. b - 1 /\ f[m] <= n /\ m + 1 \in a .. b /\ m \in 1 .. k /\ m + 1 \in 1 .. k
  BY <1>3
<1>5. n < f[m + 1]
  <2>1. CASE m + 1 = b
    BY <1>1, <2>1
  <2>2. CASE m + 1 # b
    <3>1. m + 1 \in a .. b - 1 /\ m + 1 \notin S
      BY <1>3, <1>4, <2>2
    <3> QED
      BY <1>1, <1>4, <3>1
  <2> QED
    BY <2>1, <2>2
<1>6. f[m] \in Nat /\ f[m + 1] \in Nat /\ n \in Int
  BY <1>1, <1>4
<1> QED
  BY <1>4, <1>5, <1>6
=============================================================================
