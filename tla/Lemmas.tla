------------------------------- MODULE Lemmas -------------------------------
(***************************************************************************)
(* Facts that are about no component: stacks kept as sequences, induction  *)
(* on numbers, functions defined by recursion, and what an iteration that  *)
(* collects successors reaches.                                            *)
(*                                                                         *)
(* Induction is stated for a set of numbers, so that a proof gives the set *)
(* of those for which its claim holds.                                     *)
(***************************************************************************)
EXTENDS Integers, Sequences, FiniteSets, SequenceTheorems, FiniteSetTheorems,
        NaturalsInduction, WellFoundedInduction, TLAPS

\* What is appended is the top, and the rest is what was there.
LEMMA AppendedIsTop ==
  ASSUME NEW S, NEW s \in Seq(S), NEW x \in S
  PROVE  LET a == Append(s, x)
         IN  /\ a \in Seq(S) /\ Len(a) = Len(s) + 1
             /\ [i \in 1..(Len(a) - 1) |-> a[i]] = s /\ a[Len(a)] = x
OBVIOUS

\* A stack that is not empty has a top, and a rest one shorter.
LEMMA FrontAndTop ==
  ASSUME NEW S, NEW s \in Seq(S), Len(s) >= 1
  PROVE  LET f == [i \in 1..(Len(s) - 1) |-> s[i]]
         IN  /\ f \in Seq(S) /\ Len(f) = Len(s) - 1 /\ s[Len(s)] \in S
             /\ Append(f, s[Len(s)]) = s
<1> DEFINE f == [i \in 1..(Len(s) - 1) |-> s[i]]
<1>1. f \in Seq(S) /\ Len(f) = Len(s) - 1 /\ s[Len(s)] \in S
  OBVIOUS
<1>2. Append(f, s[Len(s)]) = s
  BY <1>1
<1> QED BY <1>1, <1>2

\* The stack a program starts with.
LEMMA TwoWords ==
  ASSUME NEW S, NEW x \in S, NEW y \in S
  PROVE  <<x>> \in Seq(S) /\ Append(<<x>>, y) = <<x, y>>
<1>1. <<x>> \in Seq(S) /\ <<x, y>> \in Seq(S)
  OBVIOUS
<1>2. Append(<<x>>, y) \in Seq(S) /\ Len(Append(<<x>>, y)) = 2 /\ Len(<<x, y>>) = 2
  BY <1>1
<1>3. \A i \in 1..2 : Append(<<x>>, y)[i] = <<x, y>>[i]
  BY <1>1
<1> QED BY <1>1, <1>2, <1>3, SeqEqual
------------------------------------------------------------------------------
\* A set with 0 and the successor of each of its numbers has all of them.
LEMMA NatSet ==
  ASSUME NEW S, 0 \in S, \A n \in Nat : n \in S => n + 1 \in S
  PROVE  \A n \in Nat : n \in S
<1> SUFFICES ASSUME Nat \ S # {} PROVE FALSE
  OBVIOUS
<1>1. PICK x \in Nat \ S : \A y \in Nat \ S : <<y, x>> \notin OpToRel(<, Nat)
  <2> DEFINE Lt == OpToRel(<, Nat)
  <2>1. IsWellFoundedOn(Lt, Nat)
    BY NatLessThanWellFounded
  <2> HIDE DEF Lt
  <2>2. \E x \in Nat \ S : \A y \in Nat \ S : <<y, x>> \notin Lt
    BY <2>1, WFMin
  <2> QED BY <2>2 DEF Lt
<1>2. \A y \in Nat \ S : ~(y < x)
  BY <1>1 DEF OpToRel
<1> HIDE <1>1
<1>3. x # 0 /\ x - 1 \in Nat /\ x - 1 < x /\ (x - 1) + 1 = x
  BY SMT
<1> QED BY <1>2, <1>3

\* The same up to a bound.
LEMMA UpToSet ==
  ASSUME NEW m \in Nat, NEW S, 0 \in S, \A n \in 0..(m - 1) : n \in S => n + 1 \in S
  PROVE  \A n \in 0..m : n \in S
<1> DEFINE T == {n \in Nat : n <= m => n \in S}
<1>1. 0 \in T
  OBVIOUS
<1>2. \A n \in Nat : n \in T => n + 1 \in T
  OBVIOUS
<1> HIDE DEF T
<1>3. \A n \in Nat : n \in T
  BY <1>1, <1>2, NatSet
<1> QED BY <1>3 DEF T

\* A set of numbers that is not empty has a smallest one.
LEMMA Smallest ==
  ASSUME NEW S, NEW n \in Nat, n \in S
  PROVE  \E k \in Nat : k \in S /\ \A j \in 0..(k - 1) : j \notin S
<1> SUFFICES ASSUME \A k \in Nat : k \in S => \E j \in 0..(k - 1) : j \in S
             PROVE  FALSE
  OBVIOUS
<1> DEFINE T == {k \in Nat : \A j \in 0..k : j \notin S}
<1>1. 0 \in T
  OBVIOUS
<1>2. \A k \in Nat : k \in T => k + 1 \in T
  <2> TAKE k \in Nat
  <2> HAVE k \in T
  <2>1. k + 1 \notin S
    OBVIOUS
  <2> QED BY <2>1
<1> HIDE DEF T
<1>3. n \in T
  BY <1>1, <1>2, NatSet
<1> QED BY <1>3 DEF T

\* A function on 0..m may be defined by its first value and the step from
\* one value to the next.  (With names for what the lemma assumes and proves a
\* prover sees where to use it.)
IsStep(F, m, D) == \A i \in 1..m : \A x \in D : F[i][x] \in D
Iterates(g, F, m, D, c) ==
  g \in [0..m -> D] /\ g[0] = c /\ \A i \in 1..m : g[i] = F[i][g[i - 1]]

LEMMA Recursion ==
  ASSUME NEW m \in Nat, NEW D, NEW c \in D, NEW F, IsStep(F, m, D)
  PROVE  \E g : Iterates(g, F, m, D, c)
<1> USE DEF IsStep, Iterates
<1> DEFINE Good(g, k) == g[0] = c /\ \A i \in 1..k : g[i] = F[i][g[i - 1]]
           S == {k \in 0..m : \E g \in [0..k -> D] : Good(g, k)}
<1>1. 0 \in S
  <2> DEFINE z == [i \in 0..0 |-> c]
  <2>1. z \in [0..0 -> D] /\ z[0] = c /\ \A i \in 1..0 : FALSE
    OBVIOUS
  <2> HIDE DEF z
  <2>2. Good(z, 0)
    BY <2>1
  <2> QED BY <2>1, <2>2
<1>2. \A k \in 0..(m - 1) : k \in S => k + 1 \in S
  <2> TAKE k \in 0..(m - 1)
  <2> HAVE k \in S
  <2>1. PICK g \in [0..k -> D] : Good(g, k)
    OBVIOUS
  <2> DEFINE h == [i \in 0..(k + 1) |-> IF i = k + 1 THEN F[k + 1][g[k]] ELSE g[i]]
  <2>2. g[k] \in D /\ F[k + 1][g[k]] \in D
    OBVIOUS
  <2>3. h \in [0..(k + 1) -> D]
    BY <2>2
  <2>4. /\ h[k + 1] = F[k + 1][g[k]]
        /\ \A i \in 0..k : h[i] = g[i]
    OBVIOUS
  <2> HIDE DEF h
  <2>5. Good(h, k + 1)
    <3>1. h[0] = c
      BY <2>1, <2>4
    <3>2. \A i \in 1..k : h[i] = F[i][h[i - 1]]
      BY <2>1, <2>4
    <3>3. h[k + 1] = F[k + 1][h[k]]
      BY <2>4
    <3>4. \A i \in 1..(k + 1) : i \in 1..k \/ i = k + 1
      OBVIOUS
    <3>5. \A i \in 1..(k + 1) : h[i] = F[i][h[i - 1]]
      <4> TAKE i \in 1..(k + 1)
      <4>1. CASE i = k + 1
        BY <4>1, <3>3
      <4> QED BY <4>1, <3>2, <3>4
    <3> QED BY <3>1, <3>5
  <2>6. k + 1 \in 0..m
    OBVIOUS
  <2> HIDE DEF Good
  <2> QED BY <2>3, <2>5, <2>6
<1> HIDE DEF S
<1>3. m \in S
  BY <1>1, <1>2, UpToSet
<1> QED BY <1>3 DEF S

\* What an iteration has reached that adds the successors of all it has, as
\* often as there are elements: the least set with the first ones and the
\* successors of all its elements.
Collects(up, succ, N, m) ==
  up[0] = N /\ \A i \in 1..m : up[i] = up[i - 1] \cup UNION {succ[n] : n \in up[i - 1]}

Closes(R, succ, N, U) ==
  /\ N \subseteq R /\ R \subseteq U
  /\ \A n \in R : succ[n] \subseteq R
  /\ \A C : N \subseteq C /\ (\A n \in C \cap U : succ[n] \subseteq C) => R \subseteq C

LEMMA Closing ==
  ASSUME NEW m \in Nat, NEW U, IsFiniteSet(U), Cardinality(U) <= m,
         NEW succ \in [U -> SUBSET U], NEW N \in SUBSET U,
         NEW up, Collects(up, succ, N, m)
  PROVE  Closes(up[m], succ, N, U)
<1> USE DEF Collects, Closes
<1> DEFINE Closed(k) == \A n \in up[k] : succ[n] \subseteq up[k]
<1>1. ASSUME NEW k \in 0..(m - 1)
      PROVE  up[k + 1] = up[k] \cup UNION {succ[n] : n \in up[k]}
  <2>1. k + 1 \in 1..m /\ (k + 1) - 1 = k
    OBVIOUS
  <2> QED BY <2>1
<1>2. m \in 0..m
  OBVIOUS
<1>3. N \subseteq up[m] /\ up[m] \subseteq U
  <2> DEFINE S == {k \in 0..m : N \subseteq up[k] /\ up[k] \subseteq U}
  <2>1. 0 \in S
    OBVIOUS
  <2>2. \A k \in 0..(m - 1) : k \in S => k + 1 \in S
    <3> TAKE k \in 0..(m - 1)
    <3> HAVE k \in S
    <3>1. N \subseteq up[k + 1]
      BY <1>1
    <3>2. up[k + 1] \subseteq U
      BY <1>1
    <3>3. k + 1 \in 0..m
      OBVIOUS
    <3> QED BY <3>1, <3>2, <3>3
  <2> HIDE DEF S
  <2>3. m \in S
    BY <1>2, <2>1, <2>2, UpToSet
  <2> QED BY <2>3 DEF S
<1>4. ASSUME NEW C, N \subseteq C, \A n \in C \cap U : succ[n] \subseteq C
      PROVE  up[m] \subseteq C
  <2> DEFINE S == {k \in 0..m : up[k] \subseteq C \cap U}
  <2>1. 0 \in S
    BY <1>4
  <2>2. \A k \in 0..(m - 1) : k \in S => k + 1 \in S
    <3> TAKE k \in 0..(m - 1)
    <3> HAVE k \in S
    <3>1. up[k + 1] \subseteq C
      BY <1>1, <1>4
    <3>2. up[k + 1] \subseteq U
      BY <1>1
    <3>3. k + 1 \in 0..m
      OBVIOUS
    <3> QED BY <3>1, <3>2, <3>3
  <2> HIDE DEF S
  <2>3. m \in S
    BY <1>2, <2>1, <2>2, UpToSet
  <2> QED BY <2>3 DEF S
<1>5. Closed(m)
  <2> DEFINE S == {k \in 0..m : up[k] \subseteq U /\ (Closed(k) \/ Cardinality(up[k]) >= k)}
  <2>1. 0 \in S
    <3>1. IsFiniteSet(N)
      BY FS_Subset
    <3>2. Cardinality(N) >= 0
      BY <3>1, FS_CardinalityType
    <3> QED BY <3>2
  <2>2. \A k \in 0..(m - 1) : k \in S => k + 1 \in S
    <3> TAKE k \in 0..(m - 1)
    <3> HAVE k \in S
    <3>1. k + 1 \in 0..m /\ k \in Nat
      OBVIOUS
    <3>2. up[k + 1] \subseteq U /\ up[k] \subseteq up[k + 1]
      BY <1>1
    <3>3. CASE Closed(k)
      <4>1. up[k + 1] \subseteq up[k]
        <5>1. \A n \in up[k] : succ[n] \subseteq up[k]
          BY <3>3
        <5>2. UNION {succ[n] : n \in up[k]} \subseteq up[k]
          BY <5>1
        <5> QED BY <5>2, <1>1
      <4>2. up[k + 1] = up[k]
        BY <3>2, <4>1
      <4> QED BY <3>1, <3>2, <3>3, <4>2
    <3>4. CASE ~Closed(k) /\ Cardinality(up[k]) >= k
      <4>1. PICK x \in up[k + 1] : x \notin up[k]
        BY <1>1, <3>4
      <4>2. IsFiniteSet(up[k + 1]) /\ IsFiniteSet(up[k])
        BY <3>2, FS_Subset
      <4>3. Cardinality(up[k]) \in Nat /\ Cardinality(up[k + 1]) \in Nat
        BY <4>2, FS_CardinalityType
      <4>4. Cardinality(up[k]) <= Cardinality(up[k + 1]) /\ Cardinality(up[k]) # Cardinality(up[k + 1])
        BY <3>2, <4>1, <4>2, FS_Subset
      <4>5. Cardinality(up[k + 1]) >= k + 1
        BY <3>1, <3>4, <4>3, <4>4
      <4> QED BY <3>1, <3>2, <4>5
    <3> QED BY <3>3, <3>4
  <2> HIDE DEF S
  <2>3. m \in S
    BY <1>2, <2>1, <2>2, UpToSet
  <2>4. up[m] \subseteq U /\ (Closed(m) \/ Cardinality(up[m]) >= m)
    BY <2>3 DEF S
  <2>5. CASE Cardinality(up[m]) >= m
    <3>1. IsFiniteSet(up[m]) /\ Cardinality(up[m]) <= Cardinality(U) /\ Cardinality(U) \in Nat
          /\ Cardinality(up[m]) \in Nat
      BY <2>4, FS_Subset, FS_CardinalityType
    <3>2. up[m] = U
      BY <2>4, <2>5, <3>1, FS_Subset
    <3> QED BY <3>2
  <2> QED BY <2>4, <2>5
<1> QED BY <1>3, <1>4, <1>5
=============================================================================
