-------------------------- MODULE ConcretizeProofs ---------------------------
(***************************************************************************)
(* Proofs about Concretize: for every repository, every request, every     *)
(* hash function, every naming of the nodes and every number of runs.      *)
(*                                                                         *)
(* 1. What resolve() picks, for tables of any length.  Between versions of *)
(*    numbers vercmp_gt is a strict weak order, so that the running best   *)
(*    is a best one.  Between others it is not: a number and a word are    *)
(*    compared as strings, two numbers as numbers.                         *)
(* 2. The graph of a repository that this picks the nodes of.  The nodes   *)
(*    are versions of the names, and there are no more of them than lines  *)
(*    in the tables: what is reached in as many turns is closed.           *)
(* 3. What a run has written down holds together (IInv), from when it has  *)
(*    removed what was there until the next run begins to remove it        *)
(*    (Sound).  TopoOrdered is not inductive.  It needs to know that what  *)
(*    is recorded below a node is finished (BelowDone), that topo lists    *)
(*    the finished nodes (Listed), and that only calls in progress, which  *)
(*    are not finished, still record dependencies (Open).  index and       *)
(*    dag.mk are the beginnings of what the directories say, and are tied  *)
(*    to each other while these are removed (Written).                     *)
(* 4. What is written down is the graph of the repository (GInv): the      *)
(*    directories stand for its nodes, a deps file has as many of the      *)
(*    words of the recipe as were visited, a closure has nothing that      *)
(*    cannot be reached, the calls in progress are a path, and a run ended *)
(*    for a reason the repository gives.  Closures, verdicts, the rules of *)
(*    the makefile, and that runs end, follow.                             *)
(* 5. What is written for a finished node is what its dependencies say     *)
(*    (RInv): prefixes, and with them the order of PATH.                   *)
(* 6. What earlier runs computed are hashes of Worlds (Past), and a World  *)
(*    and its hash determine each other.                                   *)
(***************************************************************************)
EXTENDS Concretize, Lemmas

\* A string of digits has a value.
LEMMA ValueIsNat ==
  ASSUME NEW s \in Seq(Nat), is_int(s)
  PROVE  Value(s) \in Nat
<1> DEFINE n == Len(s)
           Is(val) == val = [i \in 0..n |-> IF i = 0 THEN 0 ELSE 10 * val[i - 1] + s[i]]
<1>1. n \in Nat /\ \A i \in 1..n : s[i] \in Nat
  OBVIOUS
<1>2. \E val \in [0..n -> Nat] : Is(val)
  <2> DEFINE F == [i \in 1..n |-> [k \in Nat |-> 10 * k + s[i]]]
  <2>1. IsStep(F, n, Nat)
    BY <1>1 DEF IsStep
  <2>2. \A i \in 1..n, k \in Nat : F[i][k] = 10 * k + s[i]
    OBVIOUS
  <2> HIDE DEF F, n
  <2>3. n \in Nat /\ 0 \in Nat
    BY <1>1
  <2>4. PICK g \in [0..n -> Nat] : g[0] = 0 /\ \A i \in 1..n : g[i] = F[i][g[i - 1]]
    <3>1. \E g : Iterates(g, F, n, Nat, 0)
      BY <2>1, <2>3, Recursion
    <3> QED BY <3>1 DEF Iterates
  <2>5. ASSUME NEW i \in 1..n
        PROVE  g[i] = 10 * g[i - 1] + s[i]
    <3>1. i - 1 \in 0..n
      BY <2>3
    <3>2. g[i - 1] \in Nat
      BY <3>1
    <3> QED BY <3>2, <2>2, <2>4
  <2>6. \A i \in 0..n : i = 0 \/ i \in 1..n
    BY <2>3
  <2>7. \A i \in 0..n : g[i] = IF i = 0 THEN 0 ELSE 10 * g[i - 1] + s[i]
    BY <2>4, <2>5, <2>6
  <2> QED BY <2>7
<1> DEFINE val == CHOOSE val : Is(val)
<1>3. Is(val)
  BY <1>2
<1>4. Value(s) = val[n]
  BY DEF Value
<1> HIDE DEF val, n
<1>5. \A k \in 0..n : val[k] \in Nat
  <2> DEFINE S == {k \in 0..n : val[k] \in Nat}
  <2>1. 0 \in S
    BY <1>1, <1>3
  <2>2. ASSUME NEW k \in 0..(n - 1), k \in S PROVE k + 1 \in S
    <3>1. k + 1 \in 1..n /\ (k + 1) - 1 = k /\ k \in 0..n /\ k + 1 \in 0..n
      BY <1>1
    <3>2. val[k + 1] = 10 * val[k] + s[k + 1]
      BY <1>3, <3>1
    <3> QED BY <1>1, <2>2, <3>1, <3>2
  <2> HIDE DEF S
  <2>3. \A k \in 0..n : k \in S
    BY <1>1, <2>1, <2>2, UpToSet
  <2> QED BY <2>3 DEF S
<1> QED BY <1>1, <1>4, <1>5

\* Where the segments of a version are.
Places == Nat \ {0}

\* The numbers of a version, as far as one looks.
LEMMA NumbersAreNat ==
  ASSUME NEW v \in VersionSet, Numeric(v), NEW i \in Places
  PROVE  is_int(Segment(v, i)) /\ Number(v, i) \in Nat
<1>1. Segment(v, i) \in Seq(Nat) /\ is_int(Segment(v, i))
  BY DEF Segment, Zero, VersionSet, Numeric, is_int, Places
<1> QED BY <1>1, ValueIsNat DEF Number

\* The versions made of numbers.
NumericVersions == {v \in VersionSet : Numeric(v)}

\* v is newer than w because of their segments i.
NewerAt(v, w, i) ==
  /\ Number(v, i) > Number(w, i)
  /\ \A j \in 1..(i - 1) : Number(v, j) = Number(w, j)

\* To look further than a version has segments changes nothing, and
\* vercmp_gt compares the numbers.
LEMMA ComparesNumbers ==
  ASSUME NEW v \in NumericVersions, NEW w \in NumericVersions
  PROVE  /\ NumericallyNewer(v, w) <=> \E i \in Places : NewerAt(v, w, i)
         /\ vercmp_gt(v, w) <=> NumericallyNewer(v, w)
<1>1. Len(v) \in Nat /\ Len(w) \in Nat /\ DOMAIN v = 1..Len(v) /\ DOMAIN w = 1..Len(w)
  BY DEF NumericVersions, VersionSet
<1>2. \A i \in Places : Number(v, i) \in Nat /\ Number(w, i) \in Nat
  BY NumbersAreNat DEF NumericVersions
<1>3. \A i \in Places : i > Len(v) /\ i > Len(w) => Number(v, i) = Number(w, i)
  BY <1>1 DEF Number, Segment, Places
<1>4. \A i \in Places : NewerAt(v, w, i) => i <= Len(v) \/ i <= Len(w)
  BY <1>1, <1>2, <1>3 DEF NewerAt, Places
<1>5. NumericallyNewer(v, w) <=> \E i \in Places : NewerAt(v, w, i)
  BY <1>1, <1>4 DEF NumericallyNewer, NewerAt, Places
<1>6. ASSUME NEW i \in Places
      PROVE  /\ SegmentGt(Segment(v, i), Segment(w, i)) <=> Number(v, i) > Number(w, i)
             /\ SegmentGt(Segment(w, i), Segment(v, i)) <=> Number(w, i) > Number(v, i)
  BY NumbersAreNat DEF NumericVersions, SegmentGt, Number
<1>7. \A i \in Places : \A j \in 1..(i - 1) : j \in Places
  BY DEF Places
<1>8. ASSUME NEW i \in Places
      PROVE  NewerAt(v, w, i) <=>
               /\ SegmentGt(Segment(v, i), Segment(w, i))
               /\ \A j \in 1..(i - 1) : /\ ~SegmentGt(Segment(v, j), Segment(w, j))
                                        /\ ~SegmentGt(Segment(w, j), Segment(v, j))
  <2>1. \A j \in 1..(i - 1) :
           Number(v, j) = Number(w, j) <=> /\ ~SegmentGt(Segment(v, j), Segment(w, j))
                                           /\ ~SegmentGt(Segment(w, j), Segment(v, j))
    BY <1>2, <1>6, <1>7
  <2> QED BY <2>1, <1>6 DEF NewerAt
<1>9. vercmp_gt(v, w) <=> \E i \in Places : NewerAt(v, w, i)
  BY <1>1, <1>4, <1>8 DEF vercmp_gt, Places
<1> QED BY <1>5, <1>9

\* It is a strict weak order.
LEMMA NewerIsAnOrder ==
  ASSUME NEW u \in NumericVersions, NEW v \in NumericVersions, NEW w \in NumericVersions
  PROVE  /\ ~NumericallyNewer(v, v)
         /\ NumericallyNewer(u, v) /\ NumericallyNewer(v, w) => NumericallyNewer(u, w)
         /\ NumericallyNewer(u, v) => NumericallyNewer(u, w) \/ NumericallyNewer(w, v)
<1>1. \A x \in NumericVersions, i \in Places : Number(x, i) \in Nat
  BY NumbersAreNat DEF NumericVersions
<1>2. \A x, y \in NumericVersions :
         NumericallyNewer(x, y) <=> \E i \in Places : NewerAt(x, y, i)
  BY ComparesNumbers
<1>3. ~NumericallyNewer(v, v)
  BY <1>1, <1>2 DEF NewerAt
<1>4. \A i \in Places : \A j \in 1..(i - 1) : j \in Places /\ j < i
  BY DEF Places
<1>5. \A i, j \in Places : i = j \/ i \in 1..(j - 1) \/ j \in 1..(i - 1)
  BY DEF Places
<1>6. ASSUME NumericallyNewer(u, v), NumericallyNewer(v, w)
      PROVE  NumericallyNewer(u, w)
  <2>1. PICK i \in Places : NewerAt(u, v, i)
    BY <1>2, <1>6
  <2>2. PICK j \in Places : NewerAt(v, w, j)
    BY <1>2, <1>6
  <2>3. CASE i \in 1..(j - 1)
    <3>1. NewerAt(u, w, i)
      <4>1. Number(u, i) > Number(w, i)
        BY <1>1, <2>1, <2>2, <2>3 DEF NewerAt
      <4>2. \A k \in 1..(i - 1) : k \in 1..(j - 1)
        BY <2>3 DEF Places
      <4>3. \A k \in 1..(i - 1) : Number(u, k) = Number(w, k)
        BY <2>1, <2>2, <4>2 DEF NewerAt
      <4> QED BY <4>1, <4>3 DEF NewerAt
    <3> QED BY <3>1, <1>2
  <2>4. CASE j \in 1..(i - 1)
    <3>1. NewerAt(u, w, j)
      <4>1. Number(u, j) > Number(w, j)
        BY <1>1, <2>1, <2>2, <2>4 DEF NewerAt
      <4>2. \A k \in 1..(j - 1) : k \in 1..(i - 1)
        BY <2>4 DEF Places
      <4>3. \A k \in 1..(j - 1) : Number(u, k) = Number(w, k)
        BY <2>1, <2>2, <4>2 DEF NewerAt
      <4> QED BY <4>1, <4>3 DEF NewerAt
    <3> QED BY <3>1, <1>2
  <2>5. CASE i = j
    <3>1. NewerAt(u, w, i)
      <4>1. Number(u, i) > Number(w, i)
        BY <1>1, <2>1, <2>2, <2>5 DEF NewerAt
      <4>2. \A k \in 1..(i - 1) : Number(u, k) = Number(w, k)
        BY <2>1, <2>2, <2>5 DEF NewerAt
      <4> QED BY <4>1, <4>2 DEF NewerAt
    <3> QED BY <3>1, <1>2
  <2> QED BY <1>5, <2>3, <2>4, <2>5
<1>7. ASSUME NumericallyNewer(u, v)
      PROVE  NumericallyNewer(u, w) \/ NumericallyNewer(w, v)
  <2>1. PICK i \in Places : NewerAt(u, v, i)
    BY <1>2, <1>7
  <2>2. CASE \A j \in 1..(i - 1) : Number(u, j) = Number(w, j)
    <3>1. \A j \in 1..(i - 1) : Number(w, j) = Number(v, j)
      BY <2>1, <2>2 DEF NewerAt
    <3>2. Number(u, i) > Number(w, i) \/ Number(w, i) > Number(v, i)
      BY <1>1, <2>1 DEF NewerAt
    <3>3. NewerAt(u, w, i) \/ NewerAt(w, v, i)
      BY <2>2, <3>1, <3>2 DEF NewerAt
    <3> QED BY <3>3, <1>2
  <2>3. CASE ~ \A j \in 1..(i - 1) : Number(u, j) = Number(w, j)
    <3> DEFINE D == {j \in 1..(i - 1) : Number(u, j) # Number(w, j)}
    <3>1. PICK k \in Nat : k \in D /\ \A j \in 0..(k - 1) : j \notin D
      <4>1. \E j \in Nat : j \in D
        BY <2>3
      <4> HIDE DEF D
      <4> QED BY <4>1, Smallest
    <3>2. k \in 1..(i - 1) /\ k \in Places /\ Number(u, k) # Number(w, k)
      BY <3>1, <1>4
    <3>3. \A j \in 1..(k - 1) : j \in 1..(i - 1) /\ Number(u, j) = Number(w, j)
      BY <3>1, <3>2 DEF Places
    <3>4. \A j \in 1..(k - 1) : Number(w, j) = Number(v, j)
      BY <2>1, <3>3 DEF NewerAt
    <3>5. Number(u, k) = Number(v, k)
      BY <2>1, <3>2 DEF NewerAt
    <3>6. Number(u, k) > Number(w, k) \/ Number(w, k) > Number(v, k)
      BY <1>1, <3>2, <3>5
    <3>7. NewerAt(u, w, k) \/ NewerAt(w, v, k)
      BY <3>3, <3>4, <3>6 DEF NewerAt
    <3> QED BY <3>2, <3>7, <1>2
  <2> QED BY <2>2, <2>3
<1> QED BY <1>3, <1>6, <1>7
------------------------------------------------------------------------------
\* a has the elements of the first k lines of a table that are in S, and pos
\* is where they were.
Picks(a, pos, table, S, k) ==
  /\ \A i \in 1..Len(a) : pos[i] \in 1..k /\ a[i] = table[pos[i]] /\ a[i] \in S
  /\ \A i, j \in 1..Len(a) : i < j => pos[i] < pos[j]
  /\ \A l \in 1..k : table[l] \in S => \E i \in 1..Len(a) : pos[i] = l

\* What Among takes of a table: all that is in S, in its order.
LEMMA AmongPicks ==
  ASSUME NEW A, NEW t \in Seq(A), NEW S
  PROVE  /\ Among(t, S) \in Seq(A)
         /\ \E pos : Picks(Among(t, S), pos, t, S, Len(t))
<1> DEFINE n == Len(t)
           Is(f) == f = [i \in 0..n |-> IF i = 0 THEN <<>>
                            ELSE IF t[i] \in S THEN Append(f[i - 1], t[i]) ELSE f[i - 1]]
<1>1. n \in Nat /\ \A i \in 1..n : t[i] \in A
  OBVIOUS
<1>2. \E f : Is(f)
  <2> DEFINE F == [i \in 1..n |-> [x \in Seq(A) |-> IF t[i] \in S THEN Append(x, t[i]) ELSE x]]
  <2>1. IsStep(F, n, Seq(A))
    BY <1>1 DEF IsStep
  <2>2. \A i \in 1..n, x \in Seq(A) : F[i][x] = IF t[i] \in S THEN Append(x, t[i]) ELSE x
    OBVIOUS
  <2> HIDE DEF F, n
  <2>3. n \in Nat /\ <<>> \in Seq(A)
    BY <1>1
  <2>4. PICK g : Iterates(g, F, n, Seq(A), <<>>)
    BY <2>1, <2>3, Recursion
  <2>5. /\ g \in [0..n -> Seq(A)] /\ g[0] = <<>>
        /\ \A i \in 1..n : g[i] = F[i][g[i - 1]]
    BY <2>4 DEF Iterates
  <2>6. ASSUME NEW i \in 1..n
        PROVE  g[i] = IF t[i] \in S THEN Append(g[i - 1], t[i]) ELSE g[i - 1]
    <3>1. i - 1 \in 0..n
      BY <2>3
    <3>2. g[i - 1] \in Seq(A)
      BY <2>5, <3>1
    <3> QED BY <2>2, <2>5, <3>2
  <2>7. \A i \in 0..n : i = 0 \/ i \in 1..n
    BY <2>3
  <2>8. g = [i \in 0..n |-> g[i]]
    BY <2>5
  <2>9. \A i \in 0..n : g[i] = IF i = 0 THEN <<>>
                               ELSE IF t[i] \in S THEN Append(g[i - 1], t[i]) ELSE g[i - 1]
    BY <2>5, <2>6, <2>7
  <2> QED BY <2>8, <2>9
<1> DEFINE f == CHOOSE f : Is(f)
<1>3. Is(f)
  BY <1>2
<1>4. Among(t, S) = f[n]
  BY DEF Among
<1>5. f[0] = <<>>
  <2>1. 0 \in 0..n
    BY <1>1
  <2> HIDE DEF f, n
  <2> QED BY <2>1, <1>3
<1>6. ASSUME NEW k \in 0..(n - 1)
      PROVE  /\ k + 1 \in 1..n /\ k \in Nat
             /\ t[k + 1] \in S => f[k + 1] = Append(f[k], t[k + 1])
             /\ t[k + 1] \notin S => f[k + 1] = f[k]
  <2>1. k + 1 \in 1..n /\ k + 1 \in 0..n /\ (k + 1) - 1 = k /\ k \in Nat /\ k + 1 # 0
    BY <1>1
  <2> QED BY <1>3, <2>1
<1> HIDE DEF f, n
<1> DEFINE T == {k \in 0..n : f[k] \in Seq(A) /\ \E pos : Picks(f[k], pos, t, S, k)}
<1>7. 0 \in T
  <2>1. 0 \in 0..n /\ f[0] \in Seq(A) /\ 1..Len(f[0]) = {} /\ 1..0 = {}
    BY <1>1, <1>5
  <2>2. Picks(f[0], <<>>, t, S, 0)
    BY <2>1 DEF Picks
  <2> QED BY <2>1, <2>2
<1>8. ASSUME NEW k \in 0..(n - 1), k \in T PROVE k + 1 \in T
  <2>1. k + 1 \in 0..n /\ k + 1 \in 1..n /\ k \in Nat
    BY <1>1
  <2>2. f[k] \in Seq(A) /\ Len(f[k]) \in Nat /\ t[k + 1] \in A
    BY <1>1, <1>8, <2>1
  <2>3. PICK pos : Picks(f[k], pos, t, S, k)
    BY <1>8
  <2>4. CASE t[k + 1] \notin S
    <3>1. \A l \in 1..(k + 1) : l \in 1..k \/ l = k + 1
      BY <2>1
    <3>2. 1..k \subseteq 1..(k + 1)
      BY <2>1
    <3>3. Picks(f[k], pos, t, S, k + 1)
      BY <2>3, <2>4, <3>1, <3>2 DEF Picks
    <3> QED BY <1>6, <2>1, <2>2, <2>4, <3>3
  <2>5. CASE t[k + 1] \in S
    <3> DEFINE m == Len(f[k])
               a == Append(f[k], t[k + 1])
               p == [i \in 1..(m + 1) |-> IF i = m + 1 THEN k + 1 ELSE pos[i]]
    <3>1. /\ a \in Seq(A) /\ Len(a) = m + 1 /\ m \in Nat /\ a[m + 1] = t[k + 1]
          /\ \A i \in 1..m : a[i] = f[k][i]
      BY <2>2
    <3>2. p[m + 1] = k + 1 /\ \A i \in 1..m : p[i] = pos[i]
      BY <3>1
    <3>3. \A i \in 1..(m + 1) : i \in 1..m \/ i = m + 1
      BY <3>1
    <3>4. f[k + 1] = a
      BY <1>6, <2>5
    <3> HIDE DEF a, p, m
    <3>5. \A i \in 1..m : pos[i] \in 1..k /\ a[i] = t[pos[i]] /\ a[i] \in S
      BY <2>3, <3>1 DEF Picks, m
    <3>6. \A i \in 1..(m + 1) : p[i] \in 1..(k + 1) /\ a[i] = t[p[i]] /\ a[i] \in S
      <4> TAKE i \in 1..(m + 1)
      <4>1. CASE i = m + 1
        BY <4>1, <2>1, <2>5, <3>1, <3>2
      <4>2. CASE i \in 1..m
        BY <4>2, <2>1, <3>2, <3>5
      <4> QED BY <4>1, <4>2, <3>3
    <3>7. \A i, j \in 1..(m + 1) : i < j => p[i] < p[j]
      <4> TAKE i, j \in 1..(m + 1)
      <4> HAVE i < j
      <4>1. i \in 1..m
        BY <3>1
      <4>2. CASE j = m + 1
        BY <4>1, <4>2, <2>1, <3>2, <3>5
      <4>3. CASE j \in 1..m
        <5>1. pos[i] < pos[j]
          BY <4>1, <4>3, <2>3 DEF Picks, m
        <5> QED BY <4>1, <4>3, <5>1, <3>2
      <4> QED BY <4>2, <4>3, <3>3
    <3>8. \A l \in 1..(k + 1) : t[l] \in S => \E i \in 1..(m + 1) : p[i] = l
      <4> TAKE l \in 1..(k + 1)
      <4> HAVE t[l] \in S
      <4>1. CASE l = k + 1
        BY <4>1, <3>1, <3>2
      <4>2. CASE l \in 1..k
        <5>1. PICK i \in 1..m : pos[i] = l
          BY <4>2, <2>3 DEF Picks, m
        <5> QED BY <5>1, <3>1, <3>2
      <4>3. l = k + 1 \/ l \in 1..k
        BY <2>1
      <4> QED BY <4>1, <4>2, <4>3
    <3>9. Picks(a, p, t, S, k + 1)
      BY <3>1, <3>6, <3>7, <3>8 DEF Picks
    <3> QED BY <2>1, <3>1, <3>4, <3>9
  <2> QED BY <2>4, <2>5
<1>9. n \in T
  <2> HIDE DEF T
  <2>1. n \in 0..n
    BY <1>1
  <2> QED BY <1>1, <1>7, <1>8, <2>1, UpToSet
<1> QED BY <1>4, <1>9 DEF n

\* As a set.
LEMMA AmongRange ==
  ASSUME NEW A, NEW t \in Seq(A), NEW S
  PROVE  Among(t, S) \in Seq(A) /\ SeqRange(Among(t, S)) = SeqRange(t) \cap S
<1>1. PICK pos : Picks(Among(t, S), pos, t, S, Len(t))
  BY AmongPicks
<1>2. Among(t, S) \in Seq(A) /\ DOMAIN t = 1..Len(t)
      /\ DOMAIN Among(t, S) = 1..Len(Among(t, S))
  BY AmongPicks
<1>3. SeqRange(Among(t, S)) \subseteq SeqRange(t) \cap S
  BY <1>1, <1>2 DEF SeqRange, Picks
<1>4. SeqRange(t) \cap S \subseteq SeqRange(Among(t, S))
  BY <1>1, <1>2 DEF SeqRange, Picks
<1> QED BY <1>2, <1>3, <1>4
------------------------------------------------------------------------------
\* What a candidate is.
Kinds == {"external", "built"}
PickSet == [version : VersionSet, kind : Kinds]

\* b is the best of the first k candidates: none, or the first of those that
\* no other is newer than.
IsBest(b, cands, k) ==
  \/ k = 0 /\ b = Unresolved
  \/ \E j \in 1..k :
       /\ b = cands[j]
       /\ \A i \in 1..k : ~vercmp_gt(cands[i].version, b.version)
       /\ \A i \in 1..(j - 1) : vercmp_gt(b.version, cands[i].version)

\* The best of some candidates is a running one.
Runs(best, cands) ==
  /\ best[0] = Unresolved
  /\ \A i \in 1..Len(cands) :
       best[i] = IF best[i - 1] = Unresolved \/ vercmp_gt(cands[i].version, best[i - 1].version)
                 THEN cands[i] ELSE best[i - 1]

\* Best() is the last of running bests.
LEMMA BestRuns ==
  ASSUME NEW cands \in Seq(PickSet)
  PROVE  \E best : Runs(best, cands) /\ Best(cands) = best[Len(cands)]
<1> DEFINE n == Len(cands)
           D == PickSet \cup {Unresolved}
           Is(f) == f = [i \in 0..n |-> IF i = 0 THEN Unresolved
                            ELSE IF f[i - 1] = Unresolved \/ vercmp_gt(cands[i].version, f[i - 1].version)
                                 THEN cands[i] ELSE f[i - 1]]
<1>1. n \in Nat /\ \A i \in 1..n : cands[i] \in PickSet
  OBVIOUS
<1>2. \E f : Is(f)
  <2> DEFINE F == [i \in 1..n |-> [x \in D |->
                     IF x = Unresolved \/ vercmp_gt(cands[i].version, x.version)
                     THEN cands[i] ELSE x]]
  <2>1. \A i \in 1..n, x \in D :
          F[i][x] = IF x = Unresolved \/ vercmp_gt(cands[i].version, x.version)
                    THEN cands[i] ELSE x
    OBVIOUS
  <2> HIDE DEF F, n
  <2>2. IsStep(F, n, D)
    BY <1>1, <2>1 DEF IsStep
  <2>3. n \in Nat /\ Unresolved \in D
    BY <1>1
  <2> HIDE DEF D
  <2>4. PICK g : Iterates(g, F, n, D, Unresolved)
    BY <2>2, <2>3, Recursion
  <2>5. /\ g \in [0..n -> D] /\ g[0] = Unresolved
        /\ \A i \in 1..n : g[i] = F[i][g[i - 1]]
    BY <2>4 DEF Iterates
  <2>6. ASSUME NEW i \in 1..n
        PROVE  g[i] = IF g[i - 1] = Unresolved \/ vercmp_gt(cands[i].version, g[i - 1].version)
                      THEN cands[i] ELSE g[i - 1]
    <3>1. i - 1 \in 0..n
      BY <2>3
    <3>2. g[i - 1] \in D
      BY <2>5, <3>1
    <3> QED BY <2>1, <2>5, <3>2
  <2>7. \A i \in 0..n : i = 0 \/ i \in 1..n
    BY <2>3
  <2>8. g = [i \in 0..n |-> g[i]]
    BY <2>5
  <2>9. \A i \in 0..n : g[i] = IF i = 0 THEN Unresolved
            ELSE IF g[i - 1] = Unresolved \/ vercmp_gt(cands[i].version, g[i - 1].version)
                 THEN cands[i] ELSE g[i - 1]
    BY <2>5, <2>6, <2>7
  <2> QED BY <2>8, <2>9
<1> DEFINE f == CHOOSE f : Is(f)
<1>3. Is(f)
  BY <1>2
<1>4. Best(cands) = f[n]
  BY DEF Best
<1>5. Runs(f, cands)
  <2>1. 0 \in 0..n /\ \A i \in 1..n : i \in 0..n /\ i # 0
    BY <1>1
  <2> HIDE DEF f
  <2> QED BY <1>3, <2>1 DEF Runs
<1> HIDE DEF f
<1> QED BY <1>4, <1>5

\* No version is newer than itself.
LEMMA NotNewerThanItself ==
  ASSUME NEW v \in VersionSet
  PROVE  ~vercmp_gt(v, v)
<1>1. \A i \in Nat : Segment(v, i) \in Seq(Nat)
  BY DEF Segment, Zero, VersionSet
<1>2. ASSUME NEW i \in Nat
      PROVE  ~SegmentGt(Segment(v, i), Segment(v, i))
  <2> DEFINE s == Segment(v, i)
  <2>1. s \in Seq(Nat)
    BY <1>1
  <2> HIDE DEF s
  <2>2. ~str_gt(s, s)
    BY <2>1 DEF str_gt
  <2>3. is_int(s) => ~(Value(s) > Value(s))
    BY <2>1, ValueIsNat
  <2> QED BY <2>2, <2>3 DEF SegmentGt, s
<1>3. \A i \in 1..(IF Len(v) > Len(v) THEN Len(v) ELSE Len(v)) : i \in Nat
  BY DEF VersionSet
<1> QED BY <1>2, <1>3 DEF vercmp_gt

\* Among numbers the running best is a best one.
LEMMA BestOfNumbers ==
  ASSUME NEW cands \in Seq(PickSet), \A i \in 1..Len(cands) : Numeric(cands[i].version)
  PROVE  IsBest(Best(cands), cands, Len(cands))
<1> DEFINE n == Len(cands)
<1>1. n \in Nat /\ \A i \in 1..n : cands[i] \in PickSet /\ cands[i] # Unresolved
                                  /\ cands[i].version \in NumericVersions
  <2>1. n \in Nat /\ \A i \in 1..n : cands[i] \in PickSet
    OBVIOUS
  <2>2. \A c \in PickSet : c # Unresolved /\ c.version \in VersionSet
    BY UnresolvedIsNoPick DEF PickSet, Kinds
  <2> QED BY <2>1, <2>2 DEF NumericVersions
<1>2. PICK best : Runs(best, cands) /\ Best(cands) = best[n]
  BY BestRuns
<1>3. \A u, v, w \in NumericVersions :
        /\ ~vercmp_gt(v, v)
        /\ vercmp_gt(u, v) /\ vercmp_gt(v, w) => vercmp_gt(u, w)
        /\ vercmp_gt(u, v) => vercmp_gt(u, w) \/ vercmp_gt(w, v)
  <2>1. \A u, v \in NumericVersions : vercmp_gt(u, v) <=> NumericallyNewer(u, v)
    BY ComparesNumbers
  <2> QED BY <2>1, NewerIsAnOrder
<1> HIDE DEF n
<1> DEFINE T == {k \in 0..n : IsBest(best[k], cands, k)}
<1>4. 0 \in T
  BY <1>1, <1>2 DEF IsBest, Runs
<1>5. ASSUME NEW k \in 0..(n - 1), k \in T PROVE k + 1 \in T
  <2>1. k + 1 \in 1..n /\ k + 1 \in 0..n /\ (k + 1) - 1 = k /\ k \in Nat
    BY <1>1
  <2>2. best[k + 1] = IF best[k] = Unresolved \/ vercmp_gt(cands[k + 1].version, best[k].version)
                      THEN cands[k + 1] ELSE best[k]
    BY <1>2, <2>1 DEF Runs, n
  <2>3. IsBest(best[k], cands, k)
    BY <1>5
  <2>4. \A i \in 1..(k + 1) : i \in 1..k \/ i = k + 1
    BY <2>1
  <2>5. 1..k \subseteq 1..(k + 1) /\ 1..k \subseteq 1..n /\ k + 1 \in 1..(k + 1)
    BY <1>1, <2>1
  <2> DEFINE c == cands[k + 1]
  <2>6. c \in PickSet /\ c # Unresolved /\ c.version \in NumericVersions
    BY <1>1, <2>1
  <2>7. CASE k = 0
    <3>1. best[1] = cands[1] /\ 1..1 = {1} /\ 1..0 = {}
      BY <2>2, <2>3, <2>7 DEF IsBest
    <3>2. ~vercmp_gt(cands[1].version, cands[1].version)
      BY <1>3, <2>6, <2>7
    <3>3. IsBest(best[1], cands, 1)
      BY <3>1, <3>2 DEF IsBest
    <3> QED BY <2>1, <2>7, <3>3
  <2>8. CASE k # 0
    <3>1. PICK j \in 1..k : /\ best[k] = cands[j]
                            /\ \A i \in 1..k : ~vercmp_gt(cands[i].version, cands[j].version)
                            /\ \A i \in 1..(j - 1) : vercmp_gt(cands[j].version, cands[i].version)
      BY <2>3, <2>8 DEF IsBest
    <3>2. cands[j] # Unresolved /\ cands[j].version \in NumericVersions
      BY <1>1, <2>5
    <3>3. CASE vercmp_gt(c.version, cands[j].version)
      <4>1. best[k + 1] = c
        BY <2>2, <3>1, <3>3
      <4>2. \A i \in 1..k : vercmp_gt(c.version, cands[i].version)
        BY <1>1, <1>3, <2>5, <2>6, <3>1, <3>2, <3>3
      <4>3. \A i \in 1..k : ~vercmp_gt(cands[i].version, c.version)
        BY <1>1, <1>3, <2>5, <2>6, <4>2
      <4>4. ~vercmp_gt(c.version, c.version)
        BY <1>3, <2>6
      <4>5. \A i \in 1..(k + 1) : ~vercmp_gt(cands[i].version, c.version)
        BY <2>4, <4>3, <4>4
      <4>6. \A i \in 1..((k + 1) - 1) : vercmp_gt(c.version, cands[i].version)
        BY <2>1, <4>2
      <4> HIDE DEF c
      <4>7. c = cands[k + 1]
        BY DEF c
      <4>8. IsBest(c, cands, k + 1)
        BY <2>5, <4>5, <4>6, <4>7 DEF IsBest
      <4> QED BY <2>1, <4>1, <4>8
    <3>4. CASE ~vercmp_gt(c.version, cands[j].version)
      <4>1. best[k + 1] = cands[j]
        BY <2>2, <3>1, <3>2, <3>4
      <4>2. \A i \in 1..(k + 1) : ~vercmp_gt(cands[i].version, cands[j].version)
        BY <2>4, <3>1, <3>4
      <4>3. IsBest(cands[j], cands, k + 1)
        BY <2>5, <3>1, <4>2 DEF IsBest
      <4> QED BY <2>1, <4>1, <4>3
    <3> QED BY <3>3, <3>4
  <2> QED BY <2>7, <2>8
<1> HIDE DEF T
<1>6. n \in T
  <2>1. n \in 0..n
    BY <1>1
  <2> QED BY <1>1, <1>4, <1>5, <2>1, UpToSet
<1> QED BY <1>2, <1>6 DEF T, n

\* Among candidates of one version it is the first.
LEMMA BestOfOne ==
  ASSUME NEW cands \in Seq(PickSet), NEW v \in VersionSet,
         \A i \in 1..Len(cands) : cands[i].version = v
  PROVE  Best(cands) = IF Len(cands) = 0 THEN Unresolved ELSE cands[1]
<1> DEFINE n == Len(cands)
<1>1. n \in Nat /\ \A i \in 1..n : cands[i] # Unresolved
  <2>1. n \in Nat /\ \A i \in 1..n : cands[i] \in PickSet
    OBVIOUS
  <2>2. \A c \in PickSet : c # Unresolved
    BY UnresolvedIsNoPick DEF PickSet, Kinds
  <2> QED BY <2>1, <2>2
<1>2. PICK best : Runs(best, cands) /\ Best(cands) = best[n]
  BY BestRuns
<1>3. ~vercmp_gt(v, v)
  BY NotNewerThanItself
<1> HIDE DEF n
<1> DEFINE T == {k \in 0..n : best[k] = IF k = 0 THEN Unresolved ELSE cands[1]}
<1>4. 0 \in T
  BY <1>1, <1>2 DEF Runs
<1>5. ASSUME NEW k \in 0..(n - 1), k \in T PROVE k + 1 \in T
  <2>1. k + 1 \in 1..n /\ k + 1 \in 0..n /\ (k + 1) - 1 = k /\ k \in Nat /\ 1 \in 1..n
    BY <1>1
  <2>2. best[k + 1] = IF best[k] = Unresolved \/ vercmp_gt(cands[k + 1].version, best[k].version)
                      THEN cands[k + 1] ELSE best[k]
    BY <1>2, <2>1 DEF Runs, n
  <2>3. cands[k + 1].version = v /\ cands[1].version = v
    BY <2>1 DEF n
  <2>4. best[k] = IF k = 0 THEN Unresolved ELSE cands[1]
    BY <1>5
  <2>5. best[k + 1] = cands[1]
    BY <1>1, <1>3, <2>1, <2>2, <2>3, <2>4
  <2> QED BY <2>1, <2>5
<1> HIDE DEF T
<1>6. n \in T
  <2>1. n \in 0..n
    BY <1>1
  <2> QED BY <1>1, <1>4, <1>5, <2>1, UpToSet
<1> QED BY <1>2, <1>6 DEF T, n
------------------------------------------------------------------------------
\* The elements of a sequence.
LEMMA RangeOf ==
  ASSUME NEW S, NEW s \in Seq(S)
  PROVE  /\ Len(s) \in Nat /\ DOMAIN s = 1..Len(s)
         /\ \A i \in 1..Len(s) : s[i] \in S /\ s[i] \in SeqRange(s)
         /\ \A x \in SeqRange(s) : x \in S /\ \E i \in 1..Len(s) : s[i] = x
         /\ Len(s) = 0 <=> SeqRange(s) = {}
<1>1. Len(s) \in Nat /\ DOMAIN s = 1..Len(s) /\ \A i \in 1..Len(s) : s[i] \in S
  OBVIOUS
<1>2. Len(s) # 0 => 1 \in 1..Len(s)
  BY <1>1
<1>3. Len(s) = 0 => 1..Len(s) = {}
  BY <1>1
<1> QED BY <1>1, <1>2, <1>3, Zenon DEF SeqRange

\* The fields of a candidate.
LEMMA PickFields ==
  ASSUME NEW p, NEW v, NEW k, p = [version |-> v, kind |-> k]
  PROVE  p.version = v /\ p.kind = k
OBVIOUS

\* The candidates: the lines of the two tables, in order.
LEMMA CandidateList ==
  ASSUME NEW ext \in Seq(VersionSet), NEW decl \in Seq(VersionSet)
  PROVE  LET cands == Candidates(ext, decl, NoVersion)
         IN  /\ cands \in Seq(PickSet)
             /\ Len(cands) = Len(ext) + Len(decl)
             /\ \A i \in 1..Len(ext) : cands[i] = [version |-> ext[i], kind |-> "external"]
             /\ \A i \in 1..Len(decl) :
                  cands[Len(ext) + i] = [version |-> decl[i], kind |-> "built"]
<1> DEFINE A == [i \in 1..Len(ext) |-> [version |-> ext[i], kind |-> "external"]]
           B == [i \in 1..Len(decl) |-> [version |-> decl[i], kind |-> "built"]]
<1>1. DOMAIN ext = 1..Len(ext) /\ DOMAIN decl = 1..Len(decl)
      /\ Len(ext) \in Nat /\ Len(decl) \in Nat
  OBVIOUS
<1>2. Candidates(ext, decl, NoVersion) = A \o B
  BY <1>1 DEF Candidates, Matching
<1>3. A \in Seq(PickSet) /\ B \in Seq(PickSet) /\ Len(A) = Len(ext) /\ Len(B) = Len(decl)
  BY <1>1 DEF PickSet, Kinds
<1>4. /\ \A i \in 1..Len(ext) : A[i] = [version |-> ext[i], kind |-> "external"]
      /\ \A i \in 1..Len(decl) : B[i] = [version |-> decl[i], kind |-> "built"]
  OBVIOUS
<1> HIDE DEF A, B
<1>5. /\ A \o B \in Seq(PickSet) /\ Len(A \o B) = Len(A) + Len(B)
      /\ \A i \in 1..(Len(A) + Len(B)) : (A \o B)[i] = IF i <= Len(A) THEN A[i] ELSE B[i - Len(A)]
  BY <1>3, ConcatProperties
<1>6. \A i \in 1..Len(ext) : (A \o B)[i] = A[i]
  BY <1>1, <1>3, <1>5
<1>7. \A i \in 1..Len(decl) : (A \o B)[Len(ext) + i] = B[i]
  BY <1>1, <1>3, <1>5
<1> QED BY <1>2, <1>3, <1>4, <1>5, <1>6, <1>7

\* With a pin the tables are those of the lines that spell it.
LEMMA PinnedCandidates ==
  ASSUME NEW ext, NEW decl, NEW want, want # NoVersion
  PROVE  Candidates(ext, decl, want) =
           Candidates(Among(ext, {want}), Among(decl, {want}), NoVersion)
<1> DEFINE e == Among(ext, {want})
           d == Among(decl, {want})
<1>1. Matching(ext, want) = e /\ Matching(e, NoVersion) = e
  BY DEF Matching
<1>2. Matching(decl, want) = d /\ Matching(d, NoVersion) = d
  BY DEF Matching
<1> HIDE DEF e, d
<1>3. Candidates(ext, decl, want) = Candidates(e, d, NoVersion)
  BY <1>1, <1>2 DEF Candidates
<1> QED BY <1>3 DEF e, d

\* A pin is taken as it is spelt, from the externals first.
LEMMA ResolvePinned ==
  ASSUME NEW ext \in Seq(VersionSet), NEW decl \in Seq(VersionSet),
         NEW want \in VersionSet, want # NoVersion
  PROVE  resolve(ext, decl, want) =
           IF want \in SeqRange(ext) THEN [version |-> want, kind |-> "external"]
           ELSE IF want \in SeqRange(decl) THEN [version |-> want, kind |-> "built"]
           ELSE Unresolved
<1> DEFINE e == Among(ext, {want})
           d == Among(decl, {want})
<1>1. /\ Candidates(ext, decl, want) = Candidates(e, d, NoVersion)
      /\ e \in Seq(VersionSet) /\ SeqRange(e) = SeqRange(ext) \cap {want}
      /\ d \in Seq(VersionSet) /\ SeqRange(d) = SeqRange(decl) \cap {want}
  BY PinnedCandidates, AmongRange
<1> HIDE DEF e, d
<1> DEFINE cands == Candidates(e, d, NoVersion)
<1>2. /\ Len(e) \in Nat /\ Len(d) \in Nat
      /\ \A i \in 1..Len(e) : e[i] \in SeqRange(e)
      /\ \A i \in 1..Len(d) : d[i] \in SeqRange(d)
      /\ Len(e) = 0 <=> SeqRange(e) = {}
      /\ Len(d) = 0 <=> SeqRange(d) = {}
  BY <1>1, RangeOf
<1>3. /\ \A i \in 1..Len(e) : e[i] = want
      /\ \A i \in 1..Len(d) : d[i] = want
  BY <1>1, <1>2
<1>4. /\ cands \in Seq(PickSet)
      /\ Len(cands) = Len(e) + Len(d)
      /\ \A i \in 1..Len(e) : cands[i] = [version |-> e[i], kind |-> "external"]
      /\ \A i \in 1..Len(d) : cands[Len(e) + i] = [version |-> d[i], kind |-> "built"]
  BY <1>1, CandidateList
<1> HIDE DEF cands
<1>5. \A i \in 1..Len(cands) : i \in 1..Len(e) \/ (i - Len(e) \in 1..Len(d) /\ Len(e) + (i - Len(e)) = i)
  BY <1>2, <1>4
<1>6. \A i \in 1..Len(cands) : cands[i].version = want
  <2> TAKE i \in 1..Len(cands)
  <2>1. CASE i \in 1..Len(e)
    <3>1. cands[i] = [version |-> e[i], kind |-> "external"]
      BY <2>1, <1>4
    <3>2. cands[i].version = e[i]
      BY <3>1, PickFields
    <3> QED BY <2>1, <3>2, <1>3
  <2>2. CASE i - Len(e) \in 1..Len(d) /\ Len(e) + (i - Len(e)) = i
    <3>1. cands[i] = [version |-> d[i - Len(e)], kind |-> "built"]
      BY <2>2, <1>4
    <3>2. d[i - Len(e)] = want
      BY <2>2, <1>3
    <3> HIDE <1>4, <1>5, <2>2
    <3> QED BY <3>1, <3>2, PickFields
  <2> QED BY <1>5, <2>1, <2>2
<1>7. resolve(ext, decl, want) = IF Len(cands) = 0 THEN Unresolved ELSE cands[1]
  BY <1>1, <1>4, <1>6, BestOfOne DEF resolve, cands
<1>8. CASE want \in SeqRange(ext)
  <2>1. Len(e) >= 1
    BY <1>1, <1>2, <1>8
  <2>2. 1 \in 1..Len(e) /\ Len(cands) # 0
    BY <1>2, <1>4, <2>1
  <2> QED BY <1>3, <1>4, <1>7, <1>8, <2>2
<1>9. CASE want \notin SeqRange(ext) /\ want \in SeqRange(decl)
  <2>1. Len(e) = 0 /\ Len(d) # 0
    BY <1>1, <1>2, <1>9
  <2>2. 1 \in 1..Len(d) /\ Len(e) + 1 = 1 /\ Len(cands) # 0
    BY <1>2, <1>4, <2>1
  <2>3. cands[1] = [version |-> d[1], kind |-> "built"]
    BY <1>4, <2>2
  <2> QED BY <1>3, <1>7, <1>9, <2>2, <2>3
<1>10. CASE want \notin SeqRange(ext) /\ want \notin SeqRange(decl)
  <2>1. Len(cands) = 0
    BY <1>1, <1>2, <1>4, <1>10
  <2> QED BY <1>7, <1>10, <2>1
<1> QED BY <1>8, <1>9, <1>10

\* A bare name, all its versions being numbers, takes a newest one, and a
\* version to build only when no external has one as new.
LEMMA ResolveBare ==
  ASSUME NEW ext \in Seq(VersionSet), NEW decl \in Seq(VersionSet),
         \A v \in SeqRange(ext) \cup SeqRange(decl) : Numeric(v)
  PROVE  LET pick == resolve(ext, decl, NoVersion)
             all == SeqRange(ext) \cup SeqRange(decl)
         IN  /\ pick = Unresolved <=> all = {}
             /\ pick # Unresolved =>
                  /\ \/ pick.kind = "external" /\ pick.version \in SeqRange(ext)
                     \/ pick.kind = "built" /\ pick.version \in SeqRange(decl)
                  /\ pick \in PickSet
                  /\ \A v \in all : ~NumericallyNewer(v, pick.version)
                  /\ pick.kind = "built" =>
                       \A v \in SeqRange(ext) : NumericallyNewer(pick.version, v)
<1> DEFINE cands == Candidates(ext, decl, NoVersion)
           pick == Best(cands)
           all == SeqRange(ext) \cup SeqRange(decl)
<1>1. /\ Len(ext) \in Nat /\ Len(decl) \in Nat
      /\ DOMAIN ext = 1..Len(ext) /\ DOMAIN decl = 1..Len(decl)
      /\ \A i \in 1..Len(ext) : ext[i] \in VersionSet /\ ext[i] \in SeqRange(ext)
      /\ \A i \in 1..Len(decl) : decl[i] \in VersionSet /\ decl[i] \in SeqRange(decl)
      /\ \A v \in SeqRange(ext) : v \in VersionSet /\ \E i \in 1..Len(ext) : ext[i] = v
      /\ \A v \in SeqRange(decl) : v \in VersionSet /\ \E i \in 1..Len(decl) : decl[i] = v
  BY RangeOf
<1>2. /\ cands \in Seq(PickSet)
      /\ Len(cands) = Len(ext) + Len(decl)
      /\ \A i \in 1..Len(ext) : cands[i] = [version |-> ext[i], kind |-> "external"]
      /\ \A i \in 1..Len(decl) : cands[Len(ext) + i] = [version |-> decl[i], kind |-> "built"]
  BY CandidateList
<1> HIDE DEF cands
<1>3. ASSUME NEW i \in 1..Len(cands)
      PROVE  \/ i \in 1..Len(ext) /\ cands[i] = [version |-> ext[i], kind |-> "external"]
             \/ /\ i - Len(ext) \in 1..Len(decl)
                /\ cands[i] = [version |-> decl[i - Len(ext)], kind |-> "built"]
  <2>1. i \in 1..Len(ext) \/ (i - Len(ext) \in 1..Len(decl) /\ Len(ext) + (i - Len(ext)) = i)
    BY <1>1, <1>2
  <2>2. CASE i - Len(ext) \in 1..Len(decl) /\ Len(ext) + (i - Len(ext)) = i
    <3>1. cands[Len(ext) + (i - Len(ext))] = [version |-> decl[i - Len(ext)], kind |-> "built"]
      BY <2>2, <1>2
    <3> QED BY <2>2, <3>1
  <2> QED BY <1>2, <2>1, <2>2
<1>4. \A v \in all : v \in NumericVersions
  BY <1>1 DEF NumericVersions
<1>5. \A i \in 1..Len(cands) : cands[i].version \in all /\ Numeric(cands[i].version)
  <2>1. \A i \in 1..Len(cands) : cands[i].version \in all
    <3> TAKE i \in 1..Len(cands)
    <3>1. CASE i \in 1..Len(ext) /\ cands[i] = [version |-> ext[i], kind |-> "external"]
      BY <1>1, <3>1
    <3>2. CASE /\ i - Len(ext) \in 1..Len(decl)
               /\ cands[i] = [version |-> decl[i - Len(ext)], kind |-> "built"]
      <4>1. decl[i - Len(ext)] \in all
        BY <1>1, <3>2
      <4> QED BY <3>2, <4>1
    <3> QED BY <1>3, <3>1, <3>2
  <2> QED BY <1>4, <2>1 DEF NumericVersions
<1>6. IsBest(pick, cands, Len(cands))
  BY <1>2, <1>5, BestOfNumbers
<1>7. \A v \in SeqRange(ext) : \E i \in 1..Len(ext) : i \in 1..Len(cands) /\ cands[i].version = v
  <2>1. Len(cands) \in Nat /\ \A i \in 1..Len(ext) : i \in 1..Len(cands)
    BY <1>1, <1>2
  <2> TAKE v \in SeqRange(ext)
  <2>2. PICK i \in 1..Len(ext) : ext[i] = v
    BY <1>1
  <2>3. cands[i] = [version |-> ext[i], kind |-> "external"]
    BY <1>2
  <2> QED BY <2>1, <2>2, <2>3
<1>8. \A v \in SeqRange(decl) : \E i \in 1..Len(cands) : cands[i].version = v
  <2> TAKE v \in SeqRange(decl)
  <2>1. PICK i \in 1..Len(decl) : decl[i] = v
    BY <1>1
  <2>2. Len(ext) + i \in 1..Len(cands)
    BY <1>1, <1>2
  <2>3. cands[Len(ext) + i] = [version |-> decl[i], kind |-> "built"]
    BY <1>2
  <2>4. cands[Len(ext) + i].version = v
    BY <2>1, <2>3
  <2> QED BY <2>2, <2>4
<1>9. Len(cands) = 0 <=> all = {}
  <2>1. Len(cands) \in Nat
    BY <1>2
  <2>2. Len(cands) # 0 => 1 \in 1..Len(cands)
    BY <2>1
  <2> QED BY <1>5, <1>7, <1>8, <2>1, <2>2
<1>10. \A i \in 1..Len(cands) : cands[i] \in PickSet /\ cands[i] # Unresolved
  <2>1. \A p \in PickSet : p # Unresolved
    BY UnresolvedIsNoPick DEF PickSet, Kinds
  <2> QED BY <1>2, <2>1
<1>11. \A u, v \in all : vercmp_gt(u, v) <=> NumericallyNewer(u, v)
  BY <1>4, ComparesNumbers
<1> HIDE DEF pick, all
<1>12. CASE Len(cands) = 0
  <2>1. pick = Unresolved
    BY <1>6, <1>12 DEF IsBest
  <2> QED BY <1>9, <1>12, <2>1 DEF resolve, pick, cands, all
<1>13. CASE Len(cands) # 0
  <2>1. PICK j \in 1..Len(cands) :
          /\ pick = cands[j]
          /\ \A i \in 1..Len(cands) : ~vercmp_gt(cands[i].version, pick.version)
          /\ \A i \in 1..(j - 1) : vercmp_gt(pick.version, cands[i].version)
    BY <1>6, <1>13 DEF IsBest
  <2>2. pick \in PickSet /\ pick # Unresolved /\ pick.version \in all
    BY <1>5, <1>10, <2>1
  <2>3. \/ pick.kind = "external" /\ pick.version \in SeqRange(ext)
        \/ pick.kind = "built" /\ pick.version \in SeqRange(decl)
    <3>1. CASE j \in 1..Len(ext) /\ cands[j] = [version |-> ext[j], kind |-> "external"]
      <4>1. pick.kind = "external" /\ pick.version = ext[j]
        BY <2>1, <3>1, PickFields
      <4> QED BY <1>1, <3>1, <4>1
    <3>2. CASE /\ j - Len(ext) \in 1..Len(decl)
               /\ cands[j] = [version |-> decl[j - Len(ext)], kind |-> "built"]
      <4>1. pick.kind = "built" /\ pick.version = decl[j - Len(ext)]
        BY <2>1, <3>2, PickFields
      <4> QED BY <1>1, <3>2, <4>1
    <3> QED BY <1>3, <3>1, <3>2
  <2>4. \A v \in all : ~NumericallyNewer(v, pick.version)
    <3> TAKE v \in all
    <3>1. PICK i \in 1..Len(cands) : cands[i].version = v
      BY <1>7, <1>8 DEF all
    <3> QED BY <1>11, <2>1, <2>2, <3>1
  <2>5. ASSUME pick.kind = "built", NEW v \in SeqRange(ext)
        PROVE  NumericallyNewer(pick.version, v)
    <3>1. PICK i \in 1..Len(ext) : i \in 1..Len(cands) /\ cands[i].version = v
      BY <1>7
    <3>2. j \notin 1..Len(ext)
      <4> SUFFICES ASSUME j \in 1..Len(ext) PROVE FALSE
        OBVIOUS
      <4>1. cands[j] = [version |-> ext[j], kind |-> "external"]
        BY <1>2
      <4>2. pick.kind = "external"
        BY <2>1, <4>1
      <4> QED BY <2>5, <4>2
    <3>3. i \in 1..(j - 1)
      BY <1>1, <1>2, <3>1, <3>2
    <3>4. vercmp_gt(pick.version, v) /\ v \in all
      BY <2>1, <3>1, <3>3 DEF all
    <3> QED BY <1>11, <2>2, <3>4
  <2> QED BY <1>9, <1>13, <2>2, <2>3, <2>4, <2>5 DEF resolve, pick, cands, all
<1> QED BY <1>12, <1>13

------------------------------------------------------------------------------
(* The nodes of a repository and its edges.                                 *)

\* What the parts of a repository are.
LEMMA RepoParts ==
  ASSUME repo \in Repos
  PROVE  /\ IsFiniteSet(DOMAIN repo.recipe)
         /\ repo.externals \in Seq(SeqRange(repo.externals))
         /\ \A line \in SeqRange(repo.externals) : line.version \in VersionSet
         /\ \A n \in DOMAIN repo.recipe :
              /\ Declared(n) \in Seq(VersionSet)
              /\ repo.recipe[n] # NoRecipe => repo.recipe[n].deps = NoFile \/ IsRequest(repo, repo.recipe[n].deps)
         /\ \A req \in Requests : IsRequest(repo, req)
<1>1. IsRepository(repo) /\ \A req \in Requests : IsRequest(repo, req)
  BY RepositoriesFit
<1>2. ASSUME NEW n \in DOMAIN repo.recipe
      PROVE  Declared(n) \in Seq(VersionSet)
  <2>1. CASE repo.recipe[n] = NoRecipe
    BY <2>1 DEF Declared
  <2>2. CASE repo.recipe[n] # NoRecipe
    <3> DEFINE vs == repo.recipe[n].versions
    <3>1. IsTable(vs) /\ \A i \in DOMAIN vs : vs[i].version \in VersionSet
      BY <1>1, <2>2 DEF IsRepository
    <3>2. vs \in Seq({vs[i] : i \in DOMAIN vs})
      BY <3>1 DEF IsTable
    <3>3. Declared(n) = [i \in DOMAIN vs |-> vs[i].version]
      BY <2>2 DEF Declared
    <3> HIDE DEF vs
    <3>4. DOMAIN vs = 1..Len(vs) /\ Len(vs) \in Nat
      BY <3>2
    <3> QED BY <3>1, <3>3, <3>4
  <2> QED BY <2>1, <2>2
<1>3. repo.externals \in Seq(SeqRange(repo.externals))
  BY <1>1 DEF IsRepository, IsTable, SeqRange
<1> QED BY <1>1, <1>2, <1>3 DEF IsRepository, SeqRange

\* The tables resolve() is given for a name.
ExternalVersions(name) ==
  LET lines == ExternalLines(name) IN [i \in DOMAIN lines |-> lines[i].version]

\* The tables of a name have the versions the properties speak of.
LEMMA TablesOf ==
  ASSUME repo \in Repos, NEW n \in DOMAIN repo.recipe
  PROVE  /\ ExternalVersions(n) \in Seq(VersionSet)
         /\ SeqRange(ExternalVersions(n)) = Provided(n)
         /\ Declared(n) \in Seq(VersionSet)
         /\ Provided(n) \cup Buildable(n) = VersionsIn(repo, n)
         /\ Provided(n) \cup Buildable(n) \subseteq VersionSet
<1> DEFINE lines == ExternalLines(n)
<1>1. /\ lines \in Seq(SeqRange(repo.externals))
      /\ SeqRange(lines) = {line \in SeqRange(repo.externals) : line.name = n}
  <2>1. SeqRange(lines) = SeqRange(repo.externals) \cap {line \in SeqRange(repo.externals) : line.name = n}
        /\ lines \in Seq(SeqRange(repo.externals))
    BY RepoParts, AmongRange DEF ExternalLines
  <2> QED BY <2>1
<1>2. \A line \in SeqRange(repo.externals) : line.version \in VersionSet
  BY RepoParts
<1> HIDE DEF lines
<1>3. DOMAIN lines = 1..Len(lines) /\ Len(lines) \in Nat
      /\ \A i \in 1..Len(lines) : lines[i] \in SeqRange(repo.externals)
  BY <1>1
<1>4. ExternalVersions(n) = [i \in 1..Len(lines) |-> lines[i].version]
  BY <1>3 DEF ExternalVersions, lines
<1>5. ExternalVersions(n) \in Seq(VersionSet)
  <2>1. \A i \in 1..Len(lines) : lines[i].version \in VersionSet
    BY <1>2, <1>3
  <2> QED BY <1>3, <1>4, <2>1
<1>6. SeqRange(ExternalVersions(n)) = Provided(n)
  BY <1>3, <1>4 DEF SeqRange, Provided, lines
<1>7. Declared(n) \in Seq(VersionSet)
  BY RepoParts
<1>8. Provided(n) = {repo.externals[i].version : i \in {j \in DOMAIN repo.externals : repo.externals[j].name = n}}
  BY <1>1 DEF Provided, SeqRange, lines
<1>9. Buildable(n) = IF repo.recipe[n] = NoRecipe THEN {}
                     ELSE {repo.recipe[n].versions[i].version : i \in DOMAIN repo.recipe[n].versions}
  <2>1. CASE repo.recipe[n] = NoRecipe
    BY <2>1 DEF Buildable, Declared, SeqRange
  <2>2. CASE repo.recipe[n] # NoRecipe
    <3> DEFINE vs == repo.recipe[n].versions
    <3>1. Declared(n) = [i \in DOMAIN vs |-> vs[i].version]
      BY <2>2 DEF Declared
    <3> HIDE DEF vs
    <3>2. Buildable(n) = {vs[i].version : i \in DOMAIN vs}
      BY <3>1 DEF Buildable, SeqRange
    <3> QED BY <2>2, <3>2 DEF vs
  <2> QED BY <2>1, <2>2
<1>10. Provided(n) \cup Buildable(n) \subseteq VersionSet
  <2>1. \A v \in Buildable(n) : v \in VersionSet
    BY <1>7, RangeOf DEF Buildable
  <2>2. \A v \in Provided(n) : v \in VersionSet
    BY <1>5, <1>6, RangeOf
  <2> QED BY <2>1, <2>2
<1> QED BY <1>5, <1>6, <1>7, <1>8, <1>9, <1>10 DEF VersionsIn

\* A pin is picked as it is spelt, from an external if there is one.
LEMMA PinExact ==
  ASSUME repo \in Repos, NEW n \in DOMAIN repo.recipe, NEW want \in VersionSet
  PROVE  Pick(n, want) =
           IF want \in Provided(n) THEN [version |-> want, kind |-> "external"]
           ELSE IF want \in Buildable(n) THEN [version |-> want, kind |-> "built"]
           ELSE Unresolved
<1>1. Pick(n, want) = resolve(ExternalVersions(n), Declared(n), want)
  BY DEF Pick, Resolved, ExternalVersions
<1>2. want # NoVersion
  BY NoVersionIsNone
<1> QED BY <1>1, <1>2, TablesOf, ResolvePinned DEF Buildable

\* A bare name gets a newest version, built only when no external is as new.
LEMMA BareNewest ==
  ASSUME repo \in Repos, NumbersOnly, NEW n \in DOMAIN repo.recipe
  PROVE  LET pick == Pick(n, NoVersion)
             all == Provided(n) \cup Buildable(n)
         IN  /\ pick = Unresolved <=> all = {}
             /\ pick # Unresolved =>
                  /\ \/ pick.kind = "external" /\ pick.version \in Provided(n)
                     \/ pick.kind = "built" /\ pick.version \in Buildable(n)
                  /\ pick \in PickSet
                  /\ \A v \in all : ~NumericallyNewer(v, pick.version)
                  /\ pick.kind = "built" =>
                       \A v \in Provided(n) : NumericallyNewer(pick.version, v)
<1>1. Pick(n, NoVersion) = resolve(ExternalVersions(n), Declared(n), NoVersion)
  BY DEF Pick, Resolved, ExternalVersions
<1>2. \A v \in Provided(n) \cup Buildable(n) : Numeric(v)
  BY TablesOf DEF NumbersOnly
<1>3. Buildable(n) = SeqRange(Declared(n)) /\ Provided(n) = SeqRange(ExternalVersions(n))
      /\ ExternalVersions(n) \in Seq(VersionSet) /\ Declared(n) \in Seq(VersionSet)
  BY TablesOf DEF Buildable
<1> DEFINE ext == ExternalVersions(n)
           decl == Declared(n)
<1> HIDE DEF ext, decl
<1>4. /\ ext \in Seq(VersionSet) /\ decl \in Seq(VersionSet)
      /\ \A v \in SeqRange(ext) \cup SeqRange(decl) : Numeric(v)
      /\ Provided(n) = SeqRange(ext) /\ Buildable(n) = SeqRange(decl)
      /\ Pick(n, NoVersion) = resolve(ext, decl, NoVersion)
  BY <1>1, <1>2, <1>3 DEF ext, decl
<1> QED BY <1>4, ResolveBare

------------------------------------------------------------------------------
\* The nodes of a repository: one for each version of a name, external when an
\* external provides it.
NodeAt(n, v) ==
  [name |-> n, version |-> v, kind |-> IF v \in Provided(n) THEN "external" ELSE "built"]

Nodes == UNION {{NodeAt(n, v) : v \in VersionsIn(repo, n)} : n \in DOMAIN repo.recipe}

\* What a spec may stand for.
Universe == Nodes \cup {Unresolved}

\* A spec that may stand in depends_on or in a request.
IsWord(s) == s.name \in DOMAIN repo.recipe /\ (s.want = NoVersion \/ s.want \in VersionSet)

\* What the fields of a node are.
LEMMA NodeParts ==
  ASSUME repo \in Repos, NEW n \in Nodes
  PROVE  /\ n = NodeAt(n.name, n.version) /\ n.name \in DOMAIN repo.recipe
         /\ n.version \in VersionsIn(repo, n.name) /\ n.version \in VersionSet
         /\ n.kind = IF n.version \in Provided(n.name) THEN "external" ELSE "built"
         /\ n # Unresolved
<1>0. PICK m \in DOMAIN repo.recipe : \E v \in VersionsIn(repo, m) : n = NodeAt(m, v)
  BY DEF Nodes
<1>1. PICK v \in VersionsIn(repo, m) : n = NodeAt(m, v)
  BY <1>0
<1>2. n.name = m /\ n.version = v /\ n.kind = IF v \in Provided(m) THEN "external" ELSE "built"
  BY <1>1 DEF NodeAt
<1>3. v \in VersionSet
  BY TablesOf
<1>4. n \in [name : DOMAIN repo.recipe, version : VersionSet, kind : {"external", "built"}]
  BY <1>1, <1>3 DEF NodeAt
<1>5. n # Unresolved
  BY <1>4, RepositoriesFit
<1> QED BY <1>1, <1>2, <1>3, <1>5

\* An id belongs to one node.
LEMMA NodesDiffer ==
  ASSUME repo \in Repos, IdsDiffer, NEW m \in Nodes, NEW n \in Nodes, IdOfNode(m) = IdOfNode(n)
  PROVE  m = n
<1>1. m.name = n.name /\ m.version = n.version
  BY NodeParts DEF IdsDiffer, IdOfNode
<1> QED BY <1>1, NodeParts

\* What a spec stands for is a node, or nothing.
LEMMA WordNode ==
  ASSUME repo \in Repos, NumbersOnly, NEW s, IsWord(s)
  PROVE  /\ NodeOf(s) \in Universe
         /\ Resolved(s) = Unresolved <=> NodeOf(s) = Unresolved
         /\ NodeOf(s) # Unresolved =>
              /\ NodeOf(s) \in Nodes
              /\ NodeOf(s) = [name |-> s.name, version |-> Resolved(s).version, kind |-> Resolved(s).kind]
              /\ IdOfNode(NodeOf(s)) = IdOf(s.name, Resolved(s).version)
<1> DEFINE n == s.name
           pick == Resolved(s)
<1>1. n \in DOMAIN repo.recipe
  BY DEF IsWord
<1>2. pick = Pick(n, s.want)
  BY DEF Pick, Resolved
<1> HIDE DEF n, pick
<1>3. pick # Unresolved => /\ pick.version \in VersionsIn(repo, n)
                           /\ pick.kind = IF pick.version \in Provided(n) THEN "external" ELSE "built"
  <2>1. CASE s.want = NoVersion
    <3>1. pick # Unresolved =>
            /\ \/ pick.kind = "external" /\ pick.version \in Provided(n)
               \/ pick.kind = "built" /\ pick.version \in Buildable(n)
            /\ pick.kind = "built" => \A v \in Provided(n) : NumericallyNewer(pick.version, v)
      BY <1>1, <1>2, <2>1, BareNewest
    <3>2. Provided(n) \cup Buildable(n) = VersionsIn(repo, n)
          /\ Provided(n) \cup Buildable(n) \subseteq VersionSet
      BY <1>1, TablesOf
    <3>3. \A v \in VersionsIn(repo, n) : v \in NumericVersions
      BY <1>1, <3>2 DEF NumbersOnly, NumericVersions
    <3>4. \A v \in VersionsIn(repo, n) : ~NumericallyNewer(v, v)
      BY <3>3, NewerIsAnOrder
    <3> QED BY <3>1, <3>2, <3>4
  <2>2. CASE s.want # NoVersion
    <3>1. s.want \in VersionSet
      BY <2>2 DEF IsWord
    <3>2. pick = IF s.want \in Provided(n) THEN [version |-> s.want, kind |-> "external"]
                 ELSE IF s.want \in Buildable(n) THEN [version |-> s.want, kind |-> "built"]
                 ELSE Unresolved
      BY <1>1, <1>2, <3>1, PinExact
    <3>3. Provided(n) \cup Buildable(n) = VersionsIn(repo, n)
      BY <1>1, TablesOf
    <3> QED BY <3>2, <3>3
  <2> QED BY <2>1, <2>2
<1> DEFINE node == [name |-> n, version |-> pick.version, kind |-> pick.kind]
<1>4. NodeOf(s) = IF pick = Unresolved THEN Unresolved ELSE node
  BY DEF NodeOf, pick, n
<1>5. pick # Unresolved => node = NodeAt(n, pick.version)
  BY <1>3 DEF NodeAt
<1>6. pick # Unresolved => node \in Nodes
  BY <1>1, <1>3, <1>5 DEF Nodes
<1>7. pick # Unresolved => node # Unresolved
  BY <1>6, NodeParts
<1>8. IdOfNode(node) = IdOf(n, pick.version)
  BY DEF IdOfNode
<1> QED BY <1>4, <1>6, <1>7, <1>8 DEF Universe, pick, n

\* The words below a node, and what they stand for.
LEMMA SuccIn ==
  ASSUME repo \in Repos, NumbersOnly, NEW n \in Universe
  PROVE  LET w == WordsOf(NodeDeps(n))
         IN  /\ w \in Seq(SeqRange(w))
             /\ \A s \in SeqRange(w) : IsWord(s)
             /\ Succ(n) = {NodeOf(s) : s \in SeqRange(w)}
             /\ Succ(n) \subseteq Universe
             /\ n # Unresolved /\ n.kind = "external" => NodeDeps(n) = NoFile /\ w = <<>>
<1> DEFINE w == WordsOf(NodeDeps(n))
<1>1. CASE n = Unresolved
  BY <1>1 DEF NodeDeps, WordsOf, SeqRange, Succ
<1>2. CASE n # Unresolved /\ n.kind = "external"
  BY <1>2 DEF NodeDeps, RecipeDeps, WordsOf, SeqRange, Succ
<1>3. CASE n # Unresolved /\ n.kind # "external"
  <2>1. /\ n.name \in DOMAIN repo.recipe /\ n.version \in VersionsIn(repo, n.name)
        /\ n.version \notin Provided(n.name)
    BY <1>3, NodeParts DEF Universe
  <2>2. n.version \in Buildable(n.name)
    BY <2>1, TablesOf
  <2>3. repo.recipe[n.name] # NoRecipe
    <3> SUFFICES ASSUME repo.recipe[n.name] = NoRecipe PROVE FALSE
      OBVIOUS
    <3>1. Declared(n.name) = <<>>
      BY DEF Declared
    <3> QED BY <2>2, <3>1 DEF Buildable, SeqRange
  <2> DEFINE d == repo.recipe[n.name].deps
  <2>4. d = NoFile \/ IsRequest(repo, d)
    BY <2>1, <2>3, RepoParts
  <2>5. NodeDeps(n) = d
    BY <1>3 DEF NodeDeps, RecipeDeps
  <2>6. CASE d = NoFile
    BY <1>3, <2>5, <2>6 DEF WordsOf, SeqRange, Succ
  <2>7. CASE d # NoFile
    <3>1. w = d /\ IsRequest(repo, d)
      BY <2>4, <2>5, <2>7 DEF WordsOf
    <3> HIDE DEF w, d
    <3>2. w \in Seq(SeqRange(w)) /\ \A s \in SeqRange(w) : IsWord(s)
      BY <3>1 DEF IsRequest, IsTable, SeqRange, IsWord
    <3>3. Succ(n) = {NodeOf(s) : s \in SeqRange(w)}
      BY DEF Succ, w
    <3>4. \A s \in SeqRange(w) : NodeOf(s) \in Universe
      BY <3>2, WordNode
    <3> QED BY <1>3, <3>2, <3>3, <3>4 DEF w
  <2> QED BY <2>6, <2>7
<1> QED BY <1>1, <1>2, <1>3

\* There are no more nodes than RepoSize, the bound in the definition of Reach.
LEMMA UniverseFits ==
  ASSUME repo \in Repos
  PROVE  /\ IsFiniteSet(Universe) /\ Cardinality(Universe) <= RepoSize /\ RepoSize \in Nat
<1> DEFINE k == Len(repo.externals)
           ext == repo.externals
           Pairs == UNION {{<<n, i>> : i \in DOMAIN Declared(n)} : n \in DOMAIN repo.recipe}
           E == {NodeAt(ext[i].name, ext[i].version) : i \in 1..k}
           B == {NodeAt(p[1], Declared(p[1])[p[2]]) : p \in Pairs}
<1>1. k \in Nat /\ DOMAIN ext = 1..k
  BY RepoParts
<1>2. IsFiniteSet(Pairs)
  <2> DEFINE rows == [n \in DOMAIN repo.recipe |-> {<<n, i>> : i \in DOMAIN Declared(n)}]
             T == {rows[n] : n \in DOMAIN repo.recipe}
  <2>1. IsFiniteSet(DOMAIN repo.recipe)
    BY RepoParts
  <2>2. rows \in Surjection(DOMAIN repo.recipe, T)
    BY DEF Surjection
  <2>3. \A n \in DOMAIN repo.recipe : rows[n] = {<<n, i>> : i \in DOMAIN Declared(n)}
    OBVIOUS
  <2>4. Pairs = UNION T
    OBVIOUS
  <2> HIDE DEF rows, T, Pairs
  <2>5. IsFiniteSet(T)
    BY <2>1, <2>2, FS_Surjection
  <2>6. ASSUME NEW n \in DOMAIN repo.recipe
        PROVE  IsFiniteSet(rows[n])
    <3> DEFINE m == Len(Declared(n))
               f == [i \in 1..m |-> <<n, i>>]
    <3>1. m \in Nat /\ DOMAIN Declared(n) = 1..m
      BY RepoParts
    <3>2. IsFiniteSet(1..m)
      BY <3>1, FS_Interval
    <3>3. rows[n] = {<<n, i>> : i \in 1..m}
      BY <2>3, <3>1
    <3> HIDE DEF m
    <3>4. f \in Surjection(1..m, rows[n])
      BY <3>3 DEF Surjection
    <3> HIDE DEF f
    <3> QED BY <3>2, <3>4, FS_Surjection
  <2>7. \A t \in T : IsFiniteSet(t)
    BY <2>6 DEF T
  <2> QED BY <2>4, <2>5, <2>7, FS_UNION
<1>3. RepoSize = 1 + k + Cardinality(Pairs)
  BY DEF RepoSize
<1> HIDE DEF Pairs
<1>4. IsFiniteSet(B) /\ Cardinality(B) <= Cardinality(Pairs) /\ Cardinality(Pairs) \in Nat
  <2> DEFINE f == [p \in Pairs |-> NodeAt(p[1], Declared(p[1])[p[2]])]
  <2>1. f \in Surjection(Pairs, B)
    BY DEF Surjection
  <2> HIDE DEF f, B
  <2> QED BY <1>2, <2>1, FS_Surjection, FS_CardinalityType
<1>5. IsFiniteSet(E) /\ Cardinality(E) <= k
  <2> DEFINE f == [i \in 1..k |-> NodeAt(ext[i].name, ext[i].version)]
  <2>1. f \in Surjection(1..k, E)
    BY DEF Surjection
  <2> HIDE DEF f, E, k
  <2>2. IsFiniteSet(1..k) /\ Cardinality(1..k) = k
    BY <1>1, FS_Interval
  <2> QED BY <2>1, <2>2, FS_Surjection
<1>6. Nodes \subseteq E \cup B
  <2> SUFFICES ASSUME NEW n \in DOMAIN repo.recipe, NEW v \in VersionsIn(repo, n)
               PROVE  NodeAt(n, v) \in E \cup B
    BY DEF Nodes
  <2>1. CASE \E i \in DOMAIN ext : ext[i].name = n /\ ext[i].version = v
    BY <1>1, <2>1
  <2>2. CASE v \in Buildable(n)
    <3>1. PICK i \in DOMAIN Declared(n) : Declared(n)[i] = v
      BY <2>2 DEF Buildable, SeqRange
    <3>2. <<n, i>> \in Pairs
      BY DEF Pairs
    <3>3. <<n, i>>[1] = n /\ <<n, i>>[2] = i
      OBVIOUS
    <3> QED BY <3>1, <3>2, <3>3
  <2>3. v \in Buildable(n) \/ \E i \in DOMAIN ext : ext[i].name = n /\ ext[i].version = v
    <3>1. CASE repo.recipe[n] = NoRecipe
      BY <3>1 DEF VersionsIn
    <3>2. CASE repo.recipe[n] # NoRecipe
      BY <3>2 DEF VersionsIn, Buildable, Declared, SeqRange
    <3> QED BY <3>1, <3>2
  <2> QED BY <2>1, <2>2, <2>3
<1> HIDE DEF E, B, k, ext
<1>7. /\ IsFiniteSet(E \cup B) /\ Cardinality(E \cup B) <= k + Cardinality(Pairs)
      /\ Cardinality(E \cup B) \in Nat
  <2>1. IsFiniteSet(E \cap B) /\ IsFiniteSet(E \cup B)
        /\ Cardinality(E \cup B) = Cardinality(E) + Cardinality(B) - Cardinality(E \cap B)
    BY <1>4, <1>5, FS_Union, FS_Intersection
  <2>2. Cardinality(E) \in Nat /\ Cardinality(B) \in Nat /\ Cardinality(E \cap B) \in Nat
        /\ Cardinality(E \cup B) \in Nat
    BY <1>4, <1>5, <2>1, FS_CardinalityType
  <2> QED BY <1>1, <1>4, <1>5, <2>1, <2>2
<1>8. /\ IsFiniteSet((E \cup B) \cup {Unresolved})
      /\ Cardinality((E \cup B) \cup {Unresolved}) <= 1 + k + Cardinality(Pairs)
      /\ Cardinality((E \cup B) \cup {Unresolved}) \in Nat
  <2> DEFINE S == E \cup B
  <2>1. IsFiniteSet(S) /\ Cardinality(S) \in Nat /\ Cardinality(S) <= k + Cardinality(Pairs)
    BY <1>7
  <2> HIDE DEF S
  <2>2. /\ IsFiniteSet(S \cup {Unresolved})
        /\ Cardinality(S \cup {Unresolved}) =
             IF Unresolved \in S THEN Cardinality(S) ELSE Cardinality(S) + 1
    BY <2>1, FS_AddElement
  <2>3. /\ Cardinality(S \cup {Unresolved}) <= 1 + k + Cardinality(Pairs)
        /\ Cardinality(S \cup {Unresolved}) \in Nat
    BY <1>1, <1>4, <2>1, <2>2
  <2> QED BY <2>2, <2>3 DEF S
<1>9. Universe \subseteq (E \cup B) \cup {Unresolved}
  BY <1>6 DEF Universe
<1>10. IsFiniteSet(Universe) /\ Cardinality(Universe) <= Cardinality((E \cup B) \cup {Unresolved})
       /\ Cardinality(Universe) \in Nat
  BY <1>8, <1>9, FS_Subset, FS_CardinalityType
<1> QED BY <1>1, <1>3, <1>4, <1>8, <1>10

\* R is the least set that has the nodes in N and what they depend on.
IsReach(R, N) ==
  /\ N \subseteq R /\ R \subseteq Universe
  /\ \A n \in R : Succ(n) \subseteq R
  /\ \A C : N \subseteq C /\ (\A n \in C \cap Universe : Succ(n) \subseteq C) => R \subseteq C

\* That many turns of collecting reach all that can be reached.
LEMMA ReachIs ==
  ASSUME repo \in Repos, NumbersOnly, NEW N \in SUBSET Universe
  PROVE  IsReach(Reach(N), N)
<1> DEFINE m == RepoSize
           D == SUBSET Universe
           Is(f) == f = [k \in 0..m |-> IF k = 0 THEN N
                                        ELSE f[k - 1] \cup UNION {Succ(n) : n \in f[k - 1]}]
<1>1. m \in Nat /\ IsFiniteSet(Universe) /\ Cardinality(Universe) <= m
  BY UniverseFits
<1>2. \A n \in Universe : Succ(n) \subseteq Universe
  BY SuccIn
<1>3. \E f : Is(f)
  <2> DEFINE F == [i \in 1..m |-> [x \in D |-> x \cup UNION {Succ(n) : n \in x}]]
  <2>1. \A i \in 1..m, x \in D : F[i][x] = x \cup UNION {Succ(n) : n \in x}
    OBVIOUS
  <2> HIDE DEF F, m
  <2>2. IsStep(F, m, D)
    <3>1. \A x \in D : UNION {Succ(n) : n \in x} \subseteq Universe
      BY <1>2
    <3> QED BY <2>1, <3>1 DEF IsStep
  <2>3. N \in D
    OBVIOUS
  <2> HIDE DEF D
  <2>4. PICK g : Iterates(g, F, m, D, N)
    BY <1>1, <2>2, <2>3, Recursion
  <2>5. /\ g \in [0..m -> D] /\ g[0] = N
        /\ \A i \in 1..m : g[i] = F[i][g[i - 1]]
    BY <2>4 DEF Iterates
  <2>6. ASSUME NEW i \in 1..m
        PROVE  g[i] = g[i - 1] \cup UNION {Succ(n) : n \in g[i - 1]}
    <3>1. i - 1 \in 0..m
      BY <1>1
    <3>2. g[i - 1] \in D
      BY <2>5, <3>1
    <3> QED BY <2>1, <2>5, <3>2
  <2>7. \A i \in 0..m : i = 0 \/ i \in 1..m
    BY <1>1
  <2>8. g = [i \in 0..m |-> g[i]]
    BY <2>5
  <2>9. \A i \in 0..m : g[i] = IF i = 0 THEN N
                               ELSE g[i - 1] \cup UNION {Succ(n) : n \in g[i - 1]}
    BY <2>5, <2>6, <2>7
  <2> QED BY <2>8, <2>9
<1> DEFINE up == CHOOSE f : Is(f)
<1>4. Is(up)
  BY <1>3
<1>5. Reach(N) = up[m]
  BY DEF Reach
<1> DEFINE succ == [n \in Universe |-> Succ(n)]
<1>6. succ \in [Universe -> SUBSET Universe] /\ \A n \in Universe : succ[n] = Succ(n)
  BY <1>2
<1>7. up[0] = N /\ \A i \in 1..m : up[i] = up[i - 1] \cup UNION {Succ(n) : n \in up[i - 1]}
  <2>1. 0 \in 0..m /\ \A i \in 1..m : i \in 0..m /\ i # 0
    BY <1>1
  <2> HIDE DEF up, m
  <2> QED BY <1>4, <2>1
<1> HIDE DEF up, succ, m
<1>8. \A i \in 0..m : up[i] \subseteq Universe
  <2> DEFINE T == {i \in 0..m : up[i] \subseteq Universe}
  <2>1. 0 \in T
    BY <1>1, <1>7
  <2>2. ASSUME NEW k \in 0..(m - 1), k \in T PROVE k + 1 \in T
    <3>1. k + 1 \in 1..m /\ k + 1 \in 0..m /\ (k + 1) - 1 = k
      BY <1>1
    <3>2. up[k + 1] = up[k] \cup UNION {Succ(n) : n \in up[k]}
      BY <1>7, <3>1
    <3> QED BY <1>2, <2>2, <3>1, <3>2
  <2> HIDE DEF T
  <2>3. \A k \in 0..m : k \in T
    BY <1>1, <2>1, <2>2, UpToSet
  <2> QED BY <2>3 DEF T
<1>9. \A i \in 1..m : up[i] = up[i - 1] \cup UNION {succ[n] : n \in up[i - 1]}
  <2> TAKE i \in 1..m
  <2>1. i - 1 \in 0..m
    BY <1>1
  <2>2. up[i - 1] \subseteq Universe
    BY <1>8, <2>1
  <2>3. {succ[n] : n \in up[i - 1]} = {Succ(n) : n \in up[i - 1]}
    BY <1>6, <2>2
  <2> QED BY <1>7, <2>3
<1>10. Closes(up[m], succ, N, Universe)
  <2>1. Collects(up, succ, N, m)
    BY <1>7, <1>9 DEF Collects
  <2> QED BY <1>1, <1>6, <2>1, Closing
<1> QED BY <1>5, <1>6, <1>10 DEF IsReach, Closes

\* The same as a formula.
LEMMA Reaches ==
  repo \in Repos /\ NumbersOnly => \A N \in SUBSET Universe : IsReach(Reach(N), N)
BY ReachIs

\* Reachability is monotone and transitive.
LEMMA ReachWithin ==
  ASSUME repo \in Repos, NumbersOnly, NEW N \in SUBSET Universe, NEW M \in SUBSET Universe,
         N \subseteq Reach(M)
  PROVE  Reach(N) \subseteq Reach(M)
<1>1. IsReach(Reach(M), M) /\ IsReach(Reach(N), N)
  BY ReachIs
<1> QED BY <1>1 DEF IsReach

\* An unchanged repository has the same nodes and edges.
LEMMA SameGraph ==
  ASSUME repo' = repo, repo \in Repos, NumbersOnly
  PROVE  /\ Universe' = Universe /\ Nodes' = Nodes
         /\ \A s : NodeOf(s)' = NodeOf(s) /\ Resolved(s)' = Resolved(s)
         /\ \A n : NodeDeps(n)' = NodeDeps(n) /\ Succ(n)' = Succ(n)
         /\ \A N \in SUBSET Universe : Reach(N)' = Reach(N)
<1>1. \A n : ExternalLines(n)' = ExternalLines(n) /\ Declared(n)' = Declared(n)
  BY DEF ExternalLines, Declared
<1>2. \A s : Resolved(s)' = Resolved(s)
  BY <1>1 DEF Resolved
<1>3. \A s : NodeOf(s)' = NodeOf(s)
  BY <1>2 DEF NodeOf
<1>4. \A n : NodeDeps(n)' = NodeDeps(n)
  BY DEF NodeDeps, RecipeDeps
<1>5. \A n : Succ(n)' = Succ(n)
  BY <1>3, <1>4 DEF Succ
<1>6. \A n : Provided(n)' = Provided(n)
  BY <1>1 DEF Provided
<1>7. \A n, v : NodeAt(n, v)' = NodeAt(n, v)
  BY <1>6 DEF NodeAt
<1>8. Nodes' = Nodes
  BY <1>7 DEF Nodes
<1>9. Universe' = Universe
  BY <1>8 DEF Universe
<1>10. (repo \in Repos /\ NumbersOnly => \A N \in SUBSET Universe : IsReach(Reach(N), N))'
  BY Reaches, PTL
<1>11. ASSUME NEW N \in SUBSET Universe
       PROVE  Reach(N)' = Reach(N)
  <2>1. IsReach(Reach(N), N)
    BY Reaches
  <2>2. IsReach(Reach(N), N)'
    BY <1>9, <1>10
  <2>3. /\ N \subseteq Reach(N)' /\ Reach(N)' \subseteq Universe
        /\ \A n \in Reach(N)' : Succ(n) \subseteq Reach(N)'
        /\ \A C : N \subseteq C /\ (\A n \in C \cap Universe : Succ(n) \subseteq C) => Reach(N)' \subseteq C
    BY <1>5, <1>9, <2>2 DEF IsReach
  <2> QED BY <2>1, <2>3 DEF IsReach
<1> QED BY <1>2, <1>3, <1>4, <1>5, <1>8, <1>9, <1>11

------------------------------------------------------------------------------
\* A call in progress has no hash yet, and no two calls share a node: this is
\* what the test for a directory without a hash file achieves.
Open ==
  /\ \A k \in DOMAIN stack : ~Done(stack[k])
  /\ \A k, l \in DOMAIN stack : stack[k] = stack[l] => k = l

\* The finished nodes are exactly those in topo.
Listed == DOMAIN final = SeqRange(topo)

\* What is recorded below a node, finished or not, is finished.
BelowDone == \A id \in DOMAIN spec : Below(id) \subseteq DOMAIN final

\* What one run has written holds together.
IInv == IdsHaveDirectories /\ Open /\ Listed /\ BelowDone /\ TopoOrdered

------------------------------------------------------------------------------
(* Lemma: the elements of a sequence after Append.                         *)
LEMMA RangeAppend ==
  ASSUME NEW S, NEW s \in Seq(S), NEW x
  PROVE  SeqRange(Append(s, x)) = SeqRange(s) \cup {x}
BY DEF SeqRange

(* Lemma: a sequence without its last element.                             *)
LEMMA Front ==
  ASSUME NEW S, NEW s \in Seq(S), Len(s) # 0
  PROVE  \E t \in Seq(S) :
            /\ t = SubSeq(s, 1, Len(s) - 1)
            /\ Len(t) = Len(s) - 1
            /\ \A k \in DOMAIN t : k \in DOMAIN s /\ k # Len(s) /\ t[k] = s[k]
<1>1. PICK n \in Nat : n = Len(s) - 1
  OBVIOUS
<1>2. \A i \in 1..n : s[i] \in S
  BY <1>1
<1>3. PICK t \in Seq(S) : t = SubSeq(s, 1, n) /\ Len(t) = n /\ \A i \in 1..n : t[i] = s[i]
  <2>1. /\ SubSeq(s, 1, n) \in Seq(S)
        /\ Len(SubSeq(s, 1, n)) = IF 1 <= n THEN n - 1 + 1 ELSE 0
        /\ \A i \in 1..(n - 1 + 1) : SubSeq(s, 1, n)[i] = s[1 + i - 1]
    BY <1>2, SubSeqProperties
  <2>2. PICK t \in Seq(S) : t = SubSeq(s, 1, n)
    BY <2>1
  <2>3. /\ Len(t) = IF 1 <= n THEN n - 1 + 1 ELSE 0
        /\ \A i \in 1..(n - 1 + 1) : t[i] = s[1 + i - 1]
    BY <2>1, <2>2
  <2>4. Len(t) = n
    BY <2>3
  <2>5. \A i \in 1..n : t[i] = s[i]
    BY <2>3
  <2>6. QED BY <2>2, <2>4, <2>5
<1>4. DOMAIN t = 1..n /\ DOMAIN s = 1..(n + 1)
  BY <1>1, <1>3
<1>5. QED BY <1>1, <1>3, <1>4

(* Lemma: a step that only moves the command along leaves the DAG alone.   *)
LEMMA FrameKeeps ==
  ASSUME IInv, UNCHANGED <<stack, dirs, topo, roots>>
  PROVE  IInv'
<1>1. /\ stack' = stack /\ topo' = topo /\ roots' = roots
      /\ spec' = spec /\ deps' = deps /\ closure' = closure /\ final' = final
  BY DEF dirs
<1>2. IdsHaveDirectories'
  BY <1>1 DEF IInv, IdsHaveDirectories
<1>3. Open' /\ Listed'
  BY <1>1 DEF IInv, Open, Listed, Done, SeqRange
<1>4. BelowDone' /\ TopoOrdered'
  BY <1>1 DEF IInv, BelowDone, TopoOrdered, Below, SeqRange
<1>5. QED BY <1>2, <1>3, <1>4 DEF IInv

(* Lemma: the test for an existing directory makes a new call keep Open.   *)
LEMMA OpenNodeKeeps ==
  ASSUME IInv, NEW id, NEW node, id \notin DOMAIN spec, OpenNode(id, node)
  PROVE  IInv'
<1>1. /\ DOMAIN spec' = DOMAIN spec \cup {id}
      /\ DOMAIN deps' = DOMAIN spec \cup {id}
      /\ DOMAIN closure' = DOMAIN spec \cup {id}
      /\ deps'[id] = <<>> /\ closure'[id] = {}
      /\ \A i \in DOMAIN spec : deps'[i] = deps[i] /\ closure'[i] = closure[i]
      /\ deps' = [i \in DOMAIN spec \cup {id} |-> deps'[i]]
      /\ closure' = [i \in DOMAIN spec \cup {id} |-> closure'[i]]
      /\ stack' = Append(stack, id)
      /\ UNCHANGED <<final, topo, roots>>
  BY DEF OpenNode, IInv, IdsHaveDirectories
<1>2. Seq(DOMAIN spec) \subseteq Seq(DOMAIN spec')
  BY <1>1, SeqMonotonic
<1>3. IdsHaveDirectories'
  <2>1. stack' \in Seq(DOMAIN spec')
    <3>1. stack \in Seq(DOMAIN spec') /\ id \in DOMAIN spec'
      BY <1>1, <1>2 DEF IInv, IdsHaveDirectories
    <3>2. QED BY <3>1, <1>1
  <2>2. topo' \in Seq(DOMAIN spec') /\ roots' \in Seq(DOMAIN spec')
    BY <1>1, <1>2 DEF IInv, IdsHaveDirectories
  <2>3. deps' \in [DOMAIN spec' -> Seq(DOMAIN spec')]
    <3>1. ASSUME NEW i \in DOMAIN spec'
          PROVE  deps'[i] \in Seq(DOMAIN spec')
      <4>1. CASE i = id
        BY <4>1, <1>1
      <4>2. CASE i # id
        <5>1. deps[i] \in Seq(DOMAIN spec)
          BY <4>2, <1>1 DEF IInv, IdsHaveDirectories
        <5>2. QED BY <5>1, <4>2, <1>1, <1>2
      <4>3. QED BY <4>1, <4>2
    <3>2. QED BY <3>1, <1>1
  <2>4. closure' \in [DOMAIN spec' -> SUBSET DOMAIN spec']
    <3>1. \A i \in DOMAIN spec' : closure'[i] \in SUBSET DOMAIN spec'
      BY <1>1 DEF IInv, IdsHaveDirectories
    <3>2. QED BY <3>1, <1>1
  <2>5. QED BY <2>1, <2>2, <2>3, <2>4, <1>1 DEF IInv, IdsHaveDirectories
<1>4. Open'
  <2>1. /\ \A k \in DOMAIN stack : stack[k] \in DOMAIN spec
        /\ DOMAIN stack = 1..Len(stack) /\ Len(stack) \in Nat
    BY DEF IInv, IdsHaveDirectories
  <2>2. /\ DOMAIN stack' = 1..(Len(stack) + 1)
        /\ \A k \in DOMAIN stack : stack'[k] = stack[k]
        /\ stack'[Len(stack) + 1] = id
    BY <1>1, <2>1 DEF IInv, IdsHaveDirectories
  <2>3. id \notin DOMAIN final
    BY DEF IInv, IdsHaveDirectories
  <2>4. QED BY <2>1, <2>2, <2>3, <1>1 DEF IInv, Open, Done
<1>5. Listed'
  BY <1>1 DEF IInv, Listed
<1>6. BelowDone'
  <2>1. Below(id)' = {}
    BY <1>1 DEF Below, SeqRange
  <2>2. \A i \in DOMAIN spec : Below(i)' = Below(i)
    BY <1>1 DEF Below
  <2>3. QED BY <2>1, <2>2, <1>1 DEF IInv, BelowDone
<1>7. TopoOrdered'
  <2>1. \A i \in DOMAIN topo : topo[i] \in DOMAIN spec
    BY DEF IInv, IdsHaveDirectories
  <2>2. \A i \in DOMAIN spec : Below(i)' = Below(i)
    BY <1>1 DEF Below
  <2>3. QED BY <2>1, <2>2, <1>1 DEF IInv, TopoOrdered
<1>8. QED BY <1>3, <1>4, <1>5, <1>6, <1>7 DEF IInv

(* Lemma: returning a finished node to the caller, a root list or the call *)
(* below it, keeps the invariant.  The caller is in progress, so it is not *)
(* in topo and the order of topo is not disturbed.                         *)
LEMMA ReturnKeeps ==
  ASSUME IInv, NEW id \in DOMAIN final, Return(stack, id),
         UNCHANGED <<spec, final, topo>>
  PROVE  IInv'
<1>1. id \in DOMAIN spec
  BY DEF IInv, IdsHaveDirectories
<1>2. CASE stack = <<>>
  <2>1. /\ roots' = Append(roots, id)
        /\ UNCHANGED <<stack, deps, closure, spec, final, topo>>
    BY <1>2 DEF Return
  <2>2. IdsHaveDirectories'
    BY <2>1, <1>1 DEF IInv, IdsHaveDirectories
  <2>3. Open' /\ Listed'
    BY <2>1 DEF IInv, Open, Listed, Done, SeqRange
  <2>4. BelowDone' /\ TopoOrdered'
    BY <2>1 DEF IInv, BelowDone, TopoOrdered, Below, SeqRange
  <2>5. QED BY <2>2, <2>3, <2>4 DEF IInv
<1>3. CASE stack # <<>>
  <2>1. PICK caller \in DOMAIN spec :
              caller = stack[Len(stack)] /\ caller \notin DOMAIN final
    BY <1>3 DEF IInv, IdsHaveDirectories, Open, Done
  <2>2. /\ deps' = [deps EXCEPT ![caller] = Append(deps[caller], id)]
        /\ closure' = [closure EXCEPT ![caller] =
                          closure[caller] \cup {id} \cup closure[id]]
        /\ UNCHANGED <<stack, roots, spec, final, topo>>
    BY <1>3, <2>1 DEF Return
  <2>3. /\ deps[caller] \in Seq(DOMAIN spec)
        /\ closure[caller] \subseteq DOMAIN spec
        /\ closure[id] \subseteq DOMAIN spec
    BY <1>1, <2>1 DEF IInv, IdsHaveDirectories
  <2>4. /\ \A i \in DOMAIN spec : i # caller =>
              deps'[i] = deps[i] /\ closure'[i] = closure[i]
        /\ deps'[caller] = Append(deps[caller], id)
        /\ closure'[caller] = closure[caller] \cup {id} \cup closure[id]
    BY <2>1, <2>2 DEF IInv, IdsHaveDirectories
  <2>5. IdsHaveDirectories'
    <3>1. Append(deps[caller], id) \in Seq(DOMAIN spec)
      BY <1>1, <2>3
    <3>2. deps' \in [DOMAIN spec -> Seq(DOMAIN spec)]
      BY <3>1, <2>2 DEF IInv, IdsHaveDirectories
    <3>3. closure' \in [DOMAIN spec -> SUBSET DOMAIN spec]
      BY <1>1, <2>2, <2>3 DEF IInv, IdsHaveDirectories
    <3>4. QED BY <3>2, <3>3, <2>2 DEF IInv, IdsHaveDirectories
  <2>6. Open' /\ Listed'
    BY <2>2 DEF IInv, Open, Listed, Done, SeqRange
  <2>7. /\ \A i \in DOMAIN spec : i # caller => Below(i)' = Below(i)
        /\ Below(caller)' = Below(caller) \cup {id} \cup closure[id]
    <3>1. SeqRange(Append(deps[caller], id)) = SeqRange(deps[caller]) \cup {id}
      BY <2>3, RangeAppend
    <3>2. QED BY <3>1, <2>1, <2>4 DEF Below, SeqRange
  <2>8. BelowDone'
    <3>1. closure[id] \subseteq DOMAIN final
      BY <1>1 DEF IInv, BelowDone, Below
    <3>2. QED BY <3>1, <2>1, <2>2, <2>7 DEF IInv, BelowDone
  <2>9. TopoOrdered'
    <3>1. \A i \in DOMAIN topo : topo[i] \in DOMAIN spec /\ topo[i] # caller
      BY <2>1 DEF IInv, IdsHaveDirectories, Listed, SeqRange
    <3>2. QED BY <3>1, <2>2, <2>7 DEF IInv, TopoOrdered
  <2>10. QED BY <2>5, <2>6, <2>8, <2>9 DEF IInv
<1>4. QED BY <1>2, <1>3

(* Lemma: finishing the innermost call appends its node to topo, where all *)
(* that is recorded below it already stands, and returns it to its caller. *)
LEMMA FinishKeeps ==
  ASSUME IInv, FinishNode
  PROVE  IInv'
<1>1. PICK id \in DOMAIN spec :
        /\ id = stack[Len(stack)] /\ id \notin DOMAIN final
        /\ Len(stack) \in DOMAIN stack /\ Len(stack) \in Nat \ {0}
  BY DEF FinishNode, IInv, IdsHaveDirectories, Open, Done
<1>2. PICK calls \in Seq(DOMAIN spec) :
        /\ calls = SubSeq(stack, 1, Len(stack) - 1)
        /\ Len(calls) = Len(stack) - 1
        /\ \A k \in DOMAIN calls : k \in DOMAIN stack /\ k # Len(stack) /\ calls[k] = stack[k]
  <2>1. stack \in Seq(DOMAIN spec)
    BY DEF IInv, IdsHaveDirectories
  <2>2. Len(stack) # 0
    BY <1>1
  <2>3. QED BY <2>1, <2>2, Front, Zenon
<1>3. /\ topo' = Append(topo, id)
      /\ DOMAIN final' = DOMAIN final \cup {id}
      /\ Return(calls, id)
      /\ UNCHANGED spec
  BY <1>1, <1>2 DEF FinishNode, Top
<1>4. stack' = calls
  BY <1>3 DEF Return
<1>5. topo' \in Seq(DOMAIN spec) /\ SeqRange(topo') = SeqRange(topo) \cup {id}
  BY <1>3, RangeAppend DEF IInv, IdsHaveDirectories
<1>6. Open'
  <2>1. \A k \in DOMAIN calls : calls[k] # id /\ calls[k] \notin DOMAIN final
    BY <1>1, <1>2 DEF IInv, Open, Done
  <2>2. \A k, l \in DOMAIN calls : calls[k] = calls[l] => k = l
    BY <1>2 DEF IInv, Open
  <2>3. QED BY <2>1, <2>2, <1>3, <1>4 DEF Open, Done
<1>7. Listed'
  BY <1>3, <1>5 DEF IInv, Listed
<1>8. /\ topo \in Seq(DOMAIN spec) /\ Len(topo) \in Nat
      /\ DOMAIN topo = 1..Len(topo) /\ DOMAIN topo' = 1..(Len(topo) + 1)
      /\ \A i \in DOMAIN topo : topo'[i] = topo[i]
      /\ topo'[Len(topo) + 1] = id
  BY <1>3 DEF IInv, IdsHaveDirectories
<1>9. ASSUME IdsHaveDirectories',
             \A i \in DOMAIN spec : i \notin SeqRange(calls) => Below(i)' = Below(i),
             \A i \in DOMAIN spec : Below(i)' \subseteq DOMAIN final \cup {id}
      PROVE  IInv'
  <2>1. BelowDone'
    BY <1>3, <1>9 DEF BelowDone
  <2>2. \A d \in DOMAIN final : \E j \in DOMAIN topo : topo[j] = d
    BY DEF IInv, Listed, SeqRange
  <2>3. id \notin SeqRange(topo) /\ \A i \in DOMAIN topo : topo[i] \in DOMAIN final
    BY <1>1 DEF IInv, Listed, SeqRange
  <2>4. id \notin SeqRange(calls) /\ \A i \in DOMAIN topo : topo[i] \notin SeqRange(calls)
    BY <1>1, <1>2, <2>3 DEF IInv, Open, Done, SeqRange
  <2>5. Below(id)' \subseteq DOMAIN final
    BY <1>1, <1>9, <2>4 DEF IInv, BelowDone
  <2>6. \A i, j \in DOMAIN topo' : topo'[i] = topo'[j] => i = j
    BY <1>8, <2>3 DEF IInv, TopoOrdered, SeqRange
  <2>7. ASSUME NEW i \in DOMAIN topo', NEW t, t = topo'[i], NEW d \in Below(t)'
        PROVE  \E j \in DOMAIN topo' : j < i /\ topo'[j] = d
    <3>1. CASE i = Len(topo) + 1
      BY <3>1, <1>8, <2>2, <2>5, <2>7
    <3>2. CASE i \in DOMAIN topo
      <4>1. t = topo[i] /\ t \in DOMAIN spec /\ t \notin SeqRange(calls)
        BY <3>2, <1>8, <2>4, <2>7
      <4>2. Below(t)' = Below(t)
        BY <4>1, <1>9
      <4>3. PICK j \in DOMAIN topo : j < i /\ topo[j] = d
        <5>1. d \in Below(topo[i])
          BY <4>1, <4>2, <2>7
        <5>2. TopoOrdered
          BY DEF IInv
        <5>3. QED BY <3>2, <5>1, <5>2 DEF TopoOrdered
      <4>4. QED BY <4>3, <1>8
    <3>3. QED BY <3>1, <3>2, <1>8
  <2>8. TopoOrdered'
    BY <2>6, <2>7 DEF TopoOrdered, Below
  <2>9. QED BY <1>6, <1>7, <1>9, <2>1, <2>8 DEF IInv
<1>10. CASE calls = <<>>
  <2>1. /\ roots' = Append(roots, id)
        /\ UNCHANGED <<deps, closure>>
    BY <1>3, <1>10 DEF Return
  <2>2. IdsHaveDirectories'
    BY <2>1, <1>3, <1>4, <1>5 DEF IInv, IdsHaveDirectories
  <2>3. \A i \in DOMAIN spec : Below(i)' = Below(i)
    BY <2>1 DEF Below, SeqRange
  <2>4. QED BY <2>2, <2>3, <1>9 DEF IInv, BelowDone
<1>11. CASE calls # <<>>
  <2>1. PICK caller \in DOMAIN spec :
              caller = calls[Len(calls)] /\ caller \in SeqRange(calls)
    BY <1>2, <1>11 DEF SeqRange
  <2>2. /\ deps' = [deps EXCEPT ![caller] = Append(deps[caller], id)]
        /\ closure' = [closure EXCEPT ![caller] =
                          closure[caller] \cup {id} \cup closure[id]]
        /\ roots' = roots
    BY <1>3, <1>11, <2>1 DEF Return
  <2>3. /\ deps[caller] \in Seq(DOMAIN spec)
        /\ closure[caller] \subseteq DOMAIN spec
        /\ closure[id] \subseteq DOMAIN spec
    BY <2>1 DEF IInv, IdsHaveDirectories
  <2>4. /\ \A i \in DOMAIN spec : i # caller =>
              deps'[i] = deps[i] /\ closure'[i] = closure[i]
        /\ deps'[caller] = Append(deps[caller], id)
        /\ closure'[caller] = closure[caller] \cup {id} \cup closure[id]
    BY <2>1, <2>2 DEF IInv, IdsHaveDirectories
  <2>5. IdsHaveDirectories'
    <3>1. Append(deps[caller], id) \in Seq(DOMAIN spec)
      BY <2>3
    <3>2. deps' \in [DOMAIN spec -> Seq(DOMAIN spec)]
      BY <3>1, <2>2 DEF IInv, IdsHaveDirectories
    <3>3. closure' \in [DOMAIN spec -> SUBSET DOMAIN spec]
      BY <2>2, <2>3 DEF IInv, IdsHaveDirectories
    <3>4. QED BY <3>2, <3>3, <2>2, <1>3, <1>4, <1>5 DEF IInv, IdsHaveDirectories
  <2>6. /\ \A i \in DOMAIN spec : i # caller => Below(i)' = Below(i)
        /\ Below(caller)' = Below(caller) \cup {id} \cup closure[id]
    <3>1. SeqRange(Append(deps[caller], id)) = SeqRange(deps[caller]) \cup {id}
      BY <2>3, RangeAppend
    <3>2. \A i : Below(i)' = closure'[i] \cup SeqRange(deps'[i])
      BY DEF Below, SeqRange
    <3>3. \A i : Below(i) = closure[i] \cup SeqRange(deps[i])
      BY DEF Below
    <3>4. \A i \in DOMAIN spec : i # caller => Below(i)' = Below(i)
      BY <3>2, <3>3, <2>4
    <3>5. Below(caller)' = closure'[caller] \cup SeqRange(deps'[caller])
      BY <3>2
    <3>6. Below(caller) = closure[caller] \cup SeqRange(deps[caller])
      BY <3>3
    <3>7. SeqRange(deps'[caller]) = SeqRange(deps[caller]) \cup {id}
      BY <3>1, <2>4
    <3>8. Below(caller)' = Below(caller) \cup {id} \cup closure[id]
      BY <3>5, <3>6, <3>7, <2>4
    <3>9. QED BY <3>4, <3>8
  <2>7. \A i \in DOMAIN spec : Below(i) \subseteq DOMAIN final
    BY DEF IInv, BelowDone
  <2>8. closure[id] \subseteq DOMAIN final
    BY <2>7 DEF Below
  <2>9. QED BY <2>1, <2>5, <2>6, <2>7, <2>8, <1>9
<1>12. QED BY <1>10, <1>11

------------------------------------------------------------------------------
(* Lemma: a call visit(s) keeps the invariant.                             *)
LEMMA VisitKeeps ==
  ASSUME IInv, NEW s, visit(s)
  PROVE  IInv'
<1> DEFINE pick == Resolved(s)
           id   == IdOf(s.name, pick.version)
           node == [name |-> s.name, version |-> pick.version,
                    kind |-> pick.kind]
<1>1. \/ Fail("unresolved")
      \/ Fail("cycle")
      \/ /\ id \in DOMAIN final /\ Return(stack, id)
         /\ UNCHANGED <<spec, final, topo>>
      \/ id \notin DOMAIN spec /\ OpenNode(id, node)
  BY DEF visit, Done
<1> HIDE DEF pick, id, node
<1>2. CASE Fail("unresolved") \/ Fail("cycle")
  BY <1>2, FrameKeeps DEF Fail, Failures
<1>3. CASE /\ id \in DOMAIN final /\ Return(stack, id)
           /\ UNCHANGED <<spec, final, topo>>
  BY <1>3, ReturnKeeps
<1>4. CASE id \notin DOMAIN spec /\ OpenNode(id, node)
  BY <1>4, OpenNodeKeeps
<1>5. QED BY <1>1, <1>2, <1>3, <1>4

\* While a run removes, what is left has the four files of a directory together,
\* and no call is in progress.
Removing ==
  /\ stack = <<>>
  /\ DOMAIN deps = DOMAIN spec /\ DOMAIN closure = DOMAIN spec
  /\ deps = [i \in DOMAIN deps |-> deps[i]]
  /\ closure = [i \in DOMAIN closure |-> closure[i]]
  /\ DOMAIN final \subseteq DOMAIN spec

\* The invariant, with what goes on while a run removes.
Sound ==
  /\ status \in {"idle", "done"} \cup Running \cup Failures
  /\ runs \in Nat
  /\ Settled => IInv
  /\ ~Settled => Removing

(* Lemma: what a step of visit() does to the status.                       *)
LEMMA VisitStatus ==
  ASSUME NEW s, visit(s), status = "run"
  PROVE  status' \in {"run", "unresolved", "cycle"} /\ runs' = runs
BY DEF visit, Fail, OpenNode

(* Lemma: the removal of one directory, all of it.                         *)
LEMMA RemoveKeeps ==
  ASSUME Removing, RemoveSpec
  PROVE  Removing'
<1>1. PICK id \in DOMAIN spec :
        /\ spec' = [i \in DOMAIN spec \ {id} |-> spec[i]]
        /\ deps' = [i \in DOMAIN deps \ {id} |-> deps[i]]
        /\ closure' = [i \in DOMAIN closure \ {id} |-> closure[i]]
        /\ final' = [i \in DOMAIN final \ {id} |-> final[i]]
        /\ stack' = stack
  BY Zenon DEF RemoveSpec
<1>2. /\ DOMAIN spec' = DOMAIN spec \ {id} /\ DOMAIN deps' = DOMAIN deps \ {id}
      /\ DOMAIN closure' = DOMAIN closure \ {id} /\ DOMAIN final' = DOMAIN final \ {id}
      /\ deps' = [i \in DOMAIN deps' |-> deps'[i]]
      /\ closure' = [i \in DOMAIN closure' |-> closure'[i]]
  BY <1>1
<1> QED BY <1>1, <1>2 DEF Removing

(* Lemma: the invariant is inductive.                                      *)
LEMMA Inductive == Sound /\ [Next]_vars => Sound'
<1> SUFFICES ASSUME Sound, [Next]_vars PROVE Sound'
  OBVIOUS
<1>a. ASSUME status = "run", status' \in {"run", "index"} \cup Failures, status' # "half-removed",
             runs' = runs, IInv => IInv'
      PROVE  Sound'
  BY <1>a DEF Sound, Settled, Running, Failures
<1>1. CASE cmd_concretize
  <2>1. Removing'
    <3>1. CASE Settled
      BY <1>1, <3>1 DEF Sound, IInv, IdsHaveDirectories, cmd_concretize, dirs, Removing
    <3>2. CASE ~Settled
      BY <1>1, <3>2 DEF Sound, cmd_concretize, dirs, Removing
    <3> QED BY <3>1, <3>2
  <2> QED BY <1>1, <2>1 DEF Sound, cmd_concretize, Settled, Running
<1>2. CASE RemoveSpec
  <2>1. status = "removing" /\ status' = status /\ runs' = runs
    BY <1>2 DEF RemoveSpec
  <2> QED BY <1>2, <2>1, RemoveKeeps DEF Sound, Settled
<1>3. CASE RemoveFiles
  <2>1. status = "removing" /\ status' = status /\ runs' = runs
        /\ UNCHANGED <<stack, dirs>>
    BY <1>3 DEF RemoveFiles
  <2> QED BY <2>1 DEF Sound, Settled, Removing, dirs
<1>4. ASSUME NEW req \in Requests, Begin(req) PROVE Sound'
  <2>1. /\ Removing /\ Removed /\ UNCHANGED <<stack, dirs, topo, roots>>
        /\ status' = "run" /\ runs' = runs
    BY <1>4 DEF Begin, Sound, Settled
  <2>2. (/\ DOMAIN spec = {} /\ DOMAIN deps = {} /\ DOMAIN closure = {} /\ DOMAIN final = {}
         /\ deps = [i \in {} |-> NoFile] /\ closure = [i \in {} |-> NoFile]
         /\ stack = <<>> /\ topo = <<>> /\ roots = <<>>)'
    BY <2>1 DEF Removing, Removed, dirs
  <2>3. IdsHaveDirectories' /\ (Open /\ Listed /\ BelowDone /\ TopoOrdered)'
    BY <2>2 DEF IdsHaveDirectories, Open, Listed, BelowDone, TopoOrdered, SeqRange
  <2> QED BY <2>1, <2>3 DEF Sound, Settled, Running, IInv
<1>5. CASE VisitRoot
  BY <1>5, <1>a, VisitKeeps, VisitStatus DEF VisitRoot, Failures
<1>6. CASE VisitDep
  BY <1>6, <1>a, VisitKeeps, VisitStatus DEF VisitDep, Failures
<1>7. CASE SortFails
  BY <1>7, <1>a, FrameKeeps DEF SortFails, Fail, Failures
<1>8. CASE FinishNode
  <2>1. status = "run" /\ status' = status /\ runs' = runs
    BY <1>8 DEF FinishNode
  <2> QED BY <1>8, <2>1, <1>a, FinishKeeps
<1>9. CASE EmitIndex \/ AppendLine \/ EmitDagmk \/ WriteRule \/ Conclude
  <2>1. /\ status \in {"run", "index", "dag"} /\ status' \in {"index", "dag", "done"}
        /\ runs' = runs /\ UNCHANGED <<stack, dirs, topo, roots>>
    BY <1>9 DEF EmitIndex, AppendLine, EmitDagmk, WriteRule, Conclude
  <2>2. IInv'
    BY <2>1, FrameKeeps DEF Sound, Settled
  <2> QED BY <2>1, <2>2 DEF Sound, Settled, Running
<1>10. CASE Interrupt \/ Edit
  <2>1. /\ Settled' <=> Settled
        /\ status' \in {"idle", "done"} \cup Running \cup Failures
        /\ runs' = runs /\ UNCHANGED <<stack, dirs, topo, roots>>
    BY <1>10 DEF Interrupt, Fail, Edit, Settled, Running, Failures
  <2>2. IInv => IInv'
    BY <2>1, FrameKeeps
  <2>3. Removing => Removing'
    BY <2>1 DEF Removing, dirs
  <2> QED BY <2>1, <2>2, <2>3 DEF Sound
<1>11. CASE UNCHANGED vars
  <2>1. UNCHANGED <<stack, dirs, topo, roots>> /\ status' = status /\ runs' = runs
    BY <1>11 DEF vars
  <2>2. IInv => IInv'
    BY <2>1, FrameKeeps
  <2>3. Removing => Removing'
    BY <2>1 DEF Removing, dirs
  <2> QED BY <2>1, <2>2, <2>3 DEF Sound, Settled
<1> QED
  BY <1>1, <1>2, <1>3, <1>4, <1>5, <1>6, <1>7, <1>8, <1>9, <1>10, <1>11 DEF Next, Step

(* Lemma: the empty state satisfies the invariant.                         *)
LEMMA Initial == Init => Sound
<1> SUFFICES ASSUME Init PROVE Sound
  OBVIOUS
<1>1. /\ DOMAIN spec = {} /\ DOMAIN final = {}
      /\ deps = [i \in {} |-> NoFile] /\ closure = [i \in {} |-> NoFile]
      /\ stack = <<>> /\ topo = <<>> /\ roots = <<>>
  BY DEF Init, Nothing
<1>2. IdsHaveDirectories
  BY <1>1 DEF IdsHaveDirectories
<1>3. Open /\ Listed /\ BelowDone /\ TopoOrdered
  BY <1>1 DEF Open, Listed, BelowDone, TopoOrdered, SeqRange
<1> QED BY <1>2, <1>3 DEF Init, Sound, Settled, IInv

(***************************************************************************)
(* Theorem: whatever the repository and the requests, the concretizer only *)
(* ever writes down ids that have a spec directory.                        *)
(***************************************************************************)
THEOREM TypeCorrect == Spec => []TypeOK
<1>1. Sound => TypeOK
  BY DEF Sound, IInv, TypeOK
<1>2. QED BY <1>1, Initial, Inductive, PTL DEF Spec

(***************************************************************************)
(* Theorem: topo is a build order at every moment of every run: each node  *)
(* once, after everything in its closure.  In particular the graph below a *)
(* finished node has no cycle, for any repository.                         *)
(***************************************************************************)
THEOREM TopoIsBuildOrder == Spec => []BuildOrder
<1>1. Sound => BuildOrder
  BY DEF Sound, IInv, BuildOrder
<1>2. QED BY <1>1, Initial, Inductive, PTL DEF Spec

------------------------------------------------------------------------------
(* index and dag.mk.                                                        *)

\* A directory is named after the node that it stands for.
Named == \A id \in DOMAIN spec : IdOf(spec[id].name, spec[id].version) = id

\* index so far: the lines of the first nodes.
Indexed ==
  /\ Len(index) \in 0..Len(topo)
  /\ index = [i \in 1..Len(index) |-> IndexLine(topo[i])]

\* dag.mk so far: the rules of some built nodes.
Ruled ==
  /\ dag = [all |-> dag.all, rules |-> dag.rules]
  /\ DOMAIN dag.rules \subseteq Built(SeqRange(topo))
  /\ \A id \in DOMAIN dag.rules : dag.rules[id] = Rule(id)

\* What the two files are, whatever a run is at.  Only what is written while a run
\* is settled is tied to its directories; once a run removes, the two files are
\* only tied to each other.
Written ==
  /\ Settled => Named
  /\ status \in {"run", "unresolved", "cycle", "sort"} => index = NoFile /\ dag = NoFile
  /\ status = "index" => dag = NoFile /\ Indexed
  /\ status \in {"dag", "done"} => index = WholeIndex /\ Ruled
  /\ status \in {"interrupted", "idle"} => dag = NoFile \/ (index = WholeIndex /\ Ruled)
  /\ status = "done" => Unruled = {}
  /\ ~Settled => index = NoFile \/ dag = NoFile \/ RulesIndexed

(* Lemma: what the files are made of changes only with the directories.     *)
LEMMA FrameFiles ==
  ASSUME UNCHANGED <<dirs, topo, roots>>
  PROVE  /\ Named' = Named /\ WholeIndex' = WholeIndex
         /\ \A id : IndexLine(id)' = IndexLine(id) /\ Rule(id)' = Rule(id)
         /\ Built(SeqRange(topo))' = Built(SeqRange(topo))
<1>1. /\ spec' = spec /\ deps' = deps /\ closure' = closure /\ final' = final
      /\ topo' = topo /\ roots' = roots
  BY DEF dirs
<1>2. \A id : stamp_of(id)' = stamp_of(id) /\ compose_path(id)' = compose_path(id)
  BY <1>1 DEF stamp_of, compose_path, reverse_lines, Among
<1>3. Named' = Named /\ \A id : IndexLine(id)' = IndexLine(id)
  BY <1>1 DEF Named, IndexLine
<1>4. WholeIndex' = WholeIndex
  BY <1>1, <1>3 DEF WholeIndex
<1>5. ASSUME NEW id PROVE Rule(id)' = Rule(id)
  <2>1. Built(SeqRange(deps[id]))' = Built(SeqRange(deps[id]))
    BY <1>1 DEF Built, SeqRange
  <2> QED BY <1>2, <2>1 DEF Rule
<1>6. Built(SeqRange(topo))' = Built(SeqRange(topo))
  BY <1>1 DEF Built, SeqRange
<1> QED BY <1>3, <1>4, <1>5, <1>6

(* Lemma: a step that leaves all the files alone.                           *)
LEMMA FrameWritten ==
  ASSUME Written, UNCHANGED <<dirs, topo, roots, index, dag>>,
         \/ status' = status
         \/ status = "run" /\ status' \in {"unresolved", "cycle", "sort"}
         \/ status \in {"run", "index", "dag"} /\ status' = "interrupted"
         \/ status \in {"done"} \cup (Failures \ {"half-removed"}) /\ status' = "idle"
         \/ status = "removing" /\ status' = "half-removed"
  PROVE  Written'
<1>1. /\ Named' = Named /\ WholeIndex' = WholeIndex
      /\ \A id : IndexLine(id)' = IndexLine(id) /\ Rule(id)' = Rule(id)
      /\ Built(SeqRange(topo))' = Built(SeqRange(topo))
      /\ index' = index /\ dag' = dag /\ topo' = topo
  BY FrameFiles
<1>2. Indexed' = Indexed
  BY <1>1 DEF Indexed
<1>3. Ruled' = Ruled /\ Unruled' = Unruled /\ RulesIndexed' = RulesIndexed
  BY <1>1 DEF Ruled, Unruled, RulesIndexed
<1>4. CASE status' = status
  BY <1>1, <1>2, <1>3, <1>4 DEF Written, Settled
<1>5. CASE status = "run" /\ status' \in {"unresolved", "cycle", "sort"}
  BY <1>1, <1>5 DEF Written, Settled
<1>6. CASE status \in {"run", "index", "dag"} /\ status' = "interrupted"
  BY <1>1, <1>3, <1>6 DEF Written, Settled
<1>7. CASE status = "removing" /\ status' = "half-removed"
  BY <1>1, <1>3, <1>7 DEF Written, Settled
<1>8. CASE status \in {"done"} \cup (Failures \ {"half-removed"}) /\ status' = "idle"
  BY <1>1, <1>3, <1>8 DEF Written, Settled, Failures
<1> QED BY <1>4, <1>5, <1>6, <1>7, <1>8

(* Lemma: while a run visits, there are neither.                            *)
LEMMA VisitsWrite ==
  ASSUME Written, status = "run", status' = "run", index' = index, dag' = dag, Named => Named'
  PROVE  Written'
BY DEF Written, Settled

(* Lemma: every rule has its line.                                          *)
LEMMA RulesFit ==
  ASSUME IInv, Named, index = WholeIndex, Ruled
  PROVE  RulesIndexed
<1> SUFFICES ASSUME NEW id \in DOMAIN dag.rules
             PROVE  \E i \in DOMAIN index :
                      /\ index[i].kind = "built"
                      /\ dag.rules[id].stamp = <<IdOf(index[i].name, index[i].version), index[i].hash>>
  BY DEF RulesIndexed
<1>1. id \in SeqRange(topo) /\ spec[id].kind = "built" /\ dag.rules[id].stamp = <<id, final[id].hash>>
  BY DEF Ruled, Built, Rule, stamp_of
<1>2. topo \in Seq(DOMAIN spec)
  BY DEF IInv, IdsHaveDirectories
<1>3. PICK i \in 1..Len(topo) : topo[i] = id
  BY <1>1, <1>2 DEF SeqRange
<1>4. i \in DOMAIN index /\ index[i] = IndexLine(id)
  BY <1>3 DEF WholeIndex
<1>5. IdOf(spec[id].name, spec[id].version) = id
  BY <1>2, <1>3 DEF Named
<1> QED BY <1>1, <1>4, <1>5 DEF IndexLine

(* Lemma: a node is only written down under its name.                       *)
LEMMA VisitNames ==
  ASSUME NEW s, visit(s), Named
  PROVE  Named'
<1> DEFINE pick == Resolved(s)
           id   == IdOf(s.name, pick.version)
           node == [name |-> s.name, version |-> pick.version, kind |-> pick.kind]
<1>1. spec' = spec \/ OpenNode(id, node)
  BY DEF visit, Fail, dirs
<1>2. CASE spec' = spec
  BY <1>2 DEF Named
<1>3. CASE OpenNode(id, node)
  <2>1. node.name = s.name /\ node.version = pick.version
    BY DEF node
  <2> HIDE DEF node, pick
  <2>2. spec' = [i \in DOMAIN spec \cup {id} |-> IF i = id THEN node ELSE spec[i]]
    BY <1>3 DEF OpenNode
  <2> QED BY <2>1, <2>2 DEF Named
<1> QED BY <1>1, <1>2, <1>3

(* Lemma: what the two files are is an invariant.                           *)
LEMMA WrittenInductive == Sound /\ Written /\ [Next]_vars => Written'
<1> SUFFICES ASSUME Sound, Written, [Next]_vars PROVE Written'
  OBVIOUS
<1>b. ASSUME NEW s, status = "run", visit(s) PROVE Written'
  <2>1. CASE status' = "run"
    <3>1. index' = index /\ dag' = dag
      BY <1>b, <2>1 DEF visit, Fail, OpenNode, Return
    <3> QED BY <1>b, <2>1, <3>1, VisitNames, VisitsWrite
  <2>2. CASE status' # "run"
    <3>1. Fail("unresolved") \/ Fail("cycle")
      BY <1>b, <2>2 DEF visit, OpenNode
    <3> QED BY <1>b, <3>1, FrameWritten DEF Fail
  <2> QED BY <2>1, <2>2
<1>1. CASE cmd_concretize
  <2>1. /\ status' = "removing" /\ UNCHANGED <<dirs, topo, roots>> /\ index' = index /\ dag' = dag
    BY <1>1 DEF cmd_concretize
  <2>2. RulesIndexed' = RulesIndexed
    BY <2>1 DEF RulesIndexed
  <2>3. index = NoFile \/ dag = NoFile \/ RulesIndexed
    <3>1. CASE ~Settled
      BY <3>1 DEF Written
    <3>2. CASE Settled
      <4>1. IInv /\ Named
        BY <3>2 DEF Sound, Written
      <4>2. status \in {"idle", "done", "unresolved", "cycle", "sort", "interrupted"}
        BY <1>1, <3>2 DEF cmd_concretize, Sound, Settled, Running, Failures
      <4>3. dag = NoFile \/ (index = WholeIndex /\ Ruled)
        BY <4>2 DEF Written
      <4> QED BY <4>1, <4>3, RulesFit
    <3> QED BY <3>1, <3>2
  <2> QED BY <2>1, <2>2, <2>3 DEF Written, Settled
<1>2. CASE RemoveSpec
  <2>1. status = "removing" /\ status' = "removing" /\ index' = index /\ dag' = dag
    BY <1>2 DEF RemoveSpec
  <2>2. RulesIndexed' = RulesIndexed
    BY <2>1 DEF RulesIndexed
  <2> QED BY <2>1, <2>2 DEF Written, Settled
<1>3. CASE RemoveFiles
  <2>1. status = "removing" /\ status' = "removing"
        /\ (index' = NoFile \/ dag' = NoFile \/ (index' = index /\ dag' = dag))
    BY <1>3 DEF RemoveFiles
  <2>2. index' = index /\ dag' = dag => RulesIndexed' = RulesIndexed
    BY DEF RulesIndexed
  <2> QED BY <2>1, <2>2 DEF Written, Settled
<1>4. ASSUME NEW req \in Requests, Begin(req) PROVE Written'
  <2>1. spec' = spec /\ DOMAIN spec = {} /\ index' = NoFile /\ dag' = NoFile /\ status' = "run"
    BY <1>4 DEF Begin, Removed, dirs
  <2> QED BY <2>1 DEF Written, Settled, Named
<1>5. CASE VisitRoot
  BY <1>5, <1>b DEF VisitRoot
<1>6. CASE VisitDep
  BY <1>6, <1>b DEF VisitDep
<1>7. CASE SortFails
  BY <1>7, FrameWritten DEF SortFails, Fail
<1>8. CASE FinishNode
  <2>1. status = "run" /\ status' = "run" /\ index' = index /\ dag' = dag /\ spec' = spec
    BY <1>8 DEF FinishNode
  <2> QED BY <2>1, VisitsWrite DEF Named
<1>9. CASE EmitIndex
  <2>1. /\ status = "run" /\ status' = "index" /\ index' = <<>> /\ dag' = dag
        /\ UNCHANGED <<dirs, topo, roots>> /\ topo' = topo
    BY <1>9 DEF EmitIndex
  <2>2. Named' = Named
    BY <2>1, FrameFiles
  <2>3. Len(topo) \in Nat
    BY <2>1 DEF Sound, Settled, IInv, IdsHaveDirectories
  <2>4. Indexed'
    BY <2>1, <2>3 DEF Indexed
  <2> QED BY <2>1, <2>2, <2>4 DEF Written, Settled
<1>10. CASE AppendLine
  <2>1. /\ status = "index" /\ status' = "index" /\ dag' = dag /\ topo' = topo
        /\ UNCHANGED <<dirs, topo, roots>> /\ Len(index) < Len(topo)
        /\ index' = Append(index, IndexLine(topo[Len(index) + 1]))
    BY <1>10 DEF AppendLine
  <2>2. Named' = Named /\ \A id : IndexLine(id)' = IndexLine(id)
    BY <2>1, FrameFiles
  <2>3. Len(topo) \in Nat
    BY <2>1 DEF Sound, Settled, IInv, IdsHaveDirectories
  <2>4. Indexed'
    <3> DEFINE L(i) == IndexLine(topo[i])
    <3> DEFINE n == Len(index)
    <3>1. n \in Nat /\ n < Len(topo) /\ index = [i \in 1..n |-> L(i)]
      <4>1. Indexed
        BY <2>1 DEF Written
      <4> QED BY <4>1, <2>1, <2>3 DEF Indexed
    <3> HIDE DEF L, n
    <3>2. index' = [i \in 1..(n + 1) |-> L(i)]
      <4>1. index' = Append([i \in 1..n |-> L(i)], L(n + 1))
        BY <2>1, <3>1 DEF L, n
      <4> QED BY <4>1, <3>1
    <3>3. Len(index') = n + 1 /\ n + 1 \in 0..Len(topo)
      BY <2>3, <3>1, <3>2
    <3>4. \A i : IndexLine(topo[i])' = L(i)
      BY <2>1, <2>2 DEF L
    <3> QED BY <2>1, <3>2, <3>3, <3>4 DEF Indexed
  <2> QED BY <2>1, <2>2, <2>4 DEF Written, Settled
<1>11. CASE EmitDagmk
  <2>1. /\ status = "index" /\ status' = "dag" /\ index' = index /\ topo' = topo
        /\ dag' = [all |-> Goals, rules |-> Nothing]
        /\ UNCHANGED <<dirs, topo, roots>> /\ Len(index) = Len(topo)
    BY <1>11 DEF EmitDagmk
  <2>2. Named' = Named /\ WholeIndex' = WholeIndex
    BY <2>1, FrameFiles
  <2>3. index = WholeIndex
    BY <2>1 DEF Written, Indexed, WholeIndex
  <2>4. DOMAIN dag'.rules = {} /\ dag' = [all |-> dag'.all, rules |-> dag'.rules]
    BY <2>1 DEF Nothing
  <2>5. Ruled'
    BY <2>4 DEF Ruled
  <2> QED BY <2>1, <2>2, <2>3, <2>5 DEF Written, Settled
<1>12. CASE WriteRule
  <2>1. /\ status = "dag" /\ status' = "dag" /\ index' = index /\ topo' = topo
        /\ UNCHANGED <<dirs, topo, roots>>
    BY <1>12 DEF WriteRule
  <2>2. PICK i \in DOMAIN topo :
          /\ topo[i] \in Unruled
          /\ dag' = [dag EXCEPT !.rules = [id \in DOMAIN @ \cup {topo[i]} |->
                                           IF id = topo[i] THEN Rule(id) ELSE @[id]]]
    BY <1>12, Zenon DEF WriteRule
  <2>3. /\ Named' = Named /\ WholeIndex' = WholeIndex
        /\ \A id : Rule(id)' = Rule(id)
        /\ Built(SeqRange(topo))' = Built(SeqRange(topo))
    BY <2>1, FrameFiles
  <2>4. index = WholeIndex /\ Ruled
    BY <2>1 DEF Written
  <2> DEFINE rules == [id \in DOMAIN dag.rules \cup {topo[i]} |->
                         IF id = topo[i] THEN Rule(id) ELSE dag.rules[id]]
  <2>5. dag' = [all |-> dag.all, rules |-> rules]
    BY <2>2, <2>4 DEF Ruled
  <2>6. Ruled'
    <3>1. DOMAIN rules \subseteq Built(SeqRange(topo))
      BY <2>2, <2>4 DEF Ruled, Unruled
    <3>2. \A id \in DOMAIN rules : rules[id] = Rule(id)
      BY <2>4 DEF Ruled
    <3> HIDE DEF rules
    <3> QED BY <2>3, <2>5, <3>1, <3>2 DEF Ruled
  <2> QED BY <2>1, <2>3, <2>4, <2>6 DEF Written, Settled
<1>13. CASE Conclude
  <2>1. /\ status = "dag" /\ status' = "done" /\ Unruled = {} /\ index' = index /\ dag' = dag
        /\ UNCHANGED <<dirs, topo, roots>>
    BY <1>13 DEF Conclude
  <2>2. /\ Named' = Named /\ WholeIndex' = WholeIndex
        /\ \A id : Rule(id)' = Rule(id)
        /\ Built(SeqRange(topo))' = Built(SeqRange(topo))
    BY <2>1, FrameFiles
  <2>3. Ruled' = Ruled /\ Unruled' = Unruled
    BY <2>1, <2>2 DEF Ruled, Unruled
  <2> QED BY <2>1, <2>2, <2>3 DEF Written, Settled
<1>14. CASE Interrupt
  BY <1>14, FrameWritten DEF Interrupt, Fail, Running
<1>15. CASE Edit
  BY <1>15, FrameWritten DEF Edit, Settled, Failures
<1>16. CASE UNCHANGED vars
  BY <1>16, FrameWritten DEF vars
<1> QED
  BY <1>1, <1>2, <1>3, <1>4, <1>5, <1>6, <1>7, <1>8, <1>9, <1>10, <1>11, <1>12, <1>13, <1>14,
     <1>15, <1>16 DEF Next, Step

(***************************************************************************)
(* Theorem: wherever a run, or any number of runs, is killed, an index and *)
(* a dag.mk side by side are of one run.  A run that visits or failed has  *)
(* neither, whatever was there before it; a makefile, or the beginning of  *)
(* one, has all of its index beside it until a later run removes that, and *)
(* a run that ended has a rule for every node to build.                    *)
(***************************************************************************)
THEOREM NoMakefileLeftBehind == Spec => []NoStaleMakefile
<1>1. Init => Sound /\ Written
  BY Initial DEF Init, Written, Named, Nothing, Settled
<1>2. Sound /\ Written => NoStaleMakefile
  <2> SUFFICES ASSUME Sound, Written PROVE NoStaleMakefile
    OBVIOUS
  <2>1. Settled => dag = NoFile \/ (index = WholeIndex /\ Ruled)
    BY DEF Sound, Written, Settled, Running, Failures
  <2>2. index # NoFile /\ dag # NoFile => RulesIndexed
    BY <2>1, RulesFit DEF Sound, Written
  <2> QED BY <2>1, <2>2 DEF NoStaleMakefile, Written
<1>3. Sound /\ Written /\ [Next]_vars => Sound' /\ Written'
  BY Inductive, WrittenInductive
<1> QED BY <1>1, <1>2, <1>3, PTL DEF Spec

------------------------------------------------------------------------------
(* What is written down is the graph of the repository.                    *)

\* The dependencies visit() walks below the node of id.
Words(id) == WordsOf(NodeDeps(AsNode(id)))

\* A directory stands for the node it is named after.
Known == \A id \in DOMAIN spec : AsNode(id) \in Nodes /\ IdOfNode(AsNode(id)) = id

\* The lines of a deps file are the nodes of the first words.
Followed ==
  \A id \in DOMAIN spec :
    /\ Len(deps[id]) <= Len(Words(id))
    /\ \A i \in 1..Len(deps[id]) : AsNode(deps[id][i]) = NodeOf(Words(id)[i])

\* A node is finished with all its words, and if there are none then because it
\* has no depends_on.
Whole ==
  \A id \in DOMAIN final :
    NodeDeps(AsNode(id)) # <<>> /\ Len(deps[id]) = Len(Words(id))

\* A closure file has the dependencies and is closed, and what it has can be
\* reached.
Closed ==
  \A id \in DOMAIN spec :
    /\ SeqRange(deps[id]) \subseteq closure[id]
    /\ \A d \in closure[id] :
         closure[d] \subseteq closure[id] /\ AsNode(d) \in Reach(Succ(AsNode(id)))

\* The calls in progress are a path from the argument that is visited: each
\* visits the node of the next.
Path ==
  /\ SeqRange(stack) = DOMAIN spec \ DOMAIN final
  /\ stack # <<>> => todo # <<>> /\ AsNode(stack[1]) = NodeOf(Head(todo))
  /\ \A k \in 1..(Len(stack) - 1) :
       /\ Len(deps[stack[k]]) < Len(Words(stack[k]))
       /\ AsNode(stack[k + 1]) = NodeOf(Words(stack[k])[Len(deps[stack[k]]) + 1])
  /\ \A k, l \in 1..Len(stack) :
       k < l => AsNode(stack[l]) \in Reach(Succ(AsNode(stack[k])))

\* The arguments are visited or still to do, and nothing else is.
Asked ==
  /\ request \in Requests /\ todo \in Seq(SeqRange(request))
  /\ \A s \in SeqRange(request) :
       s \in SeqRange(todo) \/ \E id \in DOMAIN final : AsNode(id) = NodeOf(s)
  /\ \A id \in DOMAIN spec : AsNode(id) \in Reach(Requested)

\* A run ends for a reason.
Reason ==
  /\ status = "unresolved" => Unresolved \in Reach(Requested)
  /\ status = "cycle" => \E n \in Reach(Requested) \ {Unresolved} : n \in Reach(Succ(n))
  /\ status = "sort" => \E n \in Reach(Requested) \ {Unresolved} : NodeDeps(n) = <<>>
  /\ status \in {"index", "dag", "done"} => todo = <<>> /\ stack = <<>>

\* What holds from when a run visits until the next one, or an edit.
Graph == Known /\ Followed /\ Whole /\ Closed /\ Path /\ Asked

\* The invariant that describes the graph in terms of the repository.
GInv == repo \in Repos /\ (Current => Graph /\ Reason)
------------------------------------------------------------------------------
\* What visit() is called with next: the argument or the word it has come to.
IsNext(s) ==
  IF stack = <<>> THEN todo # <<>> /\ s = Head(todo)
  ELSE /\ Len(deps[Top]) < Len(Words(Top))
       /\ s = Words(Top)[Len(deps[Top]) + 1]

\* A word of a node is a spec, and what it stands for is below the node.
LEMMA BelowNode ==
  ASSUME repo \in Repos, NumbersOnly, Known, NEW id \in DOMAIN spec
  PROVE  /\ AsNode(id) \in Universe /\ Succ(AsNode(id)) \subseteq Universe
         /\ Len(Words(id)) \in Nat
         /\ \A i \in 1..Len(Words(id)) : /\ IsWord(Words(id)[i])
                                         /\ NodeOf(Words(id)[i]) \in Succ(AsNode(id))
         /\ \A n \in Succ(AsNode(id)) : \E i \in 1..Len(Words(id)) : NodeOf(Words(id)[i]) = n
         /\ IsReach(Reach(Succ(AsNode(id))), Succ(AsNode(id)))
         /\ Succ(AsNode(id)) \subseteq Reach(Succ(AsNode(id)))
<1> DEFINE n == AsNode(id)
           w == Words(id)
<1>1. n \in Universe
  BY DEF Known, Universe
<1>2. /\ w \in Seq(SeqRange(w))
      /\ \A s \in SeqRange(w) : IsWord(s)
      /\ Succ(n) = {NodeOf(s) : s \in SeqRange(w)}
      /\ Succ(n) \subseteq Universe
  BY <1>1, SuccIn DEF Words
<1>3. IsReach(Reach(Succ(n)), Succ(n))
  BY <1>2, ReachIs
<1> HIDE DEF n, w
<1>4. Len(w) \in Nat /\ DOMAIN w = 1..Len(w)
  BY <1>2
<1>5. \A i \in 1..Len(w) : w[i] \in SeqRange(w)
  BY <1>4 DEF SeqRange
<1>6. \A s \in SeqRange(w) : \E i \in 1..Len(w) : w[i] = s
  BY <1>4 DEF SeqRange
<1> QED BY <1>1, <1>2, <1>3, <1>4, <1>5, <1>6 DEF n, w, IsReach

\* The arguments are specs, and what they stand for is asked for.
LEMMA BelowRequest ==
  ASSUME repo \in Repos, NumbersOnly, request \in Requests
  PROVE  /\ \A s \in SeqRange(request) : IsWord(s) /\ NodeOf(s) \in Requested
         /\ Requested \subseteq Universe
         /\ IsReach(Reach(Requested), Requested)
<1>1. IsRequest(repo, request)
  BY RepoParts
<1>2. \A s \in SeqRange(request) : IsWord(s)
  BY <1>1 DEF IsRequest, SeqRange, IsWord
<1>3. Requested \subseteq Universe
  BY <1>2, WordNode DEF Requested
<1> QED BY <1>2, <1>3, ReachIs DEF Requested

\* The next word stands for something that is asked for, and below the call in
\* progress.
LEMMA NextWord ==
  ASSUME repo \in Repos, NumbersOnly, IdsHaveDirectories, Graph, NEW s, IsNext(s)
  PROVE  /\ IsWord(s) /\ NodeOf(s) \in Reach(Requested)
         /\ stack # <<>> => Top \in DOMAIN spec /\ NodeOf(s) \in Succ(AsNode(Top))
<1>1. IsReach(Reach(Requested), Requested)
      /\ \A t \in SeqRange(request) : IsWord(t) /\ NodeOf(t) \in Requested
  BY BelowRequest DEF Graph, Asked
<1>2. CASE stack = <<>>
  <2>1. s \in SeqRange(request)
    BY <1>2 DEF IsNext, Graph, Asked
  <2> QED BY <1>1, <1>2, <2>1 DEF IsReach
<1>3. CASE stack # <<>>
  <2>1. Top \in DOMAIN spec /\ deps[Top] \in Seq(DOMAIN spec)
    BY <1>3 DEF Top, IdsHaveDirectories
  <2>2. Len(deps[Top]) \in Nat /\ Len(Words(Top)) \in Nat /\ Len(deps[Top]) < Len(Words(Top))
    BY <1>3, <2>1, BelowNode DEF IsNext, Graph
  <2>3. Len(deps[Top]) + 1 \in 1..Len(Words(Top))
    BY <2>2
  <2>4. IsWord(s) /\ NodeOf(s) \in Succ(AsNode(Top))
    BY <1>3, <2>1, <2>3, BelowNode DEF IsNext, Graph
  <2>5. AsNode(Top) \in Reach(Requested)
    BY <2>1 DEF Graph, Asked
  <2> QED BY <1>1, <2>1, <2>4, <2>5 DEF IsReach
<1> QED BY <1>2, <1>3

\* A step that leaves the directories alone leaves the graph alone.
LEMMA FrameGraph ==
  ASSUME repo \in Repos, NumbersOnly, Graph, IdsHaveDirectories,
         UNCHANGED <<repo, request, todo, stack, dirs>>
  PROVE  Graph'
<1>1. /\ spec' = spec /\ deps' = deps /\ closure' = closure /\ final' = final
      /\ todo' = todo /\ stack' = stack /\ request' = request /\ repo' = repo
  BY DEF dirs
<1>2. \A id : AsNode(id)' = AsNode(id) /\ Words(id)' = Words(id) /\ NodeDeps(AsNode(id))' = NodeDeps(AsNode(id))
  BY <1>1, SameGraph DEF AsNode, Words, WordsOf
<1>3. \A id \in DOMAIN spec : Reach(Succ(AsNode(id)))' = Reach(Succ(AsNode(id)))
  BY <1>1, <1>2, SameGraph, BelowNode DEF Graph
<1>4. Reach(Requested)' = Reach(Requested)
  BY <1>1, SameGraph, BelowRequest DEF Requested, Graph, Asked
<1>5. Known' /\ Followed' /\ Whole'
  BY <1>1, <1>2, SameGraph DEF Graph, Known, Followed, Whole
<1>6. Closed'
  BY <1>1, <1>2, <1>3 DEF Graph, Closed
<1>7. Path'
  <2>1. stack \in Seq(DOMAIN spec) /\ DOMAIN stack = 1..Len(stack)
    BY DEF IdsHaveDirectories
  <2>2. \A k \in 1..Len(stack) : stack[k] \in DOMAIN spec
    BY <2>1
  <2>3. \A k \in 1..(Len(stack) - 1) : k \in 1..Len(stack)
    BY <2>1
  <2> QED BY <1>1, <1>2, <1>3, <2>2, SameGraph DEF Graph, Path
<1>8. Asked'
  BY <1>1, <1>2, <1>4, SameGraph DEF Graph, Asked
<1> QED BY <1>5, <1>6, <1>7, <1>8 DEF Graph

\* A step that adds to no closure or deps file and forgets no directory keeps
\* what the files say of each other.
LEMMA SameNodes ==
  ASSUME repo \in Repos, NumbersOnly, Known, IdsHaveDirectories, UNCHANGED repo,
         DOMAIN spec \subseteq DOMAIN spec', \A i \in DOMAIN spec : spec'[i] = spec[i]
  PROVE  \A i \in DOMAIN spec :
           /\ AsNode(i)' = AsNode(i) /\ Words(i)' = Words(i)
           /\ NodeDeps(AsNode(i))' = NodeDeps(AsNode(i))
           /\ Succ(AsNode(i))' = Succ(AsNode(i))
           /\ Reach(Succ(AsNode(i)))' = Reach(Succ(AsNode(i)))
<1>1. \A i \in DOMAIN spec : AsNode(i)' = AsNode(i)
  BY DEF AsNode
<1>2. \A i \in DOMAIN spec : NodeDeps(AsNode(i))' = NodeDeps(AsNode(i)) /\ Succ(AsNode(i))' = Succ(AsNode(i))
  BY <1>1, SameGraph
<1>3. \A i \in DOMAIN spec : Words(i)' = Words(i)
  BY <1>2 DEF Words, WordsOf
<1>4. \A i \in DOMAIN spec : Reach(Succ(AsNode(i)))' = Reach(Succ(AsNode(i)))
  BY <1>2, SameGraph, BelowNode
<1> QED BY <1>1, <1>2, <1>3, <1>4

\* An unchanged request asks for the same nodes.
LEMMA SameRequest ==
  ASSUME repo \in Repos, NumbersOnly, request \in Requests, UNCHANGED <<repo, request>>
  PROVE  Requested' = Requested /\ Reach(Requested)' = Reach(Requested)
<1>1. Requested' = Requested
  BY SameGraph DEF Requested
<1> QED BY <1>1, SameGraph, BelowRequest

\* A new directory is that of the word, and joins the path.
LEMMA OpenGraph ==
  ASSUME repo \in Repos, NumbersOnly, IdsHaveDirectories, Graph, NEW s, IsNext(s),
         NodeOf(s) # Unresolved, NEW id, id = IdOfNode(NodeOf(s)), id \notin DOMAIN spec,
         OpenNode(id, NodeOf(s))
  PROVE  Graph'
<1> DEFINE n == NodeOf(s)
<1>1. /\ DOMAIN spec' = DOMAIN spec \cup {id}
      /\ DOMAIN deps' = DOMAIN spec \cup {id}
      /\ DOMAIN closure' = DOMAIN spec \cup {id}
      /\ spec'[id] = n /\ deps'[id] = <<>> /\ closure'[id] = {}
      /\ \A i \in DOMAIN spec : spec'[i] = spec[i] /\ deps'[i] = deps[i] /\ closure'[i] = closure[i]
      /\ stack' = Append(stack, id)
      /\ repo' = repo /\ request' = request /\ todo' = todo /\ final' = final
  BY DEF OpenNode, IdsHaveDirectories
<1>2. /\ IsWord(s) /\ n \in Reach(Requested)
      /\ stack # <<>> => Top \in DOMAIN spec /\ n \in Succ(AsNode(Top))
  BY NextWord
<1>3. n \in Nodes /\ n = [name |-> n.name, version |-> n.version, kind |-> n.kind]
  BY <1>2, WordNode
<1> HIDE DEF n
<1>4. AsNode(id)' = n
  BY <1>1, <1>3 DEF AsNode
<1>5. \A i \in DOMAIN spec :
           /\ AsNode(i)' = AsNode(i) /\ Words(i)' = Words(i)
           /\ NodeDeps(AsNode(i))' = NodeDeps(AsNode(i))
           /\ Succ(AsNode(i))' = Succ(AsNode(i))
           /\ Reach(Succ(AsNode(i)))' = Reach(Succ(AsNode(i)))
  BY <1>1, SameNodes DEF Graph
<1>6. Requested' = Requested /\ Reach(Requested)' = Reach(Requested)
  BY <1>1, SameRequest DEF Graph, Asked
<1>7. Nodes' = Nodes /\ \A t : NodeOf(t)' = NodeOf(t)
  BY <1>1, SameGraph
<1>8. Known'
  <2>1. IdOfNode(n) = id
    BY DEF n
  <2>2. \A i \in DOMAIN spec : AsNode(i)' \in Nodes /\ IdOfNode(AsNode(i)') = i
    BY <1>5 DEF Graph, Known
  <2>3. AsNode(id)' \in Nodes /\ IdOfNode(AsNode(id)') = id
    BY <1>3, <1>4, <2>1
  <2> QED BY <1>1, <1>7, <2>2, <2>3 DEF Known, IdOfNode
<1>9. \A i \in DOMAIN spec : deps[i] \in Seq(DOMAIN spec) /\ DOMAIN deps[i] = 1..Len(deps[i])
        /\ \A j \in 1..Len(deps[i]) : deps[i][j] \in DOMAIN spec
  BY DEF IdsHaveDirectories
<1>10. Known' => Len(Words(id)') \in Nat
  <2>1. AsNode(id)' \in Universe
    BY <1>3, <1>4 DEF Universe
  <2>2. WordsOf(NodeDeps(n)) \in Seq(SeqRange(WordsOf(NodeDeps(n))))
    BY <1>3, SuccIn DEF Universe
  <2>3. Words(id)' = WordsOf(NodeDeps(n))
    BY <1>1, <1>4, SameGraph DEF Words, WordsOf
  <2> QED BY <2>2, <2>3
<1>11. Followed'
  <2>1. Len(deps'[id]) <= Len(Words(id)') /\ 1..Len(deps'[id]) = {}
    BY <1>1, <1>8, <1>10
  <2>2. ASSUME NEW i \in DOMAIN spec
        PROVE  /\ Len(deps'[i]) <= Len(Words(i)')
               /\ \A j \in 1..Len(deps'[i]) : AsNode(deps[i][j])' = NodeOf(Words(i)[j])'
    BY <1>1, <1>5, <1>7, <1>9 DEF Graph, Followed
  <2> QED BY <1>1, <1>7, <2>1, <2>2 DEF Followed
<1>12. Whole'
  <2>1. DOMAIN final \subseteq DOMAIN spec
    BY DEF IdsHaveDirectories
  <2> QED BY <1>1, <1>5, <2>1 DEF Graph, Whole
<1>13. Closed'
  <2>1. \A i \in DOMAIN spec : closure[i] \subseteq DOMAIN spec
    BY DEF IdsHaveDirectories
  <2>2. SeqRange(deps'[id]) = {}
    BY <1>1 DEF SeqRange
  <2>3. ASSUME NEW i \in DOMAIN spec
        PROVE  /\ SeqRange(deps'[i]) \subseteq closure'[i]
               /\ \A d \in closure'[i] : /\ closure'[d] \subseteq closure'[i]
                                         /\ AsNode(d)' \in Reach(Succ(AsNode(i)))'
    <3>1. closure'[i] = closure[i] /\ deps'[i] = deps[i]
      BY <1>1
    <3>2. ASSUME NEW d \in closure[i]
          PROVE  /\ closure'[d] \subseteq closure[i]
                 /\ AsNode(d)' \in Reach(Succ(AsNode(i)))'
      BY <1>1, <1>5, <2>1, <2>3, <3>2 DEF Graph, Closed
    <3> QED BY <3>1, <3>2 DEF Graph, Closed
  <2> QED BY <1>1, <2>2, <2>3 DEF Closed
<1>14. stack \in Seq(DOMAIN spec) /\ DOMAIN stack = 1..Len(stack) /\ Len(stack) \in Nat
       /\ (\A k \in 1..Len(stack) : stack[k] \in DOMAIN spec)
       /\ Len(stack') = Len(stack) + 1 /\ stack'[Len(stack) + 1] = id
       /\ (\A k \in 1..Len(stack) : stack'[k] = stack[k])
       /\ DOMAIN stack' = 1..(Len(stack) + 1) /\ stack' # <<>>
  <2>1. stack \in Seq(DOMAIN spec)
    BY DEF IdsHaveDirectories
  <2>2. /\ stack' \in Seq(DOMAIN spec \cup {id}) /\ Len(stack') = Len(stack) + 1
        /\ stack'[Len(stack) + 1] = id /\ \A k \in 1..Len(stack) : stack'[k] = stack[k]
    <3>1. stack \in Seq(DOMAIN spec \cup {id})
      BY <2>1, SeqMonotonic
    <3> QED BY <1>1, <3>1
  <2> QED BY <2>1, <2>2
<1>15. \A k \in 1..(Len(stack) + 1) : k \in 1..Len(stack) \/ k = Len(stack) + 1
  BY <1>14
<1>16. Path'
  <2>1. SeqRange(stack') = DOMAIN spec' \ DOMAIN final'
    <3>1. SeqRange(stack') = SeqRange(stack) \cup {id}
      BY <1>1, <1>14, RangeAppend
    <3>2. id \notin DOMAIN final
      BY DEF IdsHaveDirectories
    <3> QED BY <1>1, <3>1, <3>2 DEF Graph, Path
  <2>2. todo' # <<>> /\ AsNode(stack[1])' = NodeOf(Head(todo))'
    <3>1. CASE stack = <<>>
      <4>1. stack'[1] = id /\ todo # <<>> /\ s = Head(todo)
        BY <1>14, <3>1 DEF IsNext
      <4> QED BY <1>1, <1>4, <1>7, <4>1 DEF n
    <3>2. CASE stack # <<>>
      <4>1. 1 \in 1..Len(stack)
        BY <1>14, <3>2
      <4>2. stack'[1] = stack[1] /\ stack[1] \in DOMAIN spec
        BY <1>14, <4>1
      <4>3. todo # <<>> /\ AsNode(stack[1]) = NodeOf(Head(todo))
        BY <3>2 DEF Graph, Path
      <4> QED BY <1>1, <1>5, <1>7, <4>2, <4>3
    <3> QED BY <3>1, <3>2
  <2>3. ASSUME NEW k \in 1..(Len(stack') - 1)
        PROVE  /\ Len(deps[stack[k]])' < Len(Words(stack[k]))'
               /\ AsNode(stack[k + 1])' = NodeOf(Words(stack[k])[Len(deps[stack[k]]) + 1])'
    <3>1. k \in 1..Len(stack) /\ stack'[k] = stack[k] /\ stack[k] \in DOMAIN spec
          /\ k + 1 \in 1..(Len(stack) + 1)
      BY <1>14
    <3>2. deps'[stack[k]] = deps[stack[k]] /\ Words(stack[k])' = Words(stack[k])
      BY <1>1, <1>5, <3>1
    <3>3. CASE k = Len(stack)
      <4>1. Top = stack[k] /\ stack # <<>> /\ stack'[k + 1] = id
        BY <1>14, <3>1, <3>3 DEF Top
      <4>2. Len(deps[stack[k]]) < Len(Words(stack[k])) /\ s = Words(stack[k])[Len(deps[stack[k]]) + 1]
        BY <4>1 DEF IsNext
      <4> QED BY <1>4, <1>7, <3>1, <3>2, <4>1, <4>2 DEF n
    <3>4. CASE k # Len(stack)
      <4>1. k \in 1..(Len(stack) - 1) /\ k + 1 \in 1..Len(stack)
        <5>1. Len(stack) \in Nat /\ k \in 1..Len(stack)
          BY <1>14, <3>1
        <5> HIDE <1>14
        <5> QED BY <5>1, <3>4, SMT
      <4>2. stack'[k + 1] = stack[k + 1] /\ stack[k + 1] \in DOMAIN spec
        BY <1>14, <4>1
      <4>3. /\ Len(deps[stack[k]]) < Len(Words(stack[k]))
            /\ AsNode(stack[k + 1]) = NodeOf(Words(stack[k])[Len(deps[stack[k]]) + 1])
        BY <4>1 DEF Graph, Path
      <4> QED BY <1>5, <1>7, <3>1, <3>2, <4>2, <4>3
    <3> QED BY <3>3, <3>4
  <2>4. ASSUME NEW k \in 1..Len(stack'), NEW l \in 1..Len(stack'), k < l
        PROVE  AsNode(stack[l])' \in Reach(Succ(AsNode(stack[k])))'
    <3>1. k \in 1..Len(stack) /\ stack'[k] = stack[k] /\ stack[k] \in DOMAIN spec
      BY <1>14, <2>4
    <3>2. CASE l \in 1..Len(stack)
      <4>1. stack'[l] = stack[l] /\ stack[l] \in DOMAIN spec
        BY <1>14, <3>2
      <4>2. AsNode(stack[l]) \in Reach(Succ(AsNode(stack[k])))
        BY <2>4, <3>1, <3>2 DEF Graph, Path
      <4> QED BY <1>5, <3>1, <4>1, <4>2
    <3>3. CASE l = Len(stack) + 1
      <4>1. stack'[l] = id /\ AsNode(stack[l])' = n
        BY <1>4, <1>14, <3>3
      <4>2. Top = stack[Len(stack)] /\ Len(stack) \in 1..Len(stack) /\ stack # <<>>
        BY <1>14, <3>1 DEF Top
      <4>3. n \in Reach(Succ(AsNode(stack[k])))
        <5>1. IsReach(Reach(Succ(AsNode(stack[k]))), Succ(AsNode(stack[k])))
          BY <3>1, BelowNode DEF Graph
        <5>2. CASE k = Len(stack)
          BY <1>2, <4>2, <5>1, <5>2 DEF IsReach
        <5>3. CASE k # Len(stack)
          <6>1. k < Len(stack)
            BY <1>14, <3>1, <5>3
          <6>2. AsNode(Top) \in Reach(Succ(AsNode(stack[k])))
            BY <3>1, <4>2, <6>1 DEF Graph, Path
          <6> QED BY <1>2, <4>2, <5>1, <6>2 DEF IsReach
        <5> QED BY <5>2, <5>3
      <4> QED BY <1>5, <3>1, <4>1, <4>3
    <3> QED BY <1>14, <1>15, <3>2, <3>3
  <2> QED BY <1>7, <2>1, <2>2, <2>3, <2>4 DEF Path
<1>17. Asked'
  <2>1. \A i \in DOMAIN spec' : AsNode(i)' \in Reach(Requested)'
    BY <1>1, <1>2, <1>4, <1>5, <1>6 DEF Graph, Asked
  <2>2. DOMAIN final \subseteq DOMAIN spec
    BY DEF IdsHaveDirectories
  <2>3. \A t \in SeqRange(request') :
          t \in SeqRange(todo') \/ \E i \in DOMAIN final' : AsNode(i)' = NodeOf(t)'
    BY <1>1, <1>5, <1>7, <2>2 DEF Graph, Asked
  <2> QED BY <1>1, <2>1, <2>3 DEF Graph, Asked
<1> QED BY <1>8, <1>11, <1>12, <1>13, <1>16, <1>17 DEF Graph

\* Where a number between 1 and n + 1 is.
LEMMA Between ==
  ASSUME NEW n \in Nat, NEW k \in 1..(n - 1)
  PROVE  k \in 1..n /\ k + 1 \in 1..n /\ k # n /\ n \in 1..n
OBVIOUS

\* The elements of a sequence are its head and those of its tail.
LEMMA HeadOrTail ==
  ASSUME NEW S, NEW t \in Seq(S), t # <<>>
  PROVE  /\ Tail(t) \in Seq(S)
         /\ \A x \in SeqRange(t) : x = Head(t) \/ x \in SeqRange(Tail(t))
<1>1. /\ Len(t) \in Nat \ {0} /\ DOMAIN t = 1..Len(t) /\ Head(t) = t[1]
      /\ Tail(t) \in Seq(S) /\ Len(Tail(t)) = Len(t) - 1
      /\ \A i \in 1..(Len(t) - 1) : Tail(t)[i] = t[i + 1]
  BY HeadTailProperties
<1>2. ASSUME NEW i \in 1..Len(t), i # 1
      PROVE  t[i] \in SeqRange(Tail(t))
  <2>1. i - 1 \in 1..(Len(t) - 1) /\ (i - 1) + 1 = i
    BY <1>1, <1>2
  <2>2. Tail(t)[i - 1] = t[i] /\ DOMAIN Tail(t) = 1..(Len(t) - 1)
    BY <1>1, <2>1
  <2> QED BY <2>1, <2>2 DEF SeqRange
<1> QED BY <1>1, <1>2 DEF SeqRange

\* A dependency that is recorded with its caller is the node of the caller's
\* next word, and brings its closure.
LEMMA RecordGraph ==
  ASSUME repo \in Repos, NumbersOnly, IdsHaveDirectories, BelowDone, Known, Followed, Closed,
         NEW caller \in DOMAIN spec, NEW id \in DOMAIN spec,
         caller \notin DOMAIN final, caller # id,
         Len(deps[caller]) < Len(Words(caller)),
         AsNode(id) = NodeOf(Words(caller)[Len(deps[caller]) + 1]),
         UNCHANGED <<repo, spec>>,
         deps' = [deps EXCEPT ![caller] = Append(deps[caller], id)],
         closure' = [closure EXCEPT ![caller] = closure[caller] \cup {id} \cup closure[id]]
  PROVE  Known' /\ Followed' /\ Closed'
<1>1. \A i \in DOMAIN spec :
           /\ AsNode(i)' = AsNode(i) /\ Words(i)' = Words(i)
           /\ Succ(AsNode(i))' = Succ(AsNode(i))
           /\ Reach(Succ(AsNode(i)))' = Reach(Succ(AsNode(i)))
  BY SameNodes
<1>2. Nodes' = Nodes /\ \A t : NodeOf(t)' = NodeOf(t)
  BY SameGraph
<1>3. /\ \A i \in DOMAIN spec : i # caller => deps'[i] = deps[i] /\ closure'[i] = closure[i]
      /\ deps'[caller] = Append(deps[caller], id)
      /\ closure'[caller] = closure[caller] \cup {id} \cup closure[id]
      /\ spec' = spec
  BY DEF IdsHaveDirectories
<1>4. /\ \A i \in DOMAIN spec : /\ deps[i] \in Seq(DOMAIN spec)
                                /\ closure[i] \subseteq DOMAIN spec /\ closure[i] \subseteq DOMAIN final
                                /\ SeqRange(deps[i]) \subseteq DOMAIN final
      /\ DOMAIN final \subseteq DOMAIN spec
  BY DEF IdsHaveDirectories, BelowDone, Below
<1>5. Known'
  BY <1>1, <1>2, <1>3 DEF Known, IdOfNode
<1> DEFINE m == Len(deps[caller])
<1>6. /\ m \in Nat /\ Len(deps'[caller]) = m + 1 /\ deps'[caller][m + 1] = id
      /\ \A j \in 1..m : deps'[caller][j] = deps[caller][j] /\ deps[caller][j] \in DOMAIN spec
  BY <1>3, <1>4
<1>7. Len(Words(caller)) \in Nat
  BY BelowNode
<1>8. Followed'
  <2>1. ASSUME NEW i \in DOMAIN spec, i # caller
        PROVE  /\ Len(deps[i])' <= Len(Words(i))'
               /\ \A j \in 1..Len(deps'[i]) : AsNode(deps[i][j])' = NodeOf(Words(i)[j])'
    <3>1. deps'[i] = deps[i] /\ \A j \in 1..Len(deps[i]) : deps[i][j] \in DOMAIN spec
      BY <1>3, <1>4, <2>1
    <3> QED BY <1>1, <1>2, <3>1 DEF Followed
  <2>2. Len(deps[caller])' <= Len(Words(caller))'
    <3>1. m + 1 <= Len(Words(caller))
      BY <1>6, <1>7
    <3> QED BY <1>1, <1>6, <3>1
  <2>3. ASSUME NEW j \in 1..Len(deps'[caller])
        PROVE  AsNode(deps[caller][j])' = NodeOf(Words(caller)[j])'
    <3>1. j = m + 1 \/ j \in 1..m
      BY <1>6
    <3>2. CASE j = m + 1
      BY <1>1, <1>2, <1>6, <3>2
    <3>3. CASE j \in 1..m
      <4>1. AsNode(deps[caller][j]) = NodeOf(Words(caller)[j])
        BY <3>3 DEF Followed
      <4> QED BY <1>1, <1>2, <1>6, <3>3, <4>1
    <3> QED BY <3>1, <3>2, <3>3
  <2> QED BY <1>3, <2>1, <2>2, <2>3 DEF Followed
<1>9. Closed'
  <2>1. ASSUME NEW i \in DOMAIN spec, i # caller
        PROVE  /\ SeqRange(deps[i])' \subseteq closure'[i]
               /\ \A d \in closure'[i] :
                    closure'[d] \subseteq closure'[i] /\ AsNode(d)' \in Reach(Succ(AsNode(i)))'
    <3>1. SeqRange(deps[i])' = SeqRange(deps[i])
      BY <1>3, <2>1 DEF SeqRange
    <3>2. \A d \in closure[i] : closure'[d] = closure[d] /\ d \in DOMAIN spec
      BY <1>3, <1>4, <2>1
    <3> QED BY <1>1, <1>3, <2>1, <3>1, <3>2 DEF Closed
  <2>2. SeqRange(deps[caller])' \subseteq closure'[caller]
    <3>1. SeqRange(deps[caller])' = SeqRange(Append(deps[caller], id))
      BY <1>3 DEF SeqRange
    <3>2. SeqRange(Append(deps[caller], id)) = SeqRange(deps[caller]) \cup {id}
      BY <1>4, RangeAppend
    <3> QED BY <1>3, <3>1, <3>2 DEF Closed
  <2>3. /\ IsReach(Reach(Succ(AsNode(caller))), Succ(AsNode(caller)))
        /\ Succ(AsNode(caller)) \subseteq Universe /\ Succ(AsNode(id)) \subseteq Universe
    BY BelowNode
  <2>4. AsNode(id) \in Succ(AsNode(caller))
    <3>1. m + 1 \in 1..Len(Words(caller))
      BY <1>6, <1>7
    <3> QED BY <3>1, BelowNode
  <2>5. Reach(Succ(AsNode(id))) \subseteq Reach(Succ(AsNode(caller)))
    <3>1. Succ(AsNode(id)) \subseteq Reach(Succ(AsNode(caller)))
      BY <2>3, <2>4 DEF IsReach
    <3> QED BY <2>3, <3>1, ReachWithin
  <2>6. ASSUME NEW d \in closure'[caller]
        PROVE  closure'[d] \subseteq closure'[caller] /\ AsNode(d)' \in Reach(Succ(AsNode(caller)))'
    <3>1. d \in DOMAIN spec /\ d # caller /\ closure'[d] = closure[d]
      BY <1>3, <1>4
    <3>2. CASE d \in closure[caller]
      BY <1>1, <1>3, <3>1, <3>2 DEF Closed
    <3>3. CASE d = id
      <4>1. AsNode(id) \in Reach(Succ(AsNode(caller)))
        BY <2>3, <2>4 DEF IsReach
      <4> QED BY <1>1, <1>3, <3>1, <3>3, <4>1
    <3>4. CASE d \in closure[id]
      <4>1. closure[d] \subseteq closure[id] /\ AsNode(d) \in Reach(Succ(AsNode(id)))
        BY <3>4 DEF Closed
      <4> QED BY <1>1, <1>3, <2>5, <3>1, <4>1
    <3> QED BY <1>3, <3>2, <3>3, <3>4
  <2> QED BY <1>3, <2>1, <2>2, <2>6 DEF Closed
<1> QED BY <1>5, <1>8, <1>9

\* A call that finds its node finished returns it.
LEMMA ReturnGraph ==
  ASSUME repo \in Repos, NumbersOnly, IdsDiffer, IdsHaveDirectories, Open, BelowDone, Graph,
         NEW s, IsNext(s), NodeOf(s) # Unresolved,
         NEW id \in DOMAIN final, id = IdOfNode(NodeOf(s)), Return(stack, id),
         UNCHANGED <<repo, request, spec, final>>
  PROVE  Graph'
<1>1. id \in DOMAIN spec
  BY DEF IdsHaveDirectories
<1>2. AsNode(id) = NodeOf(s)
  <2>1. NodeOf(s) \in Nodes
    BY NextWord, WordNode
  <2> QED BY <1>1, <2>1, NodesDiffer DEF Graph, Known
<1>3. \A i \in DOMAIN spec :
           /\ AsNode(i)' = AsNode(i) /\ Words(i)' = Words(i)
           /\ NodeDeps(AsNode(i))' = NodeDeps(AsNode(i))
           /\ Succ(AsNode(i))' = Succ(AsNode(i))
           /\ Reach(Succ(AsNode(i)))' = Reach(Succ(AsNode(i)))
  BY SameNodes DEF Graph
<1>4. Requested' = Requested /\ Reach(Requested)' = Reach(Requested)
  BY SameRequest DEF Graph, Asked
<1>5. Nodes' = Nodes /\ \A t : NodeOf(t)' = NodeOf(t)
  BY SameGraph
<1>6. \A i \in DOMAIN spec : AsNode(i)' \in Reach(Requested)'
  BY <1>3, <1>4 DEF Graph, Asked
<1>7. stack' = stack
  BY DEF Return
<1>8. CASE stack = <<>>
  <2>1. todo' = Tail(todo) /\ deps' = deps /\ closure' = closure /\ spec' = spec /\ final' = final
        /\ todo # <<>> /\ s = Head(todo)
    BY <1>8 DEF Return, IsNext
  <2>2. Known' /\ Followed' /\ Whole' /\ Closed'
    <3>1. DOMAIN final \subseteq DOMAIN spec /\ \A i \in DOMAIN spec : closure[i] \subseteq DOMAIN spec
      BY DEF IdsHaveDirectories
    <3>2. Known'
      BY <1>3, <1>5, <2>1 DEF Graph, Known, IdOfNode
    <3>3. \A i \in DOMAIN spec : \A j \in 1..Len(deps[i]) : deps[i][j] \in DOMAIN spec
      BY DEF IdsHaveDirectories
    <3>4. Followed'
      BY <1>3, <1>5, <2>1, <3>3 DEF Graph, Followed
    <3>5. Whole'
      BY <1>3, <2>1, <3>1 DEF Graph, Whole
    <3>6. Closed'
      BY <1>3, <2>1, <3>1 DEF Graph, Closed, SeqRange
    <3> QED BY <3>2, <3>4, <3>5, <3>6
  <2>3. Path'
    <3>1. SeqRange(stack)' = DOMAIN spec' \ DOMAIN final'
      BY <1>7, <2>1 DEF Graph, Path, SeqRange
    <3>2. stack' = <<>> /\ Len(stack') = 0
      BY <1>7, <1>8
    <3> QED BY <3>1, <3>2 DEF Path
  <2>4. Asked'
    <3>1. todo \in Seq(SeqRange(request))
      BY DEF Graph, Asked
    <3>2. Tail(todo) \in Seq(SeqRange(request))
          /\ \A t \in SeqRange(todo) : t = s \/ t \in SeqRange(Tail(todo))
      BY <2>1, <3>1, HeadOrTail
    <3>3. SeqRange(request)' = SeqRange(request)
      BY DEF SeqRange
    <3>4. \A t \in SeqRange(request) :
            t \in SeqRange(Tail(todo)) \/ \E i \in DOMAIN final : AsNode(i)' = NodeOf(t)'
      <4>1. DOMAIN final \subseteq DOMAIN spec
        BY DEF IdsHaveDirectories
      <4>2. \A t \in SeqRange(request) :
              t \in SeqRange(todo) \/ \E i \in DOMAIN final : AsNode(i) = NodeOf(t)
        BY DEF Graph, Asked
      <4>3. AsNode(id) = NodeOf(s) /\ id \in DOMAIN final
        BY <1>2
      <4>4. \A t \in SeqRange(request) :
              t \in SeqRange(Tail(todo)) \/ \E i \in DOMAIN final : AsNode(i) = NodeOf(t)
        BY <3>2, <4>2, <4>3
      <4> QED BY <1>3, <1>5, <4>1, <4>4
    <3>5. \A t \in SeqRange(request)' :
            t \in SeqRange(todo)' \/ \E i \in DOMAIN final' : AsNode(i)' = NodeOf(t)'
      BY <2>1, <3>3, <3>4 DEF SeqRange
    <3>6. request' \in Requests /\ todo' \in Seq(SeqRange(request)')
      BY <2>1, <3>2, <3>3 DEF Graph, Asked
    <3> QED BY <1>6, <3>5, <3>6 DEF Asked
  <2> QED BY <2>2, <2>3, <2>4 DEF Graph
<1>9. CASE stack # <<>>
  <2>1. stack \in Seq(DOMAIN spec) /\ Len(stack) \in Nat \ {0} /\ DOMAIN stack = 1..Len(stack)
        /\ \A k \in 1..Len(stack) : stack[k] \in DOMAIN spec
    BY <1>9 DEF IdsHaveDirectories
  <2>2. PICK caller \in DOMAIN spec :
              caller = stack[Len(stack)] /\ caller = Top /\ caller \notin DOMAIN final
    BY <2>1 DEF Open, Done, Top
  <2>3. /\ deps' = [deps EXCEPT ![caller] = Append(deps[caller], id)]
        /\ closure' = [closure EXCEPT ![caller] = closure[caller] \cup {id} \cup closure[id]]
        /\ todo' = todo /\ spec' = spec /\ final' = final /\ request' = request
    BY <1>9, <2>2 DEF Return
  <2>4. /\ Len(deps[caller]) < Len(Words(caller))
        /\ s = Words(caller)[Len(deps[caller]) + 1]
    BY <1>9, <2>2 DEF IsNext
  <2>5. Known' /\ Followed' /\ Closed'
    BY <1>1, <1>2, <2>2, <2>3, <2>4, RecordGraph DEF Graph
  <2>6. \A i \in DOMAIN spec : i # caller => deps'[i] = deps[i]
    BY <2>3 DEF IdsHaveDirectories
  <2>7. Whole'
    <3>1. DOMAIN final \subseteq DOMAIN spec
      BY DEF IdsHaveDirectories
    <3> QED BY <1>3, <2>2, <2>3, <2>6, <3>1 DEF Graph, Whole
  <2>8. Path'
    <3>1. SeqRange(stack)' = DOMAIN spec' \ DOMAIN final'
      BY <1>7, <2>3 DEF Graph, Path, SeqRange
    <3>2. todo' # <<>> /\ AsNode(stack[1])' = NodeOf(Head(todo))'
      <4>1. 1 \in 1..Len(stack) /\ stack[1] \in DOMAIN spec
        BY <2>1
      <4> QED BY <1>3, <1>5, <1>7, <1>9, <2>3, <4>1 DEF Graph, Path
    <3>3. ASSUME NEW k \in 1..(Len(stack') - 1)
          PROVE  /\ Len(deps[stack[k]])' < Len(Words(stack[k]))'
                 /\ AsNode(stack[k + 1])' = NodeOf(Words(stack[k])[Len(deps[stack[k]]) + 1])'
      <4>1. k \in 1..(Len(stack) - 1) /\ k \in 1..Len(stack) /\ k + 1 \in 1..Len(stack) /\ k # Len(stack)
        <5>1. Len(stack) \in Nat /\ k \in 1..(Len(stack) - 1)
          BY <1>7, <2>1
        <5> QED BY <5>1, Between
      <4>2. stack[k] # caller /\ stack[k] \in DOMAIN spec /\ stack[k + 1] \in DOMAIN spec
        <5>1. Len(stack) \in DOMAIN stack /\ k \in DOMAIN stack
          BY <2>1, <4>1
        <5> QED BY <2>1, <2>2, <4>1, <5>1 DEF Open
      <4>3. deps'[stack[k]] = deps[stack[k]]
        BY <2>6, <4>2
      <4>4. /\ Len(deps[stack[k]]) < Len(Words(stack[k]))
            /\ AsNode(stack[k + 1]) = NodeOf(Words(stack[k])[Len(deps[stack[k]]) + 1])
        BY <4>1 DEF Graph, Path
      <4> QED BY <1>3, <1>5, <1>7, <4>2, <4>3, <4>4
    <3>4. \A k, l \in 1..Len(stack') :
            k < l => AsNode(stack[l])' \in Reach(Succ(AsNode(stack[k])))'
      BY <1>3, <1>7, <2>1 DEF Graph, Path
    <3> QED BY <3>1, <3>2, <3>3, <3>4 DEF Path
  <2>9. Asked'
    <3>1. DOMAIN final \subseteq DOMAIN spec
      BY DEF IdsHaveDirectories
    <3>2. SeqRange(request)' = SeqRange(request) /\ SeqRange(todo)' = SeqRange(todo)
      BY <2>3 DEF SeqRange
    <3>3. \A t \in SeqRange(request) :
            t \in SeqRange(todo) \/ \E i \in DOMAIN final : AsNode(i)' = NodeOf(t)'
      BY <1>3, <1>5, <3>1 DEF Graph, Asked
    <3> QED BY <1>6, <2>3, <3>2, <3>3 DEF Graph, Asked
  <2> QED BY <2>5, <2>7, <2>8, <2>9 DEF Graph
<1> QED BY <1>8, <1>9

\* The innermost call is finished and returns its node.
LEMMA FinishGraph ==
  ASSUME repo \in Repos, NumbersOnly, IdsHaveDirectories, Open, BelowDone, Graph, FinishNode
  PROVE  Graph'
<1>1. /\ stack \in Seq(DOMAIN spec) /\ Len(stack) \in Nat \ {0} /\ DOMAIN stack = 1..Len(stack)
      /\ \A k \in 1..Len(stack) : stack[k] \in DOMAIN spec
  BY DEF FinishNode, IdsHaveDirectories
<1>2. PICK id \in DOMAIN spec :
        id = stack[Len(stack)] /\ id = Top /\ id \notin DOMAIN final /\ Len(stack) \in 1..Len(stack)
  BY <1>1 DEF Top, Open, Done
<1>3. PICK calls \in Seq(DOMAIN spec) :
        /\ calls = SubSeq(stack, 1, Len(stack) - 1)
        /\ Len(calls) = Len(stack) - 1
        /\ \A k \in DOMAIN calls : k \in DOMAIN stack /\ k # Len(stack) /\ calls[k] = stack[k]
  BY <1>1, Front, Zenon
<1>4. /\ DOMAIN final' = DOMAIN final \cup {id}
      /\ Return(calls, id) /\ stack' = calls
      /\ repo' = repo /\ request' = request /\ spec' = spec
      /\ TopDeps # <<>> /\ TopNext > Len(WordsOf(TopDeps))
  BY <1>2, <1>3 DEF FinishNode, Top, Return
<1>5. Len(calls) \in Nat /\ DOMAIN calls = 1..Len(calls) /\ Len(stack) = Len(calls) + 1
      /\ \A k \in 1..Len(calls) : k \in 1..Len(stack) /\ k # Len(stack) /\ calls[k] = stack[k]
                                  /\ stack[k] \in DOMAIN spec /\ stack[k] # id
                                  /\ stack[k] \notin DOMAIN final
  <2>1. Len(calls) \in Nat /\ DOMAIN calls = 1..Len(calls) /\ Len(stack) = Len(calls) + 1
    BY <1>1, <1>3
  <2>2. \A k \in 1..Len(calls) : k \in 1..Len(stack) /\ k # Len(stack) /\ calls[k] = stack[k]
    BY <1>1, <1>3, <2>1
  <2> QED BY <1>1, <1>2, <2>1, <2>2 DEF Open, Done
<1>6. \A i \in DOMAIN spec :
           /\ AsNode(i)' = AsNode(i) /\ Words(i)' = Words(i)
           /\ NodeDeps(AsNode(i))' = NodeDeps(AsNode(i))
           /\ Succ(AsNode(i))' = Succ(AsNode(i))
           /\ Reach(Succ(AsNode(i)))' = Reach(Succ(AsNode(i)))
  BY <1>4, SameNodes DEF Graph
<1>7. Requested' = Requested /\ Reach(Requested)' = Reach(Requested)
  BY <1>4, SameRequest DEF Graph, Asked
<1>8. Nodes' = Nodes /\ \A t : NodeOf(t)' = NodeOf(t)
  BY <1>4, SameGraph
<1>9. \A i \in DOMAIN spec : AsNode(i)' \in Reach(Requested)'
  BY <1>6, <1>7 DEF Graph, Asked
\* All words of the node are visited.
<1>10. NodeDeps(AsNode(id)) # <<>> /\ Len(deps[id]) = Len(Words(id))
  <2>1. AsNode(id) # Unresolved
    BY NodeParts DEF Graph, Known
  <2>2. TopDeps = NodeDeps(AsNode(id))
    BY <1>2, <2>1 DEF TopDeps, NodeDeps, AsNode
  <2>3. Len(deps[id]) + 1 > Len(Words(id))
    BY <1>2, <1>4, <2>2 DEF TopNext, Words
  <2>4. Len(deps[id]) \in Nat /\ Len(Words(id)) \in Nat /\ Len(deps[id]) <= Len(Words(id))
    BY BelowNode DEF IdsHaveDirectories, Graph, Followed
  <2> QED BY <1>4, <2>2, <2>3, <2>4
<1>11. /\ \A i \in DOMAIN spec : closure[i] \subseteq DOMAIN final
       /\ DOMAIN final \subseteq DOMAIN spec
  BY DEF BelowDone, Below, IdsHaveDirectories
<1>12. \A k, l \in 1..Len(stack') :
         k < l => AsNode(stack[l])' \in Reach(Succ(AsNode(stack[k])))'
  BY <1>4, <1>5, <1>6 DEF Graph, Path
<1>13. SeqRange(stack)' = DOMAIN spec' \ DOMAIN final'
  <2>1. SeqRange(calls) = SeqRange(stack) \ {id}
    <3>1. \A k \in 1..Len(stack) : k \in 1..Len(calls) \/ k = Len(stack)
      BY <1>5
    <3>2. SeqRange(stack) = {stack[k] : k \in 1..Len(stack)} /\ SeqRange(calls) = {calls[k] : k \in 1..Len(calls)}
      BY <1>1, <1>5 DEF SeqRange
    <3> QED BY <1>2, <1>5, <3>1, <3>2
  <2>2. SeqRange(stack)' = SeqRange(calls)
    BY <1>4 DEF SeqRange
  <2> QED BY <1>4, <2>1, <2>2 DEF Graph, Path
<1>14. CASE calls = <<>>
  <2>1. todo' = Tail(todo) /\ deps' = deps /\ closure' = closure
    BY <1>4, <1>14 DEF Return
  <2>2. todo # <<>> /\ AsNode(id) = NodeOf(Head(todo))
    <3>1. Len(calls) = 0
      BY <1>14
    <3>2. Len(stack) = 1
      BY <1>5, <3>1
    <3>3. stack[1] = id
      BY <1>2, <3>2, Zenon
    <3>4. stack # <<>>
      BY DEF FinishNode
    <3> QED BY <3>3, <3>4 DEF Graph, Path
  <2>3. Known'
    BY <1>4, <1>6, <1>8 DEF Graph, Known, IdOfNode
  <2>4. Followed'
    <3>1. \A i \in DOMAIN spec : \A j \in 1..Len(deps[i]) : deps[i][j] \in DOMAIN spec
      BY DEF IdsHaveDirectories
    <3> QED BY <1>4, <1>6, <1>8, <2>1, <3>1 DEF Graph, Followed
  <2>5. Whole'
    BY <1>4, <1>6, <1>10, <1>11, <2>1 DEF Graph, Whole
  <2>6. Closed'
    BY <1>4, <1>6, <1>11, <2>1 DEF Graph, Closed, SeqRange
  <2>7. Path'
    <3>1. stack' = <<>> /\ Len(stack') = 0
      BY <1>4, <1>14
    <3> QED BY <1>13, <3>1 DEF Path
  <2>8. Asked'
    <3>1. todo \in Seq(SeqRange(request))
      BY DEF Graph, Asked
    <3>2. Tail(todo) \in Seq(SeqRange(request))
          /\ \A t \in SeqRange(todo) : t = Head(todo) \/ t \in SeqRange(Tail(todo))
      BY <2>2, <3>1, HeadOrTail
    <3>3. SeqRange(request)' = SeqRange(request)
      BY <1>4 DEF SeqRange
    <3>4. \A t \in SeqRange(request) :
            t \in SeqRange(Tail(todo)) \/ \E i \in DOMAIN final' : AsNode(i) = NodeOf(t)
      BY <1>4, <2>2, <3>2 DEF Graph, Asked
    <3>5. \A t \in SeqRange(request)' :
            t \in SeqRange(todo)' \/ \E i \in DOMAIN final' : AsNode(i)' = NodeOf(t)'
      BY <1>4, <1>6, <1>8, <1>11, <2>1, <3>3, <3>4 DEF SeqRange
    <3>6. request' \in Requests /\ todo' \in Seq(SeqRange(request)')
      BY <1>4, <2>1, <3>2, <3>3 DEF Graph, Asked
    <3> QED BY <1>4, <1>9, <3>5, <3>6 DEF Asked
  <2> QED BY <2>3, <2>4, <2>5, <2>6, <2>7, <2>8 DEF Graph
<1>15. CASE calls # <<>>
  <2> DEFINE k == Len(calls)
  <2>1. k \in 1..k /\ k \in 1..(Len(stack) - 1) /\ stack[k + 1] = id
    <3>1. k \in Nat \ {0}
      BY <1>15
    <3>2. Len(stack) = k + 1
      BY <1>5
    <3> HIDE DEF k
    <3>3. stack[k + 1] = id
      BY <1>2, <3>2, Zenon
    <3>4. k \in 1..k /\ k \in 1..(Len(stack) - 1)
      BY <3>1, <3>2
    <3> QED BY <3>3, <3>4
  <2>2. PICK caller \in DOMAIN spec : /\ caller = calls[k] /\ caller = stack[k]
                                      /\ caller \notin DOMAIN final /\ caller # id
    BY <1>5, <2>1
  <2>3. /\ deps' = [deps EXCEPT ![caller] = Append(deps[caller], id)]
        /\ closure' = [closure EXCEPT ![caller] = closure[caller] \cup {id} \cup closure[id]]
        /\ todo' = todo
    BY <1>4, <1>15, <2>2 DEF Return
  <2>4. /\ Len(deps[caller]) < Len(Words(caller))
        /\ AsNode(id) = NodeOf(Words(caller)[Len(deps[caller]) + 1])
    BY <2>1, <2>2 DEF Graph, Path
  <2> HIDE DEF k
  <2>5. Known' /\ Followed' /\ Closed'
    BY <1>4, <2>2, <2>3, <2>4, RecordGraph DEF Graph
  <2>6. \A i \in DOMAIN spec : i # caller => deps'[i] = deps[i]
    BY <2>3 DEF IdsHaveDirectories
  <2>7. Whole'
    BY <1>4, <1>6, <1>10, <1>11, <2>2, <2>6 DEF Graph, Whole
  <2>8. Path'
    <3>1. todo' # <<>> /\ AsNode(stack[1])' = NodeOf(Head(todo))'
      <4>1. 1 \in 1..Len(calls) /\ stack # <<>>
        BY <1>1, <1>5, <1>15
      <4>2. stack'[1] = stack[1] /\ stack[1] \in DOMAIN spec
        BY <1>4, <1>5, <4>1
      <4>3. todo # <<>> /\ AsNode(stack[1]) = NodeOf(Head(todo))
        BY <4>1 DEF Graph, Path
      <4> QED BY <1>6, <1>8, <2>3, <4>2, <4>3
    <3>2. ASSUME NEW j \in 1..(Len(stack') - 1)
          PROVE  /\ Len(deps[stack[j]])' < Len(Words(stack[j]))'
                 /\ AsNode(stack[j + 1])' = NodeOf(Words(stack[j])[Len(deps[stack[j]]) + 1])'
      <4>1. j \in 1..Len(calls) /\ j + 1 \in 1..Len(calls) /\ j # Len(calls)
        <5>1. j \in 1..(Len(calls) - 1) /\ Len(calls) \in Nat
          BY <1>4, <1>5
        <5> QED BY <5>1, Between
      <4>2. j \in 1..(Len(stack) - 1)
        <5>1. j \in 1..Len(calls)
          BY <4>1
        <5>2. Len(stack) - 1 = Len(calls)
          BY <1>5, SMT
        <5> QED BY <5>1, <5>2
      <4>3. stack'[j] = stack[j] /\ stack'[j + 1] = stack[j + 1]
            /\ stack[j] \in DOMAIN spec /\ stack[j + 1] \in DOMAIN spec
        BY <1>4, <1>5, <4>1
      <4>4. stack[j] # caller
        <5>1. j \in DOMAIN stack /\ k \in DOMAIN stack /\ j # k
          BY <1>1, <1>5, <2>1, <4>1 DEF k
        <5> QED BY <2>2, <5>1 DEF Open
      <4>5. deps'[stack[j]] = deps[stack[j]]
        BY <2>6, <4>3, <4>4
      <4>6. /\ Len(deps[stack[j]]) < Len(Words(stack[j]))
            /\ AsNode(stack[j + 1]) = NodeOf(Words(stack[j])[Len(deps[stack[j]]) + 1])
        BY <4>2 DEF Graph, Path
      <4> QED BY <1>6, <1>8, <4>3, <4>5, <4>6
    <3> QED BY <1>12, <1>13, <3>1, <3>2 DEF Path
  <2>9. Asked'
    <3>1. SeqRange(request)' = SeqRange(request) /\ SeqRange(todo)' = SeqRange(todo)
      BY <1>4, <2>3 DEF SeqRange
    <3>2. \A t \in SeqRange(request) :
            t \in SeqRange(todo) \/ \E i \in DOMAIN final : AsNode(i)' = NodeOf(t)'
      BY <1>6, <1>8, <1>11 DEF Graph, Asked
    <3> QED BY <1>4, <1>9, <2>3, <3>1, <3>2 DEF Graph, Asked
  <2> QED BY <2>5, <2>7, <2>8, <2>9 DEF Graph
<1> QED BY <1>14, <1>15

\* A run begins with nothing written and all to do.
LEMMA StartGraph ==
  ASSUME repo \in Repos, NEW req \in Requests, Begin(req), Removing
  PROVE  Graph' /\ Reason' /\ repo' \in Repos
<1>1. /\ DOMAIN spec' = {} /\ DOMAIN deps' = {} /\ DOMAIN closure' = {}
      /\ DOMAIN final' = {}
      /\ stack' = <<>> /\ todo' = req /\ request' = req /\ repo' = repo
      /\ status' = "run"
  BY DEF Begin, Removed, Removing, dirs
<1>2. req \in Seq(SeqRange(req))
  <2>1. IsRequest(repo, req)
    BY RepoParts
  <2> QED BY <2>1 DEF IsRequest, IsTable, SeqRange
<1>3. Known' /\ Followed' /\ Whole' /\ Closed'
  BY <1>1 DEF Known, Followed, Whole, Closed
<1>4. Path'
  <2>1. stack' = <<>> /\ SeqRange(stack)' = {} /\ Len(stack') = 0
    BY <1>1 DEF SeqRange
  <2> QED BY <1>1, <2>1 DEF Path
<1>5. Asked'
  BY <1>1, <1>2 DEF Asked, SeqRange
<1>6. Reason'
  BY <1>1 DEF Reason
<1> QED BY <1>1, <1>3, <1>4, <1>5, <1>6 DEF Graph

\* The reasons for which a run may end.
Cyclic == \E n \in Reach(Requested) \ {Unresolved} : n \in Reach(Succ(n))
Empty == \E n \in Reach(Requested) \ {Unresolved} : NodeDeps(n) = <<>>

\* They are about the repository and the request only.
LEMMA ReasonFrame ==
  ASSUME repo \in Repos, NumbersOnly, request \in Requests, UNCHANGED <<repo, request>>,
         status' = "unresolved" => Unresolved \in Reach(Requested),
         status' = "cycle" => Cyclic,
         status' = "sort" => Empty,
         status' \in {"index", "dag", "done"} => (todo = <<>> /\ stack = <<>>)'
  PROVE  Reason'
<1>1. Requested' = Requested /\ Reach(Requested)' = Reach(Requested)
  BY SameRequest
<1>2. Reach(Requested) \subseteq Universe
  BY BelowRequest DEF IsReach
<1>3. \A n \in Universe : Succ(n) \subseteq Universe
  BY SuccIn
<1>4. \A n \in Universe : /\ NodeDeps(n)' = NodeDeps(n)
                          /\ Succ(n)' = Succ(n) /\ Reach(Succ(n))' = Reach(Succ(n))
  BY <1>3, SameGraph
<1>5. Cyclic => (\E n \in Reach(Requested) \ {Unresolved} : n \in Reach(Succ(n)))'
  BY <1>1, <1>2, <1>4 DEF Cyclic
<1>6. Empty => (\E n \in Reach(Requested) \ {Unresolved} : NodeDeps(n) = <<>>)'
  BY <1>1, <1>2, <1>4 DEF Empty
<1> QED BY <1>1, <1>5, <1>6 DEF Reason

\* A directory without a hash is on the path, so that its node is below itself.
LEMMA CycleFound ==
  ASSUME repo \in Repos, NumbersOnly, IdsDiffer, IdsHaveDirectories, Graph,
         NEW s, IsNext(s), NodeOf(s) # Unresolved,
         NEW id \in DOMAIN spec, id = IdOfNode(NodeOf(s)), id \notin DOMAIN final
  PROVE  Cyclic
<1>1. AsNode(id) = NodeOf(s)
  <2>1. NodeOf(s) \in Nodes
    BY NextWord, WordNode
  <2> QED BY <2>1, NodesDiffer DEF Graph, Known
<1>2. stack \in Seq(DOMAIN spec) /\ Len(stack) \in Nat /\ DOMAIN stack = 1..Len(stack)
  BY DEF IdsHaveDirectories
<1>3. PICK k \in 1..Len(stack) : stack[k] = id
  <2>1. id \in SeqRange(stack)
    BY DEF Graph, Path
  <2> QED BY <1>2, <2>1 DEF SeqRange
<1>4. Len(stack) \in 1..Len(stack) /\ stack # <<>> /\ Top = stack[Len(stack)]
  <2>1. Len(stack) # 0
    BY <1>2, <1>3
  <2> QED BY <1>2, <2>1 DEF Top
<1>5. NodeOf(s) \in Succ(AsNode(Top))
  BY <1>4, NextWord
<1>6. IsReach(Reach(Succ(AsNode(id))), Succ(AsNode(id)))
  BY BelowNode DEF Graph
<1>7. NodeOf(s) \in Reach(Succ(AsNode(id)))
  <2>1. CASE k = Len(stack)
    BY <1>3, <1>4, <1>5, <1>6, <2>1 DEF IsReach
  <2>2. CASE k # Len(stack)
    <3>1. k < Len(stack)
      <4>1. Len(stack) \in Nat /\ k \in 1..Len(stack)
        BY <1>2
      <4> HIDE <1>2
      <4> QED BY <4>1, <2>2, SMT
    <3>2. AsNode(Top) \in Reach(Succ(AsNode(id)))
      BY <1>3, <1>4, <3>1 DEF Graph, Path
    <3> QED BY <1>5, <1>6, <3>2 DEF IsReach
  <2> QED BY <2>1, <2>2
<1>8. AsNode(id) \in Reach(Requested)
  BY DEF Graph, Asked
<1> QED BY <1>1, <1>7, <1>8 DEF Cyclic

\* A call visit(s).
LEMMA VisitGraph ==
  ASSUME repo \in Repos, NumbersOnly, IdsDiffer, IInv, Graph, status = "run",
         NEW s, IsNext(s), visit(s)
  PROVE  Graph' /\ Reason' /\ repo' \in Repos
<1> USE DEF IInv
<1> DEFINE pick == Resolved(s)
           id   == IdOf(s.name, pick.version)
           node == [name |-> s.name, version |-> pick.version, kind |-> pick.kind]
<1>1. \/ pick = Unresolved /\ Fail("unresolved")
      \/ /\ pick # Unresolved /\ id \in DOMAIN final /\ Return(stack, id)
         /\ UNCHANGED <<repo, runs, request, status, spec, final, topo, index, dag, past>>
      \/ pick # Unresolved /\ id \notin DOMAIN final /\ id \in DOMAIN spec /\ Fail("cycle")
      \/ pick # Unresolved /\ id \notin DOMAIN spec /\ OpenNode(id, node)
  BY DEF visit, Done
<1>2. /\ pick = Unresolved <=> NodeOf(s) = Unresolved
      /\ pick # Unresolved => NodeOf(s) = node /\ IdOfNode(NodeOf(s)) = id
  <2>1. IsWord(s)
    BY NextWord
  <2> QED BY <2>1, WordNode
<1> HIDE DEF pick, id, node
<1>3. request \in Requests
  BY DEF Graph, Asked
<1>4. CASE pick = Unresolved /\ Fail("unresolved")
  <2>1. Unresolved \in Reach(Requested)
    BY <1>2, <1>4, NextWord
  <2>2. UNCHANGED <<repo, request, todo, stack, dirs>> /\ status' = "unresolved"
    BY <1>4 DEF Fail
  <2> QED BY <1>3, <2>1, <2>2, FrameGraph, ReasonFrame
<1>5. CASE /\ pick # Unresolved /\ id \in DOMAIN final /\ Return(stack, id)
           /\ UNCHANGED <<repo, runs, request, status, spec, final, topo, index, dag, past>>
  <2>1. Graph'
    BY <1>2, <1>5, ReturnGraph
  <2>2. Reason'
    BY <1>5 DEF Reason
  <2> QED BY <1>5, <2>1, <2>2
<1>6. CASE pick # Unresolved /\ id \notin DOMAIN final /\ id \in DOMAIN spec /\ Fail("cycle")
  <2>1. Cyclic
    BY <1>2, <1>6, CycleFound
  <2>2. UNCHANGED <<repo, request, todo, stack, dirs>> /\ status' = "cycle"
    BY <1>6 DEF Fail
  <2> QED BY <1>3, <2>1, <2>2, FrameGraph, ReasonFrame
<1>7. CASE pick # Unresolved /\ id \notin DOMAIN spec /\ OpenNode(id, node)
  <2>1. Graph'
    BY <1>2, <1>7, OpenGraph
  <2>2. status' = "run" /\ repo' = repo
    BY <1>7 DEF OpenNode
  <2> QED BY <2>1, <2>2 DEF Reason
<1> QED BY <1>1, <1>4, <1>5, <1>6, <1>7

\* The innermost call stands for its node.
LEMMA TopIs ==
  ASSUME repo \in Repos, IdsHaveDirectories, Graph, stack # <<>>
  PROVE  Top \in DOMAIN spec /\ TopDeps = NodeDeps(AsNode(Top)) /\ AsNode(Top) \in Nodes
         /\ WordsOf(TopDeps) = Words(Top)
<1>1. Top \in DOMAIN spec
  BY DEF Top, IdsHaveDirectories
<1>2. AsNode(Top) # Unresolved /\ AsNode(Top) \in Nodes
  BY <1>1, NodeParts DEF Graph, Known
<1> QED BY <1>1, <1>2 DEF TopDeps, NodeDeps, AsNode, Words

\* What the innermost call goes on with is its next word.
LEMMA DepIsNext ==
  ASSUME repo \in Repos, NumbersOnly, IdsHaveDirectories, Graph, stack # <<>>, TopNext <= Len(WordsOf(TopDeps))
  PROVE  IsNext(TopDeps[TopNext])
<1>1. Top \in DOMAIN spec /\ WordsOf(TopDeps) = Words(Top)
  BY TopIs
<1>2. Len(deps[Top]) \in Nat /\ Len(Words(Top)) \in Nat
  BY <1>1, BelowNode DEF IdsHaveDirectories, Graph
<1>3. Len(deps[Top]) < Len(Words(Top))
  BY <1>1, <1>2 DEF TopNext
<1>4. WordsOf(TopDeps) = TopDeps
  <2>1. TopDeps # NoFile
    BY <1>1, <1>2, <1>3 DEF WordsOf
  <2> QED BY <2>1 DEF WordsOf
<1> QED BY <1>1, <1>3, <1>4 DEF IsNext, TopNext

\* The graph and the reasons are an invariant.
LEMMA GraphInductive ==
  ASSUME NumbersOnly, IdsDiffer, Sound, GInv, [Next]_vars
  PROVE  GInv'
<1>0. repo \in Repos
  BY DEF GInv
<1> USE DEF IInv
<1>a. ASSUME Current, UNCHANGED <<repo, request, todo, stack, dirs>>,
             status' = "unresolved" => Unresolved \in Reach(Requested),
             status' = "cycle" => Cyclic,
             status' = "sort" => Empty,
             status' \in {"index", "dag", "done"} => (todo = <<>> /\ stack = <<>>)
      PROVE  GInv'
  <2>1. Graph /\ request \in Requests /\ IdsHaveDirectories
    BY <1>a DEF GInv, Graph, Asked, Sound, Current
  <2> QED BY <1>0, <1>a, <2>1, FrameGraph, ReasonFrame DEF GInv
<1>b. status = "run" => IInv /\ Graph /\ Reason /\ Current
  BY DEF GInv, Sound, Current, Settled
<1>1. CASE cmd_concretize \/ RemoveSpec \/ RemoveFiles
  BY <1>0, <1>1 DEF cmd_concretize, RemoveSpec, RemoveFiles, GInv, Current, Settled
<1>2. ASSUME NEW req \in Requests, Begin(req) PROVE GInv'
  <2>1. Removing
    BY <1>2 DEF Begin, Sound, Settled
  <2> QED BY <1>0, <1>2, <2>1, StartGraph DEF GInv
<1>3. CASE VisitRoot
  <2>1. IInv /\ Graph /\ Reason /\ status = "run" /\ IsNext(Head(todo)) /\ visit(Head(todo))
    BY <1>3, <1>b DEF VisitRoot, IsNext
  <2> QED BY <1>0, <2>1, VisitGraph DEF GInv
<1>4. CASE VisitDep
  <2>1. IInv /\ Graph /\ status = "run" /\ stack # <<>> /\ TopNext <= Len(WordsOf(TopDeps))
        /\ visit(TopDeps[TopNext])
    BY <1>4, <1>b DEF VisitDep
  <2>2. IsNext(TopDeps[TopNext])
    BY <1>0, <2>1, DepIsNext
  <2> QED BY <1>0, <2>1, <2>2, VisitGraph DEF GInv
<1>5. CASE SortFails
  <2>1. IInv /\ Graph /\ Current /\ stack # <<>> /\ TopDeps = <<>> /\ status' = "sort"
        /\ UNCHANGED <<repo, request, todo, stack, dirs>>
    BY <1>5, <1>b DEF SortFails, Fail
  <2>2. Empty
    <3>1. Top \in DOMAIN spec /\ NodeDeps(AsNode(Top)) = <<>> /\ AsNode(Top) # Unresolved
      BY <1>0, <2>1, TopIs, NodeParts
    <3>2. AsNode(Top) \in Reach(Requested)
      BY <2>1, <3>1 DEF Graph, Asked
    <3> QED BY <3>1, <3>2 DEF Empty
  <2> QED BY <1>a, <2>1, <2>2
<1>6. CASE FinishNode
  <2>1. IInv /\ Graph /\ status = "run" /\ status' = "run" /\ repo' = repo
    BY <1>6, <1>b DEF FinishNode
  <2>2. Graph'
    BY <1>0, <1>6, <2>1, FinishGraph
  <2>3. Reason'
    BY <2>1 DEF Reason
  <2> QED BY <1>0, <2>1, <2>2, <2>3 DEF GInv
<1>7. CASE EmitIndex \/ AppendLine \/ EmitDagmk \/ WriteRule \/ Conclude
  <2>1. /\ status \in {"run", "index", "dag"} /\ status' \in {"index", "dag", "done"}
        /\ status = "run" => todo = <<>> /\ stack = <<>>
        /\ UNCHANGED <<repo, request, todo, stack, dirs>>
    BY <1>7 DEF EmitIndex, AppendLine, EmitDagmk, WriteRule, Conclude
  <2>2. Current /\ todo = <<>> /\ stack = <<>>
    BY <2>1 DEF GInv, Reason, Current, Settled
  <2> QED BY <1>a, <2>1, <2>2
<1>8. CASE Interrupt
  <2>1. CASE status = "removing"
    BY <1>0, <1>8, <2>1 DEF Interrupt, Fail, GInv, Current, Settled
  <2>2. CASE status # "removing"
    BY <1>8, <1>a, <2>2 DEF Interrupt, Fail, Running, Current, Settled
  <2> QED BY <2>1, <2>2
<1>9. CASE Edit
  <2>1. status' \in {"idle", "half-removed"} /\ repo' \in Repos
    BY <1>0, <1>9, RepositoriesFit DEF Edit
  <2> QED BY <2>1 DEF GInv, Current, Settled
<1>10. CASE UNCHANGED vars
  <2>1. CASE ~Current
    BY <1>0, <1>10, <2>1 DEF GInv, vars, Current, Settled
  <2>2. CASE Current
    BY <1>10, <1>a, <2>2 DEF GInv, vars, Reason, Cyclic, Empty
  <2> QED BY <2>1, <2>2
<1> QED BY <1>1, <1>2, <1>3, <1>4, <1>5, <1>6, <1>7, <1>8, <1>9, <1>10 DEF Next, Step

\* It holds before the first run.
LEMMA GraphInitial == Init => GInv
BY DEF Init, GInv, Current

------------------------------------------------------------------------------
(* What follows: picks, closures and verdicts.                             *)

\* What is concretized is always one of the repositories.
InRepos == repo \in Repos

\* It is only ever edited into another of them.
LEMMA RepoStays == InRepos /\ [Next]_vars => InRepos'
<1> SUFFICES ASSUME repo \in Repos, [Next]_vars PROVE repo' \in Repos
  BY DEF InRepos
<1>1. CASE Edit
  BY <1>1, RepositoriesFit DEF Edit
<1>2. CASE ~Edit
  <2>1. \A s : visit(s) => repo' = repo
    BY DEF visit, Fail, OpenNode
  <2>2. repo' = repo
    BY <1>2, <2>1 DEF Next, Step, vars, cmd_concretize, RemoveSpec, RemoveFiles, Begin, VisitRoot,
       VisitDep, SortFails, Fail, FinishNode, EmitIndex, AppendLine, EmitDagmk, WriteRule,
       Conclude, Interrupt
  <2> QED BY <2>2
<1> QED BY <1>1, <1>2

(***************************************************************************)
(* Theorem: in every repository an explicit @version is matched exactly,   *)
(* an external one first, however its lines are ordered.                   *)
(***************************************************************************)
THEOREM PinsAreExact == Spec => []PinIsExact
<1>1. InRepos => PinIsExact
  <2> SUFFICES ASSUME InRepos, NEW name \in DOMAIN repo.recipe, NEW want \in Spelt
               PROVE  want \in VersionSet
    BY PinExact DEF PinIsExact, InRepos
  <2> QED BY TablesOf DEF Spelt, InRepos
<1>2. Init => InRepos
  BY DEF Init, InRepos
<1> QED BY <1>1, <1>2, RepoStays, PTL DEF Spec

(***************************************************************************)
(* Theorem: if the versions are numbers, a bare name takes the newest line *)
(* of either table, and is only built when that is newer than every        *)
(* external one.                                                           *)
(***************************************************************************)
THEOREM BareNamesTakeTheNewest ==
  ASSUME NumbersOnly
  PROVE  Spec => []BareTakesNewest
<1>1. InRepos => BareTakesNewest
  BY BareNewest DEF BareTakesNewest, InRepos
<1>2. Init => InRepos
  BY DEF Init, InRepos
<1> QED BY <1>1, <1>2, RepoStays, PTL DEF Spec
------------------------------------------------------------------------------
\* A finished node has a directory for every node its words stand for, and in
\* its closure.
LEMMA DepsBelow ==
  ASSUME repo \in Repos, NumbersOnly, IInv, Graph, NEW id \in DOMAIN final
  PROVE  /\ id \in DOMAIN spec
         /\ \A n \in Succ(AsNode(id)) : \E d \in SeqRange(deps[id]) : AsNode(d) = n
         /\ SeqRange(deps[id]) \subseteq closure[id]
         /\ closure[id] \subseteq DOMAIN final
         /\ closure[id] \subseteq DOMAIN spec
<1>1. id \in DOMAIN spec /\ DOMAIN final \subseteq DOMAIN spec
  BY DEF IInv, IdsHaveDirectories
<1>2. deps[id] \in Seq(DOMAIN spec) /\ DOMAIN deps[id] = 1..Len(deps[id])
  BY <1>1 DEF IInv, IdsHaveDirectories
<1>3. ASSUME NEW n \in Succ(AsNode(id))
      PROVE  \E d \in SeqRange(deps[id]) : AsNode(d) = n
  <2>1. PICK i \in 1..Len(Words(id)) : NodeOf(Words(id)[i]) = n
    BY <1>1, BelowNode DEF Graph
  <2>2. i \in 1..Len(deps[id])
    BY DEF Graph, Whole
  <2>3. AsNode(deps[id][i]) = n
    BY <1>1, <2>1, <2>2 DEF Graph, Followed
  <2> QED BY <1>2, <2>2, <2>3 DEF SeqRange
<1>4. SeqRange(deps[id]) \subseteq closure[id]
  BY <1>1 DEF Graph, Closed
<1>5. closure[id] \subseteq DOMAIN final
  BY <1>1 DEF IInv, BelowDone, Below
<1> QED BY <1>1, <1>3, <1>4, <1>5

\* The closure of a finished node is what can be reached from it.
LEMMA ClosureReach ==
  ASSUME repo \in Repos, NumbersOnly, IInv, Graph, NEW id \in DOMAIN final
  PROVE  closure[id] = {IdOfNode(n) : n \in Reach(Succ(AsNode(id)))}
<1> DEFINE C == {AsNode(c) : c \in closure[id]}
<1>1. /\ id \in DOMAIN spec
      /\ \A n \in Succ(AsNode(id)) : \E d \in SeqRange(deps[id]) : AsNode(d) = n
      /\ SeqRange(deps[id]) \subseteq closure[id]
      /\ closure[id] \subseteq DOMAIN final /\ closure[id] \subseteq DOMAIN spec
  BY DepsBelow
<1>2. Succ(AsNode(id)) \subseteq C
  BY <1>1
<1>3. ASSUME NEW c \in closure[id]
      PROVE  Succ(AsNode(c)) \subseteq C
  <2>1. c \in DOMAIN final
    BY <1>1
  <2>2. closure[c] \subseteq closure[id]
    BY <1>1 DEF Graph, Closed
  <2>3. \A n \in Succ(AsNode(c)) : \E d \in closure[c] : AsNode(d) = n
    BY <2>1, DepsBelow
  <2> QED BY <2>2, <2>3
<1>4. \A c \in closure[id] : IdOfNode(AsNode(c)) = c /\ AsNode(c) \in Reach(Succ(AsNode(id)))
  BY <1>1 DEF Graph, Closed, Known
<1> HIDE DEF C
<1>5. \A n \in C : Succ(n) \subseteq C
  BY <1>3 DEF C
<1>6. IsReach(Reach(Succ(AsNode(id))), Succ(AsNode(id)))
  BY <1>1, BelowNode DEF Graph
<1>7. Reach(Succ(AsNode(id))) \subseteq C
  BY <1>2, <1>5, <1>6 DEF IsReach
<1>8. \A n \in Reach(Succ(AsNode(id))) : \E c \in closure[id] : n = AsNode(c)
  BY <1>7 DEF C
<1> QED BY <1>4, <1>8

\* A run that is done had no reason to fail, and has all that is asked for.
LEMMA Verdict ==
  ASSUME repo \in Repos, NumbersOnly, IInv, Graph, Reason, status = "done"
  PROVE  LET nodes == Reach(Requested) \ {Unresolved}
         IN  /\ Unresolved \notin Reach(Requested)
             /\ ~ \E n \in nodes : n \in Reach(Succ(n))
             /\ ~ \E n \in nodes : NodeDeps(n) = <<>>
             /\ SeqRange(topo) = {IdOfNode(n) : n \in nodes}
<1> DEFINE C == {AsNode(i) : i \in DOMAIN final}
<1>1. todo = <<>> /\ DOMAIN final \subseteq DOMAIN spec /\ SeqRange(topo) = DOMAIN final
  BY DEF Reason, IInv, IdsHaveDirectories, Listed
<1>2. /\ request \in Requests
      /\ \A s \in SeqRange(request) : \E i \in DOMAIN final : AsNode(i) = NodeOf(s)
      /\ \A i \in DOMAIN final : AsNode(i) \in Reach(Requested)
  <2>1. SeqRange(todo) = {}
    BY <1>1 DEF SeqRange
  <2> QED BY <1>1, <2>1 DEF Graph, Asked
<1>3. Requested \subseteq C
  BY <1>2 DEF Requested
<1>4. \A i \in DOMAIN final : Succ(AsNode(i)) \subseteq C
  <2> TAKE i \in DOMAIN final
  <2>1. /\ \A n \in Succ(AsNode(i)) : \E d \in SeqRange(deps[i]) : AsNode(d) = n
        /\ SeqRange(deps[i]) \subseteq closure[i]
        /\ closure[i] \subseteq DOMAIN final
    BY DepsBelow
  <2> QED BY <2>1
<1> HIDE DEF C
<1>5. \A n \in C : Succ(n) \subseteq C
  BY <1>4 DEF C
<1>6. Reach(Requested) \subseteq C
  <2>1. IsReach(Reach(Requested), Requested)
    BY <1>2, BelowRequest
  <2> QED BY <1>3, <1>5, <2>1 DEF IsReach
<1>7. \A n \in Reach(Requested) : \E i \in DOMAIN final : n = AsNode(i)
  BY <1>6 DEF C
<1>8. \A i \in DOMAIN final : AsNode(i) # Unresolved /\ IdOfNode(AsNode(i)) = i
  <2>1. \A i \in DOMAIN final : AsNode(i) \in Nodes /\ IdOfNode(AsNode(i)) = i
    BY <1>1 DEF Graph, Known
  <2> QED BY <2>1, NodeParts
<1>9. ASSUME NEW i \in DOMAIN final, AsNode(i) \in Reach(Succ(AsNode(i)))
      PROVE  FALSE
  <2>1. i \in closure[i]
    BY <1>8, <1>9, ClosureReach
  <2>2. PICK k \in DOMAIN topo : topo[k] = i
    BY <1>1 DEF SeqRange
  <2>3. PICK j \in DOMAIN topo : j < k /\ topo[j] = i
    BY <2>1, <2>2 DEF IInv, TopoOrdered, Below
  <2>4. j = k
    BY <2>2, <2>3 DEF IInv, TopoOrdered
  <2>5. topo \in Seq(DOMAIN spec)
    BY DEF IInv, IdsHaveDirectories
  <2> QED BY <2>2, <2>3, <2>4, <2>5
<1>10. \A i \in DOMAIN final : NodeDeps(AsNode(i)) # <<>>
  BY DEF Graph, Whole
<1>11. SeqRange(topo) = {IdOfNode(n) : n \in Reach(Requested) \ {Unresolved}}
  <2> DEFINE I == {IdOfNode(n) : n \in Reach(Requested) \ {Unresolved}}
  <2>1. ASSUME NEW i \in DOMAIN final PROVE i \in I
    <3>1. AsNode(i) \in Reach(Requested) \ {Unresolved} /\ IdOfNode(AsNode(i)) = i
      BY <1>2, <1>8
    <3> QED BY <3>1
  <2>2. ASSUME NEW n \in Reach(Requested) PROVE IdOfNode(n) \in DOMAIN final
    BY <1>7, <1>8
  <2>3. I \subseteq DOMAIN final
    BY <2>2
  <2> QED BY <1>1, <2>1, <2>3
<1> QED BY <1>7, <1>8, <1>9, <1>10, <1>11

(***************************************************************************)
(* Theorem: the closure file of a finished node lists what can be reached  *)
(* from it, in every repository whose versions are numbers and whose ids   *)
(* differ.                                                                 *)
(***************************************************************************)
THEOREM ClosuresAreReachability ==
  ASSUME NumbersOnly, IdsDiffer
  PROVE  Spec => []ClosureIsReachability
<1>1. Sound /\ GInv => ClosureIsReachability
  BY ClosureReach DEF Sound, GInv, ClosureIsReachability, Current
<1>2. Init => Sound /\ GInv
  BY Initial, GraphInitial
<1>3. Sound /\ GInv /\ [Next]_vars => Sound' /\ GInv'
  BY Inductive, GraphInductive
<1> QED BY <1>1, <1>2, <1>3, PTL DEF Spec

(***************************************************************************)
(* Theorem: the command fails only for a reason that is there, and when it *)
(* succeeds there is none, and topo has just what can be reached.          *)
(***************************************************************************)
THEOREM VerdictsAreRight ==
  ASSUME NumbersOnly, IdsDiffer
  PROVE  Spec => []VerdictIsRight
<1>1. Sound /\ GInv => VerdictIsRight
  <2> SUFFICES ASSUME Sound, GInv PROVE VerdictIsRight
    OBVIOUS
  <2>1. CASE status \in {"unresolved", "cycle", "sort"}
    BY <2>1 DEF GInv, Reason, VerdictIsRight, Current, Settled
  <2>2. CASE status = "done"
    BY <2>2, Verdict DEF Sound, GInv, VerdictIsRight, Current, Settled
  <2> QED BY <2>1, <2>2 DEF VerdictIsRight
<1>2. Init => Sound /\ GInv
  BY Initial, GraphInitial
<1>3. Sound /\ GInv /\ [Next]_vars => Sound' /\ GInv'
  BY Inductive, GraphInductive
<1> QED BY <1>1, <1>2, <1>3, PTL DEF Spec

------------------------------------------------------------------------------
(* The recursion ends.                                                     *)

\* There are no more directories than nodes, and the innermost call, or the command,
\* has visited no more than it has to.
LEMMA DistanceIsNat ==
  ASSUME repo \in Repos, NumbersOnly, IInv, Graph
  PROVE  /\ IsFiniteSet(DOMAIN spec) /\ Cardinality(DOMAIN spec) \in Nat
         /\ RepoSize \in Nat /\ Cardinality(DOMAIN spec) <= RepoSize
         /\ RepoSize - Cardinality(DOMAIN spec) \in Nat
         /\ Len(stack) \in Nat /\ Ahead \in Nat
<1>1. IsFiniteSet(Universe) /\ Cardinality(Universe) <= RepoSize /\ RepoSize \in Nat
  BY UniverseFits
<1>2. IsFiniteSet(DOMAIN spec) /\ Cardinality(DOMAIN spec) <= Cardinality(Universe)
  <2> DEFINE node == [id \in DOMAIN spec |-> AsNode(id)]
  <2>1. \A id \in DOMAIN spec : AsNode(id) \in Universe /\ IdOfNode(AsNode(id)) = id
    BY DEF Graph, Known, Universe
  <2>2. node \in [DOMAIN spec -> Universe]
    BY <2>1
  <2>3. \A i, j \in DOMAIN spec : node[i] = node[j] => i = j
    BY <2>1
  <2>4. node \in Injection(DOMAIN spec, Universe)
    BY <2>2, <2>3 DEF Injection, IsInjective
  <2> HIDE DEF node
  <2> QED BY <1>1, <2>4, FS_Injection
<1>3. Cardinality(DOMAIN spec) \in Nat /\ Cardinality(Universe) \in Nat
  BY <1>1, <1>2, FS_CardinalityType
<1>4. RepoSize - Cardinality(DOMAIN spec) \in Nat /\ Cardinality(DOMAIN spec) <= RepoSize
  BY <1>1, <1>2, <1>3
<1>5. Len(stack) \in Nat
  BY DEF IInv, IdsHaveDirectories
<1>6. Ahead \in Nat
  <2>1. CASE stack = <<>>
    <3>1. todo \in Seq(SeqRange(request))
      BY DEF Graph, Asked
    <3> QED BY <2>1, <3>1 DEF Ahead
  <2>2. CASE stack # <<>>
    <3>1. Top \in DOMAIN spec /\ WordsOf(TopDeps) = Words(Top)
      BY <2>2, TopIs DEF IInv
    <3>2. Len(deps[Top]) \in Nat /\ Len(Words(Top)) \in Nat
      BY <3>1, BelowNode DEF IInv, IdsHaveDirectories, Graph
    <3>3. Len(deps[Top]) <= Len(Words(Top))
      BY <3>1 DEF Graph, Followed
    <3> QED BY <2>2, <3>1, <3>2, <3>3 DEF Ahead
  <2> QED BY <2>1, <2>2
<1> QED BY <1>1, <1>2, <1>3, <1>4, <1>5, <1>6

\* A call that returns at once has one word or argument less ahead.
LEMMA ReturnNearer ==
  ASSUME repo \in Repos, NumbersOnly, IInv, Graph, IInv', Graph', repo' \in Repos, NEW s, IsNext(s),
         NEW id \in DOMAIN spec, Return(stack, id), UNCHANGED <<repo, spec>>
  PROVE  Nearer(Distance', Distance)
<1>1. RepoSize' = RepoSize
  BY DEF RepoSize, Declared
<1>2. /\ RepoSize - Cardinality(DOMAIN spec) \in Nat
      /\ Len(stack) \in Nat /\ Ahead \in Nat
  BY DistanceIsNat
<1>3. stack' = stack /\ spec' = spec
  BY DEF Return
<1>4. Ahead' < Ahead
  <2>1. CASE stack = <<>>
    <3>1. todo # <<>> /\ todo' = Tail(todo) /\ todo \in Seq(SeqRange(request))
      BY <2>1 DEF IsNext, Return, Graph, Asked
    <3>2. Len(todo') < Len(todo)
      BY <3>1
    <3> QED BY <1>3, <2>1, <3>2 DEF Ahead
  <2>2. CASE stack # <<>>
    <3>1. Top \in DOMAIN spec /\ WordsOf(TopDeps) = Words(Top)
      BY <2>2, TopIs DEF IInv
    <3>2. Len(deps[Top]) \in Nat /\ Len(Words(Top)) \in Nat /\ deps[Top] \in Seq(DOMAIN spec)
      BY <3>1, BelowNode DEF IInv, IdsHaveDirectories, Graph
    <3>3. deps'[Top] = Append(deps[Top], id)
      BY <2>2, <3>1 DEF Return, Top, IInv, IdsHaveDirectories
    <3>4. Len(deps'[Top]) = Len(deps[Top]) + 1
      BY <3>2, <3>3
    <3>5. Top' = Top /\ TopDeps' = TopDeps
      BY <1>3, <3>1 DEF Top, TopDeps, RecipeDeps
    <3>6. WordsOf(TopDeps)' = Words(Top)
      BY <3>1, <3>5 DEF WordsOf
    <3>7. Ahead = Len(Words(Top)) - Len(deps[Top]) /\ Ahead' = Len(Words(Top)) - Len(deps'[Top])
      BY <1>3, <2>2, <3>1, <3>5, <3>6 DEF Ahead
    <3> QED BY <3>2, <3>4, <3>7
  <2> QED BY <2>1, <2>2
<1>5. /\ Distance[1] = RepoSize - Cardinality(DOMAIN spec) /\ Distance[2] = Len(stack) /\ Distance[3] = Ahead
      /\ Distance'[1] = Distance[1] /\ Distance'[2] = Distance[2] /\ Distance'[3] = Ahead'
  BY <1>1, <1>3 DEF Distance
<1> QED BY <1>4, <1>5 DEF Nearer

\* A new directory leaves one node less without.
LEMMA OpenNearer ==
  ASSUME repo \in Repos, NumbersOnly, IInv, Graph, NEW id, id \notin DOMAIN spec, NEW node, OpenNode(id, node)
  PROVE  Nearer(Distance', Distance)
<1>1. RepoSize' = RepoSize
  BY DEF OpenNode, RepoSize, Declared
<1>2. /\ IsFiniteSet(DOMAIN spec) /\ Cardinality(DOMAIN spec) \in Nat /\ RepoSize \in Nat
  BY DistanceIsNat
<1>3. DOMAIN spec' = DOMAIN spec \cup {id}
  BY DEF OpenNode
<1>4. Cardinality(DOMAIN spec') = Cardinality(DOMAIN spec) + 1
  BY <1>2, <1>3, FS_AddElement
<1>5. RepoSize' - Cardinality(DOMAIN spec') < RepoSize - Cardinality(DOMAIN spec)
  BY <1>1, <1>2, <1>4
<1>6. Distance[1] = RepoSize - Cardinality(DOMAIN spec) /\ Distance'[1] = RepoSize' - Cardinality(DOMAIN spec')
  BY DEF Distance
<1> QED BY <1>5, <1>6 DEF Nearer

\* A finished call is one call less.
LEMMA FinishNearer ==
  ASSUME IInv, FinishNode
  PROVE  Nearer(Distance', Distance)
<1>1. RepoSize' = RepoSize /\ spec' = spec
  BY DEF FinishNode, RepoSize, Declared
<1>2. stack \in Seq(DOMAIN spec) /\ stack # <<>>
  BY DEF FinishNode, IInv, IdsHaveDirectories
<1>3. stack' = SubSeq(stack, 1, Len(stack) - 1)
  BY DEF FinishNode, Return
<1>4. Len(stack) # 0 /\ Len(stack) \in Nat
  BY <1>2
<1>5. Len(stack') = Len(stack) - 1
  <2>1. \E t \in Seq(DOMAIN spec) : t = SubSeq(stack, 1, Len(stack) - 1) /\ Len(t) = Len(stack) - 1
    BY <1>2, <1>4, Front
  <2> QED BY <1>3, <2>1
<1>6. Distance[1] = Distance'[1] /\ Distance[2] = Len(stack) /\ Distance'[2] = Len(stack')
  BY <1>1 DEF Distance
<1>7. Len(stack') < Len(stack)
  BY <1>4, <1>5
<1> QED BY <1>6, <1>7 DEF Nearer

\* Every step of a run that goes on is one of these.
LEMMA StepNearer ==
  ASSUME NumbersOnly, IdsDiffer, Sound, GInv, Sound', GInv', [Next]_vars, ~UNCHANGED vars,
         status = "run", status' = "run"
  PROVE  Nearer(Distance', Distance)
<1>0. repo \in Repos /\ repo' \in Repos /\ Graph /\ Graph' /\ IInv /\ IInv'
  BY DEF GInv, Sound, Current, Settled
<1>1. ASSUME NEW s, IsNext(s), visit(s) PROVE Nearer(Distance', Distance)
  <2> DEFINE pick == Resolved(s)
             id   == IdOf(s.name, pick.version)
             node == [name |-> s.name, version |-> pick.version, kind |-> pick.kind]
  <2>1. \/ id \in DOMAIN final /\ Return(stack, id) /\ UNCHANGED <<repo, spec>>
        \/ id \notin DOMAIN spec /\ OpenNode(id, node)
    BY <1>1 DEF visit, Fail, Done
  <2> HIDE DEF id, node
  <2>2. CASE id \in DOMAIN final /\ Return(stack, id) /\ UNCHANGED <<repo, spec>>
    <3>1. id \in DOMAIN spec
      BY <1>0, <2>2 DEF IInv, IdsHaveDirectories
    <3> QED BY <1>0, <1>1, <2>2, <3>1, ReturnNearer
  <2>3. CASE id \notin DOMAIN spec /\ OpenNode(id, node)
    BY <1>0, <2>3, OpenNearer
  <2> QED BY <2>1, <2>2, <2>3
<1>2. CASE VisitRoot
  BY <1>1, <1>2 DEF VisitRoot, IsNext
<1>3. CASE VisitDep
  <2>1. stack # <<>> /\ TopNext <= Len(WordsOf(TopDeps)) /\ visit(TopDeps[TopNext])
    BY <1>3 DEF VisitDep
  <2>2. IsNext(TopDeps[TopNext])
    BY <1>0, <2>1, DepIsNext DEF IInv
  <2> QED BY <1>1, <2>1, <2>2
<1>4. CASE FinishNode
  BY <1>0, <1>4, FinishNearer
<1>5. /\ ~cmd_concretize /\ ~RemoveSpec /\ ~RemoveFiles /\ \A req \in Requests : ~Begin(req)
      /\ ~SortFails /\ ~EmitIndex /\ ~AppendLine /\ ~EmitDagmk /\ ~WriteRule /\ ~Conclude
      /\ ~Interrupt /\ ~Edit
  BY DEF cmd_concretize, RemoveSpec, RemoveFiles, Begin, SortFails, Fail, EmitIndex, AppendLine,
     EmitDagmk, WriteRule, Conclude, Interrupt, Edit, Running, Failures
<1> QED BY <1>2, <1>3, <1>4, <1>5 DEF Next, Step

(***************************************************************************)
(* Theorem: every step of a run brings it nearer to its end, in every      *)
(* repository, cyclic ones included: a run has finitely many steps.        *)
(***************************************************************************)
THEOREM RunsEnd ==
  ASSUME NumbersOnly, IdsDiffer
  PROVE  Spec => RunsDown
<1> DEFINE Fits == status = "run" => Distance \in Nat \X Nat \X Nat
           Nears == status' = "run" => /\ Distance' \in Nat \X Nat \X Nat
                                       /\ status = "run" => Nearer(Distance', Distance)
<1>1. Sound /\ GInv => Fits
  <2> SUFFICES ASSUME Sound, GInv, status = "run" PROVE Distance \in Nat \X Nat \X Nat
    OBVIOUS
  <2>1. repo \in Repos /\ Graph /\ IInv
    BY DEF GInv, Sound, Current, Settled
  <2>2. RepoSize - Cardinality(DOMAIN spec) \in Nat /\ Len(stack) \in Nat /\ Ahead \in Nat
    BY <2>1, DistanceIsNat
  <2> QED BY <2>2 DEF Distance
<1>2. Init => Sound /\ GInv
  BY Initial, GraphInitial
<1>3. Sound /\ GInv /\ [Next]_vars => Sound' /\ GInv'
  BY Inductive, GraphInductive
<1>4. Sound /\ GInv /\ Sound' /\ GInv' /\ Fits' /\ [Next]_vars => [Nears]_vars
  <2> SUFFICES ASSUME Sound, GInv, Sound', GInv', Fits', [Next]_vars, ~UNCHANGED vars PROVE Nears
    OBVIOUS
  <2>1. status' = "run" => Distance' \in Nat \X Nat \X Nat
    OBVIOUS
  <2>2. status' = "run" /\ status = "run" => Nearer(Distance', Distance)
    BY StepNearer
  <2> QED BY <2>1, <2>2
<1>5. Spec => [][Nears]_vars
  BY <1>1, <1>2, <1>3, <1>4, PTL DEF Spec
<1> QED BY <1>5 DEF RunsDown

------------------------------------------------------------------------------
(* The makefile.                                                           *)

\* What make reaches from a rule: R has the stamps of the built nodes among C.
Stamps(C) == {stamp_of(c) : c \in Built(C)}

\* The rules of dag.mk.
LEMMA RulesAre ==
  ASSUME repo \in Repos, NumbersOnly, IInv, Graph, Ruled, Unruled = {}
  PROVE  /\ DOMAIN dag.rules = Built(SeqRange(topo))
         /\ \A e \in Built(SeqRange(topo)) :
              /\ dag.rules[e].stamp = stamp_of(e)
              /\ dag.rules[e].prereqs = Stamps(SeqRange(deps[e]))
              /\ e \in DOMAIN final
              /\ Built(SeqRange(deps[e])) \subseteq Built(SeqRange(topo))
         /\ \A c, d : stamp_of(c) = stamp_of(d) => c = d
<1>1. \A e \in Built(SeqRange(topo)) : e \in DOMAIN final
  BY DEF IInv, Listed, Built
<1>2. DOMAIN dag.rules = Built(SeqRange(topo))
  BY DEF Ruled, Unruled
<1>3. ASSUME NEW e \in Built(SeqRange(topo))
      PROVE  dag.rules[e].stamp = stamp_of(e) /\ dag.rules[e].prereqs = Stamps(SeqRange(deps[e]))
  <2>1. dag.rules[e] = Rule(e)
    BY <1>2 DEF Ruled
  <2>2. Rule(e).stamp = stamp_of(e) /\ Rule(e).prereqs = Stamps(SeqRange(deps[e]))
    BY DEF Rule, Stamps
  <2> QED BY <2>1, <2>2
<1>4. \A e \in Built(SeqRange(topo)) : SeqRange(deps[e]) \subseteq SeqRange(topo)
  BY <1>1, DepsBelow DEF IInv, Listed
<1>5. \A c, d : stamp_of(c) = stamp_of(d) => c = d
  BY DEF stamp_of
<1> QED BY <1>1, <1>2, <1>3, <1>4, <1>5 DEF Built

\* There are no more stamps than lines in topo.
LEMMA StampsFit ==
  ASSUME IdsHaveDirectories
  PROVE  /\ IsFiniteSet(Stamps(SeqRange(topo))) /\ Len(topo) \in Nat
         /\ Cardinality(Stamps(SeqRange(topo))) <= Len(topo)
<1> DEFINE m == Len(topo)
           V == {stamp_of(topo[i]) : i \in 1..m}
           f == [i \in 1..m |-> stamp_of(topo[i])]
           U == Stamps(SeqRange(topo))
<1>1. m \in Nat /\ DOMAIN topo = 1..m
  BY DEF IdsHaveDirectories
<1>2. U \subseteq V
  BY <1>1 DEF Stamps, Built, SeqRange
<1>3. f \in Surjection(1..m, V)
  BY DEF Surjection
<1> HIDE DEF m, V, f, U
<1>4. IsFiniteSet(1..m) /\ Cardinality(1..m) = m
  BY <1>1, FS_Interval
<1>5. IsFiniteSet(V) /\ Cardinality(V) <= m
  BY <1>3, <1>4, FS_Surjection
<1>6. IsFiniteSet(U) /\ Cardinality(U) <= Cardinality(V)
  BY <1>2, <1>5, FS_Subset
<1>7. Cardinality(U) \in Nat /\ Cardinality(V) \in Nat
  BY <1>5, <1>6, FS_CardinalityType
<1> QED BY <1>1, <1>5, <1>6, <1>7 DEF m, U

\* A set with the stamps of the dependencies of id, and with those of every node
\* it has, has those of its closure.
LEMMA StampsReach ==
  ASSUME repo \in Repos, NumbersOnly, IInv, Graph, NEW id \in DOMAIN final,
         NEW R, Stamps(SeqRange(deps[id])) \subseteq R,
         \A c \in Built(closure[id]) :
           stamp_of(c) \in R => Stamps(SeqRange(deps[c])) \subseteq R
  PROVE  Stamps(closure[id]) \subseteq R
<1> DEFINE Has(c) == spec[c].kind = "built" => stamp_of(c) \in R
           C == {AsNode(c) : c \in {d \in closure[id] : Has(d)}}
<1>1. /\ id \in DOMAIN spec
      /\ \A n \in Succ(AsNode(id)) : \E d \in SeqRange(deps[id]) : AsNode(d) = n
      /\ SeqRange(deps[id]) \subseteq closure[id]
      /\ closure[id] \subseteq DOMAIN final /\ closure[id] \subseteq DOMAIN spec
  BY DepsBelow
<1>2. \A d \in SeqRange(deps[id]) : Has(d)
  BY DEF Stamps, Built
<1>3. Succ(AsNode(id)) \subseteq C
  BY <1>1, <1>2
<1>4. ASSUME NEW c \in closure[id], Has(c)
      PROVE  Succ(AsNode(c)) \subseteq C
  <2>1. c \in DOMAIN final /\ closure[c] \subseteq closure[id]
    BY <1>1 DEF Graph, Closed
  <2>2. /\ \A n \in Succ(AsNode(c)) : \E d \in SeqRange(deps[c]) : AsNode(d) = n
        /\ SeqRange(deps[c]) \subseteq closure[c]
    BY <2>1, DepsBelow
  <2>3. AsNode(c) \in Nodes
    BY <1>1 DEF Graph, Known
  <2>4. CASE spec[c].kind = "built"
    <3>1. Stamps(SeqRange(deps[c])) \subseteq R
      BY <1>4, <2>4 DEF Built
    <3>2. \A d \in SeqRange(deps[c]) : Has(d)
      BY <3>1 DEF Stamps, Built
    <3> QED BY <2>1, <2>2, <3>2
  <2>5. CASE spec[c].kind # "built"
    <3>1. AsNode(c).kind = "external" /\ AsNode(c) # Unresolved /\ AsNode(c) \in Universe
      <4>1. AsNode(c).kind = spec[c].kind
        BY DEF AsNode
      <4> QED BY <2>3, <2>5, <4>1, NodeParts DEF Universe
    <3>2. WordsOf(NodeDeps(AsNode(c))) = <<>>
          /\ Succ(AsNode(c)) = {NodeOf(s) : s \in SeqRange(WordsOf(NodeDeps(AsNode(c))))}
      BY <3>1, SuccIn
    <3>3. Succ(AsNode(c)) = {}
      BY <3>2 DEF SeqRange
    <3> QED BY <3>3
  <2> QED BY <2>4, <2>5
<1> HIDE DEF C
<1>5. \A n \in C : Succ(n) \subseteq C
  BY <1>4 DEF C
<1>6. Reach(Succ(AsNode(id))) \subseteq C
  <2>1. IsReach(Reach(Succ(AsNode(id))), Succ(AsNode(id)))
    BY <1>1, BelowNode DEF Graph
  <2> QED BY <1>3, <1>5, <2>1 DEF IsReach
<1>7. ASSUME NEW c \in Built(closure[id])
      PROVE  stamp_of(c) \in R
  <2>1. c \in closure[id] /\ spec[c].kind = "built"
    BY DEF Built
  <2>2. AsNode(c) \in C
    BY <1>1, <1>6, <2>1 DEF Graph, Closed
  <2>3. PICK d \in closure[id] : Has(d) /\ AsNode(d) = AsNode(c)
    BY <2>2 DEF C
  <2>4. d = c
    BY <1>1, <2>1, <2>3 DEF Graph, Known
  <2> QED BY <2>1, <2>3, <2>4
<1> QED BY <1>7 DEF Stamps

\* What make reaches from the rule of a node are the stamps of its closure.
LEMMA Prereqs ==
  ASSUME repo \in Repos, NumbersOnly, IInv, Graph, Ruled, Unruled = {},
         NEW id \in DOMAIN dag.rules
  PROVE  LET After(S) == S \cup UNION {dag.rules[d].prereqs :
                        d \in {e \in DOMAIN dag.rules : dag.rules[e].stamp \in S}}
             reach[k \in 0..Len(topo)] ==
               IF k = 0 THEN dag.rules[id].prereqs ELSE After(reach[k - 1])
         IN  /\ reach[Len(topo)] = {stamp_of(c) : c \in Built(closure[id])}
             /\ \A c \in Built(closure[id]) : c \in DOMAIN dag.rules
<1> DEFINE m == Len(topo)
           ids == Built(SeqRange(topo))
           N == dag.rules[id].prereqs
           U == Stamps(SeqRange(topo))
           D == SUBSET U
           After(S) == S \cup UNION {dag.rules[d].prereqs :
                        d \in {e \in DOMAIN dag.rules : dag.rules[e].stamp \in S}}
           Is(f) == f = [k \in 0..m |-> IF k = 0 THEN N ELSE After(f[k - 1])]
           reach == CHOOSE f : Is(f)
<1>1. /\ DOMAIN dag.rules = ids
      /\ \A e \in ids : /\ dag.rules[e].stamp = stamp_of(e)
                        /\ dag.rules[e].prereqs = Stamps(SeqRange(deps[e]))
                        /\ e \in DOMAIN final
                        /\ Built(SeqRange(deps[e])) \subseteq ids
      /\ \A c, d : stamp_of(c) = stamp_of(d) => c = d
  BY RulesAre
<1>2. m \in Nat /\ IsFiniteSet(U) /\ Cardinality(U) <= m
  BY StampsFit DEF IInv
<1> DEFINE succ == [t \in U |-> UNION {dag.rules[e].prereqs :
                                         e \in {d \in ids : stamp_of(d) = t}}]
<1>3. \A e \in ids : stamp_of(e) \in U /\ succ[stamp_of(e)] = dag.rules[e].prereqs
                     /\ dag.rules[e].prereqs \subseteq U
  <2> TAKE e \in ids
  <2>1. stamp_of(e) \in U
    BY DEF Stamps
  <2>2. {d \in ids : stamp_of(d) = stamp_of(e)} = {e}
    BY <1>1
  <2>3. dag.rules[e].prereqs \subseteq U
    BY <1>1 DEF Stamps
  <2>4. succ[stamp_of(e)] = UNION {dag.rules[d].prereqs : d \in {e}}
    BY <2>1, <2>2
  <2> QED BY <2>1, <2>3, <2>4
<1>4. \A t \in U : \E e \in ids : t = stamp_of(e)
  BY DEF Stamps
<1>5. N \in D /\ succ \in [U -> SUBSET U]
  <2>1. \A t \in U : succ[t] \in SUBSET U
    BY <1>3, <1>4
  <2> QED BY <1>1, <1>3, <2>1
<1> HIDE DEF ids, succ
<1>6. ASSUME NEW S \in D
      PROVE  After(S) = S \cup UNION {succ[t] : t \in S} /\ After(S) \in D
  <2>1. After(S) \subseteq S \cup UNION {succ[t] : t \in S}
    BY <1>1, <1>3
  <2>2. S \cup UNION {succ[t] : t \in S} \subseteq After(S)
    BY <1>1, <1>3, <1>4
  <2>3. S \cup UNION {succ[t] : t \in S} \subseteq U
    BY <1>5
  <2> QED BY <2>1, <2>2, <2>3
<1> HIDE DEF m, U, N, After
<1>7. Is(reach)
  <2> DEFINE F == [i \in 1..m |-> [x \in D |-> After(x)]]
  <2>1. \A i \in 1..m, x \in D : F[i][x] = After(x)
    OBVIOUS
  <2> HIDE DEF F, D
  <2>2. IsStep(F, m, D)
    BY <1>6, <2>1 DEF IsStep
  <2>3. PICK g : Iterates(g, F, m, D, N)
    BY <1>2, <1>5, <2>2, Recursion
  <2>4. /\ g \in [0..m -> D] /\ g[0] = N
        /\ \A i \in 1..m : g[i] = F[i][g[i - 1]]
    BY <2>3 DEF Iterates
  <2>5. ASSUME NEW i \in 1..m
        PROVE  g[i] = After(g[i - 1])
    <3>1. i - 1 \in 0..m
      BY <1>2
    <3>2. g[i - 1] \in D
      BY <2>4, <3>1
    <3> QED BY <2>1, <2>4, <3>2
  <2>6. \A i \in 0..m : i = 0 \/ i \in 1..m
    BY <1>2
  <2>7. g = [i \in 0..m |-> g[i]]
    BY <2>4
  <2>8. \A i \in 0..m : g[i] = IF i = 0 THEN N ELSE After(g[i - 1])
    BY <2>4, <2>5, <2>6
  <2>9. Is(g)
    BY <2>7, <2>8
  <2> QED BY <2>9
<1>8. reach[0] = N /\ \A i \in 1..m : reach[i] = After(reach[i - 1])
  <2>1. 0 \in 0..m /\ \A i \in 1..m : i \in 0..m /\ i # 0
    BY <1>2
  <2> HIDE DEF reach
  <2> QED BY <1>7, <2>1
<1> HIDE DEF reach
<1>9. \A i \in 0..m : reach[i] \in D
  <2> DEFINE T == {i \in 0..m : reach[i] \in D}
  <2>1. 0 \in T
    BY <1>2, <1>5, <1>8
  <2>2. ASSUME NEW k \in 0..(m - 1), k \in T PROVE k + 1 \in T
    <3>1. k + 1 \in 1..m /\ k + 1 \in 0..m /\ (k + 1) - 1 = k
      BY <1>2
    <3>2. reach[k + 1] = After(reach[k])
      BY <1>8, <3>1
    <3> QED BY <1>6, <2>2, <3>1, <3>2
  <2> HIDE DEF T
  <2>3. \A k \in 0..m : k \in T
    BY <1>2, <2>1, <2>2, UpToSet
  <2> QED BY <2>3 DEF T
<1>10. Closes(reach[m], succ, N, U)
  <2>1. ASSUME NEW i \in 1..m
        PROVE  reach[i] = reach[i - 1] \cup UNION {succ[t] : t \in reach[i - 1]}
    <3>1. i - 1 \in 0..m
      BY <1>2
    <3> QED BY <1>6, <1>8, <1>9, <3>1
  <2>2. Collects(reach, succ, N, m)
    BY <1>8, <2>1 DEF Collects
  <2> QED BY <1>2, <1>5, <2>2, Closing
<1>11. /\ id \in ids /\ id \in DOMAIN final /\ N = Stamps(SeqRange(deps[id]))
       /\ SeqRange(deps[id]) \subseteq closure[id] /\ closure[id] \subseteq SeqRange(topo)
       /\ id \in DOMAIN spec
  <2>1. id \in ids /\ id \in DOMAIN final /\ N = Stamps(SeqRange(deps[id]))
    BY <1>1 DEF N
  <2> QED BY <2>1, DepsBelow DEF IInv, Listed
<1>12. Built(closure[id]) \subseteq ids
  BY <1>11 DEF ids, Built
<1>13. reach[m] \subseteq Stamps(closure[id])
  <2>1. N \subseteq Stamps(closure[id])
    BY <1>11 DEF Stamps, Built
  <2>2. ASSUME NEW c \in Built(closure[id])
        PROVE  succ[stamp_of(c)] \subseteq Stamps(closure[id])
    <3>1. c \in ids /\ c \in DOMAIN final /\ c \in closure[id]
      BY <1>1, <1>12 DEF Built
    <3>2. SeqRange(deps[c]) \subseteq closure[c] /\ closure[c] \subseteq closure[id]
      BY <1>11, <3>1, DepsBelow DEF Graph, Closed
    <3>3. succ[stamp_of(c)] = Stamps(SeqRange(deps[c]))
      BY <1>1, <1>3, <3>1
    <3> QED BY <3>2, <3>3 DEF Stamps, Built
  <2>3. \A t \in Stamps(closure[id]) : succ[t] \subseteq Stamps(closure[id])
    BY <2>2 DEF Stamps
  <2> QED BY <1>10, <2>1, <2>3 DEF Closes
<1>14. Stamps(closure[id]) \subseteq reach[m]
  <2>1. N \subseteq reach[m]
    BY <1>10 DEF Closes
  <2>2. ASSUME NEW c \in Built(closure[id]), stamp_of(c) \in reach[m]
        PROVE  Stamps(SeqRange(deps[c])) \subseteq reach[m]
    <3>1. succ[stamp_of(c)] = Stamps(SeqRange(deps[c]))
      BY <1>1, <1>3, <1>12
    <3> QED BY <1>10, <2>2, <3>1 DEF Closes
  <2> QED BY <1>11, <2>1, <2>2, StampsReach
<1>15. reach[m] = {stamp_of(c) : c \in Built(closure[id])}
  BY <1>13, <1>14 DEF Stamps
<1> QED BY <1>1, <1>12, <1>15 DEF reach, m, N, After

(***************************************************************************)
(* Theorem: direct prerequisites are enough for make: the stamps it        *)
(* reaches from a rule are those of the built part of the closure, and     *)
(* each has a rule.                                                        *)
(***************************************************************************)
THEOREM MakeSuppliesTransitivity ==
  ASSUME NumbersOnly, IdsDiffer
  PROVE  Spec => []PrereqsSupplyClosure
<1>1. Sound /\ Written /\ GInv => PrereqsSupplyClosure
  <2> SUFFICES ASSUME Sound, Written, GInv, status = "done" PROVE PrereqsSupplyClosure
    BY DEF PrereqsSupplyClosure
  <2>1. repo \in Repos /\ Graph /\ IInv /\ Ruled /\ Unruled = {}
    BY DEF Sound, Written, GInv, Current, Settled
  <2> QED BY <2>1, Prereqs DEF PrereqsSupplyClosure
<1>2. Init => Sound /\ Written /\ GInv
  BY Initial, GraphInitial DEF Init, Written, Named, Nothing, Settled
<1>3. Sound /\ Written /\ GInv /\ [Next]_vars => Sound' /\ Written' /\ GInv'
  BY Inductive, WrittenInductive, GraphInductive
<1> QED BY <1>1, <1>2, <1>3, PTL DEF Spec

------------------------------------------------------------------------------
(* What is written for a finished node.                                    *)

\* What was written for a finished node is what would be written for it now.
Recorded == \A id \in DOMAIN final : final[id] = Finished(id)
\* It holds from when a run visits until the next one, or an edit.
RInv == Current => Recorded

\* A step that keeps the repository and what is known of the finished nodes.
LEMMA FinishedStays ==
  ASSUME UNCHANGED repo, NEW id, spec'[id] = spec[id], deps'[id] = deps[id],
         \A d \in SeqRange(deps[id]) : spec'[d] = spec[d] /\ final'[d] = final[d]
  PROVE  Finished(id)' = Finished(id)
<1>1. SeqRange(deps[id])' = SeqRange(deps[id])
  BY DEF SeqRange
<1> DEFINE E == {<<spec[d].name, spec[d].version, final[d].hash>> : d \in SeqRange(deps[id])}
<1>2. E' = E
  BY <1>1
<1>3. \A n, v : ExternalPrefix(n, v)' = ExternalPrefix(n, v)
  BY DEF ExternalPrefix, Among, SeqRange
<1> DEFINE n == spec[id].name
           v == spec[id].version
<1>4. n' = n /\ v' = v /\ spec'[id].kind = spec[id].kind /\ repo' = repo
  OBVIOUS
<1>5. spec_sources(repo.recipe[n], v)' = spec_sources(repo.recipe[n], v)
      /\ Hash(repo.recipe[n])' = Hash(repo.recipe[n])
  BY <1>4
<1>6. Manifest(id)' = Manifest(id)
  <2> DEFINE x == [package |-> n, version |-> v, prefix |-> ExternalPrefix(n, v)]
             y == [package |-> n, version |-> v, arch |-> Arch,
                   sources |-> spec_sources(repo.recipe[n], v),
                   files   |-> Hash(repo.recipe[n]), deps |-> E]
  <2>1. x' = x
    BY <1>3, <1>4
  <2> HIDE DEF E
  <2>2. y' = y
    BY <1>2, <1>4, <1>5
  <2>3. Manifest(id) = IF spec[id].kind = "external" THEN x ELSE y
    BY DEF Manifest, E
  <2>4. Manifest(id)' = IF spec'[id].kind = "external" THEN x' ELSE y'
    BY DEF Manifest, E
  <2> HIDE DEF x, y
  <2> QED BY <1>4, <2>1, <2>2, <2>3, <2>4
<1> QED BY <1>3, <1>6 DEF Finished

\* A step that keeps the finished nodes.
LEMMA RecordedStays ==
  ASSUME IInv, Recorded, UNCHANGED repo,
         \A i \in DOMAIN spec : spec'[i] = spec[i],
         \A i \in DOMAIN final : deps'[i] = deps[i] /\ final'[i] = final[i],
         DOMAIN final' = DOMAIN final
  PROVE  Recorded'
<1>1. DOMAIN final \subseteq DOMAIN spec
  BY DEF IInv, IdsHaveDirectories
<1>2. \A i \in DOMAIN final : SeqRange(deps[i]) \subseteq DOMAIN final
  BY <1>1 DEF IInv, BelowDone, Below
<1>3. \A i \in DOMAIN final : Finished(i)' = Finished(i)
  BY <1>1, <1>2, FinishedStays
<1> QED BY <1>3 DEF Recorded

\* What was written for the finished nodes is an invariant.
LEMMA RecordedInductive ==
  ASSUME Sound, RInv, [Next]_vars
  PROVE  RInv'
<1> SUFFICES ASSUME Current' PROVE Recorded'
  BY DEF RInv
<1>1. ASSUME NEW req \in Requests, Begin(req) PROVE Recorded'
  <2>1. DOMAIN final' = {}
    BY <1>1 DEF Begin, Removed, Sound, Removing, Settled, dirs
  <2> QED BY <2>1 DEF Recorded
<1>a. ~cmd_concretize /\ ~RemoveSpec /\ ~RemoveFiles /\ ~Edit
  BY DEF cmd_concretize, RemoveSpec, RemoveFiles, Edit, Current, Settled
<1>b. CASE ~Current
  <2>1. status = "removing" \/ status = "half-removed" \/ status = "idle"
    BY <1>b DEF Current, Settled
  <2>2. ~VisitRoot /\ ~VisitDep /\ ~SortFails /\ ~FinishNode /\ ~EmitIndex /\ ~AppendLine
        /\ ~EmitDagmk /\ ~WriteRule /\ ~Conclude
    BY <2>1 DEF VisitRoot, VisitDep, SortFails, FinishNode, EmitIndex, AppendLine, EmitDagmk,
       WriteRule, Conclude
  <2>3. ~Interrupt /\ ~UNCHANGED vars
    BY <2>1 DEF Interrupt, Fail, Running, vars, Current, Settled
  <2> QED BY <1>1, <1>a, <2>2, <2>3 DEF Next, Step
<1> SUFFICES ASSUME Current PROVE Recorded'
  BY <1>b
<1>c. IInv /\ Recorded
  BY DEF Sound, RInv, Current
<1>0. DOMAIN final \subseteq DOMAIN spec
      /\ deps \in [DOMAIN spec -> Seq(DOMAIN spec)] /\ closure \in [DOMAIN spec -> SUBSET DOMAIN spec]
      /\ \A k \in DOMAIN stack : stack[k] \notin DOMAIN final
  BY <1>c DEF IInv, IdsHaveDirectories, Open, Done
<1>2. ASSUME NEW calls, NEW id, Return(calls, id),
             calls = <<>> \/ calls[Len(calls)] \notin DOMAIN final
      PROVE  \A i \in DOMAIN final : deps'[i] = deps[i]
  BY <1>0, <1>2 DEF Return
<1>3. ASSUME NEW s, status = "run", visit(s) PROVE Recorded'
  <2>2. CASE UNCHANGED <<repo, spec, final, deps>>
    BY <1>c, <2>2, RecordedStays
  <2>3. CASE \E id : Return(stack, id) /\ UNCHANGED <<repo, spec, final>>
    <3>1. stack = <<>> \/ stack[Len(stack)] \notin DOMAIN final
      <4>1. stack # <<>> => Len(stack) \in DOMAIN stack
        BY <1>c DEF IInv, IdsHaveDirectories
      <4> QED BY <1>0, <4>1
    <3>2. \A i \in DOMAIN final : deps'[i] = deps[i]
      BY <1>2, <2>3, <3>1
    <3> QED BY <1>c, <2>3, <3>2, RecordedStays
  <2>4. CASE \E id, node : id \notin DOMAIN spec /\ OpenNode(id, node)
    <3>1. /\ \A i \in DOMAIN spec : spec'[i] = spec[i] /\ deps'[i] = deps[i]
          /\ repo' = repo /\ final' = final
      BY <1>0, <2>4 DEF OpenNode
    <3> QED BY <1>0, <1>c, <3>1, RecordedStays
  <2> QED BY <1>3, <2>2, <2>3, <2>4 DEF visit, Fail, dirs
<1>4. CASE VisitRoot \/ VisitDep
  BY <1>3, <1>4 DEF VisitRoot, VisitDep
<1>5. CASE \/ SortFails \/ Interrupt \/ EmitIndex \/ AppendLine \/ EmitDagmk \/ WriteRule \/ Conclude
           \/ UNCHANGED vars
  <2>1. UNCHANGED <<repo, spec, final, deps>>
    BY <1>5 DEF SortFails, Interrupt, EmitIndex, AppendLine, EmitDagmk, WriteRule, Conclude, Fail,
       dirs, vars
  <2> QED BY <1>c, <2>1, RecordedStays
<1>8. CASE FinishNode
  <2>1. PICK id \in DOMAIN spec :
          id = Top /\ id \notin DOMAIN final /\ Len(stack) \in DOMAIN stack /\ id = stack[Len(stack)]
          /\ stack \in Seq(DOMAIN spec) /\ Len(stack) \in Nat \ {0}
    BY <1>8, <1>c DEF FinishNode, IInv, IdsHaveDirectories, Open, Done, Top
  <2>2. PICK calls \in Seq(DOMAIN spec) :
        /\ calls = SubSeq(stack, 1, Len(stack) - 1)
        /\ Len(calls) = Len(stack) - 1
        /\ \A k \in DOMAIN calls : k \in DOMAIN stack /\ k # Len(stack) /\ calls[k] = stack[k]
    <3>1. Len(stack) # 0
      BY <2>1
    <3>2. stack \in Seq(DOMAIN spec)
      BY <2>1
    <3> QED BY <3>1, <3>2, Front, Zenon
  <2>3. /\ final' = [i \in DOMAIN final \cup {id} |-> IF i = id THEN Finished(id) ELSE final[i]]
        /\ Return(calls, id) /\ repo' = repo /\ spec' = spec /\ status = "run"
    BY <1>8, <2>1, <2>2 DEF FinishNode
  <2>4. calls = <<>> \/ (calls[Len(calls)] \notin DOMAIN final /\ calls[Len(calls)] # id)
    <3>1. calls # <<>> => Len(calls) \in DOMAIN calls
      OBVIOUS
    <3> QED BY <1>0, <1>c, <2>1, <2>2, <3>1 DEF IInv, Open
  <2>5. \A i \in DOMAIN final \cup {id} : deps'[i] = deps[i]
    BY <1>0, <2>3, <2>4 DEF Return
  <2>6. \A i \in DOMAIN final \cup {id} : SeqRange(deps[i]) \subseteq DOMAIN final
    BY <1>0, <1>c DEF IInv, BelowDone, Below
  <2>7. \A i \in DOMAIN final : final'[i] = final[i]
    BY <2>1, <2>3
  <2>8. \A i \in DOMAIN final \cup {id} : Finished(i)' = Finished(i)
    BY <2>3, <2>5, <2>6, <2>7, FinishedStays
  <2>10. final'[id] = Finished(id) /\ DOMAIN final' = DOMAIN final \cup {id}
    BY <2>3
  <2> QED BY <1>c, <2>7, <2>8, <2>10 DEF Recorded
<1> QED BY <1>1, <1>a, <1>4, <1>5, <1>8 DEF Next, Step

------------------------------------------------------------------------------
(* The order of PATH.                                                      *)

\* What Among takes of a table without repetitions, if all of S is there.
LEMMA AmongAll ==
  ASSUME NEW A, NEW t \in Seq(A), \A i, j \in 1..Len(t) : t[i] = t[j] => i = j,
         NEW S, S \subseteq SeqRange(t)
  PROVE  LET a == Among(t, S)
         IN  /\ a \in Seq(A) /\ SeqRange(a) = S
             /\ \A i, j \in 1..Len(a) : a[i] = a[j] => i = j
             /\ IsFiniteSet(S) /\ Cardinality(S) = Len(a)
             /\ \A i, j \in 1..Len(a), k, l \in 1..Len(t) :
                  a[i] = t[k] /\ a[j] = t[l] /\ k < l => i < j
<1> DEFINE a == Among(t, S)
<1>1. PICK pos : Picks(a, pos, t, S, Len(t))
  BY AmongPicks
<1>2. a \in Seq(A) /\ SeqRange(a) = S
  <2>1. a \in Seq(A) /\ SeqRange(a) = SeqRange(t) \cap S
    BY AmongRange
  <2> HIDE DEF a
  <2> QED BY <2>1
<1> HIDE DEF a
<1>3. Len(a) \in Nat /\ DOMAIN a = 1..Len(a) /\ Len(t) \in Nat
  BY <1>2
<1>4. \A i \in 1..Len(a) : pos[i] \in 1..Len(t) /\ a[i] = t[pos[i]]
  BY <1>1 DEF Picks
<1>5. \A i, j \in 1..Len(a) : i < j => pos[i] < pos[j]
  BY <1>1 DEF Picks
<1>6. ASSUME NEW i \in 1..Len(a), NEW j \in 1..Len(a), a[i] = a[j]
      PROVE  i = j
  <2>1. pos[i] = pos[j] /\ pos[i] \in 1..Len(t)
    BY <1>4, <1>6
  <2>2. ~(i < j) /\ ~(j < i)
    BY <1>3, <1>5, <2>1
  <2> QED BY <1>3, <2>2
<1>7. IsFiniteSet(S) /\ Cardinality(S) = Len(a)
  <2> DEFINE n == Len(a)
             f == [i \in 1..n |-> a[i]]
  <2>0. n \in Nat
    BY <1>3
  <2>1. f \in Bijection(1..n, S)
    <3>1. \A x \in S : \E i \in 1..Len(a) : a[i] = x
      BY <1>2, <1>3 DEF SeqRange
    <3>2. \A i \in 1..Len(a) : a[i] \in S
      BY <1>2, <1>3 DEF SeqRange
    <3>3. f \in [1..n -> S] /\ \A i \in 1..n : f[i] = a[i]
      BY <3>2
    <3> HIDE DEF f
    <3>4. f \in Injection(1..n, S)
      BY <1>6, <3>3 DEF Injection, IsInjective
    <3>5. f \in Surjection(1..n, S)
      BY <3>1, <3>3 DEF Surjection
    <3> QED BY <3>4, <3>5 DEF Bijection
  <2> HIDE DEF n, f
  <2>2. ExistsBijection(1..n, S)
    BY <2>1 DEF ExistsBijection
  <2>3. IsFiniteSet(1..n) /\ Cardinality(1..n) = n
    BY <2>0, FS_Interval
  <2>4. IsFiniteSet(S) /\ Cardinality(S) = n
    BY <2>2, <2>3, FS_Bijection
  <2> QED BY <2>4 DEF n
<1>8. ASSUME NEW i \in 1..Len(a), NEW j \in 1..Len(a), NEW k \in 1..Len(t), NEW l \in 1..Len(t),
             a[i] = t[k], a[j] = t[l], k < l
      PROVE  i < j
  <2>1. pos[i] = k /\ pos[j] = l
    BY <1>4, <1>8
  <2>2. i # j /\ ~(j < i)
    BY <1>3, <1>5, <1>8, <2>1
  <2> QED BY <1>3, <2>2
<1> QED BY <1>2, <1>6, <1>7, <1>8 DEF a

\* topo read backwards.
LEMMA Reversed ==
  ASSUME IdsHaveDirectories, TopoOrdered
  PROVE  LET r == reverse_lines(topo)
         IN  /\ r \in Seq(DOMAIN spec) /\ SeqRange(r) = SeqRange(topo)
             /\ \A i, j \in 1..Len(r) : r[i] = r[j] => i = j
             /\ \A i, j \in 1..Len(topo) : i < j =>
                  \E k, l \in 1..Len(r) : k < l /\ r[k] = topo[j] /\ r[l] = topo[i]
<1> DEFINE n == Len(topo)
           r == reverse_lines(topo)
<1>1. n \in Nat /\ DOMAIN topo = 1..n /\ \A i \in 1..n : topo[i] \in DOMAIN spec
  BY DEF IdsHaveDirectories
<1>2. r = [i \in 1..n |-> topo[n + 1 - i]]
  BY <1>1 DEF reverse_lines
<1> HIDE DEF n, r
<1>3. \A i \in 1..n : n + 1 - i \in 1..n /\ n + 1 - (n + 1 - i) = i
  BY <1>1
<1>4. r \in Seq(DOMAIN spec) /\ Len(r) = n /\ DOMAIN r = 1..n
  BY <1>1, <1>2, <1>3
<1>5. \A i \in 1..n : r[i] = topo[n + 1 - i] /\ topo[i] = r[n + 1 - i]
  BY <1>1, <1>2, <1>3
<1>6. SeqRange(r) = SeqRange(topo)
  BY <1>1, <1>3, <1>4, <1>5 DEF SeqRange
<1>7. ASSUME NEW i \in 1..n, NEW j \in 1..n, r[i] = r[j]
      PROVE  i = j
  <2>1. n + 1 - i = n + 1 - j
    BY <1>1, <1>3, <1>5, <1>7 DEF TopoOrdered
  <2> QED BY <1>1, <2>1
<1>8. ASSUME NEW i \in 1..n, NEW j \in 1..n, i < j
      PROVE  \E k, l \in 1..n : k < l /\ r[k] = topo[j] /\ r[l] = topo[i]
  <2>1. n + 1 - j < n + 1 - i
    BY <1>1, <1>8
  <2> QED BY <1>3, <1>5, <2>1
<1> QED BY <1>4, <1>6, <1>7, <1>8 DEF r, n

\* No external is installed where a node of the store would be: a prefix in the
\* store is made of an id and a hash.
OutsideStore ==
  \A r \in Repos : \A i \in DOMAIN r.externals : ~ \E id, h : r.externals[i].prefix = <<id, h>>

\* Two nodes have two prefixes.
LEMMA PrefixOfNode ==
  ASSUME repo \in Repos, PrefixesDiffer, OutsideStore, IInv, Known, Recorded,
         NEW b \in DOMAIN final, NEW c \in DOMAIN final, final[b].prefix = final[c].prefix
  PROVE  b = c
<1>1. ASSUME NEW d \in DOMAIN final
      PROVE  /\ d \in DOMAIN spec /\ d = IdOf(spec[d].name, spec[d].version)
             /\ spec[d].kind = "external" =>
                  \E i \in DOMAIN repo.externals :
                    /\ repo.externals[i].prefix = final[d].prefix
                    /\ repo.externals[i].name = spec[d].name
                    /\ repo.externals[i].version = spec[d].version
             /\ spec[d].kind # "external" => \E h : final[d].prefix = <<d, h>>
  <2>1. d \in DOMAIN spec
    BY DEF IInv, IdsHaveDirectories
  <2> DEFINE n == spec[d].name
             v == spec[d].version
             S == {line \in SeqRange(repo.externals) : line.name = n /\ line.version = v}
  <2>2. AsNode(d) \in Nodes /\ AsNode(d).name = n /\ AsNode(d).version = v /\ AsNode(d).kind = spec[d].kind
    BY <2>1 DEF Known, AsNode
  <2>3. d = IdOf(n, v)
    BY <2>1, <2>2 DEF Known, IdOfNode
  <2>4. final[d] = Finished(d)
    BY DEF Recorded
  <2>5. ASSUME spec[d].kind = "external"
        PROVE  \E i \in DOMAIN repo.externals :
                    /\ repo.externals[i].prefix = final[d].prefix
                    /\ repo.externals[i].name = n
                    /\ repo.externals[i].version = v
    <3>1. v \in Provided(n) /\ n \in DOMAIN repo.recipe
      <4>1. n \in DOMAIN repo.recipe /\ (spec[d].kind = IF v \in Provided(n) THEN "external" ELSE "built")
        BY <2>2, NodeParts
      <4> QED BY <2>5, <4>1
    <3>2. /\ repo.externals \in Seq(SeqRange(repo.externals))
          /\ SeqRange(ExternalLines(n)) = {line \in SeqRange(repo.externals) : line.name = n}
      <4>1. repo.externals \in Seq(SeqRange(repo.externals))
        BY RepoParts
      <4> QED BY <4>1, AmongRange DEF ExternalLines
    <3>3. S # {}
      BY <3>1, <3>2 DEF Provided
    <3> DEFINE a == Among(repo.externals, S)
    <3>4. a \in Seq(SeqRange(repo.externals)) /\ SeqRange(a) = S
      <4>1. a \in Seq(SeqRange(repo.externals)) /\ SeqRange(a) = SeqRange(repo.externals) \cap S
        BY <3>2, AmongRange
      <4> QED BY <4>1
    <3>5. final[d].prefix = a[1].prefix
      BY <2>4, <2>5 DEF Finished, ExternalPrefix
    <3> HIDE DEF a
    <3>6. Len(a) # 0 /\ Len(a) \in Nat /\ DOMAIN a = 1..Len(a)
      BY <3>3, <3>4 DEF SeqRange
    <3>7. a[1] \in S
      <4>1. 1 \in DOMAIN a
        BY <3>6
      <4> QED BY <3>4, <4>1 DEF SeqRange
    <3>8. PICK i \in DOMAIN repo.externals : repo.externals[i] = a[1]
      BY <3>7 DEF SeqRange
    <3> QED BY <3>5, <3>7, <3>8
  <2>6. ASSUME spec[d].kind # "external"
        PROVE  \E h : final[d].prefix = <<d, h>>
    BY <2>4, <2>6 DEF Finished
  <2> QED BY <2>1, <2>3, <2>5, <2>6
<1>2. CASE spec[b].kind = "external" /\ spec[c].kind = "external"
  <2>1. spec[b].name = spec[c].name /\ spec[b].version = spec[c].version
    BY <1>1, <1>2 DEF PrefixesDiffer
  <2> QED BY <1>1, <2>1
<1>3. CASE spec[b].kind # "external" /\ spec[c].kind # "external"
  BY <1>1, <1>3
<1>4. CASE spec[b].kind = "external" /\ spec[c].kind # "external"
  BY <1>1, <1>4 DEF OutsideStore
<1>5. CASE spec[b].kind # "external" /\ spec[c].kind = "external"
  BY <1>1, <1>5 DEF OutsideStore
<1> QED BY <1>2, <1>3, <1>4, <1>5

\* PATH has every node of the closure once, a node before those below it.
LEMMA PathOrder ==
  ASSUME repo \in Repos, PrefixesDiffer, OutsideStore, NumbersOnly, IInv, Graph, Recorded, NEW id \in DOMAIN final
  PROVE  LET path == compose_path(id)
             At(c) == CHOOSE i \in DOMAIN path : path[i] = final[c].prefix
             on == {id} \cup closure[id]
         IN  /\ Len(path) = Cardinality(on)
             /\ SeqRange(path) = {final[c].prefix : c \in on}
             /\ \A b \in on : \A c \in closure[b] : At(b) < At(c)
<1> DEFINE r == reverse_lines(topo)
           S == closure[id]
           a == Among(r, S)
           path == compose_path(id)
           on == {id} \cup S
           At(c) == CHOOSE i \in DOMAIN path : path[i] = final[c].prefix
<1>1. /\ r \in Seq(DOMAIN spec) /\ SeqRange(r) = SeqRange(topo)
      /\ \A i, j \in 1..Len(r) : r[i] = r[j] => i = j
      /\ \A i, j \in 1..Len(topo) : i < j =>
                  \E k, l \in 1..Len(r) : k < l /\ r[k] = topo[j] /\ r[l] = topo[i]
  BY Reversed DEF IInv
<1>2. S \subseteq DOMAIN final /\ DOMAIN final = SeqRange(topo) /\ DOMAIN topo = 1..Len(topo)
      /\ Len(topo) \in Nat /\ DOMAIN final \subseteq DOMAIN spec
  BY DepsBelow DEF IInv, Listed, IdsHaveDirectories
<1>3. ASSUME NEW b \in DOMAIN final, NEW c \in closure[b]
      PROVE  \E i, j \in 1..Len(topo) : i < j /\ topo[i] = c /\ topo[j] = b
  <2>1. PICK j \in 1..Len(topo) : topo[j] = b
    BY <1>2 DEF SeqRange
  <2>2. PICK i \in 1..Len(topo) : i < j /\ topo[i] = c
    BY <1>2, <2>1 DEF IInv, TopoOrdered, Below
  <2> QED BY <2>1, <2>2
<1>4. \A b \in DOMAIN final : b \notin closure[b]
  <2> SUFFICES ASSUME NEW b \in DOMAIN final, b \in closure[b] PROVE FALSE
    OBVIOUS
  <2>1. PICK i, j \in 1..Len(topo) : i < j /\ topo[i] = b /\ topo[j] = b
    BY <1>3
  <2>2. i = j
    BY <1>2, <2>1 DEF IInv, TopoOrdered
  <2> QED BY <1>2, <2>1, <2>2
<1>5. /\ a \in Seq(DOMAIN spec) /\ SeqRange(a) = S
      /\ \A i, j \in 1..Len(a) : a[i] = a[j] => i = j
      /\ IsFiniteSet(S) /\ Cardinality(S) = Len(a)
      /\ \A i, j \in 1..Len(a), k, l \in 1..Len(r) :
                  a[i] = r[k] /\ a[j] = r[l] /\ k < l => i < j
  <2>1. S \subseteq SeqRange(r)
    BY <1>1, <1>2
  <2> HIDE DEF r, S
  <2> QED BY <1>1, <2>1, AmongAll
<1>6. path = <<final[id].prefix>> \o [i \in DOMAIN a |-> final[a[i]].prefix]
  BY DEF compose_path
<1> HIDE DEF a, r, S, path
<1>7. Len(a) \in Nat /\ DOMAIN a = 1..Len(a) /\ \A i \in 1..Len(a) : a[i] \in S
  BY <1>5 DEF SeqRange
<1>8. /\ Len(path) = Len(a) + 1 /\ DOMAIN path = 1..(Len(a) + 1)
      /\ path[1] = final[id].prefix
      /\ \A i \in 1..Len(a) : path[i + 1] = final[a[i]].prefix
  <2> DEFINE q == [i \in DOMAIN a |-> final[a[i]].prefix]
             Q == {final[c].prefix : c \in S \cup {id}}
  <2>1. q \in Seq(Q) /\ Len(q) = Len(a)
    BY <1>7
  <2>2. \A i \in 1..Len(a) : q[i] = final[a[i]].prefix
    BY <1>7
  <2>3. <<final[id].prefix>> \in Seq(Q) /\ Len(<<final[id].prefix>>) = 1
        /\ <<final[id].prefix>>[1] = final[id].prefix
    OBVIOUS
  <2>4. path = <<final[id].prefix>> \o q
    BY <1>6
  <2> HIDE DEF q, Q
  <2>5. /\ path \in Seq(Q) /\ Len(path) = 1 + Len(q)
        /\ \A i \in 1..(1 + Len(q)) :
             path[i] = IF i <= 1 THEN <<final[id].prefix>>[i] ELSE q[i - 1]
    BY <2>1, <2>3, <2>4, ConcatProperties
  <2>6. path[1] = final[id].prefix
    BY <1>7, <2>1, <2>3, <2>5
  <2>7. ASSUME NEW i \in 1..Len(a)
        PROVE  path[i + 1] = final[a[i]].prefix
    <3>1. i + 1 \in 1..(1 + Len(q)) /\ ~(i + 1 <= 1) /\ (i + 1) - 1 = i
      BY <1>7, <2>1
    <3>2. path[i + 1] = q[i]
      BY <2>5, <3>1
    <3> QED BY <2>2, <3>2
  <2>8. Len(path) = Len(a) + 1
    BY <1>7, <2>1, <2>5
  <2> QED BY <2>5, <2>6, <2>7, <2>8
<1>9. Len(path) = Cardinality(on)
  <2>1. id \notin S
    BY <1>4 DEF S
  <2>2. Cardinality(S \cup {id}) = Cardinality(S) + 1
    BY <1>5, <2>1, FS_AddElement
  <2>3. on = S \cup {id}
    OBVIOUS
  <2> QED BY <1>5, <1>8, <2>2, <2>3
<1>10. \A i \in 1..(Len(a) + 1) : i = 1 \/ (i - 1 \in 1..Len(a) /\ (i - 1) + 1 = i)
  BY <1>7
<1>11. SeqRange(path) = {final[c].prefix : c \in on}
  <2>1. \A i \in DOMAIN path : \E c \in on : path[i] = final[c].prefix
    <3> TAKE i \in DOMAIN path
    <3>1. CASE i = 1
      BY <1>8, <3>1
    <3>2. CASE i - 1 \in 1..Len(a) /\ (i - 1) + 1 = i
      <4>1. path[i] = final[a[i - 1]].prefix /\ a[i - 1] \in S
        BY <1>7, <1>8, <3>2
      <4> QED BY <4>1
    <3> QED BY <1>8, <1>10, <3>1, <3>2
  <2>2. \A c \in on : \E i \in DOMAIN path : path[i] = final[c].prefix
    <3> TAKE c \in on
    <3>1. CASE c = id
      <4>1. 1 \in DOMAIN path
        BY <1>7, <1>8
      <4> QED BY <1>8, <3>1, <4>1
    <3>2. CASE c \in S
      <4>1. PICK i \in 1..Len(a) : a[i] = c
        BY <1>5, <1>7, <3>2 DEF SeqRange
      <4>2. i + 1 \in DOMAIN path
        BY <1>7, <1>8
      <4> QED BY <1>8, <4>1, <4>2
    <3> QED BY <3>1, <3>2
  <2> QED BY <2>1, <2>2 DEF SeqRange
<1>12. on \subseteq DOMAIN final
  BY <1>2
\* Where the nodes are on the path.
<1>13. ASSUME NEW c \in on, NEW i \in DOMAIN path, path[i] = final[c].prefix
       PROVE  (i = 1 /\ c = id) \/ (i # 1 /\ i - 1 \in 1..Len(a) /\ c = a[i - 1])
  <2>1. i = 1 \/ (i # 1 /\ i - 1 \in 1..Len(a) /\ (i - 1) + 1 = i)
    BY <1>8, <1>10
  <2>2. CASE i = 1
    BY <1>8, <1>12, <1>13, <2>2, PrefixOfNode DEF Graph
  <2>3. CASE i # 1 /\ i - 1 \in 1..Len(a) /\ (i - 1) + 1 = i
    <3>1. path[i] = final[a[i - 1]].prefix /\ a[i - 1] \in on
      BY <1>7, <1>8, <2>3
    <3> QED BY <1>12, <1>13, <2>3, <3>1, PrefixOfNode DEF Graph
  <2> QED BY <2>1, <2>2, <2>3
<1>14. \A c \in on : At(c) \in DOMAIN path /\ path[At(c)] = final[c].prefix
  <2> TAKE c \in on
  <2>1. \E i \in DOMAIN path : path[i] = final[c].prefix
    BY <1>11 DEF SeqRange
  <2> QED BY <2>1
<1> HIDE DEF At
<1>15. ASSUME NEW b \in on, NEW c \in closure[b]
       PROVE  At(b) < At(c)
  <2>1. b \in DOMAIN final /\ b # c /\ b \in DOMAIN spec
    BY <1>2, <1>4, <1>12
  <2>2. c \in S
    <3>1. CASE b = id
      BY <3>1 DEF S
    <3>2. CASE b \in S
      <4>1. closure[b] \subseteq closure[id]
        BY <1>2, <3>2 DEF Graph, Closed, S
      <4> QED BY <4>1 DEF S
    <3> QED BY <3>1, <3>2
  <2>3. c \in on /\ id \notin S
    BY <1>4, <2>2 DEF S
  <2>4. /\ At(c) \in 1..(Len(a) + 1) /\ At(b) \in 1..(Len(a) + 1)
        /\ At(c) # 1 /\ At(c) - 1 \in 1..Len(a) /\ c = a[At(c) - 1]
    BY <1>8, <1>13, <1>14, <2>2, <2>3
  <2>5. CASE At(b) = 1
    BY <1>7, <2>4, <2>5
  <2>6. CASE At(b) # 1
    <3>1. At(b) - 1 \in 1..Len(a) /\ b = a[At(b) - 1]
      BY <1>13, <1>14, <2>6
    <3>2. PICK i, j \in 1..Len(topo) : i < j /\ topo[i] = c /\ topo[j] = b
      BY <1>3, <2>1
    <3>3. PICK k, l \in 1..Len(r) : k < l /\ r[k] = b /\ r[l] = c
      BY <1>1, <3>2
    <3>4. At(b) - 1 < At(c) - 1
      BY <1>5, <2>4, <3>1, <3>3
    <3>5. At(b) \in Int /\ At(c) \in Int
      BY <2>4
    <3> QED BY <3>4, <3>5
  <2> QED BY <2>5, <2>6
<1> QED BY <1>9, <1>11, <1>15 DEF path, At, S

(***************************************************************************)
(* Theorem: a node comes before everything in its closure on every PATH.   *)
(***************************************************************************)
THEOREM PathsAreMostDerivedFirst ==
  ASSUME NumbersOnly, IdsDiffer, PrefixesDiffer, OutsideStore
  PROVE  Spec => []MostDerivedFirst
<1>1. Sound /\ GInv /\ RInv => MostDerivedFirst
  <2> SUFFICES ASSUME Sound, GInv, RInv, status = "done", NEW id \in SeqRange(topo)
               PROVE  LET path == compose_path(id)
                          At(c) == CHOOSE i \in DOMAIN path : path[i] = final[c].prefix
                          on == {id} \cup closure[id]
                      IN  /\ Len(path) = Cardinality(on)
                          /\ SeqRange(path) = {final[c].prefix : c \in on}
                          /\ \A b \in on : \A c \in closure[b] : At(b) < At(c)
    BY DEF MostDerivedFirst
  <2>1. repo \in Repos /\ Graph /\ Recorded /\ IInv
    BY DEF Sound, GInv, RInv, Current, Settled
  <2>2. id \in DOMAIN final
    BY <2>1 DEF IInv, Listed
  <2> QED BY <2>1, <2>2, PathOrder
<1>2. Init => Sound /\ GInv /\ RInv
  BY Initial, GraphInitial DEF Init, RInv, Current
<1>3. Sound /\ GInv /\ RInv /\ [Next]_vars => Sound' /\ GInv' /\ RInv'
  BY Inductive, GraphInductive, RecordedInductive
<1> QED BY <1>1, <1>2, <1>3, PTL DEF Spec

------------------------------------------------------------------------------
(* Hashes.                                                                 *)

\* What a hash is made of, from the record of a node in a World and the hashes g.
Made(w, g) ==
  IF w.node.kind = "external"
  THEN [package |-> w.node.name, version |-> w.node.version, prefix |-> w.madeOf]
  ELSE [package |-> w.node.name, version |-> w.node.version, arch |-> Arch,
        sources |-> spec_sources(w.madeOf, w.node.version),
        files   |-> Hash(w.madeOf),
        deps    |-> {<<m.name, m.version, g[m]>> : m \in w.edges}]

\* The nodes that have a record.
NodesIn(W) == {w.node : w \in W}

\* A record of a World.
IsRecord(w) ==
  /\ w = [node |-> w.node, madeOf |-> w.madeOf, edges |-> w.edges]
  /\ w.node = [name |-> w.node.name, version |-> w.node.version, kind |-> w.node.kind]
  /\ w.node.kind \in {"external", "built"}
  /\ w.node.kind = "external" => w.edges = {}

\* W is what n is made of: it has a record for n and for all below it, and for
\* nothing else, g are the hashes of the nodes in it, and k a build order.
IsWorld(W, n, g, k) ==
  /\ \A w \in W : /\ IsRecord(w)
                  /\ g[w.node] = Hash(Made(w, g))
                  /\ w.edges \subseteq NodesIn(W)
                  /\ k[w.node] \in Nat /\ \A m \in w.edges : k[m] < k[w.node]
  /\ \A w, x \in W : IdOfNode(w.node) = IdOfNode(x.node) => w = x
  /\ n \in NodesIn(W)
  /\ \A C : n \in C /\ (\A w \in W : w.node \in C => w.edges \subseteq C) => NodesIn(W) \subseteq C

\* The digest of two texts is the same only if the texts are.
NoCollision == \A x, y : Hash(x) = Hash(y) => x = y

\* Equal manifests are of equal nodes.
LEMMA MadeFixes ==
  ASSUME NoCollision, NEW v, NEW w, NEW f, NEW g, IsRecord(v), IsRecord(w),
         Made(v, f) = Made(w, g)
  PROVE  /\ v.node = w.node /\ v.madeOf = w.madeOf
         /\ v.node.kind = "built" => {<<m.name, m.version, f[m]>> : m \in v.edges}
                                       = {<<m.name, m.version, g[m]>> : m \in w.edges}
<1>1. v.node.kind = "external" <=> "arch" \notin DOMAIN Made(v, f)
  BY DEF Made
<1>2. w.node.kind = "external" <=> "arch" \notin DOMAIN Made(w, g)
  BY DEF Made
<1>3. v.node.kind = w.node.kind
  BY <1>1, <1>2 DEF IsRecord
<1>4. Made(v, f).package = v.node.name /\ Made(v, f).version = v.node.version
  BY DEF Made
<1>5. Made(w, g).package = w.node.name /\ Made(w, g).version = w.node.version
  BY DEF Made
<1>6. v.node = w.node
  BY <1>3, <1>4, <1>5 DEF IsRecord
<1>7. CASE v.node.kind = "external"
  <2>1. Made(v, f).prefix = v.madeOf /\ Made(w, g).prefix = w.madeOf
    BY <1>3, <1>7 DEF Made
  <2> QED BY <1>6, <1>7, <2>1
<1>8. CASE v.node.kind # "external"
  <2>1. /\ Made(v, f).files = Hash(v.madeOf) /\ Made(w, g).files = Hash(w.madeOf)
        /\ Made(v, f).deps = {<<m.name, m.version, f[m]>> : m \in v.edges}
        /\ Made(w, g).deps = {<<m.name, m.version, g[m]>> : m \in w.edges}
    BY <1>3, <1>8 DEF Made
  <2> QED BY <1>6, <2>1 DEF NoCollision
<1> QED BY <1>7, <1>8

\* Equal hashes are of equal records, and so are those of what is below.
LEMMA HashFixes ==
  ASSUME NoCollision, NEW V, NEW W, NEW f, NEW g, NEW j, NEW k, NEW m, NEW n,
         IsWorld(V, m, f, j), IsWorld(W, n, g, k),
         NEW v \in V, NEW w \in W, f[v.node] = g[w.node]
  PROVE  v = w /\ \A x \in v.edges : f[x] = g[x]
<1>1. ASSUME NEW x \in V, NEW y \in W, f[x.node] = g[y.node]
      PROVE  /\ x.node = y.node /\ x.madeOf = y.madeOf
             /\ x.node.kind = "built" => {<<l.name, l.version, f[l]>> : l \in x.edges}
                                           = {<<l.name, l.version, g[l]>> : l \in y.edges}
  <2>1. Hash(Made(x, f)) = Hash(Made(y, g)) /\ IsRecord(x) /\ IsRecord(y)
    BY <1>1 DEF IsWorld
  <2>2. Made(x, f) = Made(y, g)
    BY <2>1 DEF NoCollision
  <2> QED BY <2>1, <2>2, MadeFixes
<1>2. /\ \A l \in v.edges : \E x \in V : x.node = l
      /\ \A l \in w.edges : \E y \in W : y.node = l
  BY DEF IsWorld, NodesIn
<1>3. IsRecord(v) /\ IsRecord(w)
  BY DEF IsWorld
<1>4. v.node = w.node /\ v.madeOf = w.madeOf
  BY <1>1
<1>5. CASE v.node.kind = "external"
  <2>1. v.edges = {} /\ w.edges = {}
    BY <1>3, <1>4, <1>5 DEF IsRecord
  <2> QED BY <1>3, <1>4, <2>1 DEF IsRecord
<1>6. CASE v.node.kind = "built"
  <2> DEFINE A == {<<l.name, l.version, f[l]>> : l \in v.edges}
             B == {<<l.name, l.version, g[l]>> : l \in w.edges}
  <2>1. A = B
    BY <1>1, <1>6
  <2>2. ASSUME NEW l \in v.edges
        PROVE  l \in w.edges /\ f[l] = g[l]
    <3>1. <<l.name, l.version, f[l]>> \in B
      BY <2>1
    <3>2. PICK o \in w.edges : f[l] = g[o]
      BY <3>1
    <3>3. PICK x \in V, y \in W : x.node = l /\ y.node = o
      BY <1>2
    <3>4. l = o
      BY <1>1, <3>2, <3>3
    <3> QED BY <3>2, <3>4
  <2>3. ASSUME NEW o \in w.edges
        PROVE  o \in v.edges
    <3>1. <<o.name, o.version, g[o]>> \in A
      BY <2>1
    <3>2. PICK l \in v.edges : f[l] = g[o]
      BY <3>1
    <3>3. PICK x \in V, y \in W : x.node = l /\ y.node = o
      BY <1>2
    <3>4. l = o
      BY <1>1, <3>2, <3>3
    <3> QED BY <3>4
  <2>4. v.edges = w.edges
    BY <2>2, <2>3
  <2> QED BY <1>3, <1>4, <2>2, <2>4 DEF IsRecord
<1> QED BY <1>3, <1>5, <1>6 DEF IsRecord

\* Equal hashes are of equal Worlds, here in one direction.
LEMMA HashFixesWorld ==
  ASSUME NoCollision, NEW V, NEW W, NEW f, NEW g, NEW j, NEW k, NEW m, NEW n,
         IsWorld(V, m, f, j), IsWorld(W, n, g, k), f[m] = g[n]
  PROVE  V \subseteq W
<1> DEFINE C == {l \in NodesIn(V) : l \in NodesIn(W) /\ f[l] = g[l]}
<1>1. m \in C
  <2>1. PICK v \in V, w \in W : v.node = m /\ w.node = n
    BY DEF IsWorld, NodesIn
  <2>2. v = w
    BY <2>1, HashFixes
  <2> QED BY <2>1, <2>2 DEF NodesIn
<1>2. ASSUME NEW v \in V, v.node \in C
      PROVE  v.edges \subseteq C /\ v \in W
  <2>1. PICK w \in W : w.node = v.node
    BY <1>2 DEF NodesIn
  <2>2. f[v.node] = g[w.node]
    BY <1>2, <2>1
  <2>3. v = w /\ \A x \in v.edges : f[x] = g[x]
    BY <2>2, HashFixes
  <2>4. v.edges \subseteq NodesIn(V) /\ w.edges \subseteq NodesIn(W)
    BY DEF IsWorld
  <2> QED BY <2>3, <2>4
<1> HIDE DEF C
<1>3. NodesIn(V) \subseteq C
  BY <1>1, <1>2 DEF IsWorld
<1> QED BY <1>2, <1>3 DEF NodesIn

\* A World determines the hashes.
LEMMA WorldFixes ==
  ASSUME NEW W, NEW f, NEW g, NEW j, NEW k, NEW m, NEW n,
         IsWorld(W, m, f, j), IsWorld(W, n, g, k), IdOfNode(m) = IdOfNode(n)
  PROVE  f[m] = g[n]
<1> DEFINE S == {i \in Nat : \E w \in W : j[w.node] = i /\ f[w.node] # g[w.node]}
<1>1. ASSUME NEW i \in S, \A l \in 0..(i - 1) : l \notin S
      PROVE  FALSE
  <2>1. PICK w \in W : j[w.node] = i /\ f[w.node] # g[w.node]
    OBVIOUS
  <2>2. ASSUME NEW x \in w.edges
        PROVE  f[x] = g[x]
    <3>1. PICK v \in W : v.node = x
      BY DEF IsWorld, NodesIn
    <3>2. j[x] \in Nat /\ j[x] < i /\ i \in Nat
      BY <2>1, <3>1 DEF IsWorld
    <3>3. j[x] \in 0..(i - 1)
      BY <3>2
    <3> QED BY <1>1, <3>1, <3>2, <3>3
  <2>3. Made(w, f) = Made(w, g)
    <3>1. {<<x.name, x.version, f[x]>> : x \in w.edges} = {<<x.name, x.version, g[x]>> : x \in w.edges}
      BY <2>2
    <3> QED BY <3>1 DEF Made
  <2>4. f[w.node] = Hash(Made(w, f)) /\ g[w.node] = Hash(Made(w, g))
    BY DEF IsWorld
  <2> QED BY <2>1, <2>3, <2>4
<1>2. PICK w \in W : w.node = m
  BY DEF IsWorld, NodesIn
<1>3. m = n
  <2>1. PICK v \in W : v.node = n
    BY DEF IsWorld, NodesIn
  <2> QED BY <1>2, <2>1 DEF IsWorld
<1>4. j[m] \in Nat /\ (f[m] # g[m] => j[m] \in S)
  BY <1>2 DEF IsWorld
<1> HIDE DEF S
<1>5. f[m] # g[m] => \E i \in Nat : i \in S /\ \A l \in 0..(i - 1) : l \notin S
  BY <1>4, Smallest
<1> QED BY <1>1, <1>3, <1>5

\* The dependencies of a finished node are the nodes below it.
LEMMA SuccAre ==
  ASSUME repo \in Repos, NumbersOnly, IInv, Graph, NEW id \in DOMAIN final
  PROVE  Succ(AsNode(id)) = {AsNode(d) : d \in SeqRange(deps[id])}
<1>1. /\ id \in DOMAIN spec
      /\ \A n \in Succ(AsNode(id)) : \E d \in SeqRange(deps[id]) : AsNode(d) = n
  BY DepsBelow
<1>2. ASSUME NEW d \in SeqRange(deps[id])
      PROVE  AsNode(d) \in Succ(AsNode(id))
  <2>1. deps[id] \in Seq(DOMAIN spec)
    BY <1>1 DEF IInv, IdsHaveDirectories
  <2>2. PICK i \in 1..Len(deps[id]) : deps[id][i] = d
    BY <2>1 DEF SeqRange
  <2>3. AsNode(d) = NodeOf(Words(id)[i])
    BY <1>1, <2>2 DEF Graph, Followed
  <2>4. i \in 1..Len(Words(id))
    BY <2>2 DEF Graph, Whole
  <2> QED BY <1>1, <2>3, <2>4, BelowNode DEF Graph
<1> QED BY <1>1, <1>2

\* The nodes at and below a finished one.
LEMMA ReachFrom ==
  ASSUME repo \in Repos, NumbersOnly, IInv, Graph, NEW id \in DOMAIN final
  PROVE  /\ IsReach(Reach({AsNode(id)}), {AsNode(id)})
         /\ \A n \in Reach({AsNode(id)}) : \E c \in DOMAIN final : n = AsNode(c)
<1> DEFINE C == {AsNode(c) : c \in DOMAIN final}
<1>1. AsNode(id) \in Universe
  BY DEF Graph, Known, IInv, IdsHaveDirectories, Universe
<1>2. IsReach(Reach({AsNode(id)}), {AsNode(id)})
  BY <1>1, ReachIs
<1>3. ASSUME NEW c \in DOMAIN final
      PROVE  Succ(AsNode(c)) \subseteq C
  <2>1. SeqRange(deps[c]) \subseteq DOMAIN final
    BY DepsBelow
  <2> QED BY <2>1, SuccAre
<1>4. {AsNode(id)} \subseteq C
  OBVIOUS
<1> HIDE DEF C
<1>5. \A n \in C : Succ(n) \subseteq C
  BY <1>3 DEF C
<1>6. Reach({AsNode(id)}) \subseteq C
  BY <1>2, <1>4, <1>5 DEF IsReach
<1> QED BY <1>2, <1>6 DEF C

\* What a node is made of now, with the hashes and the order of the last run.
LEMMA WorldNow ==
  ASSUME repo \in Repos, NumbersOnly, IInv, Graph, Recorded, NEW id \in DOMAIN final
  PROVE  \E g, k : /\ IsWorld(World(AsNode(id)), AsNode(id), g, k)
                   /\ g[AsNode(id)] = final[id].hash
<1> DEFINE R == Reach({AsNode(id)})
           MadeOf(m) == IF m.kind = "external" THEN ExternalPrefix(m.name, m.version)
                        ELSE repo.recipe[m.name]
           W == World(AsNode(id))
           rec(m) == [node |-> m, madeOf |-> MadeOf(m), edges |-> Succ(m)]
           g == [m \in R |-> final[IdOfNode(m)].hash]
           k == [m \in R |-> CHOOSE i \in 1..Len(topo) : topo[i] = IdOfNode(m)]
<1>1. /\ IsReach(R, {AsNode(id)})
      /\ \A n \in R : \E c \in DOMAIN final : n = AsNode(c)
  BY ReachFrom
<1>2. W = {rec(m) : m \in R}
  BY DEF World
<1>3. \A m \in R : Succ(m) \subseteq R /\ AsNode(id) \in R
  BY <1>1 DEF IsReach
<1>4. ASSUME NEW c \in DOMAIN final
      PROVE  /\ c \in DOMAIN spec /\ AsNode(c) \in Nodes /\ IdOfNode(AsNode(c)) = c
             /\ AsNode(c) = [name |-> AsNode(c).name, version |-> AsNode(c).version, kind |-> AsNode(c).kind]
             /\ AsNode(c).kind \in {"external", "built"}
             /\ AsNode(c).kind = "external" => Succ(AsNode(c)) = {}
             /\ final[c].hash = Hash(Manifest(c))
             /\ AsNode(c).name = spec[c].name /\ AsNode(c).version = spec[c].version
             /\ AsNode(c).kind = spec[c].kind
             /\ Succ(AsNode(c)) = {AsNode(d) : d \in SeqRange(deps[c])}
             /\ SeqRange(deps[c]) \subseteq DOMAIN final
  <2>1. c \in DOMAIN spec
    BY DEF IInv, IdsHaveDirectories
  <2>2. AsNode(c) \in Nodes /\ IdOfNode(AsNode(c)) = c
    BY <2>1 DEF Graph, Known
  <2>3. AsNode(c) # Unresolved /\ AsNode(c).kind = (IF AsNode(c).version \in Provided(AsNode(c).name) THEN "external" ELSE "built")
    BY <2>2, NodeParts
  <2>4. AsNode(c).kind = "external" => Succ(AsNode(c)) = {}
    <3> SUFFICES ASSUME AsNode(c).kind = "external" PROVE Succ(AsNode(c)) = {}
      OBVIOUS
    <3>1. WordsOf(NodeDeps(AsNode(c))) = <<>>
          /\ Succ(AsNode(c)) = {NodeOf(s) : s \in SeqRange(WordsOf(NodeDeps(AsNode(c))))}
      BY <2>2, <2>3, SuccIn DEF Universe
    <3> QED BY <3>1 DEF SeqRange
  <2>5. final[c] = Finished(c)
    BY DEF Recorded
  <2>6. final[c].hash = Hash(Manifest(c))
    BY <2>5 DEF Finished
  <2>7. Succ(AsNode(c)) = {AsNode(d) : d \in SeqRange(deps[c])} /\ SeqRange(deps[c]) \subseteq DOMAIN final
    BY SuccAre, DepsBelow
  <2>8. AsNode(c) = [name |-> AsNode(c).name, version |-> AsNode(c).version, kind |-> AsNode(c).kind]
        /\ AsNode(c).name = spec[c].name /\ AsNode(c).version = spec[c].version
        /\ AsNode(c).kind = spec[c].kind
    BY DEF AsNode
  <2> QED BY <2>1, <2>2, <2>3, <2>4, <2>6, <2>7, <2>8
<1> HIDE DEF R, W
<1>5. \A m \in R : g[m] = final[IdOfNode(m)].hash
  OBVIOUS
<1>6. \A m \in R : rec(m).node = m /\ rec(m).madeOf = MadeOf(m) /\ rec(m).edges = Succ(m)
  OBVIOUS
<1> HIDE DEF g
<1>7. ASSUME NEW m \in R
      PROVE  g[m] = Hash(Made(rec(m), g))
  <2>1. PICK c \in DOMAIN final : m = AsNode(c)
    BY <1>1
  <2>2. g[m] = Hash(Manifest(c))
    BY <1>4, <1>5, <2>1
  <2>3. Made(rec(m), g) = Manifest(c)
    <3> DEFINE n == spec[c].name
               v == spec[c].version
    <3>1. m.name = n /\ m.version = v /\ m.kind = spec[c].kind
      BY <1>4, <2>1
    <3>2. CASE m.kind = "external"
      <4>1. MadeOf(m) = ExternalPrefix(n, v)
        BY <3>1, <3>2
      <4>2. Manifest(c) = [package |-> n, version |-> v, prefix |-> ExternalPrefix(n, v)]
        BY <3>1, <3>2 DEF Manifest
      <4> HIDE DEF rec, MadeOf, n, v
      <4> QED BY <1>6, <3>1, <3>2, <4>1, <4>2 DEF Made
    <3>3. CASE m.kind # "external"
      <4> DEFINE A == {<<l.name, l.version, g[l]>> : l \in Succ(m)}
                 B == {<<spec[d].name, spec[d].version, final[d].hash>> : d \in SeqRange(deps[c])}
      <4>1. Succ(m) = {AsNode(d) : d \in SeqRange(deps[c])}
        BY <1>4, <2>1
      <4>2. \A d \in SeqRange(deps[c]) :
              /\ AsNode(d) \in R /\ g[AsNode(d)] = final[d].hash
              /\ AsNode(d).name = spec[d].name /\ AsNode(d).version = spec[d].version
        <5> TAKE d \in SeqRange(deps[c])
        <5>1. d \in DOMAIN final /\ AsNode(d) \in Succ(m)
          BY <1>4, <4>1
        <5>2. AsNode(d) \in R
          BY <1>3, <5>1
        <5> QED BY <1>4, <1>5, <5>1, <5>2
      <4>3. A = {<<AsNode(d).name, AsNode(d).version, g[AsNode(d)]>> : d \in SeqRange(deps[c])}
        BY <4>1
      <4>4. A = B
        BY <4>2, <4>3
      <4>5. MadeOf(m) = repo.recipe[n]
        BY <3>1, <3>3
      <4>6. Manifest(c) = [package |-> n, version |-> v, arch |-> Arch,
                           sources |-> spec_sources(repo.recipe[n], v),
                           files |-> Hash(repo.recipe[n]), deps |-> B]
        BY <3>1, <3>3 DEF Manifest
      <4>7. rec(m).node = m /\ rec(m).madeOf = repo.recipe[n] /\ rec(m).edges = Succ(m)
        BY <1>6, <4>5
      <4> HIDE DEF rec, MadeOf, n, v, B
      <4>8. Made(rec(m), g) = [package |-> m.name, version |-> m.version, arch |-> Arch,
                               sources |-> spec_sources(repo.recipe[n], m.version),
                               files |-> Hash(repo.recipe[n]), deps |-> A]
        BY <3>3, <4>7 DEF Made
      <4> HIDE DEF A
      <4> QED BY <3>1, <4>4, <4>6, <4>8
    <3> QED BY <3>2, <3>3
  <2> QED BY <2>2, <2>3
<1>8. ASSUME NEW m \in R
      PROVE  IsRecord(rec(m))
  <2>1. PICK c \in DOMAIN final : m = AsNode(c)
    BY <1>1
  <2>2. /\ m = [name |-> m.name, version |-> m.version, kind |-> m.kind]
        /\ m.kind \in {"external", "built"}
        /\ m.kind = "external" => Succ(m) = {}
    BY <1>4, <2>1
  <2> HIDE DEF MadeOf
  <2>3. rec(m) = [node |-> rec(m).node, madeOf |-> rec(m).madeOf, edges |-> rec(m).edges]
    OBVIOUS
  <2> HIDE DEF rec
  <2> QED BY <1>6, <2>2, <2>3 DEF IsRecord
<1>9. \A c \in DOMAIN final : \E i \in 1..Len(topo) : topo[i] = c
  <2>1. DOMAIN final = SeqRange(topo) /\ DOMAIN topo = 1..Len(topo)
    BY DEF IInv, Listed, IdsHaveDirectories
  <2> QED BY <2>1 DEF SeqRange
<1>10. \A m \in R : k[m] \in 1..Len(topo) /\ topo[k[m]] = IdOfNode(m)
  <2> TAKE m \in R
  <2>1. PICK c \in DOMAIN final : m = AsNode(c)
    BY <1>1
  <2>2. \E i \in 1..Len(topo) : topo[i] = IdOfNode(m)
    BY <1>4, <1>9, <2>1
  <2> QED BY <2>2
<1> HIDE DEF k
<1>11. Len(topo) \in Nat /\ DOMAIN topo = 1..Len(topo)
  BY DEF IInv, IdsHaveDirectories
<1>12. ASSUME NEW m \in R, NEW l \in Succ(m)
       PROVE  k[l] < k[m]
  <2>1. PICK c \in DOMAIN final : m = AsNode(c)
    BY <1>1
  <2>2. PICK d \in SeqRange(deps[c]) : l = AsNode(d)
    BY <1>4, <2>1
  <2>3. d \in DOMAIN final /\ IdOfNode(l) = d /\ IdOfNode(m) = c /\ l \in R
    BY <1>3, <1>4, <2>1, <2>2
  <2>4. topo[k[m]] = c /\ topo[k[l]] = d /\ k[m] \in DOMAIN topo /\ k[l] \in DOMAIN topo
    BY <1>10, <1>11, <2>3
  <2>5. PICK i \in DOMAIN topo : i < k[m] /\ topo[i] = d
    BY <2>2, <2>4 DEF IInv, TopoOrdered, Below
  <2>6. i = k[l]
    BY <2>4, <2>5 DEF IInv, TopoOrdered
  <2> QED BY <2>5, <2>6
<1> HIDE DEF rec
<1>13. NodesIn(W) = R
  BY <1>2, <1>6 DEF NodesIn
<1>14. \A w \in W : \E m \in R : w = rec(m)
  BY <1>2
<1>15. ASSUME NEW w \in W
       PROVE  /\ IsRecord(w) /\ g[w.node] = Hash(Made(w, g)) /\ w.edges \subseteq NodesIn(W)
              /\ k[w.node] \in Nat /\ \A m \in w.edges : k[m] < k[w.node]
  <2>1. PICK m \in R : w = rec(m)
    BY <1>14
  <2>2. w.node = m /\ w.edges = Succ(m)
    BY <1>6, <2>1
  <2>3. k[m] \in Nat
    BY <1>10, <1>11
  <2> QED BY <1>3, <1>7, <1>8, <1>12, <1>13, <2>1, <2>2, <2>3
<1>16. ASSUME NEW w \in W, NEW x \in W, IdOfNode(w.node) = IdOfNode(x.node)
       PROVE  w = x
  <2>1. PICK m \in R, l \in R : w = rec(m) /\ x = rec(l)
    BY <1>14
  <2>2. IdOfNode(m) = IdOfNode(l)
    BY <1>6, <1>16, <2>1
  <2>3. PICK c \in DOMAIN final, d \in DOMAIN final : m = AsNode(c) /\ l = AsNode(d)
    BY <1>1
  <2>4. c = d
    BY <1>4, <2>2, <2>3
  <2> QED BY <2>1, <2>3, <2>4
<1>17. ASSUME NEW C, AsNode(id) \in C, \A w \in W : w.node \in C => w.edges \subseteq C
       PROVE  NodesIn(W) \subseteq C
  <2> DEFINE D == {m \in R : m \in C}
  <2>1. AsNode(id) \in R
    BY <1>1 DEF IsReach
  <2>2. ASSUME NEW m \in D
        PROVE  Succ(m) \subseteq D
    <3>1. rec(m) \in W /\ rec(m).node = m /\ rec(m).edges = Succ(m)
      BY <1>2, <1>6
    <3> QED BY <1>3, <1>17, <3>1
  <2>3. {AsNode(id)} \subseteq D
    BY <1>17, <2>1
  <2> HIDE DEF D
  <2>4. R \subseteq D
    BY <1>1, <2>2, <2>3 DEF IsReach
  <2> QED BY <1>13, <2>4 DEF D
<1>18. AsNode(id) \in R /\ g[AsNode(id)] = final[id].hash
  <2>1. AsNode(id) \in R
    BY <1>1 DEF IsReach
  <2> QED BY <1>4, <1>5, <2>1
<1>19. IsWorld(W, AsNode(id), g, k)
  BY <1>13, <1>15, <1>16, <1>17, <1>18 DEF IsWorld
<1> QED BY <1>18, <1>19 DEF W

\* What the completed runs computed.
Past == \A p \in past : \E n, g, k : IsWorld(p.world, n, g, k) /\ IdOfNode(n) = p.id /\ g[n] = p.hash

\* They stay Worlds with the hash of their node: a run is recorded when done.
LEMMA PastInductive ==
  ASSUME NumbersOnly, Sound, GInv, RInv, Past, [Next]_vars
  PROVE  Past'
<1>1. CASE Conclude
  <2>1. /\ repo \in Repos /\ Graph /\ Recorded /\ IInv
        /\ past' = past \cup {[id |-> id, hash |-> final[id].hash,
                               path |-> compose_path(id), world |-> World(AsNode(id))] :
                                id \in SeqRange(topo)}
    BY <1>1 DEF Conclude, Sound, GInv, RInv, Current, Settled
  <2>2. ASSUME NEW p \in past', p \notin past
        PROVE  \E n, g, k : IsWorld(p.world, n, g, k) /\ IdOfNode(n) = p.id /\ g[n] = p.hash
    <3>1. PICK id \in SeqRange(topo) :
            p = [id |-> id, hash |-> final[id].hash,
                 path |-> compose_path(id), world |-> World(AsNode(id))]
      BY <2>1, <2>2
    <3>2. p.id = id /\ p.hash = final[id].hash /\ p.world = World(AsNode(id))
      BY <3>1
    <3>3. id \in DOMAIN final /\ IdOfNode(AsNode(id)) = id
      BY <2>1 DEF IInv, Listed, IdsHaveDirectories, Graph, Known
    <3>4. PICK g, k : /\ IsWorld(World(AsNode(id)), AsNode(id), g, k)
                      /\ g[AsNode(id)] = final[id].hash
      BY <2>1, <3>3, WorldNow
    <3> QED BY <3>2, <3>3, <3>4
  <2>3. \A p \in past : \E n, g, k : IsWorld(p.world, n, g, k) /\ IdOfNode(n) = p.id /\ g[n] = p.hash
    BY DEF Past
  <2>4. \A p \in past' : \E n, g, k : IsWorld(p.world, n, g, k) /\ IdOfNode(n) = p.id /\ g[n] = p.hash
    BY <2>2, <2>3
  <2> QED BY <2>4 DEF Past, IsWorld, NodesIn, IsRecord, Made, IdOfNode
<1>2. CASE ~Conclude
  <2>1. \A s : visit(s) => past' = past
    BY DEF visit, Fail, OpenNode
  <2>2. past' = past
    BY <1>2, <2>1 DEF Next, Step, vars, cmd_concretize, RemoveSpec, RemoveFiles, Begin, VisitRoot,
       VisitDep, SortFails, Fail, FinishNode, EmitIndex, AppendLine, EmitDagmk, WriteRule, Interrupt,
       Edit
  <2> QED BY <2>2 DEF Past
<1> QED BY <1>1, <1>2

(***************************************************************************)
(* Theorem: if digests do not collide, a node keeps its hash between two   *)
(* runs exactly when all it is made of is the same.                        *)
(***************************************************************************)
THEOREM HashesAreMerkle ==
  ASSUME NumbersOnly, IdsDiffer, NoCollision
  PROVE  Spec => []MerkleHash
<1>1. Sound /\ GInv /\ RInv /\ Past => MerkleHash
  <2> SUFFICES ASSUME Sound, GInv, RInv, Past, Current, NEW p \in past, p.id \in DOMAIN final
               PROVE  p.hash = final[p.id].hash <=> p.world = World(AsNode(p.id))
    BY DEF MerkleHash, Done
  <2>1. repo \in Repos /\ Graph /\ Recorded /\ IInv
    BY DEF Sound, GInv, RInv, Current
  <2>2. PICK n, g, k : IsWorld(p.world, n, g, k) /\ IdOfNode(n) = p.id /\ g[n] = p.hash
    BY DEF Past
  <2>3. PICK f, j : /\ IsWorld(World(AsNode(p.id)), AsNode(p.id), f, j)
                    /\ f[AsNode(p.id)] = final[p.id].hash
    BY <2>1, WorldNow
  <2>4. IdOfNode(AsNode(p.id)) = p.id
    BY <2>1 DEF IInv, IdsHaveDirectories, Graph, Known
  <2>5. ASSUME p.hash = final[p.id].hash
        PROVE  p.world = World(AsNode(p.id))
    <3>1. p.world \subseteq World(AsNode(p.id)) /\ World(AsNode(p.id)) \subseteq p.world
      BY <2>2, <2>3, <2>5, HashFixesWorld
    <3> QED BY <3>1
  <2>6. ASSUME p.world = World(AsNode(p.id))
        PROVE  p.hash = final[p.id].hash
    BY <2>2, <2>3, <2>4, <2>6, WorldFixes
  <2> QED BY <2>5, <2>6
<1>2. Init => Sound /\ GInv /\ RInv /\ Past
  <2>1. Init => Past
    BY DEF Init, Past
  <2> QED BY <2>1, Initial, GraphInitial DEF Init, RInv, Current
<1>3. Sound /\ GInv /\ RInv /\ Past /\ [Next]_vars => Sound' /\ GInv' /\ RInv' /\ Past'
  BY Inductive, GraphInductive, RecordedInductive, PastInductive
<1> QED BY <1>1, <1>2, <1>3, PTL DEF Spec
==============================================================================
