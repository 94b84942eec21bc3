-------------------------- MODULE ByteStringsProofs ---------------------------
(***************************************************************************)
(* The functions of stdlib.c on memory and strings give what C says, for   *)
(* every memory, and for the calls in which the code has something else    *)
(* (Instead), what ByteStrings says they give.                             *)
(*                                                                         *)
(* A loop is followed by a set for every number of turns, of what its      *)
(* variables may be after them (LoopEnds); most look for a place, and end  *)
(* there (ScanEnds).                                                       *)
(***************************************************************************)
EXTENDS ByteStrings, Lemmas

\* After k turns the variables are in I[k], so after all of them in I[n].
LEMMA LoopEnds ==
  ASSUME NEW n \in Nat, NEW turn, NEW x, NEW I, x \in I[0],
         \A k \in 0..(n - 1) : \A y \in I[k] : turn[y] \in I[k + 1]
  PROVE  After(turn, x, n) \in I[n]
<1> DEFINE D == UNION {I[k] : k \in 0..n}
           T == [y \in D |-> IF turn[y] \in D THEN turn[y] ELSE x]
           F == [i \in 1..n |-> T]
           Eq(at) == at = [k \in 0..n |-> IF k = 0 THEN x ELSE turn[at[k - 1]]]
<1>1. x \in D
  OBVIOUS
<1>2. IsStep(F, n, D)
  BY <1>1 DEF IsStep
<1>3. \A k \in 0..(n - 1) : k + 1 \in 0..n
  OBVIOUS
<1>4. \A k \in 0..(n - 1) : \A y \in I[k] : y \in D /\ turn[y] \in D /\ T[y] = turn[y]
  <2> TAKE k \in 0..(n - 1)
  <2> TAKE y \in I[k]
  <2>1. y \in D
    OBVIOUS
  <2>2. turn[y] \in I[k + 1] /\ k + 1 \in 0..n
    BY <1>3
  <2>3. turn[y] \in D
    BY <2>2
  <2> QED BY <2>1, <2>3
<1>5. \A i \in 1..n : F[i] = T
  OBVIOUS
<1> HIDE DEF D, T, F
<1>6. PICK g : Iterates(g, F, n, D, x)
  BY <1>1, <1>2, Recursion
<1>7. \A k \in 0..n : g[k] \in I[k]
  <2> DEFINE S == {k \in 0..n : g[k] \in I[k]}
  <2>1. 0 \in S
    BY <1>6 DEF Iterates
  <2>2. \A k \in 0..(n - 1) : k \in S => k + 1 \in S
    <3> TAKE k \in 0..(n - 1)
    <3> HAVE k \in S
    <3>1. k + 1 \in 1..n /\ (k + 1) - 1 = k
      OBVIOUS
    <3>2. g[k + 1] = T[g[k]]
      BY <1>5, <1>6, <3>1 DEF Iterates
    <3>3. T[g[k]] = turn[g[k]] /\ turn[g[k]] \in I[k + 1]
      BY <1>4
    <3> QED BY <1>3, <3>2, <3>3
  <2> HIDE DEF S
  <2>3. \A k \in 0..n : k \in S
    BY <2>1, <2>2, UpToSet
  <2> QED BY <2>3 DEF S
<1>8. Eq(g)
  <2>1. g = [k \in 0..n |-> g[k]]
    BY <1>6 DEF Iterates
  <2>2. \A k \in 0..n : g[k] = IF k = 0 THEN x ELSE turn[g[k - 1]]
    <3> TAKE k \in 0..n
    <3>1. CASE k = 0
      BY <1>6, <3>1 DEF Iterates
    <3>2. CASE k # 0
      <4>1. k \in 1..n /\ k - 1 \in 0..(n - 1) /\ k - 1 \in 0..n
        BY <3>2
      <4>2. g[k] = T[g[k - 1]]
        BY <1>5, <1>6, <4>1 DEF Iterates
      <4>3. T[g[k - 1]] = turn[g[k - 1]]
        BY <1>4, <1>7, <4>1
      <4> QED BY <3>2, <4>2, <4>3
    <3> QED BY <3>1, <3>2
  <2> QED BY <2>1, <2>2
<1> DEFINE at == CHOOSE at : Eq(at)
<1>9. Eq(at)
  BY <1>8
<1>10. After(turn, x, n) = at[n]
  BY DEF After
<1>11. \A k \in 0..n : at[k] = IF k = 0 THEN x ELSE turn[at[k - 1]]
  BY <1>9
<1> HIDE DEF at
<1>12. \A k \in 0..n : at[k] \in I[k]
  <2> DEFINE S == {k \in 0..n : at[k] \in I[k]}
  <2>1. 0 \in S
    BY <1>11
  <2>2. \A k \in 0..(n - 1) : k \in S => k + 1 \in S
    <3> TAKE k \in 0..(n - 1)
    <3> HAVE k \in S
    <3>1. k + 1 \in 0..n /\ (k + 1) - 1 = k /\ k + 1 # 0
      OBVIOUS
    <3>2. at[k + 1] = turn[at[k]]
      BY <1>11, <3>1
    <3> QED BY <3>1, <3>2
  <2> HIDE DEF S
  <2>3. \A k \in 0..n : k \in S
    BY <2>1, <2>2, UpToSet
  <2> QED BY <2>3 DEF S
<1> QED BY <1>10, <1>12

\* What looks for a place goes up to it, and stays there.
LEMMA ScanEnds ==
  ASSUME NEW n \in Nat, NEW x \in Nat, NEW e \in Nat, x <= e, e <= x + n, NEW turn,
         \A i \in x..(e - 1) : turn[i] = i + 1,
         e < x + n => turn[e] = e
  PROVE  After(turn, x, n) = e
<1> DEFINE I == [k \in 0..n |-> {IF x + k <= e THEN x + k ELSE e}]
<1>1. x \in I[0]
  OBVIOUS
<1>2. ASSUME NEW k \in 0..(n - 1), NEW y \in I[k]
      PROVE  turn[y] \in I[k + 1]
  <2>1. k \in 0..n /\ k + 1 \in 0..n
    OBVIOUS
  <2>2. I[k + 1] = {IF x + (k + 1) <= e THEN x + (k + 1) ELSE e}
    BY <2>1
  <2>3. y = IF x + k <= e THEN x + k ELSE e
    BY <1>2, <2>1
  <2>4. CASE x + k < e
    <3>1. y = x + k /\ y \in x..(e - 1)
      BY <2>3, <2>4
    <3> QED BY <2>2, <2>4, <3>1
  <2>5. CASE x + k >= e
    <3>1. y = e /\ e < x + n
      BY <2>3, <2>5
    <3> QED BY <2>2, <2>5, <3>1
  <2> QED BY <2>4, <2>5
<1>3. n \in 0..n /\ I[n] = {e}
  OBVIOUS
<1> HIDE DEF I
<1>4. After(turn, x, n) \in I[n]
  BY <1>1, <1>2, LoopEnds
<1> QED BY <1>3, <1>4

\* The same from 0 on.
LEMMA ScanFromStart ==
  ASSUME NEW n \in Nat, NEW e \in Nat, e <= n, NEW turn,
         \A i \in 0..(e - 1) : turn[i] = i + 1,
         e < n => turn[e] = e
  PROVE  After(turn, 0, n) = e
<1>1. PICK x \in Nat : x = 0
  OBVIOUS
<1>2. x <= e /\ e <= x + n /\ (e < x + n => turn[e] = e)
  BY <1>1
<1>3. \A i \in x..(e - 1) : turn[i] = i + 1
  BY <1>1
<1>4. After(turn, x, n) = e
  BY <1>2, <1>3, ScanEnds
<1> QED BY <1>1, <1>4

\* There is a first place of some kind, or there is none before n.
LEMMA FirstPlace ==
  ASSUME NEW n \in Nat, NEW x \in Nat, NEW S
  PROVE  \E e \in Nat : /\ x <= e /\ e <= x + n
                        /\ \A i \in x..(e - 1) : i \notin S
                        /\ e < x + n => e \in S
<1> DEFINE T == {k \in Nat : k = n \/ x + k \in S}
<1>1. n \in T
  OBVIOUS
<1>2. PICK k \in Nat : k \in T /\ \A j \in 0..(k - 1) : j \notin T
  <2> HIDE DEF T
  <2> QED BY <1>1, Smallest
<1>3. k <= n
  BY <1>1, <1>2
<1>4. x + k \in Nat /\ x <= x + k /\ x + k <= x + n /\ (x + k < x + n => x + k \in S)
  BY <1>2, <1>3
<1>5. ASSUME NEW i \in x..((x + k) - 1)
      PROVE  i \notin S
  <2>1. i - x \in 0..(k - 1) /\ x + (i - x) = i
    OBVIOUS
  <2>2. i - x \notin T
    BY <1>2, <2>1
  <2> QED BY <2>1, <2>2
<1> QED BY <1>4, <1>5
------------------------------------------------------------------------------
(* Memory that is written.                                                 *)

\* The memory with n bytes of m from s on at d.
Moved(m, d, s, n) ==
  [a \in DOMAIN m |-> IF a \in Region(d, n) THEN m[s + (a - d)] ELSE m[a]]

\* y is z with c written at a.
IsWrite(y, m, z, a, c) ==
  y \in Writing(m) /\ y.i = z.i + 1 /\ y.m = [b \in DOMAIN m |-> IF b = a THEN c ELSE z.m[b]]

LEMMA WroteAt ==
  ASSUME NEW m, NEW z \in Writing(m), NEW a \in DOMAIN m, NEW c \in Nat
  PROVE  IsWrite(Wrote(z, a, c), m, z, a, c)
<1>1. z.m \in [DOMAIN m -> Nat] /\ z.i \in Nat
  BY DEF Writing
<1>2. [z.m EXCEPT ![a] = c] = [b \in DOMAIN m |-> IF b = a THEN c ELSE z.m[b]]
  BY <1>1
<1>3. [b \in DOMAIN m |-> IF b = a THEN c ELSE z.m[b]] \in [DOMAIN m -> Nat]
  BY <1>1
<1> QED BY <1>1, <1>2, <1>3 DEF Wrote, Writing, IsWrite

LEMMA BeginsThere ==
  ASSUME NEW m \in Seq(Nat)
  PROVE  Begin(m) \in Writing(m) /\ Begin(m).m = m /\ Begin(m).i = 0
<1>1. m \in [DOMAIN m -> Nat]
  OBVIOUS
<1> QED BY <1>1 DEF Begin, Writing

\* The loop has copied k bytes.
HasCopied(z, m, d, s, k) == z \in Writing(m) /\ z.i = k /\ z.m = Moved(m, d, s, k)

\* One more byte of the copy.
LEMMA OneMore ==
  ASSUME NEW m \in Seq(Nat), NEW d \in Nat, NEW s \in Nat, NEW k \in Nat,
         d + k \in DOMAIN m, s + k \in DOMAIN m, s + k \notin Region(d, k),
         NEW z, HasCopied(z, m, d, s, k)
  PROVE  HasCopied(Wrote(z, d + z.i, z.m[s + z.i]), m, d, s, k + 1)
<1> USE DEF HasCopied
<1> DEFINE y == Wrote(z, d + k, m[s + k])
<1>1. z.m[s + k] = m[s + k]
  BY DEF Moved
<1>2. m[s + k] \in Nat
  OBVIOUS
<1>3. y \in Writing(m) /\ y.i = k + 1 /\ y.m = [b \in DOMAIN m |-> IF b = d + k THEN m[s + k] ELSE z.m[b]]
  <2>1. IsWrite(y, m, z, d + k, m[s + k])
    BY <1>2, WroteAt
  <2> QED BY <2>1 DEF IsWrite
<1>4. \A b \in DOMAIN m :
        (IF b = d + k THEN m[s + k] ELSE z.m[b])
          = IF b \in Region(d, k + 1) THEN m[s + (b - d)] ELSE m[b]
  <2> TAKE b \in DOMAIN m
  <2>1. b \in Nat
    OBVIOUS
  <2>2. CASE b = d + k
    <3>1. b \in Region(d, k + 1) /\ b - d = k
      BY <2>1, <2>2 DEF Region
    <3> QED BY <2>2, <3>1
  <2>3. CASE b # d + k
    <3>1. b \in Region(d, k + 1) <=> b \in Region(d, k)
      BY <2>1, <2>3 DEF Region
    <3>2. z.m[b] = IF b \in Region(d, k) THEN m[s + (b - d)] ELSE m[b]
      BY DEF Moved
    <3> QED BY <2>3, <3>1, <3>2
  <2> QED BY <2>2, <2>3
<1>5. y.m = Moved(m, d, s, k + 1)
  BY <1>3, <1>4 DEF Moved
<1> QED BY <1>1, <1>3, <1>5

LEMMA NoneMoved ==
  ASSUME NEW m \in Seq(Nat), NEW d \in Nat, NEW s \in Nat
  PROVE  Moved(m, d, s, 0) = m
<1>1. Region(d, 0) = {}
  BY DEF Region
<1> QED BY <1>1 DEF Moved

\* No byte is read after it was written, and every one is there.
Copies(m, d, s, n) ==
  \A k \in 0..(n - 1) : d + k \in DOMAIN m /\ s + k \in DOMAIN m /\ s + k \notin Region(d, k)

LEMMA CopiedIs ==
  ASSUME NEW m \in Seq(Nat), NEW d \in Nat, NEW s \in Nat, NEW n \in Nat, Copies(m, d, s, n)
  PROVE  Copied(m, d, s, n) = Moved(m, d, s, n)
<1> DEFINE turn == [z \in Writing(m) |-> Wrote(z, d + z.i, z.m[s + z.i])]
           I == [k \in 0..n |-> {z \in Writing(m) : z.i = k /\ z.m = Moved(m, d, s, k)}]
<1>1. Begin(m) \in I[0]
  BY BeginsThere, NoneMoved
<1>2. ASSUME NEW k \in 0..(n - 1), NEW z \in I[k]
      PROVE  turn[z] \in I[k + 1]
  <2>1. k \in 0..n /\ k + 1 \in 0..n /\ k \in Nat
    OBVIOUS
  <2>2. z \in Writing(m) /\ z.i = k /\ z.m = Moved(m, d, s, k)
    BY <1>2, <2>1
  <2>3. d + k \in DOMAIN m /\ s + k \in DOMAIN m /\ s + k \notin Region(d, k)
    BY DEF Copies
  <2> DEFINE y == Wrote(z, d + z.i, z.m[s + z.i])
  <2>4. y \in Writing(m) /\ y.i = k + 1 /\ y.m = Moved(m, d, s, k + 1)
    <3>1. HasCopied(z, m, d, s, k)
      BY <2>2 DEF HasCopied
    <3>2. HasCopied(y, m, d, s, k + 1)
      BY <2>1, <2>3, <3>1, OneMore
    <3> QED BY <3>2 DEF HasCopied
  <2>5. turn[z] = y
    BY <2>2
  <2> HIDE DEF y, turn
  <2> QED BY <2>1, <2>4, <2>5
<1>3. n \in 0..n
  OBVIOUS
<1>4. \A z \in I[n] : z.m = Moved(m, d, s, n)
  BY <1>3
<1> HIDE DEF I, turn
<1>5. After(turn, Begin(m), n) \in I[n]
  BY <1>1, <1>2, LoopEnds
<1>6. After(turn, Begin(m), n).m = Moved(m, d, s, n)
  BY <1>4, <1>5
<1> QED BY <1>6 DEF Copied, turn

LEMMA SetIs ==
  ASSUME NEW m \in Seq(Nat), NEW s \in Nat, NEW n \in Nat, NEW c \in Nat,
         Region(s, n) \subseteq DOMAIN m
  PROVE  memset(m, s, c, n) = [a \in DOMAIN m |-> IF a \in Region(s, n) THEN c ELSE m[a]]
<1> DEFINE turn == [z \in Writing(m) |-> Wrote(z, s + z.i, c)]
           Filling(k) == [a \in DOMAIN m |-> IF a \in Region(s, k) THEN c ELSE m[a]]
           I == [k \in 0..n |-> {z \in Writing(m) : z.i = k /\ z.m = Filling(k)}]
<1>1. Begin(m) \in I[0]
  <2>1. Region(s, 0) = {}
    BY DEF Region
  <2>2. Filling(0) = m
    BY <2>1
  <2> QED BY <2>2, BeginsThere
<1>2. ASSUME NEW k \in 0..(n - 1), NEW z \in I[k]
      PROVE  turn[z] \in I[k + 1]
  <2>1. k \in 0..n /\ k + 1 \in 0..n /\ k \in Nat
    OBVIOUS
  <2>2. z \in Writing(m) /\ z.i = k /\ z.m = Filling(k)
    BY <1>2, <2>1
  <2>3. s + k \in DOMAIN m
    BY DEF Region
  <2> DEFINE y == Wrote(z, s + k, c)
  <2>4. y \in Writing(m) /\ y.i = k + 1 /\ y.m = [b \in DOMAIN m |-> IF b = s + k THEN c ELSE z.m[b]]
    <3>1. IsWrite(y, m, z, s + k, c)
      BY <2>2, <2>3, WroteAt
    <3> QED BY <2>2, <3>1 DEF IsWrite
  <2>5. \A b \in DOMAIN m : (IF b = s + k THEN c ELSE z.m[b]) = IF b \in Region(s, k + 1) THEN c ELSE m[b]
    <3> TAKE b \in DOMAIN m
    <3>1. b \in Nat
      OBVIOUS
    <3>2. b \in Region(s, k + 1) <=> b \in Region(s, k) \/ b = s + k
      BY <2>1, <3>1 DEF Region
    <3>3. z.m[b] = IF b \in Region(s, k) THEN c ELSE m[b]
      BY <2>2
    <3> QED BY <3>2, <3>3
  <2>6. y.m = Filling(k + 1)
    BY <2>4, <2>5
  <2>7. turn[z] = y
    BY <2>2
  <2> HIDE DEF y, turn, Filling
  <2> QED BY <2>1, <2>4, <2>6, <2>7
<1>3. n \in 0..n
  OBVIOUS
<1>4. \A z \in I[n] : z.m = Filling(n)
  BY <1>3
<1> HIDE DEF I, turn, Filling
<1>5. After(turn, Begin(m), n) \in I[n]
  BY <1>1, <1>2, LoopEnds
<1>6. After(turn, Begin(m), n).m = Filling(n)
  BY <1>4, <1>5
<1> QED BY <1>6 DEF memset, turn, Filling
\* What is moved up is found again as far behind as it goes.
LEMMA MovedUpIs ==
  ASSUME bytes \in Seq(Nat), NEW d \in Nat, NEW s \in Nat, NEW n \in Nat, s < d,
         InMemory(d, n), InMemory(s, n)
  PROVE  memmove(bytes, d, s, n) = Repeated(memmove(bytes, d, s, n), d, s, n)
<1> DEFINE turn == [z \in Writing(bytes) |-> Wrote(z, d + z.i, z.m[s + z.i])]
           Rep(m, k) ==
             \A a \in DOMAIN bytes : m[a] = IF a \in Region(d, k) THEN m[a - (d - s)] ELSE bytes[a]
           I == [k \in 0..n |-> {z \in Writing(bytes) : z.i = k /\ Rep(z.m, k)}]
<1>1. Begin(bytes) \in I[0]
  <2>1. Region(d, 0) = {}
    BY DEF Region
  <2>2. Rep(bytes, 0)
    BY <2>1
  <2>3. Begin(bytes) \in Writing(bytes) /\ Begin(bytes).m = bytes /\ Begin(bytes).i = 0
    BY BeginsThere
  <2> HIDE DEF Rep
  <2> QED BY <2>2, <2>3
<1>2. ASSUME NEW k \in 0..(n - 1), NEW z \in I[k]
      PROVE  turn[z] \in I[k + 1]
  <2>1. k \in 0..n /\ k + 1 \in 0..n /\ k \in Nat
    OBVIOUS
  <2>2. z \in Writing(bytes) /\ z.i = k /\ Rep(z.m, k)
    BY <1>2, <2>1
  <2>3. d + k \in DOMAIN bytes /\ s + k \in DOMAIN bytes
    <3>1. d + k \in Region(d, n) /\ s + k \in Region(s, n)
      BY DEF Region
    <3> QED BY <3>1 DEF InMemory
  <2>4. z.m[s + k] \in Nat
    BY <2>2, <2>3 DEF Writing
  <2> DEFINE y == Wrote(z, d + k, z.m[s + k])
  <2>5. /\ y \in Writing(bytes) /\ y.i = k + 1
        /\ y.m = [b \in DOMAIN bytes |-> IF b = d + k THEN z.m[s + k] ELSE z.m[b]]
    <3>1. IsWrite(y, bytes, z, d + k, z.m[s + k])
      BY <2>2, <2>3, <2>4, WroteAt
    <3> QED BY <2>2, <3>1 DEF IsWrite
  <2>6. turn[z] = y
    BY <2>2
  <2> HIDE DEF y, turn
  <2>7. Rep(y.m, k + 1)
    <3> SUFFICES ASSUME NEW a \in DOMAIN bytes
                 PROVE  y.m[a] = IF a \in Region(d, k + 1) THEN y.m[a - (d - s)] ELSE bytes[a]
      OBVIOUS
    <3>1. a \in Nat
      OBVIOUS
    <3>2. z.m[a] = IF a \in Region(d, k) THEN z.m[a - (d - s)] ELSE bytes[a]
      BY <2>2
    <3>3. CASE a = d + k
      <4>1. a \in Region(d, k + 1) /\ a - (d - s) = s + k /\ s + k # d + k
        BY <2>1, <3>1, <3>3 DEF Region
      <4>2. y.m[a] = z.m[s + k] /\ y.m[s + k] = z.m[s + k]
        BY <2>3, <2>5, <3>3, <4>1
      <4> QED BY <4>1, <4>2
    <3>4. CASE a # d + k
      <4>1. a \in Region(d, k + 1) <=> a \in Region(d, k)
        BY <2>1, <3>1, <3>4 DEF Region
      <4>2. y.m[a] = z.m[a]
        BY <2>5, <3>4
      <4>3. ASSUME a \in Region(d, k)
            PROVE  y.m[a - (d - s)] = z.m[a - (d - s)]
        <5>1. a - (d - s) \in Region(s, n) /\ a - (d - s) # d + k
          BY <2>1, <3>1, <4>3 DEF Region
        <5> QED BY <2>5, <5>1 DEF InMemory
      <4> QED BY <3>2, <4>1, <4>2, <4>3
    <3> QED BY <3>3, <3>4
  <2> HIDE DEF Rep
  <2> QED BY <2>1, <2>5, <2>6, <2>7
<1>3. n \in 0..n
  OBVIOUS
<1>4. \A z \in I[n] : z \in Writing(bytes) /\ Rep(z.m, n)
  BY <1>3
<1> DEFINE m == After(turn, Begin(bytes), n).m
<1>5. After(turn, Begin(bytes), n) \in Writing(bytes) /\ Rep(m, n)
  <2> HIDE DEF I, turn, Rep
  <2>1. After(turn, Begin(bytes), n) \in I[n]
    BY <1>1, <1>2, LoopEnds
  <2> QED BY <1>4, <2>1
<1>6. memmove(bytes, d, s, n) = m
  BY DEF memmove, Copied
<1>7. m \in [DOMAIN bytes -> Nat]
  <2> HIDE DEF turn
  <2> QED BY <1>5 DEF Writing
<1> HIDE DEF m
<1>8. m = Repeated(m, d, s, n)
  BY <1>5, <1>7 DEF Repeated
<1> QED BY <1>6, <1>8
------------------------------------------------------------------------------
(* Strings.                                                                *)

LEMMA MinIs ==
  ASSUME NEW S \in SUBSET Int, NEW e \in S, \A y \in S : e <= y
  PROVE  Min(S) = e
<1>1. Min(S) \in S /\ \A y \in S : Min(S) <= y
  BY DEF Min
<1>2. Min(S) <= e /\ e <= Min(S) /\ Min(S) \in Int /\ e \in Int
  BY <1>1
<1> QED BY <1>2

LEMMA MaxIs ==
  ASSUME NEW S \in SUBSET Int, NEW e \in S, \A y \in S : y <= e
  PROVE  Max(S) = e
<1>1. Max(S) \in S /\ \A y \in S : y <= Max(S)
  BY DEF Max
<1>2. Max(S) <= e /\ e <= Max(S) /\ Max(S) \in Int /\ e \in Int
  BY <1>1
<1> QED BY <1>2

\* A string from s on has its 0 at e.
IsString(m, s, e) ==
  /\ s \in 1..Len(m) /\ e \in s..Len(m) /\ m[e] = 0
  /\ \A a \in s..(e - 1) : m[a] # 0

LEMMA HasEnd ==
  ASSUME bytes \in Seq(Nat), NEW s \in Strs
  PROVE  \E e \in Nat : IsString(bytes, s, e)
<1>1. s \in 1..Len(bytes) /\ Ends(s) # {}
  BY DEF Strs
<1>2. PICK b \in s..Len(bytes) : bytes[b] = 0
  BY <1>1 DEF Ends
<1> DEFINE T == {k \in s..Len(bytes) : bytes[k] = 0}
<1>3. b \in Nat /\ b \in T
  BY <1>1, <1>2
<1> HIDE DEF T
<1>4. PICK e \in Nat : e \in T /\ \A j \in 0..(e - 1) : j \notin T
  BY <1>3, Smallest
<1>5. e \in s..Len(bytes) /\ bytes[e] = 0
  BY <1>4 DEF T
<1>6. ASSUME NEW a \in s..(e - 1)
      PROVE  bytes[a] # 0
  <2>1. a \in 0..(e - 1) /\ a \in s..Len(bytes)
    BY <1>1, <1>5
  <2> QED BY <1>4, <2>1 DEF T
<1> QED BY <1>1, <1>5, <1>6 DEF IsString

\* What is said of a string by its end.
LEMMA StrTo ==
  ASSUME bytes \in Seq(Nat), NEW s, NEW e, IsString(bytes, s, e)
  PROVE  /\ s \in Nat /\ e \in Nat /\ s <= e
         /\ Str(s) = [k \in 1..(e - s) |-> bytes[s + k - 1]]
         /\ Str(s) \in Seq(Nat)
         /\ Len(Str(s)) = e - s
         /\ Whole(s) = (e - s) + 1
         /\ s \in Strs
<1>1. s \in 1..Len(bytes) /\ e \in s..Len(bytes) /\ bytes[e] = 0 /\ \A a \in s..(e - 1) : bytes[a] # 0
  BY DEF IsString
<1>2. Ends(s) \in SUBSET Int /\ e \in Ends(s)
  BY <1>1 DEF Ends
<1>3. \A y \in Ends(s) : e <= y
  BY <1>1 DEF Ends
<1>4. Min(Ends(s)) = e
  BY <1>2, <1>3, MinIs
<1>5. s \in Nat /\ e \in Nat /\ s <= e
  BY <1>1
<1>6. Str(s) = [k \in 1..(e - s) |-> bytes[s + k - 1]]
  BY <1>1, <1>4 DEF Str
<1>7. \A k \in 1..(e - s) : bytes[s + k - 1] \in Nat
  BY <1>1
<1>8. Str(s) \in Seq(Nat) /\ Len(Str(s)) = e - s
  BY <1>1, <1>5, <1>6, <1>7
<1>9. s \in Strs
  BY <1>1, <1>2 DEF Strs
<1> QED BY <1>5, <1>6, <1>8, <1>9 DEF Whole

LEMMA LengthIs ==
  ASSUME NEW m \in Seq(Nat), NEW s, NEW e, IsString(m, s, e)
  PROVE  strlen(m, s) = e - s
<1> DEFINE turn == [i \in Nat |-> IF m[s + i] = 0 THEN i ELSE i + 1]
<1>1. Len(m) \in Nat /\ e - s \in Nat /\ 0 <= e - s /\ e - s <= 0 + Len(m) /\ 0 \in Nat
  BY DEF IsString
<1>2. ASSUME NEW i \in 0..((e - s) - 1)
      PROVE  turn[i] = i + 1
  <2>1. s + i \in s..(e - 1) /\ i \in Nat
    BY DEF IsString
  <2> QED BY <2>1 DEF IsString
<1>3. turn[e - s] = e - s
  <2>1. s + (e - s) = e
    BY DEF IsString
  <2> QED BY <1>1, <2>1 DEF IsString
<1> HIDE DEF turn
<1>4. After(turn, 0, Len(m)) = e - s
  BY <1>1, <1>2, <1>3, ScanFromStart
<1> QED BY <1>4 DEF strlen, turn

LEMMA StringCopyIs ==
  ASSUME NEW m \in Seq(Nat), NEW d \in Nat, NEW s, NEW e, IsString(m, s, e),
         Copies(m, d, s, (e - s) + 1)
  PROVE  strcpy(m, d, s) = Moved(m, d, s, (e - s) + 1)
<1>1. s \in Nat /\ e \in Nat /\ e - s \in Nat /\ e - s <= Len(m) /\ s + (e - s) = e /\ m[e] = 0
  BY DEF IsString
<1>2. PICK len \in Nat : len = e - s
  BY <1>1
<1> DEFINE Stay(k) == IF k <= len THEN k ELSE len
           turn == [z \in Writing(m) |->
                      IF z.m[s + z.i] = 0 THEN z ELSE Wrote(z, d + z.i, z.m[s + z.i])]
           I == [k \in 0..Len(m) |-> {z \in Writing(m) : z.i = Stay(k) /\ z.m = Moved(m, d, s, Stay(k))}]
<1>3. Begin(m) \in I[0]
  <2>1. Stay(0) = 0 /\ 0 \in 0..Len(m)
    OBVIOUS
  <2>2. Begin(m) \in Writing(m) /\ Begin(m).i = 0 /\ Begin(m).m = Moved(m, d, s, 0)
    BY <1>1, BeginsThere, NoneMoved
  <2> HIDE DEF Stay
  <2> QED BY <2>1, <2>2
<1>4. \A k \in 0..len : d + k \in DOMAIN m /\ s + k \in DOMAIN m /\ s + k \notin Region(d, k)
  BY <1>2 DEF Copies
<1>5. ASSUME NEW k \in 0..(Len(m) - 1), NEW z \in I[k]
      PROVE  turn[z] \in I[k + 1]
  <2>1. k \in 0..Len(m) /\ k + 1 \in 0..Len(m) /\ k \in Nat
    OBVIOUS
  <2>2. z \in Writing(m) /\ z.i = Stay(k) /\ z.m = Moved(m, d, s, Stay(k))
    BY <1>5, <2>1
  <2>3. Stay(k) \in 0..len /\ Stay(k) \in Nat
    BY <2>1
  <2>4. z.m[s + z.i] = m[s + z.i]
    <3> HIDE DEF Stay
    <3> QED BY <1>4, <2>2, <2>3 DEF Moved
  <2>5. turn[z] = IF m[s + z.i] = 0 THEN z ELSE Wrote(z, d + z.i, z.m[s + z.i])
    BY <2>2, <2>4
  <2>6. CASE k < len
    <3>1. Stay(k) = k /\ Stay(k + 1) = k + 1
      BY <2>1, <2>6
    <3>2. s + k \in s..(e - 1)
      BY <1>1, <1>2, <2>6
    <3>3. m[s + z.i] # 0
      <4> HIDE DEF Stay
      <4> QED BY <2>2, <3>1, <3>2 DEF IsString
    <3> DEFINE y == Wrote(z, d + z.i, z.m[s + z.i])
    <3>4. k \in 0..len
      BY <2>6
    <3>5. z.i = k /\ z.m = Moved(m, d, s, k)
      BY <2>2, <3>1
    <3>8. d + k \in DOMAIN m /\ s + k \in DOMAIN m /\ s + k \notin Region(d, k)
      BY <1>4, <3>4
    <3>9. HasCopied(z, m, d, s, k)
      BY <2>2, <3>5 DEF HasCopied
    <3>10. HasCopied(y, m, d, s, k + 1)
      BY <1>1, <2>1, <3>8, <3>9, OneMore
    <3>6. y \in Writing(m) /\ y.i = k + 1 /\ y.m = Moved(m, d, s, k + 1)
      BY <3>10 DEF HasCopied
    <3>7. turn[z] = y
      BY <2>5, <3>3
    <3> HIDE DEF y, turn, Stay
    <3> QED BY <2>1, <3>1, <3>6, <3>7
  <2>7. CASE k >= len
    <3>1. Stay(k) = len /\ Stay(k + 1) = len
      BY <2>1, <2>7
    <3>2. m[s + z.i] = 0
      <4> HIDE DEF Stay
      <4> QED BY <1>1, <1>2, <2>2, <3>1
    <3>3. turn[z] = z
      BY <2>5, <3>2
    <3> HIDE DEF turn, Stay
    <3> QED BY <2>1, <2>2, <3>1, <3>3
  <2> QED BY <2>1, <2>6, <2>7
<1>6. Stay(Len(m)) = len
  BY <1>1, <1>2
<1>7. \A z \in I[Len(m)] : z \in Writing(m) /\ z.i = len /\ z.m = Moved(m, d, s, len)
  BY <1>6
<1> DEFINE z == After(turn, Begin(m), Len(m))
<1>8. z \in I[Len(m)]
  <2>1. Len(m) \in Nat
    OBVIOUS
  <2> HIDE DEF I, turn
  <2> QED BY <1>3, <1>5, <2>1, LoopEnds
<1>9. z \in Writing(m) /\ z.i = len /\ z.m = Moved(m, d, s, len)
  <2> HIDE DEF z, I
  <2> QED BY <1>7, <1>8
<1>10. strcpy(m, d, s) = Ended(z, d)
  BY DEF strcpy
<1> HIDE DEF z, I, turn, Stay
<1>11. Ended(z, d) = Moved(m, d, s, len + 1)
  <2>1. z.m \in [DOMAIN m -> Nat]
    BY <1>9 DEF Writing
  <2>2. Ended(z, d) = [b \in DOMAIN m |-> IF b = d + len THEN 0 ELSE z.m[b]]
    BY <1>9, <2>1 DEF Ended
  <2>3. \A b \in DOMAIN m :
          (IF b = d + len THEN 0 ELSE z.m[b]) = IF b \in Region(d, len + 1) THEN m[s + (b - d)] ELSE m[b]
    <3> TAKE b \in DOMAIN m
    <3>1. b \in Nat
      OBVIOUS
    <3>2. CASE b = d + len
      <4>1. b \in Region(d, len + 1) /\ s + (b - d) = e
        BY <1>1, <1>2, <3>1, <3>2 DEF Region
      <4> QED BY <1>1, <3>2, <4>1
    <3>3. CASE b # d + len
      <4>1. b \in Region(d, len + 1) <=> b \in Region(d, len)
        BY <3>1, <3>3 DEF Region
      <4>2. z.m[b] = IF b \in Region(d, len) THEN m[s + (b - d)] ELSE m[b]
        BY <1>9 DEF Moved
      <4> QED BY <3>3, <4>1, <4>2
    <3> QED BY <3>2, <3>3
  <2> QED BY <2>2, <2>3 DEF Moved
<1> QED BY <1>2, <1>10, <1>11

\* The loop ends with the count, or behind the 0.
LEMMA BoundedCopyIs ==
  ASSUME NEW m \in Seq(Nat), NEW d \in Nat, NEW s, NEW e, IsString(m, s, e),
         NEW n \in Nat, NEW w \in Nat, w = (IF n <= (e - s) + 1 THEN n ELSE (e - s) + 1),
         Copies(m, d, s, w)
  PROVE  strncpy(m, d, s, n) = Moved(m, d, s, w)
<1> DEFINE turn == [z \in Writing(m) |->
                      IF z.i > 0 /\ z.m[s + z.i - 1] = 0 THEN z ELSE Wrote(z, d + z.i, z.m[s + z.i])]
           Upto(k) == IF k <= w THEN k ELSE w
           I == [k \in 0..n |-> {z \in Writing(m) : z.i = Upto(k) /\ z.m = Moved(m, d, s, Upto(k))}]
<1>2. s \in Nat /\ e \in Nat /\ s <= e /\ w <= n
  BY DEF IsString
<1>1. Begin(m) \in I[0]
  <2>1. Begin(m) \in Writing(m) /\ Begin(m).i = 0 /\ Begin(m).m = Moved(m, d, s, 0)
    BY <1>2, BeginsThere, NoneMoved
  <2>2. Upto(0) = 0 /\ 0 \in 0..n
    OBVIOUS
  <2> HIDE DEF Upto
  <2> QED BY <2>1, <2>2
\* What has been copied and is before the next byte is as it was.
<1>8. ASSUME NEW k \in 1..w
      PROVE  Moved(m, d, s, k)[s + (k - 1)] = m[s + (k - 1)]
  <2>1. k - 1 \in 0..(w - 1) /\ k \in Nat
    BY <1>2
  <2>2. s + (k - 1) \in DOMAIN m /\ s + (k - 1) \notin Region(d, k - 1)
    BY <2>1 DEF Copies
  <2>3. s + (k - 1) \in Region(d, k) => s = d
    BY <1>2, <2>1, <2>2 DEF Region
  <2>4. Moved(m, d, s, k)[s + (k - 1)]
          = IF s + (k - 1) \in Region(d, k) THEN m[s + ((s + (k - 1)) - d)] ELSE m[s + (k - 1)]
    BY <2>2 DEF Moved
  <2>5. s = d => (s + (k - 1)) - d = k - 1
    BY <1>2, <2>1
  <2> QED BY <2>3, <2>4, <2>5
<1>3. ASSUME NEW k \in 0..(n - 1), NEW z \in I[k]
      PROVE  turn[z] \in I[k + 1]
  <2>1. k \in 0..n /\ k + 1 \in 0..n /\ k \in Nat
    OBVIOUS
  <2>2. z \in Writing(m) /\ z.i = Upto(k) /\ z.m = Moved(m, d, s, Upto(k))
    BY <1>3, <2>1
  <2>3. CASE k < w
    <3>1. Upto(k) = k /\ Upto(k + 1) = k + 1 /\ k \in 0..(w - 1)
      BY <2>1, <2>3
    <3>2. d + k \in DOMAIN m /\ s + k \in DOMAIN m /\ s + k \notin Region(d, k)
      BY <3>1 DEF Copies
    <3> DEFINE y == Wrote(z, d + z.i, z.m[s + z.i])
    <3>3. y \in Writing(m) /\ y.i = k + 1 /\ y.m = Moved(m, d, s, k + 1)
      <4>1. HasCopied(z, m, d, s, k)
        BY <2>2, <3>1 DEF HasCopied
      <4>2. HasCopied(y, m, d, s, k + 1)
        BY <1>2, <2>1, <3>2, <4>1, OneMore
      <4> QED BY <4>2 DEF HasCopied
    <3>4. ~(k > 0 /\ z.m[s + k - 1] = 0)
      <4> SUFFICES ASSUME k > 0 PROVE z.m[s + k - 1] # 0
        OBVIOUS
      <4>1. k \in 1..w /\ s + k - 1 = s + (k - 1) /\ s + (k - 1) \in s..(e - 1)
        BY <1>2, <2>1, <2>3
      <4>2. z.m[s + (k - 1)] = m[s + (k - 1)]
        BY <1>8, <2>2, <3>1, <4>1
      <4> QED BY <4>1, <4>2 DEF IsString
    <3>5. turn[z] = y
      BY <2>2, <3>1, <3>4
    <3> HIDE DEF y, turn, Upto
    <3> QED BY <2>1, <3>1, <3>3, <3>5
  <2>4. CASE k >= w
    <3>1. Upto(k) = w /\ Upto(k + 1) = w
      BY <2>1, <2>4
    <3>2. w = (e - s) + 1 /\ w \in 1..w /\ s + w - 1 = e /\ s + (w - 1) = e
      BY <1>2, <2>1, <2>4
    <3>3. z.m[e] = 0
      <4>1. z.m[e] = m[e]
        BY <1>8, <2>2, <3>1, <3>2
      <4> QED BY <4>1 DEF IsString
    <3>4. turn[z] = z
      <4>1. z.i = w /\ z.i > 0 /\ z.m[s + z.i - 1] = 0
        <5>1. z.i = w
          BY <2>2, <3>1
        <5> HIDE DEF Upto
        <5> QED BY <3>2, <3>3, <5>1
      <4> QED BY <2>2, <4>1
    <3> HIDE DEF turn, Upto
    <3> QED BY <2>1, <2>2, <3>1, <3>4
  <2> QED BY <2>1, <2>3, <2>4
<1>4. n \in 0..n /\ Upto(n) = w
  BY <1>2
<1>5. \A z \in I[n] : z.m = Moved(m, d, s, w)
  BY <1>4
<1> HIDE DEF I, turn, Upto
<1>6. After(turn, Begin(m), n) \in I[n]
  BY <1>1, <1>3, LoopEnds
<1>7. After(turn, Begin(m), n).m = Moved(m, d, s, w)
  BY <1>5, <1>6
<1> QED BY <1>7 DEF strncpy, turn
------------------------------------------------------------------------------
(* Comparisons.                                                            *)

\* The first p of two runs of bytes are the same, and then they are not.
SameUpTo(m, s1, s2, p) == \A i \in 0..(p - 1) : m[s1 + i] = m[s2 + i]

LEMMA DiffersAt ==
  ASSUME NEW m, NEW s1 \in Nat, NEW s2 \in Nat, NEW n \in Nat
  PROVE  \E p \in Nat : /\ Differs(m, s1, s2, n) = p /\ p <= n /\ SameUpTo(m, s1, s2, p)
                        /\ p < n => m[s1 + p] # m[s2 + p]
<1> DEFINE T == {i \in Nat : m[s1 + i] # m[s2 + i]}
           turn == [i \in Nat |-> IF m[s1 + i] # m[s2 + i] THEN i ELSE i + 1]
<1>1. PICK x \in Nat : x = 0
  OBVIOUS
<1>2. PICK p \in Nat : x <= p /\ p <= x + n /\ (\A i \in x..(p - 1) : i \notin T) /\ (p < x + n => p \in T)
  <2> HIDE DEF T
  <2> QED BY FirstPlace
<1>3. p <= n /\ (p < n => m[s1 + p] # m[s2 + p] /\ turn[p] = p)
  BY <1>1, <1>2
<1>4. ASSUME NEW i \in 0..(p - 1)
      PROVE  m[s1 + i] = m[s2 + i] /\ turn[i] = i + 1
  BY <1>1, <1>2
<1>5. After(turn, 0, n) = p
  <2> HIDE DEF turn
  <2> QED BY <1>3, <1>4, ScanFromStart
<1> QED BY <1>3, <1>4, <1>5 DEF Differs, SameUpTo

\* Of two strings, those bytes are not 0 either, and are in both.
Part(m, s1, e1, s2, e2, n, p) ==
  /\ p \in Nat /\ p <= n /\ p <= e1 - s1 /\ p <= e2 - s2 /\ SameUpTo(m, s1, s2, p)
  /\ p < n => m[s1 + p] # m[s2 + p] \/ (m[s1 + p] = 0 /\ p = e1 - s1 /\ p = e2 - s2)

LEMMA PartingAt ==
  ASSUME NEW m \in Seq(Nat), NEW s1, NEW e1, IsString(m, s1, e1),
         NEW s2, NEW e2, IsString(m, s2, e2), NEW n \in Nat
  PROVE  \E p \in Nat : Parting(m, s1, s2, n) = p /\ Part(m, s1, e1, s2, e2, n, p)
<1> DEFINE T == {i \in Nat : m[s1 + i] # m[s2 + i] \/ m[s1 + i] = 0}
           turn == [i \in Nat |-> IF m[s1 + i] # m[s2 + i] \/ m[s1 + i] = 0 THEN i ELSE i + 1]
<1>1. PICK x \in Nat : x = 0
  OBVIOUS
<1>2. PICK p \in Nat : x <= p /\ p <= x + n /\ (\A i \in x..(p - 1) : i \notin T) /\ (p < x + n => p \in T)
  <2> HIDE DEF T
  <2> QED BY FirstPlace
<1>3. p <= n /\ (p < n => (m[s1 + p] # m[s2 + p] \/ m[s1 + p] = 0) /\ turn[p] = p)
  BY <1>1, <1>2
<1>4. ASSUME NEW i \in 0..(p - 1)
      PROVE  m[s1 + i] = m[s2 + i] /\ m[s1 + i] # 0 /\ turn[i] = i + 1
  BY <1>1, <1>2
<1>5. After(turn, 0, n) = p
  <2> HIDE DEF turn
  <2> QED BY <1>3, <1>4, ScanFromStart
<1>6. /\ s1 \in Nat /\ e1 \in Nat /\ s1 <= e1 /\ m[e1] = 0
      /\ s2 \in Nat /\ e2 \in Nat /\ s2 <= e2 /\ m[e2] = 0
  BY DEF IsString
<1>7. p <= e1 - s1
  <2> SUFFICES ASSUME p > e1 - s1 PROVE FALSE
    BY <1>6
  <2>1. e1 - s1 \in 0..(p - 1) /\ s1 + (e1 - s1) = e1
    BY <1>6
  <2> QED BY <1>4, <1>6, <2>1
<1>8. p <= e2 - s2
  <2> SUFFICES ASSUME p > e2 - s2 PROVE FALSE
    BY <1>6
  <2>1. e2 - s2 \in 0..(p - 1) /\ s2 + (e2 - s2) = e2
    BY <1>6
  <2>2. m[s1 + (e2 - s2)] = m[s2 + (e2 - s2)] /\ m[s1 + (e2 - s2)] # 0
    BY <1>4, <2>1
  <2> QED BY <1>6, <2>1, <2>2
<1>9. ASSUME p < n, m[s1 + p] = m[s2 + p]
      PROVE  m[s1 + p] = 0 /\ p = e1 - s1 /\ p = e2 - s2
  <2>1. m[s1 + p] = 0 /\ m[s2 + p] = 0
    BY <1>3, <1>9
  <2>2. s1 + p \notin s1..(e1 - 1)
    BY <2>1 DEF IsString
  <2>3. s2 + p \notin s2..(e2 - 1)
    BY <2>1 DEF IsString
  <2> QED BY <1>6, <1>7, <1>8, <2>1, <2>2, <2>3
<1>10. Parting(m, s1, s2, n) = p
  BY <1>5 DEF Parting
<1>11. SameUpTo(m, s1, s2, p)
  BY <1>4 DEF SameUpTo
<1> HIDE DEF turn, T
<1>12. Part(m, s1, e1, s2, e2, n, p)
  BY <1>3, <1>7, <1>8, <1>9, <1>11 DEF Part
<1> QED BY <1>10, <1>12

\* The order of two sequences, by the first place they differ at.
LEMMA OrderBy ==
  ASSUME NEW x \in Seq(Nat), NEW y \in Seq(Nat), Len(x) = Len(y), NEW k \in 1..Len(x),
         x[k] # y[k], \A j \in 1..(k - 1) : x[j] = y[j]
  PROVE  Order(x, y) = Sign(x[k] - y[k])
<1> DEFINE different == {j \in DOMAIN x : x[j] # y[j]}
<1>1. different \in SUBSET Int /\ k \in different
  OBVIOUS
<1>2. \A j \in different : k <= j
  <2> TAKE j \in different
  <2>1. j \in 1..Len(x) /\ x[j] # y[j]
    OBVIOUS
  <2>2. j \notin 1..(k - 1)
    BY <2>1
  <2> QED BY <2>1, <2>2
<1>3. Min(different) = k /\ different # {}
  <2> HIDE DEF different
  <2> QED BY <1>1, <1>2, MinIs
<1> QED BY <1>3 DEF Order

LEMMA OrderOfSame ==
  ASSUME NEW x, NEW y, \A j \in DOMAIN x : x[j] = y[j]
  PROVE  Order(x, y) = 0
BY DEF Order

LEMMA BytesAtIs ==
  ASSUME bytes \in Seq(Nat), NEW s \in 1..Len(bytes), NEW n \in Nat, InMemory(s, n)
  PROVE  /\ BytesAt(s, n) \in Seq(Nat) /\ Len(BytesAt(s, n)) = n
         /\ \A k \in 1..n : BytesAt(s, n)[k] = bytes[s + k - 1]
<1>1. n = 0 \/ s + n - 1 \in 1..Len(bytes)
  BY DEF InMemory, Region
<1>2. s \in Nat /\ s >= 1 /\ s + n - 1 <= Len(bytes)
  BY <1>1
<1> QED BY <1>2 DEF BytesAt

LEMMA CompareIs ==
  ASSUME bytes \in Seq(Nat), NEW d \in 1..Len(bytes), NEW s \in 1..Len(bytes), NEW n \in Nat,
         InMemory(d, n), InMemory(s, n)
  PROVE  Sign(memcmp(bytes, d, s, n)) = Order(BytesAt(d, n), BytesAt(s, n))
<1>1. d \in Nat /\ s \in Nat
  OBVIOUS
<1>2. PICK p \in Nat : /\ Differs(bytes, d, s, n) = p /\ p <= n /\ SameUpTo(bytes, d, s, p)
                       /\ p < n => bytes[d + p] # bytes[s + p]
  BY <1>1, DiffersAt
<1> DEFINE x == BytesAt(d, n)
           y == BytesAt(s, n)
<1>3. x \in Seq(Nat) /\ Len(x) = n /\ (\A k \in 1..n : x[k] = bytes[d + k - 1])
  BY BytesAtIs
<1>4. y \in Seq(Nat) /\ Len(y) = n /\ (\A k \in 1..n : y[k] = bytes[s + k - 1])
  BY BytesAtIs
<1> HIDE DEF x, y
<1>5. \A k \in 1..p : x[k] = y[k]
  <2> TAKE k \in 1..p
  <2>1. k - 1 \in 0..(p - 1) /\ d + (k - 1) = d + k - 1 /\ s + (k - 1) = s + k - 1 /\ k \in 1..n
    BY <1>1, <1>2
  <2>2. bytes[d + (k - 1)] = bytes[s + (k - 1)]
    BY <1>2, <2>1 DEF SameUpTo
  <2> QED BY <1>3, <1>4, <2>1, <2>2
<1>6. CASE p = n
  <2>1. Order(x, y) = 0
    <3>1. DOMAIN x = 1..n
      BY <1>3
    <3>2. \A j \in DOMAIN x : x[j] = y[j]
      BY <1>5, <1>6, <3>1
    <3> QED BY <3>2, OrderOfSame
  <2>2. memcmp(bytes, d, s, n) = 0
    BY <1>2, <1>6 DEF memcmp, Compared
  <2> QED BY <2>1, <2>2 DEF Sign, x, y
<1>7. CASE p # n
  <2>1. p + 1 \in 1..n /\ d + (p + 1) - 1 = d + p /\ s + (p + 1) - 1 = s + p /\ (p + 1) - 1 = p
    BY <1>1, <1>2, <1>7
  <2>2. x[p + 1] = bytes[d + p] /\ y[p + 1] = bytes[s + p]
    BY <1>3, <1>4, <2>1
  <2>3. x[p + 1] # y[p + 1]
    BY <1>2, <1>7, <2>2
  <2>4. Order(x, y) = Sign(x[p + 1] - y[p + 1])
    <3>1. \A j \in 1..((p + 1) - 1) : x[j] = y[j]
      BY <1>5, <2>1
    <3> QED BY <1>3, <1>4, <2>1, <2>3, <3>1, OrderBy
  <2>5. memcmp(bytes, d, s, n) = bytes[d + p] - bytes[s + p]
    BY <1>2, <1>7 DEF memcmp, Compared
  <2> QED BY <2>2, <2>4, <2>5 DEF x, y
<1> QED BY <1>6, <1>7
------------------------------------------------------------------------------
(* Comparisons of strings.                                                 *)

LEMMA FilledIs ==
  ASSUME bytes \in Seq(Nat), NEW s, NEW e, IsString(bytes, s, e), NEW n \in Nat
  PROVE  /\ Filled(Str(s), n) \in Seq(Nat) /\ Len(Filled(Str(s), n)) = n
         /\ \A i \in 0..(n - 1) :
              Filled(Str(s), n)[i + 1] = IF i <= e - s THEN bytes[s + i] ELSE 0
<1>1. /\ s \in Nat /\ e \in Nat /\ s <= e /\ Len(Str(s)) = e - s /\ Str(s) \in Seq(Nat)
      /\ Str(s) = [k \in 1..(e - s) |-> bytes[s + k - 1]]
  BY StrTo
<1> DEFINE f == Filled(Str(s), n)
<1>2. f = [k \in 1..n |-> IF k <= e - s THEN Str(s)[k] ELSE 0]
  BY <1>1 DEF Filled
<1>3. \A k \in 1..(e - s) : Str(s)[k] \in Nat
  <2>1. \A k \in 1..Len(Str(s)) : Str(s)[k] \in Nat
    BY <1>1, ElementOfSeq
  <2> QED BY <1>1, <2>1
<1>4. \A k \in 1..n : (IF k <= e - s THEN Str(s)[k] ELSE 0) \in Nat
  BY <1>1, <1>3
<1>5. f \in Seq(Nat) /\ Len(f) = n
  BY <1>2, <1>4
<1>6. ASSUME NEW i \in 0..(n - 1)
      PROVE  f[i + 1] = IF i <= e - s THEN bytes[s + i] ELSE 0
  <2>1. i + 1 \in 1..n /\ s + (i + 1) - 1 = s + i
    BY <1>1
  <2>2. f[i + 1] = IF i + 1 <= e - s THEN Str(s)[i + 1] ELSE 0
    BY <1>2, <2>1
  <2>3. CASE i < e - s
    <3>1. i + 1 \in 1..(e - s)
      BY <1>1, <2>3
    <3>2. Str(s)[i + 1] = bytes[s + i]
      BY <1>1, <2>1, <3>1
    <3> QED BY <1>1, <2>2, <2>3, <3>1, <3>2
  <2>4. CASE i = e - s
    <3>1. s + i = e /\ bytes[e] = 0
      BY <1>1, <2>4 DEF IsString
    <3> QED BY <1>1, <2>2, <2>4, <3>1
  <2>5. CASE i > e - s
    BY <1>1, <2>2, <2>5
  <2> QED BY <1>1, <2>3, <2>4, <2>5
<1> HIDE DEF f
<1> QED BY <1>5, <1>6 DEF f

LEMMA StringCompareIs ==
  ASSUME bytes \in Seq(Nat), NEW s1, NEW e1, IsString(bytes, s1, e1),
         NEW s2, NEW e2, IsString(bytes, s2, e2), NEW n \in Nat
  PROVE  Sign(Compared(bytes, s1, s2, Parting(bytes, s1, s2, n), n))
           = Order(Filled(Str(s1), n), Filled(Str(s2), n))
<1> DEFINE x == Filled(Str(s1), n)
           y == Filled(Str(s2), n)
<1>1. /\ x \in Seq(Nat) /\ Len(x) = n
      /\ \A i \in 0..(n - 1) : x[i + 1] = IF i <= e1 - s1 THEN bytes[s1 + i] ELSE 0
  BY FilledIs
<1>2. /\ y \in Seq(Nat) /\ Len(y) = n
      /\ \A i \in 0..(n - 1) : y[i + 1] = IF i <= e2 - s2 THEN bytes[s2 + i] ELSE 0
  BY FilledIs
<1>3. PICK p \in Nat : Parting(bytes, s1, s2, n) = p /\ Part(bytes, s1, e1, s2, e2, n, p)
  BY PartingAt
<1>4. p <= n /\ p <= e1 - s1 /\ p <= e2 - s2 /\ SameUpTo(bytes, s1, s2, p)
  BY <1>3 DEF Part
<1>5. e1 - s1 \in Nat /\ e2 - s2 \in Nat
  BY DEF IsString
<1> HIDE DEF x, y
<1>6. \A k \in 1..p : x[k] = y[k]
  <2> TAKE k \in 1..p
  <2>1. k - 1 \in 0..(p - 1) /\ k - 1 \in 0..(n - 1) /\ (k - 1) + 1 = k
    BY <1>4
  <2>2. bytes[s1 + (k - 1)] = bytes[s2 + (k - 1)]
    BY <1>4, <2>1 DEF SameUpTo
  <2>3. k - 1 <= e1 - s1 /\ k - 1 <= e2 - s2
    BY <1>4, <1>5
  <2>4. x[(k - 1) + 1] = bytes[s1 + (k - 1)] /\ y[(k - 1) + 1] = bytes[s2 + (k - 1)]
    BY <1>1, <1>2, <2>1, <2>3
  <2> QED BY <2>1, <2>2, <2>4
<1>7. DOMAIN x = 1..n
  BY <1>1
<1>8. CASE p = n
  <2>1. Order(x, y) = 0
    <3>1. \A j \in DOMAIN x : x[j] = y[j]
      BY <1>6, <1>7, <1>8
    <3> QED BY <3>1, OrderOfSame
  <2>2. Compared(bytes, s1, s2, p, n) = 0
    BY <1>8 DEF Compared
  <2> QED BY <1>3, <2>1, <2>2 DEF Sign, x, y
<1>9. CASE p < n
  <2>1. Compared(bytes, s1, s2, p, n) = bytes[s1 + p] - bytes[s2 + p]
    BY <1>9 DEF Compared
  <2>2. p \in 0..(n - 1) /\ p + 1 \in 1..n /\ (p + 1) - 1 = p
    BY <1>9
  <2>3. x[p + 1] = bytes[s1 + p] /\ y[p + 1] = bytes[s2 + p]
    BY <1>1, <1>2, <1>4, <2>2
  <2>4. CASE bytes[s1 + p] # bytes[s2 + p]
    <3>1. \A j \in 1..((p + 1) - 1) : x[j] = y[j]
      BY <1>6, <2>2
    <3>2. Order(x, y) = Sign(x[p + 1] - y[p + 1])
      BY <1>1, <1>2, <2>2, <2>3, <2>4, <3>1, OrderBy
    <3> QED BY <1>3, <2>1, <2>3, <3>2 DEF x, y
  <2>5. CASE bytes[s1 + p] = bytes[s2 + p]
    <3>1. bytes[s1 + p] = 0 /\ p = e1 - s1 /\ p = e2 - s2
      BY <1>3, <1>9, <2>5 DEF Part
    <3>2. \A j \in DOMAIN x : x[j] = y[j]
      <4> TAKE j \in DOMAIN x
      <4>1. j \in 1..n /\ j - 1 \in 0..(n - 1) /\ (j - 1) + 1 = j
        BY <1>7
      <4>2. CASE j \in 1..p
        BY <1>6, <4>2
      <4>3. CASE j = p + 1
        BY <2>3, <2>5, <4>3
      <4>4. CASE j > p + 1
        <5>1. ~(j - 1 <= e1 - s1) /\ ~(j - 1 <= e2 - s2)
          BY <3>1, <4>1, <4>4
        <5>2. x[(j - 1) + 1] = 0 /\ y[(j - 1) + 1] = 0
          BY <1>1, <1>2, <4>1, <5>1
        <5> QED BY <4>1, <5>2
      <4> QED BY <4>1, <4>2, <4>3, <4>4
    <3>3. Order(x, y) = 0
      BY <3>2, OrderOfSame
    <3>4. bytes[s1 + p] - bytes[s2 + p] = 0
      BY <2>5, <3>1
    <3> QED BY <1>3, <2>1, <3>3, <3>4 DEF Sign, x, y
  <2> QED BY <2>4, <2>5
<1> QED BY <1>4, <1>8, <1>9

\* One string begins with some bytes of another.
LEMMA SamePrefix ==
  ASSUME NEW m \in Seq(Nat), NEW s1, NEW e1, IsString(m, s1, e1),
         NEW s2, NEW e2, IsString(m, s2, e2), NEW n \in Nat, n <= e2 - s2
  PROVE  strncmp(m, s1, s2, n) = 0 <=> SameUpTo(m, s1, s2, n) /\ n <= e1 - s1
<1>1. PICK p \in Nat : Parting(m, s1, s2, n) = p /\ Part(m, s1, e1, s2, e2, n, p)
  BY PartingAt
<1>2. p <= n /\ p <= e1 - s1 /\ p <= e2 - s2 /\ SameUpTo(m, s1, s2, p)
  BY <1>1 DEF Part
<1>3. strncmp(m, s1, s2, n) = IF p = n THEN 0 ELSE m[s1 + p] - m[s2 + p]
  BY <1>1 DEF strncmp, Compared
<1>4. s1 \in 1..Len(m) /\ e1 \in s1..Len(m) /\ s2 \in 1..Len(m) /\ e2 \in s2..Len(m)
  BY DEF IsString
<1>5. CASE p = n
  BY <1>2, <1>3, <1>5
<1>6. CASE p # n
  <2>1. p < n
    BY <1>2, <1>6
  <2>2. m[s1 + p] # m[s2 + p]
    BY <1>1, <2>1, <1>4 DEF Part
  <2>3. s1 + p \in 1..Len(m) /\ s2 + p \in 1..Len(m)
    BY <1>2, <1>4
  <2>4. m[s1 + p] \in Nat /\ m[s2 + p] \in Nat
    BY <2>3
  <2>5. strncmp(m, s1, s2, n) # 0
    BY <1>3, <1>6, <2>2, <2>4
  <2>6. ~SameUpTo(m, s1, s2, n)
    <3>1. p \in 0..(n - 1)
      BY <2>1
    <3> QED BY <2>2, <3>1 DEF SameUpTo
  <2> QED BY <2>5, <2>6
<1> QED BY <1>5, <1>6

LEMMA FirstOnes ==
  ASSUME NEW q \in Seq(Nat), NEW n \in Nat, n <= Len(q)
  PROVE  /\ SubSeq(q, 1, n) \in Seq(Nat) /\ Len(SubSeq(q, 1, n)) = n
         /\ \A k \in 1..n : SubSeq(q, 1, n)[k] = q[k]
OBVIOUS

LEMMA BeginsIs ==
  ASSUME bytes \in Seq(Nat), NEW s, NEW e, IsString(bytes, s, e), NEW prefix \in Seq(Nat)
  PROVE  Begins(prefix, s) <=>
           Len(prefix) <= e - s /\ \A i \in 0..(Len(prefix) - 1) : bytes[s + i] = prefix[i + 1]
<1>1. /\ s \in Nat /\ e \in Nat /\ s <= e /\ Len(Str(s)) = e - s /\ Str(s) \in Seq(Nat)
      /\ Str(s) = [k \in 1..(e - s) |-> bytes[s + k - 1]]
  BY StrTo
<1>2. PICK n \in Nat : n = Len(prefix)
  OBVIOUS
<1>3. CASE n > e - s
  BY <1>1, <1>2, <1>3 DEF Begins
<1>4. CASE n <= e - s
  <2> DEFINE x == SubSeq(Str(s), 1, n)
  <2>1. x \in Seq(Nat) /\ Len(x) = n /\ \A k \in 1..n : x[k] = Str(s)[k]
    <3>1. n <= Len(Str(s)) /\ Str(s) \in Seq(Nat)
      BY <1>1, <1>4
    <3> QED BY <3>1, FirstOnes
  <2>2. \A k \in 1..n : Str(s)[k] = bytes[s + k - 1]
    BY <1>1, <1>4
  <2>3. \A k \in 1..n : x[k] = bytes[s + k - 1]
    BY <2>1, <2>2
  <2>4. Begins(prefix, s) <=> x = prefix
    BY <1>1, <1>2, <1>4 DEF Begins
  <2> HIDE DEF x
  <2>5. x = prefix <=> \A k \in 1..n : x[k] = prefix[k]
    BY <1>2, <2>1, SeqEqual
  <2>6. (\A k \in 1..n : x[k] = prefix[k]) <=> \A i \in 0..(n - 1) : bytes[s + i] = prefix[i + 1]
    <3>1. ASSUME \A k \in 1..n : x[k] = prefix[k], NEW i \in 0..(n - 1)
          PROVE  bytes[s + i] = prefix[i + 1]
      <4>1. i + 1 \in 1..n /\ s + (i + 1) - 1 = s + i
        BY <1>1
      <4> QED BY <2>3, <3>1, <4>1
    <3>2. ASSUME \A i \in 0..(n - 1) : bytes[s + i] = prefix[i + 1], NEW k \in 1..n
          PROVE  x[k] = prefix[k]
      <4>1. k - 1 \in 0..(n - 1) /\ (k - 1) + 1 = k /\ s + (k - 1) = s + k - 1
        BY <1>1
      <4>2. bytes[s + (k - 1)] = prefix[(k - 1) + 1]
        BY <3>2, <4>1
      <4> QED BY <2>3, <4>1, <4>2
    <3> QED BY <3>1, <3>2
  <2> QED BY <1>2, <1>4, <2>4, <2>5, <2>6
<1> QED BY <1>1, <1>3, <1>4
------------------------------------------------------------------------------
(* Searches.                                                               *)

LEMMA FirstOfIs ==
  ASSUME NEW S \in SUBSET Int, NEW e \in S, \A y \in S : e <= y
  PROVE  FirstOf(S) = e
<1>1. Min(S) = e /\ S # {}
  BY MinIs
<1> QED BY <1>1 DEF FirstOf

\* The first place in a string, its end included, that is in T, which has
\* that end.
LEMMA FirstInString ==
  ASSUME NEW m \in Seq(Nat), NEW s, NEW e, IsString(m, s, e), NEW T, e \in T, NEW turn,
         \A a \in s..e : turn[a] = IF a \in T THEN a ELSE a + 1
  PROVE  \E p \in s..e : /\ After(turn, s, Len(m)) = p /\ p \in T
                         /\ \A a \in s..(p - 1) : a \notin T
<1>1. s \in Nat /\ s >= 1 /\ e \in Nat /\ s <= e /\ e <= Len(m) /\ Len(m) \in Nat
  BY DEF IsString
<1>2. PICK p \in Nat : s <= p /\ p <= s + Len(m) /\ (\A i \in s..(p - 1) : i \notin T)
                       /\ (p < s + Len(m) => p \in T)
  BY <1>1, FirstPlace
<1>3. p <= e
  <2> SUFFICES ASSUME p > e PROVE FALSE
    BY <1>1
  <2>1. e \in s..(p - 1)
    BY <1>1
  <2> QED BY <1>2, <2>1
<1>4. p \in T /\ p \in s..e
  BY <1>1, <1>2, <1>3
<1>5. \A i \in s..(p - 1) : turn[i] = i + 1
  <2> TAKE i \in s..(p - 1)
  <2>1. i \in s..e
    BY <1>1, <1>3
  <2> QED BY <1>2, <2>1
<1>6. turn[p] = p
  BY <1>4
<1>7. After(turn, s, Len(m)) = p
  BY <1>1, <1>2, <1>5, <1>6, ScanEnds
<1> QED BY <1>2, <1>4, <1>7

LEMMA CharIs ==
  ASSUME bytes \in Seq(Nat), NEW s, NEW e, IsString(bytes, s, e), NEW c \in Nat
  PROVE  strchr(bytes, s, c) = FirstOf({a \in Region(s, Whole(s)) : bytes[a] = c})
<1> DEFINE T == {a \in Nat : bytes[a] \in {0, c}}
           turn == [a \in Nat |-> IF bytes[a] \in {0, c} THEN a ELSE a + 1]
           places == {a \in Region(s, Whole(s)) : bytes[a] = c}
<1>1. s \in Nat /\ e \in Nat /\ s <= e /\ bytes[e] = 0 /\ Region(s, Whole(s)) = s..e
  <2>1. s \in Nat /\ e \in Nat /\ s <= e /\ Whole(s) = (e - s) + 1
    BY StrTo
  <2>2. s + ((e - s) + 1) - 1 = e
    BY <2>1
  <2> QED BY <2>1, <2>2 DEF Region, IsString
<1>2. \A a \in s..e : turn[a] = IF a \in T THEN a ELSE a + 1
  BY <1>1
<1>3. e \in T
  BY <1>1
<1>4. \A a \in s..e : a \in T <=> bytes[a] = 0 \/ bytes[a] = c
  BY <1>1
<1> HIDE DEF T, turn
<1>5. PICK p \in s..e : /\ After(turn, s, Len(bytes)) = p /\ p \in T
                        /\ \A a \in s..(p - 1) : a \notin T
  BY <1>2, <1>3, FirstInString
<1>6. strchr(bytes, s, c) = Seen(bytes, p, c)
  BY <1>5 DEF strchr, Stops, turn
<1>7. \A a \in s..(p - 1) : a \in s..e
  BY <1>1
<1>8. CASE bytes[p] = 0 /\ c # 0
  <2>1. p = e
    <3>1. p \notin s..(e - 1)
      BY <1>8 DEF IsString
    <3> QED BY <1>1, <3>1
  <2>2. \A a \in s..e : bytes[a] # c
    <3> TAKE a \in s..e
    <3>1. a \in s..(p - 1) \/ a = e
      BY <1>1, <2>1
    <3> QED BY <1>1, <1>4, <1>5, <1>8, <3>1
  <2>3. places = {}
    BY <1>1, <2>2
  <2> QED BY <1>6, <1>8, <2>3 DEF Seen, IfAny, FirstOf
<1>9. CASE ~(bytes[p] = 0 /\ c # 0)
  <2>1. bytes[p] = c
    BY <1>4, <1>5, <1>9
  <2>2. places \in SUBSET Int /\ p \in places
    BY <1>1, <2>1
  <2>3. \A a \in places : p <= a
    <3> TAKE a \in places
    <3>1. a \in s..e /\ bytes[a] = c
      BY <1>1
    <3>2. a \notin s..(p - 1)
      BY <1>4, <1>5, <3>1
    <3> QED BY <1>1, <3>1, <3>2
  <2> HIDE DEF places
  <2>4. FirstOf(places) = p
    BY <2>2, <2>3, FirstOfIs
  <2> QED BY <1>6, <1>9, <2>4 DEF Seen, IfAny, places
<1> QED BY <1>8, <1>9

\* The last place with c before a that has been seen, if there is one.
LastSeen(m, s, c, z) ==
  IF z.seen = Nowhere THEN \A i \in s..(z.a - 1) : m[i] # c
  ELSE /\ z.seen \in s..(z.a - 1) /\ m[z.seen] = c
       /\ \A i \in (z.seen + 1)..(z.a - 1) : m[i] # c

LEMMA LastSeenIs ==
  ASSUME bytes \in Seq(Nat), NEW s, NEW e, IsString(bytes, s, e), NEW c \in Nat
  PROVE  \E z \in [a : Nat, seen : Nat] :
           z.a = e /\ z.seen = strrchr(bytes, s, c) /\ LastSeen(bytes, s, c, z)
<1> DEFINE Z == [a : Nat, seen : Nat]
           turn == [z \in Z |->
                      IF bytes[z.a] = 0 THEN z
                      ELSE [a |-> z.a + 1, seen |-> IF bytes[z.a] = c THEN z.a ELSE z.seen]]
           Place(k) == IF s + k <= e THEN s + k ELSE e
           I == [k \in 0..Len(bytes) |-> {z \in Z : z.a = Place(k) /\ LastSeen(bytes, s, c, z)}]
           start == [a |-> s, seen |-> Nowhere]
<1>1. s \in Nat /\ s >= 1 /\ e \in Nat /\ s <= e /\ e <= Len(bytes) /\ bytes[e] = 0
  BY DEF IsString
<1>2. start \in I[0]
  <2>1. start \in Z /\ start.a = s /\ start.seen = Nowhere
    BY <1>1 DEF Nowhere
  <2>2. Place(0) = s
    BY <1>1
  <2>3. LastSeen(bytes, s, c, start)
    BY <1>1, <2>1 DEF LastSeen
  <2>4. 0 \in 0..Len(bytes)
    BY <1>1
  <2> HIDE DEF start, Place, Z
  <2> QED BY <2>1, <2>2, <2>3, <2>4
<1>3. ASSUME NEW k \in 0..(Len(bytes) - 1), NEW z \in I[k]
      PROVE  turn[z] \in I[k + 1]
  <2>1. k \in 0..Len(bytes) /\ k + 1 \in 0..Len(bytes) /\ k \in Nat
    BY <1>1
  <2>2. z \in Z /\ z.a = Place(k) /\ LastSeen(bytes, s, c, z)
    BY <1>3, <2>1
  <2>3. z.a \in Nat /\ z.seen \in Nat
    BY <2>2
  <2>4. CASE s + k >= e
    <3>1. Place(k) = e /\ Place(k + 1) = e
      BY <1>1, <2>1, <2>4
    <3>2. turn[z] = z
      BY <1>1, <2>2, <3>1
    <3> HIDE DEF turn, Z, Place
    <3> QED BY <2>1, <2>2, <3>1, <3>2
  <2>5. CASE s + k < e
    <3>1. Place(k) = s + k /\ Place(k + 1) = (s + k) + 1
      BY <1>1, <2>1, <2>5
    <3>2. bytes[s + k] # 0
      <4>1. s + k \in s..(e - 1)
        BY <1>1, <2>1, <2>5
      <4> QED BY <4>1 DEF IsString
    <3> DEFINE y == [a |-> z.a + 1, seen |-> IF bytes[z.a] = c THEN z.a ELSE z.seen]
    <3>3. z.a = s + k
      BY <2>2, <3>1
    <3>4. turn[z] = y
      BY <2>2, <3>2, <3>3
    <3>5. y \in Z /\ y.a = Place(k + 1) /\ y.a = z.a + 1
          /\ y.seen = IF bytes[z.a] = c THEN z.a ELSE z.seen
      BY <2>3, <3>1, <3>3
    <3>6. LastSeen(bytes, s, c, y)
      <4> HIDE DEF y, Z, Place
      <4>1. CASE bytes[z.a] = c
        <5>1. y.seen = z.a /\ y.seen \in s..(y.a - 1) /\ y.seen # Nowhere
          BY <1>1, <2>1, <3>3, <3>5, <4>1 DEF Nowhere
        <5>2. (y.seen + 1)..(y.a - 1) = {}
          BY <2>3, <3>5, <5>1
        <5> QED BY <4>1, <5>1, <5>2 DEF LastSeen
      <4>2. CASE bytes[z.a] # c
        <5>1. y.seen = z.seen
          BY <3>5, <4>2
        <5>2. \A i \in s..(y.a - 1) : i \in s..(z.a - 1) \/ i = z.a
          <6>1. y.a - 1 = z.a
            BY <2>3, <3>5
          <6>2. \A i \in s..z.a : i \in s..(z.a - 1) \/ i = z.a
            BY <1>1, <2>3
          <6> QED BY <6>1, <6>2
        <5>3. CASE z.seen = Nowhere
          <6>1. \A i \in s..(z.a - 1) : bytes[i] # c
            BY <2>2, <5>3 DEF LastSeen
          <6> QED BY <4>2, <5>1, <5>2, <5>3, <6>1 DEF LastSeen
        <5>4. CASE z.seen # Nowhere
          <6>1. /\ z.seen \in s..(z.a - 1) /\ bytes[z.seen] = c
                /\ \A i \in (z.seen + 1)..(z.a - 1) : bytes[i] # c
            BY <2>2, <5>4 DEF LastSeen
          <6>2. z.seen \in s..(y.a - 1)
            <7>1. y.a - 1 = z.a
              BY <2>3, <3>5
            <7>2. z.seen \in s..z.a
              BY <1>1, <2>3, <6>1
            <7> QED BY <7>1, <7>2
          <6>3. \A i \in (z.seen + 1)..(y.a - 1) : i \in (z.seen + 1)..(z.a - 1) \/ i = z.a
            <7>1. y.a - 1 = z.a
              BY <2>3, <3>5
            <7>2. \A i \in (z.seen + 1)..z.a : i \in (z.seen + 1)..(z.a - 1) \/ i = z.a
              BY <2>3
            <7> QED BY <7>1, <7>2
          <6> QED BY <4>2, <5>1, <5>4, <6>1, <6>2, <6>3 DEF LastSeen
        <5> QED BY <5>3, <5>4
      <4> QED BY <4>1, <4>2
    <3> HIDE DEF y, turn, Z, Place
    <3> QED BY <2>1, <3>4, <3>5, <3>6
  <2> QED BY <1>1, <2>1, <2>4, <2>5
<1>4. Place(Len(bytes)) = e /\ Len(bytes) \in 0..Len(bytes) /\ Len(bytes) \in Nat
  BY <1>1
<1>5. \A z \in I[Len(bytes)] : z \in Z /\ z.a = e /\ LastSeen(bytes, s, c, z)
  BY <1>4
<1> DEFINE z == After(turn, start, Len(bytes))
<1>6. strrchr(bytes, s, c) = z.seen
  BY DEF strrchr
<1>7. z \in I[Len(bytes)]
  <2> HIDE DEF I, turn, start
  <2> QED BY <1>2, <1>3, <1>4, LoopEnds
<1>8. z \in Z /\ z.a = e /\ LastSeen(bytes, s, c, z)
  <2> HIDE DEF z, I, Z
  <2> QED BY <1>5, <1>7
<1> HIDE DEF z, I, turn, start, Place
<1> QED BY <1>6, <1>8

LEMMA LastCharIs ==
  ASSUME bytes \in Seq(Nat), NEW s, NEW e, IsString(bytes, s, e), NEW c \in Nat, c # 0
  PROVE  strrchr(bytes, s, c) = LastOf({a \in Region(s, Whole(s)) : bytes[a] = c})
<1> DEFINE places == {a \in Region(s, Whole(s)) : bytes[a] = c}
<1>1. /\ s \in Nat /\ s >= 1 /\ e \in Nat /\ s <= e /\ e <= Len(bytes) /\ bytes[e] = 0
      /\ Region(s, Whole(s)) = s..e
  <2>1. s \in Nat /\ e \in Nat /\ s <= e /\ Whole(s) = (e - s) + 1
    BY StrTo
  <2>2. s + ((e - s) + 1) - 1 = e
    BY <2>1
  <2> QED BY <2>1, <2>2 DEF Region, IsString
<1>8. PICK z \in [a : Nat, seen : Nat] :
        z.a = e /\ z.seen = strrchr(bytes, s, c) /\ LastSeen(bytes, s, c, z)
  BY LastSeenIs
<1>6. strrchr(bytes, s, c) = z.seen
  BY <1>8
<1>9. z.seen \in Nat
  BY <1>8
<1>10. \A a : a \in s..e => a \in s..(e - 1) \/ a = e
  BY <1>1
<1>11. CASE z.seen = Nowhere
  <2>1. \A i \in s..(e - 1) : bytes[i] # c
    BY <1>8, <1>11 DEF LastSeen
  <2>2. places = {}
    BY <1>1, <1>10, <2>1
  <2> QED BY <1>6, <1>11, <2>2 DEF LastOf
<1>12. CASE z.seen # Nowhere
  <2>1. /\ z.seen \in s..(e - 1) /\ bytes[z.seen] = c
        /\ \A i \in (z.seen + 1)..(e - 1) : bytes[i] # c
    BY <1>8, <1>12 DEF LastSeen
  <2>2. places \in SUBSET Int /\ z.seen \in places
    BY <1>1, <2>1
  <2>3. \A a \in places : a <= z.seen
    <3> TAKE a \in places
    <3>1. a \in s..e /\ bytes[a] = c
      BY <1>1
    <3>2. a \notin (z.seen + 1)..(e - 1) /\ a # e
      BY <1>1, <2>1, <3>1
    <3> QED BY <1>1, <1>9, <3>1, <3>2
  <2> HIDE DEF places
  <2>4. Max(places) = z.seen /\ places # {}
    BY <2>2, <2>3, MaxIs
  <2> QED BY <1>6, <2>4 DEF LastOf, places
<1> QED BY <1>11, <1>12

\* Of a string the 0 is not seen.
LEMMA NoEndSeen ==
  ASSUME bytes \in Seq(Nat), NEW s, NEW e, IsString(bytes, s, e)
  PROVE  strrchr(bytes, s, 0) = Nowhere
<1>1. PICK z \in [a : Nat, seen : Nat] :
        z.a = e /\ z.seen = strrchr(bytes, s, 0) /\ LastSeen(bytes, s, 0, z)
  BY LastSeenIs
<1>2. z.seen # Nowhere => z.seen \in s..(e - 1) /\ bytes[z.seen] = 0
  BY <1>1 DEF LastSeen
<1> QED BY <1>1, <1>2 DEF IsString

LEMMA WithinIs ==
  ASSUME bytes \in Seq(Nat), NEW s1, NEW e1, IsString(bytes, s1, e1),
         NEW s2, NEW e2, IsString(bytes, s2, e2)
  PROVE  strstr(bytes, s1, s2)
           = FirstOf({a \in Region(s1, Len(Str(s1))) : Begins(Str(s2), a)})
<1> DEFINE n == strlen(bytes, s2)
           T == {h \in Nat : bytes[h] = 0 \/ strncmp(bytes, h, s2, n) = 0}
           turn == [h \in Nat |-> IF bytes[h] = 0 \/ strncmp(bytes, h, s2, n) = 0 THEN h ELSE h + 1]
           places == {a \in Region(s1, Len(Str(s1))) : Begins(Str(s2), a)}
<1>1. /\ s1 \in Nat /\ e1 \in Nat /\ s1 <= e1 /\ bytes[e1] = 0
      /\ Region(s1, Len(Str(s1))) = s1..(e1 - 1)
  <2>1. s1 \in Nat /\ e1 \in Nat /\ s1 <= e1 /\ Len(Str(s1)) = e1 - s1
    BY StrTo
  <2>3. s1 + (e1 - s1) - 1 = e1 - 1
    BY <2>1
  <2> QED BY <2>1, <2>3 DEF Region, IsString
<1>2. n = e2 - s2 /\ n \in Nat
  <2>1. n = e2 - s2
    BY LengthIs
  <2> QED BY <2>1 DEF IsString
<1>3. /\ s2 \in Nat /\ e2 \in Nat /\ s2 <= e2 /\ Len(Str(s2)) = e2 - s2 /\ Str(s2) \in Seq(Nat)
      /\ Str(s2) = [k \in 1..(e2 - s2) |-> bytes[s2 + k - 1]]
  BY StrTo
<1>4. \A a \in s1..e1 : turn[a] = IF a \in T THEN a ELSE a + 1
  BY <1>1
<1>5. e1 \in T
  BY <1>1
<1>6. \A a \in s1..(e1 - 1) : a \in T <=> strncmp(bytes, a, s2, n) = 0
  <2> TAKE a \in s1..(e1 - 1)
  <2>1. bytes[a] # 0 /\ a \in Nat
    BY <1>1 DEF IsString
  <2> QED BY <2>1
<1> HIDE DEF T, turn, n
<1>7. ASSUME NEW a \in s1..(e1 - 1)
      PROVE  strncmp(bytes, a, s2, n) = 0 <=> Begins(Str(s2), a)
  <2>1. IsString(bytes, a, e1)
    BY <1>1 DEF IsString
  <2>2. n <= e2 - s2
    BY <1>2, <1>3
  <2>3. strncmp(bytes, a, s2, n) = 0 <=> SameUpTo(bytes, a, s2, n) /\ n <= e1 - a
    BY <1>2, <2>1, <2>2, SamePrefix
  <2>4. Begins(Str(s2), a) <=>
          Len(Str(s2)) <= e1 - a /\ \A i \in 0..(Len(Str(s2)) - 1) : bytes[a + i] = Str(s2)[i + 1]
    BY <1>3, <2>1, BeginsIs
  <2>5. \A i \in 0..(n - 1) : Str(s2)[i + 1] = bytes[s2 + i]
    <3> TAKE i \in 0..(n - 1)
    <3>1. i + 1 \in 1..(e2 - s2) /\ s2 + (i + 1) - 1 = s2 + i
      BY <1>2, <1>3
    <3> QED BY <1>3, <3>1
  <2>6. Len(Str(s2)) = n
    BY <1>2, <1>3
  <2>7. SameUpTo(bytes, a, s2, n) <=> \A i \in 0..(n - 1) : bytes[a + i] = Str(s2)[i + 1]
    BY <2>5 DEF SameUpTo
  <2> QED BY <2>3, <2>4, <2>6, <2>7
<1>8. PICK p \in s1..e1 : /\ After(turn, s1, Len(bytes)) = p /\ p \in T
                          /\ \A a \in s1..(p - 1) : a \notin T
  BY <1>4, <1>5, FirstInString
<1>9. strstr(bytes, s1, s2) = IfAny(bytes, p)
  BY <1>8 DEF strstr, Found, turn, n
<1>10. CASE p = e1
  <2>1. \A a \in s1..(e1 - 1) : ~Begins(Str(s2), a)
    BY <1>6, <1>7, <1>8, <1>10
  <2>2. places = {}
    BY <1>1, <2>1
  <2> QED BY <1>1, <1>9, <1>10, <2>2 DEF Seen, IfAny, FirstOf
<1>11. CASE p # e1
  <2>1. p \in s1..(e1 - 1)
    BY <1>1, <1>11
  <2>2. Begins(Str(s2), p) /\ bytes[p] # 0
    BY <1>6, <1>7, <1>8, <2>1 DEF IsString
  <2>3. places \in SUBSET Int /\ p \in places
    BY <1>1, <2>1, <2>2
  <2>4. \A a \in places : p <= a
    <3> TAKE a \in places
    <3>1. a \in s1..(e1 - 1) /\ Begins(Str(s2), a)
      BY <1>1
    <3>2. a \notin s1..(p - 1)
      BY <1>6, <1>7, <1>8, <3>1
    <3> QED BY <1>1, <3>1, <3>2
  <2> HIDE DEF places
  <2>5. FirstOf(places) = p
    BY <2>3, <2>4, FirstOfIs
  <2> QED BY <1>9, <2>2, <2>5 DEF Seen, IfAny, places
<1> QED BY <1>10, <1>11

\* In the empty string there is no place.
LEMMA NoneInNoneIs ==
  ASSUME bytes \in Seq(Nat), NEW s1 \in Strs, NEW s2 \in Strs, Str(s1) = <<>>
  PROVE  strstr(bytes, s1, s2) = Nowhere
<1>1. PICK e1 \in Nat : IsString(bytes, s1, e1)
  BY HasEnd
<1>2. PICK e2 \in Nat : IsString(bytes, s2, e2)
  BY HasEnd
<1>3. strstr(bytes, s1, s2) = FirstOf({a \in Region(s1, Len(Str(s1))) : Begins(Str(s2), a)})
  BY <1>1, <1>2, WithinIs
<1>4. Region(s1, Len(Str(s1))) = {}
  <2>1. s1 \in Nat /\ Len(Str(s1)) = 0
    BY <1>1, StrTo
  <2> QED BY <2>1 DEF Region
<1> QED BY <1>3, <1>4 DEF FirstOf

\* Whether a string of the environment is name=...
LEMMA SetsIs ==
  ASSUME bytes \in Seq(Nat), NEW s, NEW e, IsString(bytes, s, e),
         NEW name, NEW end, IsString(bytes, name, end)
  PROVE  Sets(bytes, s, name, strlen(bytes, name)) <=> Begins(Append(Str(name), Equals), s)
<1> DEFINE prefix == Append(Str(name), Equals)
<1>1. PICK n : n = strlen(bytes, name)
  OBVIOUS
<1>2. n = end - name /\ n \in Nat /\ n <= end - name
  <2>1. n = end - name
    BY <1>1, LengthIs
  <2> QED BY <2>1 DEF IsString
<1>3. /\ name \in Nat /\ end \in Nat /\ name <= end /\ Len(Str(name)) = n /\ Str(name) \in Seq(Nat)
      /\ Str(name) = [k \in 1..(end - name) |-> bytes[name + k - 1]]
  BY <1>2, StrTo
<1>4. s \in Nat /\ e \in Nat /\ s <= e /\ bytes[e] = 0
  BY DEF IsString
<1>5. /\ prefix \in Seq(Nat) /\ Len(prefix) = n + 1 /\ prefix[n + 1] = Equals
      /\ \A k \in 1..n : prefix[k] = Str(name)[k]
  <2>1. Equals \in Nat
    BY DEF Equals
  <2> QED BY <1>2, <1>3, <2>1
<1> HIDE DEF prefix
<1>6. \A i \in 0..(n - 1) : prefix[i + 1] = bytes[name + i]
  <2> TAKE i \in 0..(n - 1)
  <2>1. i + 1 \in 1..n /\ i + 1 \in 1..(end - name) /\ name + (i + 1) - 1 = name + i
    BY <1>2, <1>3
  <2> QED BY <1>3, <1>5, <2>1
<1>7. strncmp(bytes, s, name, n) = 0 <=> SameUpTo(bytes, s, name, n) /\ n <= e - s
  BY <1>2, SamePrefix
<1>8. Begins(prefix, s) <=>
        n + 1 <= e - s /\ \A i \in 0..((n + 1) - 1) : bytes[s + i] = prefix[i + 1]
  BY <1>5, BeginsIs
<1>9. Sets(bytes, s, name, n) <=> SameUpTo(bytes, s, name, n) /\ n <= e - s /\ bytes[s + n] = Equals
  BY <1>7 DEF Sets
<1>10. ASSUME SameUpTo(bytes, s, name, n), n <= e - s, bytes[s + n] = Equals
       PROVE  Begins(prefix, s)
  <2>1. n # e - s
    <3>1. n = e - s => s + n = e
      BY <1>2, <1>4
    <3> QED BY <1>4, <1>10, <3>1 DEF Equals
  <2>2. n + 1 <= e - s
    BY <1>2, <1>4, <1>10, <2>1
  <2>3. \A i \in 0..((n + 1) - 1) : bytes[s + i] = prefix[i + 1]
    <3> TAKE i \in 0..((n + 1) - 1)
    <3>1. i \in 0..(n - 1) \/ i = n
      BY <1>2
    <3> QED BY <1>5, <1>6, <1>10, <3>1 DEF SameUpTo
  <2> QED BY <1>8, <2>2, <2>3
<1>11. ASSUME Begins(prefix, s)
       PROVE  SameUpTo(bytes, s, name, n) /\ n <= e - s /\ bytes[s + n] = Equals
  <2>1. n + 1 <= e - s /\ \A i \in 0..((n + 1) - 1) : bytes[s + i] = prefix[i + 1]
    BY <1>8, <1>11
  <2>2. n \in 0..((n + 1) - 1) /\ \A i \in 0..(n - 1) : i \in 0..((n + 1) - 1)
    BY <1>2
  <2>3. bytes[s + n] = Equals
    BY <1>5, <2>1, <2>2
  <2>4. SameUpTo(bytes, s, name, n)
    BY <1>6, <2>1, <2>2 DEF SameUpTo
  <2>5. n <= e - s
    BY <1>2, <1>4, <2>1
  <2> QED BY <2>3, <2>4, <2>5
<1> QED BY <1>1, <1>9, <1>10, <1>11 DEF prefix

LEMMA EnvironmentIs ==
  ASSUME bytes \in Seq(Nat), NEW name \in Strs, NEW env \in Seq(Strs),
         NEW set, set = {k \in DOMAIN env : Begins(Append(Str(name), Equals), env[k])}, set # {}
  PROVE  getenv(bytes, env, name) = env[Min(set)] + Len(Str(name)) + 1
<1>1. PICK end \in Nat : IsString(bytes, name, end)
  BY HasEnd
<1>2. PICK len : len = strlen(bytes, name)
  OBVIOUS
<1>3. len = Len(Str(name))
  <2>1. strlen(bytes, name) = end - name
    BY <1>1, LengthIs
  <2>2. Len(Str(name)) = end - name
    BY <1>1, StrTo
  <2> QED BY <1>2, <2>1, <2>2
<1> DEFINE T == {k \in Nat : Sets(bytes, env[k], name, len)}
           turn == [k \in Nat |-> IF Sets(bytes, env[k], name, len) THEN k ELSE k + 1]
<1>4. \A k \in 1..Len(env) : Sets(bytes, env[k], name, len) <=> k \in set
  <2> TAKE k \in 1..Len(env)
  <2>1. env[k] \in Strs
    OBVIOUS
  <2>2. PICK e \in Nat : IsString(bytes, env[k], e)
    BY <2>1, HasEnd
  <2>3. Sets(bytes, env[k], name, len) <=> Begins(Append(Str(name), Equals), env[k])
    BY <1>1, <1>2, <2>2, SetsIs
  <2> QED BY <2>3
<1>5. PICK x \in Nat : x = 1
  OBVIOUS
<1>6. PICK p \in Nat : x <= p /\ p <= x + Len(env) /\ (\A i \in x..(p - 1) : i \notin T)
                       /\ (p < x + Len(env) => p \in T)
  <2>1. Len(env) \in Nat
    OBVIOUS
  <2> HIDE DEF T
  <2> QED BY <2>1, FirstPlace
<1>7. \A i \in 1..Len(env) : i \in T <=> i \in set
  BY <1>4
<1>8. \A i \in x..(p - 1) : turn[i] = i + 1
  BY <1>5, <1>6
<1>9. p < x + Len(env) => turn[p] = p
  BY <1>6
<1>10. set \subseteq 1..Len(env) /\ set \in SUBSET Int
  OBVIOUS
<1> HIDE DEF T, turn
<1>11. After(turn, x, Len(env)) = p
  <2>1. Len(env) \in Nat
    OBVIOUS
  <2> QED BY <1>6, <1>8, <1>9, <2>1, ScanEnds
<1>12. Looked(bytes, env, name, len) = p
  BY <1>5, <1>11 DEF Looked, turn
<1>13. \A k \in set : p <= k
  <2> TAKE k \in set
  <2>1. k \in 1..Len(env) /\ k \in T
    BY <1>7, <1>10
  <2>2. k \notin x..(p - 1)
    BY <1>6, <2>1
  <2> QED BY <1>5, <2>1, <2>2
<1>14. p \in set
  <2>1. PICK k \in set : TRUE
    OBVIOUS
  <2>2. k \in 1..Len(env) /\ p <= k
    BY <1>10, <1>13
  <2>3. p \in 1..Len(env) /\ p < x + Len(env)
    BY <1>5, <1>6, <2>2
  <2> QED BY <1>6, <1>7, <2>3
<1>15. Min(set) = p
  BY <1>10, <1>13, <1>14, MinIs
<1> QED BY <1>2, <1>3, <1>12, <1>15 DEF getenv
------------------------------------------------------------------------------
(* What C has for what is written.                                         *)

LEMMA WithIs ==
  ASSUME bytes \in Seq(Nat), NEW d \in Nat, NEW s \in Nat, NEW new, NEW n \in Nat, Len(new) = n,
         \A k \in 1..n : new[k] = bytes[s + k - 1]
  PROVE  With(d, new) = Moved(bytes, d, s, n)
<1>1. \A a \in DOMAIN bytes : a \in Region(d, n) => new[a - d + 1] = bytes[s + (a - d)]
  <2> TAKE a \in DOMAIN bytes
  <2> HAVE a \in Region(d, n)
  <2>1. a - d + 1 \in 1..n /\ s + (a - d + 1) - 1 = s + (a - d)
    BY DEF Region
  <2> QED BY <2>1
<1> QED BY <1>1 DEF With, Moved

\* The bytes of a string, and its 0.
LEMMA WholeIs ==
  ASSUME bytes \in Seq(Nat), NEW s, NEW e, IsString(bytes, s, e)
  PROVE  /\ Len(Append(Str(s), 0)) = Whole(s)
         /\ \A k \in 1..Whole(s) : Append(Str(s), 0)[k] = bytes[s + k - 1]
<1>1. /\ s \in Nat /\ e \in Nat /\ s <= e /\ Len(Str(s)) = e - s /\ Str(s) \in Seq(Nat)
      /\ Str(s) = [k \in 1..(e - s) |-> bytes[s + k - 1]] /\ Whole(s) = (e - s) + 1
      /\ bytes[e] = 0
  BY StrTo DEF IsString
<1>2. PICK n \in Nat : n = e - s
  BY <1>1
<1>3. \A k \in 1..n : Str(s)[k] = bytes[s + k - 1]
  BY <1>1, <1>2
<1> DEFINE x == Append(Str(s), 0)
<1>4. Len(x) = n + 1 /\ x[n + 1] = 0 /\ \A k \in 1..n : x[k] = Str(s)[k]
  <2>1. Str(s) \in Seq(Nat) /\ Len(Str(s)) = n /\ 0 \in Nat
    BY <1>1, <1>2
  <2> QED BY <2>1
<1> HIDE DEF x
<1>5. \A k \in 1..(n + 1) : x[k] = bytes[s + k - 1]
  <2> TAKE k \in 1..(n + 1)
  <2>1. CASE k = n + 1
    <3>1. s + k - 1 = e
      BY <1>1, <1>2, <2>1
    <3> QED BY <1>1, <1>4, <2>1, <3>1
  <2>2. CASE k # n + 1
    <3>1. k \in 1..n
      BY <2>2
    <3> QED BY <1>3, <1>4, <3>1
  <2> QED BY <2>1, <2>2
<1> QED BY <1>1, <1>2, <1>4, <1>5 DEF x

\* Nothing that is still to be read is written.
LEMMA ApartCopies ==
  ASSUME bytes \in Seq(Nat), NEW d \in Nat, NEW s \in Nat, NEW n \in Nat, NEW k \in Nat, n <= k,
         InMemory(d, n), InMemory(s, n), Apart(d, k, s, n)
  PROVE  Copies(bytes, d, s, n)
<1> SUFFICES ASSUME NEW j \in 0..(n - 1)
             PROVE  d + j \in DOMAIN bytes /\ s + j \in DOMAIN bytes /\ s + j \notin Region(d, j)
  BY DEF Copies
<1>1. d + j \in Region(d, n) /\ s + j \in Region(s, n) /\ Region(d, j) \subseteq Region(d, k)
  BY DEF Region
<1> QED BY <1>1 DEF InMemory, Apart

LEMMA DownCopies ==
  ASSUME bytes \in Seq(Nat), NEW d \in Nat, NEW s \in Nat, NEW n \in Nat,
         InMemory(d, n), InMemory(s, n), d <= s
  PROVE  Copies(bytes, d, s, n)
<1> SUFFICES ASSUME NEW j \in 0..(n - 1)
             PROVE  d + j \in DOMAIN bytes /\ s + j \in DOMAIN bytes /\ s + j \notin Region(d, j)
  BY DEF Copies
<1>1. d + j \in Region(d, n) /\ s + j \in Region(s, n) /\ s + j \notin Region(d, j)
  BY DEF Region
<1> QED BY <1>1 DEF InMemory

LEMMA BytesCopied ==
  ASSUME bytes \in Seq(Nat), NEW d \in 1..Len(bytes), NEW s \in 1..Len(bytes), NEW n \in Nat,
         InMemory(s, n), Copies(bytes, d, s, n)
  PROVE  /\ Copied(bytes, d, s, n) = With(d, BytesAt(s, n))
         /\ With(d, BytesAt(s, n)) = Moved(bytes, d, s, n)
<1>1. d \in Nat /\ s \in Nat
  OBVIOUS
<1>2. With(d, BytesAt(s, n)) = Moved(bytes, d, s, n)
  <2>1. Len(BytesAt(s, n)) = n /\ \A k \in 1..n : BytesAt(s, n)[k] = bytes[s + k - 1]
    BY BytesAtIs
  <2> QED BY <1>1, <2>1, WithIs
<1>3. Copied(bytes, d, s, n) = Moved(bytes, d, s, n)
  BY <1>1, CopiedIs
<1> QED BY <1>2, <1>3

LEMMA FilledWith ==
  ASSUME bytes \in Seq(Nat), NEW s \in 1..Len(bytes), NEW n \in Nat, NEW c \in Nat, InMemory(s, n)
  PROVE  memset(bytes, s, c, n) = With(s, [k \in 1..n |-> c])
<1> DEFINE new == [k \in 1..n |-> c]
<1>1. Region(s, n) \subseteq DOMAIN bytes /\ s \in Nat
  BY DEF InMemory
<1>2. memset(bytes, s, c, n) = [a \in DOMAIN bytes |-> IF a \in Region(s, n) THEN c ELSE bytes[a]]
  BY <1>1, SetIs
<1>3. Len(new) = n
  OBVIOUS
<1>4. \A a \in Region(s, n) : new[a - s + 1] = c
  <2> TAKE a \in Region(s, n)
  <2>1. a - s + 1 \in 1..n
    BY <1>1 DEF Region
  <2> QED BY <2>1
<1> HIDE DEF new
<1>5. With(s, new) = [a \in DOMAIN bytes |-> IF a \in Region(s, n) THEN c ELSE bytes[a]]
  BY <1>3, <1>4 DEF With
<1> QED BY <1>2, <1>5 DEF new

LEMMA StringCopied ==
  ASSUME bytes \in Seq(Nat), NEW d \in Nat, NEW s \in Strs, NEW k \in Nat, Whole(s) <= k,
         InMemory(d, Whole(s)), Apart(d, k, s, Whole(s))
  PROVE  strcpy(bytes, d, s) = With(d, Append(Str(s), 0))
<1>1. PICK e \in Nat : IsString(bytes, s, e)
  BY HasEnd
<1>2. s \in Nat /\ s <= e /\ Whole(s) = (e - s) + 1 /\ Whole(s) \in Nat
  <2>1. s \in Nat /\ s <= e /\ Whole(s) = (e - s) + 1
    BY <1>1, StrTo
  <2> QED BY <2>1
<1>3. InMemory(s, Whole(s))
  <2>1. s \in 1..Len(bytes) /\ e \in s..Len(bytes)
    BY <1>1 DEF IsString
  <2>2. s + ((e - s) + 1) - 1 = e
    BY <1>2
  <2> QED BY <1>2, <2>1, <2>2 DEF InMemory, Region
<1>4. Copies(bytes, d, s, Whole(s))
  BY <1>2, <1>3, ApartCopies
<1>5. Copies(bytes, d, s, (e - s) + 1)
  BY <1>2, <1>4
<1>6. strcpy(bytes, d, s) = Moved(bytes, d, s, (e - s) + 1)
  BY <1>1, <1>5, StringCopyIs
<1>7. Len(Append(Str(s), 0)) = Whole(s)
      /\ \A j \in 1..Whole(s) : Append(Str(s), 0)[j] = bytes[s + j - 1]
  BY <1>1, WholeIs
<1>8. With(d, Append(Str(s), 0)) = Moved(bytes, d, s, Whole(s))
  BY <1>2, <1>7, WithIs
<1> QED BY <1>2, <1>6, <1>8

LEMMA PartCopied ==
  ASSUME bytes \in Seq(Nat), NEW d \in 1..Len(bytes), NEW s \in Strs, NEW n \in Nat, n <= Whole(s),
         InMemory(d, n), Apart(d, n, s, n)
  PROVE  strncpy(bytes, d, s, n) = With(d, BytesAt(s, n))
<1>1. PICK e \in Nat : IsString(bytes, s, e)
  BY HasEnd
<1>2. s \in Nat /\ s <= e /\ Whole(s) = (e - s) + 1 /\ s \in 1..Len(bytes) /\ e \in s..Len(bytes)
  <2>1. s \in Nat /\ s <= e /\ Whole(s) = (e - s) + 1
    BY <1>1, StrTo
  <2> QED BY <1>1, <2>1 DEF IsString
<1>3. InMemory(s, n)
  BY <1>2 DEF InMemory, Region
<1>4. Copies(bytes, d, s, n) /\ d \in Nat
  <2>1. d \in Nat /\ n <= n
    OBVIOUS
  <2> QED BY <1>2, <1>3, <2>1, ApartCopies
<1>5. strncpy(bytes, d, s, n) = Moved(bytes, d, s, n)
  <2>1. n = (IF n <= (e - s) + 1 THEN n ELSE (e - s) + 1)
    BY <1>2
  <2> QED BY <1>1, <1>2, <1>4, <2>1, BoundedCopyIs
<1>6. With(d, BytesAt(s, n)) = Moved(bytes, d, s, n)
  BY <1>2, <1>3, <1>4, BytesCopied
<1> QED BY <1>5, <1>6

\* The string and its 0, but nothing behind it.
LEMMA ShorterCopied ==
  ASSUME bytes \in Seq(Nat), NEW d \in 1..Len(bytes), NEW s \in Strs, NEW n \in Nat, n > Whole(s),
         InMemory(d, n), Apart(d, n, s, Whole(s))
  PROVE  strncpy(bytes, d, s, n) = With(d, Append(Str(s), 0))
<1>1. PICK e \in Nat : IsString(bytes, s, e)
  BY HasEnd
<1>2. s \in Nat /\ s <= e /\ Whole(s) = (e - s) + 1 /\ Whole(s) \in Nat /\ d \in Nat
  <2>1. s \in Nat /\ s <= e /\ Whole(s) = (e - s) + 1
    BY <1>1, StrTo
  <2> QED BY <2>1
<1>3. InMemory(s, Whole(s)) /\ InMemory(d, Whole(s))
  <2>1. s \in 1..Len(bytes) /\ e \in s..Len(bytes)
    BY <1>1 DEF IsString
  <2>2. s + ((e - s) + 1) - 1 = e
    BY <1>2
  <2>3. InMemory(s, Whole(s))
    BY <1>2, <2>1, <2>2 DEF InMemory, Region
  <2>4. Region(d, Whole(s)) \subseteq Region(d, n)
    BY <1>2 DEF Region
  <2> QED BY <2>3, <2>4 DEF InMemory
<1>4. Copies(bytes, d, s, Whole(s))
  BY <1>2, <1>3, ApartCopies
<1>5. strncpy(bytes, d, s, n) = Moved(bytes, d, s, Whole(s))
  <2>1. Whole(s) = (IF n <= (e - s) + 1 THEN n ELSE (e - s) + 1)
    BY <1>2
  <2> QED BY <1>1, <1>2, <1>4, <2>1, BoundedCopyIs
<1>7. Len(Append(Str(s), 0)) = Whole(s)
      /\ \A j \in 1..Whole(s) : Append(Str(s), 0)[j] = bytes[s + j - 1]
  BY <1>1, WholeIs
<1>8. With(d, Append(Str(s), 0)) = Moved(bytes, d, s, Whole(s))
  BY <1>2, <1>7, WithIs
<1> QED BY <1>5, <1>8

LEMMA Joined ==
  ASSUME bytes \in Seq(Nat), NEW d \in Strs, NEW s \in Strs, NEW end, end = d + Len(Str(d)),
         InMemory(end, Whole(s)), Apart(d, Whole(d) + Whole(s) - 1, s, Whole(s))
  PROVE  strcat(bytes, d, s) = With(end, Append(Str(s), 0))
<1>1. PICK e \in Nat : IsString(bytes, d, e)
  BY HasEnd
<1>2. /\ d \in Nat /\ d <= e /\ Len(Str(d)) = e - d /\ Whole(d) = (e - d) + 1
      /\ strlen(bytes, d) = e - d
  <2>1. d \in Nat /\ d <= e /\ Len(Str(d)) = e - d /\ Whole(d) = (e - d) + 1
    BY <1>1, StrTo
  <2>2. strlen(bytes, d) = e - d
    BY <1>1, LengthIs
  <2> QED BY <2>1, <2>2
<1>3. Whole(s) \in Nat
  <2>1. PICK f \in Nat : IsString(bytes, s, f)
    BY HasEnd
  <2>2. s \in Nat /\ s <= f /\ Whole(s) = (f - s) + 1
    BY <2>1, StrTo
  <2> QED BY <2>2
<1>4. end = e /\ end \in Nat
  BY <1>2
<1>5. Apart(end, Whole(s), s, Whole(s))
  <2>1. Region(end, Whole(s)) \subseteq Region(d, Whole(d) + Whole(s) - 1)
    BY <1>2, <1>3, <1>4 DEF Region
  <2> QED BY <2>1 DEF Apart
<1>6. strcpy(bytes, end, s) = With(end, Append(Str(s), 0))
  <2>1. Whole(s) <= Whole(s)
    BY <1>3
  <2> QED BY <1>3, <1>4, <1>5, <2>1, StringCopied
<1>7. d + strlen(bytes, d) = end
  BY <1>2
<1> QED BY <1>6, <1>7 DEF strcat
------------------------------------------------------------------------------
\* Before its call memory is one of those given, and what the call gives is C's.
CallInv == (result = <<>> => bytes \in Seq(Nat)) /\ CallsOfC

\* A call that gives what C has keeps to C.
LEMMA SameGiven ==
  ASSUME NEW m, NEW r, NEW cm, NEW cr, Gives(m, r, cm, cr), m = cm, r = cr
  PROVE  CallInv'
<1>1. result' # <<>>
  BY DEF Gives
<1> QED BY <1>1 DEF Gives, CallInv, CallsOfC

LEMMA CallStep ==
  ASSUME bytes \in Seq(Nat), CallNext
  PROVE  CallInv'
<1> USE BytesAreNumbers
<1>1. CASE OfBytes
  <2>1. PICK d \in 1..Len(bytes), s \in 1..Len(bytes), n \in Counts :
          InMemory(d, n) /\ InMemory(s, n) /\ (Copy(d, s, n) \/ Compare(d, s, n))
    BY <1>1 DEF OfBytes
  <2>2. n \in Nat /\ d \in Nat /\ s \in Nat
    OBVIOUS
  <2>3. CASE Apart(d, n, s, n) /\ Gives(memcpy(bytes, d, s, n), d, With(d, BytesAt(s, n)), d)
    <3>1. n <= n
      BY <2>2
    <3>2. Copies(bytes, d, s, n)
      BY <2>1, <2>2, <2>3, <3>1, ApartCopies
    <3>3. memcpy(bytes, d, s, n) = With(d, BytesAt(s, n))
      BY <2>1, <2>2, <3>2, BytesCopied DEF memcpy
    <3> QED BY <2>3, <3>3, SameGiven
  <2>4. CASE d <= s /\ Gives(memmove(bytes, d, s, n), d, With(d, BytesAt(s, n)), d)
    <3>1. Copies(bytes, d, s, n)
      BY <2>1, <2>2, <2>4, DownCopies
    <3>2. memmove(bytes, d, s, n) = With(d, BytesAt(s, n))
      BY <2>1, <2>2, <3>1, BytesCopied DEF memmove
    <3> QED BY <2>4, <3>2, SameGiven
  <2>5. CASE Compare(d, s, n)
    <3>1. Sign(memcmp(bytes, d, s, n)) = Order(BytesAt(d, n), BytesAt(s, n))
      BY <2>1, <2>2, CompareIs
    <3> QED BY <2>5, <3>1, SameGiven DEF Compare, Answers
  <2> QED BY <2>1, <2>3, <2>4, <2>5 DEF Copy
<1>2. CASE Set
  <2>1. PICK s \in 1..Len(bytes), n \in Counts, c \in Sought :
          InMemory(s, n) /\ Gives(memset(bytes, s, c, n), s, With(s, [k \in 1..n |-> c]), s)
    BY <1>2 DEF Set
  <2>2. n \in Nat /\ c \in Nat
    OBVIOUS
  <2>3. memset(bytes, s, c, n) = With(s, [k \in 1..n |-> c])
    BY <2>1, <2>2, FilledWith
  <2> QED BY <2>1, <2>3, SameGiven
<1>3. CASE StringCopy
  <2>1. PICK d \in 1..Len(bytes), s \in Strs : Onto(d, s)
    BY <1>3 DEF StringCopy
  <2>2. d \in Nat
    OBVIOUS
  <2>3. CASE /\ InMemory(d, Whole(s)) /\ Apart(d, Whole(s), s, Whole(s))
             /\ Gives(strcpy(bytes, d, s), d, With(d, Append(Str(s), 0)), d)
    <3>1. Whole(s) \in Nat /\ Whole(s) <= Whole(s)
      <4>1. PICK e \in Nat : IsString(bytes, s, e)
        BY HasEnd
      <4>2. s \in Nat /\ s <= e /\ Whole(s) = (e - s) + 1
        BY <4>1, StrTo
      <4> QED BY <4>2
    <3>2. strcpy(bytes, d, s) = With(d, Append(Str(s), 0))
      BY <2>2, <2>3, <3>1, StringCopied
    <3> QED BY <2>3, <3>2, SameGiven
  <2>4. CASE \E n \in Counts :
               /\ n <= Whole(s) /\ InMemory(d, n) /\ Apart(d, n, s, n)
               /\ Gives(strncpy(bytes, d, s, n), d, With(d, BytesAt(s, n)), d)
    <3>1. PICK n \in Counts :
            /\ n <= Whole(s) /\ InMemory(d, n) /\ Apart(d, n, s, n)
            /\ Gives(strncpy(bytes, d, s, n), d, With(d, BytesAt(s, n)), d)
      BY <2>4
    <3>2. n \in Nat
      OBVIOUS
    <3>3. strncpy(bytes, d, s, n) = With(d, BytesAt(s, n))
      BY <3>1, <3>2, PartCopied
    <3> QED BY <3>1, <3>3, SameGiven
  <2> QED BY <2>1, <2>3, <2>4 DEF Onto
<1>4. CASE Join
  <2>1. PICK d \in Strs, s \in Strs : Joins(d, s, d + Len(Str(d)))
    BY <1>4 DEF Join
  <2>2. PICK end : end = d + Len(Str(d))
    OBVIOUS
  <2>3. /\ InMemory(end, Whole(s)) /\ Apart(d, Whole(d) + Whole(s) - 1, s, Whole(s))
        /\ Gives(strcat(bytes, d, s), d, With(end, Append(Str(s), 0)), d)
    BY <2>1, <2>2 DEF Joins
  <2>4. strcat(bytes, d, s) = With(end, Append(Str(s), 0))
    BY <2>2, <2>3, Joined
  <2> QED BY <2>3, <2>4, SameGiven
<1>5. CASE Length
  <2>1. PICK s \in Strs : Answers(strlen(bytes, s), Len(Str(s)))
    BY <1>5 DEF Length
  <2>2. PICK e \in Nat : IsString(bytes, s, e)
    BY HasEnd
  <2>3. strlen(bytes, s) = Len(Str(s))
    <3>1. strlen(bytes, s) = e - s
      BY <2>2, LengthIs
    <3>2. Len(Str(s)) = e - s
      BY <2>2, StrTo
    <3> QED BY <3>1, <3>2
  <2> QED BY <2>1, <2>3, SameGiven DEF Answers
<1>6. CASE Search
  <2>1. PICK s \in Strs, c \in Sought :
          \/ Answers(strchr(bytes, s, c), FirstOf({a \in Region(s, Whole(s)) : bytes[a] = c}))
          \/ c # 0 /\ Answers(strrchr(bytes, s, c), LastOf({a \in Region(s, Whole(s)) : bytes[a] = c}))
    BY <1>6 DEF Search
  <2>2. PICK e \in Nat : IsString(bytes, s, e)
    BY HasEnd
  <2>3. c \in Nat
    OBVIOUS
  <2>4. strchr(bytes, s, c) = FirstOf({a \in Region(s, Whole(s)) : bytes[a] = c})
    BY <2>2, <2>3, CharIs
  <2>5. c # 0 => strrchr(bytes, s, c) = LastOf({a \in Region(s, Whole(s)) : bytes[a] = c})
    BY <2>2, <2>3, LastCharIs
  <2>6. CASE Answers(strchr(bytes, s, c), FirstOf({a \in Region(s, Whole(s)) : bytes[a] = c}))
    BY <2>4, <2>6, SameGiven DEF Answers
  <2>7. CASE c # 0 /\ Answers(strrchr(bytes, s, c), LastOf({a \in Region(s, Whole(s)) : bytes[a] = c}))
    BY <2>5, <2>7, SameGiven DEF Answers
  <2> QED BY <2>1, <2>6, <2>7
<1>7. CASE StringCompare
  <2>1. PICK s1 \in Strs, s2 \in Strs, n \in Counts : Ordered(s1, s2, n)
    BY <1>7 DEF StringCompare
  <2>2. PICK e1 \in Nat : IsString(bytes, s1, e1)
    BY HasEnd
  <2>3. PICK e2 \in Nat : IsString(bytes, s2, e2)
    BY HasEnd
  <2>4. n \in Nat /\ Len(bytes) \in Nat
    OBVIOUS
  <2>5. Sign(strcmp(bytes, s1, s2)) = Order(Filled(Str(s1), Len(bytes)), Filled(Str(s2), Len(bytes)))
    BY <2>2, <2>3, <2>4, StringCompareIs DEF strcmp
  <2>6. Sign(strncmp(bytes, s1, s2, n)) = Order(Filled(Str(s1), n), Filled(Str(s2), n))
    BY <2>2, <2>3, <2>4, StringCompareIs DEF strncmp
  <2>7. CASE Answers(Sign(strcmp(bytes, s1, s2)),
                     Order(Filled(Str(s1), Len(bytes)), Filled(Str(s2), Len(bytes))))
    BY <2>5, <2>7, SameGiven DEF Answers
  <2>8. CASE Answers(Sign(strncmp(bytes, s1, s2, n)), Order(Filled(Str(s1), n), Filled(Str(s2), n)))
    BY <2>6, <2>8, SameGiven DEF Answers
  <2> QED BY <2>1, <2>7, <2>8 DEF Ordered
<1>8. CASE Within
  <2>1. PICK s1 \in Strs, s2 \in Strs :
          /\ Str(s1) # <<>> \/ Str(s2) # <<>>
          /\ Answers(strstr(bytes, s1, s2), FirstOf({a \in Region(s1, Len(Str(s1))) : Begins(Str(s2), a)}))
    BY <1>8 DEF Within
  <2>2. PICK e1 \in Nat : IsString(bytes, s1, e1)
    BY HasEnd
  <2>3. PICK e2 \in Nat : IsString(bytes, s2, e2)
    BY HasEnd
  <2>4. strstr(bytes, s1, s2) = FirstOf({a \in Region(s1, Len(Str(s1))) : Begins(Str(s2), a)})
    BY <2>1, <2>2, <2>3, WithinIs
  <2> QED BY <2>1, <2>4, SameGiven DEF Answers
<1>9. CASE Variables
  <2>1. PICK s1 \in Strs, s2 \in Strs, name \in Strs : s1 # s2 /\ Environment(<<s1, s2>>, name)
    BY <1>9 DEF Variables
  <2>2. PICK env : env = <<s1, s2>>
    OBVIOUS
  <2>3. env \in Seq(Strs) /\ Environment(env, name)
    BY <2>1, <2>2
  <2>4. PICK set : set = {k \in DOMAIN env : Begins(Append(Str(name), Equals), env[k])}
    OBVIOUS
  <2>5. set # {} /\ Answers(getenv(bytes, env, name), env[Min(set)] + Len(Str(name)) + 1)
    BY <2>3, <2>4 DEF Environment
  <2>6. getenv(bytes, env, name) = env[Min(set)] + Len(Str(name)) + 1
    BY <2>3, <2>4, <2>5, EnvironmentIs
  <2> QED BY <2>5, <2>6, SameGiven DEF Answers
<1>10. CASE Instead
  <2>1. CASE \E d, s \in 1..Len(bytes), n \in Counts : MovedUp(d, s, n)
    <3>1. PICK d \in 1..Len(bytes), s \in 1..Len(bytes), n \in Counts : MovedUp(d, s, n)
      BY <2>1
    <3>2. d \in Nat /\ s \in Nat /\ n \in Nat
      OBVIOUS
    <3>3. /\ s < d /\ InMemory(d, n) /\ InMemory(s, n)
          /\ Gives(memmove(bytes, d, s, n), d, Repeated(memmove(bytes, d, s, n), d, s, n), d)
      BY <3>1, <3>2 DEF MovedUp
    <3>4. memmove(bytes, d, s, n) = Repeated(memmove(bytes, d, s, n), d, s, n)
      BY <3>2, <3>3, MovedUpIs
    <3> QED BY <3>3, <3>4, SameGiven
  <2>2. CASE \E d \in 1..Len(bytes), s \in Strs, n \in Counts : Unfilled(d, s, n)
    <3>1. PICK d \in 1..Len(bytes), s \in Strs, n \in Counts : Unfilled(d, s, n)
      BY <2>2
    <3>2. n \in Nat
      OBVIOUS
    <3>3. strncpy(bytes, d, s, n) = With(d, Append(Str(s), 0))
      BY <3>1, <3>2, ShorterCopied DEF Unfilled
    <3> QED BY <3>1, <3>3, SameGiven DEF Unfilled
  <2>3. CASE \E s1, s2 \in Strs : NoEnd(s1) \/ NoneInNone(s1, s2)
    <3>1. PICK s1 \in Strs, s2 \in Strs : NoEnd(s1) \/ NoneInNone(s1, s2)
      BY <2>3
    <3>2. PICK e1 \in Nat : IsString(bytes, s1, e1)
      BY HasEnd
    <3>3. strrchr(bytes, s1, 0) = Nowhere
      BY <3>2, NoEndSeen
    <3>4. NoneInNone(s1, s2) => strstr(bytes, s1, s2) = Nowhere
      BY NoneInNoneIs DEF NoneInNone
    <3>5. CASE NoEnd(s1)
      BY <3>3, <3>5, SameGiven DEF NoEnd, Answers
    <3>6. CASE NoneInNone(s1, s2)
      BY <3>4, <3>6, SameGiven DEF NoneInNone, Answers
    <3> QED BY <3>1, <3>5, <3>6
  <2> QED BY <1>10, <2>1, <2>2, <2>3 DEF Instead
<1> QED BY <1>1, <1>2, <1>3, <1>4, <1>5, <1>6, <1>7, <1>8, <1>9, <1>10 DEF CallNext

(***************************************************************************)
(* Theorem: whatever memory holds, a call of memcpy, memmove, memset,      *)
(* memcmp, strlen, strcpy, strncpy, strcat, strchr, strrchr, strcmp,       *)
(* strncmp, strstr or getenv with its arguments in it leaves the memory    *)
(* and gives the result C says; but where the code has something else, and *)
(* the theorem what that is: a memmove upwards copies again what it copied *)
(* before, strncpy sets nothing behind the 0, strrchr does not find the 0, *)
(* and strstr not the empty string in the empty string.  What memcpy,      *)
(* strcpy, strncpy and strcat copy lies apart from its place, as C wants,  *)
(* and the name getenv is asked for is set.                                *)
(***************************************************************************)
THEOREM CallsAreC == CallSpec => []CallsOfC
<1>1. CallInit => CallInv
  BY BytesAreNumbers DEF CallInit, CallInv, CallsOfC
<1>2. CallInv /\ [CallNext]_call_vars => CallInv'
  <2> SUFFICES ASSUME CallInv, [CallNext]_call_vars PROVE CallInv'
    OBVIOUS
  <2>1. CASE CallNext
    BY <2>1, CallStep DEF CallNext, CallInv
  <2>2. CASE UNCHANGED call_vars
    BY <2>2 DEF call_vars, CallInv, CallsOfC
  <2> QED BY <2>1, <2>2
<1>3. CallInv => CallsOfC
  BY DEF CallInv
<1> QED BY <1>1, <1>2, <1>3, PTL DEF CallSpec
==============================================================================
