---------------------------- MODULE LibraryProofs ----------------------------
(***************************************************************************)
(* What a program keeps on the heap and reads from its streams is what C   *)
(* has, for every word, every size, every file and every sequence of those *)
(* calls that Library allows, but for the answers StreamsOfC names.        *)
(*                                                                         *)
(* HeapOfC and StreamsOfC are not inductive.  LInv adds the room that was  *)
(* taken for an area, as it is more than the program asked for (Layout:    *)
(* each area ends before the word in front of the next); the word with the *)
(* size, which realloc goes by (SizesKept); and that no two streams have   *)
(* the same handle (StreamsKept).                                          *)
(*                                                                         *)
(* There are two kinds of steps: one that takes an area behind the break   *)
(* (Behind) and one that changes bytes of blocks and marks of streams      *)
(* where they are (InPlace).                                               *)
(***************************************************************************)
EXTENDS Library, Lemmas

\* The end of the heap.
Last == MaxBreak + Max(Sizes)

\* The blocks and the streams, by their addresses, and the bytes each has room for.
Areas == DOMAIN blocks \cup DOMAIN streams
Room(a) == IF a \in DOMAIN streams THEN 2 * WordSize ELSE Rounded(Len(blocks[a]))

\* The break is where a word may begin.
Memory ==
  /\ heap \in [1..Last -> Int]
  /\ brk \in Nat /\ 1 <= brk /\ brk <= MaxBreak + 1 /\ (brk - 1) % WordSize = 0

\* What the system has of a handle, and C of a stream; a block and a file are bytes.
OpenedOn(paths) == [path : paths, offset : Nat]
StreamsOn(paths) == [path : paths, reads : BOOLEAN, writes : BOOLEAN, pos : Nat, eof : {"no", "yes", "missed", "stale"}]
CSide ==
  /\ \A p \in DOMAIN blocks : blocks[p] \in Seq(Int)
  /\ \A path \in DOMAIN disk : disk[path] \in Seq(Int)
  /\ \A h \in DOMAIN opened : opened[h] \in OpenedOn(DOMAIN disk)
  /\ \A f \in DOMAIN streams : streams[f] \in StreamsOn(DOMAIN disk)

\* Every area lies below the break, behind a word of its own, apart from all others.
Layout ==
  /\ DOMAIN blocks \cap DOMAIN streams = {}
  /\ \A a \in Areas : /\ a \in Nat /\ WordSize < a /\ (a - 1) % WordSize = 0
                      /\ a + Room(a) <= brk
  /\ \A a, b \in Areas : a < b => a + Room(a) + WordSize <= b

\* The word in front of a block has its size.
SizesKept == \A p \in DOMAIN blocks : heap[p - WordSize] = Rounded(Len(blocks[p]))

Contents == \A p \in DOMAIN blocks : \A i \in DOMAIN blocks[p] : blocks[p][i] \in {Unspecified, heap[p + i - 1]}

\* A stream has a handle of its own, on its file and at its position, and is marked
\* when C has met the end.
StreamsKept ==
  /\ \A f \in DOMAIN streams :
       /\ fh(f) \in DOMAIN opened
       /\ opened[fh(f)].path = streams[f].path /\ opened[fh(f)].offset = streams[f].pos
       /\ at_eof(f) = (streams[f].eof \in {"yes", "stale"})
  /\ \A f, g \in DOMAIN streams : fh(f) = fh(g) => f = g

\* What the last call returned is what C has for it, or known not to be.
Answered == answer \in {"as C", "bytes", "one"}

\* The inductive invariant.
LInv == Memory /\ CSide /\ Layout /\ SizesKept /\ Contents /\ StreamsKept /\ Answered

------------------------------------------------------------------------------
\* The bytes taken for a size are as many or more, and whole words.
LEMMA Divides ==
  ASSUME NEW n \in Nat, NEW w \in Nat \ {0}
  PROVE  /\ n = w * (n \div w) + (n % w) /\ n \div w \in Nat
         /\ n % w \in 0..(w - 1)
BY SMT

LEMMA Multiples ==
  ASSUME NEW q \in Nat, NEW w \in Nat \ {0}
  PROVE  w * q \in Nat /\ (w * q) % w = 0 /\ (w * q) \div w = q
BY SMT

LEMMA RoundedIs ==
  ASSUME WordSize \in Nat \ {0}, NEW n \in Nat
  PROVE  /\ Rounded(n) \in Nat /\ n <= Rounded(n) /\ Rounded(n) % WordSize = 0
         /\ WordSize * (Rounded(n) \div WordSize) = Rounded(n)
<1> DEFINE m == n + WordSize - 1
           q == m \div WordSize
<1>1. m \in Nat
  OBVIOUS
<1>2. m = WordSize * q + (m % WordSize) /\ q \in Nat /\ m % WordSize \in 0..(WordSize - 1)
  BY <1>1, Divides
<1>3. WordSize * q \in Nat /\ (WordSize * q) % WordSize = 0 /\ (WordSize * q) \div WordSize = q
  BY <1>2, Multiples
<1>4. Rounded(n) = WordSize * q
  BY DEF Rounded
<1> HIDE DEF q
<1>5. n <= WordSize * q
  BY <1>2, <1>3
<1> QED BY <1>3, <1>4, <1>5

LEMMA SumOfWords ==
  ASSUME WordSize \in Nat \ {0}, NEW a \in Nat, NEW b \in Nat, a % WordSize = 0, b % WordSize = 0
  PROVE  (a + b) % WordSize = 0
<1>1. a = WordSize * (a \div WordSize) /\ b = WordSize * (b \div WordSize) /\ a \div WordSize \in Nat /\ b \div WordSize \in Nat
  <2>1. a = WordSize * (a \div WordSize) + (a % WordSize) /\ a \div WordSize \in Nat
    BY Divides
  <2>2. b = WordSize * (b \div WordSize) + (b % WordSize) /\ b \div WordSize \in Nat
    BY Divides
  <2> QED BY <2>1, <2>2
<1> DEFINE p == a \div WordSize
           q == b \div WordSize
<1>2. WordSize * (p + q) = WordSize * p + WordSize * q
  <2> HIDE DEF p, q
  <2>1. p \in Nat /\ q \in Nat
    BY <1>1 DEF p, q
  <2> QED BY <2>1
<1>3. (WordSize * (p + q)) % WordSize = 0
  BY <1>1, Multiples
<1> HIDE DEF p, q
<1>4. a + b = WordSize * (p + q)
  BY <1>1, <1>2 DEF p, q
<1> QED BY <1>3, <1>4

------------------------------------------------------------------------------
\* Where blocks and streams are, in numbers.
LEMMA Places ==
  ASSUME LibraryFits, LInv
  PROVE  /\ WordSize \in Nat /\ WordSize >= 1 /\ Last \in Nat /\ MaxBreak <= Last /\ MaxBreak \in Nat
         /\ \A p \in DOMAIN blocks :
              /\ p \in Nat /\ Len(blocks[p]) \in Nat /\ DOMAIN blocks[p] = 1..Len(blocks[p])
              /\ Rounded(Len(blocks[p])) \in Nat /\ Len(blocks[p]) <= Rounded(Len(blocks[p]))
              /\ WordSize < p /\ p + Rounded(Len(blocks[p])) <= brk /\ p \notin DOMAIN streams
              /\ Room(p) = Rounded(Len(blocks[p]))
         /\ \A f \in DOMAIN streams : f \in Nat /\ WordSize < f /\ f + 2 * WordSize <= brk /\ Room(f) = 2 * WordSize
         /\ \A a \in Areas : Room(a) \in Nat
<1>1. WordSize \in Nat /\ WordSize >= 1 /\ Last \in Nat /\ MaxBreak <= Last /\ MaxBreak \in Nat
  <2>1. \E n \in Sizes : \A m \in Sizes : n >= m
    BY DEF LibraryFits
  <2>2. Max(Sizes) \in Sizes
    BY <2>1 DEF Max
  <2>3. PICK n \in Nat : n = Max(Sizes)
    BY <2>2 DEF LibraryFits
  <2> QED BY <2>3 DEF LibraryFits, Last
<1>2. ASSUME NEW p \in DOMAIN blocks
      PROVE  /\ p \in Nat /\ Len(blocks[p]) \in Nat /\ DOMAIN blocks[p] = 1..Len(blocks[p])
             /\ Rounded(Len(blocks[p])) \in Nat /\ Len(blocks[p]) <= Rounded(Len(blocks[p]))
             /\ WordSize < p /\ p + Rounded(Len(blocks[p])) <= brk /\ p \notin DOMAIN streams
             /\ Room(p) = Rounded(Len(blocks[p]))
  <2>1. blocks[p] \in Seq(Int)
    BY DEF LInv, CSide
  <2>2. Len(blocks[p]) \in Nat /\ DOMAIN blocks[p] = 1..Len(blocks[p])
    BY <2>1
  <2>3. Rounded(Len(blocks[p])) \in Nat /\ Len(blocks[p]) <= Rounded(Len(blocks[p]))
    BY <2>2, RoundedIs DEF LibraryFits
  <2>4. p \notin DOMAIN streams /\ Room(p) = Rounded(Len(blocks[p]))
    BY DEF LInv, Layout, Room
  <2>5. p \in Nat /\ WordSize < p /\ p + Room(p) <= brk
    BY DEF LInv, Layout, Areas
  <2> QED BY <2>2, <2>3, <2>4, <2>5
<1>3. ASSUME NEW f \in DOMAIN streams
      PROVE  f \in Nat /\ WordSize < f /\ f + 2 * WordSize <= brk /\ Room(f) = 2 * WordSize
  <2>1. Room(f) = 2 * WordSize
    BY DEF Room
  <2>2. f \in Nat /\ WordSize < f /\ f + Room(f) <= brk
    BY DEF LInv, Layout, Areas
  <2> QED BY <2>1, <2>2
<1> QED BY <1>1, <1>2, <1>3 DEF Areas

\* Two of them are apart.
LEMMA Apart ==
  ASSUME LibraryFits, LInv, NEW a \in Areas, NEW b \in Areas, a # b
  PROVE  /\ a \in Nat /\ b \in Nat /\ Room(a) \in Nat /\ Room(b) \in Nat
         /\ a + Room(a) + WordSize <= b \/ b + Room(b) + WordSize <= a
<1>1. a \in Nat /\ b \in Nat /\ Room(a) \in Nat /\ Room(b) \in Nat
  BY Places DEF LInv, Layout
<1>2. a < b \/ b < a
  BY <1>1
<1> QED BY <1>1, <1>2 DEF LInv, Layout

\* The invariant says what C says of the heap.
LEMMA HeapIsRight ==
  ASSUME LibraryFits, LInv
  PROVE  HeapOfC
<1> DEFINE Bounds == {<<p, Len(blocks[p])>> : p \in DOMAIN blocks} \cup {<<f, 2 * WordSize>> : f \in DOMAIN streams}
<1>1. \A b \in Bounds : /\ b[1] \in Areas /\ b[1] \in Nat /\ b[2] \in Nat /\ b[2] <= Room(b[1])
                        /\ Room(b[1]) \in Nat /\ b[1] + Room(b[1]) <= brk
  <2> TAKE b \in Bounds
  <2>1. CASE \E p \in DOMAIN blocks : b = <<p, Len(blocks[p])>>
    <3>1. PICK p \in DOMAIN blocks : b = <<p, Len(blocks[p])>>
      BY <2>1
    <3>2. b[1] = p /\ b[2] = Len(blocks[p])
      BY <3>1
    <3>3. /\ p \in Nat /\ Len(blocks[p]) \in Nat /\ Rounded(Len(blocks[p])) \in Nat
          /\ Len(blocks[p]) <= Rounded(Len(blocks[p]))
          /\ p + Rounded(Len(blocks[p])) <= brk /\ Room(p) = Rounded(Len(blocks[p]))
      BY Places
    <3>4. p \in Areas
      BY DEF Areas
    <3> QED BY <3>2, <3>3, <3>4
  <2>2. CASE \E f \in DOMAIN streams : b = <<f, 2 * WordSize>>
    <3>1. PICK f \in DOMAIN streams : b = <<f, 2 * WordSize>>
      BY <2>2
    <3>2. b[1] = f /\ b[2] = 2 * WordSize
      BY <3>1
    <3>3. f \in Nat /\ f + 2 * WordSize <= brk /\ Room(f) = 2 * WordSize /\ WordSize \in Nat
      BY Places
    <3>4. f \in Areas
      BY DEF Areas
    <3> QED BY <3>2, <3>3, <3>4
  <2> QED BY <2>1, <2>2
<1> HIDE DEF Bounds
<1>2. \A b, c \in Bounds : b[1] < c[1] => b[1] + b[2] <= c[1]
  <2> TAKE b, c \in Bounds
  <2> HAVE b[1] < c[1]
  <2>1. b[1] + Room(b[1]) + WordSize <= c[1]
    BY <1>1 DEF LInv, Layout
  <2>2. WordSize \in Nat
    BY Places
  <2> QED BY <1>1, <2>1, <2>2
<1>3. \A b \in Bounds : (b[1] - 1) % WordSize = 0 /\ b[1] + b[2] <= brk
  <2> TAKE b \in Bounds
  <2>1. (b[1] - 1) % WordSize = 0
    BY <1>1 DEF LInv, Layout
  <2>2. brk \in Nat
    BY DEF LInv, Memory
  <2> QED BY <1>1, <2>1, <2>2
<1>4. \A p \in DOMAIN blocks : \A i \in DOMAIN blocks[p] : blocks[p][i] \in {Unspecified, heap[p + i - 1]}
  BY DEF LInv, Contents
<1> QED BY <1>2, <1>3, <1>4 DEF HeapOfC, Bounds

\* And of the streams.
LEMMA StreamsAreRight ==
  ASSUME LInv
  PROVE  StreamsOfC
BY DEF LInv, StreamsKept, StreamsOfC, Answered, ftell, feof

------------------------------------------------------------------------------
\* A byte of n, and the marks of a stream, are below the end of the room there is.
LEMMA ByteInside ==
  ASSUME NEW p \in Nat, NEW w \in Nat, w < p, NEW q \in Nat, NEW n \in Nat, n <= q,
         NEW b \in Nat, p + q <= b, NEW i \in 1..n
  PROVE  p + i - 1 \in Nat /\ 1 <= p + i - 1 /\ p + i - 1 < b
OBVIOUS

LEMMA MarkInside ==
  ASSUME NEW f \in Nat, NEW w \in Nat \ {0}, w < f, NEW b \in Nat, f + 2 * w <= b,
         NEW last \in Nat, b <= last + 1
  PROVE  /\ f < b /\ f + w < b /\ f + 2 * w <= last + 1
         /\ f \in 1..last /\ f + w \in 1..last
OBVIOUS

\* A step that changes bytes of blocks and marks of streams where they are: Z has
\* the places.
LEMMA InPlace ==
  ASSUME LibraryFits, LInv, NEW Z,
         heap' \in [1..Last -> Int], brk' = brk,
         \A a \in 1..Last : a \in Z \/ heap'[a] = heap[a],
         \A a \in Z : \/ \E p \in DOMAIN blocks : a \in p..(p + Len(blocks[p]) - 1)
                      \/ \E f \in DOMAIN streams : a \in (f + WordSize)..(f + 2 * WordSize - 1),
         DOMAIN blocks' = DOMAIN blocks, DOMAIN streams' = DOMAIN streams,
         \A p \in DOMAIN blocks : /\ blocks'[p] \in Seq(Int) /\ Len(blocks'[p]) = Len(blocks[p])
                                  /\ \A i \in 1..Len(blocks[p]) :
                                       IF p + i - 1 \in Z THEN blocks'[p][i] \in {Unspecified, heap'[p + i - 1]}
                                       ELSE blocks'[p][i] = blocks[p][i]
  PROVE  /\ Memory' /\ Layout' /\ SizesKept' /\ Contents'
         /\ \A f \in DOMAIN streams : /\ heap'[f] = heap[f]
                                      /\ f + WordSize \in Z \/ heap'[f + WordSize] = heap[f + WordSize]
<1>1. Memory'
  BY DEF LInv, Memory, Last
<1>2. Areas' = Areas /\ \A a \in Areas : Room(a)' = Room(a)
  BY DEF Areas, Room, Rounded
<1>3. Layout'
  <2>1. DOMAIN blocks' \cap DOMAIN streams' = {}
    BY DEF LInv, Layout
  <2>2. \A a \in Areas' : /\ a \in Nat /\ WordSize < a /\ (a - 1) % WordSize = 0
                          /\ a + Room(a)' <= brk'
    BY <1>2 DEF LInv, Layout
  <2>3. \A a, b \in Areas' : a < b => a + Room(a)' + WordSize <= b
    BY <1>2 DEF LInv, Layout
  <2> QED BY <2>1, <2>2, <2>3 DEF Layout
\* Neither the word in front of an area nor a handle is in Z.
<1>4. ASSUME NEW b \in Areas, NEW x \in Z,
             x = b - WordSize \/ (b \in DOMAIN streams /\ x = b)
      PROVE  FALSE
  <2>0. WordSize \in Nat /\ WordSize >= 1 /\ b \in Nat /\ Room(b) \in Nat
    BY Places DEF LInv, Layout
  <2>1. CASE \E p \in DOMAIN blocks : x \in p..(p + Len(blocks[p]) - 1)
    <3>1. PICK p \in DOMAIN blocks : x \in p..(p + Len(blocks[p]) - 1)
      BY <2>1
    <3>2. /\ p \in Areas /\ p \in Nat /\ Len(blocks[p]) \in Nat /\ Room(p) \in Nat
          /\ Len(blocks[p]) <= Room(p) /\ p \notin DOMAIN streams
      BY Places DEF Areas
    <3>3. p # b
      <4>1. CASE b \in DOMAIN streams
        BY <3>2, <4>1
      <4>2. CASE x = b - WordSize
        BY <2>0, <3>1, <3>2, <4>2
      <4> QED BY <1>4, <4>1, <4>2
    <3>4. p + Room(p) + WordSize <= b \/ b + Room(b) + WordSize <= p
      BY <3>2, <3>3, Apart
    <3>5. x \in Nat /\ p <= x /\ x < p + Room(p)
      BY <3>1, <3>2
    <3>6. CASE x = b - WordSize
      BY <2>0, <3>2, <3>4, <3>5, <3>6
    <3>7. CASE b \in DOMAIN streams /\ x = b
      BY <2>0, <3>2, <3>4, <3>5, <3>7
    <3> QED BY <1>4, <3>6, <3>7
  <2>2. CASE \E f \in DOMAIN streams : x \in (f + WordSize)..(f + 2 * WordSize - 1)
    <3>1. PICK f \in DOMAIN streams : x \in (f + WordSize)..(f + 2 * WordSize - 1)
      BY <2>2
    <3>2. f \in Areas /\ f \in Nat /\ Room(f) = 2 * WordSize
      BY Places DEF Areas
    <3>3. x \in Nat /\ f + WordSize <= x /\ x < f + 2 * WordSize
      BY <2>0, <3>1, <3>2
    <3>4. f # b
      BY <1>4, <2>0, <3>2, <3>3
    <3>5. f + Room(f) + WordSize <= b \/ b + Room(b) + WordSize <= f
      BY <3>2, <3>4, Apart
    <3> QED BY <1>4, <2>0, <3>2, <3>3, <3>5
  <2> QED BY <2>1, <2>2
<1>5. SizesKept'
  <2> SUFFICES ASSUME NEW p \in DOMAIN blocks PROVE heap'[p - WordSize] = Rounded(Len(blocks'[p]))
    BY DEF SizesKept, Rounded
  <2>1. p \in Areas /\ p - WordSize \in 1..Last
    <3>1. /\ p \in Nat /\ WordSize < p /\ WordSize \in Nat /\ WordSize >= 1 /\ MaxBreak \in Nat /\ Last \in Nat /\ MaxBreak <= Last
          /\ p + Rounded(Len(blocks[p])) <= brk /\ Rounded(Len(blocks[p])) \in Nat
      BY Places
    <3>2. brk \in Nat /\ brk <= MaxBreak + 1
      BY DEF LInv, Memory
    <3>3. p - WordSize \in 1..Last
      BY <3>1, <3>2
    <3> QED BY <3>3 DEF Areas
  <2>2. p - WordSize \notin Z
    BY <1>4, <2>1
  <2>3. heap[p - WordSize] = Rounded(Len(blocks[p]))
    BY DEF LInv, SizesKept
  <2> QED BY <2>1, <2>2, <2>3
<1>6. Contents'
  <2> SUFFICES ASSUME NEW p \in DOMAIN blocks, NEW i \in DOMAIN blocks'[p]
               PROVE  blocks'[p][i] \in {Unspecified, heap'[p + i - 1]}
    BY DEF Contents, Unspecified
  <2>0. DOMAIN blocks'[p] = 1..Len(blocks[p]) /\ DOMAIN blocks[p] = 1..Len(blocks[p])
    <3>1. blocks'[p] \in Seq(Int) /\ Len(blocks'[p]) = Len(blocks[p])
      OBVIOUS
    <3> QED BY <3>1, Places
  <2>1. CASE p + i - 1 \in Z
    BY <2>0, <2>1
  <2>2. CASE p + i - 1 \notin Z
    <3>1. blocks'[p][i] = blocks[p][i]
      BY <2>0, <2>2
    <3>2. blocks[p][i] \in {Unspecified, heap[p + i - 1]}
      BY <2>0 DEF LInv, Contents
    <3>3. p + i - 1 \in 1..Last
      <4>1. /\ p \in Nat /\ WordSize < p /\ WordSize \in Nat /\ MaxBreak \in Nat /\ Last \in Nat /\ MaxBreak <= Last
            /\ p + Rounded(Len(blocks[p])) <= brk /\ Rounded(Len(blocks[p])) \in Nat
            /\ Len(blocks[p]) \in Nat /\ Len(blocks[p]) <= Rounded(Len(blocks[p]))
        BY Places
      <4>2. brk \in Nat /\ brk <= MaxBreak + 1 /\ i \in 1..Len(blocks[p])
        BY <2>0 DEF LInv, Memory
      <4> DEFINE q == Rounded(Len(blocks[p]))
                 n == Len(blocks[p])
      <4> HIDE DEF q, n
      <4>3. /\ p \in Nat /\ WordSize < p /\ WordSize \in Nat /\ p + q <= brk /\ q \in Nat /\ n \in Nat /\ n <= q
            /\ brk \in Nat /\ i \in 1..n /\ brk <= Last + 1 /\ Last \in Nat
        BY <4>1, <4>2 DEF q, n
      <4>4. p + i - 1 \in Nat /\ 1 <= p + i - 1 /\ p + i - 1 < brk
        BY <4>3, ByteInside
      <4> QED BY <4>3, <4>4
    <3>4. heap'[p + i - 1] = heap[p + i - 1]
      BY <2>2, <3>3
    <3> QED BY <3>1, <3>2, <3>4
  <2> QED BY <2>1, <2>2
<1>7. ASSUME NEW f \in DOMAIN streams
      PROVE  heap'[f] = heap[f] /\ (f + WordSize \in Z \/ heap'[f + WordSize] = heap[f + WordSize])
  <2>1. f \in Nat /\ WordSize < f /\ f + 2 * WordSize <= brk /\ WordSize \in Nat /\ WordSize >= 1
        /\ MaxBreak \in Nat /\ Last \in Nat /\ MaxBreak <= Last
    BY Places
  <2>2. brk \in Nat /\ brk <= MaxBreak + 1
    BY DEF LInv, Memory
  <2>3. f \in 1..Last /\ f + WordSize \in 1..Last
    BY <2>1, <2>2
  <2>4. f \notin Z
    BY <1>4 DEF Areas
  <2> QED BY <2>3, <2>4
<1> QED BY <1>1, <1>3, <1>5, <1>6, <1>7

\* A stream's handle and its marks are words of the heap below the break.
LEMMA StreamOnHeap ==
  ASSUME LibraryFits, LInv, NEW f \in DOMAIN streams
  PROVE  /\ f < brk /\ f + WordSize < brk /\ f + 2 * WordSize <= Last + 1
         /\ f \in 1..Last /\ f + WordSize \in 1..Last /\ f \in Nat
<1>1. brk \in Nat /\ brk <= MaxBreak + 1 /\ MaxBreak \in Nat /\ MaxBreak <= Last /\ Last \in Nat
  BY Places DEF LInv, Memory
<1>2. f \in Nat /\ WordSize < f /\ f + 2 * WordSize <= brk /\ WordSize \in Nat /\ WordSize >= 1
  BY Places
<1>3. brk <= Last + 1
  BY <1>1
<1> QED BY <1>1, <1>2, <1>3, MarkInside

\* A step that takes an area of r bytes behind the break, and perhaps gives blocks
\* back.
LEMMA Behind ==
  ASSUME LibraryFits, LInv, NEW B \in SUBSET DOMAIN blocks,
         NEW r \in Nat, r % WordSize = 0, NEW nb, nb = NewBlock, brk' = brk + (r + WordSize), brk' <= MaxBreak + 1,
         heap' \in [1..Last -> Int], \A a \in 1..Last : a < brk => heap'[a] = heap[a],
         \/ /\ DOMAIN blocks' = B \cup {nb} /\ DOMAIN streams' = DOMAIN streams
            /\ blocks'[nb] \in Seq(Int) /\ Rounded(Len(blocks'[nb])) = r
            /\ heap'[brk] = r
            /\ \A i \in 1..Len(blocks'[nb]) : blocks'[nb][i] \in {Unspecified, heap'[nb + i - 1]}
         \/ DOMAIN blocks' = B /\ DOMAIN streams' = DOMAIN streams \cup {nb} /\ r = 2 * WordSize,
         \A p \in B : blocks'[p] = blocks[p]
  PROVE  /\ Memory' /\ Layout' /\ SizesKept' /\ Contents'
         /\ \A p \in DOMAIN blocks' : blocks'[p] \in Seq(Int)
         /\ \A f \in DOMAIN streams : heap'[f] = heap[f] /\ heap'[f + WordSize] = heap[f + WordSize]
         /\ nb \notin Areas /\ nb \in Nat /\ nb = brk + WordSize /\ nb + r <= MaxBreak + 1
<1>0. /\ WordSize \in Nat /\ WordSize >= 1 /\ Last \in Nat /\ MaxBreak <= Last /\ MaxBreak \in Nat
      /\ brk \in Nat /\ 1 <= brk /\ brk <= MaxBreak + 1 /\ (brk - 1) % WordSize = 0 /\ nb = brk + WordSize /\ brk' = nb + r
  BY Places DEF LInv, Memory, NewBlock
<1>1. \A a \in Areas : a \in Nat /\ WordSize < a /\ Room(a) \in Nat /\ a + Room(a) <= brk /\ (a - 1) % WordSize = 0
  BY Places DEF LInv, Layout
<1>2. nb \notin Areas /\ nb \in Nat
  BY <1>0, <1>1
<1>3. WordSize % WordSize = 0
  <2>1. (WordSize * 1) % WordSize = 0 /\ WordSize * 1 = WordSize
    BY <1>0, Multiples
  <2> QED BY <2>1
<1>4. (nb - 1) % WordSize = 0 /\ (brk' - 1) % WordSize = 0
  <2> DEFINE m == brk - 1
             k == m + WordSize
  <2>1. m \in Nat /\ k \in Nat /\ m % WordSize = 0 /\ nb - 1 = k /\ brk' - 1 = k + r
    BY <1>0
  <2> HIDE DEF m, k
  <2>2. k % WordSize = 0
    <3>1. (m + WordSize) % WordSize = 0
      BY <1>0, <1>3, <2>1, SumOfWords DEF LibraryFits
    <3> QED BY <3>1 DEF k
  <2>3. (k + r) % WordSize = 0
    BY <1>0, <2>1, <2>2, SumOfWords DEF LibraryFits
  <2> QED BY <2>1, <2>2, <2>3
<1>5. Memory'
  <2>1. brk' \in Nat /\ 1 <= brk' /\ brk' <= MaxBreak + 1
    <3>1. brk \in Nat /\ WordSize \in Nat /\ 1 <= brk
      BY <1>0
    <3>2. PICK n \in Nat : n = brk + (r + WordSize)
      BY <3>1
    <3>3. 1 <= n
      BY <3>1, <3>2
    <3> QED BY <3>2, <3>3
  <2>2. heap' \in [1..Last' -> Int]
    BY DEF Last
  <2> QED BY <1>4, <2>1, <2>2 DEF Memory
<1>6. Areas' \subseteq Areas \cup {nb} /\ nb \in Areas'
  BY DEF Areas
<1>7. DOMAIN blocks' \cap DOMAIN streams' = {}
  <2>1. DOMAIN blocks \cap DOMAIN streams = {}
    BY DEF LInv, Layout
  <2> QED BY <1>2, <2>1 DEF Areas
<1>8. /\ \A a \in Areas' : a # nb => Room(a)' = Room(a)
      /\ Room(nb)' = r
  <2>1. \A a \in Areas' : a # nb => Room(a)' = Room(a)
    <3> SUFFICES ASSUME NEW a \in Areas', a # nb PROVE Room(a)' = Room(a)
      OBVIOUS
    <3>1. CASE a \in DOMAIN streams'
      <4>1. a \in DOMAIN streams
        BY <3>1
      <4> QED BY <3>1, <4>1 DEF Room
    <3>2. CASE a \in DOMAIN blocks' /\ a \notin DOMAIN streams'
      <4>1. a \in B /\ a \notin DOMAIN streams
        BY <3>2
      <4> QED BY <3>2, <4>1 DEF Room, Rounded
    <3> QED BY <3>1, <3>2 DEF Areas
  <2>2. Room(nb)' = r
    <3>1. CASE DOMAIN blocks' = B \cup {nb} /\ DOMAIN streams' = DOMAIN streams
               /\ Rounded(Len(blocks'[nb])) = r
      <4>1. nb \notin DOMAIN streams'
        BY <1>2, <3>1 DEF Areas
      <4> QED BY <3>1, <4>1 DEF Room, Rounded
    <3>2. CASE DOMAIN streams' = DOMAIN streams \cup {nb} /\ r = 2 * WordSize
      BY <3>2 DEF Room
    <3> QED BY <3>1, <3>2
  <2> QED BY <2>1, <2>2
<1>9. Layout'
  <2>1. \A a \in Areas' : a \in Nat /\ WordSize < a /\ (a - 1) % WordSize = 0 /\ a + Room(a)' <= brk'
    <3> SUFFICES ASSUME NEW a \in Areas'
                 PROVE  a \in Nat /\ WordSize < a /\ (a - 1) % WordSize = 0 /\ a + Room(a)' <= brk'
      OBVIOUS
    <3>1. CASE a = nb
      BY <1>0, <1>2, <1>4, <1>8, <3>1
    <3>2. CASE a # nb
      BY <1>0, <1>1, <1>6, <1>8, <3>2
    <3> QED BY <3>1, <3>2
  <2>2. \A a, b \in Areas' : a < b => a + Room(a)' + WordSize <= b
    <3> SUFFICES ASSUME NEW a \in Areas', NEW b \in Areas', a < b PROVE a + Room(a)' + WordSize <= b
      OBVIOUS
    <3>1. CASE a # nb /\ b # nb
      BY <1>6, <1>8, <3>1 DEF LInv, Layout
    <3>2. CASE a # nb /\ b = nb
      <4>1. a \in Areas /\ Room(a)' = Room(a)
        BY <1>6, <1>8, <3>2
      <4>2. /\ a \in Nat /\ Room(a) \in Nat /\ a + Room(a) <= brk
            /\ brk \in Nat /\ WordSize \in Nat /\ b = brk + WordSize
        BY <1>0, <1>1, <3>2, <4>1
      <4> QED BY <4>1, <4>2
    <3>3. CASE a = nb /\ b # nb
      BY <1>0, <1>1, <1>6, <3>3
    <3>4. CASE a = nb /\ b = nb
      BY <1>2, <3>4
    <3> QED BY <3>1, <3>2, <3>3, <3>4
  <2> QED BY <1>7, <2>1, <2>2 DEF Layout
\* The old blocks are below the break.
<1>10. ASSUME NEW p \in B
       PROVE  /\ heap'[p - WordSize] = heap[p - WordSize]
              /\ DOMAIN blocks[p] = 1..Len(blocks[p]) /\ blocks[p] \in Seq(Int)
              /\ \A i \in 1..Len(blocks[p]) : heap'[p + i - 1] = heap[p + i - 1]
  <2>1. /\ p \in Nat /\ WordSize < p /\ p + Rounded(Len(blocks[p])) <= brk /\ Rounded(Len(blocks[p])) \in Nat
        /\ Len(blocks[p]) \in Nat /\ Len(blocks[p]) <= Rounded(Len(blocks[p])) /\ DOMAIN blocks[p] = 1..Len(blocks[p])
    BY Places
  <2> DEFINE q == Rounded(Len(blocks[p]))
             n == Len(blocks[p])
  <2> HIDE DEF q, n
  <2>2. p \in Nat /\ WordSize < p /\ p + q <= brk /\ q \in Nat /\ n \in Nat /\ n <= q
    BY <2>1 DEF q, n
  <2>3. p - WordSize \in 1..Last /\ p - WordSize < brk
    BY <1>0, <2>2
  <2>4. \A i \in 1..n : p + i - 1 \in 1..Last /\ p + i - 1 < brk
    BY <1>0, <2>2
  <2>5. blocks[p] \in Seq(Int)
    BY DEF LInv, CSide
  <2> QED BY <2>1, <2>3, <2>4, <2>5 DEF n
<1>11. SizesKept'
  <2> SUFFICES ASSUME NEW p \in DOMAIN blocks' PROVE heap'[p - WordSize] = Rounded(Len(blocks'[p]))
    BY DEF SizesKept, Rounded
  <2>1. CASE p \in B
    BY <1>10, <2>1 DEF LInv, SizesKept
  <2>2. CASE p \notin B
    <3>1. p = nb /\ nb - WordSize = brk
      BY <1>0, <2>2
    <3>2. heap'[brk] = r /\ Rounded(Len(blocks'[nb])) = r
      BY <1>2, <2>2 DEF Areas
    <3> QED BY <3>1, <3>2
  <2> QED BY <2>1, <2>2
<1>12. Contents'
  <2> SUFFICES ASSUME NEW p \in DOMAIN blocks', NEW i \in DOMAIN blocks'[p]
               PROVE  blocks'[p][i] \in {Unspecified, heap'[p + i - 1]}
    BY DEF Contents, Unspecified
  <2>1. CASE p \in B
    <3>1. i \in 1..Len(blocks[p]) /\ i \in DOMAIN blocks[p]
      BY <1>10, <2>1
    <3>2. blocks[p][i] \in {Unspecified, heap[p + i - 1]}
      BY <2>1, <3>1 DEF LInv, Contents
    <3>3. heap'[p + i - 1] = heap[p + i - 1]
      BY <1>10, <2>1, <3>1
    <3> QED BY <2>1, <3>2, <3>3
  <2>2. CASE p \notin B
    <3>1. p = nb /\ blocks'[nb] \in Seq(Int)
          /\ \A j \in 1..Len(blocks'[nb]) : blocks'[nb][j] \in {Unspecified, heap'[nb + j - 1]}
      BY <1>2, <2>2 DEF Areas
    <3>2. i \in 1..Len(blocks'[nb])
      BY <3>1
    <3> QED BY <3>1, <3>2
  <2> QED BY <2>1, <2>2
<1>13. ASSUME NEW f \in DOMAIN streams
       PROVE  heap'[f] = heap[f] /\ heap'[f + WordSize] = heap[f + WordSize]
  <2>1. f < brk /\ f + WordSize < brk /\ f \in 1..Last /\ f + WordSize \in 1..Last
    BY StreamOnHeap
  <2> QED BY <2>1
<1>14. \A p \in DOMAIN blocks' : blocks'[p] \in Seq(Int)
  <2> SUFFICES ASSUME NEW p \in DOMAIN blocks' PROVE blocks'[p] \in Seq(Int)
    OBVIOUS
  <2>1. CASE p \in B
    BY <1>10, <2>1
  <2>2. CASE p \notin B
    BY <1>2, <2>2 DEF Areas
  <2> QED BY <2>1, <2>2
<1> QED BY <1>0, <1>2, <1>5, <1>9, <1>11, <1>12, <1>13, <1>14

------------------------------------------------------------------------------
\* Functions that are given a value more, or one less.
LEMMA ExtendedIs ==
  ASSUME NEW f, NEW k, NEW v
  PROVE  /\ DOMAIN Extended(f, k, v) = DOMAIN f \cup {k}
         /\ Extended(f, k, v)[k] = v
         /\ \A x \in DOMAIN f : x # k => Extended(f, k, v)[x] = f[x]
BY DEF Extended

LEMMA WithoutIs ==
  ASSUME NEW f, NEW k
  PROVE  /\ DOMAIN Without(f, k) = DOMAIN f \ {k}
         /\ \A x \in DOMAIN f : x # k => Without(f, k)[x] = f[x]
BY DEF Without, Restrict

\* A heap with a word stored in it.
LEMMA StoredIs ==
  ASSUME WordSize \in Nat \ {0}, NEW N \in Nat, NEW h \in [1..N -> Int], NEW a \in 1..N, NEW n \in Int
  PROVE  /\ Stored(h, a, n) \in [1..N -> Int]
         /\ Stored(h, a, n)[a] = n
         /\ \A x \in 1..N : (x < a \/ a + WordSize <= x) => Stored(h, a, n)[x] = h[x]
<1>1. DOMAIN h = 1..N
  OBVIOUS
<1>2. Stored(h, a, n)[a] = n
  BY <1>1 DEF Stored
<1>3. \A x \in 1..N : Stored(h, a, n)[x] \in Int
  BY <1>1 DEF Stored
<1>4. \A x \in 1..N : (x < a \/ a + WordSize <= x) => Stored(h, a, n)[x] = h[x]
  <2> SUFFICES ASSUME NEW x \in 1..N, x < a \/ a + WordSize <= x PROVE Stored(h, a, n)[x] = h[x]
    OBVIOUS
  <2>1. x # a /\ x \notin (a + 1)..(a + WordSize - 1)
    OBVIOUS
  <2> QED BY <1>1, <2>1 DEF Stored
<1>5. Stored(h, a, n) = [x \in 1..N |-> Stored(h, a, n)[x]]
  BY <1>1 DEF Stored
<1> QED BY <1>2, <1>3, <1>4, <1>5

\* The word with the size, in front of a new block.
LEMMA SizeWord ==
  ASSUME LibraryFits, LInv, NEW n \in Nat, Fits(n)
  PROVE  /\ WithSize(n) \in [1..Last -> Int] /\ WithSize(n)[brk] = Rounded(n)
         /\ \A a \in 1..Last : a < brk => WithSize(n)[a] = heap[a]
         /\ Rounded(n) \in Nat /\ n <= Rounded(n) /\ Rounded(n) % WordSize = 0
         /\ brk + (Rounded(n) + WordSize) <= MaxBreak + 1
         /\ brk \in 1..Last /\ NewBlock = brk + WordSize /\ NewBlock + Rounded(n) <= Last + 1 /\ NewBlock \in Nat
<1>1. Rounded(n) \in Nat /\ n <= Rounded(n) /\ Rounded(n) % WordSize = 0
  BY RoundedIs DEF LibraryFits
<1>2. /\ WordSize \in Nat /\ WordSize >= 1 /\ Last \in Nat /\ MaxBreak <= Last /\ MaxBreak \in Nat
      /\ brk \in Nat /\ 1 <= brk
  BY Places DEF LInv, Memory
<1> DEFINE r == Rounded(n)
<1>3. r \in Nat /\ brk + WordSize + r <= MaxBreak + 1
  BY <1>1 DEF Fits
<1> HIDE DEF r
<1>4. brk + (r + WordSize) <= MaxBreak + 1 /\ brk + WordSize + r <= Last + 1 /\ brk \in 1..Last
  BY <1>2, <1>3
<1>5. heap \in [1..Last -> Int] /\ r \in Int /\ WordSize \in Nat \ {0}
  BY <1>2, <1>3 DEF LInv, Memory
<1>6. WithSize(n) = Stored(heap, brk, r)
  BY DEF WithSize, r
<1>7. /\ WithSize(n) \in [1..Last -> Int] /\ WithSize(n)[brk] = r
      /\ \A x \in 1..Last : (x < brk \/ brk + WordSize <= x) => WithSize(n)[x] = heap[x]
  <2> DEFINE h == Stored(heap, brk, r)
  <2>1. /\ h \in [1..Last -> Int] /\ h[brk] = r
        /\ \A x \in 1..Last : (x < brk \/ brk + WordSize <= x) => h[x] = heap[x]
    <3> HIDE DEF h
    <3>1. WordSize \in Nat \ {0} /\ Last \in Nat /\ heap \in [1..Last -> Int] /\ brk \in 1..Last /\ r \in Int
      BY <1>2, <1>4, <1>5
    <3>2. Stored(heap, brk, r) \in [1..Last -> Int]
      BY <3>1, StoredIs
    <3>3. Stored(heap, brk, r)[brk] = r
      BY <3>1, StoredIs
    <3>4. \A x \in 1..Last : (x < brk \/ brk + WordSize <= x) => Stored(heap, brk, r)[x] = heap[x]
      <4> SUFFICES ASSUME NEW x \in 1..Last, x < brk \/ brk + WordSize <= x PROVE Stored(heap, brk, r)[x] = heap[x]
        OBVIOUS
      <4>1. x # brk /\ x \notin (brk + 1)..(brk + WordSize - 1) /\ x \in DOMAIN heap
        BY <3>1
      <4> QED BY <4>1 DEF Stored
    <3> QED BY <3>2, <3>3, <3>4 DEF h
  <2>2. WithSize(n) = h
    BY <1>6
  <2> HIDE DEF h
  <2> QED BY <2>1, <2>2
<1>9. NewBlock = brk + WordSize /\ NewBlock \in Nat
  BY <1>2 DEF NewBlock
<1> QED BY <1>1, <1>4, <1>7, <1>9 DEF r

LEMMA Fresh ==
  ASSUME LibraryFits, LInv
  PROVE  NewBlock \notin DOMAIN blocks /\ NewBlock \notin DOMAIN streams
<1>1. \A p \in DOMAIN blocks : p \in Nat /\ p + Rounded(Len(blocks[p])) <= brk /\ Rounded(Len(blocks[p])) \in Nat
  BY Places
<1>2. \A f \in DOMAIN streams : f \in Nat /\ f + 2 * WordSize <= brk
  BY Places
<1>3. NewBlock = brk + WordSize /\ WordSize \in Nat /\ WordSize >= 1 /\ brk \in Nat
  BY Places DEF LInv, Memory, NewBlock
<1> QED BY <1>1, <1>2, <1>3

\* A call that makes a block of v, and perhaps gives blocks back.
LEMMA NewIsKept ==
  ASSUME LibraryFits, LInv, NEW B \in SUBSET DOMAIN blocks, NEW n \in Nat, Fits(n),
         sys_malloc(Rounded(n) + WordSize), NEW v \in Seq(Int), Len(v) = n,
         heap' \in [1..Last -> Int], \A a \in 1..Last : a < brk => heap'[a] = heap[a],
         heap'[brk] = Rounded(n), \A i \in 1..n : v[i] \in {Unspecified, heap'[NewBlock + i - 1]},
         DOMAIN blocks' = B \cup {NewBlock}, blocks'[NewBlock] = v,
         \A p \in B : blocks'[p] = blocks[p],
         Answered', UNCHANGED <<disk, opened, streams>>
  PROVE  LInv'
<1> DEFINE r == Rounded(n)
<1>1. /\ r \in Nat /\ r % WordSize = 0 /\ brk' = brk + (r + WordSize) /\ brk' <= MaxBreak + 1
  BY SizeWord DEF sys_malloc
<1>2. PICK nb : nb = NewBlock
  OBVIOUS
<1>3. /\ DOMAIN blocks' = B \cup {nb} /\ DOMAIN streams' = DOMAIN streams
      /\ blocks'[nb] \in Seq(Int) /\ Rounded(Len(blocks'[nb])) = r
      /\ heap'[brk] = r
      /\ \A i \in 1..Len(blocks'[nb]) : blocks'[nb][i] \in {Unspecified, heap'[nb + i - 1]}
  BY <1>2
<1> HIDE DEF r
<1>4. /\ Memory' /\ Layout' /\ SizesKept' /\ Contents'
      /\ \A p \in DOMAIN blocks' : blocks'[p] \in Seq(Int)
      /\ \A f \in DOMAIN streams : heap'[f] = heap[f] /\ heap'[f + WordSize] = heap[f + WordSize]
  BY <1>1, <1>2, <1>3, Behind
<1>5. CSide'
  BY <1>4 DEF LInv, CSide
<1>6. StreamsKept'
  BY <1>4 DEF LInv, StreamsKept, fh, at_eof, WordAt
<1> QED BY <1>4, <1>5, <1>6 DEF LInv

LEMMA MallocKeeps ==
  ASSUME LibraryFits, LInv, NEW size \in Nat, malloc(size), UNCHANGED <<disk, opened, streams>>
  PROVE  LInv'
<1> DEFINE v == [i \in 1..size |-> Unspecified]
<1>1. /\ Fits(size) /\ sys_malloc(Rounded(size) + WordSize) /\ heap' = WithSize(size)
      /\ blocks' = Extended(blocks, NewBlock, v) /\ Answered'
  BY DEF malloc, Returns, Answered
<1>2. v \in Seq(Int) /\ Len(v) = size /\ \A i \in 1..size : v[i] = Unspecified
  BY DEF Unspecified
<1> HIDE DEF v
<1>3. /\ DOMAIN blocks' = DOMAIN blocks \cup {NewBlock} /\ blocks'[NewBlock] = v
      /\ \A p \in DOMAIN blocks : p # NewBlock => blocks'[p] = blocks[p]
  <2> DEFINE g == Extended(blocks, NewBlock, v)
  <2>1. /\ DOMAIN g = DOMAIN blocks \cup {NewBlock} /\ g[NewBlock] = v
        /\ \A p \in DOMAIN blocks : p # NewBlock => g[p] = blocks[p]
    BY DEF Extended
  <2>2. blocks' = g
    BY <1>1
  <2> HIDE DEF g
  <2> QED BY <2>1, <2>2
<1>4. NewBlock \notin DOMAIN blocks
  BY Fresh
<1>5. /\ heap' \in [1..Last -> Int] /\ heap'[brk] = Rounded(size)
      /\ \A a \in 1..Last : a < brk => heap'[a] = heap[a]
  BY <1>1, SizeWord
<1> QED BY <1>1, <1>2, <1>3, <1>4, <1>5, NewIsKept

LEMMA CallocKeeps ==
  ASSUME LibraryFits, LInv, NEW N \in Nat, NEW S \in Nat, calloc(N, S), UNCHANGED <<disk, opened, streams>>
  PROVE  LInv'
<1>0. PICK n \in Nat : n = N * S
  OBVIOUS
<1> DEFINE v == [i \in 1..n |-> 0]
<1>1. /\ Fits(n) /\ sys_malloc(Rounded(n) + WordSize)
      /\ heap' = [a \in DOMAIN heap |-> IF a \in NewBlock..(NewBlock + n - 1) THEN 0 ELSE WithSize(n)[a]]
      /\ blocks' = Extended(blocks, NewBlock, v) /\ Answered'
  BY <1>0 DEF calloc, Returns, Answered
<1>2. v \in Seq(Int) /\ Len(v) = n /\ \A i \in 1..n : v[i] = 0
  OBVIOUS
<1> HIDE DEF v
<1>3. /\ DOMAIN blocks' = DOMAIN blocks \cup {NewBlock} /\ blocks'[NewBlock] = v
      /\ \A p \in DOMAIN blocks : p # NewBlock => blocks'[p] = blocks[p]
  <2> DEFINE g == Extended(blocks, NewBlock, v)
  <2>1. /\ DOMAIN g = DOMAIN blocks \cup {NewBlock} /\ g[NewBlock] = v
        /\ \A p \in DOMAIN blocks : p # NewBlock => g[p] = blocks[p]
    BY DEF Extended
  <2>2. blocks' = g
    BY <1>1
  <2> HIDE DEF g
  <2> QED BY <2>1, <2>2
<1>4. NewBlock \notin DOMAIN blocks
  BY Fresh
<1>5. /\ WithSize(n) \in [1..Last -> Int] /\ WithSize(n)[brk] = Rounded(n)
      /\ \A a \in 1..Last : a < brk => WithSize(n)[a] = heap[a]
  BY <1>1, SizeWord
<1>6. /\ brk \in 1..Last /\ NewBlock = brk + WordSize /\ Rounded(n) \in Nat /\ n <= Rounded(n)
      /\ NewBlock + Rounded(n) <= Last + 1 /\ NewBlock \in Nat
  BY <1>1, SizeWord
<1>7. WordSize \in Nat /\ WordSize >= 1 /\ Last \in Nat /\ heap \in [1..Last -> Int]
  BY Places DEF LInv, Memory
<1>8. heap' = [a \in 1..Last |-> IF a \in NewBlock..(NewBlock + n - 1) THEN 0 ELSE WithSize(n)[a]]
  BY <1>1, <1>7
<1>9. heap' \in [1..Last -> Int]
  BY <1>5, <1>8
<1>10. \A a \in 1..Last : a <= brk => heap'[a] = WithSize(n)[a]
  BY <1>6, <1>7, <1>8
<1>11. heap'[brk] = Rounded(n) /\ \A a \in 1..Last : a < brk => heap'[a] = heap[a]
  BY <1>5, <1>6, <1>10
<1>12. \A i \in 1..n : v[i] \in {Unspecified, heap'[NewBlock + i - 1]}
  <2> SUFFICES ASSUME NEW i \in 1..n PROVE heap'[NewBlock + i - 1] = 0
    BY <1>2
  <2> DEFINE r == Rounded(n)
             b == NewBlock
  <2>0. b \in Nat /\ r \in Nat /\ n <= r /\ b + r <= Last + 1 /\ 1 <= b
    BY <1>6, <1>7
  <2> HIDE DEF r, b
  <2>1. b + i - 1 \in b..(b + n - 1) /\ b + i - 1 \in 1..Last
    BY <2>0, <1>7
  <2> QED BY <1>8, <2>1 DEF b
<1> QED BY <1>1, <1>2, <1>3, <1>4, <1>9, <1>11, <1>12, NewIsKept

\* A block that is moved is moved with the bytes it has.
LEMMA ReallocKeeps ==
  ASSUME LibraryFits, LInv, NEW ptr \in DOMAIN blocks \cup {NULL}, NEW size \in Nat, realloc(ptr, size),
         UNCHANGED <<disk, opened, streams>>
  PROVE  LInv'
<1> DEFINE old == IF ptr = NULL THEN <<>> ELSE blocks[ptr]
           v == [i \in 1..size |-> IF i \in DOMAIN old THEN old[i] ELSE Unspecified]
           Moves(a) == ptr # NULL /\ a \in NewBlock..(NewBlock + OldSize(ptr) - 1)
           B == DOMAIN blocks \ {ptr}
<1>1. /\ Fits(size) /\ sys_malloc(Rounded(size) + WordSize)
      /\ heap' = [a \in DOMAIN heap |-> IF Moves(a) THEN heap[a - NewBlock + ptr] ELSE WithSize(size)[a]]
      /\ blocks' = Extended(Without(blocks, ptr), NewBlock, v) /\ Answered'
  BY DEF realloc, Returns, Answered
<1>2. old \in Seq(Int)
  BY DEF LInv, CSide
<1>3. v \in Seq(Int) /\ Len(v) = size /\ \A i \in 1..size : v[i] = IF i \in DOMAIN old THEN old[i] ELSE Unspecified
  <2> HIDE DEF old
  <2>1. \A i \in DOMAIN old : old[i] \in Int
    BY <1>2
  <2> QED BY <2>1 DEF Unspecified
<1> HIDE DEF v, old
<1>4. /\ DOMAIN blocks' = B \cup {NewBlock} /\ blocks'[NewBlock] = v
      /\ \A p \in B : p # NewBlock => blocks'[p] = blocks[p]
  <2> DEFINE w == Without(blocks, ptr)
             g == Extended(w, NewBlock, v)
  <2>1. DOMAIN w = B /\ \A p \in B : w[p] = blocks[p]
    BY DEF Without, Restrict
  <2> HIDE DEF w
  <2>2. /\ DOMAIN g = DOMAIN w \cup {NewBlock} /\ g[NewBlock] = v
        /\ \A p \in DOMAIN w : p # NewBlock => g[p] = w[p]
    BY DEF Extended
  <2>3. blocks' = g
    BY <1>1 DEF w
  <2> HIDE DEF g, B
  <2> QED BY <2>1, <2>2, <2>3
<1>5. NewBlock \notin B
  BY Fresh
<1>6. /\ WithSize(size) \in [1..Last -> Int] /\ WithSize(size)[brk] = Rounded(size)
      /\ \A a \in 1..Last : a < brk => WithSize(size)[a] = heap[a]
  BY <1>1, SizeWord
<1>7. /\ brk \in 1..Last /\ NewBlock = brk + WordSize /\ Rounded(size) \in Nat /\ size <= Rounded(size)
      /\ NewBlock + Rounded(size) <= Last + 1 /\ NewBlock \in Nat
  BY <1>1, SizeWord
<1>8. WordSize \in Nat /\ WordSize >= 1 /\ Last \in Nat /\ heap \in [1..Last -> Int]
  BY Places DEF LInv, Memory
\* All words are moved: as many bytes as the old block has room for.
<1>9. ASSUME ptr # NULL
      PROVE  /\ OldSize(ptr) = Rounded(Len(blocks[ptr])) /\ OldSize(ptr) \in Nat /\ ptr \in Nat /\ ptr >= 1
             /\ ptr + OldSize(ptr) <= brk
             /\ Len(blocks[ptr]) \in Nat /\ Len(blocks[ptr]) <= OldSize(ptr) /\ DOMAIN blocks[ptr] = 1..Len(blocks[ptr])
  <2>1. ptr \in DOMAIN blocks
    BY <1>9
  <2>2. /\ ptr \in Nat /\ Len(blocks[ptr]) \in Nat /\ DOMAIN blocks[ptr] = 1..Len(blocks[ptr])
        /\ Rounded(Len(blocks[ptr])) \in Nat /\ Len(blocks[ptr]) <= Rounded(Len(blocks[ptr]))
        /\ WordSize < ptr /\ ptr + Rounded(Len(blocks[ptr])) <= brk
    BY <2>1, Places
  <2>3. heap[ptr - WordSize] = Rounded(Len(blocks[ptr]))
    BY <2>1 DEF LInv, SizesKept
  <2>4. WordSize * (Rounded(Len(blocks[ptr])) \div WordSize) = Rounded(Len(blocks[ptr]))
    BY <2>2, RoundedIs DEF LibraryFits
  <2>5. OldSize(ptr) = Rounded(Len(blocks[ptr]))
    BY <2>3, <2>4 DEF OldSize, WordAt
  <2> QED BY <1>8, <2>2, <2>5
<1>10. heap' = [a \in 1..Last |-> IF Moves(a) THEN heap[a - NewBlock + ptr] ELSE WithSize(size)[a]]
  BY <1>1, <1>8
<1>11. \A a \in 1..Last : Moves(a) => a - NewBlock + ptr \in 1..Last
  <2> SUFFICES ASSUME NEW a \in 1..Last, Moves(a) PROVE a - NewBlock + ptr \in 1..Last
    OBVIOUS
  <2> DEFINE b == NewBlock
             o == OldSize(ptr)
  <2>1. b \in Nat /\ o \in Nat /\ ptr \in Nat /\ ptr >= 1 /\ ptr + o <= Last /\ a \in b..(b + o - 1)
    BY <1>7, <1>8, <1>9
  <2> HIDE DEF b, o
  <2>2. a - b + ptr \in 1..Last
    BY <1>8, <2>1
  <2> QED BY <2>2 DEF b
<1>12. heap' \in [1..Last -> Int]
  <2> HIDE DEF Moves
  <2> QED BY <1>6, <1>8, <1>10, <1>11
<1>13. \A a \in 1..Last : a <= brk => ~Moves(a)
  BY <1>7, <1>8, <1>9
<1>14. heap'[brk] = Rounded(size) /\ \A a \in 1..Last : a < brk => heap'[a] = heap[a]
  <2>1. \A a \in 1..Last : a <= brk => heap'[a] = WithSize(size)[a]
    BY <1>10, <1>13
  <2> QED BY <1>6, <1>7, <2>1
<1>15. \A i \in 1..size : v[i] \in {Unspecified, heap'[NewBlock + i - 1]}
  <2> SUFFICES ASSUME NEW i \in 1..size, i \in DOMAIN old PROVE v[i] \in {Unspecified, heap'[NewBlock + i - 1]}
    BY <1>3
  <2>1. ptr # NULL /\ ptr \in DOMAIN blocks /\ old = blocks[ptr]
    BY DEF old
  <2>2. old[i] \in {Unspecified, heap[ptr + i - 1]} /\ v[i] = old[i]
    BY <1>3, <2>1 DEF LInv, Contents
  <2> DEFINE b == NewBlock
             o == OldSize(ptr)
             r == Rounded(size)
             n == Len(old)
  <2>3. /\ b \in Nat /\ o \in Nat /\ ptr \in Nat /\ n \in Nat /\ n <= o /\ i \in 1..n
        /\ r \in Nat /\ size <= r /\ b + r <= Last + 1 /\ 1 <= b
    BY <1>7, <1>8, <1>9, <2>1
  <2> HIDE DEF b, o, r, n
  <2>4. /\ b + i - 1 \in 1..Last /\ b + i - 1 \in b..(b + o - 1)
        /\ (b + i - 1) - b + ptr = ptr + i - 1
    BY <1>8, <2>3
  <2>5. heap'[b + i - 1] = heap[ptr + i - 1]
    <3>1. Moves(b + i - 1)
      BY <2>1, <2>4 DEF b, o
    <3> HIDE DEF Moves
    <3>2. heap'[b + i - 1] = heap[(b + i - 1) - b + ptr]
      BY <1>10, <2>4, <3>1 DEF b
    <3> QED BY <2>4, <3>2
  <2> QED BY <2>2, <2>5 DEF b
<1> HIDE DEF Moves
<1>16. B \in SUBSET DOMAIN blocks /\ \A p \in B : blocks'[p] = blocks[p]
  BY <1>4, <1>5
<1> HIDE DEF B
<1> QED BY <1>1, <1>3, <1>4, <1>12, <1>14, <1>15, <1>16, NewIsKept

\* What is given back is left where it is.
LEMMA FreeKeeps ==
  ASSUME LibraryFits, LInv, NEW ptr, free(ptr), UNCHANGED <<disk, opened, streams>>
  PROVE  LInv'
<1>1. /\ DOMAIN blocks' = DOMAIN blocks \ {ptr} /\ \A p \in DOMAIN blocks' : blocks'[p] = blocks[p]
      /\ heap' = heap /\ brk' = brk /\ Answered'
  BY DEF free, Returns, Answered, Without, Restrict
<1>2. Areas' \subseteq Areas
  BY <1>1 DEF Areas
<1>3. \A a \in Areas' : Room(a)' = Room(a)
  BY <1>1 DEF Areas, Room, Rounded
<1>4. Layout'
  <2>1. DOMAIN blocks' \cap DOMAIN streams' = {}
    BY <1>1 DEF LInv, Layout
  <2>2. \A a \in Areas' : a \in Nat /\ WordSize < a /\ (a - 1) % WordSize = 0 /\ a + Room(a)' <= brk'
    BY <1>1, <1>2, <1>3 DEF LInv, Layout
  <2>3. \A a, b \in Areas' : a < b => a + Room(a)' + WordSize <= b
    BY <1>2, <1>3 DEF LInv, Layout
  <2> QED BY <2>1, <2>2, <2>3 DEF Layout
<1>5. Memory'
  BY <1>1 DEF LInv, Memory, Last
<1>6. CSide'
  BY <1>1 DEF LInv, CSide
<1>7. SizesKept'
  BY <1>1 DEF LInv, SizesKept, Rounded
<1>8. Contents'
  BY <1>1 DEF LInv, Contents, Unspecified
<1>9. StreamsKept'
  BY <1>1 DEF LInv, StreamsKept, fh, at_eof, WordAt
<1> QED BY <1>1, <1>4, <1>5, <1>6, <1>7, <1>8, <1>9 DEF LInv

\* The bytes of a block are on the heap, and no other block or mark has them.
LEMMA ByteOnHeap ==
  ASSUME LibraryFits, LInv, NEW p \in DOMAIN blocks, NEW i \in 1..Len(blocks[p])
  PROVE  p + i - 1 \in 1..Last /\ p + i - 1 < brk /\ p + i - 1 >= p /\ p + i - 1 < p + Room(p)
<1> DEFINE q == Rounded(Len(blocks[p]))
           n == Len(blocks[p])
<1>1. /\ p \in Nat /\ WordSize < p /\ WordSize \in Nat /\ p + q <= brk /\ q \in Nat /\ n \in Nat /\ n <= q
      /\ brk \in Nat /\ i \in 1..n /\ brk <= Last + 1 /\ Last \in Nat /\ Room(p) = q
  <2>1. brk \in Nat /\ brk <= MaxBreak + 1 /\ MaxBreak \in Nat /\ MaxBreak <= Last /\ Last \in Nat
    BY Places DEF LInv, Memory
  <2> QED BY <2>1, Places
<1> HIDE DEF q, n
<1>2. p + i - 1 \in Nat /\ 1 <= p + i - 1 /\ p + i - 1 < brk
  BY <1>1, ByteInside
<1> QED BY <1>1, <1>2

LEMMA BytesApart ==
  ASSUME LibraryFits, LInv, NEW p \in DOMAIN blocks, NEW i \in 1..Len(blocks[p]),
         NEW q \in DOMAIN blocks, NEW j \in 1..Len(blocks[q]), p # q
  PROVE  p + i - 1 # q + j - 1
<1>1. p + i - 1 >= p /\ p + i - 1 < p + Room(p) /\ q + j - 1 >= q /\ q + j - 1 < q + Room(q)
  BY ByteOnHeap
<1>2. /\ p \in Nat /\ q \in Nat /\ Room(p) \in Nat /\ Room(q) \in Nat
      /\ p + Room(p) + WordSize <= q \/ q + Room(q) + WordSize <= p
  BY Apart DEF Areas
<1>3. WordSize \in Nat /\ Len(blocks[p]) \in Nat /\ Len(blocks[q]) \in Nat
  BY Places
<1> QED BY <1>1, <1>2, <1>3

LEMMA MarkApart ==
  ASSUME LibraryFits, LInv, NEW p \in DOMAIN blocks, NEW i \in 1..Len(blocks[p]), NEW f \in DOMAIN streams
  PROVE  p + i - 1 \notin f..(f + 2 * WordSize - 1)
<1>1. p + i - 1 >= p /\ p + i - 1 < p + Room(p)
  BY ByteOnHeap
<1>2. p # f
  BY Places
<1>3. /\ p \in Nat /\ f \in Nat /\ Room(p) \in Nat /\ Room(f) \in Nat
      /\ p + Room(p) + WordSize <= f \/ f + Room(f) + WordSize <= p
  BY <1>2, Apart DEF Areas
<1>4. WordSize \in Nat /\ WordSize >= 1 /\ Len(blocks[p]) \in Nat /\ Room(f) = 2 * WordSize
  BY Places
<1> QED BY <1>1, <1>3, <1>4

LEMMA WriteKeeps ==
  ASSUME LibraryFits, LInv, NEW ptr \in DOMAIN blocks, NEW i \in DOMAIN blocks[ptr], NEW x \in Int, Write(ptr, i, x),
         UNCHANGED <<disk, opened, streams>>
  PROVE  LInv'
<1> DEFINE Z == {ptr + i - 1}
<1>1. /\ heap' = [heap EXCEPT ![ptr + i - 1] = x] /\ blocks' = [blocks EXCEPT ![ptr][i] = x]
      /\ brk' = brk /\ Answered'
  BY DEF Write, Returns, Answered
<1>2. /\ ptr \in Nat /\ Len(blocks[ptr]) \in Nat /\ DOMAIN blocks[ptr] = 1..Len(blocks[ptr]) /\ blocks[ptr] \in Seq(Int)
      /\ heap \in [1..Last -> Int] /\ i \in 1..Len(blocks[ptr])
  BY Places DEF LInv, CSide, Memory
<1>3. heap' \in [1..Last -> Int] /\ \A a \in 1..Last : a \in Z \/ heap'[a] = heap[a]
  BY <1>1, <1>2
<1>4. \A a \in Z : a \in ptr..(ptr + Len(blocks[ptr]) - 1)
  BY <1>2
<1>5. DOMAIN blocks' = DOMAIN blocks /\ \A p \in DOMAIN blocks : p # ptr => blocks'[p] = blocks[p]
  BY <1>1
<1>6. blocks'[ptr] = [blocks[ptr] EXCEPT ![i] = x]
  BY <1>1
<1>7. /\ blocks'[ptr] \in Seq(Int) /\ Len(blocks'[ptr]) = Len(blocks[ptr]) /\ blocks'[ptr][i] = x
      /\ \A j \in 1..Len(blocks[ptr]) : j # i => blocks'[ptr][j] = blocks[ptr][j]
  BY <1>2, <1>6
<1>8. \A p \in DOMAIN blocks : /\ blocks'[p] \in Seq(Int) /\ Len(blocks'[p]) = Len(blocks[p])
                               /\ \A j \in 1..Len(blocks[p]) :
                                    IF p + j - 1 \in Z THEN blocks'[p][j] \in {Unspecified, heap'[p + j - 1]}
                                    ELSE blocks'[p][j] = blocks[p][j]
  <2> SUFFICES ASSUME NEW p \in DOMAIN blocks
               PROVE  /\ blocks'[p] \in Seq(Int) /\ Len(blocks'[p]) = Len(blocks[p])
                      /\ \A j \in 1..Len(blocks[p]) :
                           IF p + j - 1 \in Z THEN blocks'[p][j] \in {Unspecified, heap'[p + j - 1]}
                           ELSE blocks'[p][j] = blocks[p][j]
    OBVIOUS
  <2>1. CASE p = ptr
    <3>1. ptr + i - 1 \in 1..Last
      BY <1>2, ByteOnHeap
    <3>2. heap'[ptr + i - 1] = x
      BY <1>1, <1>2, <3>1
    <3>3. \A j \in 1..Len(blocks[ptr]) : ptr + j - 1 = ptr + i - 1 => j = i
      BY <1>2
    <3> QED BY <1>7, <2>1, <3>2, <3>3
  <2>2. CASE p # ptr
    <3>1. blocks'[p] = blocks[p] /\ blocks[p] \in Seq(Int)
      BY <1>5, <2>2 DEF LInv, CSide
    <3>2. \A j \in 1..Len(blocks[p]) : p + j - 1 # ptr + i - 1
      BY <1>2, <2>2, BytesApart
    <3> QED BY <3>1, <3>2
  <2> QED BY <2>1, <2>2
<1> HIDE DEF Z
<1>9. /\ Memory' /\ Layout' /\ SizesKept' /\ Contents'
      /\ \A f \in DOMAIN streams : heap'[f] = heap[f] /\ (f + WordSize \in Z \/ heap'[f + WordSize] = heap[f + WordSize])
  BY <1>1, <1>3, <1>4, <1>5, <1>8, InPlace
<1>10. ASSUME NEW f \in DOMAIN streams PROVE f + WordSize \notin Z
  <2>1. f + WordSize \in f..(f + 2 * WordSize - 1)
    <3>1. f \in Nat /\ WordSize \in Nat /\ WordSize >= 1
      BY Places
    <3> QED BY <3>1
  <2> QED BY <1>2, <2>1, MarkApart DEF Z
<1>11. CSide'
  BY <1>5, <1>8 DEF LInv, CSide
<1>12. StreamsKept'
  BY <1>9, <1>10 DEF LInv, StreamsKept, fh, at_eof, WordAt
<1> QED BY <1>1, <1>9, <1>11, <1>12 DEF LInv

------------------------------------------------------------------------------
\* The smallest number of a set is in it.
LEMMA MinIs ==
  ASSUME NEW S \in SUBSET Nat, NEW n \in S
  PROVE  Min(S) \in S /\ \A k \in S : Min(S) <= k
<1>1. PICK k \in Nat : k \in S /\ \A j \in 0..(k - 1) : j \notin S
  BY Smallest
<1>2. \A j \in S : k <= j
  BY <1>1
<1>3. \E m \in S : \A j \in S : m <= j
  BY <1>1, <1>2
<1> QED BY <1>3 DEF Min

LEMMA MinOfTwo ==
  ASSUME NEW a \in Nat, NEW b \in Nat
  PROVE  Min({a, b}) = IF a <= b THEN a ELSE b
<1>1. Min({a, b}) \in {a, b} /\ \A k \in {a, b} : Min({a, b}) <= k
  BY MinIs
<1> DEFINE m == Min({a, b})
<1> HIDE DEF m
<1>2. m \in {a, b} /\ m <= a /\ m <= b
  BY <1>1 DEF m
<1>3. m = IF a <= b THEN a ELSE b
  BY <1>2
<1> QED BY <1>3 DEF m

LEMMA MaxOfTwo ==
  ASSUME NEW a \in Nat, NEW b \in Nat
  PROVE  Max({a, b}) = IF a <= b THEN b ELSE a
<1>1. \E m \in {a, b} : \A k \in {a, b} : m >= k
  OBVIOUS
<1>2. Max({a, b}) \in {a, b} /\ \A k \in {a, b} : Max({a, b}) >= k
  BY <1>1 DEF Max
<1> DEFINE m == Max({a, b})
<1> HIDE DEF m
<1>3. m \in {a, b} /\ m >= a /\ m >= b
  BY <1>2 DEF m
<1>4. m = IF a <= b THEN b ELSE a
  BY <1>3
<1> QED BY <1>4 DEF m

LEMMA SameText ==
  ASSUME NEW a \in Seq(Int), NEW b \in Seq(Int), Len(a) = Len(b), \A i \in 1..Len(a) : a[i] = b[i]
  PROVE  a = b
OBVIOUS

\* The first characters of a text.
LEMMA PrefixIs ==
  ASSUME NEW t \in Seq(Int), NEW n \in Nat, n <= Len(t)
  PROVE  /\ SubSeq(t, 1, n) \in Seq(Int) /\ Len(SubSeq(t, 1, n)) = n
         /\ \A i \in 1..n : SubSeq(t, 1, n)[i] = t[i]
OBVIOUS

\* And those from a place on.
LEMMA SuffixIs ==
  ASSUME NEW t \in Seq(Int), NEW a \in Nat, NEW b \in 0..Len(t)
  PROVE  LET s == SubSeq(t, a + 1, b)
             n == IF a <= b THEN b - a ELSE 0
         IN  /\ s \in Seq(Int) /\ Len(s) = n
             /\ \A i \in 1..n : s[i] = t[a + i]
OBVIOUS

\* What the system reads is the beginning of what is left of the file.
LEMMA ReadIs ==
  ASSUME NEW t \in Seq(Int), NEW at \in Nat, NEW n \in Nat
  PROVE  LET rest == SubSeq(t, at + 1, Len(t))
             bytes == SubSeq(t, at + 1, Min({at + n, Len(t)}))
         IN  /\ rest \in Seq(Int) /\ Len(rest) \in Nat
             /\ bytes = SubSeq(rest, 1, Min({n, Len(rest)}))
             /\ Len(bytes) = Min({n, Len(rest)}) /\ bytes \in Seq(Int)
             /\ Len(bytes) <= n /\ Len(bytes) <= Len(rest) /\ Len(bytes) \in Nat
             /\ (Len(bytes) < n => Len(bytes) = Len(rest))
             /\ \A i \in 1..Len(bytes) : bytes[i] = rest[i]
<1> DEFINE rest == SubSeq(t, at + 1, Len(t))
           e == Min({at + n, Len(t)})
           bytes == SubSeq(t, at + 1, e)
           r == IF at <= Len(t) THEN Len(t) - at ELSE 0
           m == IF n <= r THEN n ELSE r
<1>1. e = IF at + n <= Len(t) THEN at + n ELSE Len(t)
  BY MinOfTwo
<1>2. e \in 0..Len(t) /\ (IF at <= e THEN e - at ELSE 0) = m
  <2> HIDE DEF e
  <2> QED BY <1>1
<1>3. rest \in Seq(Int) /\ Len(rest) = r /\ \A i \in 1..r : rest[i] = t[at + i]
  BY SuffixIs
<1>4. bytes \in Seq(Int) /\ Len(bytes) = m /\ \A i \in 1..m : bytes[i] = t[at + i]
  <2> HIDE DEF e, m
  <2> QED BY <1>2, SuffixIs
<1>5. r \in Nat /\ m \in Nat /\ m <= n /\ m <= r /\ (m < n => m = r)
  OBVIOUS
<1> HIDE DEF rest, bytes, r, e
<1>6. Min({n, r}) = m
  BY <1>5, MinOfTwo
<1> HIDE DEF m
<1>7. \A i \in 1..m : bytes[i] = rest[i]
  <2> SUFFICES ASSUME NEW i \in 1..m PROVE bytes[i] = rest[i]
    OBVIOUS
  <2>1. i \in 1..r
    BY <1>5
  <2> QED BY <1>3, <1>4, <2>1
<1>8. bytes = SubSeq(rest, 1, m)
  <2>1. /\ SubSeq(rest, 1, m) \in Seq(Int) /\ Len(SubSeq(rest, 1, m)) = m
        /\ \A i \in 1..m : SubSeq(rest, 1, m)[i] = rest[i]
    BY <1>3, <1>5, PrefixIs
  <2> DEFINE p == SubSeq(rest, 1, m)
  <2> HIDE DEF p
  <2>2. p \in Seq(Int) /\ Len(p) = m /\ \A i \in 1..m : p[i] = rest[i]
    BY <2>1 DEF p
  <2>3. \A i \in 1..m : bytes[i] = p[i]
    BY <1>7, <2>2
  <2>4. bytes = p
    BY <1>4, <2>2, <2>3, SameText
  <2> QED BY <2>4 DEF p
<1> QED BY <1>3, <1>4, <1>5, <1>6, <1>7, <1>8 DEF rest, bytes, e

\* A line ends within the text.
LEMMA LineIs ==
  ASSUME NEW t \in Seq(Int), NEW n \in Nat
  PROVE  LET ends == {k \in DOMAIN t : t[k] = NL}
             stops == {n, Len(t)} \cup ends
         IN  /\ LineOf(t, n) = SubSeq(t, 1, Min(stops))
             /\ Min(stops) \in stops /\ \A k \in stops : Min(stops) <= k
             /\ Min(stops) \in Nat /\ Min(stops) <= Len(t) /\ Min(stops) <= n
             /\ LineOf(t, n) \in Seq(Int) /\ Len(LineOf(t, n)) = Min(stops)
<1> DEFINE ends == {k \in DOMAIN t : t[k] = NL}
           stops == {n, Len(t)} \cup ends
           m == Min(stops)
<1>1. stops \in SUBSET Nat /\ n \in stops /\ Len(t) \in stops
  OBVIOUS
<1>2. LineOf(t, n) = SubSeq(t, 1, m)
  BY DEF LineOf
<1> HIDE DEF stops
<1>3. m \in stops /\ \A k \in stops : m <= k
  BY <1>1, MinIs
<1> HIDE DEF m
<1>4. m \in Nat /\ m <= Len(t) /\ m <= n
  BY <1>1, <1>3
<1>5. LineOf(t, n) \in Seq(Int) /\ Len(LineOf(t, n)) = m
  BY <1>2, <1>4, PrefixIs
<1> QED BY <1>2, <1>3, <1>4, <1>5 DEF m, stops

\* A line for which there is room is found in as much of the text as was read.
LEMMA SameLine ==
  ASSUME NEW t \in Seq(Int), NEW n \in Nat, Len(LineOf(t, n + 1)) <= n
  PROVE  LET read == SubSeq(t, 1, Min({n, Len(t)})) IN LineOf(read, n) = LineOf(t, n + 1)
<1> DEFINE m == IF n <= Len(t) THEN n ELSE Len(t)
           read == SubSeq(t, 1, m)
           c == Len(LineOf(t, n + 1))
           l == Len(LineOf(read, n))
<1>1. Min({n, Len(t)}) = m /\ m \in Nat /\ m <= Len(t) /\ m <= n
  BY MinOfTwo
<1>2. read \in Seq(Int) /\ Len(read) = m /\ \A i \in 1..m : read[i] = t[i]
  <2> HIDE DEF m
  <2> QED BY <1>1, PrefixIs
<1> DEFINE tstops == {n + 1, Len(t)} \cup {k \in DOMAIN t : t[k] = NL}
           rstops == {n, Len(read)} \cup {k \in DOMAIN read : read[k] = NL}
<1>3. /\ LineOf(t, n + 1) = SubSeq(t, 1, c) /\ c \in tstops /\ \A k \in tstops : c <= k
      /\ c \in Nat /\ c <= Len(t)
  <2> DEFINE s == Min(tstops)
  <2>1. n + 1 \in Nat
    OBVIOUS
  <2>2. /\ LineOf(t, n + 1) = SubSeq(t, 1, s) /\ s \in tstops /\ \A k \in tstops : s <= k
        /\ s \in Nat /\ s <= Len(t) /\ Len(LineOf(t, n + 1)) = s
    BY <2>1, LineIs
  <2> HIDE DEF s, tstops
  <2>3. s = c
    BY <2>2
  <2> QED BY <2>2, <2>3
<1>4. /\ LineOf(read, n) = SubSeq(read, 1, l) /\ l \in rstops /\ \A k \in rstops : l <= k
      /\ l \in Nat /\ l <= Len(read)
  <2> HIDE DEF read
  <2> DEFINE s == Min(rstops)
  <2>1. /\ LineOf(read, n) = SubSeq(read, 1, s) /\ s \in rstops /\ \A k \in rstops : s <= k
        /\ s \in Nat /\ s <= Len(read) /\ Len(LineOf(read, n)) = s
    BY <1>2, LineIs
  <2> HIDE DEF s, rstops
  <2>2. s = l
    BY <2>1
  <2> QED BY <2>1, <2>2
<1> HIDE DEF read, c, l
<1>5. c <= n
  BY DEF c
<1>6. c <= m
  BY <1>3, <1>5
<1>7. DOMAIN read = 1..m /\ DOMAIN t = 1..Len(t) /\ Len(t) \in Nat
  BY <1>2
<1>8. c <= l
  <2>1. CASE l \in {n, Len(read)}
    BY <1>1, <1>2, <1>5, <1>6, <2>1
  <2>2. CASE l \in 1..m /\ read[l] = NL
    <3>0. t[l] = NL /\ l \in DOMAIN t
      BY <1>1, <1>2, <1>7, <2>2
    <3>1. l \in tstops
      BY <3>0
    <3> QED BY <1>3, <3>1
  <2> QED BY <1>4, <1>7, <2>1, <2>2
<1>9. l <= c
  <2>1. CASE c \in {n + 1, Len(t)}
    <3>1. c = Len(t) /\ m = c
      BY <1>1, <1>3, <1>5, <1>6, <2>1
    <3> QED BY <1>2, <1>4, <3>1
  <2>2. CASE c \in 1..Len(t) /\ t[c] = NL
    <3>1. c \in 1..m /\ read[c] = NL
      BY <1>1, <1>2, <1>6, <2>2
    <3>2. c \in rstops
      BY <1>7, <3>1
    <3> QED BY <1>4, <3>2
  <2> QED BY <1>3, <1>7, <2>1, <2>2
<1>10. l = c
  BY <1>3, <1>4, <1>8, <1>9
<1>11. SubSeq(read, 1, c) = SubSeq(t, 1, c)
  <2> DEFINE a == SubSeq(read, 1, c)
             b == SubSeq(t, 1, c)
  <2>1. a \in Seq(Int) /\ Len(a) = c /\ \A i \in 1..c : a[i] = read[i]
    BY <1>2, <1>3, <1>6, PrefixIs
  <2>2. b \in Seq(Int) /\ Len(b) = c /\ \A i \in 1..c : b[i] = t[i]
    BY <1>3, PrefixIs
  <2>3. \A i \in 1..c : read[i] = t[i]
    BY <1>1, <1>2, <1>3, <1>6
  <2> HIDE DEF a, b
  <2>4. \A i \in 1..c : a[i] = b[i]
    BY <2>1, <2>2, <2>3
  <2>5. a = b
    BY <2>1, <2>2, <2>4, SameText
  <2> QED BY <2>5 DEF a, b
<1>12. LineOf(read, n) = LineOf(t, n + 1)
  BY <1>3, <1>4, <1>10, <1>11
<1>13. SubSeq(t, 1, Min({n, Len(t)})) = read
  BY <1>1 DEF read
<1> HIDE DEF m
<1> QED BY <1>12, <1>13

------------------------------------------------------------------------------
\* Streams have their words to themselves.
LEMMA MarksApart ==
  ASSUME LibraryFits, LInv, NEW f \in DOMAIN streams, NEW g \in DOMAIN streams, f # g
  PROVE  g + WordSize \notin (f + WordSize)..(f + 2 * WordSize - 1)
<1>1. /\ f \in Nat /\ g \in Nat
      /\ f + Room(f) + WordSize <= g \/ g + Room(g) + WordSize <= f
  BY Apart DEF Areas
<1>2. WordSize \in Nat /\ WordSize >= 1 /\ Room(f) = 2 * WordSize /\ Room(g) = 2 * WordSize
  BY Places
<1> QED BY <1>1, <1>2

LEMMA MarkWordApart ==
  ASSUME LibraryFits, LInv, NEW p \in DOMAIN blocks, NEW i \in 1..Len(blocks[p]), NEW f \in DOMAIN streams
  PROVE  p + i - 1 \notin (f + WordSize)..(f + 2 * WordSize - 1)
<1>1. p + i - 1 \notin f..(f + 2 * WordSize - 1)
  BY MarkApart
<1>2. f \in Nat /\ WordSize \in Nat
  BY Places
<1> QED BY <1>1, <1>2

\* A call on a stream that leaves the others alone: Z has the bytes it changes, and h
\* is the handle of the stream.
LEMMA StreamKeeps ==
  ASSUME LibraryFits, LInv, NEW f \in DOMAIN streams, NEW Z,
         heap' \in [1..Last -> Int], brk' = brk,
         \A a \in 1..Last : a \in Z \/ heap'[a] = heap[a],
         \A a \in Z : \/ \E p \in DOMAIN blocks : a \in p..(p + Len(blocks[p]) - 1)
                      \/ a \in (f + WordSize)..(f + 2 * WordSize - 1),
         DOMAIN blocks' = DOMAIN blocks,
         \A p \in DOMAIN blocks : /\ blocks'[p] \in Seq(Int) /\ Len(blocks'[p]) = Len(blocks[p])
                                  /\ \A i \in 1..Len(blocks[p]) :
                                       IF p + i - 1 \in Z THEN blocks'[p][i] \in {Unspecified, heap'[p + i - 1]}
                                       ELSE blocks'[p][i] = blocks[p][i],
         DOMAIN disk' = DOMAIN disk, \A path \in DOMAIN disk : disk'[path] \in Seq(Int),
         DOMAIN opened' = DOMAIN opened, \A h \in DOMAIN opened : h # fh(f) => opened'[h] = opened[h],
         opened'[fh(f)] \in OpenedOn(DOMAIN disk),
         DOMAIN streams' = DOMAIN streams, \A g \in DOMAIN streams : g # f => streams'[g] = streams[g],
         streams'[f] \in StreamsOn(DOMAIN disk),
         opened'[fh(f)].path = streams'[f].path, opened'[fh(f)].offset = streams'[f].pos,
         (heap'[f + WordSize] # 0) = (streams'[f].eof \in {"yes", "stale"}),
         Answered'
  PROVE  LInv'
<1>1. \A a \in Z : \/ \E p \in DOMAIN blocks : a \in p..(p + Len(blocks[p]) - 1)
                   \/ \E g \in DOMAIN streams : a \in (g + WordSize)..(g + 2 * WordSize - 1)
  OBVIOUS
<1>2. /\ Memory' /\ Layout' /\ SizesKept' /\ Contents'
      /\ \A g \in DOMAIN streams : heap'[g] = heap[g] /\ (g + WordSize \in Z \/ heap'[g + WordSize] = heap[g + WordSize])
  BY <1>1, InPlace
<1>3. ASSUME NEW g \in DOMAIN streams, g # f
      PROVE  heap'[g + WordSize] = heap[g + WordSize]
  <2>1. ASSUME NEW p \in DOMAIN blocks PROVE g + WordSize \notin p..(p + Len(blocks[p]) - 1)
    <3>1. SUFFICES ASSUME g + WordSize \in p..(p + Len(blocks[p]) - 1) PROVE FALSE
      OBVIOUS
    <3>2. p \in Nat /\ Len(blocks[p]) \in Nat /\ g \in Nat /\ WordSize \in Nat /\ WordSize >= 1
      BY Places
    <3> DEFINE i == g + WordSize - p + 1
    <3>3. i \in 1..Len(blocks[p]) /\ p + i - 1 = g + WordSize /\ g + WordSize \in g..(g + 2 * WordSize - 1)
      BY <3>1, <3>2
    <3> HIDE DEF i
    <3> QED BY <3>3, MarkApart
  <2>2. g + WordSize \notin (f + WordSize)..(f + 2 * WordSize - 1)
    BY <1>3, MarksApart
  <2>3. g + WordSize \notin Z
    BY <2>1, <2>2
  <2> QED BY <1>2, <2>3
<1>4. CSide'
  <2>1. \A p \in DOMAIN blocks' : blocks'[p] \in Seq(Int)
    OBVIOUS
  <2>2. \A h \in DOMAIN opened' : opened'[h] \in OpenedOn(DOMAIN disk')
    BY DEF LInv, CSide
  <2>3. \A g \in DOMAIN streams' : streams'[g] \in StreamsOn(DOMAIN disk')
    BY DEF LInv, CSide
  <2> QED BY <2>1, <2>2, <2>3 DEF CSide, OpenedOn, StreamsOn
<1>5. StreamsKept'
  <2>1. \A g \in DOMAIN streams' : heap'[g] = fh(g)
    BY <1>2 DEF fh, WordAt
  <2>2. ASSUME NEW g \in DOMAIN streams'
        PROVE  /\ heap'[g] \in DOMAIN opened'
               /\ opened'[heap'[g]].path = streams'[g].path /\ opened'[heap'[g]].offset = streams'[g].pos
               /\ (heap'[g + WordSize] # 0) = (streams'[g].eof \in {"yes", "stale"})
    <3>1. CASE g = f
      BY <2>1, <3>1 DEF LInv, StreamsKept
    <3>2. CASE g # f
      <4>1. heap'[g] = fh(g) /\ fh(g) \in DOMAIN opened /\ fh(g) # fh(f) /\ streams'[g] = streams[g]
        BY <2>1, <3>2 DEF LInv, StreamsKept
      <4>2. opened'[fh(g)] = opened[fh(g)]
        BY <4>1
      <4>3. opened[fh(g)].path = streams[g].path /\ opened[fh(g)].offset = streams[g].pos
            /\ (heap[g + WordSize] # 0) = (streams[g].eof \in {"yes", "stale"})
        BY DEF LInv, StreamsKept, at_eof, WordAt
      <4>4. heap'[g + WordSize] = heap[g + WordSize]
        BY <1>3, <3>2
      <4> QED BY <4>1, <4>2, <4>3, <4>4
    <3> QED BY <3>1, <3>2
  <2>3. \A g, k \in DOMAIN streams' : heap'[g] = heap'[k] => g = k
    BY <2>1 DEF LInv, StreamsKept
  <2> QED BY <2>2, <2>3 DEF StreamsKept, fh, at_eof, WordAt
<1> QED BY <1>2, <1>4, <1>5 DEF LInv

\* The handle and what C has of a stream, before a call.
LEMMA StreamFacts ==
  ASSUME LInv, NEW f \in DOMAIN streams
  PROVE  /\ fh(f) \in DOMAIN opened /\ opened[fh(f)] \in OpenedOn(DOMAIN disk)
         /\ streams[f] \in StreamsOn(DOMAIN disk)
         /\ opened[fh(f)].path = streams[f].path /\ opened[fh(f)].offset = streams[f].pos
         /\ at_eof(f) = (streams[f].eof \in {"yes", "stale"}) /\ (heap[f + WordSize] # 0) = (streams[f].eof \in {"yes", "stale"})
         /\ streams[f].path \in DOMAIN disk /\ disk[streams[f].path] \in Seq(Int) /\ streams[f].pos \in Nat
<1>1. /\ fh(f) \in DOMAIN opened /\ opened[fh(f)].path = streams[f].path /\ opened[fh(f)].offset = streams[f].pos
      /\ at_eof(f) = (streams[f].eof \in {"yes", "stale"})
  BY DEF LInv, StreamsKept
<1>2. streams[f] \in StreamsOn(DOMAIN disk) /\ opened[fh(f)] \in OpenedOn(DOMAIN disk)
  BY <1>1 DEF LInv, CSide
<1>3. streams[f].path \in DOMAIN disk /\ streams[f].pos \in Nat
  BY <1>2 DEF StreamsOn
<1>4. disk[streams[f].path] \in Seq(Int)
  BY <1>3 DEF LInv, CSide
<1> QED BY <1>1, <1>2, <1>3, <1>4 DEF at_eof, WordAt

\* What is read is what C has.
LEMMA ReadsRest ==
  ASSUME LInv, NEW f \in DOMAIN streams, NEW n \in Nat
  PROVE  LET bytes == ReadBytes(fh(f), n)
         IN  /\ Rest(f) \in Seq(Int) /\ Len(Rest(f)) \in Nat
             /\ bytes = SubSeq(Rest(f), 1, Min({n, Len(Rest(f))}))
             /\ Len(bytes) = Min({n, Len(Rest(f))}) /\ bytes \in Seq(Int)
             /\ Len(bytes) <= n /\ Len(bytes) <= Len(Rest(f)) /\ Len(bytes) \in Nat
             /\ (Len(bytes) < n => Len(bytes) = Len(Rest(f)))
             /\ \A i \in 1..Len(bytes) : bytes[i] = Rest(f)[i]
<1> DEFINE t == disk[streams[f].path]
           at == streams[f].pos
<1>1. t \in Seq(Int) /\ at \in Nat
  BY StreamFacts
<1>2. Rest(f) = SubSeq(t, at + 1, Len(t))
  BY DEF Rest
<1>3. ReadBytes(fh(f), n) = SubSeq(t, at + 1, Min({at + n, Len(t)}))
  BY StreamFacts DEF ReadBytes
<1> HIDE DEF t, at
<1> DEFINE rest == SubSeq(t, at + 1, Len(t))
           b == SubSeq(t, at + 1, Min({at + n, Len(t)}))
<1>4. /\ rest \in Seq(Int) /\ Len(rest) \in Nat
      /\ b = SubSeq(rest, 1, Min({n, Len(rest)}))
      /\ Len(b) = Min({n, Len(rest)}) /\ b \in Seq(Int)
      /\ Len(b) <= n /\ Len(b) <= Len(rest) /\ Len(b) \in Nat
      /\ (Len(b) < n => Len(b) = Len(rest))
      /\ \A i \in 1..Len(b) : b[i] = rest[i]
  BY <1>1, ReadIs
<1>5. Rest(f) = rest /\ ReadBytes(fh(f), n) = b
  BY <1>2, <1>3
<1> HIDE DEF rest, b
<1> QED BY <1>4, <1>5

\* The handle and the stream move together.
LEMMA MovesTogether ==
  ASSUME LInv, NEW f \in DOMAIN streams, NEW n \in Nat, NEW e \in {"no", "yes", "missed", "stale"},
         opened' = Past(fh(f), n), DOMAIN streams' = DOMAIN streams,
         streams'[f] = [streams[f] EXCEPT !.pos = @ + n, !.eof = e]
  PROVE  /\ DOMAIN opened' = DOMAIN opened /\ \A h \in DOMAIN opened : h # fh(f) => opened'[h] = opened[h]
         /\ opened'[fh(f)] \in OpenedOn(DOMAIN disk)
         /\ streams'[f] \in StreamsOn(DOMAIN disk)
         /\ opened'[fh(f)].path = streams'[f].path /\ opened'[fh(f)].offset = streams'[f].pos
         /\ streams'[f].eof = e
<1> DEFINE h == fh(f)
           o == opened[h]
           s == streams[f]
<1>1. /\ h \in DOMAIN opened /\ o \in OpenedOn(DOMAIN disk) /\ s \in StreamsOn(DOMAIN disk)
      /\ o.path = s.path /\ o.offset = s.pos
  BY StreamFacts
<1>2. /\ DOMAIN opened' = DOMAIN opened /\ \A k \in DOMAIN opened : k # h => opened'[k] = opened[k]
      /\ opened'[h] = [o EXCEPT !.offset = @ + n]
  BY <1>1 DEF Past
<1>3. streams'[f] = [s EXCEPT !.pos = @ + n, !.eof = e]
  OBVIOUS
<1> HIDE DEF o, s, h
<1>4. opened'[h] \in OpenedOn(DOMAIN disk) /\ opened'[h].path = o.path /\ opened'[h].offset = o.offset + n
  BY <1>1, <1>2 DEF OpenedOn
<1>5. /\ streams'[f] \in StreamsOn(DOMAIN disk) /\ streams'[f].path = s.path /\ streams'[f].pos = s.pos + n
      /\ streams'[f].eof = e
  <2>1. PICK p \in Nat : p = s.pos + n
    BY <1>1 DEF StreamsOn
  <2>2. streams'[f] = [s EXCEPT !.pos = p, !.eof = e]
    BY <1>3, <2>1
  <2> QED BY <1>1, <2>1, <2>2 DEF StreamsOn
<1> QED BY <1>1, <1>2, <1>4, <1>5 DEF h, s

\* The mark of the end.
LEMMA MarkedIs ==
  ASSUME LibraryFits, LInv, NEW f \in DOMAIN streams
  PROVE  /\ AtEnd(f) \in [1..Last -> Int] /\ AtEnd(f)[f + WordSize] = 1
         /\ \A a \in 1..Last : a \in (f + WordSize)..(f + 2 * WordSize - 1) \/ AtEnd(f)[a] = heap[a]
<1> DEFINE m == f + WordSize
<1>1. /\ m \in 1..Last /\ heap \in [1..Last -> Int] /\ WordSize \in Nat \ {0} /\ Last \in Nat
      /\ m + WordSize - 1 = f + 2 * WordSize - 1 /\ f \in Nat
  BY StreamOnHeap, Places DEF LInv, Memory
<1>0. PICK one \in Int : one = 1
  OBVIOUS
<1>2. AtEnd(f) = Stored(heap, m, one)
  BY <1>0 DEF AtEnd
<1> HIDE DEF m
<1>3. Stored(heap, m, one) \in [1..Last -> Int] /\ Stored(heap, m, one)[m] = one
  <2>1. Stored(heap, m, one) \in [1..Last -> Int]
    BY <1>1, StoredIs
  <2>2. Stored(heap, m, one)[m] = one
    BY <1>1, StoredIs
  <2> QED BY <2>1, <2>2
<1>4. ASSUME NEW a \in 1..Last, a \notin m..(m + WordSize - 1) PROVE Stored(heap, m, one)[a] = heap[a]
  <2>1. a # m /\ a \notin (m + 1)..(m + WordSize - 1) /\ a \in DOMAIN heap
    BY <1>1, <1>4
  <2> QED BY <2>1 DEF Stored
<1>5. \A a \in 1..Last : a \in m..(f + 2 * WordSize - 1) \/ AtEnd(f)[a] = heap[a]
  BY <1>1, <1>2, <1>4
<1> QED BY <1>0, <1>2, <1>3, <1>5 DEF m

------------------------------------------------------------------------------
LEMMA FgetcKeeps ==
  ASSUME LibraryFits, LInv, NEW f \in DOMAIN streams, fgetc(f),
         streams[f].eof # "stale", streams[f].eof = "missed" => Rest(f) = <<>>
  PROVE  LInv'
<1> DEFINE read == ReadBytes(fh(f), 1)
           bytes == IF at_eof(f) THEN <<>> ELSE read
           c_end == streams[f].eof \in {"yes", "missed"} \/ Rest(f) = <<>>
           Z == IF bytes = <<>> THEN (f + WordSize)..(f + 2 * WordSize - 1) ELSE {}
<1>1. /\ heap' = IF bytes = <<>> THEN AtEnd(f) ELSE heap
      /\ opened' = Past(fh(f), Len(bytes)) /\ streams' = Moved(f, IF c_end THEN 0 ELSE 1, c_end)
      /\ (GotC(f, bytes) = (IF c_end THEN EOF ELSE Rest(f)[1]) => Answered')
      /\ brk' = brk /\ disk' = disk /\ blocks' = blocks
  BY DEF fgetc, Returns, Answered
<1>2. at_eof(f) = (streams[f].eof \in {"yes", "stale"}) /\ (heap[f + WordSize] # 0) = (streams[f].eof \in {"yes", "stale"})
  BY StreamFacts
<1>3. /\ Rest(f) \in Seq(Int) /\ read \in Seq(Int) /\ Len(read) \in Nat /\ Len(Rest(f)) \in Nat
      /\ Len(read) <= 1 /\ Len(read) <= Len(Rest(f)) /\ (Len(read) < 1 => Len(read) = Len(Rest(f)))
      /\ \A i \in 1..Len(read) : read[i] = Rest(f)[i]
  BY ReadsRest
\* At the end C has it too, and else there is one character, the next of C's.
<1>4. /\ (bytes = <<>>) = c_end /\ Len(bytes) = IF c_end THEN 0 ELSE 1
      /\ (~c_end => bytes[1] = Rest(f)[1] /\ ~at_eof(f))
  <2> HIDE DEF read
  <2>0. at_eof(f) = (streams[f].eof = "yes")
    BY <1>2
  <2>1. CASE at_eof(f)
    BY <2>0, <2>1
  <2>2. CASE ~at_eof(f) /\ Rest(f) = <<>>
    <3>1. read = <<>>
      BY <1>3, <2>2
    <3> QED BY <1>2, <2>2, <3>1
  <2>3. CASE ~at_eof(f) /\ Rest(f) # <<>>
    <3>1. Len(Rest(f)) # 0
      BY <1>3, <2>3
    <3> DEFINE l == Len(read)
               m == Len(Rest(f))
    <3>4. l \in Nat /\ m \in Nat /\ m # 0 /\ l <= 1 /\ (l < 1 => l = m)
      BY <1>3, <3>1
    <3> HIDE DEF l, m
    <3>5. l = 1
      BY <3>4
    <3>2. Len(read) = 1 /\ read # <<>>
      BY <3>5 DEF l
    <3>3. read[1] = Rest(f)[1]
      BY <1>3, <3>2
    <3> QED BY <1>2, <2>3, <3>2, <3>3
  <2> QED BY <2>1, <2>2, <2>3
<1> HIDE DEF bytes, c_end
<1>5. Answered'
  <2>1. CASE c_end
    BY <1>1, <1>4, <2>1 DEF GotC
  <2>2. CASE ~c_end
    <3>1. GotC(f, bytes) = bytes[1]
      BY <1>4, <2>2 DEF GotC
    <3> QED BY <1>1, <1>4, <2>2, <3>1
  <2> QED BY <2>1, <2>2
<1>6. /\ heap \in [1..Last -> Int] /\ AtEnd(f) \in [1..Last -> Int] /\ AtEnd(f)[f + WordSize] = 1
      /\ \A a \in 1..Last : a \in (f + WordSize)..(f + 2 * WordSize - 1) \/ AtEnd(f)[a] = heap[a]
  BY MarkedIs DEF LInv, Memory
<1>7. heap' \in [1..Last -> Int] /\ \A a \in 1..Last : a \in Z \/ heap'[a] = heap[a]
  BY <1>1, <1>6
<1>8. \A a \in Z : a \in (f + WordSize)..(f + 2 * WordSize - 1)
  OBVIOUS
<1>9. \A p \in DOMAIN blocks : /\ blocks'[p] \in Seq(Int) /\ Len(blocks'[p]) = Len(blocks[p])
                               /\ \A i \in 1..Len(blocks[p]) : p + i - 1 \notin Z /\ blocks'[p][i] = blocks[p][i]
  <2> SUFFICES ASSUME NEW p \in DOMAIN blocks
               PROVE  /\ blocks'[p] \in Seq(Int) /\ Len(blocks'[p]) = Len(blocks[p])
                      /\ \A i \in 1..Len(blocks[p]) : p + i - 1 \notin Z /\ blocks'[p][i] = blocks[p][i]
    OBVIOUS
  <2>1. blocks'[p] = blocks[p] /\ blocks[p] \in Seq(Int)
    BY <1>1 DEF LInv, CSide
  <2>2. \A i \in 1..Len(blocks[p]) : p + i - 1 \notin Z
    BY <1>8, MarkWordApart
  <2> QED BY <2>1, <2>2
<1> HIDE DEF Z
<1>10. PICK n \in Nat : n = IF c_end THEN 0 ELSE 1
  OBVIOUS
<1>11. PICK e \in {"no", "yes", "missed", "stale"} : e = IF c_end THEN "yes" ELSE streams[f].eof
  BY StreamFacts DEF StreamsOn
<1>16. /\ DOMAIN streams' = DOMAIN streams /\ \A g \in DOMAIN streams : g # f => streams'[g] = streams[g]
       /\ streams'[f] = [streams[f] EXCEPT !.pos = @ + n, !.eof = e] /\ opened' = Past(fh(f), n)
  BY <1>1, <1>4, <1>10, <1>11 DEF Moved
<1>12. /\ DOMAIN opened' = DOMAIN opened /\ \A h \in DOMAIN opened : h # fh(f) => opened'[h] = opened[h]
       /\ opened'[fh(f)] \in OpenedOn(DOMAIN disk)
       /\ streams'[f] \in StreamsOn(DOMAIN disk)
       /\ opened'[fh(f)].path = streams'[f].path /\ opened'[fh(f)].offset = streams'[f].pos
       /\ streams'[f].eof = IF c_end THEN "yes" ELSE streams[f].eof
  BY <1>11, <1>16, MovesTogether
<1>13. (heap'[f + WordSize] # 0) = (streams'[f].eof \in {"yes", "stale"})
  <2>1. CASE c_end
    <3>1. heap'[f + WordSize] = 1
      BY <1>1, <1>4, <1>6, <2>1
    <3>2. streams'[f].eof = "yes"
      BY <1>12, <2>1
    <3> QED BY <3>1, <3>2
  <2>2. CASE ~c_end
    <3>1. heap' = heap
      BY <1>1, <1>4, <2>2
    <3>2. streams'[f].eof = streams[f].eof
      BY <1>12, <2>2
    <3>3. heap'[f + WordSize] = heap[f + WordSize]
      BY <3>1
    <3>4. (heap'[f + WordSize] # 0) = (streams[f].eof \in {"yes", "stale"})
      BY <1>2, <3>3
    <3> QED BY <3>2, <3>4
  <2> QED BY <2>1, <2>2
<1>14. DOMAIN disk' = DOMAIN disk /\ \A path \in DOMAIN disk : disk'[path] \in Seq(Int)
  BY <1>1 DEF LInv, CSide
<1>15. DOMAIN blocks' = DOMAIN blocks
  BY <1>1
<1> QED BY <1>1, <1>5, <1>7, <1>8, <1>9, <1>12, <1>13, <1>14, <1>15, <1>16, StreamKeeps

\* Bytes that are read into a block are there, and the end is marked if it was met.
LEMMA IntoIs ==
  ASSUME NEW N \in Nat, NEW h \in [1..N -> Int], NEW a \in Nat, NEW bytes \in Seq(Int)
  PROVE  /\ Into(h, a, bytes) \in [1..N -> Int]
         /\ \A x \in 1..N : IF x \in a..(a + Len(bytes) - 1)
                            THEN x - a + 1 \in 1..Len(bytes) /\ Into(h, a, bytes)[x] = bytes[x - a + 1]
                            ELSE Into(h, a, bytes)[x] = h[x]
<1>1. DOMAIN h = 1..N
  OBVIOUS
<1>2. \A x \in a..(a + Len(bytes) - 1) : x - a + 1 \in 1..Len(bytes) /\ bytes[x - a + 1] \in Int
  OBVIOUS
<1> QED BY <1>1, <1>2 DEF Into

LEMMA ReadIntoKeeps ==
  ASSUME LibraryFits, LInv, NEW f \in DOMAIN streams, NEW ptr \in DOMAIN blocks,
         NEW bytes \in Seq(Int), Len(bytes) <= Len(blocks[ptr]), NEW mark \in BOOLEAN,
         heap' = Into(IF mark THEN AtEnd(f) ELSE heap, ptr, bytes),
         blocks' = [blocks EXCEPT ![ptr] = Into(blocks[ptr], 1, bytes)],
         brk' = brk, disk' = disk, Answered',
         DOMAIN opened' = DOMAIN opened, \A h \in DOMAIN opened : h # fh(f) => opened'[h] = opened[h],
         opened'[fh(f)] \in OpenedOn(DOMAIN disk),
         DOMAIN streams' = DOMAIN streams, \A g \in DOMAIN streams : g # f => streams'[g] = streams[g],
         streams'[f] \in StreamsOn(DOMAIN disk),
         opened'[fh(f)].path = streams'[f].path, opened'[fh(f)].offset = streams'[f].pos,
         streams[f].eof = "no", mark = (streams'[f].eof \in {"yes", "stale"})
  PROVE  LInv'
<1> DEFINE h == IF mark THEN AtEnd(f) ELSE heap
           In == ptr..(ptr + Len(bytes) - 1)
           M == IF mark THEN (f + WordSize)..(f + 2 * WordSize - 1) ELSE {}
           Z == In \cup M
<1>1. /\ heap \in [1..Last -> Int] /\ AtEnd(f) \in [1..Last -> Int] /\ AtEnd(f)[f + WordSize] = 1 /\ Last \in Nat
      /\ \A a \in 1..Last : a \in (f + WordSize)..(f + 2 * WordSize - 1) \/ AtEnd(f)[a] = heap[a]
  BY MarkedIs, Places DEF LInv, Memory
<1>2. h \in [1..Last -> Int] /\ \A a \in 1..Last : a \in M \/ h[a] = heap[a]
  BY <1>1
<1>3. /\ ptr \in Nat /\ Len(blocks[ptr]) \in Nat /\ DOMAIN blocks[ptr] = 1..Len(blocks[ptr]) /\ blocks[ptr] \in Seq(Int)
      /\ Len(bytes) \in Nat
  BY Places DEF LInv, CSide
<1>4. heap' = Into(h, ptr, bytes)
  OBVIOUS
<1>5. M \subseteq (f + WordSize)..(f + 2 * WordSize - 1)
  OBVIOUS
<1> HIDE DEF h, M
<1>6. heap' \in [1..Last -> Int]
  <2>1. Into(h, ptr, bytes) \in [1..Last -> Int]
    BY <1>1, <1>2, <1>3, IntoIs
  <2> QED BY <1>4, <2>1
<1>7. \A x \in 1..Last : IF x \in In THEN x - ptr + 1 \in 1..Len(bytes) /\ heap'[x] = bytes[x - ptr + 1] ELSE heap'[x] = h[x]
  <2> TAKE x \in 1..Last
  <2>1. DOMAIN h = 1..Last
    BY <1>2
  <2>2. x \in In => x - ptr + 1 \in 1..Len(bytes)
    BY <1>3
  <2> HIDE DEF In
  <2>3. heap'[x] = IF x \in In THEN bytes[x - ptr + 1] ELSE h[x]
    BY <1>4, <2>1 DEF Into, In
  <2> QED BY <2>2, <2>3
<1>8. \A a \in 1..Last : a \in Z \/ heap'[a] = heap[a]
  BY <1>2, <1>7
<1>9. \A a \in Z : \/ \E p \in DOMAIN blocks : a \in p..(p + Len(blocks[p]) - 1)
                   \/ a \in (f + WordSize)..(f + 2 * WordSize - 1)
  <2> SUFFICES ASSUME NEW a \in In PROVE a \in ptr..(ptr + Len(blocks[ptr]) - 1)
    BY <1>5
  <2> QED BY <1>3
<1>10. /\ DOMAIN blocks' = DOMAIN blocks /\ \A p \in DOMAIN blocks : p # ptr => blocks'[p] = blocks[p]
       /\ blocks'[ptr] = Into(blocks[ptr], 1, bytes)
  OBVIOUS
<1>11. /\ blocks'[ptr] \in Seq(Int) /\ Len(blocks'[ptr]) = Len(blocks[ptr])
       /\ \A i \in 1..Len(blocks[ptr]) : blocks'[ptr][i] = IF i <= Len(bytes) THEN bytes[i] ELSE blocks[ptr][i]
  <2> DEFINE b == blocks[ptr]
             n == Len(b)
  <2>1. b \in [1..n -> Int] /\ n \in Nat
    BY <1>3
  <2>2. blocks'[ptr] = [x \in 1..n |-> IF x \in 1..(1 + Len(bytes) - 1) THEN bytes[x - 1 + 1] ELSE b[x]]
    BY <1>3, <1>10 DEF Into
  <2> HIDE DEF b, n
  <2>3. \A x \in 1..n : /\ (x \in 1..(1 + Len(bytes) - 1)) = (x <= Len(bytes)) /\ x - 1 + 1 = x
                        /\ (x <= Len(bytes) => bytes[x] \in Int)
    BY <1>3, <2>1
  <2>4. \A x \in 1..n : blocks'[ptr][x] = IF x <= Len(bytes) THEN bytes[x] ELSE b[x]
    BY <2>2, <2>3
  <2>5. blocks'[ptr] \in [1..n -> Int]
    BY <2>1, <2>2, <2>3
  <2>6. blocks'[ptr] \in Seq(Int) /\ Len(blocks'[ptr]) = n
    BY <2>1, <2>5
  <2> QED BY <2>4, <2>6 DEF n, b
<1>12. \A p \in DOMAIN blocks : /\ blocks'[p] \in Seq(Int) /\ Len(blocks'[p]) = Len(blocks[p])
                                /\ \A i \in 1..Len(blocks[p]) :
                                     IF p + i - 1 \in Z THEN blocks'[p][i] \in {Unspecified, heap'[p + i - 1]}
                                     ELSE blocks'[p][i] = blocks[p][i]
  <2> SUFFICES ASSUME NEW p \in DOMAIN blocks
               PROVE  /\ blocks'[p] \in Seq(Int) /\ Len(blocks'[p]) = Len(blocks[p])
                      /\ \A i \in 1..Len(blocks[p]) :
                           IF p + i - 1 \in Z THEN blocks'[p][i] \in {Unspecified, heap'[p + i - 1]}
                           ELSE blocks'[p][i] = blocks[p][i]
    OBVIOUS
  <2>1. \A i \in 1..Len(blocks[p]) : p + i - 1 \notin M
    BY <1>5, MarkWordApart
  <2>2. CASE p = ptr
    <3> SUFFICES ASSUME NEW i \in 1..Len(blocks[ptr])
                 PROVE  IF ptr + i - 1 \in Z THEN blocks'[ptr][i] \in {Unspecified, heap'[ptr + i - 1]}
                        ELSE blocks'[ptr][i] = blocks[ptr][i]
      BY <1>11, <2>2
    <3>1. ptr + i - 1 \notin M
      BY <2>1, <2>2
    <3>2. (ptr + i - 1 \in In) = (i <= Len(bytes)) /\ (ptr + i - 1) - ptr + 1 = i
      BY <1>3
    <3>3. ptr + i - 1 \in 1..Last
      BY ByteOnHeap
    <3>4. i <= Len(bytes) => heap'[ptr + i - 1] = bytes[i]
      <4> HIDE DEF In
      <4>1. ASSUME i <= Len(bytes) PROVE heap'[ptr + i - 1] = bytes[(ptr + i - 1) - ptr + 1]
        BY <1>7, <3>2, <3>3, <4>1
      <4> QED BY <3>2, <4>1
    <3>5. CASE i <= Len(bytes)
      BY <1>11, <3>2, <3>4, <3>5
    <3>6. CASE ~(i <= Len(bytes))
      BY <1>11, <3>1, <3>2, <3>6
    <3> QED BY <3>5, <3>6
  <2>3. CASE p # ptr
    <3>1. blocks'[p] = blocks[p] /\ blocks[p] \in Seq(Int)
      BY <1>10, <2>3 DEF LInv, CSide
    <3>2. ASSUME NEW i \in 1..Len(blocks[p]), p + i - 1 \in In PROVE FALSE
      <4> DEFINE j == (p + i - 1) - ptr + 1
      <4>1. p \in Nat /\ Len(blocks[p]) \in Nat
        BY Places
      <4>2. j \in 1..Len(blocks[ptr]) /\ ptr + j - 1 = p + i - 1
        <5>1. PICK x \in Int : x = p + i - 1
          BY <4>1
        <5>2. x \in ptr..(ptr + Len(bytes) - 1) /\ j = x - ptr + 1
          BY <3>2, <5>1
        <5> HIDE DEF j
        <5>3. j \in 1..Len(bytes) /\ ptr + j - 1 = x
          BY <1>3, <5>2
        <5> QED BY <1>3, <5>1, <5>3
      <4> HIDE DEF j
      <4> QED BY <2>3, <4>2, BytesApart
    <3> QED BY <2>1, <3>1, <3>2
  <2> QED BY <2>2, <2>3
<1>13. heap'[f + WordSize] = h[f + WordSize]
  <2>1. f + WordSize \in 1..Last /\ f \in Nat /\ WordSize \in Nat /\ WordSize >= 1
    BY StreamOnHeap, Places
  <2>2. f + WordSize \notin In
    <3> SUFFICES ASSUME f + WordSize \in In PROVE FALSE
      OBVIOUS
    <3> DEFINE j == f + WordSize - ptr + 1
    <3>1. j \in 1..Len(blocks[ptr]) /\ ptr + j - 1 = f + WordSize /\ f + WordSize \in f..(f + 2 * WordSize - 1)
      BY <1>3, <2>1
    <3> HIDE DEF j
    <3> QED BY <3>1, MarkApart
  <2> QED BY <1>7, <2>1, <2>2
<1>14. (heap'[f + WordSize] # 0) = (streams'[f].eof \in {"yes", "stale"})
  <2>1. CASE mark
    <3>1. heap'[f + WordSize] = 1
      BY <1>1, <1>13, <2>1 DEF h
    <3>2. streams'[f].eof \in {"yes", "stale"}
      BY <2>1
    <3> QED BY <3>1, <3>2
  <2>2. CASE ~mark
    <3>1. heap'[f + WordSize] = heap[f + WordSize]
      BY <1>13, <2>2 DEF h
    <3>2. heap[f + WordSize] = 0
      <4>1. (heap[f + WordSize] # 0) = (streams[f].eof \in {"yes", "stale"})
        BY StreamFacts
      <4>2. streams[f].eof \notin {"yes", "stale"}
        OBVIOUS
      <4> QED BY <4>1, <4>2
    <3>3. streams'[f].eof \notin {"yes", "stale"}
      BY <2>2
    <3> QED BY <3>1, <3>2, <3>3
  <2> QED BY <2>1, <2>2
<1> HIDE DEF Z
<1>15. DOMAIN disk' = DOMAIN disk /\ \A path \in DOMAIN disk : disk'[path] \in Seq(Int)
  BY DEF LInv, CSide
<1> QED BY <1>6, <1>8, <1>9, <1>10, <1>12, <1>14, <1>15, StreamKeeps

LEMMA FreadKeeps ==
  ASSUME LibraryFits, LInv, NEW f \in DOMAIN streams, NEW ptr \in DOMAIN blocks, NEW size \in Nat, NEW nmemb \in Nat,
         size * nmemb <= Len(blocks[ptr]), streams[f].eof = "no", fread(ptr, size, nmemb, f)
  PROVE  LInv'
<1>0. PICK n \in Nat : n = size * nmemb
  OBVIOUS
<1> DEFINE bytes == ReadBytes(fh(f), n)
           c_bytes == SubSeq(Rest(f), 1, Min({n, Len(Rest(f))}))
<1>1. bytes = c_bytes /\ bytes \in Seq(Int) /\ Len(bytes) \in Nat /\ Len(bytes) <= n
  BY ReadsRest
<1>2. PICK e \in {"no", "yes", "missed", "stale"} : e = IF Len(c_bytes) < n THEN "missed" ELSE "no"
  OBVIOUS
<1>3. /\ heap' = Into(heap, ptr, bytes)
      /\ opened' = Past(fh(f), Len(bytes))
      /\ blocks' = [blocks EXCEPT ![ptr] = Into(blocks[ptr], 1, c_bytes)]
      /\ streams' = [Moved(f, Len(c_bytes), FALSE) EXCEPT ![f].eof = IF Len(c_bytes) < n THEN "missed" ELSE @]
      /\ brk' = brk /\ disk' = disk
      /\ (Len(bytes) \div size = Len(c_bytes) \div size => Answered')
  BY <1>0 DEF fread, Returns, Answered
<1> HIDE DEF bytes, c_bytes
<1>4. Answered'
  BY <1>1, <1>3
<1> DEFINE l == Len(bytes)
<1>5. /\ DOMAIN streams' = DOMAIN streams /\ \A g \in DOMAIN streams : g # f => streams'[g] = streams[g]
      /\ streams'[f] = [streams[f] EXCEPT !.pos = @ + l, !.eof = e]
  <2> DEFINE m == Moved(f, l, FALSE)
  <2>1. /\ DOMAIN m = DOMAIN streams /\ \A g \in DOMAIN streams : g # f => m[g] = streams[g]
        /\ m[f] = [streams[f] EXCEPT !.pos = @ + l, !.eof = @]
    BY DEF Moved
  <2> HIDE DEF m
  <2>2. streams' = [m EXCEPT ![f].eof = IF l < n THEN "missed" ELSE @]
    BY <1>1, <1>3 DEF m
  <2>3. /\ DOMAIN streams' = DOMAIN streams /\ \A g \in DOMAIN streams : g # f => streams'[g] = streams[g]
        /\ streams'[f] = [m[f] EXCEPT !.eof = IF l < n THEN "missed" ELSE @]
    BY <2>1, <2>2
  <2>4. /\ streams[f] \in StreamsOn(DOMAIN disk) /\ streams[f].eof = "no"
    BY StreamFacts
  <2>5. m[f] \in StreamsOn(DOMAIN disk) /\ m[f].eof = "no" /\ m[f] = [streams[f] EXCEPT !.pos = @ + l]
    <3>1. streams[f].pos + l \in Nat
      BY <1>1, <2>4 DEF StreamsOn
    <3> HIDE DEF l
    <3> QED BY <2>1, <2>4, <3>1 DEF StreamsOn
  <2>6. e = IF l < n THEN "missed" ELSE "no"
    BY <1>1, <1>2
  <2> HIDE DEF l
  <2>7. streams'[f] = [m[f] EXCEPT !.eof = e]
    BY <2>3, <2>5, <2>6
  <2>8. streams'[f] = [streams[f] EXCEPT !.pos = @ + l, !.eof = e]
    BY <2>4, <2>5, <2>7 DEF StreamsOn
  <2> QED BY <2>3, <2>8
<1>6. opened' = Past(fh(f), l) /\ l \in Nat
  BY <1>1, <1>3
<1> HIDE DEF l
<1>7. /\ DOMAIN opened' = DOMAIN opened /\ \A h \in DOMAIN opened : h # fh(f) => opened'[h] = opened[h]
      /\ opened'[fh(f)] \in OpenedOn(DOMAIN disk)
      /\ streams'[f] \in StreamsOn(DOMAIN disk)
      /\ opened'[fh(f)].path = streams'[f].path /\ opened'[fh(f)].offset = streams'[f].pos
      /\ streams'[f].eof = e
  BY <1>5, <1>6, MovesTogether
<1>8. Len(bytes) <= Len(blocks[ptr])
  <2>1. Len(blocks[ptr]) \in Nat
    BY Places
  <2> QED BY <1>0, <1>1, <2>1
<1>9. PICK mark \in BOOLEAN : mark = FALSE
  OBVIOUS
<1>10. mark = (streams'[f].eof \in {"yes", "stale"})
  BY <1>2, <1>7, <1>9
<1>11. /\ heap' = Into(IF mark THEN AtEnd(f) ELSE heap, ptr, bytes)
       /\ blocks' = [blocks EXCEPT ![ptr] = Into(blocks[ptr], 1, bytes)]
  BY <1>1, <1>3, <1>9
<1>12. brk' = brk /\ disk' = disk
  BY <1>3
<1>13. DOMAIN streams' = DOMAIN streams /\ \A g \in DOMAIN streams : g # f => streams'[g] = streams[g]
  BY <1>5
<1> QED BY <1>1, <1>4, <1>7, <1>8, <1>10, <1>11, <1>12, <1>13, ReadIntoKeeps

LEMMA FgetsKeeps ==
  ASSUME LibraryFits, LInv, NEW f \in DOMAIN streams, NEW str \in DOMAIN blocks, NEW len \in Nat,
         len <= Len(blocks[str]), streams[f].eof = "no", fgets(str, len, f)
  PROVE  LInv'
<1> DEFINE line == LineOf(ReadBytes(fh(f), len - 1), len - 1)
           end == Len(line) < len - 1 /\ ~Complete(line)
           c_line == LineOf(Rest(f), len)
<1>1. /\ heap' = Into(IF end THEN AtEnd(f) ELSE heap, str, IF end \/ Complete(line) THEN Append(line, 0) ELSE line)
      /\ opened' = Past(fh(f), Len(line))
      /\ Len(c_line) \in 1..(IF Complete(c_line) THEN len - 1 ELSE len - 2)
      /\ blocks' = [blocks EXCEPT ![str] = Into(blocks[str], 1, Append(c_line, 0))]
      /\ streams' = Moved(f, Len(c_line), ~Complete(c_line))
      /\ Answered' /\ brk' = brk /\ disk' = disk
  BY DEF fgets, Returns, Answered
<1>2. Rest(f) \in Seq(Int)
  <2>1. 0 \in Nat
    OBVIOUS
  <2> QED BY <2>1, ReadsRest
<1>3. c_line \in Seq(Int) /\ Len(c_line) \in Nat
  <2>1. PICK t \in Seq(Int) : t = Rest(f)
    BY <1>2
  <2>2. LineOf(t, len) \in Seq(Int)
    BY LineIs
  <2> QED BY <2>1, <2>2
<1> HIDE DEF line, c_line
<1>4. /\ Len(c_line) >= 1 /\ Len(c_line) <= len - 1 /\ (~Complete(c_line) => Len(c_line) <= len - 2)
      /\ len - 1 \in Nat
  BY <1>1, <1>3
<1>5. line = c_line
  <2>1. PICK n \in Nat : n = len - 1 /\ len = n + 1
    BY <1>4
  <2>2. ReadBytes(fh(f), n) = SubSeq(Rest(f), 1, Min({n, Len(Rest(f))}))
    BY ReadsRest
  <2>3. Len(LineOf(Rest(f), n + 1)) <= n
    BY <1>4, <2>1 DEF c_line
  <2>4. LineOf(SubSeq(Rest(f), 1, Min({n, Len(Rest(f))})), n) = LineOf(Rest(f), n + 1)
    BY <1>2, <2>3, SameLine
  <2> QED BY <2>1, <2>2, <2>4 DEF line, c_line
<1> DEFINE mark == ~Complete(c_line)
           l == Len(c_line)
           bytes == Append(c_line, 0)
<1>6. end = mark
  BY <1>3, <1>4, <1>5
<1> HIDE DEF end
<1>7. mark \in BOOLEAN /\ bytes \in Seq(Int) /\ Len(bytes) = l + 1
  BY <1>3
<1>8. heap' = Into(IF mark THEN AtEnd(f) ELSE heap, str, bytes)
  BY <1>1, <1>5, <1>6
<1>9. PICK e \in {"no", "yes", "missed", "stale"} : e = IF mark THEN "yes" ELSE "no"
  OBVIOUS
<1>10. Len(bytes) <= Len(blocks[str]) /\ l \in Nat
  <2>1. Len(blocks[str]) \in Nat
    BY Places
  <2> HIDE DEF mark
  <2> QED BY <1>3, <1>4, <1>7, <2>1
<1>11. opened' = Past(fh(f), l)
  BY <1>1, <1>5
<1>12. /\ DOMAIN streams' = DOMAIN streams /\ \A g \in DOMAIN streams : g # f => streams'[g] = streams[g]
       /\ streams'[f] = [streams[f] EXCEPT !.pos = @ + l, !.eof = e]
  <2>1. streams' = Moved(f, l, mark)
    BY <1>1
  <2> HIDE DEF mark, l
  <2> QED BY <1>9, <2>1 DEF Moved
<1> HIDE DEF mark, l, bytes
<1>13. /\ DOMAIN opened' = DOMAIN opened /\ \A h \in DOMAIN opened : h # fh(f) => opened'[h] = opened[h]
       /\ opened'[fh(f)] \in OpenedOn(DOMAIN disk)
       /\ streams'[f] \in StreamsOn(DOMAIN disk)
       /\ opened'[fh(f)].path = streams'[f].path /\ opened'[fh(f)].offset = streams'[f].pos
       /\ streams'[f].eof = e
  BY <1>10, <1>11, <1>12, MovesTogether
<1>14. mark = (streams'[f].eof \in {"yes", "stale"})
  BY <1>7, <1>9, <1>13
<1>15. blocks' = [blocks EXCEPT ![str] = Into(blocks[str], 1, bytes)] /\ Answered' /\ brk' = brk /\ disk' = disk
  BY <1>1 DEF bytes
<1> QED BY <1>7, <1>8, <1>10, <1>12, <1>13, <1>14, <1>15, ReadIntoKeeps

LEMMA WrittenIs ==
  ASSUME NEW t \in Seq(Int), NEW at \in Nat, NEW bytes \in Seq(Int)
  PROVE  Written(t, at, bytes) \in Seq(Int)
<1> DEFINE l == Len(bytes)
           n == Len(t)
           m == Max({n, at + l})
<1>1. l \in Nat /\ n \in Nat /\ at + l \in Nat
  OBVIOUS
<1>2. m = IF n <= at + l THEN at + l ELSE n
  <2> HIDE DEF l, n
  <2> QED BY <1>1, MaxOfTwo
<1>3. m \in Nat
  BY <1>1, <1>2
<1> DEFINE w(k) == CASE k \in (at + 1)..(at + l) -> bytes[k - at] [] k <= at /\ k > n -> 0 [] OTHER -> t[k]
<1>4. \A k \in 1..m : w(k) \in Int
  <2> SUFFICES ASSUME NEW k \in 1..m PROVE w(k) \in Int
    OBVIOUS
  <2> HIDE DEF m
  <2>1. CASE k \in (at + 1)..(at + l)
    <3>1. k - at \in 1..l
      BY <2>1
    <3>2. bytes[k - at] \in Int
      BY <3>1
    <3>3. ~(k <= at)
      BY <2>1
    <3> QED BY <2>1, <3>2, <3>3
  <2>2. CASE k \notin (at + 1)..(at + l) /\ k <= at /\ k > n
    BY <2>2
  <2>3. CASE k \notin (at + 1)..(at + l) /\ ~(k <= at /\ k > n)
    <3>1. k \in 1..n
      BY <1>1, <1>2, <1>3, <2>3
    <3>2. t[k] \in Int
      BY <3>1
    <3> QED BY <2>3, <3>2
  <2> QED BY <2>1, <2>2, <2>3
<1>5. Written(t, at, bytes) = [k \in 1..m |-> w(k)]
  BY DEF Written
<1> HIDE DEF m, w
<1> QED BY <1>3, <1>4, <1>5

\* A call that leaves the heap alone.
LEMMA HeapLeft ==
  ASSUME LibraryFits, LInv, heap' = heap, brk' = brk, blocks' = blocks, NEW f \in DOMAIN streams,
         DOMAIN disk' = DOMAIN disk, \A path \in DOMAIN disk : disk'[path] \in Seq(Int),
         DOMAIN opened' = DOMAIN opened, \A h \in DOMAIN opened : h # fh(f) => opened'[h] = opened[h],
         opened'[fh(f)] \in OpenedOn(DOMAIN disk),
         DOMAIN streams' = DOMAIN streams, \A g \in DOMAIN streams : g # f => streams'[g] = streams[g],
         streams'[f] \in StreamsOn(DOMAIN disk),
         opened'[fh(f)].path = streams'[f].path, opened'[fh(f)].offset = streams'[f].pos,
         (streams'[f].eof \in {"yes", "stale"}) = (streams[f].eof \in {"yes", "stale"}),
         Answered'
  PROVE  LInv'
<1>1. PICK Z : Z = {}
  OBVIOUS
<1>2. heap' \in [1..Last -> Int] /\ \A a \in 1..Last : a \in Z \/ heap'[a] = heap[a]
  BY DEF LInv, Memory
<1>3. \A a \in Z : \/ \E p \in DOMAIN blocks : a \in p..(p + Len(blocks[p]) - 1)
                   \/ a \in (f + WordSize)..(f + 2 * WordSize - 1)
  BY <1>1
<1>4. \A p \in DOMAIN blocks : /\ blocks'[p] \in Seq(Int) /\ Len(blocks'[p]) = Len(blocks[p])
                               /\ \A i \in 1..Len(blocks[p]) : p + i - 1 \notin Z /\ blocks'[p][i] = blocks[p][i]
  BY <1>1 DEF LInv, CSide
<1>5. (heap'[f + WordSize] # 0) = (streams'[f].eof \in {"yes", "stale"})
  <2>1. (heap[f + WordSize] # 0) = (streams[f].eof \in {"yes", "stale"})
    BY StreamFacts
  <2>2. heap'[f + WordSize] = heap[f + WordSize]
    OBVIOUS
  <2> QED BY <2>1, <2>2
<1>6. DOMAIN blocks' = DOMAIN blocks
  OBVIOUS
<1> QED BY <1>2, <1>3, <1>4, <1>5, <1>6, StreamKeeps

\* The bytes of a file and the place in it after them.
LEMMA PutsKeeps ==
  ASSUME LibraryFits, LInv, NEW f \in DOMAIN streams, NEW bytes \in Seq(Int), Puts(bytes, bytes, f), Answered'
  PROVE  LInv'
<1> DEFINE path == streams[f].path
           pos == streams[f].pos
           l == Len(bytes)
           w == Written(disk[path], pos, bytes)
<1>1. /\ opened[fh(f)].path = path /\ opened[fh(f)].offset = pos /\ path \in DOMAIN disk
      /\ disk[path] \in Seq(Int) /\ pos \in Nat /\ streams[f] \in StreamsOn(DOMAIN disk) /\ l \in Nat
  BY StreamFacts
<1>2. /\ disk' = [disk EXCEPT ![path] = w]
      /\ opened' = Past(fh(f), l) /\ streams' = [streams EXCEPT ![f].pos = @ + l]
      /\ heap' = heap /\ brk' = brk /\ blocks' = blocks
  BY <1>1 DEF Puts, c_memory
<1>3. w \in Seq(Int)
  BY <1>1, WrittenIs
<1> HIDE DEF w, l
<1>4. DOMAIN disk' = DOMAIN disk /\ \A q \in DOMAIN disk : disk'[q] \in Seq(Int)
  BY <1>1, <1>2, <1>3 DEF LInv, CSide
<1>5. PICK e \in {"no", "yes", "missed", "stale"} : e = streams[f].eof
  BY <1>1 DEF StreamsOn
<1>7. /\ DOMAIN streams' = DOMAIN streams /\ \A g \in DOMAIN streams : g # f => streams'[g] = streams[g]
      /\ streams'[f] = [streams[f] EXCEPT !.pos = @ + l, !.eof = e]
  <2>1. /\ DOMAIN streams' = DOMAIN streams /\ \A g \in DOMAIN streams : g # f => streams'[g] = streams[g]
        /\ streams'[f] = [streams[f] EXCEPT !.pos = @ + l]
    BY <1>2
  <2>2. [streams[f] EXCEPT !.pos = @ + l] = [streams[f] EXCEPT !.pos = @ + l, !.eof = e]
    BY <1>1, <1>5 DEF StreamsOn
  <2> QED BY <2>1, <2>2
<1>8. /\ DOMAIN opened' = DOMAIN opened /\ \A h \in DOMAIN opened : h # fh(f) => opened'[h] = opened[h]
      /\ opened'[fh(f)] \in OpenedOn(DOMAIN disk)
      /\ streams'[f] \in StreamsOn(DOMAIN disk)
      /\ opened'[fh(f)].path = streams'[f].path /\ opened'[fh(f)].offset = streams'[f].pos
      /\ streams'[f].eof = e
  BY <1>1, <1>2, <1>7, MovesTogether
<1>9. heap' = heap /\ brk' = brk /\ blocks' = blocks
  BY <1>2
<1>10. (streams'[f].eof \in {"yes", "stale"}) = (streams[f].eof \in {"yes", "stale"})
  BY <1>5, <1>8
<1>11. DOMAIN streams' = DOMAIN streams /\ \A g \in DOMAIN streams : g # f => streams'[g] = streams[g]
  BY <1>7
<1> QED BY <1>4, <1>8, <1>9, <1>10, <1>11, HeapLeft

\* What is in the file after them is what C has there.
LEMMA WritesRight ==
  ASSUME LibraryFits, LInv, NEW f \in DOMAIN streams, NEW bytes \in Seq(Int), Puts(bytes, bytes, f),
         NEW r, NEW c, NEW n, NEW name \in {"as C", "bytes", "one"}, r \in {c, n},
         Writes(bytes, f, r, c, n, name)
  PROVE  Answered'
<1> DEFINE path == streams[f].path
           w == Written(disk[path], streams[f].pos, bytes)
<1>1. /\ opened[fh(f)].path = path /\ opened[fh(f)].offset = streams[f].pos /\ path \in DOMAIN disk
  BY StreamFacts
<1>2. disk' = [disk EXCEPT ![path] = w]
  BY <1>1 DEF Puts
<1> HIDE DEF w
<1>3. disk'[path] = w
  BY <1>1, <1>2
<1>4. answer' \in {"as C", name}
  <2>1. answer' = CASE disk'[path] = w /\ r = c -> "as C" [] disk'[path] = w /\ r # c /\ r = n -> name [] OTHER -> "another"
    BY DEF Writes, w
  <2> QED BY <1>3, <2>1
<1> QED BY <1>4 DEF Answered

LEMMA FputcKeeps ==
  ASSUME LibraryFits, LInv, NEW f \in DOMAIN streams, NEW c \in Int, fputc(c, f)
  PROVE  LInv'
<1>1. <<c>> \in Seq(Int) /\ write(<<c>>) = 1
  BY DEF write
<1>2. Puts(<<c>>, <<c>>, f) /\ Writes(<<c>>, f, write(<<c>>), c, 1, "one")
  BY DEF fputc
<1>3. Answered'
  BY <1>1, <1>2, WritesRight
<1> QED BY <1>1, <1>2, <1>3, PutsKeeps

LEMMA FputsKeeps ==
  ASSUME LibraryFits, LInv, NEW f \in DOMAIN streams, NEW s \in Seq(Int), fputs(s, f)
  PROVE  LInv'
<1>1. (IF write(s) < 0 THEN EOF ELSE 0) = 0
  BY DEF write
<1>2. Puts(s, s, f) /\ Writes(s, f, 0, 0, 0, "as C")
  BY <1>1 DEF fputs
<1>3. Answered'
  BY <1>2, WritesRight
<1> QED BY <1>2, <1>3, PutsKeeps

\* The bytes of the elements are where the block is.
LEMMA FwriteKeeps ==
  ASSUME LibraryFits, LInv, NEW f \in DOMAIN streams, NEW ptr \in DOMAIN blocks, NEW size \in Nat, NEW nmemb \in Nat,
         size * nmemb <= Len(blocks[ptr]), fwrite(ptr, size, nmemb, f)
  PROVE  LInv'
<1>0. PICK n \in Nat : n = size * nmemb
  OBVIOUS
<1> DEFINE bytes == [i \in 1..n |-> heap[ptr + i - 1]]
           c_bytes == [i \in 1..n |-> blocks[ptr][i]]
<1>1. /\ \A i \in DOMAIN c_bytes : c_bytes[i] # Unspecified
      /\ Puts(bytes, c_bytes, f)
      /\ Writes(c_bytes, f, write(bytes), nmemb, n, "bytes")
  BY <1>0 DEF fwrite
<1>2. /\ n <= Len(blocks[ptr]) /\ Len(blocks[ptr]) \in Nat /\ DOMAIN blocks[ptr] = 1..Len(blocks[ptr])
      /\ blocks[ptr] \in Seq(Int)
  BY <1>0, Places DEF LInv, CSide
<1>3. ASSUME NEW i \in 1..n PROVE heap[ptr + i - 1] = blocks[ptr][i] /\ blocks[ptr][i] \in Int
  <2>1. i \in DOMAIN blocks[ptr]
    BY <1>2
  <2>2. blocks[ptr][i] \in {Unspecified, heap[ptr + i - 1]}
    BY <2>1 DEF LInv, Contents
  <2>3. blocks[ptr][i] # Unspecified
    BY <1>1
  <2> QED BY <1>2, <2>1, <2>2, <2>3
<1>4. bytes = c_bytes
  BY <1>3
<1>5. c_bytes \in Seq(Int) /\ Len(c_bytes) = n
  BY <1>3
<1> HIDE DEF bytes, c_bytes
<1>6. write(bytes) = n
  BY <1>4, <1>5 DEF write
<1>7. Puts(c_bytes, c_bytes, f) /\ Writes(c_bytes, f, n, nmemb, n, "bytes")
  BY <1>1, <1>4, <1>6
<1>8. Answered'
  BY <1>5, <1>7, WritesRight
<1> QED BY <1>5, <1>7, <1>8, PutsKeeps

LEMMA FseekKeeps ==
  ASSUME LibraryFits, LInv, NEW f \in DOMAIN streams, NEW offset \in Nat, fseek(f, offset)
  PROVE  LInv'
<1> DEFINE h == fh(f)
<1>0. PICK e \in {"no", "yes", "missed", "stale"} : e = IF streams[f].eof \in {"yes", "stale"} THEN "stale" ELSE "no"
  OBVIOUS
<1>1. /\ h \in DOMAIN opened /\ opened[h] \in OpenedOn(DOMAIN disk) /\ streams[f] \in StreamsOn(DOMAIN disk)
      /\ opened[h].path = streams[f].path
  BY StreamFacts
<1>2. /\ opened' = [opened EXCEPT ![h].offset = offset]
      /\ streams' = [streams EXCEPT ![f].pos = offset, ![f].eof = IF @ \in {"yes", "stale"} THEN "stale" ELSE "no"]
      /\ (opened'[h].offset = offset => Answered')
      /\ heap' = heap /\ brk' = brk /\ blocks' = blocks /\ disk' = disk
  BY DEF fseek, Returns, Answered, c_memory
<1> HIDE DEF h
<1>3. /\ DOMAIN opened' = DOMAIN opened /\ \A k \in DOMAIN opened : k # h => opened'[k] = opened[k]
      /\ opened'[h] = [opened[h] EXCEPT !.offset = offset]
  BY <1>1, <1>2
<1>4. /\ DOMAIN streams' = DOMAIN streams /\ \A g \in DOMAIN streams : g # f => streams'[g] = streams[g]
      /\ streams'[f] = [streams[f] EXCEPT !.pos = offset, !.eof = e]
  <2>1. /\ DOMAIN streams' = DOMAIN streams /\ \A g \in DOMAIN streams : g # f => streams'[g] = streams[g]
        /\ streams'[f] = [streams[f] EXCEPT !.pos = offset, !.eof = IF @ \in {"yes", "stale"} THEN "stale" ELSE "no"]
    BY <1>2
  <2>2. streams'[f] = [streams[f] EXCEPT !.pos = offset, !.eof = e]
    BY <1>0, <2>1
  <2> QED BY <2>1, <2>2
<1>5. /\ opened'[h] \in OpenedOn(DOMAIN disk) /\ opened'[h].path = opened[h].path /\ opened'[h].offset = offset
  BY <1>1, <1>3 DEF OpenedOn
<1>6. /\ streams'[f] \in StreamsOn(DOMAIN disk) /\ streams'[f].path = streams[f].path /\ streams'[f].pos = offset
      /\ streams'[f].eof = e
  BY <1>1, <1>4 DEF StreamsOn
<1>7. Answered'
  BY <1>2, <1>5
<1>8. (streams'[f].eof \in {"yes", "stale"}) = (streams[f].eof \in {"yes", "stale"})
  BY <1>0, <1>6
<1>9. DOMAIN disk' = DOMAIN disk /\ \A path \in DOMAIN disk : disk'[path] \in Seq(Int)
  BY <1>2 DEF LInv, CSide
<1>10. opened'[h].path = streams'[f].path /\ opened'[h].offset = streams'[f].pos
  BY <1>1, <1>5, <1>6
<1>11. heap' = heap /\ brk' = brk /\ blocks' = blocks
  BY <1>2
<1>12. DOMAIN streams' = DOMAIN streams /\ \A g \in DOMAIN streams : g # f => streams'[g] = streams[g]
  BY <1>4
<1> QED BY <1>3, <1>5, <1>6, <1>7, <1>8, <1>9, <1>10, <1>11, <1>12, HeapLeft DEF h

\* The handle is free for another file, the block stays where it is.
LEMMA FcloseKeeps ==
  ASSUME LibraryFits, LInv, NEW f \in DOMAIN streams, fclose(f)
  PROVE  LInv'
<1>1. /\ opened' = Without(opened, fh(f)) /\ streams' = Without(streams, f)
      /\ Answered' /\ heap' = heap /\ brk' = brk /\ blocks' = blocks /\ disk' = disk
  BY DEF fclose, Returns, Answered, c_memory
<1>2. DOMAIN streams' = DOMAIN streams \ {f} /\ \A g \in DOMAIN streams' : streams'[g] = streams[g]
  BY <1>1 DEF Without, Restrict
<1>3. DOMAIN opened' = DOMAIN opened \ {fh(f)} /\ \A h \in DOMAIN opened' : opened'[h] = opened[h]
  BY <1>1 DEF Without, Restrict
<1>4. Areas' \subseteq Areas
  BY <1>1, <1>2 DEF Areas
<1>5. \A a \in Areas' : Room(a)' = Room(a)
  <2> SUFFICES ASSUME NEW a \in Areas' PROVE Room(a)' = Room(a)
    OBVIOUS
  <2>1. (a \in DOMAIN streams') = (a \in DOMAIN streams)
    <3>1. f \notin DOMAIN blocks
      BY DEF LInv, Layout
    <3> QED BY <1>1, <1>2, <3>1 DEF Areas
  <2> QED BY <1>1, <2>1 DEF Room, Rounded
<1>6. Layout'
  <2>1. DOMAIN blocks' \cap DOMAIN streams' = {}
    BY <1>1, <1>2 DEF LInv, Layout
  <2>2. \A a \in Areas' : a \in Nat /\ WordSize < a /\ (a - 1) % WordSize = 0 /\ a + Room(a)' <= brk'
    BY <1>1, <1>4, <1>5 DEF LInv, Layout
  <2>3. \A a, b \in Areas' : a < b => a + Room(a)' + WordSize <= b
    BY <1>4, <1>5 DEF LInv, Layout
  <2> QED BY <2>1, <2>2, <2>3 DEF Layout
<1>7. Memory'
  BY <1>1 DEF LInv, Memory, Last
<1>8. CSide'
  BY <1>1, <1>2, <1>3 DEF LInv, CSide, OpenedOn, StreamsOn
<1>9. SizesKept' /\ Contents'
  BY <1>1 DEF LInv, SizesKept, Contents, Rounded, Unspecified
<1>10. StreamsKept'
  <2>1. ASSUME NEW g \in DOMAIN streams'
        PROVE  /\ heap[g] \in DOMAIN opened'
               /\ opened'[heap[g]].path = streams'[g].path /\ opened'[heap[g]].offset = streams'[g].pos
               /\ (heap[g + WordSize] # 0) = (streams'[g].eof \in {"yes", "stale"})
    <3>1. g \in DOMAIN streams /\ g # f /\ streams'[g] = streams[g]
      BY <1>2
    <3>2. fh(g) # fh(f)
      BY <3>1 DEF LInv, StreamsKept
    <3>3. fh(g) \in DOMAIN opened' /\ opened'[fh(g)] = opened[fh(g)] /\ fh(g) = heap[g]
      BY <1>3, <3>1, <3>2, StreamFacts DEF fh, WordAt
    <3> QED BY <3>1, <3>3, StreamFacts
  <2>2. \A g, k \in DOMAIN streams' : heap[g] = heap[k] => g = k
    BY <1>2 DEF LInv, StreamsKept, fh, WordAt
  <2> QED BY <1>1, <2>1, <2>2 DEF StreamsKept, fh, at_eof, WordAt
<1> QED BY <1>1, <1>6, <1>7, <1>8, <1>9, <1>10 DEF LInv

LEMMA TwoWordsRounded ==
  ASSUME WordSize \in Nat \ {0}
  PROVE  Rounded(2 * WordSize) = 2 * WordSize /\ (2 * WordSize) % WordSize = 0
<1> DEFINE m == 2 * WordSize + WordSize - 1
           q == m \div WordSize
           r == m % WordSize
<1>1. m \in Nat /\ m = 3 * WordSize - 1
  OBVIOUS
<1>2. m = WordSize * q + r /\ q \in Nat /\ r \in 0..(WordSize - 1)
  <2> HIDE DEF m
  <2> QED BY <1>1, Divides
<1> HIDE DEF m, q, r
<1>3. q = 2
  <2>1. CASE q = 0
    <3>1. WordSize * q = 0
      BY <2>1
    <3> QED BY <1>1, <1>2, <3>1
  <2>2. CASE q = 1
    <3>1. WordSize * q = WordSize
      BY <2>2
    <3> QED BY <1>1, <1>2, <3>1
  <2>3. CASE q >= 3
    <3>1. PICK d \in Nat : q = 3 + d
      <4>1. q - 3 \in Nat /\ q = 3 + (q - 3)
        BY <1>2, <2>3
      <4> QED BY <4>1
    <3>2. PICK y \in Nat : y = WordSize * d
      OBVIOUS
    <3>3. WordSize * (3 + d) = 3 * WordSize + WordSize * d
      OBVIOUS
    <3>4. WordSize * q = 3 * WordSize + y
      BY <3>1, <3>2, <3>3
    <3> QED BY <1>1, <1>2, <3>4
  <2> QED BY <1>2, <2>1, <2>2, <2>3
<1>4. Rounded(2 * WordSize) = WordSize * q
  BY DEF Rounded, m, q
<1>5. WordSize * 2 = 2 * WordSize /\ (WordSize * 2) % WordSize = 0
  BY Multiples
<1> QED BY <1>3, <1>4, <1>5

\* A stream that is opened has a handle that no other has.
LEMMA NewStreamKeeps ==
  ASSUME LibraryFits, LInv, NEW path \in DOMAIN disk, NEW rw, NEW plus \in BOOLEAN,
         NEW handle \in Nat, handle \notin DOMAIN opened, NewStream(path, rw, plus, handle)
  PROVE  LInv'
<1> DEFINE n == 2 * WordSize
           s == Stream(path, rw, plus)
           o == [path |-> path, offset |-> 0]
           h1 == WithSize(n)
           h2 == Stored(h1, NewBlock, handle)
           h3 == Stored(h2, NewBlock + WordSize, 0)
<1>1. /\ Fits(n) /\ brk' = brk + 3 * WordSize
      /\ heap' = h3 /\ opened' = Extended(opened, handle, o)
      /\ disk' = IF rw = "w" THEN [disk EXCEPT ![path] = <<>>] ELSE disk
      /\ streams' = Extended(streams, NewBlock, s)
      /\ Answered' /\ blocks' = blocks
  BY DEF NewStream, Returns, Answered, sys_malloc
<1>2. WordSize \in Nat /\ WordSize >= 1 /\ WordSize \in Nat \ {0} /\ Last \in Nat /\ brk \in Nat /\ n \in Nat
  BY Places DEF LInv, Memory
<1>3. Rounded(n) = n /\ n % WordSize = 0
  BY <1>2, TwoWordsRounded
<1> DEFINE r == n
<1>4. /\ h1 \in [1..Last -> Int] /\ \A a \in 1..Last : a < brk => h1[a] = heap[a]
      /\ brk + (n + WordSize) <= MaxBreak + 1
      /\ NewBlock = brk + WordSize /\ NewBlock + n <= Last + 1 /\ NewBlock \in Nat
  BY <1>1, <1>2, <1>3, SizeWord
<1>5. PICK nb \in Nat : nb = NewBlock
  BY <1>4
<1> DEFINE m == nb + WordSize
<1>6. nb \in 1..Last /\ m \in 1..Last /\ nb < m /\ brk < nb /\ nb = brk + WordSize
  BY <1>2, <1>4, <1>5
<1> HIDE DEF h1, m
<1>7. /\ h2 \in [1..Last -> Int] /\ h2[nb] = handle
      /\ \A a \in 1..Last : a < nb => h2[a] = h1[a]
  <2> DEFINE g == Stored(h1, nb, handle)
  <2>1. g \in [1..Last -> Int]
    BY <1>2, <1>4, <1>6, StoredIs
  <2>2. DOMAIN h1 = 1..Last
    BY <1>4
  <2>3. g[nb] = handle
    BY <1>6, <2>2 DEF Stored
  <2>4. ASSUME NEW a \in 1..Last, a < nb PROVE g[a] = h1[a]
    <3>1. a # nb /\ a \notin (nb + 1)..(nb + WordSize - 1)
      BY <1>2, <2>4
    <3> QED BY <2>2, <3>1 DEF Stored
  <2>5. h2 = g
    BY <1>5
  <2> HIDE DEF g, h2
  <2> QED BY <2>1, <2>3, <2>4, <2>5
<1> HIDE DEF h2
<1>8. /\ h3 \in [1..Last -> Int] /\ h3[m] = 0
      /\ \A a \in 1..Last : a < m => h3[a] = h2[a]
  <2> DEFINE g == Stored(h2, m, 0)
  <2>0. PICK zero \in Int : zero = 0
    OBVIOUS
  <2>1. Stored(h2, m, zero) \in [1..Last -> Int]
    BY <1>2, <1>6, <1>7, StoredIs
  <2>2. DOMAIN h2 = 1..Last
    BY <1>7
  <2>3. g[m] = 0
    BY <1>6, <2>2 DEF Stored
  <2>4. ASSUME NEW a \in 1..Last, a < m PROVE g[a] = h2[a]
    <3>1. a # m /\ a \notin (m + 1)..(m + WordSize - 1)
      BY <1>2, <1>6, <2>4
    <3> QED BY <2>2, <3>1 DEF Stored
  <2>5. h3 = g /\ g = Stored(h2, m, zero)
    BY <1>5, <2>0 DEF m
  <2> HIDE DEF g, h3
  <2> QED BY <2>1, <2>3, <2>4, <2>5
<1> HIDE DEF h3
<1>9. /\ heap' \in [1..Last -> Int] /\ heap'[nb] = handle /\ heap'[m] = 0
      /\ \A a \in 1..Last : a < brk => heap'[a] = heap[a]
  <2>1. heap' \in [1..Last -> Int] /\ heap'[m] = 0
    BY <1>1, <1>8
  <2>2. heap'[nb] = handle
    BY <1>1, <1>6, <1>7, <1>8
  <2>3. ASSUME NEW a \in 1..Last, a < brk PROVE heap'[a] = heap[a]
    <3>1. a < nb /\ a < m
      BY <1>2, <1>6, <2>3
    <3> QED BY <1>1, <1>4, <1>7, <1>8, <2>3, <3>1
  <2> QED BY <2>1, <2>2, <2>3
<1>10. /\ DOMAIN streams' = DOMAIN streams \cup {nb} /\ streams'[nb] = s
       /\ \A g \in DOMAIN streams : g # nb => streams'[g] = streams[g]
  BY <1>1, <1>5 DEF Extended
<1>11. /\ DOMAIN opened' = DOMAIN opened \cup {handle} /\ opened'[handle] = o
       /\ \A h \in DOMAIN opened : h # handle => opened'[h] = opened[h]
  BY <1>1 DEF Extended
<1>12. DOMAIN disk' = DOMAIN disk /\ \A q \in DOMAIN disk : disk'[q] \in Seq(Int)
  <2>1. <<>> \in Seq(Int) /\ \A q \in DOMAIN disk : disk[q] \in Seq(Int)
    BY DEF LInv, CSide
  <2> QED BY <1>1, <2>1
<1>13. s \in StreamsOn(DOMAIN disk) /\ s.path = path /\ s.pos = 0 /\ s.eof = "no"
  <2>1. (rw = "r" \/ plus) \in BOOLEAN /\ (rw = "w" \/ plus) \in BOOLEAN
    OBVIOUS
  <2> QED BY <2>1 DEF Stream, StreamsOn
<1>14. o \in OpenedOn(DOMAIN disk) /\ o.path = path /\ o.offset = 0
  BY DEF OpenedOn
<1> HIDE DEF s, o
<1>15. /\ Memory' /\ Layout' /\ SizesKept' /\ Contents'
       /\ \A p \in DOMAIN blocks' : blocks'[p] \in Seq(Int)
       /\ \A f \in DOMAIN streams : heap'[f] = heap[f] /\ heap'[f + WordSize] = heap[f + WordSize]
       /\ nb \notin Areas
  <2>1. PICK k \in Nat : k = n
    BY <1>2
  <2>2. PICK B \in SUBSET DOMAIN blocks : B = DOMAIN blocks
    OBVIOUS
  <2>3. k % WordSize = 0 /\ brk' = brk + (k + WordSize) /\ brk' <= MaxBreak + 1 /\ k = 2 * WordSize
    BY <1>1, <1>2, <1>3, <1>4, <2>1
  <2>4. DOMAIN blocks' = B /\ \A p \in B : blocks'[p] = blocks[p]
    BY <1>1, <2>2
  <2> HIDE DEF n
  <2> QED BY <1>5, <1>9, <1>10, <2>3, <2>4, Behind
<1>16. CSide'
  <2>1. \A h \in DOMAIN opened' : opened'[h] \in OpenedOn(DOMAIN disk)
    BY <1>11, <1>14 DEF LInv, CSide
  <2>2. \A g \in DOMAIN streams' : streams'[g] \in StreamsOn(DOMAIN disk)
    BY <1>10, <1>13 DEF LInv, CSide
  <2> QED BY <1>12, <1>15, <2>1, <2>2 DEF CSide, OpenedOn, StreamsOn
<1>17. StreamsKept'
  <2>1. ASSUME NEW g \in DOMAIN streams
        PROVE  /\ heap'[g] = fh(g) /\ fh(g) \in DOMAIN opened /\ fh(g) # handle /\ g # nb
               /\ opened'[fh(g)] = opened[fh(g)] /\ streams'[g] = streams[g] /\ heap'[g + WordSize] = heap[g + WordSize]
    <3>1. g # nb /\ heap'[g] = fh(g) /\ heap'[g + WordSize] = heap[g + WordSize]
      BY <1>15 DEF Areas, fh, WordAt
    <3>2. fh(g) \in DOMAIN opened /\ fh(g) # handle
      BY StreamFacts
    <3> QED BY <1>10, <1>11, <3>1, <3>2
  <2>2. ASSUME NEW g \in DOMAIN streams'
        PROVE  /\ heap'[g] \in DOMAIN opened'
               /\ opened'[heap'[g]].path = streams'[g].path /\ opened'[heap'[g]].offset = streams'[g].pos
               /\ (heap'[g + WordSize] # 0) = (streams'[g].eof \in {"yes", "stale"})
    <3>1. CASE g = nb
      <4>1. heap'[g] = handle /\ opened'[handle] = o /\ streams'[g] = s /\ heap'[g + WordSize] = 0
        BY <1>9, <1>10, <1>11, <3>1 DEF m
      <4> QED BY <1>11, <1>13, <1>14, <4>1
    <3>2. CASE g # nb
      <4>1. g \in DOMAIN streams
        BY <1>10, <3>2
      <4> QED BY <1>11, <2>1, <4>1, StreamFacts
    <3> QED BY <3>1, <3>2
  <2>3. ASSUME NEW g \in DOMAIN streams', NEW k \in DOMAIN streams', heap'[g] = heap'[k] PROVE g = k
    <3>1. CASE g = nb /\ k # nb
      BY <1>9, <1>10, <2>1, <2>3, <3>1
    <3>2. CASE g # nb /\ k = nb
      BY <1>9, <1>10, <2>1, <2>3, <3>2
    <3>3. CASE g # nb /\ k # nb
      <4>1. g \in DOMAIN streams /\ k \in DOMAIN streams /\ fh(g) = fh(k)
        BY <1>10, <2>1, <2>3, <3>3
      <4> QED BY <4>1 DEF LInv, StreamsKept
    <3> QED BY <3>1, <3>2, <3>3
  <2> QED BY <2>2, <2>3 DEF StreamsKept, fh, at_eof, WordAt
<1> QED BY <1>1, <1>15, <1>16, <1>17 DEF LInv

\* A call that changes nothing.
LEMMA LeftAlone ==
  ASSUME LInv, heap' = heap, brk' = brk, blocks' = blocks, disk' = disk, opened' = opened, streams' = streams, Answered'
  PROVE  LInv'
<1>1. Memory' /\ CSide'
  BY DEF LInv, Memory, CSide, Last, OpenedOn, StreamsOn
<1>2. Layout'
  BY DEF LInv, Layout, Areas, Room, Rounded
<1>3. SizesKept' /\ Contents'
  BY DEF LInv, SizesKept, Contents, Rounded, Unspecified
<1>4. StreamsKept'
  BY DEF LInv, StreamsKept, fh, at_eof, WordAt
<1> QED BY <1>1, <1>2, <1>3, <1>4 DEF LInv

LEMMA FopenKeeps ==
  ASSUME LibraryFits, LInv, NEW path \in DOMAIN disk, NEW mode \in Modes, fopen(path, mode[1], mode[2])
  PROVE  LInv'
<1>1. CASE Refused
  <2>1. /\ heap' = heap /\ brk' = brk /\ blocks' = blocks /\ disk' = disk /\ opened' = opened
        /\ streams' = streams /\ Answered'
    BY <1>1 DEF Refused, Returns, Answered, c_memory
  <2> QED BY <2>1, LeftAlone
<1>2. CASE FreeHandles # {} /\ NewStream(path, mode[1], mode[2], Min(FreeHandles))
  <2>1. FreeHandles \in SUBSET Nat /\ FreeHandles # {}
    BY <1>2 DEF FreeHandles, LibraryFits
  <2>2. Min(FreeHandles) \in FreeHandles
    BY <2>1, MinIs
  <2>3. PICK handle \in Nat : handle = Min(FreeHandles)
    BY <2>1, <2>2
  <2>4. handle \notin DOMAIN opened
    BY <2>2, <2>3 DEF FreeHandles
  <2>5. NewStream(path, mode[1], mode[2], handle)
    BY <1>2, <2>3
  <2>6. PICK plus \in BOOLEAN : plus = mode[2]
    BY DEF LibraryFits
  <2>7. NewStream(path, mode[1], plus, handle)
    BY <2>5, <2>6
  <2> QED BY <2>4, <2>7, NewStreamKeeps
<1> QED BY <1>1, <1>2 DEF fopen

------------------------------------------------------------------------------
LEMMA LInit ==
  ASSUME LibraryFits, Init
  PROVE  LInv
<1>1. /\ heap = [a \in 1..Last |-> 0] /\ brk = 1 /\ disk \in Disks /\ opened = <<>>
      /\ blocks = <<>> /\ streams = <<>> /\ Answered
  BY DEF Init, Last, Answered
<1>2. DOMAIN blocks = {} /\ DOMAIN streams = {} /\ DOMAIN opened = {}
  BY <1>1
<1>3. Memory
  <2>1. MaxBreak \in Nat /\ WordSize \in Nat \ {0}
    BY DEF LibraryFits
  <2>2. WordSize * 0 = 0 /\ (WordSize * 0) % WordSize = 0
    BY <2>1, Multiples
  <2>3. (brk - 1) % WordSize = 0
    BY <1>1, <2>2
  <2> QED BY <1>1, <2>1, <2>3 DEF Memory
<1>4. CSide
  BY <1>1, <1>2 DEF CSide, LibraryFits
<1>5. Layout /\ SizesKept /\ Contents /\ StreamsKept
  BY <1>2 DEF Layout, Areas, SizesKept, Contents, StreamsKept
<1> QED BY <1>1, <1>3, <1>4, <1>5 DEF LInv

LEMMA OnHeapKeeps ==
  ASSUME LibraryFits, LInv, OnHeap
  PROVE  LInv'
<1>1. UNCHANGED <<disk, opened, streams>> /\ Sizes \subseteq Nat /\ Bytes \subseteq Int
  BY DEF OnHeap, LibraryFits
<1>2. ASSUME NEW size \in Sizes, malloc(size) PROVE LInv'
  BY <1>1, <1>2, MallocKeeps
<1>3. ASSUME NEW size \in Sizes, calloc(1, size) PROVE LInv'
  <2>1. PICK one \in Nat : one = 1
    OBVIOUS
  <2>2. calloc(one, size)
    BY <1>3, <2>1
  <2> QED BY <1>1, <2>2, CallocKeeps
<1>4. ASSUME NEW ptr \in DOMAIN blocks \cup {NULL}, NEW size \in Sizes, realloc(ptr, size) PROVE LInv'
  BY <1>1, <1>4, ReallocKeeps
<1>5. ASSUME NEW ptr, free(ptr) PROVE LInv'
  BY <1>1, <1>5, FreeKeeps
<1>6. ASSUME NEW ptr \in DOMAIN blocks, NEW v \in Bytes, NEW i \in DOMAIN blocks[ptr], Write(ptr, i, v) PROVE LInv'
  BY <1>1, <1>6, WriteKeeps
<1> QED BY <1>2, <1>3, <1>4, <1>5, <1>6 DEF OnHeap

\* As many elements as there is room for.
LEMMA WholeElements ==
  ASSUME NEW len \in Nat, NEW size \in Nat \ {0}
  PROVE  len \div size \in Nat /\ size * (len \div size) <= len
<1>1. len = size * (len \div size) + (len % size) /\ len % size \in 0..(size - 1) /\ len \div size \in Nat
  BY Divides
<1>2. PICK q \in Nat : q = len \div size
  BY <1>1
<1>3. PICK y \in Nat : y = size * q
  OBVIOUS
<1> QED BY <1>1, <1>2, <1>3

LEMMA OnStreamKeeps ==
  ASSUME LibraryFits, LInv, NEW f \in DOMAIN streams, OnStream(f)
  PROVE  LInv'
<1>1. CASE fclose(f)
  BY <1>1, FcloseKeeps
<1>2. ASSUME fgetc(f), streams[f].eof # "stale", streams[f].eof = "missed" => Rest(f) = <<>> PROVE LInv'
  BY <1>2, FgetcKeeps
<1>3. ASSUME NEW ptr \in DOMAIN blocks, streams[f].eof = "no", fgets(ptr, Len(blocks[ptr]), f) PROVE LInv'
  <2>1. PICK len \in Nat : len = Len(blocks[ptr])
    BY Places
  <2>2. len <= Len(blocks[ptr]) /\ fgets(ptr, len, f)
    BY <1>3, <2>1
  <2> QED BY <1>3, <2>2, FgetsKeeps
<1>4. ASSUME NEW ptr \in DOMAIN blocks, NEW size \in {1, 2}, streams[f].eof = "no", size <= Len(blocks[ptr]),
             fread(ptr, size, Len(blocks[ptr]) \div size, f)
      PROVE  LInv'
  <2>1. PICK len \in Nat : len = Len(blocks[ptr])
    BY Places
  <2>2. size \in Nat \ {0}
    OBVIOUS
  <2>3. PICK nmemb \in Nat : nmemb = len \div size /\ size * nmemb <= len
    BY <2>1, <2>2, WholeElements
  <2>4. size * nmemb <= Len(blocks[ptr]) /\ fread(ptr, size, nmemb, f)
    BY <1>4, <2>1, <2>3
  <2> QED BY <1>4, <2>2, <2>4, FreadKeeps
<1>5. ASSUME NEW v \in Bytes, fputc(v, f) \/ fputs(<<v>>, f) PROVE LInv'
  <2>1. v \in Int /\ <<v>> \in Seq(Int)
    BY DEF LibraryFits
  <2> QED BY <1>5, <2>1, FputcKeeps, FputsKeeps
<1>6. ASSUME NEW ptr \in DOMAIN blocks, NEW size \in {1, 2}, size <= Len(blocks[ptr]),
             fwrite(ptr, size, Len(blocks[ptr]) \div size, f)
      PROVE  LInv'
  <2>1. PICK len \in Nat : len = Len(blocks[ptr])
    BY Places
  <2>2. size \in Nat \ {0}
    OBVIOUS
  <2>3. PICK nmemb \in Nat : nmemb = len \div size /\ size * nmemb <= len
    BY <2>1, <2>2, WholeElements
  <2>4. size * nmemb <= Len(blocks[ptr]) /\ fwrite(ptr, size, nmemb, f)
    BY <1>6, <2>1, <2>3
  <2> QED BY <2>2, <2>4, FwriteKeeps
<1>7. CASE fseek(f, 0)
  <2>1. PICK offset \in Nat : offset = 0
    OBVIOUS
  <2>2. fseek(f, offset)
    BY <1>7, <2>1
  <2> QED BY <2>2, FseekKeeps
<1>8. CASE Reading(f)
  BY <1>2, <1>3, <1>4, <1>8 DEF Reading
<1>9. CASE Putting(f)
  BY <1>5, <1>6, <1>9 DEF Putting
<1> QED BY <1>1, <1>7, <1>8, <1>9 DEF OnStream

LEMMA LStep ==
  ASSUME LibraryFits, LInv, [Next]_vars
  PROVE  LInv'
<1>1. CASE OnHeap
  BY <1>1, OnHeapKeeps
<1>2. CASE Opening
  <2>1. PICK path \in DOMAIN disk, mode \in Modes : fopen(path, mode[1], mode[2])
    BY <1>2 DEF Opening
  <2> QED BY <2>1, FopenKeeps
<1>3. CASE \E f \in DOMAIN streams : OnStream(f)
  BY <1>3, OnStreamKeeps
<1>4. CASE UNCHANGED vars
  <2>1. /\ heap' = heap /\ brk' = brk /\ blocks' = blocks /\ disk' = disk /\ opened' = opened
        /\ streams' = streams /\ Answered'
    BY <1>4 DEF vars, LInv, Answered
  <2> QED BY <2>1, LeftAlone
<1> QED BY <1>1, <1>2, <1>3, <1>4 DEF Next

\* Whatever is asked for, given back, moved or opened in between: the bytes of a block
\* are those the program put there, or had in the block it was made of, and no block
\* shares a byte with another or with a stream.
THEOREM HeapIsC == Spec => []HeapOfC
<1>1. Init => LInv
  BY LInit, LibraryAssumption
<1>2. LInv /\ [Next]_vars => LInv'
  BY LStep, LibraryAssumption
<1>3. LInv => HeapOfC
  BY HeapIsRight, LibraryAssumption
<1> QED BY <1>1, <1>2, <1>3, PTL DEF Spec

\* However calls on several streams, of one file or of two, come between one another
\* and between those on the heap: every call does and returns what C says, but for the
\* numbers fwrite and fputc return, which are the ones named; and so would ftell, and
\* feof but for the two cases named.  Of the calls that read, those are left out that
\* Reading leaves out: of a stream at whose end one was, all but fgetc, and that one
\* too when there is something to read again; and an fgets that reads nothing or
\* fills its buffer.
THEOREM StreamsAreC == Spec => []StreamsOfC
<1>1. Init => LInv
  BY LInit, LibraryAssumption
<1>2. LInv /\ [Next]_vars => LInv'
  BY LStep, LibraryAssumption
<1>3. LInv => StreamsOfC
  BY StreamsAreRight, LibraryAssumption
<1> QED BY <1>1, <1>2, <1>3, PTL DEF Spec
==============================================================================
