-------------------------- MODULE ConditionalsProofs --------------------------
(***************************************************************************)
(* The conditional iterator gives the lines C gives, for every depth of    *)
(* groups and every set of conditions and definitions.                     *)
(***************************************************************************)
EXTENDS Conditionals, SequenceTheorems, TLAPS

\* A group whose branch is being read, before its #else, is marked as done:
\* else the branch after it could be taken, too.
Marked ==
  \A k \in 1..if_level :
    (skip_level = 0 \/ k < if_level) /\ ~past_else[k] => if_done[k] = TRUE

IInv == TypeOK /\ Marked

\* The groups as a sequence.
Groups == [k \in 1..Open |-> Group(k)]
GroupSet == [live : BOOLEAN, done : BOOLEAN, last : BOOLEAN]

\* A sequence given element by element, with one more and with one less.
LEMMA OneMore ==
  ASSUME NEW S, NEW n \in Nat, NEW f \in [1..n -> S], NEW r \in S
  PROVE  /\ Len(f) = n
         /\ Append(f, r) = [k \in 1..(n + 1) |-> IF k <= n THEN f[k] ELSE r]
<1> DEFINE g == [k \in 1..(n + 1) |-> IF k <= n THEN f[k] ELSE r]
<1>1. f \in Seq(S) /\ Len(f) = n
  OBVIOUS
<1>2. Append(f, r) \in Seq(S) /\ Len(Append(f, r)) = n + 1
  BY <1>1
<1>3. g \in Seq(S) /\ Len(g) = n + 1
  OBVIOUS
<1>4. \A k \in 1..(n + 1) : Append(f, r)[k] = g[k]
  BY <1>1
<1> HIDE DEF g
<1>5. Append(f, r) = g
  BY <1>2, <1>3, <1>4, SeqEqual
<1> QED BY <1>1, <1>5 DEF g

LEMMA OneLess ==
  ASSUME NEW S, NEW n \in Nat \ {0}, NEW f \in [1..n -> S]
  PROVE  SubSeq(f, 1, n - 1) = [k \in 1..(n - 1) |-> f[k]]
<1>1. f \in Seq(S) /\ Len(f) = n
  OBVIOUS
<1> QED BY <1>1

\* The last element exchanged.
LEMMA LastChanged ==
  ASSUME NEW S, NEW n \in Nat \ {0}, NEW f \in [1..n -> S], NEW r \in S
  PROVE  Append(SubSeq(f, 1, n - 1), r) = [k \in 1..n |-> IF k < n THEN f[k] ELSE r]
<1> DEFINE g == [k \in 1..(n - 1) |-> f[k]]
<1>1. SubSeq(f, 1, n - 1) = g
  BY OneLess
<1>2. g \in [1..(n - 1) -> S] /\ n - 1 \in Nat
  OBVIOUS
<1>3. Append(g, r) = [k \in 1..((n - 1) + 1) |-> IF k <= n - 1 THEN g[k] ELSE r]
  BY <1>2, OneMore
<1> QED BY <1>1, <1>3

\* The flags and levels tell of every open group what C knows of it.
LEMMA GroupsTyped ==
  ASSUME TypeOK
  PROVE  /\ Open \in Nat /\ Groups \in [1..Open -> GroupSet] /\ Len(Groups) = Open
         /\ C!Live <=> skip_level = 0
<1>1. Open \in Nat /\ if_level <= Open
  BY DEF TypeOK, Open
<1>2. \A k \in 1..Open : Group(k) \in GroupSet
  <2> TAKE k \in 1..Open
  <2>1. past_else[k] \in BOOLEAN
    BY DEF TypeOK, Open
  <2>2. k \in 1..MaxNesting
    BY LevelsFit DEF TypeOK, Open
  <2>3. if_done[k] \in BOOLEAN
    BY <2>2 DEF TypeOK
  <2> QED BY <2>1, <2>3 DEF Group, GroupSet
<1>3. Groups \in [1..Open -> GroupSet]
  BY <1>2 DEF Groups
<1>4. Len(Groups) = Open
  BY <1>1, <1>3
<1>5. C!Live <=> \A k \in 1..Open : Group(k).live
  BY <1>4 DEF C!Live, Groups
<1>6. \A k \in 1..Open : Group(k).live <=> ~(skip_level > 0 /\ k >= if_level)
  BY Zenon DEF Group
<1>7. skip_level = 0 => \A k \in 1..Open : Group(k).live
  BY <1>6
<1>8. skip_level # 0 => if_level \in 1..Open /\ skip_level > 0
  BY <1>1 DEF TypeOK
<1>9. skip_level # 0 => ~Group(if_level).live
  BY <1>6, <1>8
<1> QED BY <1>1, <1>3, <1>4, <1>5, <1>7, <1>8, <1>9

\* A group in the next state, by its three parts.
LEMMA NewGroup ==
  ASSUME NEW k, NEW live \in BOOLEAN, NEW done \in BOOLEAN, NEW last,
         live <=> ~(skip_level' > 0 /\ k >= if_level'),
         done <=> (live \/ k > if_level' \/ if_done'[k]),
         past_else'[k] = last
  PROVE  Group(k)' = [live |-> live, done |-> done, last |-> last]
<1>1. (~(skip_level' > 0 /\ k >= if_level')) = live
  OBVIOUS
<1>2. (~(skip_level' > 0 /\ k >= if_level') \/ k > if_level' \/ if_done'[k]) = done
  OBVIOUS
<1> QED BY <1>1, <1>2, Zenon DEF Group

LEMMA SameGroup ==
  ASSUME NEW k, past_else'[k] = past_else[k],
         (skip_level' > 0 /\ k >= if_level') <=> (skip_level > 0 /\ k >= if_level),
         (skip_level' > 0 /\ k >= if_level') =>
            (k > if_level' \/ if_done'[k] <=> k > if_level \/ if_done[k])
  PROVE  Group(k)' = Group(k)
BY Zenon DEF Group

\* The groups after one is opened, goes on with another branch, or is closed.
LEMMA Opened ==
  ASSUME TypeOK, NEW n, n = Open, Open' = n + 1, NEW r \in GroupSet,
         \A k \in 1..n : Group(k)' = Group(k), Group(n + 1)' = r
  PROVE  Groups' = Append(Groups, r)
<1>1. n \in Nat /\ Groups \in [1..n -> GroupSet]
  BY GroupsTyped
<1>2. Append(Groups, r) = [k \in 1..(n + 1) |-> IF k <= n THEN Groups[k] ELSE r]
  BY <1>1, OneMore
<1>3. Groups' = [k \in 1..(n + 1) |-> Group(k)']
  BY DEF Groups
<1>4. \A k \in 1..(n + 1) : Group(k)' = IF k <= n THEN Groups[k] ELSE r
  <2> TAKE k \in 1..(n + 1)
  <2>1. CASE k <= n
    <3>1. k \in 1..n
      BY <1>1, <2>1
    <3>2. Group(k)' = Group(k) /\ Groups[k] = Group(k)
      BY <3>1 DEF Groups
    <3> QED BY <2>1, <3>2
  <2>2. CASE k = n + 1
    <3>1. Group(k)' = r /\ ~(k <= n)
      BY <1>1, <2>2
    <3> QED BY <3>1
  <2> QED BY <1>1, <2>1, <2>2
<1> QED BY <1>2, <1>3, <1>4

LEMMA Continued ==
  ASSUME TypeOK, NEW n, n = Open, Open' = n, n > 0, NEW r \in GroupSet,
         \A k \in 1..(n - 1) : Group(k)' = Group(k), Group(n)' = r
  PROVE  Groups' = Append(SubSeq(Groups, 1, n - 1), r)
<1>1. n \in Nat \ {0} /\ Groups \in [1..n -> GroupSet]
  BY GroupsTyped
<1>2. Append(SubSeq(Groups, 1, n - 1), r) = [k \in 1..n |-> IF k < n THEN Groups[k] ELSE r]
  BY <1>1, LastChanged
<1>3. Groups' = [k \in 1..n |-> Group(k)']
  BY DEF Groups
<1>4. \A k \in 1..n : Group(k)' = IF k < n THEN Groups[k] ELSE r
  BY <1>1 DEF Groups
<1> QED BY <1>2, <1>3, <1>4

LEMMA Closed ==
  ASSUME TypeOK, NEW n, n = Open, n > 0, Open' = n - 1,
         \A k \in 1..(n - 1) : Group(k)' = Group(k)
  PROVE  Groups' = SubSeq(Groups, 1, n - 1)
<1>1. n \in Nat \ {0} /\ Groups \in [1..n -> GroupSet]
  BY GroupsTyped
<1>2. SubSeq(Groups, 1, n - 1) = [k \in 1..(n - 1) |-> Groups[k]]
  BY <1>1, OneLess
<1>3. Groups' = [k \in 1..(n - 1) |-> Group(k)']
  BY DEF Groups
<1>4. \A k \in 1..(n - 1) : Group(k)' = Groups[k]
  BY <1>1 DEF Groups
<1> QED BY <1>2, <1>3, <1>4

------------------------------------------------------------------------------
\* The numbers of a state, for the arithmetic of the steps.
LEMMA Numbers ==
  ASSUME TypeOK
  PROVE  /\ Open \in Nat /\ Open <= MaxNesting /\ MaxNesting \in Nat
         /\ if_level \in Nat /\ skip_level \in Nat /\ if_level <= Open
         /\ skip_level > 0 => if_level > 0
         /\ Open = if_level + (IF skip_level > 0 THEN skip_level - 1 ELSE 0)
         /\ past_else \in [1..Open -> BOOLEAN]
BY LevelsFit DEF TypeOK, Open

LEMMA Appended ==
  ASSUME NEW s \in Seq(BOOLEAN), NEW e \in BOOLEAN
  PROVE  /\ Append(s, e) \in Seq(BOOLEAN) /\ Len(Append(s, e)) = Len(s) + 1
         /\ Append(s, e)[Len(s) + 1] = e
         /\ \A k \in 1..Len(s) : Append(s, e)[k] = s[k]
BY AppendProperties

LEMMA Exchanged ==
  ASSUME NEW s \in Seq(BOOLEAN), NEW n \in 1..Len(s), NEW e \in BOOLEAN
  PROVE  /\ [s EXCEPT ![n] = e] \in Seq(BOOLEAN) /\ Len([s EXCEPT ![n] = e]) = Len(s)
         /\ [s EXCEPT ![n] = e][n] = e
         /\ \A k \in 1..(n - 1) : [s EXCEPT ![n] = e][k] = s[k]
<1>1. \A k \in 1..Len(s) : [s EXCEPT ![n] = e][k] = IF k = n THEN e ELSE s[k]
  BY ExceptSeq
<1>2. [s EXCEPT ![n] = e] \in Seq(BOOLEAN) /\ Len([s EXCEPT ![n] = e]) = Len(s)
  BY ExceptSeq
<1>3. [s EXCEPT ![n] = e][n] = e
  BY <1>1
<1>4. \A k \in 1..(n - 1) : k \in 1..Len(s) /\ k # n
  OBVIOUS
<1>5. \A k \in 1..(n - 1) : [s EXCEPT ![n] = e][k] = s[k]
  BY <1>1, <1>4, Zenon
<1> QED BY <1>2, <1>3, <1>5, Zenon

LEMMA Shortened ==
  ASSUME NEW S, NEW s \in Seq(S), NEW n \in 1..Len(s), n = Len(s)
  PROVE  /\ SubSeq(s, 1, n - 1) \in Seq(S) /\ Len(SubSeq(s, 1, n - 1)) = n - 1
         /\ \A k \in 1..(n - 1) : SubSeq(s, 1, n - 1)[k] = s[k]
OBVIOUS

LEMMA IfStep ==
  ASSUME IInv, NEW c \in Conditions, If(c)
  PROVE  IInv' /\ C!If(c)
<1> DEFINE h == Holds(c)
<1>0. h \in BOOLEAN
  BY DEF Holds
<1> PICK n : n = Open
  OBVIOUS
<1>n. /\ n = Open /\ Open \in Nat /\ Open <= MaxNesting /\ MaxNesting \in Nat
      /\ if_level \in Nat /\ skip_level \in Nat /\ if_level <= Open
      /\ skip_level > 0 => if_level > 0
      /\ Open = if_level + (IF skip_level > 0 THEN skip_level - 1 ELSE 0)
  BY Numbers DEF IInv
<1>1. past_else \in Seq(BOOLEAN) /\ past_else' = Append(past_else, FALSE) /\ Open < MaxNesting
  BY DEF If, TypeOK, IInv
<1>2. /\ past_else' \in Seq(BOOLEAN) /\ Open' = Open + 1
      /\ past_else'[n + 1] = FALSE
      /\ \A k \in 1..n : past_else'[k] = past_else[k]
  <2>1. /\ Append(past_else, FALSE) \in Seq(BOOLEAN)
        /\ Len(Append(past_else, FALSE)) = Len(past_else) + 1
        /\ Append(past_else, FALSE)[Len(past_else) + 1] = FALSE
        /\ \A k \in 1..Len(past_else) : Append(past_else, FALSE)[k] = past_else[k]
    BY <1>1, Appended
  <2> QED BY <1>1, <1>n, <2>1, Zenon DEF Open
<1>3. environment' = environment /\ files' = files /\ given' = FALSE
  BY DEF If, Silent
<1>4. /\ DOMAIN environment' = Symbols
      /\ \A s \in Symbols : environment'[s] \in Definitions[s] \cup {Undefined}
      /\ files' \in Seq(0..MaxNesting) /\ Len(files') <= MaxParents /\ given' \in BOOLEAN
  BY <1>3 DEF IInv, TypeOK
<1>5. CASE skip_level > 0
  <2>1. skip_level' = skip_level + 1 /\ if_level' = if_level /\ if_done' = if_done
    BY <1>5 DEF If
  <2>2. /\ Open' <= MaxNesting /\ skip_level' \in 0..MaxNesting /\ if_level' \in 0..MaxNesting
        /\ skip_level' > 0 => if_level' > 0
        /\ Open' = if_level' + (IF skip_level' > 0 THEN skip_level' - 1 ELSE 0)
    BY <1>n, <1>1, <1>2, <1>5, <2>1
  <2>3. TypeOK'
    BY <1>2, <1>4, <2>1, <2>2 DEF IInv, TypeOK
  <2>4. Marked'
    BY <1>n, <1>2, <1>5, <2>1 DEF IInv, Marked
  <2>5. ASSUME NEW k \in 1..n PROVE Group(k)' = Group(k)
    <3>1. past_else'[k] = past_else[k]
      BY <1>2
    <3>2. (skip_level' > 0 /\ k >= if_level') <=> (skip_level > 0 /\ k >= if_level)
      BY <1>n, <1>5, <2>1
    <3> QED BY <2>1, <3>1, <3>2, SameGroup
  <2>6. Group(n + 1)' = [live |-> FALSE, done |-> TRUE, last |-> FALSE]
    <3>1. skip_level' > 0 /\ n + 1 > if_level' /\ n + 1 >= if_level'
      BY <1>n, <1>5, <2>1
    <3> QED BY <1>2, <3>1, NewGroup
  <2>7. Groups' = Append(Groups, [live |-> FALSE, done |-> TRUE, last |-> FALSE])
    BY <1>n, <1>2, <2>5, <2>6, Opened DEF IInv, GroupSet
  <2>8. C!Live = FALSE
    BY <1>n, <1>5, GroupsTyped DEF IInv
  <2> QED
    BY <1>1, <1>3, <2>3, <2>4, <2>7, <2>8, GroupsTyped DEF IInv, C!If, C!Silent, Groups
<1>6. CASE skip_level = 0
  <2>1. /\ if_level' = if_level + 1 /\ if_level = n
        /\ if_done' = [if_done EXCEPT ![n + 1] = h]
        /\ skip_level' = IF h THEN 0 ELSE 1
    BY <1>n, <1>6 DEF If
  <2>2. /\ Open' <= MaxNesting /\ skip_level' \in 0..MaxNesting /\ if_level' \in 0..MaxNesting
        /\ skip_level' > 0 => if_level' > 0
        /\ Open' = if_level' + (IF skip_level' > 0 THEN skip_level' - 1 ELSE 0)
    BY <1>0, <1>n, <1>1, <1>2, <2>1
  <2>d. /\ if_done' \in [1..MaxNesting -> BOOLEAN] /\ if_done'[n + 1] = h
        /\ \A k \in 1..n : if_done'[k] = if_done[k]
    BY <1>0, <1>n, <1>1, <2>1 DEF IInv, TypeOK
  <2>3. TypeOK'
    BY <1>2, <1>4, <2>d, <2>2 DEF IInv, TypeOK
  <2>4. Marked'
    <3> SUFFICES ASSUME NEW k \in 1..(n + 1), skip_level' = 0 \/ k < n + 1, ~past_else'[k]
                 PROVE  if_done'[k] = TRUE
      BY <2>1, <1>n DEF Marked
    <3>1. CASE k = n + 1
      BY <1>0, <1>n, <2>1, <2>d, <3>1
    <3>2. CASE k \in 1..n
      <4>1. past_else'[k] = past_else[k] /\ if_done'[k] = if_done[k] /\ k \in 1..if_level
        BY <1>n, <1>2, <2>1, <2>d, <3>2
      <4>2. ~past_else[k]
        BY <4>1, Zenon
      <4>3. if_done[k] = TRUE
        BY <1>6, <4>1, <4>2, Zenon DEF IInv, Marked
      <4> QED BY <4>1, <4>3, Zenon
    <3>3. k = n + 1 \/ k \in 1..n
      BY <1>n
    <3> QED BY <3>1, <3>2, <3>3, Zenon
  <2>5. ASSUME NEW k \in 1..n PROVE Group(k)' = Group(k)
    <3>1. past_else'[k] = past_else[k]
      BY <1>2
    <3>2. ~(skip_level' > 0 /\ k >= if_level') /\ ~(skip_level > 0 /\ k >= if_level)
      BY <1>n, <1>6, <2>1
    <3> QED BY <3>1, <3>2, SameGroup
  <2>6. Group(n + 1)' = [live |-> h, done |-> h, last |-> FALSE]
    <3>1. h <=> ~(skip_level' > 0 /\ n + 1 >= if_level')
      BY <1>0, <1>n, <2>1
    <3>2. h <=> (h \/ n + 1 > if_level' \/ if_done'[n + 1])
      BY <1>0, <1>n, <2>1, <2>d
    <3> QED BY <1>0, <1>2, <3>1, <3>2, NewGroup
  <2>7. Groups' = Append(Groups, [live |-> h, done |-> h, last |-> FALSE])
    BY <1>0, <1>n, <1>2, <2>5, <2>6, Opened DEF IInv, GroupSet
  <2>8. C!Live = TRUE
    BY <1>n, <1>6, GroupsTyped DEF IInv
  <2>9. C!Holds(c) = h
    BY DEF C!Holds, Holds
  <2> QED
    BY <1>0, <1>1, <1>3, <2>3, <2>4, <2>7, <2>8, <2>9, GroupsTyped
       DEF IInv, C!If, C!Silent, Groups
<1> QED BY <1>n, <1>5, <1>6

\* The innermost group, as C sees it.
LEMMA Innermost ==
  ASSUME TypeOK, NEW n, n = Open, InGroup
  PROVE  /\ n \in Nat /\ n > 0 /\ C!InGroup
         /\ C!Outer = SubSeq(Groups, 1, n - 1)
         /\ C!Top = Group(n)
         /\ Group(n).done <=> (~(skip_level > 0 /\ n >= if_level) \/ n > if_level \/ if_done[n])
         /\ Group(n).last = past_else[n]
         /\ Group(n).done \in BOOLEAN
<1>1. n \in Nat /\ Len(Groups) = n
  BY GroupsTyped
<1>2. Len(files) \in Nat /\ (files # <<>> => files[Len(files)] \in 0..MaxNesting)
  <2>1. files \in Seq(0..MaxNesting)
    BY DEF TypeOK
  <2>2. Len(files) \in Nat /\ (files # <<>> => Len(files) \in 1..Len(files))
    BY <2>1, EmptySeq
  <2> QED BY <2>1, <2>2, ElementOfSeq
<1>3. n > 0
  BY <1>1, <1>2 DEF InGroup
<1>4. C!InGroup /\ C!Outer = SubSeq(Groups, 1, n - 1) /\ C!Top = Groups[n]
  BY <1>1 DEF C!InGroup, C!Base, C!Outer, C!Top, InGroup, Groups
<1>5. Groups[n] = Group(n)
  BY <1>1, <1>3 DEF Groups
<1>6. /\ Group(n).done <=> (~(skip_level > 0 /\ n >= if_level) \/ n > if_level \/ if_done[n])
      /\ Group(n).last = past_else[n]
  BY Zenon DEF Group
<1>7. Group(n).done \in BOOLEAN
  BY Zenon DEF Group
<1> QED BY <1>1, <1>3, <1>4, <1>5, <1>6, <1>7

LEMMA ElifStep ==
  ASSUME IInv, NEW c \in Conditions, Elif(c)
  PROVE  IInv' /\ C!Elif(c)
<1> PICK n : n = Open
  OBVIOUS
<1> PICK h \in BOOLEAN : h = Holds(c)
  BY DEF Holds
<1>1. /\ BeforeElse /\ InGroup /\ past_else' = past_else /\ files' = files
      /\ environment' = environment /\ if_level' = if_level /\ given' = FALSE
  BY DEF Elif, BeforeElse, SamePlace, Silent
<1>2. /\ n = Open /\ n \in Nat /\ n > 0 /\ n <= MaxNesting /\ MaxNesting \in Nat
      /\ if_level \in Nat /\ skip_level \in Nat /\ if_level <= n
      /\ skip_level > 0 => if_level > 0
      /\ n = if_level + (IF skip_level > 0 THEN skip_level - 1 ELSE 0)
  BY <1>1, Numbers, Innermost DEF IInv
<1>3. Open' = n
  BY <1>1 DEF Open
<1>4. /\ past_else[n] = FALSE /\ if_done \in [1..MaxNesting -> BOOLEAN] /\ n \in 1..MaxNesting
      /\ if_done[n] \in BOOLEAN
  <2>1. past_else[n] \in BOOLEAN
    BY <1>2, Numbers DEF IInv
  <2>2. ~past_else[n]
    BY <1>1 DEF BeforeElse
  <2>3. if_done \in [1..MaxNesting -> BOOLEAN] /\ n \in 1..MaxNesting
    BY <1>2 DEF IInv, TypeOK
  <2> QED BY <2>1, <2>2, <2>3
<1> PICK d \in BOOLEAN : d = Group(n).done
  BY <1>1, <1>2, Innermost DEF IInv
<1>5. d <=> (~(skip_level > 0 /\ n >= if_level) \/ n > if_level \/ if_done[n])
  BY <1>1, <1>2, Innermost DEF IInv
<1> DEFINE taken == ~d /\ h
           r == [live |-> taken, done |-> d \/ taken, last |-> FALSE]
\* The flag, the level, and the group, for each of the ways to go on.
<1>6. /\ if_done' \in [1..MaxNesting -> BOOLEAN]
      /\ \A k \in 1..(n - 1) : if_done'[k] = if_done[k]
      /\ skip_level' \in 0..MaxNesting
      /\ skip_level' > 0 => if_level' > 0
      /\ n = if_level' + (IF skip_level' > 0 THEN skip_level' - 1 ELSE 0)
      /\ skip_level' = 0 => if_done'[n] = TRUE
      /\ taken <=> ~(skip_level' > 0 /\ n >= if_level')
      /\ d \/ taken <=> (taken \/ n > if_level' \/ if_done'[n])
      /\ skip_level' = 0 \/ skip_level' = 1 <=> skip_level = 0 \/ skip_level = 1
  <2>1. CASE skip_level = 1 /\ ~if_done[if_level] /\ h
    <3>1. skip_level' = 0 /\ if_done' = [if_done EXCEPT ![n] = TRUE] /\ if_level = n
      BY <1>2, <2>1 DEF Elif
    <3>2. if_done'[n] = TRUE /\ if_done' \in [1..MaxNesting -> BOOLEAN]
      BY <1>4, <3>1
    <3>3. ASSUME NEW k \in 1..(n - 1) PROVE if_done'[k] = if_done[k]
      <4>1. k \in 1..MaxNesting /\ k # n
        BY <1>2
      <4> QED BY <1>4, <3>1, <4>1
    <3>4. d = FALSE
      BY <1>2, <1>5, <2>1, <3>1
    <3>5. /\ skip_level' \in 0..MaxNesting
          /\ skip_level' > 0 => if_level' > 0
          /\ n = if_level' + (IF skip_level' > 0 THEN skip_level' - 1 ELSE 0)
          /\ skip_level' = 0 \/ skip_level' = 1 <=> skip_level = 0 \/ skip_level = 1
      BY <1>1, <1>2, <2>1, <3>1
    <3>6. /\ taken <=> ~(skip_level' > 0 /\ n >= if_level')
          /\ d \/ taken <=> (taken \/ n > if_level' \/ if_done'[n])
      BY <2>1, <3>1, <3>4
    <3> QED BY <3>2, <3>3, <3>5, <3>6
  <2>2. CASE skip_level = 0
    <3>1. skip_level' = 1 /\ if_done' = if_done /\ if_level = n
      BY <1>2, <2>2 DEF Elif
    <3>2. if_done[n] = TRUE
      BY <1>2, <1>4, <2>2, <3>1 DEF IInv, Marked
    <3>3. d = TRUE
      BY <1>5, <2>2
    <3>5. /\ skip_level' \in 0..MaxNesting
          /\ skip_level' > 0 => if_level' > 0
          /\ n = if_level' + (IF skip_level' > 0 THEN skip_level' - 1 ELSE 0)
          /\ skip_level' = 0 \/ skip_level' = 1 <=> skip_level = 0 \/ skip_level = 1
      BY <1>1, <1>2, <2>2, <3>1
    <3>6. /\ taken <=> ~(skip_level' > 0 /\ n >= if_level')
          /\ d \/ taken <=> (taken \/ n > if_level' \/ if_done'[n])
      BY <1>1, <1>2, <3>1, <3>2, <3>3
    <3>7. skip_level' = 0 => if_done'[n] = TRUE
      BY <3>1
    <3> QED BY <1>4, <3>1, <3>5, <3>6, <3>7
  <2>3. CASE skip_level > 0 /\ ~(skip_level = 1 /\ ~if_done[if_level] /\ h)
    <3>1. skip_level' = skip_level /\ if_done' = if_done /\ n >= if_level
      BY <1>2, <2>3 DEF Elif
    <3>2. taken = FALSE
      BY <1>2, <1>5, <2>3
    <3>3. skip_level \in 0..MaxNesting
      BY DEF IInv, TypeOK
    <3>5. /\ skip_level' \in 0..MaxNesting
          /\ skip_level' > 0 => if_level' > 0
          /\ n = if_level' + (IF skip_level' > 0 THEN skip_level' - 1 ELSE 0)
          /\ skip_level' = 0 \/ skip_level' = 1 <=> skip_level = 0 \/ skip_level = 1
      BY <1>1, <1>2, <2>3, <3>1, <3>3
    <3>6. /\ taken <=> ~(skip_level' > 0 /\ n >= if_level')
          /\ d \/ taken <=> (taken \/ n > if_level' \/ if_done'[n])
      BY <1>1, <1>2, <1>5, <2>3, <3>1, <3>2
    <3>7. skip_level' # 0
      BY <2>3, <3>1
    <3>8. if_done' \in [1..MaxNesting -> BOOLEAN] /\ \A k \in 1..(n - 1) : if_done'[k] = if_done[k]
      BY <1>4, <3>1, Zenon
    <3>9. skip_level' = 0 => if_done'[n] = TRUE
      BY <3>7, Zenon
    <3> QED BY <3>5, <3>6, <3>8, <3>9, Zenon
  <2>4. skip_level = 0 \/ skip_level > 0
    BY <1>2
  <2> QED BY <2>1, <2>2, <2>3, <2>4, Zenon
<1>7. TypeOK'
  BY <1>1, <1>2, <1>3, <1>6 DEF IInv, TypeOK
<1>8. Marked'
  <2> SUFFICES ASSUME NEW k \in 1..if_level, skip_level' = 0 \/ k < if_level, ~past_else[k]
               PROVE  if_done'[k] = TRUE
    BY <1>1 DEF Marked
  <2>1. CASE k = n
    <3>1. skip_level' = 0
      BY <1>2, <2>1
    <3> QED BY <1>6, <2>1, <3>1, Zenon
  <2>2. CASE k < n
    <3>1. if_done'[k] = if_done[k] /\ (skip_level = 0 \/ k < if_level)
      BY <1>1, <1>2, <1>6, <2>2
    <3>2. if_done[k] = TRUE
      BY <3>1, Zenon DEF IInv, Marked
    <3> QED BY <3>1, <3>2, Zenon
  <2>3. k = n \/ k < n
    BY <1>2
  <2> QED BY <2>1, <2>2, <2>3, Zenon
<1>9. Groups' = Append(SubSeq(Groups, 1, n - 1), r)
  <2>1. ASSUME NEW k \in 1..(n - 1) PROVE Group(k)' = Group(k)
    <3>1. past_else'[k] = past_else[k] /\ if_done'[k] = if_done[k]
      BY <1>1, <1>6
    <3>2. (skip_level' > 0 /\ k >= if_level') <=> (skip_level > 0 /\ k >= if_level)
      BY <1>1, <1>2, <1>6
    <3> QED BY <1>1, <3>1, <3>2, SameGroup
  <2>2. Group(n)' = r
    <3> PICK live \in BOOLEAN : live = taken
      OBVIOUS
    <3> PICK done \in BOOLEAN : done = (d \/ taken)
      OBVIOUS
    <3>1. live <=> ~(skip_level' > 0 /\ n >= if_level')
      BY <1>6
    <3>2. done <=> (live \/ n > if_level' \/ if_done'[n])
      BY <1>6
    <3>3. past_else'[n] = FALSE
      BY <1>1, <1>4
    <3>4. Group(n)' = [live |-> live, done |-> done, last |-> FALSE]
      BY ONLY <3>1, <3>2, <3>3, live \in BOOLEAN, done \in BOOLEAN, Zenon DEF Group
    <3> QED BY <3>4, Zenon
  <2> QED BY <1>2, <1>3, <2>1, <2>2, Continued DEF IInv, GroupSet
<1>a. /\ C!InGroup /\ C!Top = Group(n) /\ Group(n).last = FALSE
      /\ C!Outer = SubSeq(Groups, 1, n - 1)
  BY <1>1, <1>2, <1>4, Innermost DEF IInv
<1>b. C!Holds(c) = h
  BY DEF C!Holds, Holds
<1>c. C!Elif(c)
  BY <1>1, <1>9, <1>a, <1>b, Zenon DEF C!Elif, C!Silent, Groups
<1> QED BY <1>7, <1>8, <1>c DEF IInv

LEMMA ElseStep ==
  ASSUME IInv, Else
  PROVE  IInv' /\ C!Else
<1> PICK n : n = Open
  OBVIOUS
<1>1. /\ BeforeElse /\ InGroup /\ files' = files /\ environment' = environment
      /\ if_level' = if_level /\ if_done' = if_done /\ given' = FALSE
      /\ past_else' = [past_else EXCEPT ![n] = TRUE]
  BY DEF Else, BeforeElse, Silent
<1>2. /\ n = Open /\ n \in Nat /\ n > 0 /\ n <= MaxNesting /\ MaxNesting \in Nat
      /\ if_level \in Nat /\ skip_level \in Nat /\ if_level <= n
      /\ skip_level > 0 => if_level > 0
      /\ n = if_level + (IF skip_level > 0 THEN skip_level - 1 ELSE 0)
  BY <1>1, Numbers, Innermost DEF IInv
<1>3. /\ Open' = n /\ past_else' \in Seq(BOOLEAN) /\ past_else'[n] = TRUE
      /\ \A k \in 1..(n - 1) : past_else'[k] = past_else[k]
  <2>1. past_else \in Seq(BOOLEAN) /\ n = Len(past_else) /\ n \in 1..n
    BY <1>2 DEF IInv, TypeOK, Open
  <2>2. TRUE \in BOOLEAN
    OBVIOUS
  <2>n. n \in 1..Len(past_else)
    BY <2>1
  <2>3. /\ [past_else EXCEPT ![n] = TRUE] \in Seq(BOOLEAN)
        /\ Len([past_else EXCEPT ![n] = TRUE]) = Len(past_else)
        /\ [past_else EXCEPT ![n] = TRUE][n] = TRUE
        /\ \A k \in 1..(n - 1) : [past_else EXCEPT ![n] = TRUE][k] = past_else[k]
    BY <2>1, <2>2, <2>n, Exchanged
  <2> QED BY <1>1, <2>1, <2>3, Zenon DEF Open
<1>4. /\ ~past_else[n] /\ if_done \in [1..MaxNesting -> BOOLEAN]
      /\ if_done[n] \in BOOLEAN
  <2>1. ~past_else[n]
    BY <1>1, <1>2, Zenon DEF BeforeElse
  <2>2. if_done \in [1..MaxNesting -> BOOLEAN] /\ n \in 1..MaxNesting
    BY <1>2 DEF IInv, TypeOK
  <2> QED BY <2>1, <2>2
<1> PICK d \in BOOLEAN : d = Group(n).done
  BY <1>1, <1>2, Innermost DEF IInv
<1>5. d <=> (~(skip_level > 0 /\ n >= if_level) \/ n > if_level \/ if_done[n])
  BY <1>1, <1>2, Innermost DEF IInv
<1> DEFINE r == [live |-> ~d, done |-> TRUE, last |-> TRUE]
<1>6. /\ skip_level' \in 0..MaxNesting
      /\ skip_level' > 0 => if_level' > 0
      /\ n = if_level' + (IF skip_level' > 0 THEN skip_level' - 1 ELSE 0)
      /\ ~d <=> ~(skip_level' > 0 /\ n >= if_level')
      /\ TRUE <=> (~d \/ n > if_level' \/ if_done'[n])
      /\ skip_level' = 0 \/ skip_level' = 1 <=> skip_level = 0 \/ skip_level = 1
  <2>1. CASE skip_level = 1 /\ ~if_done[if_level]
    <3>1. skip_level' = 0 /\ if_level = n
      BY <1>2, <2>1 DEF Else
    <3>2. d = FALSE
      BY <1>2, <1>5, <2>1, <3>1
    <3> QED BY <1>1, <1>2, <2>1, <3>1, <3>2
  <2>2. CASE skip_level = 0
    <3>1. skip_level' = 1 /\ if_level = n
      BY <1>2, <2>2 DEF Else
    <3>2. if_done[n] = TRUE
      <4>1. n \in 1..if_level
        BY <1>2, <3>1
      <4> QED BY <1>4, <2>2, <4>1, Zenon DEF IInv, Marked
    <3>3. d = TRUE
      BY <1>5, <2>2
    <3> QED BY <1>1, <1>2, <2>2, <3>1, <3>2, <3>3
  <2>3. CASE skip_level > 0 /\ ~(skip_level = 1 /\ ~if_done[if_level])
    <3>1. skip_level' = skip_level /\ n >= if_level
      BY <1>2, <2>3 DEF Else
    <3>2. d = TRUE
      BY <1>2, <1>5, <2>3
    <3>3. skip_level \in 0..MaxNesting
      BY DEF IInv, TypeOK
    <3>4. n > if_level \/ if_done'[n]
      BY <1>1, <1>2, <2>3
    <3> QED BY <1>1, <1>2, <2>3, <3>1, <3>2, <3>3, <3>4
  <2>4. skip_level = 0 \/ skip_level > 0
    BY <1>2
  <2> QED BY <2>1, <2>2, <2>3, <2>4, Zenon
<1>7. TypeOK'
  BY <1>1, <1>2, <1>3, <1>6 DEF IInv, TypeOK
<1>8. Marked'
  <2> SUFFICES ASSUME NEW k \in 1..if_level, skip_level' = 0 \/ k < if_level, ~past_else'[k]
               PROVE  if_done[k] = TRUE
    BY <1>1 DEF Marked
  <2>1. k # n
    BY <1>3
  <2>2. k \in 1..(n - 1)
    BY <1>2, <2>1
  <2>3. ~past_else[k]
    BY <1>3, <2>2
  <2>4. skip_level = 0 \/ k < if_level
    BY <1>2, <1>6, <2>2
  <2> QED BY <2>3, <2>4, Zenon DEF IInv, Marked
<1>9. Groups' = Append(SubSeq(Groups, 1, n - 1), r)
  <2>1. ASSUME NEW k \in 1..(n - 1) PROVE Group(k)' = Group(k)
    <3>1. past_else'[k] = past_else[k]
      BY <1>3
    <3>2. (skip_level' > 0 /\ k >= if_level') <=> (skip_level > 0 /\ k >= if_level)
      BY <1>1, <1>2, <1>6
    <3> QED BY <1>1, <3>1, <3>2, SameGroup
  <2>2. Group(n)' = r
    <3>1. (~d) \in BOOLEAN /\ TRUE \in BOOLEAN
      OBVIOUS
    <3> QED BY <1>3, <1>6, <3>1, NewGroup
  <2> QED BY <1>2, <1>3, <2>1, <2>2, Continued DEF IInv, GroupSet
<1>a. /\ C!InGroup /\ C!Top = Group(n) /\ Group(n).last = past_else[n]
      /\ C!Outer = SubSeq(Groups, 1, n - 1)
  BY <1>1, <1>2, Innermost DEF IInv
<1>b. C!Else
  BY <1>1, <1>4, <1>9, <1>a, Zenon DEF C!Else, C!Silent, Groups
<1> QED BY <1>7, <1>8, <1>b DEF IInv

LEMMA EndifStep ==
  ASSUME IInv, Endif
  PROVE  IInv' /\ C!Endif
<1> PICK n : n = Open
  OBVIOUS
<1>1. /\ InGroup /\ files' = files /\ environment' = environment
      /\ if_done' = if_done /\ given' = FALSE
      /\ past_else' = SubSeq(past_else, 1, n - 1)
  BY DEF Endif, Silent
<1>2. /\ n = Open /\ n \in Nat /\ n > 0 /\ n <= MaxNesting /\ MaxNesting \in Nat
      /\ if_level \in Nat /\ skip_level \in Nat /\ if_level <= n
      /\ skip_level > 0 => if_level > 0
      /\ n = if_level + (IF skip_level > 0 THEN skip_level - 1 ELSE 0)
  BY <1>1, Numbers, Innermost DEF IInv
<1>3. /\ Open' = n - 1 /\ past_else' \in Seq(BOOLEAN)
      /\ \A k \in 1..(n - 1) : past_else'[k] = past_else[k]
  <2>1. past_else \in Seq(BOOLEAN) /\ n = Len(past_else) /\ n \in 1..n
    BY <1>2 DEF IInv, TypeOK, Open
  <2>2. /\ SubSeq(past_else, 1, n - 1) \in Seq(BOOLEAN)
        /\ Len(SubSeq(past_else, 1, n - 1)) = n - 1
        /\ \A k \in 1..(n - 1) : SubSeq(past_else, 1, n - 1)[k] = past_else[k]
    BY <2>1, Shortened
  <2> QED BY <1>1, <2>2, Zenon DEF Open
<1>4. /\ skip_level' \in 0..MaxNesting /\ if_level' \in 0..MaxNesting
      /\ skip_level' > 0 => if_level' > 0
      /\ n - 1 = if_level' + (IF skip_level' > 0 THEN skip_level' - 1 ELSE 0)
      /\ \A k \in 1..(n - 1) :
            (skip_level' > 0 /\ k >= if_level') <=> (skip_level > 0 /\ k >= if_level)
      /\ \A k \in 1..(n - 1) :
            skip_level' > 0 /\ k >= if_level' => (k > if_level' <=> k > if_level)
      /\ \A k \in 1..if_level' :
            k < n /\ k \in 1..if_level /\ (skip_level' = 0 \/ k < if_level' => skip_level = 0 \/ k < if_level)
  <2>1. CASE skip_level > 1
    <3>1. skip_level' = skip_level - 1 /\ if_level' = if_level
      BY <1>2, <2>1 DEF Endif
    <3> QED BY <1>2, <2>1, <3>1
  <2>2. CASE skip_level = 1
    <3>1. skip_level' = 0 /\ if_level' = if_level - 1
      BY <1>2, <2>2 DEF Endif
    <3> QED BY <1>2, <2>2, <3>1
  <2>3. CASE skip_level = 0
    <3>1. skip_level' = 0 /\ if_level' = if_level - 1
      BY <1>2, <2>3 DEF Endif
    <3> QED BY <1>2, <2>3, <3>1
  <2>4. skip_level = 0 \/ skip_level = 1 \/ skip_level > 1
    BY <1>2
  <2> QED BY <2>1, <2>2, <2>3, <2>4, Zenon
<1>5. TypeOK'
  <2>1. Open' <= MaxNesting
    BY <1>2, <1>3
  <2> QED BY <1>1, <1>2, <1>3, <1>4, <2>1 DEF IInv, TypeOK
<1>6. Marked'
  <2> SUFFICES ASSUME NEW k \in 1..if_level', skip_level' = 0 \/ k < if_level', ~past_else'[k]
               PROVE  if_done[k] = TRUE
    BY <1>1 DEF Marked
  <2>1. k \in 1..(n - 1)
    BY <1>2, <1>4
  <2>2. ~past_else[k]
    BY <1>3, <2>1
  <2>3. k \in 1..if_level /\ (skip_level = 0 \/ k < if_level)
    BY <1>4
  <2> QED BY <2>2, <2>3, Zenon DEF IInv, Marked
<1>7. Groups' = SubSeq(Groups, 1, n - 1)
  <2>1. ASSUME NEW k \in 1..(n - 1) PROVE Group(k)' = Group(k)
    BY <1>1, <1>3, <1>4, SameGroup
  <2> QED BY <1>2, <1>3, <2>1, Closed DEF IInv
<1>8. C!InGroup /\ C!Outer = SubSeq(Groups, 1, n - 1)
  BY <1>1, <1>2, Innermost DEF IInv
<1>9. C!Endif
  BY <1>1, <1>7, <1>8, Zenon DEF C!Endif, C!Silent, Groups
<1> QED BY <1>5, <1>6, <1>9 DEF IInv

\* Steps that leave the groups as they are.
LEMMA SameGroups ==
  ASSUME IInv, SameLevels, UNCHANGED past_else
  PROVE  Groups' = Groups /\ Marked' /\ Open' = Open
BY DEF SameLevels, Groups, Group, Open, IInv, Marked

LEMMA DefineStep ==
  ASSUME IInv, NEW s \in Symbols, NEW d \in Definitions[s], Define(s, d)
  PROVE  IInv' /\ C!Define(s, d)
<1>1. SameLevels /\ past_else' = past_else /\ files' = files /\ given' = FALSE
  BY DEF Define, SamePlace, Silent
<1>2. Groups' = Groups /\ Marked' /\ Open' = Open /\ (C!Live <=> skip_level = 0)
  BY <1>1, SameGroups, GroupsTyped DEF IInv
<1>3. environment' = IF skip_level = 0 THEN [environment EXCEPT ![s] = d] ELSE environment
  <2>1. CASE skip_level = 0
    <3> DEFINE v == IF d.tokens = <<>> /\ environment[s] # Undefined
                    THEN [args |-> d.args, tokens |-> environment[s].tokens] ELSE d
    <3>1. environment' = [environment EXCEPT ![s] = v]
      BY <2>1 DEF Define
    <3>2. environment[s] \in {Undefined, d}
      BY <2>1 DEF Define
    <3>3. d = [args |-> d.args, tokens |-> d.tokens]
      BY DefinitionsFit
    <3>4. CASE environment[s] # Undefined
      <4>1. environment[s] = d
        BY <3>2, <3>4
      <4>2. v = d
        BY <3>3, <4>1, Zenon
      <4> QED BY <2>1, <3>1, <4>2, Zenon
    <3>5. CASE environment[s] = Undefined
      <4>1. v = d
        BY <3>5
      <4> QED BY <2>1, <3>1, <4>1, Zenon
    <3> QED BY <3>4, <3>5
  <2>2. CASE skip_level # 0
    BY <2>2 DEF Define, IInv, TypeOK
  <2> QED BY <2>1, <2>2
<1>4. TypeOK'
  BY <1>1, <1>2, <1>3 DEF IInv, TypeOK, SameLevels
<1>5. C!Live => environment[s] \in {Undefined, d}
  BY <1>2 DEF Define
<1>6. C!Define(s, d)
  BY <1>1, <1>2, <1>3, <1>5 DEF C!Define, C!Silent, Groups
<1> QED BY <1>2, <1>4, <1>6 DEF IInv

LEMMA UndefStep ==
  ASSUME IInv, NEW s \in Symbols, Undef(s)
  PROVE  IInv' /\ C!Undef(s)
<1>1. SameLevels /\ past_else' = past_else /\ files' = files /\ given' = FALSE
  BY DEF Undef, SamePlace, Silent
<1>2. Groups' = Groups /\ Marked' /\ Open' = Open /\ (C!Live <=> skip_level = 0)
  BY <1>1, SameGroups, GroupsTyped DEF IInv
<1>3. environment' = IF skip_level = 0 THEN [environment EXCEPT ![s] = Undefined] ELSE environment
  BY DEF Undef, IInv, TypeOK
<1>4. TypeOK'
  BY <1>1, <1>2, <1>3 DEF IInv, TypeOK, SameLevels
<1>5. C!Undef(s)
  BY <1>1, <1>2, <1>3 DEF C!Undef, C!Silent, Groups
<1> QED BY <1>2, <1>4, <1>5 DEF IInv

LEMMA IncludeStep ==
  ASSUME IInv, Include
  PROVE  IInv' /\ C!Include
<1>1. /\ SameLevels /\ past_else' = past_else /\ environment' = environment /\ given' = FALSE
      /\ Len(files) < MaxParents
      /\ files' = IF skip_level > 0 THEN files ELSE Append(files, Open)
  BY DEF Include, Silent
<1>2. /\ Groups' = Groups /\ Marked' /\ Open' = Open /\ (C!Live <=> skip_level = 0)
      /\ Open \in 0..MaxNesting /\ Len(Groups) = Open
  BY <1>1, SameGroups, GroupsTyped, Numbers DEF IInv
<1>3. files \in Seq(0..MaxNesting) /\ skip_level \in Nat /\ MaxParents \in Nat
  BY LevelsFit DEF IInv, TypeOK
<1>4. files' \in Seq(0..MaxNesting) /\ Len(files') <= MaxParents
  <2>1. Len(files) \in Nat
    BY <1>3
  <2>2. Append(files, Open) \in Seq(0..MaxNesting) /\ Len(Append(files, Open)) = Len(files) + 1
    BY <1>2, <1>3, AppendProperties
  <2>3. CASE skip_level > 0
    <3>1. files' = files
      BY <1>1, <2>3
    <3> QED BY <1>3, <3>1, <2>1, <1>1
  <2>4. CASE ~(skip_level > 0)
    <3>1. files' = Append(files, Open)
      BY <1>1, <2>4
    <3>2. Len(files) + 1 <= MaxParents
      BY <1>1, <1>3, <2>1
    <3> QED BY <2>2, <3>1, <3>2
  <2> QED BY <2>3, <2>4, Zenon
<1>5. TypeOK'
  BY <1>1, <1>2, <1>4 DEF IInv, TypeOK, SameLevels
<1>6. files' = IF skip_level = 0 THEN Append(files, Open) ELSE files
  BY <1>1, <1>3
<1>7. C!Include
  BY <1>1, <1>2, <1>6 DEF C!Include, C!Silent, Groups
<1> QED BY <1>2, <1>5, <1>7 DEF IInv

LEMMA EndOfFileStep ==
  ASSUME IInv, EndOfFile
  PROVE  IInv' /\ C!EndOfFile
<1>1. /\ SameLevels /\ past_else' = past_else /\ environment' = environment /\ given' = FALSE
      /\ files # <<>> /\ ~InGroup /\ files' = SubSeq(files, 1, Len(files) - 1)
  BY DEF EndOfFile, Silent
<1>2. Groups' = Groups /\ Marked' /\ Open' = Open /\ Len(Groups) = Open
  BY <1>1, SameGroups, GroupsTyped DEF IInv
<1>3. files \in Seq(0..MaxNesting) /\ Len(files) <= MaxParents /\ MaxParents \in Nat
  BY LevelsFit DEF IInv, TypeOK
<1>4. files' \in Seq(0..MaxNesting) /\ Len(files') <= MaxParents
  <2>1. Len(files) \in Nat \ {0}
    BY <1>1, <1>3, EmptySeq
  <2>2. Len(files) - 1 <= Len(files) /\ Len(files) - 1 \in Nat
    BY <2>1
  <2>3. /\ SubSeq(files, 1, Len(files) - 1) \in Seq(0..MaxNesting)
        /\ Len(SubSeq(files, 1, Len(files) - 1)) = Len(files) - 1
    <3> PICK n : n = Len(files)
      OBVIOUS
    <3>1. n \in 1..Len(files)
      BY <2>1
    <3> QED BY <1>3, <3>1, Shortened
  <2> QED BY <1>1, <1>3, <2>1, <2>3
<1>5. TypeOK'
  BY <1>1, <1>2, <1>4 DEF IInv, TypeOK, SameLevels
<1>6. ~C!InGroup
  BY <1>1, <1>2 DEF InGroup, C!InGroup, C!Base, Groups
<1>7. C!EndOfFile
  BY <1>1, <1>2, <1>6 DEF C!EndOfFile, C!Silent, Groups
<1> QED BY <1>2, <1>5, <1>7 DEF IInv

LEMMA TextStep ==
  ASSUME IInv, Text
  PROVE  IInv' /\ C!Text
<1>1. /\ SameLevels /\ past_else' = past_else /\ environment' = environment
      /\ files' = files /\ given' = (skip_level = 0)
  BY DEF Text, SamePlace
<1>2. Groups' = Groups /\ Marked' /\ Open' = Open /\ (C!Live <=> skip_level = 0)
  BY <1>1, SameGroups, GroupsTyped DEF IInv
<1>3. C!Live \in BOOLEAN
  BY DEF C!Live
<1>4. given' \in BOOLEAN /\ given' = C!Live
  BY <1>1, <1>2, <1>3
<1>5. TypeOK'
  BY <1>1, <1>2, <1>4 DEF IInv, TypeOK, SameLevels
<1>6. C!Text
  BY <1>1, <1>2, <1>4, Zenon DEF C!Text, Groups
<1> QED BY <1>2, <1>5, <1>6 DEF IInv

------------------------------------------------------------------------------
LEMMA Start == Init => IInv /\ C!Init
<1> SUFFICES ASSUME Init PROVE IInv /\ C!Init
  OBVIOUS
<1>1. TypeOK
  <2>1. past_else \in Seq(BOOLEAN) /\ files \in Seq(0..MaxNesting) /\ Open = 0 /\ Len(files) = 0
    BY EmptySeq DEF Init, Open
  <2>2. MaxNesting \in Nat /\ MaxParents \in Nat
    BY LevelsFit
  <2>3. /\ DOMAIN environment = Symbols
        /\ \A s \in Symbols : environment[s] \in Definitions[s] \cup {Undefined}
    BY DEF Init
  <2>4. /\ if_done \in [1..MaxNesting -> BOOLEAN] /\ given \in BOOLEAN
        /\ skip_level = 0 /\ if_level = 0
    BY DEF Init
  <2>5. /\ Open <= MaxNesting /\ Len(files) <= MaxParents
        /\ skip_level \in 0..MaxNesting /\ if_level \in 0..MaxNesting
        /\ skip_level > 0 => if_level > 0
        /\ Open = if_level + (IF skip_level > 0 THEN skip_level - 1 ELSE 0)
    BY <2>1, <2>2, <2>4
  <2> QED BY <2>1, <2>3, <2>4, <2>5, Zenon DEF TypeOK
<1>2. Marked
  BY DEF Init, Marked
<1>3. C!Init
  BY DEF Init, C!Init, Open
<1> QED BY <1>1, <1>2, <1>3 DEF IInv

LEMMA Unchanged ==
  ASSUME IInv, UNCHANGED vars
  PROVE  IInv' /\ UNCHANGED C!vars
<1>1. TypeOK' /\ Marked'
  BY DEF vars, IInv, TypeOK, Marked, Open
<1>2. UNCHANGED C!vars
  BY DEF vars, C!vars, Open, Group
<1> QED BY <1>1, <1>2 DEF IInv

\* Every directive, and every line of text, does what C says it does, and
\* leaves the levels and flags right.
LEMMA Step ==
  ASSUME IInv, [Next]_vars
  PROVE  IInv' /\ [C!Next]_C!vars
<1>1. CASE \E c \in Conditions : If(c) \/ Elif(c)
  BY <1>1, IfStep, ElifStep DEF C!Next
<1>2. CASE Else
  BY <1>2, ElseStep DEF C!Next
<1>3. CASE Endif
  BY <1>3, EndifStep DEF C!Next
<1>4. CASE Include
  BY <1>4, IncludeStep DEF C!Next
<1>5. CASE EndOfFile
  BY <1>5, EndOfFileStep DEF C!Next
<1>6. CASE Text
  BY <1>6, TextStep DEF C!Next
<1>7. CASE \E s \in Symbols : Undef(s) \/ \E d \in Definitions[s] : Define(s, d)
  BY <1>7, UndefStep, DefineStep DEF C!Next
<1>8. CASE UNCHANGED vars
  BY <1>8, Unchanged
<1> QED BY <1>1, <1>2, <1>3, <1>4, <1>5, <1>6, <1>7, <1>8, Zenon DEF Next

\* The levels count the open groups, and never pass the sizes of the arrays.
THEOREM TypeCorrect == Spec => []TypeOK
<1>1. Init => IInv
  BY Start
<1>2. IInv /\ [Next]_vars => IInv'
  BY Step
<1>3. IInv => TypeOK
  BY DEF IInv
<1> QED BY <1>1, <1>2, <1>3, PTL DEF Spec

\* The lines given to the parser, the definitions and the included files are
\* C's, for every text, however deep its groups are nested.
THEOREM Refinement == Spec => ImplementsC
<1>1. Init => IInv /\ C!Init
  BY Start
<1>2. IInv /\ [Next]_vars => IInv' /\ [C!Next]_C!vars
  BY Step
<1> QED BY <1>1, <1>2, PTL DEF Spec, ImplementsC, C!Spec
==============================================================================
