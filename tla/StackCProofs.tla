---------------------------- MODULE StackCProofs -----------------------------
(***************************************************************************)
(* For every program and every size of the tables:                         *)
(*                                                                         *)
(* 1. The locals in scope never overlap.  FramesDisjoint alone is not      *)
(*    inductive, for the end of a block brings back the names and the      *)
(*    position that were saved when it was opened: BlocksFit says what is  *)
(*    saved fits.                                                          *)
(* 2. When a function is closed, each label its code jumps to is placed in *)
(*    it, and none twice.  In between, every jump goes to a label that is  *)
(*    placed already or that some open block still owes.                   *)
(***************************************************************************)
EXTENDS StackC, TLAPS

IdentSet == [type : {"F", "C", "G", "L", "S"}, name : Text,
             pos : Nat, size : Nat, value : Nat]
BlockSet == [type : {" ", "L", "W", "I", "E", "A", "O"}, id : Nat, nr : Nat, pos : Nat]

\* What block k saved: names that are still in scope, at least those of the
\* blocks around it, and the position their locals end at.
Saved(k) ==
  /\ nesting[k].nr <= Len(idents) /\ 1 <= nesting[k].pos
  /\ \A j \in 1..k : nesting[j].nr <= nesting[k].nr
  /\ \A i \in 1..nesting[k].nr : IsLocal(i) => EndsAt(i) <= nesting[k].pos
BlocksFit == \A k \in 1..Depth : Saved(k)

\* No local is older than the body of its function.
LocalsAreInside ==
  /\ Depth = 0 => \A i \in 1..Len(idents) : ~IsLocal(i)
  /\ Depth > 0 => 1 <= pos /\ \A i \in 1..nesting[1].nr : ~IsLocal(i)

Typed == idents \in Seq(IdentSet) /\ nesting \in Seq(BlockSet) /\ pos \in Nat
Frames == Typed /\ FramesDisjoint /\ BlocksFit /\ LocalsAreInside

LEMMA OneMore ==
  ASSUME NEW S, NEW s \in Seq(S), NEW e \in S
  PROVE  /\ Append(s, e) \in Seq(S) /\ Len(s) \in Nat /\ Len(Append(s, e)) = Len(s) + 1
         /\ \A i \in 1..(Len(s) + 1) :
              Append(s, e)[i] = IF i = Len(s) + 1 THEN e ELSE s[i]
         /\ \A i \in 1..(Len(s) + 1) : i = Len(s) + 1 \/ i \in 1..Len(s)
OBVIOUS

LEMMA OnlyOne ==
  ASSUME NEW S, NEW e \in S
  PROVE  <<e>> \in Seq(S) /\ Len(<<e>>) = 1 /\ <<e>>[1] = e /\ \A i \in 1..1 : i = 1
OBVIOUS

LEMMA Fields ==
  ASSUME Typed
  PROVE  /\ Depth \in Nat /\ Len(idents) \in Nat /\ Depth = Len(nesting)
         /\ \A i \in 1..Len(idents) : /\ idents[i] \in IdentSet
                                      /\ idents[i].pos \in Nat /\ idents[i].size \in Nat
                                      /\ EndsAt(i) \in Nat
         /\ \A k \in 1..Depth : /\ nesting[k] \in BlockSet
                                /\ nesting[k].nr \in Nat /\ nesting[k].pos \in Nat
<1>1. Depth \in Nat /\ Len(idents) \in Nat /\ Depth = Len(nesting)
  BY DEF Typed, Depth
<1>2. \A i \in 1..Len(idents) : idents[i] \in IdentSet
  BY DEF Typed
<1>3. \A d \in IdentSet : d.pos \in Nat /\ d.size \in Nat /\ d.pos + d.size \in Nat
  BY DEF IdentSet
<1>4. \A k \in 1..Depth : nesting[k] \in BlockSet
  BY DEF Typed, Depth
<1>5. \A b \in BlockSet : b.nr \in Nat /\ b.pos \in Nat
  BY DEF BlockSet
<1> QED BY <1>1, <1>2, <1>3, <1>4, <1>5 DEF EndsAt

LEMMA KeepFrames ==
  ASSUME Frames, UNCHANGED <<idents, nesting, pos>>
  PROVE  Frames'
BY DEF Frames, Typed, FramesDisjoint, BlocksFit, Saved, LocalsAreInside, IsLocal, EndsAt, Depth

\* A new name: not a local, or a local in the next words of the frame.
LEMMA GrowFrames ==
  ASSUME Frames, NEW d \in IdentSet,
         \/ d.type # "L" /\ pos' = pos
         \/ Depth > 0 /\ d.type = "L" /\ d.pos = pos /\ pos' = pos + d.size,
         idents' = Append(idents, d), UNCHANGED nesting
  PROVE  Frames'
<1>0. PICK n \in Nat : n = Len(idents)
  BY DEF Frames, Typed
<1>1. /\ idents' \in Seq(IdentSet) /\ Len(idents') = n + 1 /\ n \in Nat
      /\ \A i \in 1..n : idents'[i] = idents[i]
      /\ idents'[n + 1] = d
  BY <1>0 DEF Frames, Typed
<1>2. d.pos \in Nat /\ d.size \in Nat
  BY DEF IdentSet
<1>3. pos \in Nat /\ pos' \in Nat /\ pos <= pos'
  BY <1>2 DEF Frames, Typed
<1>4. Typed'
  BY <1>1, <1>3 DEF Frames, Typed
<1>5. /\ \A i \in 1..n : (IsLocal(i)' <=> IsLocal(i)) /\ EndsAt(i)' = EndsAt(i)
      /\ IsLocal(n + 1)' <=> d.type = "L"
      /\ EndsAt(n + 1)' = d.pos + d.size
  <2>1. n + 1 \in 1..(n + 1) /\ \A i \in 1..n : i \in 1..(n + 1)
    BY <1>1
  <2>2. \A i \in 1..n : (IsLocal(i)' <=> IsLocal(i)) /\ EndsAt(i)' = EndsAt(i)
    BY <2>1, <1>0, <1>1 DEF IsLocal, EndsAt
  <2>3. IsLocal(n + 1)' <=> d.type = "L"
    BY <2>1, <1>0, <1>1 DEF IsLocal
  <2>4. EndsAt(n + 1)' = d.pos + d.size
    BY <1>1 DEF EndsAt
  <2> QED BY <2>2, <2>3, <2>4
<1>6. BlocksFit'
  <2> SUFFICES ASSUME NEW k \in 1..Depth PROVE Saved(k)'
    BY DEF BlocksFit, Depth
  <2>1. Saved(k) /\ nesting[k].nr \in Nat /\ nesting[k].nr <= n /\ nesting' = nesting
    BY <1>0, Fields DEF Frames, BlocksFit, Saved
  <2>2. \A i \in 1..nesting[k].nr : IsLocal(i)' => EndsAt(i)' <= nesting[k].pos
    BY <1>1, <1>5, <2>1 DEF Saved
  <2> QED BY <1>1, <2>1, <2>2 DEF Saved
<1>7. LocalsAreInside'
  <2>1. CASE Depth = 0
    <3>1. d.type # "L" /\ Depth' = 0 /\ \A i \in 1..n : ~IsLocal(i)
      BY <2>1, <1>0 DEF Frames, LocalsAreInside, Depth
    <3>2. \A i \in 1..(n + 1) : i \in 1..n \/ i = n + 1
      BY <1>1
    <3> QED BY <3>1, <3>2, <1>1, <1>5 DEF LocalsAreInside
  <2>2. CASE Depth > 0
    <3>1. nesting[1].nr \in Nat /\ nesting[1].nr <= n /\ Depth' = Depth
      BY <2>2, <1>0, Fields DEF Frames, BlocksFit, Saved, Depth
    <3> QED BY <2>2, <3>1, <1>1, <1>3, <1>5 DEF Frames, LocalsAreInside
  <2> QED BY <2>1, <2>2, Fields DEF Frames
<1>8. FramesDisjoint'
  <2> SUFFICES ASSUME NEW i \in 1..(n + 1), IsLocal(i)'
               PROVE  /\ 1 <= idents'[i].pos /\ EndsAt(i)' <= pos'
                      /\ \A j \in 1..(i - 1) : IsLocal(j)' => EndsAt(j)' <= idents'[i].pos
    BY <1>1 DEF FramesDisjoint
  <2>1. CASE i \in 1..n
    <3>1. \A j \in 1..i : j \in 1..n
      BY <2>1, <1>1
    <3>2. IsLocal(i) /\ EndsAt(i) \in Nat
      BY <2>1, <1>0, <1>5, Fields DEF Frames
    <3>3. /\ 1 <= idents[i].pos /\ EndsAt(i) <= pos
          /\ \A j \in 1..(i - 1) : IsLocal(j) => EndsAt(j) <= idents[i].pos
      BY <2>1, <3>2, <1>0 DEF Frames, FramesDisjoint
    <3> QED BY <2>1, <3>1, <3>2, <3>3, <1>1, <1>3, <1>5
  <2>2. CASE i = n + 1
    <3>1. d.type = "L" /\ Depth > 0 /\ d.pos = pos /\ pos' = pos + d.size
      BY <2>2, <1>5
    <3>2. 1 <= pos
      BY <3>1 DEF Frames, LocalsAreInside
    <3>3. \A j \in 1..n : IsLocal(j) => EndsAt(j) <= pos
      BY <1>0 DEF Frames, FramesDisjoint
    <3>4. \A j \in 1..(i - 1) : j \in 1..n
      BY <2>2, <1>1
    <3>5. 1 <= idents'[i].pos /\ EndsAt(i)' <= pos'
      BY <2>2, <3>1, <3>2, <1>1, <1>2, <1>3, <1>5
    <3>6. \A j \in 1..(i - 1) : IsLocal(j)' => EndsAt(j)' <= idents'[i].pos
      BY <2>2, <3>1, <3>3, <3>4, <1>1, <1>5
    <3> QED BY <3>5, <3>6
  <2> QED BY <2>1, <2>2, <1>1
<1> QED BY <1>4, <1>6, <1>7, <1>8 DEF Frames

\* A block is opened: it saves the names and the position of now.
LEMMA OpenFrames ==
  ASSUME Frames, Depth > 0, NEW b \in BlockSet, b.nr = Len(idents), b.pos = pos,
         nesting' = Append(nesting, b), UNCHANGED <<idents, pos>>
  PROVE  Frames'
<1>1. /\ nesting' \in Seq(BlockSet) /\ Depth' = Depth + 1 /\ Depth \in Nat
      /\ \A k \in 1..Depth : nesting'[k] = nesting[k]
      /\ nesting'[Depth + 1] = b
  BY DEF Frames, Typed, Depth
<1>2. \A i : (IsLocal(i)' <=> IsLocal(i)) /\ EndsAt(i)' = EndsAt(i)
  BY DEF IsLocal, EndsAt
<1>3. FramesDisjoint'
  BY DEF Frames, FramesDisjoint, IsLocal, EndsAt
<1>4. BlocksFit'
  <2> SUFFICES ASSUME NEW k \in 1..(Depth + 1) PROVE Saved(k)'
    BY <1>1 DEF BlocksFit
  <2>1. CASE k \in 1..Depth
    <3>1. \A j \in 1..k : j \in 1..Depth
      BY <2>1, <1>1
    <3>2. \A j \in 1..k : nesting'[j] = nesting[j]
      BY <3>1, <1>1
    <3> QED BY <3>2, <2>1, <3>1, <1>1, <1>2 DEF Frames, BlocksFit, Saved
  <2>2. CASE k = Depth + 1
    <3>1. nesting'[k].nr = Len(idents) /\ nesting'[k].pos = pos
      BY <2>2, <1>1
    <3>2. \A j \in 1..k : nesting'[j].nr <= Len(idents)
      BY <2>2, <1>1, Fields DEF Frames, BlocksFit, Saved
    <3>3. 1 <= pos /\ \A i \in 1..Len(idents) : IsLocal(i) => EndsAt(i) <= pos
      BY DEF Frames, FramesDisjoint, LocalsAreInside
    <3> QED BY <3>1, <3>2, <3>3, <1>2, Fields DEF Saved, Frames
  <2> QED BY <2>1, <2>2, <1>1
<1>5. LocalsAreInside'
  BY <1>1, <1>2 DEF Frames, LocalsAreInside
<1> QED BY <1>1, <1>3, <1>4, <1>5 DEF Frames, Typed

\* A block is closed, or the block of an if becomes the block of its else.
LEMMA UnwindFrames ==
  ASSUME Frames, Depth > 0, Unwind, NEW d \in {Depth - 1, Depth},
         nesting' \in Seq(BlockSet), Len(nesting') = d,
         \A k \in 1..d : nesting'[k].nr = nesting[k].nr /\ nesting'[k].pos = nesting[k].pos
  PROVE  Frames'
<1> DEFINE b == nesting[Depth]
<1>1. Depth \in Nat /\ Depth \in 1..Depth /\ d \in Nat /\ Depth' = d
  BY Fields DEF Frames, Depth
<1>2. b.nr \in Nat /\ b.nr <= Len(idents) /\ b.pos \in Nat /\ 1 <= b.pos
  BY <1>1, Fields DEF Frames, BlocksFit, Saved
<1>3. /\ idents' \in Seq(IdentSet) /\ Len(idents') = b.nr /\ pos' = b.pos
      /\ \A i \in 1..b.nr : idents'[i] = idents[i]
  BY <1>2 DEF Frames, Typed, Unwind, Innermost
<1>4. \A i \in 1..b.nr : (IsLocal(i)' <=> IsLocal(i)) /\ EndsAt(i)' = EndsAt(i)
  BY <1>2, <1>3 DEF IsLocal, EndsAt
<1>5. Saved(Depth)
  BY <1>1 DEF Frames, BlocksFit
<1>6. FramesDisjoint'
  <2> SUFFICES ASSUME NEW i \in 1..b.nr, IsLocal(i)
               PROVE  /\ 1 <= idents[i].pos /\ EndsAt(i) <= b.pos
                      /\ \A j \in 1..(i - 1) : IsLocal(j) => EndsAt(j) <= idents[i].pos
    <3>1. \A i \in 1..b.nr : \A j \in 1..(i - 1) : j \in 1..b.nr
      BY <1>2
    <3> QED BY <3>1, <1>3, <1>4 DEF FramesDisjoint
  <2>1. i \in 1..Len(idents)
    BY <1>2
  <2> QED BY <2>1, <1>5 DEF Frames, FramesDisjoint, Saved
<1>7. BlocksFit'
  <2> SUFFICES ASSUME NEW k \in 1..d PROVE Saved(k)'
    BY <1>1 DEF BlocksFit
  <2>1. k \in 1..Depth /\ Saved(k) /\ \A j \in 1..k : j \in 1..d
    BY <1>1 DEF Frames, BlocksFit
  <2>2. nesting[k].nr \in Nat /\ nesting[k].nr <= b.nr
    BY <2>1, <1>5, Fields DEF Frames, Saved
  <2>3. \A i \in 1..nesting[k].nr : IsLocal(i)' => EndsAt(i)' <= nesting[k].pos
    BY <2>1, <2>2, <1>2, <1>4 DEF Saved
  <2> QED BY <2>1, <2>2, <2>3, <1>3 DEF Saved
<1>8. LocalsAreInside'
  <2>1. nesting[1].nr \in Nat /\ nesting[1].nr <= b.nr /\ \A i \in 1..nesting[1].nr : ~IsLocal(i)
    BY <1>1, <1>5, Fields DEF Frames, LocalsAreInside, Saved
  <2>2. CASE d = 0
    <3>1. b = nesting[1]
      BY <2>2, <1>1
    <3> QED BY <2>1, <2>2, <3>1, <1>1, <1>3, <1>4 DEF LocalsAreInside
  <2>3. CASE d > 0
    BY <2>1, <2>3, <1>1, <1>2, <1>3, <1>4 DEF LocalsAreInside
  <2> QED BY <2>2, <2>3, <1>1
<1> QED BY <1>2, <1>3, <1>6, <1>7, <1>8 DEF Frames, Typed

\* The body of a function is opened: only what is not a local is in scope.
LEMMA StartFrames ==
  ASSUME Frames, Depth = 0, NEW f \in Names, AddFunction(f), pos' = 1,
         NEW b \in BlockSet, b.nr = Len(idents'), b.pos = 1, nesting' = <<b>>
  PROVE  Frames'
<1> DEFINE d == Ident("F", f, 0, 0, 0)
<1>1. idents \in Seq(IdentSet) /\ \A i \in 1..Len(idents) : idents[i].type # "L"
  BY DEF Frames, Typed, LocalsAreInside, IsLocal
<1>2. d \in IdentSet /\ d.type # "L"
  BY DEF Ident, IdentSet, Text
<1>3. idents' = idents \/ idents' = Append(idents, d)
  BY DEF AddFunction
<1> HIDE DEF d
<1>4. /\ idents' \in Seq(IdentSet) /\ Len(idents') \in Nat
      /\ \A i \in 1..Len(idents') : idents'[i].type # "L"
  <2>1. CASE idents' = idents
    BY <2>1, <1>1
  <2>2. CASE idents' = Append(idents, d)
    BY <2>2, <1>1, <1>2, OneMore
  <2> QED BY <2>1, <2>2, <1>3
<1>5. \A i \in 1..Len(idents') : ~IsLocal(i)'
  BY <1>4 DEF IsLocal
<1>6. /\ nesting' \in Seq(BlockSet) /\ Depth' = 1 /\ nesting'[1] = b
      /\ \A k \in 1..1 : k = 1
  BY OnlyOne DEF Depth
<1>7. FramesDisjoint'
  BY <1>5 DEF FramesDisjoint
<1>8. Saved(1)'
  BY <1>4, <1>5, <1>6 DEF Saved
<1>9. LocalsAreInside'
  BY <1>5, <1>6 DEF LocalsAreInside
<1> QED BY <1>4, <1>6, <1>7, <1>8, <1>9 DEF Frames, Typed, BlocksFit

------------------------------------------------------------------------------
(***************************************************************************)
(* A step does one of six things to the names, the blocks and the frame.   *)
(***************************************************************************)
StaticSet == [name : Text, size : Nat]

Rests == UNCHANGED <<idents, statics, nesting, pos, refs>>
Refers == /\ UNCHANGED <<idents, statics, nesting, pos>>
          /\ \E i \in 1..Len(idents) : refs' = refs \cup Label(idents[i])
Declares(d) ==
  /\ idents' = Append(idents, d) /\ UNCHANGED <<nesting, refs>>
  /\ \/ d.type # "L" /\ pos' = pos
     \/ Depth > 0 /\ d.type = "L" /\ d.pos = pos /\ pos' = pos + d.size
  /\ d.type = "G" => Depth = 0
  /\ \/ d.type # "S" /\ UNCHANGED statics
     \/ /\ d.type = "S" /\ d.value = Len(statics)
        /\ \E size \in Nat : statics' = Append(statics, [name |-> d.name, size |-> size])
Starts(f, b) ==
  /\ Depth = 0 /\ AddFunction(f) /\ pos' = 1 /\ UNCHANGED <<statics, refs>>
  /\ b.nr = Len(idents') /\ b.pos = 1 /\ nesting' = <<b>>
Opens(b) ==
  /\ Depth > 0 /\ b.nr = Len(idents) /\ b.pos = pos /\ nesting' = Append(nesting, b)
  /\ UNCHANGED <<idents, statics, pos, refs>>
Unwinds(d) ==
  /\ Depth > 0 /\ Unwind /\ nesting' \in Seq(BlockSet) /\ Len(nesting') = d
  /\ \A k \in 1..d : nesting'[k].nr = nesting[k].nr /\ nesting'[k].pos = nesting[k].pos
  /\ UNCHANGED <<statics, refs>>

Kinds == \/ Rests \/ Refers
         \/ \E d \in IdentSet : Declares(d)
         \/ \E f \in Names, b \in BlockSet : Starts(f, b)
         \/ \E b \in BlockSet : Opens(b)
         \/ \E d \in {Depth - 1, Depth} : Unwinds(d)

LEMMA Types ==
  ASSUME TypeOK
  PROVE  /\ Typed /\ statics \in Seq(StaticSet) /\ id \in Nat
         /\ Len(statics) \in Nat /\ Len(idents) \in Nat
<1>1. Typed /\ statics \in Seq(StaticSet) /\ id \in Nat
  BY DEF TypeOK, Typed, StaticSet, IdentSet, BlockSet
<1> QED BY <1>1 DEF Typed

LEMMA Blocks ==
  ASSUME TypeOK, NEW type \in {" ", "L", "W", "I", "E", "A", "O"}
  PROVE  Block(type) \in BlockSet /\ Block(type).nr = Len(idents) /\ Block(type).pos = pos
<1>1. id \in Nat /\ pos \in Nat /\ Len(idents) \in Nat
  BY Types DEF Typed
<1> QED BY <1>1 DEF Block, BlockSet

LEMMA Opening ==
  ASSUME TypeOK, NEW type \in {"L", "W", "I", "A", "O"}, NEW labels, NEW targets,
         Open(type, labels, targets)
  PROVE  Kinds
<1>1. CASE Fail
  BY <1>1 DEF Fail, Kinds, Rests
<1>2. CASE ~Fail
  <2>1. nesting' = Append(nesting, Block(type)) /\ UNCHANGED <<idents, statics, pos, refs>>
    BY <1>2 DEF Open
  <2>2. Depth > 0
    BY Types DEF Typed, Open, InFunction, Depth
  <2> QED BY <2>1, <2>2, Blocks DEF Kinds, Opens
<1> QED BY <1>1, <1>2

LEMMA StepKinds ==
  ASSUME TypeOK, [Next]_vars
  PROVE  Kinds
<1>0. /\ Fail => Rests
      /\ Depth = Len(nesting) /\ Depth \in Nat /\ (nesting # <<>> => Depth > 0)
      /\ (nesting = <<>> => Depth = 0) /\ pos \in Nat /\ id \in Nat
      /\ nesting \in Seq(BlockSet) /\ \A k \in 1..Depth : nesting[k] \in BlockSet
  <2>1. nesting \in Seq(BlockSet) /\ pos \in Nat /\ id \in Nat
    BY Types DEF Typed
  <2>2. /\ Depth = Len(nesting) /\ Depth \in Nat /\ (nesting # <<>> => Depth > 0)
        /\ (nesting = <<>> => Depth = 0)
        /\ \A k \in 1..Depth : nesting[k] \in BlockSet
    BY <2>1 DEF Depth
  <2> QED BY <2>1, <2>2 DEF Fail, Rests
<1>1. ASSUME NEW x \in Names, Forward(x) PROVE Kinds
  <2> DEFINE d == Ident("F", x, 0, 0, 0)
  <2>1. d \in IdentSet /\ d.type = "F"
    BY DEF Ident, IdentSet, Text
  <2>2. Rests \/ (idents' = Append(idents, d) /\ UNCHANGED <<statics, nesting, pos, refs>>)
    BY <1>0, <1>1 DEF Forward, AddFunction, Rests
  <2> HIDE DEF d
  <2> QED BY <2>1, <2>2 DEF Kinds, Declares
<1>2. ASSUME NEW x \in Names, Function(x) PROVE Kinds
  <2>1. CASE Fail
    BY <2>1, <1>0 DEF Kinds
  <2>2. CASE ~Fail
    <3> DEFINE b == [type |-> " ", id |-> 0, nr |-> Len(idents'), pos |-> 1]
    <3>1. /\ Depth = 0 /\ AddFunction(x) /\ pos' = 1 /\ UNCHANGED <<statics, refs>>
          /\ nesting' = <<b>>
      BY <1>0, <1>2, <2>2 DEF Function, AtTop
    <3>2. Len(idents') \in Nat
      <4>1. idents' = idents \/ idents' = Append(idents, Ident("F", x, 0, 0, 0))
        BY <3>1 DEF AddFunction
      <4>2. Ident("F", x, 0, 0, 0) \in IdentSet /\ idents \in Seq(IdentSet)
        BY Types DEF Typed, Ident, IdentSet, Text
      <4> QED BY <4>1, <4>2, OneMore
    <3>3. b \in BlockSet /\ b.nr = Len(idents') /\ b.pos = 1
      BY <3>2 DEF BlockSet
    <3> HIDE DEF b
    <3>4. Starts(x, b)
      BY <3>1, <3>3 DEF Starts
    <3> QED BY <3>3, <3>4 DEF Kinds
  <2> QED BY <2>1, <2>2
<1>3. ASSUME NEW x \in Names, Constant(x) PROVE Kinds
  <2> DEFINE d == Ident("C", x, 0, 0, 0)
  <2>1. d \in IdentSet /\ d.type = "C"
    BY DEF Ident, IdentSet, Text
  <2>2. Rests \/ (idents' = Append(idents, d) /\ UNCHANGED <<statics, nesting, pos, refs>>)
    BY <1>0, <1>3 DEF Constant, Rests
  <2> HIDE DEF d
  <2> QED BY <2>1, <2>2 DEF Kinds, Declares
<1>4. ASSUME NEW x \in Names, NEW size \in Sizes, Variable(x, size) PROVE Kinds
  <2> DEFINE g == Ident("G", x, 0, size, 0)
             l == Ident("L", x, pos, size, 0)
  <2>1. /\ g \in IdentSet /\ g.type = "G"
        /\ l \in IdentSet /\ l.type = "L" /\ l.pos = pos /\ l.size = size
    BY <1>0, SizesAreNat DEF Ident, IdentSet, Text
  <2>2. \/ Rests
        \/ /\ UNCHANGED <<statics, nesting, refs>>
           /\ \/ Depth = 0 /\ idents' = Append(idents, g) /\ pos' = pos
              \/ Depth > 0 /\ idents' = Append(idents, l) /\ pos' = pos + size
    BY <1>0, <1>4 DEF Variable
  <2> HIDE DEF g, l
  <2> QED BY <2>1, <2>2 DEF Kinds, Declares
<1>5. ASSUME NEW x \in Names, NEW size \in Sizes, Static(x, size) PROVE Kinds
  <2> DEFINE d == Ident("S", x, 0, size, Len(statics))
  <2>1. size \in Nat /\ d \in IdentSet /\ d.type = "S" /\ d.name = x /\ d.value = Len(statics)
    BY SizesAreNat, Types DEF Ident, IdentSet, Text
  <2>2. \/ Rests
        \/ /\ idents' = Append(idents, d) /\ UNCHANGED <<nesting, pos, refs>>
           /\ statics' = Append(statics, [name |-> x, size |-> size])
    BY <1>0, <1>5 DEF Static
  <2> HIDE DEF d
  <2> QED BY <2>1, <2>2 DEF Kinds, Declares
<1>6. ASSUME NEW x \in Names, Name(x) PROVE Kinds
  BY <1>6 DEF Name, Kinds, Rests, Refers
<1>7. ASSUME NEW x \in Names, Arrow(x) PROVE Kinds
  BY <1>7 DEF Arrow, Kinds, Rests
<1>8. ASSUME Loop \/ Switch \/ If \/ And \/ Or PROVE Kinds
  BY <1>8, Opening DEF Loop, Switch, If, And, Or
<1>9. CASE PlainBlock
  BY <1>9, <1>0, Blocks DEF PlainBlock, InFunction, Kinds, Opens
<1>10. CASE Close
  <2>1. /\ Depth > 0 /\ Depth - 1 \in Nat
        /\ nesting' \in Seq(BlockSet) /\ Len(nesting') = Depth - 1
        /\ \A k \in 1..(Depth - 1) : nesting'[k] = nesting[k]
    BY <1>0, <1>10 DEF Close, InFunction
  <2> QED BY <2>1, <1>10 DEF Close, Kinds, Unwinds
<1>11. CASE CloseElse
  <2>1. Depth > 0 /\ Depth \in 1..Depth
    BY <1>0, <1>11 DEF CloseElse, InFunction
  <2>2. /\ nesting' \in Seq(BlockSet) /\ Len(nesting') = Depth
        /\ \A k \in 1..Depth : nesting'[k].nr = nesting[k].nr /\ nesting'[k].pos = nesting[k].pos
    <3> DEFINE b == nesting[Depth]
               e == [nesting[Depth] EXCEPT !.type = "E"]
    <3>1. b \in BlockSet /\ e \in BlockSet /\ e.nr = b.nr /\ e.pos = b.pos
      BY <1>0, <2>1 DEF BlockSet
    <3>2. nesting' = [nesting EXCEPT ![Depth] = e]
      BY <1>11 DEF CloseElse
    <3> HIDE DEF e
    <3>3. /\ nesting' \in Seq(BlockSet) /\ Len(nesting') = Depth
          /\ \A k \in 1..Depth : nesting'[k] = IF k = Depth THEN e ELSE nesting[k]
      BY <3>1, <3>2, <2>1, <1>0
    <3> QED BY <3>1, <3>3
  <2> QED BY <2>1, <2>2, <1>11 DEF CloseElse, Kinds, Unwinds
<1>12. CASE Break \/ Continue
  BY <1>12, <1>0 DEF Break, Continue, Exit, Kinds, Rests
<1>13. CASE TooManyClosed \/ EndOfFile \/ UNCHANGED vars
  BY <1>13, <1>0 DEF TooManyClosed, EndOfFile, Kinds, Rests, vars
<1> QED BY <1>1, <1>2, <1>3, <1>4, <1>5, <1>6, <1>7, <1>8, <1>9, <1>10, <1>11, <1>12, <1>13
     DEF Next

------------------------------------------------------------------------------
LEMMA FramesStep ==
  ASSUME Frames, Kinds
  PROVE  Frames'
<1>1. CASE Rests \/ Refers
  BY <1>1, KeepFrames DEF Rests, Refers
<1>2. ASSUME NEW d \in IdentSet, Declares(d) PROVE Frames'
  BY <1>2, GrowFrames DEF Declares
<1>3. ASSUME NEW f \in Names, NEW b \in BlockSet, Starts(f, b) PROVE Frames'
  BY <1>3, StartFrames DEF Starts
<1>4. ASSUME NEW b \in BlockSet, Opens(b) PROVE Frames'
  BY <1>4, OpenFrames DEF Opens
<1>5. ASSUME NEW d \in {Depth - 1, Depth}, Unwinds(d) PROVE Frames'
  BY <1>5, UnwindFrames DEF Unwinds
<1> QED BY <1>1, <1>2, <1>3, <1>4, <1>5 DEF Kinds

LEMMA TypeStep ==
  ASSUME TypeOK, Frames', [Next]_vars
  PROVE  TypeOK'
<1>1. idents' \in Seq(IdentSet) /\ nesting' \in Seq(BlockSet) /\ pos' \in Nat
  BY DEF Frames, Typed
<1>2. statics' \in Seq(StaticSet)
  <2>1. Kinds /\ statics \in Seq(StaticSet)
    BY StepKinds, Types
  <2>2. ASSUME NEW d \in IdentSet, Declares(d) PROVE statics' \in Seq(StaticSet)
    <3>1. d.name \in Text
      BY DEF IdentSet
    <3>2. \A size \in Nat : [name |-> d.name, size |-> size] \in StaticSet
      BY <3>1 DEF StaticSet
    <3>3. CASE UNCHANGED statics
      BY <3>3, <2>1
    <3>4. ASSUME NEW size \in Nat,
                 statics' = Append(statics, [name |-> d.name, size |-> size])
          PROVE  statics' \in Seq(StaticSet)
      BY <3>4, <3>2, <2>1, OneMore
    <3> QED BY <2>2, <3>3, <3>4 DEF Declares
  <2> QED BY <2>1, <2>2 DEF Kinds, Rests, Refers, Starts, Opens, Unwinds
<1> DEFINE Plain == /\ id \in Nat /\ error \in BOOLEAN /\ twice \in BOOLEAN
                    /\ status \in {"reading", "failed", "done"}
<1>3. Plain'
  <2>1. Plain
    BY DEF TypeOK
  <2> USE <2>1 DEF Fail, Quiet
  <2>2. ASSUME NEW x \in Names, Forward(x) \/ Function(x) \/ Constant(x) PROVE Plain'
    <3>1. Forward(x) \/ Constant(x) => Plain'
      BY DEF Forward, Constant
    <3>2. Function(x) => /\ id' = id \/ id' = 1
                         /\ error' = error
                         /\ twice' = twice \/ twice' = FALSE
                         /\ status' = status \/ status' = "failed"
      BY DEF Function
    <3>3. CASE Function(x)
      <4>1. id' \in Nat
        BY <3>2, <3>3
      <4>2. error' \in BOOLEAN /\ twice' \in BOOLEAN
        BY <3>2, <3>3, Zenon
      <4>3. status' \in {"reading", "failed", "done"}
        BY <3>2, <3>3, Zenon
      <4> QED BY <4>1, <4>2, <4>3
    <3> QED BY <2>2, <3>1, <3>3
  <2>3. ASSUME NEW x \in Names, Name(x) \/ Arrow(x) PROVE Plain'
    <3>1. UNCHANGED <<id, twice, status>>
      BY <2>3 DEF Name, Arrow
    <3>2. error' \in BOOLEAN
      <4>1. CASE Name(x)
        BY <4>1 DEF Name
      <4>2. CASE Arrow(x)
        BY <4>2, Zenon DEF Arrow
      <4> QED BY <2>3, <4>1, <4>2
    <3> QED BY <3>1, <3>2
  <2>4. ASSUME NEW x \in Names, NEW size \in Sizes, Variable(x, size) \/ Static(x, size)
        PROVE  Plain'
    BY <2>4 DEF Variable, Static
  <2>5. ASSUME NEW labels, NEW targets, Emit(labels, targets) PROVE twice' \in BOOLEAN
    BY <2>5, Zenon DEF Emit
  <2>6. ASSUME NEW type, NEW labels, NEW targets, Open(type, labels, targets) PROVE Plain'
    BY <2>5, <2>6 DEF Open
  <2>7. CASE PlainBlock \/ TooManyClosed \/ EndOfFile \/ UNCHANGED vars
    BY <2>7 DEF PlainBlock, TooManyClosed, EndOfFile, vars
  <2>8. CASE Close \/ CloseElse
    BY <2>5, <2>8 DEF Close, CloseElse
  <2>9. CASE Break \/ Continue
    BY <2>5, <2>9 DEF Break, Continue, Exit
  <2> QED BY <2>2, <2>3, <2>4, <2>6, <2>7, <2>8, <2>9 DEF Next, Loop, Switch, If, And, Or
<1> QED BY <1>1, <1>2, <1>3 DEF TypeOK, IdentSet, BlockSet, StaticSet

------------------------------------------------------------------------------
LEMMA Start == Init => TypeOK /\ Frames
<1> SUFFICES ASSUME Init PROVE TypeOK /\ Frames
  OBVIOUS
<1> DEFINE f == Ident("F", "sys_syscall", 0, 0, 0)
           g == Ident("F", "sys_malloc", 0, 0, 0)
<1>1. f \in IdentSet /\ g \in IdentSet /\ f.type # "L" /\ g.type # "L"
  BY DEF Ident, IdentSet, Text
<1>2. idents = <<f, g>> /\ nesting = <<>> /\ statics = <<>> /\ pos = 0
  BY DEF Init
<1> HIDE DEF f, g
<1>3. /\ idents \in Seq(IdentSet) /\ nesting \in Seq(BlockSet) /\ statics \in Seq(StaticSet)
      /\ Len(idents) = 2 /\ idents[1] = f /\ idents[2] = g /\ Depth = 0
  BY <1>1, <1>2 DEF Depth
<1>4. \A i \in 1..Len(idents) : ~IsLocal(i)
  <2>1. \A i \in 1..2 : i = 1 \/ i = 2
    OBVIOUS
  <2> QED BY <2>1, <1>1, <1>3 DEF IsLocal
<1>5. Frames
  BY <1>2, <1>3, <1>4 DEF Frames, Typed, FramesDisjoint, BlocksFit, LocalsAreInside
<1>6. TypeOK
  BY <1>3 DEF Init, TypeOK, IdentSet, BlockSet, StaticSet
<1> QED BY <1>5, <1>6

LEMMA Step == TypeOK /\ Frames /\ [Next]_vars => TypeOK' /\ Frames'
BY StepKinds, FramesStep, TypeStep

\* The tables keep their types whatever is read.
THEOREM TypeCorrect == Spec => []TypeOK
BY Start, Step, PTL DEF Spec

\* No two locals in scope share a word of the frame, none is where the return
\* address is, and all lie below the frame of a function called.
THEOREM LocalsNeverOverlap == Spec => []FramesDisjoint
<1>1. Frames => FramesDisjoint
  BY DEF Frames
<1> QED BY <1>1, Start, Step, PTL DEF Spec

------------------------------------------------------------------------------
(***************************************************************************)
(* The names before the innermost block, and with them the globals, are    *)
(* never lost; statics are never removed at all.  So a reference, once     *)
(* written, stays good.                                                    *)
(***************************************************************************)
GlobalsAreOutside ==
  Depth > 0 => \A i \in 1..Len(idents) : idents[i].type = "G" => i <= nesting[1].nr
StaticsAreNamed ==
  \A i \in 1..Len(idents) : idents[i].type = "S" =>
     /\ idents[i].value \in 0..(Len(statics) - 1)
     /\ statics[idents[i].value + 1].name = idents[i].name
IsGlobal(r) == \E i \in 1..Len(idents) : idents[i].type = "G" /\ r = <<"g", idents[i].name>>
IsStatic(r) == \E k \in 1..Len(statics) : r = <<"static", k - 1, statics[k].name>>
Data == GlobalsAreOutside /\ StaticsAreNamed /\ \A r \in refs : IsGlobal(r) \/ IsStatic(r)

\* How many names were declared before the innermost block.
Outer == IF Depth = 0 THEN Len(idents) ELSE Innermost.nr

LEMMA NamesAfter ==
  ASSUME TypeOK, Frames, Kinds
  PROVE  /\ Outer \in Nat /\ Outer <= Len(idents) /\ Len(idents') \in Nat /\ Outer <= Len(idents')
         /\ \A i \in 1..Outer : idents'[i] = idents[i]
<1>1. /\ idents \in Seq(IdentSet) /\ Len(idents) \in Nat /\ Depth \in Nat
      /\ Outer \in Nat /\ Outer <= Len(idents)
  BY Types, Fields DEF Frames, Typed, BlocksFit, Saved, Innermost, Outer
<1>2. \A i \in 1..Outer : i \in 1..Len(idents)
  BY <1>1
<1> DEFINE Stays == /\ Len(idents') \in Nat /\ Outer <= Len(idents')
                    /\ \A i \in 1..Outer : idents'[i] = idents[i]
<1>3. ASSUME idents' = idents PROVE Stays
  BY <1>1, <1>3
<1>4. ASSUME NEW d \in IdentSet, idents' = Append(idents, d) PROVE Stays
  <2>1. Len(idents') = Len(idents) + 1 /\ \A i \in 1..Len(idents) : idents'[i] = idents[i]
    BY <1>1, <1>4
  <2> QED BY <2>1, <1>1, <1>2
<1>5. ASSUME NEW f \in Names, AddFunction(f) PROVE Stays
  <2>1. Ident("F", f, 0, 0, 0) \in IdentSet
    BY DEF Ident, IdentSet, Text
  <2> QED BY <1>3, <1>4, <1>5, <2>1 DEF AddFunction
<1>6. ASSUME Depth > 0, Unwind PROVE Stays
  <2>1. Outer = Innermost.nr
    BY <1>6, <1>1 DEF Outer
  <2>2. idents' = SubSeq(idents, 1, Outer)
    BY <1>6, <2>1 DEF Unwind
  <2>3. Len(idents') = Outer /\ \A i \in 1..Outer : idents'[i] = idents[i]
    BY <2>2, <1>1
  <2> QED BY <2>3, <1>1
<1> HIDE DEF Stays
<1>7. Stays
  <2>1. ASSUME NEW d \in IdentSet, Declares(d) PROVE Stays
    BY <1>4, <2>1 DEF Declares
  <2>2. ASSUME NEW f \in Names, NEW b \in BlockSet, Starts(f, b) PROVE Stays
    BY <1>5, <2>2 DEF Starts
  <2>3. ASSUME NEW d \in {Depth - 1, Depth}, Unwinds(d) PROVE Stays
    BY <1>6, <2>3 DEF Unwinds
  <2>4. ASSUME NEW b \in BlockSet, Opens(b) PROVE Stays
    BY <1>3, <2>4 DEF Opens
  <2>5. CASE Rests \/ Refers
    BY <1>3, <2>5 DEF Rests, Refers
  <2> QED BY <2>1, <2>2, <2>3, <2>4, <2>5 DEF Kinds
<1> QED BY <1>1, <1>7 DEF Stays

LEMMA DataStep ==
  ASSUME TypeOK, Frames, Data, Kinds
  PROVE  Data'
<1>1. idents \in Seq(IdentSet) /\ statics \in Seq(StaticSet)
      /\ Len(idents) \in Nat /\ Len(statics) \in Nat /\ Depth \in Nat
  BY Types, Fields DEF Frames, Typed
<1>2. GlobalsAreOutside'
  <2>1. CASE UNCHANGED <<idents, nesting>>
    BY <2>1 DEF Data, GlobalsAreOutside, Depth
  <2>2. ASSUME NEW d \in IdentSet, Declares(d) PROVE GlobalsAreOutside'
    BY <2>2, <1>1, OneMore DEF Declares, Data, GlobalsAreOutside, Depth
  <2>3. ASSUME NEW f \in Names, NEW b \in BlockSet, Starts(f, b) PROVE GlobalsAreOutside'
    <3>1. nesting'[1].nr = Len(idents')
      BY <2>3, OnlyOne DEF Starts
    <3>2. Len(idents') \in Nat
      BY NamesAfter
    <3> QED BY <3>1, <3>2 DEF GlobalsAreOutside
  <2>4. ASSUME NEW b \in BlockSet, Opens(b) PROVE GlobalsAreOutside'
    <3>1. nesting'[1] = nesting[1] /\ idents' = idents /\ Depth > 0
      BY <2>4, <1>1 DEF Opens, Frames, Typed, Depth
    <3> QED BY <3>1 DEF Data, GlobalsAreOutside
  <2>5. ASSUME NEW d \in {Depth - 1, Depth}, Unwinds(d) PROVE GlobalsAreOutside'
    <3>1. Depth' = d /\ Depth > 0 /\ (d > 0 => nesting'[1].nr = nesting[1].nr)
      BY <2>5, <1>1 DEF Unwinds, Depth
    <3>2. /\ Innermost.nr \in Nat /\ Innermost.nr <= Len(idents) /\ Len(idents') = Innermost.nr
          /\ \A i \in 1..Innermost.nr : idents'[i] = idents[i]
      BY <2>5, <3>1, <1>1, NamesAfter DEF Unwinds, Unwind, Outer
    <3> QED BY <3>1, <3>2, <1>1 DEF Data, GlobalsAreOutside
  <2> QED BY <2>1, <2>2, <2>3, <2>4, <2>5 DEF Kinds, Rests, Refers
<1>3. \A r : IsGlobal(r) => IsGlobal(r)'
  <2> SUFFICES ASSUME NEW r, NEW i \in 1..Len(idents), idents[i].type = "G",
                      r = <<"g", idents[i].name>>
               PROVE  IsGlobal(r)'
    BY DEF IsGlobal
  <2>1. i \in 1..Outer
    <3>1. CASE Depth = 0
      BY <3>1 DEF Outer
    <3>2. CASE Depth # 0
      <4>1. i <= nesting[1].nr /\ nesting[1].nr <= Innermost.nr
        BY <3>2, <1>1 DEF Data, GlobalsAreOutside, Frames, BlocksFit, Saved, Innermost
      <4>2. nesting[1].nr \in Nat /\ Innermost.nr \in Nat
        BY <3>2, <1>1, Fields DEF Frames, Innermost
      <4> QED BY <3>2, <4>1, <4>2 DEF Outer
    <3> QED BY <3>1, <3>2
  <2>2. i \in 1..Len(idents') /\ idents'[i] = idents[i]
    BY <2>1, NamesAfter
  <2> QED BY <2>2 DEF IsGlobal
<1>4. /\ Len(statics') \in Nat /\ Len(statics) <= Len(statics')
      /\ \A k \in 1..Len(statics) : statics'[k] = statics[k]
  <2> DEFINE Kept == /\ Len(statics') \in Nat /\ Len(statics) <= Len(statics')
                     /\ \A k \in 1..Len(statics) : statics'[k] = statics[k]
  <2>1. CASE UNCHANGED statics
    BY <2>1, <1>1
  <2>2. ASSUME NEW d \in IdentSet, Declares(d), ~ UNCHANGED statics PROVE Kept
    <3>1. PICK size \in Nat : statics' = Append(statics, [name |-> d.name, size |-> size])
      BY <2>2 DEF Declares
    <3>2. [name |-> d.name, size |-> size] \in StaticSet
      BY DEF IdentSet, StaticSet
    <3> QED BY <3>1, <3>2, <1>1
  <2> HIDE DEF Kept
  <2>3. Kept
    BY <2>1, <2>2 DEF Kinds, Rests, Refers, Starts, Opens, Unwinds, Kept
  <2> QED BY <2>3 DEF Kept
<1>5. \A r : IsStatic(r) => IsStatic(r)'
  BY <1>1, <1>4 DEF IsStatic
<1>6. \A r \in refs' : r \in refs \/ IsGlobal(r) \/ IsStatic(r)
  <2>1. ASSUME NEW i \in 1..Len(idents), NEW r \in Label(idents[i]) PROVE IsGlobal(r) \/ IsStatic(r)
    <3>1. CASE idents[i].type = "G"
      BY <2>1, <3>1 DEF Label, IsGlobal
    <3>2. CASE idents[i].type = "S"
      <4>1. idents[i].value \in 0..(Len(statics) - 1) /\ statics[idents[i].value + 1].name = idents[i].name
        BY <3>2 DEF Data, StaticsAreNamed
      <4>2. idents[i].value + 1 \in 1..Len(statics) /\ (idents[i].value + 1) - 1 = idents[i].value
        BY <4>1, <1>1
      <4>3. r = <<"static", idents[i].value, idents[i].name>>
        BY <2>1, <3>2 DEF Label
      <4> QED BY <4>1, <4>2, <4>3 DEF IsStatic
    <3> QED BY <2>1, <3>1, <3>2 DEF Label
  <2> QED BY <2>1 DEF Kinds, Rests, Refers, Declares, Starts, Opens, Unwinds
<1>7. \A r \in refs' : IsGlobal(r)' \/ IsStatic(r)'
  BY <1>3, <1>5, <1>6 DEF Data
<1>8. StaticsAreNamed'
  <2> SUFFICES ASSUME NEW i \in 1..Len(idents'), idents'[i].type = "S"
               PROVE  /\ idents'[i].value \in 0..(Len(statics') - 1)
                      /\ statics'[idents'[i].value + 1].name = idents'[i].name
    BY DEF StaticsAreNamed
  <2>1. CASE i \in 1..Len(idents) /\ idents'[i] = idents[i]
    <3>1. /\ idents[i].value \in 0..(Len(statics) - 1)
          /\ statics[idents[i].value + 1].name = idents[i].name
      BY <2>1 DEF Data, StaticsAreNamed
    <3>2. PICK v : v = idents[i].value
      OBVIOUS
    <3>3. v \in 0..(Len(statics') - 1) /\ v + 1 \in 1..Len(statics)
      BY <3>1, <3>2, <1>1, <1>4
    <3>4. statics'[v + 1] = statics[v + 1]
      BY <3>3, <1>4
    <3> QED BY <2>1, <3>1, <3>2, <3>3, <3>4
  <2>2. ASSUME NEW d \in IdentSet, Declares(d), i = Len(idents) + 1
        PROVE  /\ idents'[i].value \in 0..(Len(statics') - 1)
               /\ statics'[idents'[i].value + 1].name = idents'[i].name
    <3>1. idents'[i] = d
      BY <2>2, <1>1 DEF Declares
    <3>2. PICK size \in Nat : statics' = Append(statics, [name |-> d.name, size |-> size])
      BY <2>2, <3>1 DEF Declares
    <3>3. d.value = Len(statics)
      BY <2>2, <3>1 DEF Declares
    <3>4. [name |-> d.name, size |-> size] \in StaticSet
      BY DEF IdentSet, StaticSet
    <3>5. Len(statics') = Len(statics) + 1
          /\ statics'[Len(statics) + 1] = [name |-> d.name, size |-> size]
      BY <3>2, <3>4, <1>1
    <3>6. idents'[i].value = Len(statics) /\ idents'[i].name = d.name
      BY <3>1, <3>3
    <3>7. statics'[Len(statics) + 1].name = d.name
      BY <3>5
    <3>8. Len(statics) \in 0..(Len(statics') - 1)
      BY <3>5, <1>1
    <3> QED BY <3>6, <3>7, <3>8
  <2>3. ASSUME NEW d \in IdentSet, idents' = Append(idents, d), i # Len(idents) + 1
        PROVE  i \in 1..Len(idents) /\ idents'[i] = idents[i]
    <3>1. Len(idents') = Len(idents) + 1
      BY <2>3, <1>1
    <3>2. i \in 1..Len(idents)
      BY <2>3, <3>1, <1>1
    <3> QED BY <2>3, <3>2, <1>1
  <2>4. ASSUME NEW f \in Names, AddFunction(f)
        PROVE  i \in 1..Len(idents) /\ idents'[i] = idents[i]
    <3> DEFINE d == Ident("F", f, 0, 0, 0)
    <3>1. d \in IdentSet /\ d.type = "F"
      BY DEF Ident, IdentSet, Text
    <3>2. idents' = idents \/ idents' = Append(idents, d)
      BY <2>4 DEF AddFunction
    <3> HIDE DEF d
    <3>3. CASE idents' = Append(idents, d)
      <4>1. idents'[Len(idents) + 1] = d
        BY <3>1, <3>3, <1>1
      <4> QED BY <3>1, <3>3, <4>1, <2>3
    <3> QED BY <3>2, <3>3
  <2>5. ASSUME Depth > 0, Unwind PROVE i \in 1..Len(idents) /\ idents'[i] = idents[i]
    <3>1. Outer \in Nat /\ Outer <= Len(idents) /\ \A k \in 1..Outer : idents'[k] = idents[k]
      BY NamesAfter
    <3>2. Len(idents') = Outer
      BY <2>5, <3>1, <1>1 DEF Unwind, Outer
    <3> QED BY <3>1, <3>2, <1>1
  <2> QED BY <2>1, <2>2, <2>3, <2>4, <2>5
       DEF Kinds, Rests, Refers, Declares, Starts, Opens, Unwinds
<1> QED BY <1>2, <1>7, <1>8 DEF Data

\* What the code refers to is in the data section at the end, also when it
\* went out of scope long before.
THEOREM ReferencesAlwaysResolve == Spec => []ReferencesResolve
<1>1. Init => Data
  <2> SUFFICES ASSUME Init PROVE Data
    OBVIOUS
  <2>1. Depth = 0 /\ refs = {}
    BY DEF Init, Depth
  <2>2. \A i \in 1..Len(idents) : idents[i].type # "S"
    BY DEF Init, Ident
  <2> QED BY <2>1, <2>2 DEF Data, GlobalsAreOutside, StaticsAreNamed
<1>2. TypeOK /\ Frames /\ Data /\ [Next]_vars => Data'
  BY StepKinds, DataStep
<1>3. Data => ReferencesResolve
  <2> SUFFICES ASSUME Data, NEW r \in refs
               PROVE  \/ r \in {<<"g", idents[i].name>> :
                                  i \in {j \in 1..Len(idents) : idents[j].type = "G"}}
                      \/ r \in {<<"static", k - 1, statics[k].name>> : k \in 1..Len(statics)}
    BY DEF ReferencesResolve
  <2>1. IsGlobal(r) \/ IsStatic(r)
    BY DEF Data
  <2> QED BY <2>1, Zenon DEF IsGlobal, IsStatic
<1> QED BY <1>1, <1>2, <1>3, Start, Step, PTL DEF Spec

\* Nothing in a block, its end included, changes what the names declared
\* before it mean.
THEOREM OuterNamesStay == Spec => EnclosingScopesStay
<1> DEFINE A == LET outer == IF Depth = 0 THEN Len(idents) ELSE Innermost.nr IN
                  Len(idents') >= outer /\ \A i \in 1..outer : idents'[i] = idents[i]
<1>1. TypeOK /\ Frames /\ [Next]_vars => A
  <2> SUFFICES ASSUME TypeOK, Frames, [Next]_vars PROVE A
    OBVIOUS
  <2>1. /\ Outer \in Nat /\ Len(idents') \in Nat /\ Outer <= Len(idents')
        /\ \A i \in 1..Outer : idents'[i] = idents[i]
    BY StepKinds, NamesAfter
  <2>2. Len(idents') >= Outer
    BY <2>1
  <2> QED BY <2>1, <2>2 DEF Outer
<1> HIDE DEF A
<1>2. Spec => [][A]_vars
  BY <1>1, Start, Step, PTL DEF Spec
<1> QED BY <1>2 DEF EnclosingScopesStay, A

------------------------------------------------------------------------------
(* Labels and jumps.                                                        *)


\* The open blocks with a label number of their own, and the label whose
\* place is the end of such a block.
Numbered == {k \in 1..Depth : nesting[k].type # " "}
EndLabel(b) == <<EndOf[b.type], b.id>>

\* The labels a block will still place: an if may get an else.
Pending(b) == {EndLabel(b)} \cup (IF b.type = "I" THEN {<<"else_end", b.id>>} ELSE {})

NumbersDiffer ==
  /\ \A k \in Numbered : nesting[k].id < id
  /\ \A j, k \in Numbered : nesting[j].id = nesting[k].id => j = k
PlacedBefore == \A kind, n : <<kind, n>> \in placed => n \in Nat /\ n < id
PendingIsFree == \A k \in Numbered : Pending(nesting[k]) \cap placed = {}
LoopsAreStarted == \A k \in Numbered : nesting[k].type = "L" => LoopStart(nesting[k]) \in placed
JumpsAreOwed ==
  \A l \in jumps : l \in placed \/ \E k \in Numbered : l = EndLabel(nesting[k])

Labels == /\ ~twice /\ NumbersDiffer /\ PlacedBefore /\ PendingIsFree
          /\ LoopsAreStarted /\ JumpsAreOwed

NumberedTypes == {"L", "W", "I", "E", "A", "O"}

LEMMA EndKinds ==
  /\ EndOf["L"] = "loop_end" /\ EndOf["W"] = "switch_end" /\ EndOf["I"] = "else"
  /\ EndOf["E"] = "else_end" /\ EndOf["A"] = "and_end" /\ EndOf["O"] = "or_end"
BY DEF EndOf

LEMMA TablesTyped ==
  ASSUME TypeOK
  PROVE  /\ nesting \in Seq(BlockSet) /\ id \in Nat /\ Depth = Len(nesting) /\ Depth \in Nat
         /\ (nesting # <<>> => Depth \in 1..Depth) /\ (nesting = <<>> => Depth = 0)
         /\ \A k \in 1..Depth : nesting[k].id \in Nat
         /\ \A k \in Numbered : k \in 1..Depth /\ nesting[k].type \in NumberedTypes
<1>1. nesting \in Seq(BlockSet) /\ id \in Nat
  BY Types DEF Typed
<1>2. \A b \in BlockSet : b.id \in Nat /\ (b.type # " " => b.type \in NumberedTypes)
  BY DEF BlockSet, NumberedTypes
<1>3. \A k \in 1..Len(nesting) : nesting[k] \in BlockSet
  BY <1>1
<1>4. Depth = Len(nesting) /\ Depth \in Nat /\ (nesting = <<>> => Depth = 0)
  BY <1>1 DEF Depth
<1>5. nesting # <<>> => Depth \in 1..Depth
  <2>1. nesting # <<>> => Len(nesting) # 0
    BY <1>1
  <2> QED BY <1>4, <2>1
<1>6. \A k \in Numbered : k \in 1..Depth /\ nesting[k].type \in NumberedTypes
  BY <1>2, <1>3, <1>4 DEF Numbered
<1> QED BY <1>1, <1>2, <1>3, <1>4, <1>5, <1>6

\* What a token adds to the output.
LEMMA Emitted ==
  ASSUME Labels, NEW labels, NEW targets, Emit(labels, targets), labels \cap placed = {}
  PROVE  ~twice' /\ placed' = placed \cup labels /\ jumps' = jumps \cup targets
BY Zenon DEF Emit, Labels

\* A plain block, or no block at all.
LEMMA PlainLabels ==
  ASSUME TypeOK, Labels, UNCHANGED <<id, placed, twice, jumps>>,
         Numbered' = Numbered, \A k \in Numbered : nesting'[k] = nesting[k]
  PROVE  Labels'
BY DEF Labels, NumbersDiffer, PlacedBefore, PendingIsFree, LoopsAreStarted, JumpsAreOwed,
       EndLabel, Pending, LoopStart

\* What opening a block does to the table.
LEMMA Pushed ==
  ASSUME nesting \in Seq(BlockSet), NEW b \in BlockSet, nesting' = Append(nesting, b)
  PROVE  /\ Depth \in Nat /\ Depth' = Depth + 1 /\ nesting'[Depth + 1] = b
         /\ \A k \in 1..Depth : nesting'[k] = nesting[k]
BY DEF Depth

\* A numbered block is opened.  Its number is new, so none of its labels is
\* placed; if its opening jumps, then to its end.
LEMMA OpenLabels ==
  ASSUME TypeOK, Labels, NEW type \in {"L", "W", "I", "A", "O"}, NEW labels, NEW targets,
         labels = IF type = "L" THEN {<<"loop", id>>} ELSE {},
         targets \subseteq {<<EndOf[type], id>>}, Open(type, labels, targets)
  PROVE  Labels'
<1>1. CASE Fail
  BY <1>1, TablesTyped, PlainLabels DEF Fail, Numbered, Depth
<1>2. CASE ~Fail
  <2> DEFINE b == Block(type)
  <2>1. nesting' = Append(nesting, b) /\ id' = id + 1 /\ Emit(labels, targets)
    BY <1>2 DEF Open
  <2>2. b \in BlockSet /\ b.type = type /\ b.id = id
    BY Blocks DEF Block
  <2> HIDE DEF b
  <2>3. /\ id \in Nat /\ Depth \in Nat /\ Depth' = Depth + 1 /\ nesting'[Depth + 1] = b
        /\ \A k \in 1..Depth : nesting'[k] = nesting[k]
    BY <2>1, <2>2, TablesTyped DEF Depth
  <2>4. Numbered' = Numbered \cup {Depth + 1} /\ \A k \in Numbered : nesting'[k] = nesting[k]
    <3>1. \A k : k \in 1..(Depth + 1) <=> k \in 1..Depth \/ k = Depth + 1
      BY <2>3
    <3>2. Numbered' = {k \in 1..(Depth + 1) : nesting'[k].type # " "}
      BY <2>3 DEF Numbered
    <3>3. b.type # " "
      BY <2>2
    <3> QED BY <2>3, <3>1, <3>2, <3>3 DEF Numbered
  <2>5. \A kind : <<kind, id>> \notin placed
    BY <2>3 DEF Labels, PlacedBefore
  <2>6. ~twice' /\ placed' = placed \cup labels /\ jumps' = jumps \cup targets
    BY <2>1, <2>5, Emitted
  <2>7. NumbersDiffer'
    <3>1. \A k \in Numbered : nesting[k].id \in Nat /\ nesting[k].id < id
      BY TablesTyped DEF Labels, NumbersDiffer
    <3>2. nesting'[Depth + 1].id = id /\ id < id + 1
      BY <2>2, <2>3
    <3>3. \A k \in Numbered : nesting[k].id < id + 1 /\ nesting[k].id # id
      BY <2>3, <3>1
    <3>4. \A k \in Numbered' : nesting'[k].id < id'
      BY <2>1, <2>4, <3>2, <3>3
    <3>5. \A j, k \in Numbered' : nesting'[j].id = nesting'[k].id => j = k
      BY <2>4, <3>2, <3>3 DEF Labels, NumbersDiffer
    <3> QED BY <3>4, <3>5 DEF NumbersDiffer
  <2>8. PlacedBefore'
    <3> SUFFICES ASSUME NEW kind, NEW n, <<kind, n>> \in placed'
                 PROVE  n \in Nat /\ n < id + 1
      BY <2>1 DEF PlacedBefore
    <3>1. CASE <<kind, n>> \in placed
      BY <2>3, <3>1 DEF Labels, PlacedBefore
    <3>2. CASE <<kind, n>> \in labels
      BY <2>3, <3>2
    <3> QED BY <2>6, <3>1, <3>2
  <2>9. PendingIsFree'
    <3> SUFFICES ASSUME NEW k \in Numbered', NEW l \in Pending(nesting'[k]) PROVE l \notin placed'
      BY DEF PendingIsFree
    <3>1. CASE k \in Numbered
      <4>1. l \notin placed /\ nesting[k].id \in Nat /\ nesting[k].id < id
        BY <2>4, <3>1, TablesTyped DEF Labels, PendingIsFree, NumbersDiffer
      <4>2. \E kind : l = <<kind, nesting[k].id>>
        BY <2>4, <3>1 DEF Pending, EndLabel
      <4> QED BY <2>6, <4>1, <4>2
    <3>2. CASE k = Depth + 1
      <4>1. nesting'[k].type = type /\ nesting'[k].id = id
        BY <2>2, <2>3, <3>2
      <4>2. l \in {<<EndOf[type], id>>, <<"else_end", id>>}
        BY <4>1 DEF Pending, EndLabel
      <4>3. EndOf[type] # "loop"
        BY EndKinds
      <4>4. l # <<"loop", id>>
        BY <4>2, <4>3
      <4> QED BY <2>5, <2>6, <4>2, <4>4
    <3> QED BY <2>4, <3>1, <3>2
  <2>10. LoopsAreStarted'
    BY <2>2, <2>3, <2>4, <2>6 DEF Labels, LoopsAreStarted, LoopStart
  <2>11. JumpsAreOwed'
    <3>1. nesting'[Depth + 1].type = type /\ nesting'[Depth + 1].id = id
      BY <2>2, <2>3
    <3> QED BY <2>4, <2>6, <3>1 DEF Labels, JumpsAreOwed, EndLabel
  <2> QED BY <2>6, <2>7, <2>8, <2>9, <2>10, <2>11 DEF Labels
<1> QED BY <1>1, <1>2

\* A block is closed: its end is placed, and is the end of no other block.
LEMMA CloseLabels ==
  ASSUME TypeOK, Labels, Close PROVE Labels'
<1> DEFINE b == nesting[Depth]
<1>1. /\ Depth \in Nat /\ Depth > 0 /\ Depth' = Depth - 1 /\ id' = id /\ id \in Nat
      /\ \A k \in 1..(Depth - 1) : nesting'[k] = nesting[k]
  <2>1. /\ nesting \in Seq(BlockSet) /\ Depth = Len(nesting) /\ Depth \in Nat /\ Depth \in 1..Depth
        /\ nesting' = SubSeq(nesting, 1, Depth - 1) /\ id' = id /\ id \in Nat
    BY TablesTyped DEF Close, InFunction
  <2>2. Depth > 0 /\ Len(nesting') = Depth - 1 /\ \A k \in 1..(Depth - 1) : nesting'[k] = nesting[k]
    BY <2>1
  <2> QED BY <2>1, <2>2 DEF Depth
<1>2. Numbered' = Numbered \ {Depth} /\ \A k \in Numbered' : k \in Numbered /\ nesting'[k] = nesting[k]
  <2>1. \A k : k \in 1..(Depth - 1) <=> k \in 1..Depth /\ k # Depth
    BY <1>1
  <2>2. Numbered' = {k \in 1..(Depth - 1) : nesting'[k].type # " "}
    BY <1>1 DEF Numbered
  <2> QED BY <1>1, <2>1, <2>2 DEF Numbered
<1>3. Depth \in Numbered <=> b.type # " "
  <2>1. Depth \in 1..Depth
    BY <1>1
  <2> QED BY <2>1 DEF Numbered
<1>4. Ends(b) = IF Depth \in Numbered THEN {EndLabel(b)} ELSE {}
  BY <1>3 DEF Ends, EndLabel
<1>5. Ends(b) \cap placed = {}
  BY <1>4 DEF Labels, PendingIsFree, Pending
<1>6. /\ ~twice' /\ placed' = placed \cup Ends(b)
      /\ jumps' = jumps \cup (IF b.type = "L" THEN {LoopStart(b)} ELSE {})
  BY <1>5, Emitted DEF Close, Innermost, LoopStart
<1>7. NumbersDiffer'
  BY <1>1, <1>2 DEF Labels, NumbersDiffer
<1>8. PlacedBefore'
  <2>1. Depth \in Numbered => b.id \in Nat /\ b.id < id
    BY TablesTyped DEF Labels, NumbersDiffer
  <2> QED BY <1>1, <1>4, <1>6, <2>1 DEF Labels, PlacedBefore, EndLabel
<1>9. PendingIsFree'
  <2> SUFFICES ASSUME NEW k \in Numbered', NEW l \in Pending(nesting[k]) PROVE l \notin placed'
    BY <1>2 DEF PendingIsFree
  <2>1. k \in Numbered /\ k # Depth /\ l \notin placed
    BY <1>2 DEF Labels, PendingIsFree
  <2>2. \E kind : l = <<kind, nesting[k].id>>
    BY DEF Pending, EndLabel
  <2>3. Depth \in Numbered => b.id # nesting[k].id
    BY <2>1 DEF Labels, NumbersDiffer
  <2> QED BY <1>4, <1>6, <2>1, <2>2, <2>3 DEF EndLabel
<1>10. LoopsAreStarted'
  BY <1>2, <1>6 DEF Labels, LoopsAreStarted
<1>11. JumpsAreOwed'
  <2> SUFFICES ASSUME NEW l \in jumps'
               PROVE  l \in placed' \/ \E k \in Numbered' : l = EndLabel(nesting'[k])
    BY DEF JumpsAreOwed
  <2>1. CASE l \in jumps
    <3>1. CASE l \in placed
      BY <1>6, <3>1
    <3>2. ASSUME NEW k \in Numbered, l = EndLabel(nesting[k])
          PROVE  l \in placed' \/ \E i \in Numbered' : l = EndLabel(nesting'[i])
      <4>1. CASE k = Depth
        BY <1>4, <1>6, <3>2, <4>1
      <4>2. CASE k # Depth
        BY <1>2, <3>2, <4>2
      <4> QED BY <4>1, <4>2
    <3> QED BY <2>1, <3>1, <3>2 DEF Labels, JumpsAreOwed
  <2>2. CASE b.type = "L" /\ l = LoopStart(b)
    BY <1>3, <1>6, <2>2 DEF Labels, LoopsAreStarted
  <2> QED BY <1>6, <2>1, <2>2
<1> QED BY <1>6, <1>7, <1>8, <1>9, <1>10, <1>11 DEF Labels

\* The block of an if becomes that of its else, with another label to place.
LEMMA ElseLabels ==
  ASSUME TypeOK, Labels, CloseElse PROVE Labels'
<1> DEFINE b == nesting[Depth]
<1>1. /\ Depth \in 1..Depth /\ Depth \in Nat /\ b.type = "I" /\ b.id \in Nat
      /\ b \in BlockSet /\ nesting \in Seq(BlockSet) /\ id' = id /\ id \in Nat
  BY TablesTyped DEF CloseElse, InFunction, Innermost
<1>2. /\ Depth' = Depth /\ \A k \in 1..Depth : k # Depth => nesting'[k] = nesting[k]
      /\ nesting'[Depth].type = "E" /\ nesting'[Depth].id = b.id
  <2> DEFINE e == [b EXCEPT !.type = "E"]
  <2>1. e.type = "E" /\ e.id = b.id /\ nesting' = [nesting EXCEPT ![Depth] = e]
    BY <1>1 DEF CloseElse, BlockSet
  <2> HIDE DEF e
  <2> QED BY <1>1, <2>1 DEF Depth
<1>3. Depth \in Numbered /\ Numbered' = Numbered
  BY <1>1, <1>2 DEF Numbered
<1>4. EndLabel(b) = <<"else", b.id>> /\ Ends(b) = {<<"else", b.id>>}
      /\ EndLabel(nesting'[Depth]) = <<"else_end", b.id>>
      /\ Pending(nesting'[Depth]) = {<<"else_end", b.id>>}
  BY <1>1, <1>2, EndKinds DEF EndLabel, Ends, Pending
<1>5. <<"else", b.id>> \notin placed /\ <<"else_end", b.id>> \notin placed
  BY <1>1, <1>3, <1>4 DEF Labels, PendingIsFree, Pending
<1>6. /\ ~twice' /\ placed' = placed \cup {<<"else", b.id>>}
      /\ jumps' = jumps \cup {<<"else_end", b.id>>}
  BY <1>4, <1>5, Emitted DEF CloseElse, Innermost
<1>7. \A k \in Numbered : nesting'[k].id = nesting[k].id
  BY <1>2 DEF Numbered
<1>8. NumbersDiffer'
  BY <1>1, <1>3, <1>7 DEF Labels, NumbersDiffer
<1>9. PlacedBefore'
  BY <1>1, <1>3, <1>6 DEF Labels, PlacedBefore, NumbersDiffer
<1>10. PendingIsFree'
  <2> SUFFICES ASSUME NEW k \in Numbered, NEW l \in Pending(nesting'[k]) PROVE l \notin placed'
    BY <1>3 DEF PendingIsFree
  <2>1. CASE k = Depth
    BY <2>1, <1>4, <1>5, <1>6
  <2>2. CASE k # Depth
    <3>1. nesting'[k] = nesting[k] /\ l \notin placed /\ nesting[k].id # b.id
      BY <2>2, <1>2, <1>3 DEF Labels, PendingIsFree, NumbersDiffer, Numbered
    <3>2. \E kind : l = <<kind, nesting[k].id>>
      BY <3>1 DEF Pending, EndLabel
    <3> QED BY <1>6, <3>1, <3>2
  <2> QED BY <2>1, <2>2
<1>11. LoopsAreStarted'
  BY <1>2, <1>3, <1>6 DEF Labels, LoopsAreStarted, LoopStart, Numbered
<1>12. JumpsAreOwed'
  <2> SUFFICES ASSUME NEW l \in jumps'
               PROVE  l \in placed' \/ \E k \in Numbered : l = EndLabel(nesting'[k])
    BY <1>3 DEF JumpsAreOwed
  <2>1. CASE l = <<"else_end", b.id>>
    BY <2>1, <1>3, <1>4
  <2>2. CASE l \in placed
    BY <2>2, <1>6
  <2>3. ASSUME NEW k \in Numbered, l = EndLabel(nesting[k])
        PROVE  l \in placed' \/ \E i \in Numbered : l = EndLabel(nesting'[i])
    <3>1. CASE k = Depth
      BY <2>3, <3>1, <1>4, <1>6
    <3>2. CASE k # Depth
      BY <2>3, <3>2, <1>2 DEF Numbered
    <3> QED BY <3>1, <3>2
  <2> QED BY <1>6, <2>1, <2>2, <2>3 DEF Labels, JumpsAreOwed
<1> QED BY <1>6, <1>8, <1>9, <1>10, <1>11, <1>12 DEF Labels

\* break and continue jump to the end of an open block or to where it starts.
LEMMA ExitLabels ==
  ASSUME TypeOK, Labels, Break \/ Continue PROVE Labels'
<1>1. CASE Fail
  BY <1>1, TablesTyped, PlainLabels DEF Fail, Numbered, Depth
<1>2. ASSUME NEW k \in 1..Depth, NEW target, Emit({}, {target}), UNCHANGED <<nesting, id>>,
             k \in Numbered,
             target = EndLabel(nesting[k]) \/ target \in placed
      PROVE  Labels'
  <2>1. ~twice' /\ placed' = placed /\ jumps' = jumps \cup {target}
    BY <1>2, Emitted
  <2>2. Numbered' = Numbered /\ nesting' = nesting /\ id' = id
    BY <1>2 DEF Numbered, Depth
  <2>3. JumpsAreOwed'
    BY <1>2, <2>1, <2>2 DEF Labels, JumpsAreOwed, EndLabel
  <2> QED BY <2>1, <2>2, <2>3
      DEF Labels, NumbersDiffer, PlacedBefore, PendingIsFree, LoopsAreStarted, Pending,
          EndLabel, LoopStart
<1>3. CASE Break /\ ~Fail
  <2>1. PICK k \in 1..Depth : /\ nesting[k].type \in {"L", "W"}
                              /\ Emit({}, {LoopOrSwitchEnd(nesting[k])})
                              /\ UNCHANGED <<nesting, id>>
    BY <1>3 DEF Break, Exit
  <2> QED BY <2>1, <1>2 DEF Numbered, LoopOrSwitchEnd, EndLabel
<1>4. CASE Continue /\ ~Fail
  <2>1. PICK k \in 1..Depth : /\ nesting[k].type \in {"L"}
                              /\ Emit({}, {LoopStart(nesting[k])})
                              /\ UNCHANGED <<nesting, id>>
    BY <1>4 DEF Continue, Exit
  <2>2. k \in Numbered /\ LoopStart(nesting[k]) \in placed
    BY <2>1 DEF Numbered, Labels, LoopsAreStarted
  <2> QED BY <2>1, <2>2, <1>2
<1> QED BY <1>1, <1>3, <1>4

\* A plain block has no label.
LEMMA PlainBlockLabels ==
  ASSUME TypeOK, Labels, PlainBlock PROVE Labels'
<1>1. PICK b \in BlockSet : b.type = " " /\ nesting' = Append(nesting, b)
  <2>1. Block(" ").type = " "
    BY DEF Block
  <2>2. Block(" ") \in BlockSet
    BY Blocks
  <2> QED BY <2>1, <2>2 DEF PlainBlock
<1>2. /\ Depth \in Nat /\ Depth' = Depth + 1 /\ nesting'[Depth + 1] = b
      /\ \A k \in 1..Depth : nesting'[k] = nesting[k]
  <2>1. nesting \in Seq(BlockSet)
    BY TablesTyped
  <2> QED BY <1>1, <2>1, Pushed
<1>3. Numbered' = Numbered /\ \A k \in Numbered : nesting'[k] = nesting[k]
  <2>1. \A k : k \in 1..(Depth + 1) <=> k \in 1..Depth \/ k = Depth + 1
    BY <1>2
  <2>2. Numbered' = {k \in 1..(Depth + 1) : nesting'[k].type # " "}
    BY <1>2 DEF Numbered
  <2> QED BY <1>1, <1>2, <2>1, <2>2 DEF Numbered
<1> QED BY <1>3, PlainLabels DEF PlainBlock, Quiet

\* The tokens that leave labels and numbered blocks alone, and the beginning of
\* a function, which starts anew.
LEMMA OtherLabels ==
  ASSUME TypeOK, Labels,
         \/ \E x \in Names : \/ Forward(x) \/ Function(x) \/ Constant(x) \/ Name(x) \/ Arrow(x)
                             \/ \E size \in Sizes : Variable(x, size) \/ Static(x, size)
         \/ PlainBlock \/ TooManyClosed \/ EndOfFile \/ UNCHANGED vars
  PROVE  Labels'
<1>1. CASE UNCHANGED <<nesting, id, placed, twice, jumps>>
  BY <1>1, PlainLabels DEF Numbered, Depth
<1>2. CASE PlainBlock
  BY <1>2, PlainBlockLabels
<1>3. ASSUME NEW x \in Names, Function(x), ~Fail PROVE Labels'
  <2>1. /\ id' = 1 /\ placed' = {} /\ ~twice' /\ jumps' = {} /\ Len(nesting') = 1
        /\ nesting'[1].type = " "
    <3> DEFINE b == [type |-> " ", id |-> 0, nr |-> Len(idents'), pos |-> pos']
    <3>1. /\ id' = 1 /\ placed' = {} /\ twice' = FALSE /\ jumps' = {} /\ nesting' = <<b>>
      BY <1>3 DEF Function
    <3>2. b.type = " "
      OBVIOUS
    <3> HIDE DEF b
    <3> QED BY <3>1, <3>2
  <2>2. Numbered' = {}
    <3>1. \A k \in 1..1 : k = 1
      OBVIOUS
    <3> QED BY <2>1, <3>1 DEF Numbered, Depth
  <2> QED BY <2>1, <2>2 DEF Labels, NumbersDiffer, PlacedBefore, PendingIsFree,
                            LoopsAreStarted, JumpsAreOwed
<1>4. CASE Fail
  BY <1>1, <1>4 DEF Fail
<1>5. CASE ~Fail /\ ~PlainBlock /\ ~\E x \in Names : Function(x)
  <2>1. UNCHANGED <<nesting, id, placed, twice, jumps>>
    BY <1>5 DEF Forward, Constant, Name, Arrow, Variable, Static, TooManyClosed, EndOfFile,
                Quiet, vars
  <2> QED BY <1>1, <2>1
<1> QED BY <1>2, <1>3, <1>4, <1>5

LEMMA LabelsStep == TypeOK /\ Labels /\ [Next]_vars => Labels'
<1> SUFFICES ASSUME TypeOK, Labels, [Next]_vars PROVE Labels'
  OBVIOUS
<1>1. CASE Loop \/ Switch \/ If \/ And \/ Or
  <2>1. CASE Loop
    BY <2>1, OpenLabels DEF Loop
  <2>2. CASE Switch
    BY <2>2, OpenLabels DEF Switch
  <2>3. CASE If
    BY <2>3, OpenLabels, EndKinds DEF If
  <2>4. CASE And
    BY <2>4, OpenLabels, EndKinds DEF And
  <2>5. CASE Or
    BY <2>5, OpenLabels, EndKinds DEF Or
  <2> QED BY <1>1, <2>1, <2>2, <2>3, <2>4, <2>5
<1>2. CASE Close \/ CloseElse \/ Break \/ Continue
  BY <1>2, CloseLabels, ElseLabels, ExitLabels
<1>3. CASE ~(Loop \/ Switch \/ If \/ And \/ Or \/ Close \/ CloseElse \/ Break \/ Continue)
  BY <1>3, OtherLabels DEF Next
<1> QED BY <1>1, <1>2, <1>3

\* Every jump of a function goes to a label that its code places exactly once,
\* whatever loops, switches, conditions and short circuits it nests.
THEOREM JumpsAlwaysLand == Spec => []JumpsLand
<1>1. Init => Labels
  <2> SUFFICES ASSUME Init PROVE Labels
    OBVIOUS
  <2>1. Numbered = {} /\ placed = {} /\ jumps = {} /\ ~twice
    <3>1. Depth = 0
      BY DEF Init, Depth
    <3> QED BY <3>1 DEF Init, Numbered
  <2> QED BY <2>1 DEF Labels, NumbersDiffer, PlacedBefore, PendingIsFree, LoopsAreStarted,
                      JumpsAreOwed
<1>2. TypeOK /\ Labels => JumpsLand
  <2> SUFFICES ASSUME TypeOK, Labels, nesting = <<>> PROVE jumps \subseteq placed /\ ~twice
    BY DEF JumpsLand
  <2>1. Numbered = {}
    <3>1. Depth = 0
      BY TablesTyped
    <3> QED BY <3>1 DEF Numbered
  <2> QED BY <2>1 DEF Labels, JumpsAreOwed
<1> QED BY <1>1, <1>2, LabelsStep, Start, Step, PTL DEF Spec
==============================================================================
