---------------------------- MODULE TargetsProofs ----------------------------
(***************************************************************************)
(* The code the two translators emit implements the stack machine, for     *)
(* every word width: each token's instructions are a step of StackMachine  *)
(* seen through stack = Append(rest, top), frame = base.                   *)
(*                                                                         *)
(* A! is the amd64 code, where top is rax, rest the hardware stack and     *)
(* base rbp; B! the aarch64 code, where they are x0, the stack x18 points  *)
(* to and x17, and which never traps.                                      *)
(***************************************************************************)
EXTENDS Targets, Lemmas

------------------------------------------------------------------------------
(* amd64.                                                                  *)

\* The stack machine's state, seen from the registers.
LEMMA Amd64Mapping ==
  ASSUME A!TypeOK
  PROVE  /\ StackC!Top = top /\ StackC!Front(Append(rest, top)) = rest
         /\ StackC!Below = A!Last(rest) /\ StackC!Rest = A!Front(rest)
         /\ StackC!Room = A!Room
         /\ \A n \in Nat : A!Runs(n) => StackC!Running(n + 1)
         /\ StackC!On = A!On /\ StackC!Jump = A!Jump
         /\ \A r : StackC!ReturnTo(r) = A!ReturnTo(r)
<1>1. /\ rest \in Seq(Word) /\ top \in Word
      /\ A!Front(Append(rest, top)) = rest /\ A!Last(Append(rest, top)) = top
      /\ Len(Append(rest, top)) = Len(rest) + 1
  BY AppendedIsTop DEF A!TypeOK, A!Front, Front, A!Last, Last
<1>2. \A s : StackC!Front(s) = A!Front(s) /\ StackC!Last(s) = A!Last(s)
  BY DEF StackC!Front, StackC!Last, A!Front, Front, A!Last, Last
<1>3. /\ StackC!Top = top /\ StackC!Front(Append(rest, top)) = rest
      /\ StackC!Below = A!Last(rest) /\ StackC!Rest = A!Front(rest)
  BY <1>1, <1>2 DEF StackC!Top, StackC!Below, StackC!Rest
<1>4. StackC!Room = A!Room
  BY <1>1, ConstantsTyped DEF StackC!Room, A!Room
<1>5. \A n \in Nat : A!Runs(n) => StackC!Running(n + 1)
  BY <1>1 DEF StackC!Running, A!Runs
<1>6. /\ StackC!On = A!On /\ StackC!Jump = A!Jump
      /\ \A r : StackC!ReturnTo(r) = A!ReturnTo(r)
  BY DEF A!On, On, A!Jump, Jump, A!ReturnTo, ReturnTo, StackC!On, StackC!Jump, StackC!ReturnTo
<1> QED BY <1>3, <1>4, <1>5, <1>6

\* What a pop finds.
LEMMA Amd64Pops ==
  ASSUME A!TypeOK, A!Runs(1)
  PROVE  /\ rest \in Seq(Word) /\ top \in Word
         /\ A!Front(rest) \in Seq(Word) /\ A!Last(rest) \in Word
         /\ Len(A!Front(rest)) = Len(rest) - 1
BY FrontAndTop DEF A!TypeOK, A!Runs, A!Front, Front, A!Last, Last

\* A token that leaves words in rax and on the stack keeps the types.
LEMMA Amd64OnwardTyped ==
  ASSUME A!TypeOK, A!Onward, top' \in Word, rest' \in Seq(Word), mem' \in Memory
  PROVE  A!TypeOK'
BY DEF A!TypeOK, A!Onward, A!Goes, Goes

\* setcc_al; movzx_rax,al leaves 0 or 1, whatever rax was.
LEMMA Amd64AlIsTruth ==
  ASSUME A!TypeOK, NEW b
  PROVE  A!al(b) = StackC!Truth(b) /\ A!al(b) \in Word
<1>1. A!Truth(b) \in Word /\ Low(1, A!Truth(b)) = A!Truth(b) /\ top \in Word /\ 1 \in Size
  BY ConstantsTyped, Parts DEF A!Truth, Truth, A!TypeOK, A!Size, Size
<1>2. A!al(b) = A!Truth(b)
  BY <1>1, Parts DEF A!al
<1>3. StackC!Truth(b) = A!Truth(b)
  BY DEF StackC!Truth, A!Truth, Truth
<1> QED BY <1>1, <1>2, <1>3

\* The flags tell every comparison apart.
LEMMA Amd64ConditionsHold ==
  ASSUME NEW op \in Comparison, NEW x \in Word, NEW y \in Word
  PROVE  StackC!Truth(A!setcc(op, A!cmp(x, y))) = StackC!Truth(StackC!Holds(op, x, y))
<1>1. A!setcc(op, A!cmp(x, y)) <=> StackC!Holds(op, x, y)
  BY Orders DEF A!Comparison, Comparison, A!setcc, A!cmp, StackC!Holds
<1> QED BY <1>1 DEF StackC!Truth

------------------------------------------------------------------------------
LEMMA Amd64PushSteps ==
  ASSUME A!TypeOK
  PROVE  /\ \A w \in Numbers : A!Number(w) => A!TypeOK' /\ StackC!Number(w)
         /\ \A o \in Offset : A!Local(o) => A!TypeOK' /\ StackC!Local(o)
         /\ A!Dup => A!TypeOK' /\ StackC!Dup
<1> DEFINE Pushed(v) == A!Runs(0) /\ A!Room /\ A!push_rax /\ A!InRax(v)
<1>1. ASSUME NEW v \in Word, Pushed(v)
      PROVE  /\ A!TypeOK' /\ StackC!Running(1) /\ StackC!Room
             /\ StackC!Leaves(Append(Append(rest, top), v), mem)
  <2>1. rest' = Append(rest, top) /\ top' = v /\ UNCHANGED mem /\ A!Onward
    BY <1>1 DEF A!push_rax, A!InRax
  <2>2. rest' \in Seq(Word) /\ top' \in Word /\ mem' \in Memory
    BY <2>1 DEF A!TypeOK
  <2>3. StackC!Running(1) /\ StackC!Room
    BY <1>1, Amd64Mapping, 0 + 1 = 1
  <2>4. StackC!Leaves(Append(Append(rest, top), v), mem)
    BY <2>1, Amd64Mapping DEF StackC!Leaves, A!Onward
  <2> QED BY <2>1, <2>2, <2>3, <2>4, Amd64OnwardTyped
<1>2. ASSUME NEW w \in Numbers, A!Number(w)
      PROVE  A!TypeOK' /\ StackC!Number(w)
  <2>1. Low(4, w) \in Word
    BY WordsTyped, ConstantsTyped DEF A!Size, Size
  <2>2. Pushed(Low(4, w))
    BY <1>2 DEF A!Number
  <2> QED BY <2>1, <2>2, <1>1 DEF StackC!Number
<1>3. ASSUME NEW o \in Offset, A!Local(o)
      PROVE  A!TypeOK' /\ StackC!Local(o)
  <2>1. Sext(4, o) = o /\ Alu("+", base, o) \in Word
    BY OffsetsFit, AluTyped, ConstantsTyped DEF A!Total, Total, A!TypeOK
  <2>2. Pushed(Alu("+", base, o))
    BY <1>3, <2>1 DEF A!Local
  <2> QED BY <2>1, <2>2, <1>1 DEF StackC!Local
<1>4. ASSUME A!Dup PROVE A!TypeOK' /\ StackC!Dup
  <2>1. top \in Word /\ Pushed(top)
    BY <1>4 DEF A!Dup, A!TypeOK
  <2> QED BY <2>1, <1>1, Amd64Mapping DEF StackC!Dup
<1> QED BY <1>2, <1>3, <1>4

LEMMA Amd64UnarySteps ==
  ASSUME A!TypeOK
  PROVE  /\ A!Complement => A!TypeOK' /\ StackC!Complement
         /\ A!LogicalNot => A!TypeOK' /\ StackC!LogicalNot
         /\ \A n \in {1, 2, 4} : A!Extend(n) => A!TypeOK' /\ StackC!Extend(n)
         /\ \A n \in Size : A!Get(n) => A!TypeOK' /\ StackC!Get(n)
         /\ \A o \in Offset : A!Arrow(o) => A!TypeOK' /\ StackC!Arrow(o)
<1> DEFINE Replaced(v) == A!Runs(0) /\ UNCHANGED rest /\ A!InRax(v)
<1>1. ASSUME NEW v \in Word, Replaced(v)
      PROVE  /\ A!TypeOK' /\ StackC!Running(1)
             /\ StackC!Leaves(Append(StackC!Front(Append(rest, top)), v), mem)
  <2>1. rest' = rest /\ top' = v /\ UNCHANGED mem /\ A!Onward
    BY <1>1 DEF A!InRax
  <2>2. rest' \in Seq(Word) /\ top' \in Word /\ mem' \in Memory
    BY <2>1 DEF A!TypeOK
  <2>3. StackC!Running(1)
    BY <1>1, Amd64Mapping, 0 + 1 = 1
  <2>4. StackC!Leaves(Append(StackC!Front(Append(rest, top)), v), mem)
    BY <2>1, Amd64Mapping DEF StackC!Leaves, A!Onward
  <2> QED BY <2>1, <2>2, <2>3, <2>4, Amd64OnwardTyped
<1>2. top \in Word /\ mem \in Memory
  BY DEF A!TypeOK
<1>3. ASSUME A!Complement PROVE A!TypeOK' /\ StackC!Complement
  <2>1. Replaced(Not(top)) /\ Not(top) \in Word
    BY <1>2, <1>3, WordsTyped DEF A!Complement, A!Size, Size
  <2> QED BY <2>1, <1>1, Amd64Mapping DEF StackC!Complement
<1>4. ASSUME A!LogicalNot PROVE A!TypeOK' /\ StackC!LogicalNot
  <2>1. Replaced(StackC!Truth(top = Zero)) /\ StackC!Truth(top = Zero) \in Word
    BY <1>4, Amd64AlIsTruth DEF A!LogicalNot
  <2> QED BY <2>1, <1>1, Amd64Mapping DEF StackC!LogicalNot
<1>5. ASSUME NEW n \in {1, 2, 4}, A!Extend(n) PROVE A!TypeOK' /\ StackC!Extend(n)
  <2>1. Replaced(Sext(n, top)) /\ Sext(n, top) \in Word
    BY <1>2, <1>5, WordsTyped DEF A!Extend, A!Size, Size
  <2> QED BY <2>1, <1>1, Amd64Mapping DEF StackC!Extend
<1>6. ASSUME NEW n \in Size, A!Get(n) PROVE A!TypeOK' /\ StackC!Get(n)
  <2> DEFINE w == Load(mem, top, n)
  <2>1. w \in Word /\ Low(n, w) = w /\ Low(n, Put(n, top, w)) = Low(n, w)
    BY <1>2, MemoryTyped, Parts
  <2>2. Replaced(w)
    BY <1>6, <2>1 DEF A!Get
  <2> QED BY <2>1, <2>2, <1>1, Amd64Mapping DEF StackC!Get
<1>7. ASSUME NEW o \in Offset, A!Arrow(o) PROVE A!TypeOK' /\ StackC!Arrow(o)
  <2>1. Load(mem, top, 8) \in Word /\ o \in Word /\ Sext(4, o) = o
    BY <1>2, MemoryTyped, ConstantsTyped, OffsetsFit DEF A!Size, Size
  <2>2. /\ Replaced(Alu("+", Load(mem, top, 8), o))
        /\ Alu("+", Load(mem, top, 8), o) \in Word
    BY <2>1, <1>7, AluTyped DEF A!Arrow, A!Total, Total
  <2> QED BY <2>2, <1>1, Amd64Mapping DEF StackC!Arrow
<1> QED BY <1>3, <1>4, <1>5, <1>6, <1>7

LEMMA Amd64BinarySteps ==
  ASSUME A!TypeOK
  PROVE  /\ \A op \in {"+", "*", "&", "|", "^"} :
               A!Commuting(op) => A!TypeOK' /\ StackC!TotalOp(op)
         /\ A!Subtract => A!TypeOK' /\ StackC!TotalOp("-")
         /\ \A op \in {"<<", ">>"} : A!Shift(op) => A!TypeOK' /\ StackC!TotalOp(op)
         /\ \A op \in Division : A!Divide(op) => A!TypeOK' /\ StackC!DivisionOp(op)
         /\ \A op \in Comparison : A!Compare(op) => A!TypeOK' /\ StackC!ComparisonOp(op)
<1> DEFINE Combined(v) == A!Runs(1) /\ A!pop /\ A!InRax(v)
<1>1. ASSUME NEW v \in Word, Combined(v)
      PROVE  /\ A!TypeOK' /\ StackC!Running(2)
             /\ StackC!Leaves(Append(A!Front(rest), v), mem)
  <2>1. rest' = A!Front(rest) /\ top' = v /\ UNCHANGED mem /\ A!Onward
    BY <1>1 DEF A!InRax, A!pop
  <2>2. rest' \in Seq(Word) /\ top' \in Word /\ mem' \in Memory
    BY <1>1, <2>1, Amd64Pops DEF A!TypeOK
  <2>3. StackC!Running(2)
    BY <1>1, Amd64Mapping, 1 + 1 = 2
  <2>4. StackC!Leaves(Append(A!Front(rest), v), mem)
    BY <2>1, Amd64Mapping DEF StackC!Leaves, A!Onward
  <2> QED BY <2>1, <2>2, <2>3, <2>4, Amd64OnwardTyped
<1>2. ASSUME NEW op \in {"+", "*", "&", "|", "^"}, A!Commuting(op)
      PROVE  A!TypeOK' /\ StackC!TotalOp(op)
  <2>1. A!Last(rest) \in Word /\ top \in Word
    BY <1>2, Amd64Pops DEF A!Commuting
  <2>2. Alu(op, top, A!Last(rest)) = Alu(op, A!Last(rest), top)
    BY <2>1, Commutes
  <2>3. Combined(Alu(op, A!Last(rest), top)) /\ Alu(op, A!Last(rest), top) \in Word
    BY <1>2, <2>1, <2>2, AluTyped DEF A!Commuting, A!popped, A!Total, Total
  <2> QED BY <2>3, <1>1, Amd64Mapping DEF StackC!TotalOp
<1>3. ASSUME A!Subtract PROVE A!TypeOK' /\ StackC!TotalOp("-")
  <2>1. Combined(Alu("-", A!Last(rest), top)) /\ Alu("-", A!Last(rest), top) \in Word
    BY <1>3, Amd64Pops, AluTyped DEF A!Subtract, A!popped, A!Total, Total
  <2> QED BY <2>1, <1>1, Amd64Mapping DEF StackC!TotalOp
<1>4. ASSUME NEW op \in {"<<", ">>"}, A!Shift(op) PROVE A!TypeOK' /\ StackC!TotalOp(op)
  <2>1. Combined(Alu(op, A!Last(rest), top)) /\ Alu(op, A!Last(rest), top) \in Word
    BY <1>4, Amd64Pops, AluTyped DEF A!Shift, A!popped, A!Total, Total
  <2> QED BY <2>1, <1>1, Amd64Mapping DEF StackC!TotalOp
<1>5. ASSUME NEW op \in Division, A!Divide(op) PROVE A!TypeOK' /\ StackC!DivisionOp(op)
  <2>1. CASE NoQuotient(op, A!Last(rest), top)
    <3>1. trap' = TRUE /\ UNCHANGED <<top, rest, base, mem, goes>>
      BY <1>5, <2>1 DEF A!Divide, A!popped
    <3>2. A!TypeOK'
      BY <3>1 DEF A!TypeOK
    <3>3. StackC!Running(2)
      BY <1>5, Amd64Mapping, 1 + 1 = 2 DEF A!Divide
    <3> QED BY <2>1, <3>1, <3>2, <3>3, Amd64Mapping DEF StackC!DivisionOp
  <2>2. CASE ~NoQuotient(op, A!Last(rest), top)
    <3>1. Combined(Alu(op, A!Last(rest), top)) /\ Alu(op, A!Last(rest), top) \in Word
      BY <1>5, <2>2, Amd64Pops, AluTyped DEF A!Divide, A!popped
    <3> QED BY <2>2, <3>1, <1>1, Amd64Mapping DEF StackC!DivisionOp
  <2> QED BY <2>1, <2>2
<1>6. ASSUME NEW op \in Comparison, A!Compare(op)
      PROVE  A!TypeOK' /\ StackC!ComparisonOp(op)
  <2> DEFINE v == StackC!Truth(StackC!Holds(op, A!Last(rest), top))
  <2>1. v = A!al(A!setcc(op, A!cmp(A!Last(rest), top))) /\ v \in Word
    BY <1>6, Amd64Pops, Amd64AlIsTruth, Amd64ConditionsHold DEF A!Compare
  <2>2. Combined(v)
    BY <1>6, <2>1 DEF A!Compare, A!popped
  <2> QED BY <2>1, <2>2, <1>1, Amd64Mapping DEF StackC!ComparisonOp
<1> QED BY <1>2, <1>3, <1>4, <1>5, <1>6

LEMMA Amd64MovingSteps ==
  ASSUME A!TypeOK
  PROVE  /\ A!Drop => A!TypeOK' /\ StackC!Drop
         /\ A!Swap => A!TypeOK' /\ StackC!Swap
         /\ \A n \in Size : A!Assign(n) => A!TypeOK' /\ StackC!Assign(n)
         /\ A!ReverseAssign => A!TypeOK' /\ StackC!ReverseAssign
<1>1. ASSUME A!Drop PROVE A!TypeOK' /\ StackC!Drop
  <2>1. /\ rest' = A!Front(rest) /\ top' = A!Last(rest) /\ UNCHANGED mem /\ A!Onward
        /\ A!Runs(1)
    BY <1>1 DEF A!Drop, A!InRax, A!pop, A!popped
  <2>2. Append(A!Front(rest), A!Last(rest)) = rest
    BY <2>1, FrontAndTop DEF A!Runs, A!TypeOK, A!Front, Front, A!Last, Last
  <2>3. A!TypeOK'
    BY <2>1, Amd64Pops, Amd64OnwardTyped DEF A!TypeOK
  <2>4. StackC!Leaves(StackC!Front(Append(rest, top)), mem)
    BY <2>1, <2>2, Amd64Mapping DEF StackC!Leaves, A!Onward
  <2> QED BY <2>1, <2>3, <2>4, Amd64Mapping, 1 + 1 = 2 DEF StackC!Drop
<1>2. ASSUME A!Swap PROVE A!TypeOK' /\ StackC!Swap
  <2>1. /\ rest' = Append(A!Front(rest), top) /\ top' = A!Last(rest) /\ UNCHANGED mem
        /\ A!Onward /\ A!Runs(1)
    BY <1>2 DEF A!Swap, A!InRax, A!popped
  <2>2. A!TypeOK'
    BY <2>1, Amd64Pops, Amd64OnwardTyped DEF A!TypeOK
  <2>3. StackC!Leaves(Append(Append(A!Front(rest), top), A!Last(rest)), mem)
    BY <2>1, Amd64Mapping DEF StackC!Leaves, A!Onward
  <2> QED BY <2>1, <2>2, <2>3, Amd64Mapping, 1 + 1 = 2 DEF StackC!Swap
<1>3. ASSUME NEW n \in Size, A!Assign(n) PROVE A!TypeOK' /\ StackC!Assign(n)
  <2>1. /\ rest' = A!Front(rest) /\ top' = top /\ mem' = Store(mem, A!Last(rest), n, top)
        /\ A!Onward /\ A!Runs(1)
    BY <1>3 DEF A!Assign, A!pop, A!popped
  <2>2. mem' \in Memory
    BY <2>1, Amd64Pops, MemoryTyped DEF A!TypeOK
  <2>3. A!TypeOK'
    BY <2>1, <2>2, Amd64Pops, Amd64OnwardTyped
  <2>4. StackC!Leaves(Append(A!Front(rest), top), Store(mem, A!Last(rest), n, top))
    BY <2>1, Amd64Mapping DEF StackC!Leaves, A!Onward
  <2> QED BY <2>1, <2>3, <2>4, Amd64Mapping, 1 + 1 = 2 DEF StackC!Assign
<1>4. ASSUME A!ReverseAssign PROVE A!TypeOK' /\ StackC!ReverseAssign
  <2> DEFINE r == A!Front(rest)
  <2>1. /\ rest' = A!Front(r) /\ top' = A!Last(r) /\ mem' = Store(mem, top, 8, A!Last(rest))
        /\ A!Onward /\ A!Runs(2)
    BY <1>4 DEF A!ReverseAssign, A!popped
  <2>2. /\ r \in Seq(Word) /\ Len(r) >= 1 /\ A!Last(rest) \in Word /\ top \in Word
    BY <2>1, FrontAndTop DEF A!Runs, A!TypeOK, A!Front, Front, A!Last, Last
  <2>3. Append(A!Front(r), A!Last(r)) = r
    BY <2>2, FrontAndTop DEF A!Front, Front, A!Last, Last
  <2>4. rest' \in Seq(Word) /\ top' \in Word
    BY <2>1, <2>2, FrontAndTop DEF A!Front, Front, A!Last, Last
  <2>5. mem' \in Memory
    BY <2>1, <2>2, MemoryTyped DEF A!TypeOK, A!Size, Size
  <2>6. A!TypeOK'
    BY <2>1, <2>4, <2>5, Amd64OnwardTyped
  <2>7. StackC!Leaves(r, Store(mem, top, 8, A!Last(rest)))
    BY <2>1, <2>3, Amd64Mapping DEF StackC!Leaves, A!Onward
  <2> QED BY <2>1, <2>6, <2>7, Amd64Mapping, 2 + 1 = 3 DEF StackC!ReverseAssign
<1> QED BY <1>1, <1>2, <1>3, <1>4

LEMMA Amd64ControlSteps ==
  ASSUME A!TypeOK
  PROVE  /\ A!If => A!TypeOK' /\ StackC!If
         /\ A!AndThen => A!TypeOK' /\ StackC!AndThen
         /\ A!OrElse => A!TypeOK' /\ StackC!OrElse
         /\ \A r \in Sites : A!Call(r) => A!TypeOK' /\ StackC!Call(r)
         /\ A!Return => A!TypeOK' /\ StackC!Return
<1>1. ASSUME A!Runs(1), A!pop, top' = A!popped
      PROVE  Append(rest', top') = rest /\ rest' \in Seq(Word) /\ top' \in Word
  <2>1. Append(A!Front(rest), A!Last(rest)) = rest
    BY <1>1, FrontAndTop DEF A!Runs, A!TypeOK, A!Front, Front, A!Last, Last
  <2> QED BY <1>1, <2>1, Amd64Pops DEF A!pop, A!popped
<1>2. A!On \in A!Goes /\ A!Jump \in A!Goes /\ \A r \in Word : A!ReturnTo(r) \in A!Goes
  BY DEF A!Goes, Goes
<1>3. ASSUME A!If PROVE A!TypeOK' /\ StackC!If
  <2>1. A!TypeOK'
    BY <1>1, <1>2, <1>3 DEF A!If, A!TypeOK
  <2>2. StackC!Running(2)
    BY <1>3, Amd64Mapping, 1 + 1 = 2 DEF A!If
  <2>3. StackC!If
    BY <1>1, <1>3, <2>2, Amd64Mapping DEF A!If, StackC!If
  <2> QED BY <2>1, <2>3
<1>4. ASSUME NEW b \in BOOLEAN, A!ShortCircuit(b)
      PROVE  A!TypeOK' /\ StackC!ShortCircuit(b)
  <2>1. A!TypeOK'
    BY <1>1, <1>2, <1>4 DEF A!ShortCircuit, A!TypeOK
  <2>2. StackC!Running(2)
    BY <1>4, Amd64Mapping, 1 + 1 = 2 DEF A!ShortCircuit
  <2>3. StackC!ShortCircuit(b)
    BY <1>1, <1>4, <2>2, Amd64Mapping DEF A!ShortCircuit, StackC!ShortCircuit
  <2> QED BY <2>1, <2>3
<1>5. (A!AndThen => A!TypeOK' /\ StackC!AndThen) /\ (A!OrElse => A!TypeOK' /\ StackC!OrElse)
  BY <1>4, Amd64Mapping DEF A!AndThen, A!OrElse, StackC!AndThen, StackC!OrElse
<1>6. ASSUME NEW r \in Sites, A!Call(r) PROVE A!TypeOK' /\ StackC!Call(r)
  <2>1. r \in Word /\ FrameOf(r) \in Word /\ Sext(4, FrameOf(r)) = FrameOf(r)
    BY ConstantsTyped, OffsetsFit
  <2>2. A!Front(Append(rest, r)) = rest /\ A!Last(Append(rest, r)) = r
    BY <2>1, AppendedIsTop DEF A!TypeOK, A!Front, Front, A!Last, Last
  <2>3. /\ A!Runs(1) /\ A!pop /\ top' = A!popped /\ goes' = A!Jump /\ UNCHANGED trap
        /\ base' = Alu("+", base, FrameOf(r)) /\ mem' = Store(mem, base', 8, r)
    BY <1>6, <2>1, <2>2 DEF A!Call, A!pop, A!popped
  <2>4. base' \in Word
    BY <2>1, <2>3, AluTyped DEF A!TypeOK, A!Total, Total
  <2>5. mem' \in Memory
    BY <2>1, <2>3, <2>4, MemoryTyped DEF A!TypeOK, A!Size, Size
  <2>6. A!TypeOK'
    BY <1>1, <1>2, <2>3, <2>4, <2>5 DEF A!TypeOK
  <2>7. StackC!Running(2)
    BY <2>3, Amd64Mapping, 1 + 1 = 2
  <2>8. StackC!Call(r)
    BY <1>1, <2>3, <2>7, Amd64Mapping DEF StackC!Call
  <2> QED BY <2>6, <2>8
<1>7. ASSUME A!Return PROVE A!TypeOK' /\ StackC!Return
  <2> DEFINE r == Load(mem, base, 8)
  <2>1. r \in Word
    BY MemoryTyped DEF A!TypeOK, A!Size, Size
  <2>2. FrameOf(r) \in Word /\ Sext(4, FrameOf(r)) = FrameOf(r)
    BY <2>1, ConstantsTyped, OffsetsFit
  <2>3. A!Front(Append(rest, r)) = rest /\ A!Last(Append(rest, r)) = r
    BY <2>1, AppendedIsTop DEF A!TypeOK, A!Front, Front, A!Last, Last
  <2>4. /\ A!Runs(0) /\ goes' = A!ReturnTo(r) /\ rest' = rest
        /\ base' = Alu("-", base, FrameOf(r)) /\ UNCHANGED <<top, mem, trap>>
    BY <1>7, <2>2, <2>3 DEF A!Return
  <2>5. A!TypeOK'
    BY <1>2, <2>1, <2>2, <2>4, AluTyped DEF A!TypeOK, A!Total, Total
  <2>6. StackC!Running(1)
    BY <2>4, Amd64Mapping, 0 + 1 = 1
  <2>7. StackC!Return
    BY <2>4, <2>6, Amd64Mapping DEF StackC!Return
  <2> QED BY <2>5, <2>7
<1> QED BY <1>3, <1>5, <1>6, <1>7

------------------------------------------------------------------------------
LEMMA Amd64Starts ==
  ASSUME A!Init
  PROVE  A!TypeOK /\ StackC!Init
<1>1. PICK argc \in Numbers : rest = <<argc>>
  BY DEF A!Init
<1>2. A!TypeOK
  BY <1>1, ConstantsTyped, TwoWords DEF A!Init, A!TypeOK, A!Goes, Goes
<1>3. Append(rest, top) = <<argc, top>>
  BY <1>1, <1>2, ConstantsTyped, TwoWords DEF A!TypeOK
<1>4. StackC!Init
  BY <1>2, <1>3, Amd64Mapping DEF A!Init, StackC!Init, A!None, None, StackC!None
<1> QED BY <1>2, <1>4

LEMMA Amd64Steps ==
  ASSUME A!TypeOK, A!Next
  PROVE  A!TypeOK' /\ StackC!Next
<1>0. A!Size = Size /\ StackC!Size = Size
  BY DEF A!Size, Size, StackC!Size
<1>1. CASE A!Pushing
  BY <1>1, Amd64PushSteps DEF A!Pushing, StackC!Pushing, StackC!Next
<1>2. CASE A!Replacing
  BY <1>0, <1>2, Amd64UnarySteps DEF A!Replacing, StackC!Replacing, StackC!Next
<1>3. CASE A!Combining
  <2>1. /\ \A op \in {"+", "*", "&", "|", "^", "-", "<<", ">>"} : op \in StackC!Total
        /\ Division = StackC!Division /\ Comparison = StackC!Comparison
        /\ A!Division = Division /\ A!Comparison = Comparison
    BY DEF StackC!Total, A!Division, Division, A!Comparison, Comparison, StackC!Division, StackC!Comparison
  <2>2. ASSUME NEW op \in {"+", "*", "&", "|", "^"}, token' = <<op>>, A!Commuting(op) PROVE A!TypeOK' /\ StackC!Combining
    BY <2>1, <2>2, Amd64BinarySteps DEF StackC!Combining, Division
  <2>3. ASSUME token' = <<"-">>, A!Subtract PROVE A!TypeOK' /\ StackC!Combining
    BY <2>1, <2>3, Amd64BinarySteps DEF StackC!Combining, Division
  <2>4. ASSUME NEW op \in {"<<", ">>"}, token' = <<op>>, A!Shift(op) PROVE A!TypeOK' /\ StackC!Combining
    BY <2>1, <2>4, Amd64BinarySteps DEF StackC!Combining, Division
  <2>5. ASSUME NEW op \in Division, token' = <<op>>, A!Divide(op) PROVE A!TypeOK' /\ StackC!Combining
    BY <2>1, <2>5, Amd64BinarySteps DEF StackC!Combining, Division
  <2>6. ASSUME NEW op \in Comparison, token' = <<op>>, A!Compare(op) PROVE A!TypeOK' /\ StackC!Combining
    BY <2>1, <2>6, Amd64BinarySteps DEF StackC!Combining, Division
  <2> QED BY <1>3, <2>1, <2>2, <2>3, <2>4, <2>5, <2>6 DEF A!Combining, StackC!Next
<1>4. CASE A!Moving
  BY <1>0, <1>4, Amd64MovingSteps DEF A!Moving, StackC!Moving, StackC!Next
<1>5. CASE A!Turning
  BY <1>5, Amd64ControlSteps DEF A!Turning, StackC!Turning, StackC!Next
<1> QED BY <1>1, <1>2, <1>3, <1>4, <1>5 DEF A!Next

------------------------------------------------------------------------------
(* aarch64.                                                                *)

\* The stack machine's state, seen from the registers.
LEMMA Aarch64Mapping ==
  ASSUME B!TypeOK, trap = FALSE
  PROVE  /\ StackC!Top = top /\ StackC!Front(Append(rest, top)) = rest
         /\ StackC!Below = B!Last(rest) /\ StackC!Rest = B!Front(rest)
         /\ StackC!Room = B!Room
         /\ \A n \in Nat : B!Runs(n) => StackC!Running(n + 1)
         /\ StackC!On = B!On /\ StackC!Jump = B!Jump
         /\ \A r : StackC!ReturnTo(r) = B!ReturnTo(r)
<1>1. /\ rest \in Seq(Word) /\ top \in Word
      /\ B!Front(Append(rest, top)) = rest /\ B!Last(Append(rest, top)) = top
      /\ Len(Append(rest, top)) = Len(rest) + 1
  BY AppendedIsTop DEF B!TypeOK, B!Front, Front, B!Last, Last
<1>2. \A s : StackC!Front(s) = B!Front(s) /\ StackC!Last(s) = B!Last(s)
  BY DEF StackC!Front, StackC!Last, B!Front, Front, B!Last, Last
<1>3. /\ StackC!Top = top /\ StackC!Front(Append(rest, top)) = rest
      /\ StackC!Below = B!Last(rest) /\ StackC!Rest = B!Front(rest)
  BY <1>1, <1>2 DEF StackC!Top, StackC!Below, StackC!Rest
<1>4. StackC!Room = B!Room
  BY <1>1, ConstantsTyped DEF StackC!Room, B!Room
<1>5. \A n \in Nat : B!Runs(n) => StackC!Running(n + 1)
  BY <1>1 DEF StackC!Running, B!Runs
<1>6. /\ StackC!On = B!On /\ StackC!Jump = B!Jump
      /\ \A r : StackC!ReturnTo(r) = B!ReturnTo(r)
  BY DEF B!On, On, B!Jump, Jump, B!ReturnTo, ReturnTo, StackC!On, StackC!Jump, StackC!ReturnTo
<1> QED BY <1>3, <1>4, <1>5, <1>6

\* What a POP finds.
LEMMA Aarch64Pops ==
  ASSUME B!TypeOK, trap = FALSE, B!Runs(1)
  PROVE  /\ rest \in Seq(Word) /\ top \in Word
         /\ B!Front(rest) \in Seq(Word) /\ B!Last(rest) \in Word
         /\ Len(B!Front(rest)) = Len(rest) - 1
BY FrontAndTop DEF B!TypeOK, B!Runs, B!Front, Front, B!Last, Last

\* A token that leaves words in x0 and on the stack keeps the types.
LEMMA Aarch64OnwardTyped ==
  ASSUME B!TypeOK, trap = FALSE, trap' = FALSE, B!Onward, top' \in Word, rest' \in Seq(Word), mem' \in Memory
  PROVE  B!TypeOK'
BY DEF B!TypeOK, B!Onward, B!Goes, Goes

\* CSET leaves 0 or 1.
LEMMA Aarch64TruthTyped ==
  ASSUME NEW b
  PROVE  B!Truth(b) = StackC!Truth(b) /\ B!Truth(b) \in Word
BY ConstantsTyped DEF B!Truth, Truth, StackC!Truth

\* A literal of four bytes holds every offset.
LEMMA Aarch64Literal ==
  ASSUME NEW o \in Offset
  PROVE  B!LOAD_AHEAD(o) = o /\ o \in Word
BY OffsetsFit, ConstantsTyped DEF B!LOAD_AHEAD

\* The flags tell every comparison apart.
LEMMA Aarch64ConditionsHold ==
  ASSUME NEW op \in Comparison, NEW x \in Word, NEW y \in Word
  PROVE  StackC!Truth(B!CSET(op, B!CMP(x, y))) = StackC!Truth(StackC!Holds(op, x, y))
<1>1. B!CSET(op, B!CMP(x, y)) <=> StackC!Holds(op, x, y)
  BY Orders DEF B!Comparison, Comparison, B!CSET, B!CMP, StackC!Holds
<1> QED BY <1>1 DEF StackC!Truth

------------------------------------------------------------------------------
LEMMA Aarch64PushSteps ==
  ASSUME B!TypeOK, trap = FALSE, trap' = FALSE
  PROVE  /\ \A w \in Numbers : B!Number(w) => B!TypeOK' /\ StackC!Number(w)
         /\ \A o \in Offset : B!Local(o) => B!TypeOK' /\ StackC!Local(o)
         /\ B!Dup => B!TypeOK' /\ StackC!Dup
<1> DEFINE Pushed(v) == B!Runs(0) /\ B!Room /\ B!PUSH_X0 /\ B!InX0(v)
<1>1. ASSUME NEW v \in Word, Pushed(v)
      PROVE  /\ B!TypeOK' /\ StackC!Running(1) /\ StackC!Room
             /\ StackC!Leaves(Append(Append(rest, top), v), mem)
  <2>1. rest' = Append(rest, top) /\ top' = v /\ UNCHANGED mem /\ B!Onward
    BY <1>1 DEF B!PUSH_X0, B!InX0
  <2>2. rest' \in Seq(Word) /\ top' \in Word /\ mem' \in Memory
    BY <2>1 DEF B!TypeOK
  <2>3. StackC!Running(1) /\ StackC!Room
    BY <1>1, Aarch64Mapping, 0 + 1 = 1
  <2>4. StackC!Leaves(Append(Append(rest, top), v), mem)
    BY <2>1, Aarch64Mapping DEF StackC!Leaves, B!Onward
  <2> QED BY <2>1, <2>2, <2>3, <2>4, Aarch64OnwardTyped
<1>2. ASSUME NEW w \in Numbers, B!Number(w)
      PROVE  B!TypeOK' /\ StackC!Number(w)
  <2>1. Low(4, w) \in Word
    BY WordsTyped, ConstantsTyped DEF B!Size, Size
  <2>2. Pushed(Low(4, w))
    BY <1>2 DEF B!Number, B!LOAD_AHEAD
  <2> QED BY <2>1, <2>2, <1>1 DEF StackC!Number
<1>3. ASSUME NEW o \in Offset, B!Local(o)
      PROVE  B!TypeOK' /\ StackC!Local(o)
  <2>1. B!LOAD_AHEAD(o) = o /\ Alu("+", base, o) \in Word
    BY Aarch64Literal, AluTyped DEF B!Total, Total, B!TypeOK
  <2>2. Pushed(Alu("+", base, o))
    BY <1>3, <2>1 DEF B!Local
  <2> QED BY <2>1, <2>2, <1>1 DEF StackC!Local
<1>4. ASSUME B!Dup PROVE B!TypeOK' /\ StackC!Dup
  <2>1. top \in Word /\ Pushed(top)
    BY <1>4 DEF B!Dup, B!TypeOK
  <2> QED BY <2>1, <1>1, Aarch64Mapping DEF StackC!Dup
<1> QED BY <1>2, <1>3, <1>4

LEMMA Aarch64UnarySteps ==
  ASSUME B!TypeOK, trap = FALSE, trap' = FALSE
  PROVE  /\ B!Complement => B!TypeOK' /\ StackC!Complement
         /\ B!LogicalNot => B!TypeOK' /\ StackC!LogicalNot
         /\ \A n \in {1, 2, 4} : B!Extend(n) => B!TypeOK' /\ StackC!Extend(n)
         /\ \A n \in Size : B!Get(n) => B!TypeOK' /\ StackC!Get(n)
         /\ \A o \in Offset : B!Arrow(o) => B!TypeOK' /\ StackC!Arrow(o)
<1> DEFINE Replaced(v) == B!Runs(0) /\ UNCHANGED rest /\ B!InX0(v)
<1>1. ASSUME NEW v \in Word, Replaced(v)
      PROVE  /\ B!TypeOK' /\ StackC!Running(1)
             /\ StackC!Leaves(Append(StackC!Front(Append(rest, top)), v), mem)
  <2>1. rest' = rest /\ top' = v /\ UNCHANGED mem /\ B!Onward
    BY <1>1 DEF B!InX0
  <2>2. rest' \in Seq(Word) /\ top' \in Word /\ mem' \in Memory
    BY <2>1 DEF B!TypeOK
  <2>3. StackC!Running(1)
    BY <1>1, Aarch64Mapping, 0 + 1 = 1
  <2>4. StackC!Leaves(Append(StackC!Front(Append(rest, top)), v), mem)
    BY <2>1, Aarch64Mapping DEF StackC!Leaves, B!Onward
  <2> QED BY <2>1, <2>2, <2>3, <2>4, Aarch64OnwardTyped
<1>2. top \in Word /\ mem \in Memory
  BY DEF B!TypeOK
<1>3. ASSUME B!Complement PROVE B!TypeOK' /\ StackC!Complement
  <2>1. Replaced(Not(top)) /\ Not(top) \in Word
    BY <1>2, <1>3, WordsTyped DEF B!Complement, B!Size, Size
  <2> QED BY <2>1, <1>1, Aarch64Mapping DEF StackC!Complement
<1>4. ASSUME B!LogicalNot PROVE B!TypeOK' /\ StackC!LogicalNot
  <2>1. Replaced(StackC!Truth(top = Zero)) /\ StackC!Truth(top = Zero) \in Word
    BY <1>4, Aarch64TruthTyped DEF B!LogicalNot, B!CSET, B!CMP
  <2> QED BY <2>1, <1>1, Aarch64Mapping DEF StackC!LogicalNot
<1>5. ASSUME NEW n \in {1, 2, 4}, B!Extend(n) PROVE B!TypeOK' /\ StackC!Extend(n)
  <2>1. Replaced(Sext(n, top)) /\ Sext(n, top) \in Word
    BY <1>2, <1>5, WordsTyped DEF B!Extend, B!Size, Size
  <2> QED BY <2>1, <1>1, Aarch64Mapping DEF StackC!Extend
<1>6. ASSUME NEW n \in Size, B!Get(n) PROVE B!TypeOK' /\ StackC!Get(n)
  <2>1. Replaced(Load(mem, top, n)) /\ Load(mem, top, n) \in Word
    BY <1>2, <1>6, MemoryTyped DEF B!Get
  <2> QED BY <2>1, <1>1, Aarch64Mapping DEF StackC!Get
<1>7. ASSUME NEW o \in Offset, B!Arrow(o) PROVE B!TypeOK' /\ StackC!Arrow(o)
  <2>1. Load(mem, top, 8) \in Word /\ o \in Word /\ B!LOAD_AHEAD(o) = o
    BY <1>2, MemoryTyped, Aarch64Literal DEF B!Size, Size
  <2>2. /\ Replaced(Alu("+", Load(mem, top, 8), o))
        /\ Alu("+", Load(mem, top, 8), o) \in Word
    BY <2>1, <1>7, AluTyped DEF B!Arrow, B!Total, Total
  <2> QED BY <2>2, <1>1, Aarch64Mapping DEF StackC!Arrow
<1> QED BY <1>3, <1>4, <1>5, <1>6, <1>7

LEMMA Aarch64BinarySteps ==
  ASSUME B!TypeOK, trap = FALSE, trap' = FALSE
  PROVE  /\ \A op \in {"+", "*", "&", "|", "^"} :
               B!Commuting(op) => B!TypeOK' /\ StackC!TotalOp(op)
         /\ B!Subtract => B!TypeOK' /\ StackC!TotalOp("-")
         /\ \A op \in {"<<", ">>"} : B!Shift(op) => B!TypeOK' /\ StackC!TotalOp(op)
         /\ \A op \in {"/", "/s"} : B!Divide(op) => B!TypeOK' /\ StackC!DivisionOp(op)
         /\ B!Modulo("%", "/") => B!TypeOK' /\ StackC!DivisionOp("%")
         /\ B!Modulo("%s", "/s") => B!TypeOK' /\ StackC!DivisionOp("%s")
         /\ \A op \in Comparison : B!Compare(op) => B!TypeOK' /\ StackC!ComparisonOp(op)
<1> DEFINE Combined(v) == B!Runs(1) /\ B!POP /\ B!InX0(v)
<1>1. ASSUME NEW v \in Word, Combined(v)
      PROVE  /\ B!TypeOK' /\ StackC!Running(2)
             /\ StackC!Leaves(Append(B!Front(rest), v), mem)
  <2>1. rest' = B!Front(rest) /\ top' = v /\ UNCHANGED mem /\ B!Onward
    BY <1>1 DEF B!InX0, B!POP
  <2>2. rest' \in Seq(Word) /\ top' \in Word /\ mem' \in Memory
    BY <1>1, <2>1, Aarch64Pops DEF B!TypeOK
  <2>3. StackC!Running(2)
    BY <1>1, Aarch64Mapping, 1 + 1 = 2
  <2>4. StackC!Leaves(Append(B!Front(rest), v), mem)
    BY <2>1, Aarch64Mapping DEF StackC!Leaves, B!Onward
  <2> QED BY <2>1, <2>2, <2>3, <2>4, Aarch64OnwardTyped
<1>2. ASSUME NEW op \in {"+", "*", "&", "|", "^"}, B!Commuting(op)
      PROVE  B!TypeOK' /\ StackC!TotalOp(op)
  <2>1. B!Last(rest) \in Word /\ top \in Word
    BY <1>2, Aarch64Pops DEF B!Commuting
  <2>2. Alu(op, top, B!Last(rest)) = Alu(op, B!Last(rest), top)
    BY <2>1, Commutes
  <2>3. Combined(Alu(op, B!Last(rest), top)) /\ Alu(op, B!Last(rest), top) \in Word
    BY <1>2, <2>1, <2>2, AluTyped DEF B!Commuting, B!popped, B!Total, Total
  <2> QED BY <2>3, <1>1, Aarch64Mapping DEF StackC!TotalOp
<1>3. ASSUME B!Subtract PROVE B!TypeOK' /\ StackC!TotalOp("-")
  <2>1. Combined(Alu("-", B!Last(rest), top)) /\ Alu("-", B!Last(rest), top) \in Word
    BY <1>3, Aarch64Pops, AluTyped DEF B!Subtract, B!popped, B!Total, Total
  <2> QED BY <2>1, <1>1, Aarch64Mapping DEF StackC!TotalOp
<1>4. ASSUME NEW op \in {"<<", ">>"}, B!Shift(op) PROVE B!TypeOK' /\ StackC!TotalOp(op)
  <2>1. Combined(Alu(op, B!Last(rest), top)) /\ Alu(op, B!Last(rest), top) \in Word
    BY <1>4, Aarch64Pops, AluTyped DEF B!Shift, B!popped, B!Total, Total
  <2> QED BY <2>1, <1>1, Aarch64Mapping DEF StackC!TotalOp
<1>5. ASSUME NEW op \in Division, NEW v \in Word, Combined(v),
             ~NoQuotient(op, B!Last(rest), top) => v = Alu(op, B!Last(rest), top)
      PROVE  B!TypeOK' /\ StackC!DivisionOp(op)
  <2>1. CASE NoQuotient(op, B!Last(rest), top)
    BY <2>1, <1>1, <1>5, Aarch64Mapping DEF StackC!DivisionOp
  <2>2. CASE ~NoQuotient(op, B!Last(rest), top)
    BY <2>2, <1>1, <1>5, Aarch64Mapping DEF StackC!DivisionOp
  <2> QED BY <2>1, <2>2
<1>6. ASSUME NEW op \in {"/", "/s"}, B!Runs(1)
      PROVE  /\ B!DIV(op, B!Last(rest), top) \in Word
             /\ ~NoQuotient(op, B!Last(rest), top) =>
                  B!DIV(op, B!Last(rest), top) = Alu(op, B!Last(rest), top)
  BY <1>6, Aarch64Pops, AluTyped, ConstantsTyped DEF B!DIV, B!Division, Division
<1>7. ASSUME NEW op \in {"/", "/s"}, B!Divide(op)
      PROVE  B!TypeOK' /\ StackC!DivisionOp(op)
  <2>1. Combined(B!DIV(op, B!Last(rest), top)) /\ B!Runs(1)
    BY <1>7 DEF B!Divide, B!popped
  <2> QED BY <2>1, <1>5, <1>6 DEF B!Division, Division
<1>8. ASSUME NEW op \in {"%", "%s"}, NEW q \in {"/", "/s"}, B!Modulo(op, q),
             op = "%" <=> q = "/"
      PROVE  B!TypeOK' /\ StackC!DivisionOp(op)
  <2> DEFINE x == B!Last(rest)
             v == B!MSUB(B!DIV(q, x, top), top, x)
  <2>1. Combined(v) /\ B!Runs(1) /\ x \in Word /\ top \in Word
    BY <1>8, Aarch64Pops DEF B!Modulo, B!popped
  <2>2. v \in Word
    BY <2>1, <1>6, AluTyped DEF B!MSUB, B!Total, Total
  <2>3. ASSUME ~NoQuotient(op, x, top) PROVE v = Alu(op, x, top)
    <3>1. CASE op = "%" /\ q = "/"
      BY <3>1, <2>1, <2>3, <1>6, Remainders DEF B!MSUB
    <3>2. CASE op = "%s" /\ q = "/s"
      BY <3>2, <2>1, <2>3, <1>6, Remainders DEF B!MSUB
    <3> QED BY <3>1, <3>2, <1>8
  <2> QED BY <2>1, <2>2, <2>3, <1>5 DEF B!Division, Division
<1>9. ASSUME NEW op \in Comparison, B!Compare(op)
      PROVE  B!TypeOK' /\ StackC!ComparisonOp(op)
  <2> DEFINE v == StackC!Truth(StackC!Holds(op, B!Last(rest), top))
  <2>1. v = B!Truth(B!CSET(op, B!CMP(B!Last(rest), top))) /\ v \in Word
    BY <1>9, Aarch64Pops, Aarch64TruthTyped, Aarch64ConditionsHold DEF B!Compare
  <2>2. Combined(v)
    BY <1>9, <2>1 DEF B!Compare, B!popped
  <2> QED BY <2>1, <2>2, <1>1, Aarch64Mapping DEF StackC!ComparisonOp
<1> QED BY <1>2, <1>3, <1>4, <1>7, <1>8, <1>9

LEMMA Aarch64MovingSteps ==
  ASSUME B!TypeOK, trap = FALSE, trap' = FALSE
  PROVE  /\ B!Drop => B!TypeOK' /\ StackC!Drop
         /\ B!Swap => B!TypeOK' /\ StackC!Swap
         /\ \A n \in Size : B!Assign(n) => B!TypeOK' /\ StackC!Assign(n)
         /\ B!ReverseAssign => B!TypeOK' /\ StackC!ReverseAssign
<1>1. ASSUME B!Drop PROVE B!TypeOK' /\ StackC!Drop
  <2>1. /\ rest' = B!Front(rest) /\ top' = B!Last(rest) /\ UNCHANGED mem /\ B!Onward
        /\ B!Runs(1)
    BY <1>1 DEF B!Drop, B!InX0, B!POP, B!popped
  <2>2. Append(B!Front(rest), B!Last(rest)) = rest
    BY <2>1, FrontAndTop DEF B!Runs, B!TypeOK, B!Front, Front, B!Last, Last
  <2>3. B!TypeOK'
    BY <2>1, Aarch64Pops, Aarch64OnwardTyped DEF B!TypeOK
  <2>4. StackC!Leaves(StackC!Front(Append(rest, top)), mem)
    BY <2>1, <2>2, Aarch64Mapping DEF StackC!Leaves, B!Onward
  <2> QED BY <2>1, <2>3, <2>4, Aarch64Mapping, 1 + 1 = 2 DEF StackC!Drop
<1>2. ASSUME B!Swap PROVE B!TypeOK' /\ StackC!Swap
  <2>1. /\ rest' = Append(B!Front(rest), top) /\ top' = B!Last(rest) /\ UNCHANGED mem
        /\ B!Onward /\ B!Runs(1)
    BY <1>2 DEF B!Swap, B!InX0, B!popped
  <2>2. B!TypeOK'
    <3>1. B!Front(rest) \in Seq(Word) /\ B!Last(rest) \in Word /\ top \in Word /\ mem \in Memory
      BY <2>1, Aarch64Pops DEF B!TypeOK
    <3>2. rest' \in Seq(Word) /\ top' \in Word /\ mem' \in Memory
      BY <2>1, <3>1
    <3> QED BY <2>1, <3>2, Aarch64OnwardTyped
  <2>3. StackC!Leaves(Append(Append(B!Front(rest), top), B!Last(rest)), mem)
    BY <2>1, Aarch64Mapping DEF StackC!Leaves, B!Onward
  <2> QED BY <2>1, <2>2, <2>3, Aarch64Mapping, 1 + 1 = 2 DEF StackC!Swap
<1>3. ASSUME NEW n \in Size, B!Assign(n) PROVE B!TypeOK' /\ StackC!Assign(n)
  <2>1. /\ rest' = B!Front(rest) /\ top' = top /\ mem' = Store(mem, B!Last(rest), n, top)
        /\ B!Onward /\ B!Runs(1)
    BY <1>3 DEF B!Assign, B!POP, B!popped
  <2>2. mem' \in Memory
    BY <2>1, Aarch64Pops, MemoryTyped DEF B!TypeOK
  <2>3. B!TypeOK'
    BY <2>1, <2>2, Aarch64Pops, Aarch64OnwardTyped
  <2>4. StackC!Leaves(Append(B!Front(rest), top), Store(mem, B!Last(rest), n, top))
    BY <2>1, Aarch64Mapping DEF StackC!Leaves, B!Onward
  <2> QED BY <2>1, <2>3, <2>4, Aarch64Mapping, 1 + 1 = 2 DEF StackC!Assign
<1>4. ASSUME B!ReverseAssign PROVE B!TypeOK' /\ StackC!ReverseAssign
  <2> DEFINE r == B!Front(rest)
  <2>1. /\ rest' = B!Front(r) /\ top' = B!Last(r) /\ mem' = Store(mem, top, 8, B!Last(rest))
        /\ B!Onward /\ B!Runs(2)
    BY <1>4 DEF B!ReverseAssign, B!popped
  <2>2. /\ r \in Seq(Word) /\ Len(r) >= 1 /\ B!Last(rest) \in Word /\ top \in Word
    BY <2>1, FrontAndTop DEF B!Runs, B!TypeOK, B!Front, Front, B!Last, Last
  <2>3. Append(B!Front(r), B!Last(r)) = r
    BY <2>2, FrontAndTop DEF B!Front, Front, B!Last, Last
  <2>4. rest' \in Seq(Word) /\ top' \in Word
    BY <2>1, <2>2, FrontAndTop DEF B!Front, Front, B!Last, Last
  <2>5. mem' \in Memory
    BY <2>1, <2>2, MemoryTyped DEF B!TypeOK, B!Size, Size
  <2>6. B!TypeOK'
    BY <2>1, <2>4, <2>5, Aarch64OnwardTyped
  <2>7. StackC!Leaves(r, Store(mem, top, 8, B!Last(rest)))
    BY <2>1, <2>3, Aarch64Mapping DEF StackC!Leaves, B!Onward
  <2> QED BY <2>1, <2>6, <2>7, Aarch64Mapping, 2 + 1 = 3 DEF StackC!ReverseAssign
<1> QED BY <1>1, <1>2, <1>3, <1>4

LEMMA Aarch64ControlSteps ==
  ASSUME B!TypeOK, trap = FALSE, trap' = FALSE
  PROVE  /\ B!If => B!TypeOK' /\ StackC!If
         /\ B!AndThen => B!TypeOK' /\ StackC!AndThen
         /\ B!OrElse => B!TypeOK' /\ StackC!OrElse
         /\ \A r \in Sites : B!Call(r) => B!TypeOK' /\ StackC!Call(r)
         /\ B!Return => B!TypeOK' /\ StackC!Return
<1>1. ASSUME B!Runs(1), B!POP, top' = B!popped
      PROVE  Append(rest', top') = rest /\ rest' \in Seq(Word) /\ top' \in Word
  <2>1. Append(B!Front(rest), B!Last(rest)) = rest
    BY <1>1, FrontAndTop DEF B!Runs, B!TypeOK, B!Front, Front, B!Last, Last
  <2> QED BY <1>1, <2>1, Aarch64Pops DEF B!POP, B!popped
<1>2. B!On \in B!Goes /\ B!Jump \in B!Goes /\ \A r \in Word : B!ReturnTo(r) \in B!Goes
  BY DEF B!Goes, Goes
<1>3. ASSUME B!If PROVE B!TypeOK' /\ StackC!If
  <2>1. B!TypeOK'
    BY <1>1, <1>2, <1>3 DEF B!If, B!TypeOK
  <2>2. StackC!Running(2)
    BY <1>3, Aarch64Mapping, 1 + 1 = 2 DEF B!If
  <2>3. StackC!If
    BY <1>1, <1>3, <2>2, Aarch64Mapping DEF B!If, StackC!If
  <2> QED BY <2>1, <2>3
<1>4. ASSUME NEW b \in BOOLEAN, NEW decides \in BOOLEAN, decides <=> ~b,
             B!ShortCircuit(b)
      PROVE  B!TypeOK' /\ StackC!ShortCircuit(decides)
  <2>1. B!TypeOK'
    BY <1>1, <1>2, <1>4 DEF B!ShortCircuit, B!TypeOK
  <2>2. StackC!Running(2)
    BY <1>4, Aarch64Mapping, 1 + 1 = 2 DEF B!ShortCircuit
  <2>3. StackC!ShortCircuit(decides)
    BY <1>1, <1>4, <2>2, Aarch64Mapping DEF B!ShortCircuit, StackC!ShortCircuit
  <2> QED BY <2>1, <2>3
<1>5. (B!AndThen => B!TypeOK' /\ StackC!AndThen) /\ (B!OrElse => B!TypeOK' /\ StackC!OrElse)
  BY <1>4, Aarch64Mapping DEF B!AndThen, B!OrElse, StackC!AndThen, StackC!OrElse
<1>6. ASSUME NEW r \in Sites, B!Call(r) PROVE B!TypeOK' /\ StackC!Call(r)
  <2>1. r \in Word /\ FrameOf(r) \in Word /\ B!LOAD_AHEAD(FrameOf(r)) = FrameOf(r)
    BY ConstantsTyped, Aarch64Literal
  <2>2. /\ B!Runs(1) /\ B!POP /\ top' = B!popped /\ goes' = B!Jump /\ link' = r
        /\ base' = Alu("+", base, FrameOf(r)) /\ mem' = Store(mem, base', 8, r)
    BY <1>6, <2>1 DEF B!Call
  <2>3. base' \in Word
    BY <2>1, <2>2, AluTyped DEF B!TypeOK, B!Total, Total
  <2>4. mem' \in Memory
    BY <2>1, <2>2, <2>3, MemoryTyped DEF B!TypeOK, B!Size, Size
  <2>5. B!TypeOK'
    BY <1>1, <1>2, <2>1, <2>2, <2>3, <2>4 DEF B!TypeOK
  <2>6. StackC!Running(2)
    BY <2>2, Aarch64Mapping, 1 + 1 = 2
  <2>7. StackC!Call(r)
    BY <1>1, <2>2, <2>6, Aarch64Mapping DEF StackC!Call
  <2> QED BY <2>5, <2>7
<1>7. ASSUME B!Return PROVE B!TypeOK' /\ StackC!Return
  <2> DEFINE r == Load(mem, base, 8)
  <2>1. r \in Word
    BY MemoryTyped DEF B!TypeOK, B!Size, Size
  <2>2. FrameOf(r) \in Word /\ B!LOAD_AHEAD(FrameOf(r)) = FrameOf(r)
    BY <2>1, ConstantsTyped, Aarch64Literal
  <2>3. /\ B!Runs(0) /\ goes' = B!ReturnTo(r) /\ link' = r
        /\ base' = Alu("-", base, FrameOf(r)) /\ UNCHANGED <<top, rest, mem>>
    BY <1>7, <2>2 DEF B!Return
  <2>4. B!TypeOK'
    BY <1>2, <2>1, <2>2, <2>3, AluTyped DEF B!TypeOK, B!Total, Total
  <2>5. StackC!Running(1)
    BY <2>3, Aarch64Mapping, 0 + 1 = 1
  <2>6. StackC!Return
    BY <2>3, <2>5, Aarch64Mapping DEF StackC!Return
  <2> QED BY <2>4, <2>6
<1> QED BY <1>3, <1>5, <1>6, <1>7

------------------------------------------------------------------------------
LEMMA Aarch64Starts ==
  ASSUME B!Init, trap = FALSE
  PROVE  B!TypeOK /\ StackC!Init
<1>1. PICK argc \in Numbers : rest = <<argc>>
  BY DEF B!Init
<1>2. B!TypeOK
  BY <1>1, ConstantsTyped, TwoWords DEF B!Init, B!TypeOK, B!Goes, Goes
<1>3. Append(rest, top) = <<argc, top>>
  BY <1>1, <1>2, ConstantsTyped, TwoWords DEF B!TypeOK
<1>4. StackC!Init
  <2>1. top \in Numbers /\ base = Base /\ mem = Image /\ goes = B!On /\ token = StackC!None
    BY DEF B!Init, B!None, None, StackC!None
  <2>2. StackC!On = B!On
    BY <1>2, Aarch64Mapping
  <2> QED BY <1>3, <2>1, <2>2 DEF StackC!Init
<1> QED BY <1>2, <1>4

LEMMA Aarch64Steps ==
  ASSUME B!TypeOK, trap = FALSE, trap' = FALSE, B!Next
  PROVE  B!TypeOK' /\ StackC!Next
<1>0. B!Size = Size /\ StackC!Size = Size
  BY DEF B!Size, Size, StackC!Size
<1>1. CASE B!Pushing
  BY <1>1, Aarch64PushSteps DEF B!Pushing, StackC!Pushing, StackC!Next
<1>2. CASE B!Replacing
  BY <1>0, <1>2, Aarch64UnarySteps DEF B!Replacing, StackC!Replacing, StackC!Next
<1>3. CASE B!Combining
  <2>1. /\ \A op \in {"+", "*", "&", "|", "^", "-", "<<", ">>"} : op \in StackC!Total
        /\ Division = StackC!Division /\ Comparison = StackC!Comparison
        /\ B!Division = Division /\ B!Comparison = Comparison
    BY DEF StackC!Total, B!Division, Division, B!Comparison, Comparison, StackC!Division, StackC!Comparison
  <2>2. ASSUME NEW op \in {"+", "*", "&", "|", "^"}, token' = <<op>>, B!Commuting(op) PROVE B!TypeOK' /\ StackC!Combining
    BY <2>1, <2>2, Aarch64BinarySteps DEF StackC!Combining, Division
  <2>3. ASSUME token' = <<"-">>, B!Subtract PROVE B!TypeOK' /\ StackC!Combining
    BY <2>1, <2>3, Aarch64BinarySteps DEF StackC!Combining, Division
  <2>4. ASSUME NEW op \in {"<<", ">>"}, token' = <<op>>, B!Shift(op) PROVE B!TypeOK' /\ StackC!Combining
    BY <2>1, <2>4, Aarch64BinarySteps DEF StackC!Combining, Division
  <2>5. ASSUME NEW op \in {"/", "/s"}, token' = <<op>>, B!Divide(op) PROVE B!TypeOK' /\ StackC!Combining
    BY <2>1, <2>5, Aarch64BinarySteps DEF StackC!Combining, Division
  <2>6. ASSUME token' = <<"%">>, B!Modulo("%", "/") PROVE B!TypeOK' /\ StackC!Combining
    BY <2>1, <2>6, Aarch64BinarySteps DEF StackC!Combining, Division
  <2>7. ASSUME token' = <<"%s">>, B!Modulo("%s", "/s") PROVE B!TypeOK' /\ StackC!Combining
    BY <2>1, <2>7, Aarch64BinarySteps DEF StackC!Combining, Division
  <2>8. ASSUME NEW op \in Comparison, token' = <<op>>, B!Compare(op) PROVE B!TypeOK' /\ StackC!Combining
    BY <2>1, <2>8, Aarch64BinarySteps DEF StackC!Combining, Division
  <2> QED BY <1>3, <2>1, <2>2, <2>3, <2>4, <2>5, <2>6, <2>7, <2>8 DEF B!Combining, StackC!Next
<1>4. CASE B!Moving
  BY <1>0, <1>4, Aarch64MovingSteps DEF B!Moving, StackC!Moving, StackC!Next
<1>5. CASE B!Turning
  BY <1>5, Aarch64ControlSteps DEF B!Turning, StackC!Turning, StackC!Next
<1> QED BY <1>1, <1>2, <1>3, <1>4, <1>5 DEF B!Next

------------------------------------------------------------------------------
(* Both.                                                                   *)

\* The target in use has what its code assumes of its registers.
TargetInv ==
  \/ target = "amd64" /\ A!TypeOK
  \/ target = "aarch64" /\ B!TypeOK /\ trap = FALSE

LEMMA TargetStarts == TargetInit => TargetInv /\ StackC!Init
<1>1. ASSUME target = "amd64", A!Init PROVE TargetInv /\ StackC!Init
  BY <1>1, Amd64Starts DEF TargetInv
<1>2. ASSUME target = "aarch64", B!Init, trap = FALSE PROVE TargetInv /\ StackC!Init
  BY <1>2, Aarch64Starts DEF TargetInv
<1> QED BY <1>1, <1>2 DEF TargetInit

LEMMA TargetSteps == TargetInv /\ [TargetNext]_target_vars => TargetInv' /\ [StackC!Next]_(StackC!svars)
<1> SUFFICES ASSUME TargetInv, [TargetNext]_target_vars PROVE TargetInv' /\ [StackC!Next]_(StackC!svars)
  OBVIOUS
<1>1. CASE UNCHANGED target_vars
  BY <1>1 DEF TargetInv, target_vars, A!TypeOK, B!TypeOK, StackC!svars
<1>2. ASSUME target = "amd64", A!Next, target' = target PROVE TargetInv' /\ StackC!Next
  BY <1>2, Amd64Steps DEF TargetInv
<1>3. ASSUME target = "aarch64", B!Next, target' = target, trap' = trap PROVE TargetInv' /\ StackC!Next
  BY <1>3, Aarch64Steps DEF TargetInv
<1> QED BY <1>1, <1>2, <1>3 DEF TargetNext

\* Registers and memory hold words, the operand stack is a sequence of words,
\* and the aarch64 code does not trap, after every token stack_c_amd64.c and
\* stack_c_aarch64.c translate.
THEOREM TypeCorrect == TargetSpec => []TargetInv
<1> QED BY TargetStarts, TargetSteps, PTL DEF TargetSpec

\* The instructions stack_c_amd64.c and stack_c_aarch64.c emit for a token do
\* what the language says of that very token, in every program and for every
\* width of the words: the two targets are implementations of one machine.
THEOREM Implements == TargetSpec => ImplementsStackC
<1> QED BY TargetStarts, TargetSteps, TypeCorrect, PTL DEF TargetSpec, StackC!Spec, ImplementsStackC
==============================================================================
