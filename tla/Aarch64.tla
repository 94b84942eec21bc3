------------------------------- MODULE Aarch64 -------------------------------
(***************************************************************************)
(* The code stack_c_aarch64.c emits for every token, run by the processor. *)
(* The top of the operand stack is in x0, the rest is the stack x18 points *)
(* to, x17 is the base of the locals, x30 the link register.  x1, x2, x16  *)
(* and the flags carry nothing from one token to the next.  A primed       *)
(* variable read in an action is the register after the instructions       *)
(* written before it.                                                      *)
(***************************************************************************)
EXTENDS Words

VARIABLES token, x0, st, x17, x30, mem, goes

cpu == <<token, x0, st, x17, x30, mem, goes>>

\* The program has at least n words below the top.
Runs(n) == Len(st) >= n
Room == Len(st) < MaxDepth
Onward == goes' = On /\ UNCHANGED <<x17, x30>>
InX0(w) == x0' = w /\ Onward /\ UNCHANGED mem

\* PUSH_X0, and POP_X1 / POP_X0 with what was popped.
PUSH_X0 == st' = Append(st, x0)
POP == st' = Front(st)
popped == Last(st)

\* LOAD_W?_AHEAD; SKIP_32_DATA; a literal of four bytes, zero extended.
LOAD_AHEAD(w) == Low(4, w)

\* CMP_X1_X0 leaves the carry set when there is no borrow; CSET_X0_cc.
CMP(x, y) == [c |-> ~Less(x, y), z |-> x = y, nv |-> LessS(x, y)]
CSET(op, f) ==
  CASE op = "<"   -> ~f.c                   \* CC
    [] op = ">"   -> f.c /\ ~f.z            \* HI
    [] op = "<="  -> ~f.c \/ f.z            \* LS
    [] op = ">="  -> f.c                    \* CS
    [] op = "<s"  -> f.nv                   \* LT
    [] op = "<=s" -> f.nv \/ f.z            \* LE
    [] op = ">s"  -> ~f.nv /\ ~f.z          \* GT
    [] op = ">=s" -> ~f.nv                  \* GE
    [] op = "=="  -> f.z                    \* EQ
    [] op = "!="  -> ~f.z                   \* NE

\* UDIV and SDIV do not trap: a division by zero gives zero, and the one
\* quotient that overflows is the dividend.
DIV(op, x, y) ==
  CASE ~NoQuotient(op, x, y) -> Alu(op, x, y)
    [] NoQuotient(op, x, y) /\ y = Zero -> Zero
    [] OTHER -> x

\* Wrong: the product minus the dividend.
MSUB_reversed(x2, x1, x) == Alu("-", Alu("*", x2, x1), x)
\* MSUB_X0_X2_X1_X0
MSUB(x2, x1, x) == Alu("-", x, Alu("*", x2, x1))

------------------------------------------------------------------------------
\* PUSH_X0; LOAD_W0_AHEAD
Number(w) == Runs(0) /\ Room /\ PUSH_X0 /\ InX0(LOAD_AHEAD(w))

\* PUSH_X0; LOAD_W1_AHEAD; ADD_X0_X17_X1
Local(o) == Runs(0) /\ Room /\ PUSH_X0 /\ InX0(Alu("+", x17, LOAD_AHEAD(o)))

Dup == Runs(0) /\ Room /\ PUSH_X0 /\ InX0(x0)
Drop == Runs(1) /\ POP /\ InX0(popped)

\* MOV_X1_X0; POP_X0; PUSH_X1
Swap == Runs(1) /\ st' = Append(Front(st), x0) /\ InX0(popped)

\* POP_X1; ADD_X0_X0_X1 and its like
Commuting(op) == Runs(1) /\ POP /\ InX0(Alu(op, x0, popped))

\* POP_X1; SUB_X0_X1_X0
Subtract == Runs(1) /\ POP /\ InX0(Alu("-", popped, x0))

\* MOV_X1_X0; POP_X0; LSL_X0_X0_X1.  The count is taken modulo the width.
Shift(op) == Runs(1) /\ POP /\ InX0(Alu(op, popped, x0))

\* MOV_X1_X0; POP_X0; UDIV_X0_X0_X1 or SDIV_X0_X0_X1
Divide(op) == Runs(1) /\ POP /\ InX0(DIV(op, popped, x0))

\* MOV_X1_X0; POP_X0; UDIV_X2_X0_X1 (SDIV); MSUB_X0_X2_X1_X0
Modulo(op, quotient) ==
  Runs(1) /\ POP /\ InX0(MSUB(DIV(quotient, popped, x0), x0, popped))

\* POP_X1; CMP_X1_X0; CSET_X0_cc
Compare(op) == Runs(1) /\ POP /\ InX0(Truth(CSET(op, CMP(popped, x0))))

\* CMP_X0_0; CSET_X0_EQ
LogicalNot == Runs(0) /\ UNCHANGED st /\ InX0(Truth(CSET("==", CMP(x0, Zero))))
Complement == Runs(0) /\ UNCHANGED st /\ InX0(Not(x0))

\* SXTB_X0_W0 / SXTH_X0_W0 / SXTW_X0_W0
Extend(n) == Runs(0) /\ UNCHANGED st /\ InX0(Sext(n, x0))

\* LDRB_W0_X0 / LDRH_W0_X0 / LDR_W0_X0 / LDR_X0_X0
Get(n) == Runs(0) /\ UNCHANGED st /\ InX0(Load(mem, x0, n))

\* LDR_X0_X0; LOAD_W1_AHEAD; ADD_X0_X0_X1
Arrow(o) ==
  Runs(0) /\ UNCHANGED st /\ InX0(Alu("+", Load(mem, x0, 8), LOAD_AHEAD(o)))

\* POP_X1; STRB_W0_X1 / STRH_W0_X1 / STR_W0_X1 / STR_X0_X1
Assign(n) ==
  Runs(1) /\ POP /\ mem' = Store(mem, popped, n, x0) /\ Onward /\ UNCHANGED x0

\* POP_X1; STR_X1_X0; POP_X0
ReverseAssign ==
  /\ Runs(2)
  /\ mem' = Store(mem, x0, 8, popped)
  /\ st' = Front(Front(st)) /\ x0' = Last(Front(st)) /\ Onward

\* CMP_X0_0; POP_X0; SKIP_INST_NE over the branch to the else
If ==
  /\ Runs(1)
  /\ POP /\ x0' = popped
  /\ goes' = (IF x0 # Zero THEN On ELSE Jump)
  /\ UNCHANGED <<x17, x30, mem>>

\* CMP_X0_0; SKIP_INST_NE (or EQ) over the branch to the end; POP_X0
ShortCircuit(skips) ==
  /\ Runs(1)
  /\ \/ ~skips /\ goes' = Jump /\ UNCHANGED <<x0, st>>
     \/ skips /\ goes' = On /\ POP /\ x0' = popped
  /\ UNCHANGED <<x17, x30, mem>>
AndThen == ShortCircuit(x0 # Zero)
OrElse == ShortCircuit(x0 = Zero)

\* LOAD_W1_AHEAD; ADD_X17_X17_X1; SET_X16_FROM_X0; BLR_X16 leaves r in x30;
\* at f: STR_X30_BP; POP_X0.
Call(r) ==
  /\ Runs(1)
  /\ x17' = Alu("+", x17, LOAD_AHEAD(FrameOf(r)))
  /\ x30' = r
  /\ mem' = Store(mem, x17', 8, x30')
  /\ POP /\ x0' = popped
  /\ goes' = Jump

\* LDR_X30_BP; RETURN; then LOAD_W1_AHEAD; SUB_X17_X17_X1.
Return ==
  /\ Runs(0)
  /\ x30' = Load(mem, x17, 8)
  /\ goes' = ReturnTo(x30')
  /\ x17' = Alu("-", x17, LOAD_AHEAD(FrameOf(x30')))
  /\ UNCHANGED <<x0, st, mem>>

\* Each step is one token's, and token says which.
Pushing ==
  \/ \E w \in Numbers : token' = <<"number", w>> /\ Number(w)
  \/ \E o \in Offset : token' = <<"local", o>> /\ Local(o)
  \/ token' = <<"$">> /\ Dup
Replacing ==
  \/ token' = <<"~">> /\ Complement
  \/ token' = <<"!">> /\ LogicalNot
  \/ \E n \in {1, 2, 4} : token' = <<"sext", n>> /\ Extend(n)
  \/ \E n \in Size : token' = <<"?", n>> /\ Get(n)
  \/ \E o \in Offset : token' = <<"->", o>> /\ Arrow(o)
Combining ==
  \/ \E op \in {"+", "*", "&", "|", "^"} : token' = <<op>> /\ Commuting(op)
  \/ token' = <<"-">> /\ Subtract
  \/ \E op \in {"<<", ">>"} : token' = <<op>> /\ Shift(op)
  \/ \E op \in {"/", "/s"} : token' = <<op>> /\ Divide(op)
  \/ token' = <<"%">> /\ Modulo("%", "/")
  \/ token' = <<"%s">> /\ Modulo("%s", "/s")
  \/ \E op \in Comparison : token' = <<op>> /\ Compare(op)
Moving ==
  \/ token' = <<";">> /\ Drop
  \/ token' = <<"><">> /\ Swap
  \/ \E n \in Size : token' = <<"=", n>> /\ Assign(n)
  \/ token' = <<"=:">> /\ ReverseAssign
Turning ==
  \/ token' = <<"if">> /\ If
  \/ token' = <<"&&">> /\ AndThen
  \/ token' = <<"||">> /\ OrElse
  \/ \E r \in Sites : token' = <<"()", r>> /\ Call(r)
  \/ token' = <<"return">> /\ Return
Next == Pushing \/ Replacing \/ Combining \/ Moving \/ Turning

\* _start sets x17 and leaves argc and argv on the stack.
Init ==
  /\ token = None /\ x0 \in Numbers /\ st \in {<<argc>> : argc \in Numbers}
  /\ x17 = Base /\ x30 \in Sites /\ mem = Image /\ goes = On

Spec == Init /\ [][Next]_cpu

TypeOK ==
  /\ x0 \in Word /\ st \in Seq(Word) /\ x17 \in Word /\ x30 \in Word
  /\ mem \in Memory /\ goes \in Goes
==============================================================================
