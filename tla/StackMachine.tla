---------------------------- MODULE StackMachine -----------------------------
(***************************************************************************)
(* What a Stack C program means, whatever it is translated to: an operand  *)
(* stack of words, a memory, and the base address of the current frame of  *)
(* local variables, whose first word keeps the return address.  A program  *)
(* never takes more from the stack than is there; one word always is.      *)
(* A target may do as it likes where a division has no result.             *)
(***************************************************************************)
EXTENDS Words

VARIABLES
  token,  \* the last token that ran
  stack,  \* the operand stack, top last
  mem,
  frame,  \* the base address of the local variables
  goes,   \* where the last token sent control
  trap    \* the program was stopped by the processor

svars == <<token, stack, mem, frame, goes, trap>>

\* What a comparison asks of the word below the top, x, and the top, y.
Holds(op, x, y) ==
  CASE op = "<"   -> Less(x, y)
    [] op = ">"   -> Less(y, x)
    [] op = "<="  -> ~Less(y, x)
    [] op = ">="  -> ~Less(x, y)
    [] op = "<s"  -> LessS(x, y)
    [] op = ">s"  -> LessS(y, x)
    [] op = "<=s" -> ~LessS(y, x)
    [] op = ">=s" -> ~LessS(x, y)
    [] op = "=="  -> x = y
    [] op = "!="  -> x # y

Top == Last(stack)
Below == Last(Front(stack))
Rest == Front(Front(stack))

Running(n) == ~trap /\ Len(stack) >= n
Room == Len(stack) <= MaxDepth

\* A token that leaves the stack st and the memory m and goes on.
Leaves(st, m) ==
  stack' = st /\ mem' = m /\ goes' = On /\ UNCHANGED <<frame, trap>>

------------------------------------------------------------------------------
\* A number, a constant, a character, the address of a global or a function.
Number(w) == Running(1) /\ Room /\ Leaves(Append(stack, Low(4, w)), mem)

\* The address of a local variable.
Local(o) == Running(1) /\ Room /\ Leaves(Append(stack, Alu("+", frame, o)), mem)

\* `$`, `;` and `><`.
Dup == Running(1) /\ Room /\ Leaves(Append(stack, Top), mem)
Drop == Running(2) /\ Leaves(Front(stack), mem)
Swap == Running(2) /\ Leaves(Append(Append(Rest, Top), Below), mem)

TotalOp(op) == Running(2) /\ Leaves(Append(Rest, Alu(op, Below, Top)), mem)

\* Without a quotient the program stops or goes on with some word.
DivisionOp(op) ==
  /\ Running(2)
  /\ \/ ~NoQuotient(op, Below, Top) /\ Leaves(Append(Rest, Alu(op, Below, Top)), mem)
     \/ /\ NoQuotient(op, Below, Top)
        /\ \/ trap' = TRUE /\ UNCHANGED <<stack, mem, frame, goes>>
           \/ \E w \in Word : Leaves(Append(Rest, w), mem)

ComparisonOp(op) ==
  Running(2) /\ Leaves(Append(Rest, Truth(Holds(op, Below, Top))), mem)

\* `~`, `!`, and the sign extensions char, short and long.
Complement == Running(1) /\ Leaves(Append(Front(stack), Not(Top)), mem)
LogicalNot == Running(1) /\ Leaves(Append(Front(stack), Truth(Top = Zero)), mem)
Extend(n) == Running(1) /\ Leaves(Append(Front(stack), Sext(n, Top)), mem)

\* `?n`: the address on top is replaced by the n bytes there.
Get(n) == Running(1) /\ Leaves(Append(Front(stack), Load(mem, Top, n)), mem)

\* `-> member`: the pointer at the address on top, plus the member's offset.
Arrow(o) ==
  Running(1) /\ Leaves(Append(Front(stack), Alu("+", Load(mem, Top, 8), o)), mem)

\* `=n`: the value on top is stored at the address below it and stays.
Assign(n) == Running(2) /\ Leaves(Append(Rest, Top), Store(mem, Below, n, Top))

\* `=:`: the word below the top is stored at the address on top; both go.
ReverseAssign == Running(3) /\ Leaves(Rest, Store(mem, Top, 8, Below))

\* `if {`: the top is taken; a zero jumps to the else.
If ==
  /\ Running(2)
  /\ stack' = Front(stack) /\ goes' = (IF Top = Zero THEN Jump ELSE On)
  /\ UNCHANGED <<mem, frame, trap>>

\* `&& {` and `|| {`: a top that decides the result stays and jumps to the
\* end; one that does not is taken.
ShortCircuit(decides) ==
  /\ Running(2)
  /\ IF decides THEN goes' = Jump /\ UNCHANGED stack
                ELSE goes' = On /\ stack' = Front(stack)
  /\ UNCHANGED <<mem, frame, trap>>
AndThen == ShortCircuit(Top = Zero)
OrElse == ShortCircuit(Top # Zero)

\* `()`, and the entry of the function it calls: the function's address is
\* taken, a new frame starts o bytes further, its first word returns to r.
Call(r) ==
  /\ Running(2)
  /\ stack' = Front(stack)
  /\ frame' = Alu("+", frame, FrameOf(r))
  /\ mem' = Store(mem, frame', 8, r)
  /\ goes' = Jump /\ UNCHANGED trap

\* `return`, and the code after the call it returns to.
Return ==
  /\ Running(1)
  /\ LET r == Load(mem, frame, 8) IN
       goes' = ReturnTo(r) /\ frame' = Alu("-", frame, FrameOf(r))
  /\ UNCHANGED <<stack, mem, trap>>

\* Each step is one token's, and token says which.
Pushing ==
  \/ \E w \in Numbers : token' = <<"number", w>> /\ Number(w)
  \/ \E o \in Offset : token' = <<"local", o>> /\ Local(o)
  \/ token' = <<"$">> /\ Dup
Replacing ==
  \/ token' = <<"~">> /\ Complement
  \/ token' = <<"!">> /\ LogicalNot
  \/ \E n \in {1, 2, 4} : token' = <<"sext", n>> /\ Extend(n)
  \/ \E n \in Size : token' = <<"?", n>> /\ Get(n)
  \/ \E o \in Offset : token' = <<"->", o>> /\ Arrow(o)
Combining ==
  \/ \E op \in Total : token' = <<op>> /\ TotalOp(op)
  \/ \E op \in Division : token' = <<op>> /\ DivisionOp(op)
  \/ \E op \in Comparison : token' = <<op>> /\ ComparisonOp(op)
Moving ==
  \/ token' = <<";">> /\ Drop
  \/ token' = <<"><">> /\ Swap
  \/ \E n \in Size : token' = <<"=", n>> /\ Assign(n)
  \/ token' = <<"=:">> /\ ReverseAssign
Turning ==
  \/ token' = <<"if">> /\ If
  \/ token' = <<"&&">> /\ AndThen
  \/ token' = <<"||">> /\ OrElse
  \/ \E r \in Sites : token' = <<"()", r>> /\ Call(r)
  \/ token' = <<"return">> /\ Return
Next == Pushing \/ Replacing \/ Combining \/ Moving \/ Turning

\* _start has put argc and argv on the stack and allocated the frames.
Init ==
  /\ token = None /\ stack \in {<<argc, argv>> : argc, argv \in Numbers}
  /\ mem = Image /\ frame = Base /\ goes = On /\ trap = FALSE

Spec == Init /\ [][Next]_svars
==============================================================================
