-------------------------------- MODULE Amd64 --------------------------------
(***************************************************************************)
(* The code stack_c_amd64.c emits for every token, run by the processor.   *)
(* The top of the operand stack is in rax, the rest on the hardware stack, *)
(* rbp is the base of the locals.  rbx, rcx, rdx and the flags carry       *)
(* nothing from one token to the next, so they appear inside the actions   *)
(* only.  A primed variable read in an action is the register after the    *)
(* instructions written before it.                                         *)
(***************************************************************************)
EXTENDS Words

VARIABLES token, rax, hw, rbp, mem, goes, trap

cpu == <<token, rax, hw, rbp, mem, goes, trap>>

\* The program has at least n words below the top; the process still runs.
Runs(n) == ~trap /\ Len(hw) >= n
Room == Len(hw) < MaxDepth
Onward == goes' = On /\ UNCHANGED <<rbp, trap>>
InRax(w) == rax' = w /\ Onward /\ UNCHANGED mem

\* push_rax, and pop_rbx / pop_rax with what was popped.
push_rax == hw' = Append(hw, rax)
pop == hw' = Front(hw)
popped == Last(hw)

\* Wrong: cmp_rax,rbx, which exchanges < and >.
cmp_reversed(x, y) == [b |-> Less(y, x), e |-> x = y, l |-> LessS(y, x)]
\* cmp_x,y and the conditions of setcc_al.
cmp(x, y) == [b |-> Less(x, y), e |-> x = y, l |-> LessS(x, y)]
setcc(op, f) ==
  CASE op = "<"   -> f.b                    \* setb_al
    [] op = ">"   -> ~(f.b \/ f.e)          \* seta_al
    [] op = "<="  -> f.b \/ f.e             \* setbe_al
    [] op = ">="  -> ~f.b                   \* setae_al
    [] op = "<s"  -> f.l                    \* setl_al
    [] op = "<=s" -> f.l \/ f.e             \* setle_al
    [] op = ">s"  -> ~(f.l \/ f.e)          \* setg_al
    [] op = ">=s" -> ~f.l                   \* setge_al
    [] op = "=="  -> f.e                    \* sete_al
    [] op = "!="  -> ~f.e                   \* setne_al

\* setcc_al writes the low byte of rax, movzx_rax,al clears the others.
al(b) == Low(1, Put(1, rax, Truth(b)))

------------------------------------------------------------------------------
\* push_rax; mov_rax, imm32.  Writing eax clears the upper half of rax.
Number(w) == Runs(0) /\ Room /\ push_rax /\ InRax(Low(4, w))

\* push_rax; lea_rax,[rbp+DWORD]
Local(o) == Runs(0) /\ Room /\ push_rax /\ InRax(Alu("+", rbp, Sext(4, o)))

Dup == Runs(0) /\ Room /\ push_rax /\ InRax(rax)
Drop == Runs(1) /\ pop /\ InRax(popped)

\* mov_rbx,rax; pop_rax; push_rbx
Swap == Runs(1) /\ hw' = Append(Front(hw), rax) /\ InRax(popped)

\* pop_rbx; add_rax,rbx and its like
Commuting(op) == Runs(1) /\ pop /\ InRax(Alu(op, rax, popped))

\* pop_rbx; sub_rbx,rax; mov_rax,rbx
Subtract == Runs(1) /\ pop /\ InRax(Alu("-", popped, rax))

\* mov_rcx,rax; pop_rax; shl_rax,cl.  The count is taken modulo the width.
Shift(op) == Runs(1) /\ pop /\ InRax(Alu(op, popped, rax))

\* mov_rbx,rax; pop_rax; then div or idiv of rdx:rax by rbx, with rdx zeroed
\* or filled by cqo, which leaves quotient and remainder in rax and rdx.
Divide(op) ==
  /\ Runs(1)
  /\ \/ NoQuotient(op, popped, rax)
        /\ trap' = TRUE /\ UNCHANGED <<rax, hw, rbp, mem, goes>>
     \/ ~NoQuotient(op, popped, rax) /\ pop /\ InRax(Alu(op, popped, rax))

\* pop_rbx; cmp_rbx,rax; setcc_al; movzx_rax,al
Compare(op) == Runs(1) /\ pop /\ InRax(al(setcc(op, cmp(popped, rax))))

\* test_rax,rax; sete_al; movzx_rax,al
LogicalNot == Runs(0) /\ UNCHANGED hw /\ InRax(al(rax = Zero))
Complement == Runs(0) /\ UNCHANGED hw /\ InRax(Not(rax))

\* movsx_rax,al / ax / eax
Extend(n) == Runs(0) /\ UNCHANGED hw /\ InRax(Sext(n, rax))

\* ?1: mov_al,[rax]; movzx_rax,al.   ?2: mov_ax,[rax]; and_rax, %65535.
\* ?4: mov_ebx,[rax]; xor_rax,rax; mov_eax,ebx.   ?: mov_rax,[rax].
Get(n) ==
  /\ Runs(0) /\ UNCHANGED hw
  /\ LET w == Load(mem, rax, n) IN
       InRax(IF n \in {1, 2} THEN Low(n, Put(n, rax, w)) ELSE Low(n, w))

\* mov_rax,[rax]; add_rax, imm32
Arrow(o) == Runs(0) /\ UNCHANGED hw /\ InRax(Alu("+", Load(mem, rax, 8), Sext(4, o)))

\* pop_rbx; mov_[rbx],al / ax / eax / rax
Assign(n) ==
  Runs(1) /\ pop /\ mem' = Store(mem, popped, n, rax) /\ Onward /\ UNCHANGED rax

\* pop_rbx; mov_[rax],rbx; pop_rax
ReverseAssign ==
  /\ Runs(2)
  /\ mem' = Store(mem, rax, 8, popped)
  /\ hw' = Front(Front(hw)) /\ rax' = Last(Front(hw)) /\ Onward

\* test_rax,rax; pop_rax; je else
If ==
  /\ Runs(1)
  /\ pop /\ rax' = popped
  /\ goes' = (IF rax = Zero THEN Jump ELSE On)
  /\ UNCHANGED <<rbp, mem, trap>>

\* test_rax,rax; je and_end (or jne or_end); pop_rax
ShortCircuit(jumps) ==
  /\ Runs(1)
  /\ \/ jumps /\ goes' = Jump /\ UNCHANGED <<rax, hw>>
     \/ ~jumps /\ goes' = On /\ pop /\ rax' = popped
  /\ UNCHANGED <<rbp, mem, trap>>
AndThen == ShortCircuit(rax = Zero)
OrElse == ShortCircuit(rax # Zero)

\* add_rbp, 8*pos; call_rax pushes r; at f: pop_rax; mov_[rbp],rax; pop_rax.
Call(r) ==
  LET pushed == Append(hw, r) IN
  /\ Runs(1)
  /\ rbp' = Alu("+", rbp, Sext(4, FrameOf(r)))
  /\ mem' = Store(mem, rbp', 8, Last(pushed))
  /\ rax' = Last(Front(pushed)) /\ hw' = Front(Front(pushed))
  /\ goes' = Jump /\ UNCHANGED trap

\* mov_rbx,[rbp]; push_rbx; ret; and at the return address sub_rbp, 8*pos.
Return ==
  /\ Runs(0)
  /\ LET pushed == Append(hw, Load(mem, rbp, 8)) IN
       /\ goes' = ReturnTo(Last(pushed))
       /\ hw' = Front(pushed)
       /\ rbp' = Alu("-", rbp, Sext(4, FrameOf(Last(pushed))))
  /\ UNCHANGED <<rax, mem, trap>>

\* Each step is one token's, and token says which.
Pushing ==
  \/ \E w \in Numbers : token' = <<"number", w>> /\ Number(w)
  \/ \E o \in Offset : token' = <<"local", o>> /\ Local(o)
  \/ token' = <<"$">> /\ Dup
Replacing ==
  \/ token' = <<"~">> /\ Complement
  \/ token' = <<"!">> /\ LogicalNot
  \/ \E n \in {1, 2, 4} : token' = <<"sext", n>> /\ Extend(n)
  \/ \E n \in Size : token' = <<"?", n>> /\ Get(n)
  \/ \E o \in Offset : token' = <<"->", o>> /\ Arrow(o)
Combining ==
  \/ \E op \in {"+", "*", "&", "|", "^"} : token' = <<op>> /\ Commuting(op)
  \/ token' = <<"-">> /\ Subtract
  \/ \E op \in {"<<", ">>"} : token' = <<op>> /\ Shift(op)
  \/ \E op \in Division : token' = <<op>> /\ Divide(op)
  \/ \E op \in Comparison : token' = <<op>> /\ Compare(op)
Moving ==
  \/ token' = <<";">> /\ Drop
  \/ token' = <<"><">> /\ Swap
  \/ \E n \in Size : token' = <<"=", n>> /\ Assign(n)
  \/ token' = <<"=:">> /\ ReverseAssign
Turning ==
  \/ token' = <<"if">> /\ If
  \/ token' = <<"&&">> /\ AndThen
  \/ token' = <<"||">> /\ OrElse
  \/ \E r \in Sites : token' = <<"()", r>> /\ Call(r)
  \/ token' = <<"return">> /\ Return
Next == Pushing \/ Replacing \/ Combining \/ Moving \/ Turning

\* _start sets rbp and puts argc and argv on the stack.
Init ==
  /\ token = None /\ rax \in Numbers /\ hw \in {<<argc>> : argc \in Numbers}
  /\ rbp = Base /\ mem = Image /\ goes = On /\ trap = FALSE

Spec == Init /\ [][Next]_cpu

TypeOK ==
  /\ rax \in Word /\ hw \in Seq(Word) /\ rbp \in Word /\ mem \in Memory
  /\ goes \in Goes /\ trap \in BOOLEAN
==============================================================================
