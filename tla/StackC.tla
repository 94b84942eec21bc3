------------------------------- MODULE StackC --------------------------------
(***************************************************************************)
(* The translator stack_c, main() of stack_c_amd64.c: what it keeps while  *)
(* it reads the tokens of a Stack C program, that is the table of names,   *)
(* the open blocks, the position of the next local variable and the number *)
(* of the next label, and which labels its output places and jumps to.     *)
(* The instructions emitted for the other tokens are in Amd64 and Aarch64. *)
(*                                                                         *)
(* Every action is one pass of the loop over the tokens.  The programs are *)
(* the ones tcc_cc writes: functions are not nested, and control tokens    *)
(* occur in functions only.                                                *)
(***************************************************************************)
EXTENDS Naturals, Sequences

CONSTANTS
  Names,             \* of variables, constants and functions
  Sizes,             \* of variables, in words
  MAX_NR_VARIABLES, MAX_NR_STATICS, MAX_NESTING,
  MaxId,             \* bound on the labels of one function
  MaxBlocks          \* bound on the nesting of plain blocks

ASSUME SizesAreNat == Sizes \subseteq Nat

Text == Names \cup {"sys_syscall", "sys_malloc"}

VARIABLES
  idents,   \* idents[1..nr_idents]: the names in scope, innermost last
  statics,  \* the static variables, none is ever removed
  nesting,  \* the open blocks: nesting_type, nesting_id, nesting_nr_vars, nesting_pos
  pos,      \* the position of the next local variable in the frame
  id,       \* the number of the next label in this function
  error,    \* something was reported; the exit status will be 1
  status,   \* "reading", "failed" (return 1) or "done"
  placed,   \* the labels placed in the output of this function
  twice,    \* a label of this function was placed a second time
  jumps,    \* the labels jumped to in the output of this function
  refs      \* the data the output refers to

vars == <<idents, statics, nesting, pos, id, error, status, placed, twice, jumps, refs>>

Ident(type, name, p, size, value) ==
  [type |-> type, name |-> name, pos |-> p, size |-> size, value |-> value]

Reading == status = "reading"
InFunction == Reading /\ nesting # <<>>
AtTop == Reading /\ nesting = <<>>
Depth == Len(nesting)
Innermost == nesting[Depth]

Fail ==
  /\ status' = "failed"
  /\ UNCHANGED <<idents, statics, nesting, pos, id, error, placed, twice, jumps, refs>>

NoRoom == Len(idents) >= MAX_NR_VARIABLES
Known(x) == \E i \in 1..Len(idents) : idents[i].name = x

\* What a token places in the output, and where it jumps.
Emit(labels, targets) ==
  /\ placed' = placed \cup labels
  /\ twice' = (twice \/ labels \cap placed # {})
  /\ jumps' = jumps \cup targets
Quiet == UNCHANGED <<placed, twice, jumps>>

Block(type) == [type |-> type, id |-> id, nr |-> Len(idents), pos |-> pos]

EndOf == [L |-> "loop_end", W |-> "switch_end", I |-> "else", E |-> "else_end",
          A |-> "and_end", O |-> "or_end"]
\* The label placed when a block is closed.
Ends(b) == IF b.type = " " THEN {} ELSE {<<EndOf[b.type], b.id>>}

------------------------------------------------------------------------------
\* `void f`: f becomes known, unless it was.
AddFunction(f) ==
  idents' = IF Known(f) THEN idents ELSE Append(idents, Ident("F", f, 0, 0, 0))

Forward(f) ==
  /\ AtTop
  /\ \/ ~Known(f) /\ NoRoom /\ Fail
     \/ /\ Known(f) \/ ~NoRoom
        /\ AddFunction(f)
        /\ UNCHANGED <<statics, nesting, pos, id, error, status, refs>> /\ Quiet

\* `void f {`: the body is a block of its own, its locals start after the
\* return address, its labels are numbered from 1.
Function(f) ==
  /\ AtTop
  /\ \/ ~Known(f) /\ NoRoom /\ Fail
     \/ /\ Known(f) \/ ~NoRoom
        /\ AddFunction(f)
        /\ pos' = 1 /\ id' = 1
        /\ nesting' = <<[type |-> " ", id |-> 0, nr |-> Len(idents'), pos |-> pos']>>
        /\ placed' = {} /\ twice' = FALSE /\ jumps' = {}
        /\ UNCHANGED <<statics, error, status, refs>>

\* `const x n`
Constant(x) ==
  /\ Reading
  /\ \/ NoRoom /\ Fail
     \/ /\ ~NoRoom /\ idents' = Append(idents, Ident("C", x, 0, 0, 0))
        /\ UNCHANGED <<statics, nesting, pos, id, error, status, refs>> /\ Quiet

\* `int n x`: a global variable, or a local one in the next words of the frame.
\* The table of statics is asked for room here too.
Variable(x, size) ==
  /\ Reading
  /\ \/ (NoRoom \/ Len(statics) >= MAX_NR_STATICS) /\ Fail
     \/ /\ ~NoRoom /\ Len(statics) < MAX_NR_STATICS
        /\ IF Depth = 0
           THEN idents' = Append(idents, Ident("G", x, 0, size, 0)) /\ UNCHANGED pos
           ELSE /\ idents' = Append(idents, Ident("L", x, pos, size, 0))
                /\ pos' = pos + size
        /\ UNCHANGED <<statics, nesting, id, error, status, refs>> /\ Quiet

\* Wrong: the position of the static in its table, taken after it was added.
Static_late_value(x, size) ==
  /\ Reading
  /\ \/ (NoRoom \/ Len(statics) >= MAX_NR_STATICS) /\ Fail
     \/ /\ ~NoRoom /\ Len(statics) < MAX_NR_STATICS
        /\ statics' = Append(statics, [name |-> x, size |-> size])
        /\ idents' = Append(idents, Ident("S", x, 0, size, Len(statics')))
        /\ UNCHANGED <<nesting, pos, id, error, status, refs>> /\ Quiet

\* `static n x`: known in its block, stored for good.
Static(x, size) ==
  /\ Reading
  /\ \/ (NoRoom \/ Len(statics) >= MAX_NR_STATICS) /\ Fail
     \/ /\ ~NoRoom /\ Len(statics) < MAX_NR_STATICS
        /\ statics' = Append(statics, [name |-> x, size |-> size])
        /\ idents' = Append(idents, Ident("S", x, 0, size, Len(statics)))
        /\ UNCHANGED <<nesting, pos, id, error, status, refs>> /\ Quiet

\* do, switch, if, && and || open a block with a label number of its own.
Open(type, labels, targets) ==
  /\ InFunction /\ id < MaxId
  /\ \/ Depth >= MAX_NESTING /\ Fail
     \/ /\ Depth < MAX_NESTING
        /\ nesting' = Append(nesting, Block(type)) /\ id' = id + 1
        /\ Emit(labels, targets)
        /\ UNCHANGED <<idents, statics, pos, error, status, refs>>

Loop == Open("L", {<<"loop", id>>}, {})
Switch == Open("W", {}, {})
\* Wrong: the block gets the symbol just read, the { after the if.
If_brace == Open("{", {}, {<<"else", id>>})
If == Open("I", {}, {<<"else", id>>})
And == Open("A", {}, {<<"and_end", id>>})
Or == Open("O", {}, {<<"or_end", id>>})

\* `{`: no label, no check of the depth; the block's number is never used.
PlainBlock ==
  /\ InFunction /\ Depth < MaxBlocks
  /\ nesting' = Append(nesting, Block(" "))
  /\ UNCHANGED <<idents, statics, pos, id, error, status, refs>> /\ Quiet

\* Wrong: the names of the block stay.
Unwind_position_only == idents' = idents /\ pos' = Innermost.pos
\* Wrong: the names of the blocks around it go too.
Unwind_to_function ==
  /\ idents' = SubSeq(idents, 1, nesting[1].nr)
  /\ pos' = Innermost.pos
\* `}`: the names and the frame are again what they were at the `{`.
Unwind ==
  /\ idents' = SubSeq(idents, 1, Innermost.nr)
  /\ pos' = Innermost.pos

Close ==
  /\ InFunction
  /\ Unwind /\ nesting' = SubSeq(nesting, 1, Depth - 1)
  /\ Emit(Ends(Innermost),
          IF Innermost.type = "L" THEN {<<"loop", Innermost.id>>} ELSE {})
  /\ UNCHANGED <<statics, id, error, status, refs>>

\* Wrong: the else gets a number of its own.
CloseElse_renumbered ==
  /\ InFunction /\ Innermost.type = "I"
  /\ Unwind /\ nesting' = [nesting EXCEPT ![Depth].type = "E", ![Depth].id = id]
  /\ Emit(Ends(Innermost), {<<"else_end", Innermost.id>>})
  /\ UNCHANGED <<statics, id, error, status, refs>>
\* `} else {`: the block of the else has the number of the if.  The check of
\* the depth has a block fewer to count than when the if was opened.
CloseElse ==
  /\ InFunction /\ Innermost.type = "I"
  /\ Unwind /\ nesting' = [nesting EXCEPT ![Depth].type = "E"]
  /\ Emit(Ends(Innermost), {<<"else_end", Innermost.id>>})
  /\ UNCHANGED <<statics, id, error, status, refs>>

TooManyClosed == AtTop /\ Fail

\* break leaves the innermost loop or switch, continue restarts the
\* innermost loop.
Exit(types, Target(_)) ==
  /\ InFunction
  /\ \/ (\A k \in 1..Depth : nesting[k].type \notin types) /\ Fail
     \/ \E k \in 1..Depth :
          /\ nesting[k].type \in types
          /\ \A j \in (k + 1)..Depth : nesting[j].type \notin types
          /\ Emit({}, {Target(nesting[k])})
          /\ UNCHANGED <<idents, statics, nesting, pos, id, error, status, refs>>

LoopStart(b) == <<"loop", b.id>>
LoopOrSwitchEnd(b) == <<EndOf[b.type], b.id>>
Break == Exit({"L", "W"}, LoopOrSwitchEnd)
Continue == Exit({"L"}, LoopStart)

\* A name refers to the innermost declaration of it.
Resolves(i, x) ==
  /\ i \in 1..Len(idents) /\ idents[i].name = x
  /\ \A j \in (i + 1)..Len(idents) : idents[j].name # x
Label(d) == CASE d.type = "G" -> {<<"g", d.name>>}
              [] d.type = "S" -> {<<"static", d.value, d.name>>}
              [] OTHER -> {}
Name(x) ==
  /\ InFunction
  /\ \/ ~Known(x) /\ error' = TRUE /\ UNCHANGED refs
     \/ \E i \in 1..Len(idents) :
          Resolves(i, x) /\ refs' = refs \cup Label(idents[i]) /\ UNCHANGED error
  /\ UNCHANGED <<idents, statics, nesting, pos, id, status>> /\ Quiet

\* `-> m`: m must be a constant.
Arrow(x) ==
  /\ InFunction
  /\ error' = (error \/ ~\E i \in 1..Len(idents) : Resolves(i, x) /\ idents[i].type = "C")
  /\ UNCHANGED <<idents, statics, nesting, pos, id, status, refs>> /\ Quiet

EndOfFile ==
  /\ AtTop /\ status' = "done"
  /\ UNCHANGED <<idents, statics, nesting, pos, id, error, refs>> /\ Quiet

Next ==
  \/ \E x \in Names : \/ Forward(x) \/ Function(x) \/ Constant(x) \/ Name(x) \/ Arrow(x)
                      \/ \E size \in Sizes : Variable(x, size) \/ Static(x, size)
  \/ Loop \/ Switch \/ If \/ And \/ Or \/ PlainBlock
  \/ Close \/ CloseElse \/ TooManyClosed \/ Break \/ Continue \/ EndOfFile

Init ==
  /\ idents = <<Ident("F", "sys_syscall", 0, 0, 0), Ident("F", "sys_malloc", 0, 0, 0)>>
  /\ statics = <<>> /\ nesting = <<>> /\ pos = 0 /\ id = 0
  /\ error = FALSE /\ status = "reading"
  /\ placed = {} /\ twice = FALSE /\ jumps = {} /\ refs = {}

Spec == Init /\ [][Next]_vars

------------------------------------------------------------------------------
TypeOK ==
  /\ idents \in Seq([type : {"F", "C", "G", "L", "S"}, name : Text,
                      pos : Nat, size : Nat, value : Nat])
  /\ statics \in Seq([name : Text, size : Nat])
  /\ nesting \in Seq([type : {" ", "L", "W", "I", "E", "A", "O"},
                       id : Nat, nr : Nat, pos : Nat])
  /\ pos \in Nat /\ id \in Nat /\ error \in BOOLEAN /\ twice \in BOOLEAN
  /\ status \in {"reading", "failed", "done"}

IsLocal(i) == i \in 1..Len(idents) /\ idents[i].type = "L"
EndsAt(i) == idents[i].pos + idents[i].size

\* The locals in scope lie one after the other in the frame: none shares a
\* word with another or with the return address in word 0, and the frame of a
\* function called here, which starts at word pos, is past them all.
FramesDisjoint ==
  \A i \in 1..Len(idents) : IsLocal(i) =>
     /\ 1 <= idents[i].pos /\ EndsAt(i) <= pos
     /\ \A j \in 1..(i - 1) : IsLocal(j) => EndsAt(j) <= idents[i].pos

\* When a function is closed, every label its code jumps to for its loops,
\* conditions and short circuits is placed in its code, and none twice.
JumpsLand == nesting = <<>> => jumps \subseteq placed /\ ~twice

\* The globals and statics the code refers to are in the data section written
\* at the end, also when the name went out of scope long before.
ReferencesResolve ==
  refs \subseteq
     {<<"g", idents[i].name>> : i \in {j \in 1..Len(idents) : idents[j].type = "G"}}
     \cup {<<"static", k - 1, statics[k].name>> : k \in 1..Len(statics)}

\* Nothing that happens in a block, its end included, changes what the names
\* declared before it mean.
EnclosingScopesStay ==
  [][LET outer == IF Depth = 0 THEN Len(idents) ELSE Innermost.nr IN
       Len(idents') >= outer /\ \A i \in 1..outer : idents'[i] = idents[i]]_vars
==============================================================================
