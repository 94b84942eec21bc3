---------------------------- MODULE ExpressionCode ----------------------------
(***************************************************************************)
(* gen_expr() of tcc_cc.c: the Stack C code of an expression, for values   *)
(* and for addresses; and that code run by StackMachine, the machine both  *)
(* translators implement.                                                  *)
(*                                                                         *)
(* Sizes are counted in bytes, as in the code.                             *)
(***************************************************************************)
EXTENDS Expressions, SmallWords

CONSTANTS
  Trees,             \* the expressions
  Tokens(_),         \* and the tokens they are written in
  Images,            \* the contents memory has before
  Defined(_, _),     \* whether C says what a parsed expression does to one of them
  Decls,             \* the declarations in scope
  Address,           \* of the globals
  Arity(_),          \* the number of words a function takes from the stack
  Result(_, _, _)    \* Result(name, args, m): what it gives for them

VARIABLES
  program,  \* the expression, its tokens and the memory it is evaluated in
  code,     \* the Stack C code written for it
  pc,       \* its next token
  scope,    \* the local variables of the code, and its open blocks
  stack, mem, frame, goes, trap

machine == <<stack, mem, frame, goes, trap>>
vars == <<program, code, pc, scope, machine>>

\* Taken token by token, so that which one it was is known without being kept.
M == INSTANCE StackMachine WITH token <- pc

------------------------------------------------------------------------------
(* The tokens written.                                                     *)

Written(op, n, str) == <<[op |-> op, n |-> n, str |-> str]>>
Op(op) == Written(op, 0, "")
Name(str) == Written("name", 0, str)
Declare(str, words) == Written("int", words, str)
Mask(size) == 2^(ByteBits * size) - 1
\* %u of an int.
Number(n) == Written("number", n % 2^(ByteBits * 4), "")

RECURSIVE Concat(_)
Concat(texts) == IF texts = <<>> THEN <<>> ELSE texts[1] \o Concat(Tail(texts))

\* expr_size_ind and signed_ind.
SizeOf(type) == IF type.size \in {1, 2, 4} THEN type.size ELSE 8
Signed(type) ==
  CASE type = S8 -> Written("extend", 1, "")
    [] type = S32 -> Written("extend", 4, "")
    [] OTHER -> <<>>
Fetch(type) == Written("?", SizeOf(type), "") \o Signed(type)
Assign(type) == Written("=", SizeOf(type), "")

is_lvalue(expr) ==
  expr.kind \in {"i", "->", ".", "[", "*p"} /\ expr.type.kind \notin {"array", "function"}

\* Wrong: an unsigned char is not cut down to its size.
gen_canonical_cast_signed_only(type) == Signed(type)

gen_canonical_cast(type) ==
  IF type \in {U8, U16, U32} THEN Number(Mask(type.size)) \o Op("&") ELSE Signed(type)

Multiple(type) == type.size > long_long_size
Element(expr) == IF type_is_pointer(expr.type) THEN expr.type.to[1].size ELSE 1
\* Indexes and differences of pointers count elements.
Scaled(op, expr) == IF Element(expr) > 1 THEN Number(Element(expr)) \o Op(op) ELSE <<>>

ByOneSign(kind, expr) ==
  Op(kind \o IF \E i \in DOMAIN expr.sub : type_is_signed_integer(expr.sub[i].type) THEN "s" ELSE "")

------------------------------------------------------------------------------
RECURSIVE gen_expr(_, _)

Value(expr) == gen_expr(expr, TRUE)
Place(expr) == gen_expr(expr, FALSE)
Child(expr, i) == Value(expr.sub[i])
Both(expr) == Child(expr, 1) \o Child(expr, 2)

gen_sum(expr) ==
  Both(expr)
    \o (IF Element(expr.sub[1]) > 1 THEN Scaled("*", expr.sub[1])
        ELSE IF Element(expr.sub[2]) > 1 THEN Op("><") \o Scaled("*", expr.sub[2]) ELSE <<>>)
    \o Op("+") \o gen_canonical_cast(expr.type)

gen_difference(expr) ==
  Both(expr)
    \o (IF type_is_pointer(expr.sub[1].type) /\ type_is_pointer(expr.sub[2].type)
        THEN Op("-p") \o Scaled("/", expr.sub[1])
        ELSE Scaled("*", expr.sub[1]) \o Op("-"))
    \o gen_canonical_cast(expr.type)

gen_shift_right(expr) ==
  IF expr.sub[2].kind = "0" /\ expr.sub[2].int >= long_long_size * ByteBits THEN Number(0)
  ELSE Both(expr) \o Op(">>")

\* A struct is copied word by word.
gen_copy(expr) ==
  LET At(str, i) == Name(str) \o Written("?", 8, "")
                      \o IF i = 0 THEN <<>> ELSE Number(i) \o Op("+")
      CopyWord(i) == At("trg", i) \o At("src", i) \o Written("?", 8, "") \o Written("=", 8, "") \o Op(";")
      words == (expr.type.size + long_long_size - 1) \div long_long_size
  IN  Place(expr.sub[1]) \o Place(expr.sub[2])
        \o Op("{") \o Declare("src", 1) \o Name("src") \o Op("=:")
        \o Declare("trg", 1) \o Name("trg") \o Op("=:")
        \o Concat([k \in 1..words |-> CopyWord((k - 1) * long_long_size)])
        \o At("trg", 0) \o Op("}")

gen_assignment(expr) ==
  IF Multiple(expr.type) THEN gen_copy(expr)
  ELSE Place(expr.sub[1]) \o Child(expr, 2) \o gen_canonical_cast(expr.type) \o Assign(expr.type)

\* The operator of a compound assignment.
Compound ==
  ("+=" :> "+") @@ ("-=" :> "-") @@ ("*=" :> "*") @@ ("/=" :> "/") @@ ("%=" :> "%")
    @@ ("<<=" :> "<<") @@ (">>=" :> ">>") @@ ("&=" :> "&") @@ ("^=" :> "^") @@ ("|=" :> "|")
gen_compound(expr) ==
  LET op == Compound[expr.kind] IN
  Place(expr.sub[1]) \o Op("$") \o Fetch(expr.type) \o Child(expr, 2)
    \o (IF op \in {"+", "-"} THEN Scaled("*", expr.sub[1]) ELSE <<>>)
    \o (IF op \in {"/", "%"} THEN ByOneSign(op, expr) ELSE Op(op))
    \o (IF op \in {"+", "-", "*", "/", "%"} THEN gen_canonical_cast(expr.type) ELSE <<>>)
    \o Assign(expr.type)

\* Steps(op): the variable changed by one, its new value on the stack.
Steps(expr, op) ==
  Place(expr.sub[1]) \o Op("$") \o Fetch(expr.type) \o Number(Element(expr.sub[1])) \o Op(op)
    \o gen_canonical_cast(expr.type) \o Assign(expr.type)
Back(expr, op) == Number(Element(expr.sub[1])) \o Op(op) \o gen_canonical_cast(expr.type)

gen_cast(expr) ==
  LET child == expr.sub[1] IN
  IF expr.type.kind = "base"
  THEN Value(child) \o IF child.type.kind = "base" /\ child.type = expr.type THEN <<>>
                       ELSE gen_canonical_cast(expr.type)
  ELSE Place(child) \o IF is_lvalue(child) THEN Fetch(expr.type) ELSE <<>>

gen_arrow(expr) ==
  Place(expr.sub[1])
    \o IF is_lvalue(expr.sub[1]) THEN Written("->", expr.int, "") ELSE Number(expr.int) \o Op("+")

\* The arguments behind the ones with names are put in an array.
gen_arguments(expr) ==
  LET params == expr.sub[1].type.decls
      variadic == params # <<>> /\ params[Len(params)].name = "..."
      named == IF variadic THEN Len(params) - 1 ELSE Len(expr.sub) - 1
      more == Len(expr.sub) - 1 - named
      PutArgument(k) == Name("__var_args")
                   \o (IF k > 1 THEN Number((k - 1) * long_long_size) \o Op("+") ELSE <<>>)
                   \o Child(expr, 1 + named + k) \o Written("=", 8, "") \o Op(";")
  IN  Concat([k \in 1..named |-> Child(expr, 1 + k)])
        \o CASE ~variadic -> <<>>
             [] variadic /\ more = 0 -> Number(0)
             [] variadic /\ more > 0 ->
                  Op("{") \o Declare("__var_args", more) \o Concat([k \in 1..more |-> PutArgument(k)])
                    \o Name("__var_args")
Bracketed(expr) ==
  LET params == expr.sub[1].type.decls IN
  params # <<>> /\ params[Len(params)].name = "..." /\ Len(expr.sub) > Len(params)
gen_call(expr) ==
  gen_arguments(expr) \o Place(expr.sub[1])
    \o (IF expr.sub[1].type.kind = "pointer" THEN Written("?", 8, "") ELSE <<>>)
    \o Op("()") \o (IF Bracketed(expr) THEN Op("}") ELSE <<>>)

gen_code(expr, as_value) ==
  CASE expr.kind = "i" -> Name(expr.str)
    [] expr.kind = "0" -> Number(expr.int) \o Signed(expr.type)
    [] expr.kind = "c" -> gen_cast(expr)
    [] expr.kind = "," ->
         Concat([i \in DOMAIN expr.sub |->
                   Child(expr, i) \o IF i < Len(expr.sub) THEN Op(";") ELSE <<>>])
    [] expr.kind = "!" -> Child(expr, 1) \o Op("!")
    [] expr.kind = "~" -> Child(expr, 1) \o Op("~") \o gen_canonical_cast(expr.type)
    [] expr.kind = "neg" -> Number(0) \o Child(expr, 1) \o Op("-") \o gen_canonical_cast(expr.type)
    [] expr.kind = "+" -> gen_sum(expr)
    [] expr.kind = "-" -> gen_difference(expr)
    [] expr.kind = "*" -> Both(expr) \o Op("*") \o gen_canonical_cast(expr.type)
    [] expr.kind \in {"^", "&", "|", "<<", "==", "!="} -> Both(expr) \o Op(expr.kind)
    [] expr.kind = ">>" -> gen_shift_right(expr)
    [] expr.kind \in {"/", "%"} ->
         Both(expr) \o ByOneSign(expr.kind, expr) \o gen_canonical_cast(expr.type)
    [] expr.kind \in {"<", ">", "<=", ">="} -> Both(expr) \o ByOneSign(expr.kind, expr)
    [] expr.kind = "=" -> gen_assignment(expr)
    [] expr.kind \in DOMAIN Compound -> gen_compound(expr)
    [] expr.kind = "->" -> gen_arrow(expr)
    [] expr.kind = "." -> Place(expr.sub[1]) \o Number(expr.int) \o Op("+")
    [] expr.kind = "[" ->
         Both(expr) \o (IF expr.type.size > 1 THEN Number(expr.type.size) \o Op("*") ELSE <<>>) \o Op("+")
    [] expr.kind = "(" -> gen_call(expr)
    [] expr.kind = "p++" -> Steps(expr, "+") \o Back(expr, "-")
    [] expr.kind = "p--" -> Steps(expr, "-") \o Back(expr, "+")
    [] expr.kind = "++p" -> Steps(expr, "+")
    [] expr.kind = "--p" -> Steps(expr, "-")
    [] expr.kind = "*p" -> Child(expr, 1)
    [] expr.kind = "&p" -> Place(expr.sub[1])
    [] expr.kind \in {"&&", "||"} -> Child(expr, 1) \o Op(expr.kind) \o Child(expr, 2) \o Op("end")
    [] expr.kind = "?" ->
         Child(expr, 1) \o Op("if") \o gen_expr(expr.sub[2], as_value)
           \o Op("else") \o gen_expr(expr.sub[3], as_value) \o Op("end")
    [] OTHER -> Op("$")

gen_expr(expr, as_value) ==
  gen_code(expr, as_value)
    \o IF as_value /\ is_lvalue(expr) THEN Fetch(expr.type) ELSE <<>>

------------------------------------------------------------------------------
(* The code run.                                                           *)

Token == code[pc]
At(op) == pc \in 1..Len(code) /\ Token.op = op
Onward == pc' = pc + 1 /\ UNCHANGED <<program, code, scope>>

\* The token after the end, or the else, of the block that begins at i.
RECURSIVE Behind(_, _, _)
Behind(i, depth, ends) ==
  CASE depth = 0 /\ code[i].op \in ends -> i + 1
    [] code[i].op \in {"if", "&&", "||"} -> Behind(i + 1, depth + 1, ends)
    [] code[i].op = "end" -> Behind(i + 1, depth - 1, ends)
    [] OTHER -> Behind(i + 1, depth, ends)

\* A local variable hides the ones before it and the globals.
Visible(str) == {i \in DOMAIN scope : scope[i].str = str}
Pushed(str) ==
  IF Visible(str) = {} THEN M!Number(Address[str])
  ELSE M!Local(scope[CHOOSE i \in Visible(str) : \A j \in Visible(str) : j <= i].pos)
NextPos == IF scope = <<>> THEN 8 ELSE scope[Len(scope)].pos + scope[Len(scope)].size
LocalVar(str, size) == Append(scope, [str |-> str, pos |-> NextPos, size |-> size])

Push ==
  /\ \/ At("number") /\ M!Number(Token.n)
     \/ At("name") /\ Pushed(Token.str)
     \/ At("$") /\ M!Dup
     \/ At("><") /\ M!Swap
     \/ At(";") /\ M!Drop
  /\ Onward

Compute ==
  /\ \/ \E op \in M!Total : At(op) /\ M!TotalOp(op)
     \/ At("-p") /\ M!TotalOp("-")
     \/ \E op \in M!Division : At(op) /\ M!DivisionOp(op)
     \/ \E op \in M!Comparison : At(op) /\ M!ComparisonOp(op)
     \/ At("~") /\ M!Complement
     \/ At("!") /\ M!LogicalNot
     \/ At("extend") /\ M!Extend(Token.n)
  /\ Onward

Access ==
  /\ \/ At("?") /\ M!Get(Token.n)
     \/ At("->") /\ M!Arrow(Token.n)
     \/ At("=") /\ M!Assign(Token.n)
     \/ At("=:") /\ M!ReverseAssign
  /\ Onward

Branch ==
  /\ \/ At("if") /\ M!If /\ pc' = IF goes' = M!On THEN pc + 1 ELSE Behind(pc + 1, 0, {"else"})
     \/ At("&&") /\ M!AndThen /\ pc' = IF goes' = M!On THEN pc + 1 ELSE Behind(pc + 1, 0, {"end"})
     \/ At("||") /\ M!OrElse /\ pc' = IF goes' = M!On THEN pc + 1 ELSE Behind(pc + 1, 0, {"end"})
     \/ At("else") /\ pc' = Behind(pc + 1, 0, {"end"}) /\ UNCHANGED machine
     \/ At("end") /\ pc' = pc + 1 /\ UNCHANGED machine
  /\ UNCHANGED <<program, code, scope>>

Scope ==
  /\ \/ At("int") /\ scope' = LocalVar(Token.str, 8 * Token.n)
     \/ At("{") /\ scope' = LocalVar("{", 0)
     \/ At("}") /\ LET open == CHOOSE i \in Visible("{") : \A j \in Visible("{") : j <= i
                   IN  scope' = SubSeq(scope, 1, open - 1)
  /\ pc' = pc + 1 /\ UNCHANGED <<program, code, machine>>

\* A function called takes its arguments and leaves its result.
CallReturns ==
  /\ At("()")
  /\ \E f \in DOMAIN Address :
       /\ Address[f] = M!Top /\ Decls[f].type.kind = "function"
       /\ LET below == Len(stack) - 1 - Arity(f) IN
          stack' = Append(SubSeq(stack, 1, below),
                          Result(f, SubSeq(stack, below + 1, Len(stack) - 1), mem))
  /\ UNCHANGED <<mem, frame, goes, trap>> /\ Onward

Next == Push \/ Compute \/ Access \/ Branch \/ Scope \/ CallReturns

Parsed(tokens) == parse_expr(tokens, 1, Decls)

Init ==
  /\ \E tree \in Trees : \E tokens \in {Tokens(tree)} :
       \E expr \in {Parsed(tokens).expr}, image \in DOMAIN Images :
         /\ Defined(expr, image)
         /\ program = [tree |-> tree, tokens |-> tokens, image |-> image]
         /\ code = Value(expr)
  /\ pc = 1 /\ scope = <<>>
  /\ stack = <<Zero, Zero>> /\ mem = Images[program.image] /\ frame = Base /\ goes = M!On /\ trap = FALSE

Spec == Init /\ [][Next]_vars

Ended == pc = Len(code) + 1
==============================================================================
