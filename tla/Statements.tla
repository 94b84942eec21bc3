------------------------------ MODULE Statements ------------------------------
(***************************************************************************)
(* parse_statement() of tcc_cc.c and the parts of gen_expr() with control  *)
(* in them: the Stack C code written for a function body, and that code    *)
(* run with the meaning StackC and StackMachine give its tokens.           *)
(*                                                                         *)
(* A statement is read from its syntax tree instead of from tokens; a path *)
(* names its place.  The code writes as it reads, so that what it has      *)
(* counted so far is all it knows.                                         *)
(***************************************************************************)
EXTENDS Integers, Sequences, SequencesExt

CONSTANTS Values, Programs

VARIABLES
  prog,   \* the function
  code,   \* what was written for it
  pc,     \* the next token of the code to run
  ops,    \* the operand stack, two words of the caller's at the bottom
  last    \* the last leaf that was evaluated, and its value

vars == <<prog, code, pc, ops, last>>

C == INSTANCE CStatements

------------------------------------------------------------------------------
(* The tokens.  Every block says what opened it.                           *)

Token(op) == <<[op |-> op]>>
Evaluate(p) == <<[op |-> "eval", leaf |-> p]>>
Open(type) == <<[op |-> "{", type |-> type]>>
Goto(label) == <<[op |-> "goto", label |-> label, leaf |-> <<>>]>>
Place(label) == <<[op |-> ":", label |-> label]>>
Equals(n) == <<[op |-> "==", value |-> n]>>  \* $ n ==

User == <<"user", 0>>
FallThrough(n) == <<"_fall_through_case_", n>>
Default(n) == <<"_default_case_", n>>

\* gen_expr.
RECURSIVE gen_expr(_, _)
gen_expr(tree, p) ==
  LET Sub(i) == gen_expr(tree.sub[i], Append(p, i)) IN
  CASE tree.k = "leaf" -> Evaluate(p)
    [] tree.k = "none" -> <<>>
    [] tree.k = "not" -> Sub(1) \o Token("!")
    [] tree.k = "comma" -> Sub(1) \o Token(";") \o Sub(2)
    [] tree.k = "or" -> Sub(1) \o Open("O") \o Sub(2) \o Token("}")
    [] tree.k = "and" -> Sub(1) \o Open("A") \o Sub(2) \o Token("}")
    [] tree.k = "cond" ->
         Sub(1) \o Open("I") \o Sub(2) \o Token("else") \o Sub(3) \o Token("}")

\* Wrong: the value stays on the stack.
gen_stat_expr_keeping(tree, p) == gen_expr(tree, p)

gen_stat_expr(tree, p) ==
  IF tree.k = "none" THEN <<>> ELSE gen_expr(tree, p) \o Token(";")

\* `cond ! if { break }`, in front of the body or after it.
ExitUnless(tree, p) ==
  gen_expr(tree, p) \o Token("!") \o Open("I") \o Token("break") \o Token("}")

\* The test of the labels of a group, none for a default on its own.
CaseTest(cases) ==
  IF cases = <<>> THEN Token("0")
  ELSE LET Alternative(c) == Open("O") \o Equals(c) IN
       Equals(cases[1])
         \o FlattenSeq([i \in 1..(Len(cases) - 1) |-> Alternative(cases[i + 1])])
         \o FlattenSeq([i \in 1..(Len(cases) - 1) |-> Token("}")])

------------------------------------------------------------------------------
(* parse_statement.  Its parameters in_block and continue_expr, the        *)
(* expression to run before a `continue`, are passed down; its globals     *)
(* default_case_nr, fall_through_case_nr and label_statement are passed    *)
(* on, in st.  It gives the code written and the globals it leaves.        *)

NoNext == [tree |-> [k |-> "none", sub |-> <<>>], p |-> <<>>]

Writes(text, st) == [code |-> text, st |-> st]
Around(open, body, close) == [body EXCEPT !.code = open \o @ \o close]

RECURSIVE parse_statement(_, _, _, _, _)

\* The statement at tree.sub[i].
Part(tree, p, i, in_block, continue_expr, st) ==
  parse_statement(tree.sub[i], Append(p, i), in_block, continue_expr, st)

if_statement(tree, p, continue_expr, st) ==
  LET then == Around(gen_expr(tree.sub[1], Append(p, 1)) \o Open("I"),
                     Part(tree, p, 2, TRUE, continue_expr, st), <<>>)
  IN  IF Len(tree.sub) = 2 THEN Around(<<>>, then, Token("}"))
      ELSE Around(then.code \o Token("else"),
                  Part(tree, p, 3, TRUE, continue_expr, then.st), Token("}"))

while_statement(tree, p, st) ==
  Around(Open("L") \o ExitUnless(tree.sub[1], Append(p, 1)),
         Part(tree, p, 2, TRUE, NoNext, st), Token("}"))

do_statement(tree, p, st) ==
  Around(Open("L"), Part(tree, p, 1, TRUE, NoNext, st),
         ExitUnless(tree.sub[2], Append(p, 2)) \o Token("}"))

\* The parts of a for: initialization, condition, next_expr, body.
for_statement(tree, p, st) ==
  LET next == [tree |-> tree.sub[3], p |-> Append(p, 3)] IN
  Around(Open(" ") \o gen_stat_expr(tree.sub[1], Append(p, 1)) \o Open("L")
           \o (IF tree.sub[2].k = "none" THEN <<>>
               ELSE ExitUnless(tree.sub[2], Append(p, 2))),
         Part(tree, p, 4, TRUE, next, st),
         gen_stat_expr(next.tree, next.p) \o Token("}") \o Token("}"))

\* parse_statements: the statements of a block, one after another.
parse_statements(tree, p, continue_expr, st) ==
  LET upto[i \in 0..Len(tree.sub)] ==
        IF i = 0 THEN Writes(<<>>, st)
        ELSE Around(upto[i - 1].code,
                    Part(tree, p, i, FALSE, continue_expr, upto[i - 1].st), <<>>)
  IN  upto[Len(tree.sub)]

\* Wrong: a label does not make the code after a jump reachable.
case_statements_unlabelled(tree, p, continue_expr, st) ==
  LET upto[i \in 0..Len(tree.sub)] ==
        IF i = 0 THEN [code |-> <<>>, st |-> st, has_break |-> FALSE]
        ELSE LET this == Part(tree, p, i, FALSE, continue_expr, upto[i - 1].st)
             IN  [code |-> upto[i - 1].code \o this.code, st |-> this.st,
                  has_break |-> upto[i - 1].has_break
                                  \/ tree.sub[i].k \in {"break", "return", "goto"}]
  IN  upto[Len(tree.sub)]

\* The statements of a group of a switch.  has_break: the last jump out of
\* the group is not followed by a label.
case_statements(tree, p, continue_expr, st) ==
  LET upto[i \in 0..Len(tree.sub)] ==
        IF i = 0 THEN [code |-> <<>>, st |-> st, has_break |-> FALSE]
        ELSE LET jumps == tree.sub[i].k \in {"break", "return", "goto"}
                 this == Part(tree, p, i, FALSE, continue_expr,
                              [upto[i - 1].st EXCEPT !.label_statement = FALSE])
             IN  [code |-> upto[i - 1].code \o this.code, st |-> this.st,
                  has_break |-> (upto[i - 1].has_break \/ jumps) /\ ~this.st.label_statement]
  IN  upto[Len(tree.sub)]

\* A group of a switch, after the ones before it.
case_group(group, p, continue_expr, before, last_group) ==
  LET body == case_statements(group, p, continue_expr, before.st)
      has_break == body.has_break \/ last_group
      nr == body.st.fall_through_case_nr + 1
  IN  [code |-> before.code \o CaseTest(group.cases) \o Open("I")
         \o (IF group.cases # <<>> THEN Token(";") ELSE <<>>)
         \o (IF before.fall_through
             THEN Place(FallThrough(before.st.fall_through_case_nr)) ELSE <<>>)
         \o (IF group.default THEN Place(Default(before.st.default_case_nr)) ELSE <<>>)
         \o body.code
         \o (IF ~body.has_break /\ last_group THEN Token("break") ELSE <<>>)
         \o (IF has_break THEN <<>> ELSE Goto(FallThrough(nr)))
         \o Token("}"),
       st |-> [body.st EXCEPT !.label_statement = FALSE,
                              !.fall_through_case_nr = IF has_break THEN @ ELSE nr],
       fall_through |-> ~has_break]

switch_statement(tree, p, continue_expr, st) ==
  LET n == Len(tree.sub)
      upto[i \in 1..n] ==
        IF i = 1 THEN [code |-> <<>>, st |-> st, fall_through |-> FALSE]
        ELSE case_group(tree.sub[i], Append(p, i), continue_expr, upto[i - 1], i = n)
      has_default == \E i \in 2..n : tree.sub[i].default
      nr == upto[n].st.default_case_nr
  IN  Writes(gen_expr(tree.sub[1], Append(p, 1)) \o Open("W") \o upto[n].code
               \o Token(";") \o (IF has_default THEN Goto(Default(nr)) ELSE Token("break"))
               \o Token("}"),
             [upto[n].st EXCEPT !.default_case_nr = IF has_default THEN @ + 1 ELSE @])

parse_statement(tree, p, in_block, continue_expr, st) ==
  CASE tree.k = "label" ->
         Around(Place(User),
                Part(tree, p, 1, in_block, continue_expr, [st EXCEPT !.label_statement = TRUE]),
                <<>>)
    [] tree.k = "if" -> if_statement(tree, p, continue_expr, st)
    [] tree.k = "while" -> while_statement(tree, p, st)
    [] tree.k = "do" -> do_statement(tree, p, st)
    [] tree.k = "for" -> for_statement(tree, p, st)
    [] tree.k = "break" -> Writes(Token("break"), st)
    [] tree.k = "continue" ->
         Writes(gen_stat_expr(continue_expr.tree, continue_expr.p) \o Token("continue"), st)
    [] tree.k = "switch" -> switch_statement(tree, p, continue_expr, st)
    [] tree.k = "return" ->
         Writes((IF tree.sub = <<>> THEN Token("0") ELSE gen_expr(tree.sub[1], Append(p, 1)))
                  \o Token("return"), st)
    [] tree.k = "goto" -> Writes(<<[op |-> "goto", label |-> User, leaf |-> p]>>, st)
    [] tree.k = "block" ->
         IF in_block THEN parse_statements(tree, p, continue_expr, st)
         ELSE Around(Open(" "), parse_statements(tree, p, continue_expr, st), Token("}"))
    [] OTHER -> Writes(gen_stat_expr(tree, p), st)

\* A function: its body, and the return gen_function_end writes.
Written(tree) ==
  Open(" ")
    \o parse_statement(tree, <<>>, TRUE, NoNext,
                       [default_case_nr |-> 0, fall_through_case_nr |-> 0,
                        label_statement |-> FALSE]).code
    \o Token("0") \o Token("return") \o Token("}")

------------------------------------------------------------------------------
(* The code run.                                                           *)

Caller == <<0, 0>>

Op == code[pc].op
Top == Last(ops)

\* How deep in blocks the token i lies; a block's own braces lie outside it.
Opens(i) == code[i].op = "{"
Closes(i) == code[i].op = "}"
\* The token that closes the block opened at i, and the else of an if.
RECURSIVE Closing(_, _)
Closing(i, depth) ==
  IF Closes(i) /\ depth = 0 THEN i
  ELSE Closing(i + 1, CASE Opens(i) -> depth + 1 [] Closes(i) -> depth - 1 [] OTHER -> depth)
RECURSIVE ElseOrEnd(_, _)
ElseOrEnd(i, depth) ==
  IF depth = 0 /\ (Closes(i) \/ code[i].op = "else") THEN i
  ELSE ElseOrEnd(i + 1, CASE Opens(i) -> depth + 1 [] Closes(i) -> depth - 1 [] OTHER -> depth)
\* The innermost block of one of the types that holds the token i.
RECURSIVE Opening(_, _, _)
Opening(i, depth, types) ==
  IF Opens(i) /\ depth = 0 /\ code[i].type \in types THEN i
  ELSE Opening(i - 1, CASE Closes(i) -> depth + 1
                        [] Opens(i) -> IF depth = 0 THEN 0 ELSE depth - 1
                        [] OTHER -> depth, types)

Run(op) == pc \in 1..Len(code) /\ Op = op
Step(to, st) == pc' = to /\ ops' = st /\ UNCHANGED <<prog, code, last>>

Eval ==
  /\ Run("eval")
  /\ \E v \in Values :
       last' = [leaf |-> code[pc].leaf, value |-> v] /\ ops' = Append(ops, v)
  /\ pc' = pc + 1 /\ UNCHANGED <<prog, code>>

Zero == Run("0") /\ Step(pc + 1, Append(ops, 0))
Compare == Run("==") /\ Step(pc + 1, Append(ops, IF Top = code[pc].value THEN 1 ELSE 0))
Drop == Run(";") /\ Step(pc + 1, Front(ops))
Negate == Run("!") /\ Step(pc + 1, Append(Front(ops), IF Top = 0 THEN 1 ELSE 0))

EnterBlock ==
  /\ Run("{")
  /\ LET type == code[pc].type IN
     \/ type \in {" ", "L", "W"} /\ Step(pc + 1, ops)
     \/ type = "I" /\ Step(IF Top # 0 THEN pc + 1 ELSE ElseOrEnd(pc + 1, 0) + 1, Front(ops))
     \/ /\ type \in {"A", "O"}
        /\ IF (Top = 0) = (type = "A") THEN Step(Closing(pc + 1, 0) + 1, ops)
                                       ELSE Step(pc + 1, Front(ops))

LeaveBlock ==
  \/ Run("}") /\ Step(LET open == Opening(pc - 1, 0, {" ", "L", "W", "I", "A", "O"})
                      IN  IF code[open].type = "L" THEN open + 1 ELSE pc + 1, ops)
  \/ Run("else") /\ Step(Closing(pc + 1, 0) + 1, ops)

Break == Run("break") /\ Step(Closing(Opening(pc - 1, 0, {"L", "W"}) + 1, 0) + 1, ops)
Continue == Run("continue") /\ Step(Opening(pc - 1, 0, {"L"}) + 1, ops)

PlaceLabel == Run(":") /\ Step(pc + 1, ops)
GotoLabel ==
  /\ Run("goto")
  /\ \E i \in 1..Len(code) :
       code[i].op = ":" /\ code[i].label = code[pc].label /\ pc' = i
  /\ last' = IF code[pc].label = User THEN [leaf |-> code[pc].leaf, value |-> 0] ELSE last
  /\ UNCHANGED <<prog, code, ops>>

Return ==
  /\ Run("return") /\ last' = C!Returned /\ pc' = Len(code) + 1 /\ ops' = Front(ops)
  /\ UNCHANGED <<prog, code>>

Ended == pc = Len(code) + 1 /\ UNCHANGED vars

Next ==
  \/ Eval \/ Zero \/ Compare \/ Drop \/ Negate \/ EnterBlock \/ LeaveBlock
  \/ Break \/ Continue \/ PlaceLabel \/ GotoLabel \/ Return \/ Ended

Init ==
  /\ prog \in Programs /\ code = Written(prog)
  /\ pc = 1 /\ ops = Caller /\ last = C!Start

Spec == Init /\ [][Next]_vars

------------------------------------------------------------------------------
\* The code evaluates the leaves of the function in the order C evaluates
\* them, whatever values they have, and returns when C does.
ImplementsC == C!Spec

\* The operand stack is the caller's when a leaf is evaluated or control jumps
\* out of a block, and has the result on top when the function returns: no path
\* through loops, switches and short circuits piles up words or takes one of
\* the caller's (tcc_cc.c:4044, 4087, 4781).
StackBalanced ==
  pc \in 1..Len(code) =>
    /\ Op \in {"eval", "break", "continue", "goto"} => ops = Caller
    /\ Op = "return" => Front(ops) = Caller
==============================================================================
