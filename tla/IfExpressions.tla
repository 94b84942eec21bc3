------------------------------ MODULE IfExpressions -----------------------------
(***************************************************************************)
(* The expressions of #if and #elif: the parser of tcc_cc.c, which         *)
(* evaluates the tokens as it reads them, and what they mean in C.         *)
(*                                                                         *)
(* A token has a kind and a text, of one or more parts.  env gives the     *)
(* definition of each symbol.                                              *)
(***************************************************************************)
EXTENDS Naturals, Sequences, TLC

CONSTANT Undefined

Tok(kind) == [kind |-> kind, val |-> <<kind>>]
NameTok(s) == [kind |-> "i", val |-> s]
NumberTok(n) == [kind |-> "0", val |-> <<ToString(n)>>]

string_int_value(text) == CHOOSE n \in 0..9 : text = <<ToString(n)>>

Truth(b) == IF b THEN 1 ELSE 0
get_env(s, env) == IF s \in DOMAIN env THEN env[s] ELSE Undefined

------------------------------------------------------------------------------
(* The parser.  Every function gives the value and where the next token is.*)

Kind(ts, i) == IF i <= Len(ts) THEN ts[i].kind ELSE "end"
After(kind, ts, i) == IF Kind(ts, i) = kind THEN i + 1 ELSE i
Gives(value, at) == [value |-> value, at |-> at]

DefinedAt(ts, i, env) == Truth(get_env(ts[i].val, env) # Undefined)

\* The number at the end of a chain of names, each defined as the next.
RECURSIVE NumberOf(_, _)
NumberOf(s, env) ==
  LET symbol == get_env(s, env) IN
  IF symbol = Undefined \/ symbol.tokens = <<>> THEN 0
  ELSE LET first == symbol.tokens[1] IN
       CASE first.kind = "i" -> NumberOf(first.val, env)
         [] first.kind = "0" -> string_int_value(first.val)
         [] OTHER -> 0

RECURSIVE parse_or_expr(_, _, _)

Closed(ts, inner) == Gives(inner.value, After(")", ts, inner.at))

parse_primary(ts, i, env) ==
  CASE Kind(ts, i) = "(" -> Closed(ts, parse_or_expr(ts, i + 1, env))
    [] Kind(ts, i) = "defined" /\ Kind(ts, i + 1) = "(" ->
         Gives(DefinedAt(ts, i + 2, env), After(")", ts, i + 3))
    [] Kind(ts, i) = "defined" /\ Kind(ts, i + 1) # "(" ->
         Gives(DefinedAt(ts, i + 1, env), i + 2)
    [] Kind(ts, i) = "0" -> Gives(string_int_value(ts[i].val), i + 1)
    [] Kind(ts, i) = "i" -> Gives(NumberOf(ts[i].val, env), i + 1)
    [] OTHER -> Gives(0, i)

Negated(operand) == Gives(Truth(operand.value = 0), operand.at)

parse_unary_expr(ts, i, env) ==
  IF Kind(ts, i) = "!" THEN Negated(parse_primary(ts, i + 1, env))
  ELSE parse_primary(ts, i, env)

Compared(sign, left, right) ==
  Gives(Truth((left.value = right.value) = (sign = "==")), right.at)

Comparison(ts, left, env) ==
  IF Kind(ts, left.at) \in {"==", "!="}
  THEN Compared(Kind(ts, left.at), left, parse_unary_expr(ts, left.at + 1, env)) ELSE left

parse_compare_expr(ts, i, env) == Comparison(ts, parse_unary_expr(ts, i, env), env)

Both(left, right) == Gives(Truth(left.value # 0 /\ right.value # 0), right.at)

RECURSIVE AndChain(_, _, _)
AndChain(ts, sofar, env) ==
  IF Kind(ts, sofar.at) # "&&" THEN sofar
  ELSE AndChain(ts, Both(sofar, parse_compare_expr(ts, sofar.at + 1, env)), env)

\* Mutant: && is not looked for.
parse_and_expr_alone(ts, i, env) == parse_compare_expr(ts, i, env)

parse_and_expr(ts, i, env) == AndChain(ts, parse_compare_expr(ts, i, env), env)

Either(left, right) == Gives(Truth(left.value # 0 \/ right.value # 0), right.at)

RECURSIVE OrChain(_, _, _)
OrChain(ts, sofar, env) ==
  IF Kind(ts, sofar.at) # "||" THEN sofar
  ELSE OrChain(ts, Either(sofar, parse_and_expr(ts, sofar.at + 1, env)), env)

parse_or_expr(ts, i, env) == OrChain(ts, parse_and_expr(ts, i, env), env)

------------------------------------------------------------------------------
(* What an expression is, how it is written, and what it means in C.  The  *)
(* operands of ! and of comparisons are as the grammar in tcc_cc.c has it. *)

Leaf(k, val) == [k |-> k, val |-> val, sub |-> <<>>]
Node(k, sub) == [k |-> k, val |-> 0, sub |-> sub]

Binding == [or |-> 1, and |-> 2, eq |-> 3, ne |-> 3, not |-> 4,
            number |-> 5, name |-> 5, isdef |-> 5, isdefp |-> 5]
Sign == [or |-> "||", and |-> "&&", eq |-> "==", ne |-> "!="]

\* With parentheses where an operand binds less than its place asks for.
RECURSIVE Written(_, _)
Written(tree, place) ==
  LET b == Binding[tree.k]
      text ==
        CASE tree.k = "number" -> <<NumberTok(tree.val)>>
          [] tree.k = "name" -> <<NameTok(tree.val)>>
          [] tree.k = "isdef" -> <<Tok("defined"), NameTok(tree.val)>>
          [] tree.k = "isdefp" -> <<Tok("defined"), Tok("("), NameTok(tree.val), Tok(")")>>
          [] tree.k = "not" -> <<Tok("!")>> \o Written(tree.sub[1], 5)
          [] tree.k \in {"or", "and"} ->
               Written(tree.sub[1], b) \o <<Tok(Sign[tree.k])>> \o Written(tree.sub[2], b + 1)
          [] OTHER ->
               Written(tree.sub[1], 4) \o <<Tok(Sign[tree.k])>> \o Written(tree.sub[2], 4)
  IN  IF b < place THEN <<Tok("(")>> \o text \o <<Tok(")")>> ELSE text

RECURSIVE Means(_, _)
Means(tree, env) ==
  LET sub(i) == Means(tree.sub[i], env) IN
  CASE tree.k = "number" -> tree.val
    [] tree.k = "name" -> NumberOf(tree.val, env)
    [] tree.k \in {"isdef", "isdefp"} -> Truth(get_env(tree.val, env) # Undefined)
    [] tree.k = "not" -> Truth(sub(1) = 0)
    [] tree.k = "or" -> Truth(sub(1) # 0 \/ sub(2) # 0)
    [] tree.k = "and" -> Truth(sub(1) # 0 /\ sub(2) # 0)
    [] tree.k = "eq" -> Truth(sub(1) = sub(2))
    [] tree.k = "ne" -> Truth(sub(1) # sub(2))
==============================================================================
