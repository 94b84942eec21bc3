----------------------------- MODULE Expressions -----------------------------
(***************************************************************************)
(* The types of tcc_cc.c and its parser of expressions: from tokens to     *)
(* trees (expr_s) with a type at every node.                               *)
(*                                                                         *)
(* A parser takes the tokens, the place of the next one and the            *)
(* declarations in scope; it gives the tree and the place after it.        *)
(***************************************************************************)
EXTENDS Integers, Sequences, TLC

LOCAL INSTANCE SequencesExt
LOCAL INSTANCE FiniteSetsExt

------------------------------------------------------------------------------
(* Types, for the targets of 64 bits.                                      *)

long_long_size == 8

new_type(kind, size) == [kind |-> kind, sign |-> "", size |-> size, to |-> <<>>, decls |-> <<>>]
new_base_type(sign, size) == [new_type("base", size) EXCEPT !.sign = sign]
S8 == new_base_type("signed", 1)
U8 == new_base_type("unsigned", 1)
U16 == new_base_type("unsigned", 2)
S32 == new_base_type("signed", 4)
U32 == new_base_type("unsigned", 4)
S64 == new_base_type("signed", 8)
U64 == new_base_type("unsigned", 8)
base_type_double == new_base_type("double", 8)
base_type_void == new_base_type("void", 8)
base_type_bool == U32
NoType == new_type("none", 0)

new_ptr_type(type) == [new_type("pointer", long_long_size) EXCEPT !.to = <<type>>]
type_char_ptr == new_ptr_type(S8)

type_is_integer(type) == type.kind = "base" /\ type.sign \in {"signed", "unsigned"}
type_is_signed_integer(type) == type.kind = "base" /\ type.sign = "signed"
type_is_pointer(type) == type.kind \in {"pointer", "array"}

base_signed_type(type) == IF type.sign = "unsigned" THEN [type EXCEPT !.sign = "signed"] ELSE type

------------------------------------------------------------------------------
(* Trees.  The kinds are the tokens; p++ and ++p stand for OPER_POST_INC   *)
(* and OPER_PRE_INC, neg, *p and &p for OPER_MIN, OPER_STAR and OPER_ADDR. *)

new_expr(kind, type, children) ==
  [kind |-> kind, str |-> "", int |-> 0, type |-> type, sub |-> children]
new_expr_int_value(value) == [new_expr("0", U32, <<>>) EXCEPT !.int = value]
Identifier(str, type) == [new_expr("i", type, <<>>) EXCEPT !.str = str]
Member(kind, str, decl, subj) ==
  [new_expr(kind, decl.type, <<subj>>) EXCEPT !.str = str, !.int = decl.pos]

\* The type a pointer, an array or a function is made of.
expr_type_member(expr) == IF expr.type.to = <<>> THEN NoType ELSE expr.type.to[1]
\* The member of a struct with a name.
type_decl(type, name) ==
  type.decls[CHOOSE i \in DOMAIN type.decls :
               type.decls[i].name = name /\ \A j \in 1..(i - 1) : type.decls[j].name # name]

\* Wrong: of a char and an int, the type of the left one.
expr_dioper_set_type_left(kind, lhs, rhs) == lhs.type

\* The type of a sum, a difference, a product...
expr_dioper_set_type(kind, lhs, rhs) ==
  CASE type_is_integer(lhs.type) /\ type_is_integer(rhs.type) ->
         new_base_type(IF "signed" \in {lhs.type.sign, rhs.type.sign} THEN "signed" ELSE "unsigned",
                       Max({lhs.type.size, rhs.type.size}))
    [] type_is_pointer(lhs.type) /\ type_is_integer(rhs.type) -> lhs.type
    [] type_is_integer(lhs.type) /\ type_is_pointer(rhs.type) -> rhs.type
    [] kind = "-" /\ type_is_pointer(lhs.type) /\ type_is_pointer(rhs.type) -> S32
    [] OTHER -> NoType

------------------------------------------------------------------------------
(* Tokens, and the places they are at.                                     *)

Tok(kind) == [kind |-> kind, str |-> "", int |-> 0]
NameTok(s) == [kind |-> "i", str |-> s, int |-> 0]
NumberTok(kind, n) == [kind |-> kind, str |-> "", int |-> n]

Kind(ts, i) == IF i <= Len(ts) THEN ts[i].kind ELSE "end"
Gives(expr, at) == [expr |-> expr, at |-> at]
Fail(at) == Gives(new_expr("NULL", NoType, <<>>), at)
Failed(given) == given.expr.kind = "NULL"
\* What follows a part, unless the part failed.
Then(given, Next(_)) == IF Failed(given) THEN given ELSE Next(given)
\* accept_term of a token that has to be there.
Closed(kind, ts, given) ==
  CASE Failed(given) -> given
    [] ~Failed(given) /\ Kind(ts, given.at) = kind -> Gives(given.expr, given.at + 1)
    [] OTHER -> Fail(given.at)

IsTypedef(ts, i, decls) ==
  /\ Kind(ts, i) = "i" /\ ts[i].str \in DOMAIN decls
  /\ decls[ts[i].str].storage_type = "typedef"

TypeGiven(type, at) == [type |-> type, at |-> at]
NoTypeAt(at) == TypeGiven(NoType, at)
\* A type with the stars after it, each of which makes the pointer type Make.
RECURSIVE Stars(_, _)
Stars(ts, i) == IF Kind(ts, i) = "*" THEN 1 + Stars(ts, i + 1) ELSE 0
Pointers(ts, given, Make(_)) ==
  LET to[n \in 0..Stars(ts, given.at)] == IF n = 0 THEN given.type ELSE Make(to[n - 1])
      n == Stars(ts, given.at)
  IN  TypeGiven(to[n], given.at + n)

\* The keywords of types; the longest that fit are taken.
Keywords ==
  (<<"char">> :> S8) @@ (<<"unsigned", "char">> :> U8) @@ (<<"unsigned", "short">> :> U16)
    @@ (<<"unsigned", "long", "long">> :> U64) @@ (<<"unsigned", "long">> :> U32)
    @@ (<<"unsigned", "int">> :> U32) @@ (<<"unsigned">> :> U32) @@ (<<"short">> :> U16)
    @@ (<<"char", "const">> :> S8) @@ (<<"float">> :> new_base_type("signed", 4))
    @@ (<<"int">> :> S32) @@ (<<"long", "double">> :> base_type_double)
    @@ (<<"long", "long">> :> S64) @@ (<<"long">> :> S32) @@ (<<"double">> :> base_type_double)
    @@ (<<"void">> :> base_type_void)
SizeofKeywords ==
  (<<"char">> :> S8) @@ (<<"int">> :> S32) @@ (<<"unsigned">> :> U32)
    @@ (<<"unsigned", "int">> :> U32) @@ (<<"double">> :> base_type_double)
    @@ (<<"void", "*">> :> type_char_ptr)

Spelled(ts, i, table) ==
  {w \in DOMAIN table : \A j \in DOMAIN w : Kind(ts, i + j - 1) = w[j]}
ByKeywords(ts, i, table) ==
  LET w == CHOOSE w \in Spelled(ts, i, table) :
             \A v \in Spelled(ts, i, table) : Len(v) <= Len(w)
  IN  TypeGiven(table[w], i + Len(w))

Named(ts, i, table, decls) ==
  CASE Spelled(ts, i, table) # {} -> ByKeywords(ts, i, table)
    [] Kind(ts, i) = "struct" /\ Kind(ts, i + 1) = "i" ->
         TypeGiven(decls["struct " \o ts[i + 1].str].type, i + 2)
    [] IsTypedef(ts, i, decls) -> TypeGiven(decls[ts[i].str].type, i + 1)
    [] OTHER -> NoTypeAt(i)

parse_type_specifier(ts, i, decls) ==
  Named(ts, IF Kind(ts, i) = "const" THEN i + 1 ELSE i, Keywords, decls)

parse_sizeof_type(ts, i, decls) ==
  LET given == Named(ts, i, SizeofKeywords, decls) IN
  IF given.type = NoType THEN given ELSE Pointers(ts, given, LAMBDA t : type_char_ptr)

------------------------------------------------------------------------------
(* The levels of binary operators: all associate to the left.              *)

Multiplicative == {"*", "/", "%"}
Additive == {"+", "-"}
Shift == {"<<", ">>"}
Relational == {"==", "!=", "<=", ">=", "<", ">"}
Levels == <<Multiplicative, Additive, Shift, Relational, {"^"}, {"&"}, {"|"}, {"&&"}, {"||"}>>
Assigning == {"=", "*=", "/=", "%=", "+=", "-=", "<<=", ">>=", "&=", "|=", "^="}

BinaryType(kind, lhs, rhs) ==
  CASE kind \in Shift -> lhs.type
    [] kind \in Relational \cup {"&&", "||"} -> base_type_bool
    [] OTHER -> expr_dioper_set_type(kind, lhs, rhs)
Binary(kind, lhs, rhs) == new_expr(kind, BinaryType(kind, lhs, rhs), <<lhs, rhs>>)

\* The parser of a part: of unary expressions, or one of those above the
\* levels of binary operators.
UnaryExpr == 0
ConditionalExpr == 10
AssignmentExpr == 11
Expr == 12
RECURSIVE parse(_, _, _, _)

\* Wrong: to the right.
Chain_right(level, ts, lhs, decls) ==
  IF Failed(lhs) \/ Kind(ts, lhs.at) \notin Levels[level] THEN lhs
  ELSE Then(parse(level, ts, lhs.at + 1, decls),
            LAMBDA rhs : Gives(Binary(Kind(ts, lhs.at), lhs.expr, rhs.expr), rhs.at))

\* parse_expr1, ..., parse_expr9: operators of one level.
RECURSIVE Chain(_, _, _, _)
Chain(level, ts, lhs, decls) ==
  IF Failed(lhs) \/ Kind(ts, lhs.at) \notin Levels[level] THEN lhs
  ELSE Then(parse(level - 1, ts, lhs.at + 1, decls),
            LAMBDA rhs : Chain(level, ts,
                               Gives(Binary(Kind(ts, lhs.at), lhs.expr, rhs.expr), rhs.at), decls))

parse_binary(level, ts, i, decls) == Chain(level, ts, parse(level - 1, ts, i, decls), decls)

\* The parts after ? and : are not the same.
parse_conditional_expr(ts, i, decls) ==
  Then(parse(9, ts, i, decls), LAMBDA cond :
    IF Kind(ts, cond.at) # "?" THEN cond
    ELSE Then(Closed(":", ts, parse(9, ts, cond.at + 1, decls)), LAMBDA then :
         Then(parse(ConditionalExpr, ts, then.at, decls), LAMBDA else :
              Gives(new_expr("?", then.expr.type, <<cond.expr, then.expr, else.expr>>), else.at))))

parse_assignment_expr(ts, i, decls) ==
  Then(parse(ConditionalExpr, ts, i, decls), LAMBDA lhs :
    LET kind == Kind(ts, lhs.at) IN
    IF kind \notin Assigning THEN lhs
    ELSE Then(parse(AssignmentExpr, ts, lhs.at + 1, decls), LAMBDA rhs :
              Gives(new_expr(kind, lhs.expr.type, <<lhs.expr, rhs.expr>>), rhs.at)))

\* One or more assignment expressions with commas.
RECURSIVE Further(_, _, _, _)
Further(exprs, ts, next, decls) ==
  LET all == Append(exprs, next.expr) IN
  IF ~Failed(next) /\ Kind(ts, next.at) = ","
  THEN Further(all, ts, parse(AssignmentExpr, ts, next.at + 1, decls), decls)
  ELSE [exprs |-> all, at |-> next.at]
List(ts, i, decls) == Further(<<>>, ts, parse(AssignmentExpr, ts, i, decls), decls)

ListExpr(list) ==
  LET last == list.exprs[Len(list.exprs)] IN
  CASE last.kind = "NULL" -> Fail(list.at)
    [] last.kind # "NULL" /\ Len(list.exprs) = 1 -> Gives(last, list.at)
    [] OTHER -> Gives(new_expr(",", last.type, list.exprs), list.at)
parse_expr(ts, i, decls) == ListExpr(List(ts, i, decls))

------------------------------------------------------------------------------
parse_cast(ts, given, decls) ==
  LET type == Pointers(ts, given, new_ptr_type) IN
  IF Kind(ts, type.at) # ")" THEN Fail(type.at)
  ELSE Then(parse(UnaryExpr, ts, type.at + 1, decls),
            LAMBDA subj : Gives(new_expr("c", type.type, <<subj.expr>>), subj.at))

parse_primary_expr(ts, i, decls) ==
  CASE Kind(ts, i) = "i" /\ ts[i].str \in DOMAIN decls /\ ~IsTypedef(ts, i, decls) ->
         Gives(Identifier(ts[i].str, decls[ts[i].str].type), i + 1)
    [] Kind(ts, i) = "0" -> Gives(new_expr_int_value(ts[i].int), i + 1)
    [] Kind(ts, i) = "'" -> Gives([new_expr_int_value(ts[i].int) EXCEPT !.type = S8], i + 1)
    [] Kind(ts, i) = "(" ->
         LET type == parse_type_specifier(ts, i + 1, decls) IN
         IF type.type # NoType THEN parse_cast(ts, type, decls)
         ELSE Closed(")", ts, parse(Expr, ts, i + 1, decls))
    [] OTHER -> Fail(i)

Call(ts, subj, decls) ==
  LET CallOf(args) ==
        Closed(")", ts, Gives(new_expr("(", expr_type_member(subj.expr), <<subj.expr>> \o args.exprs),
                              args.at))
  IN  CallOf(IF Kind(ts, subj.at + 1) = ")" THEN [exprs |-> <<>>, at |-> subj.at + 1]
             ELSE List(ts, subj.at + 1, decls))

\* What may follow an operand, again and again.
RECURSIVE Postfix(_, _, _)
Postfix(ts, subj, decls) ==
  LET kind == Kind(ts, subj.at)
      expr == subj.expr
      type == IF kind = "->" THEN expr_type_member(expr) ELSE expr.type
  IN  CASE Failed(subj) -> subj
        [] ~Failed(subj) /\ kind = "[" ->
             LET index == Closed("]", ts, parse(Expr, ts, subj.at + 1, decls)) IN
             Then(index, LAMBDA x :
               Postfix(ts, Gives(new_expr("[", expr_type_member(expr), <<expr, x.expr>>), x.at), decls))
        [] ~Failed(subj) /\ kind = "(" -> Postfix(ts, Call(ts, subj, decls), decls)
        [] ~Failed(subj) /\ kind \in {".", "->"} ->
             LET name == ts[subj.at + 1].str IN
             Postfix(ts, Gives(Member(kind, name, type_decl(type, name), expr), subj.at + 2), decls)
        [] ~Failed(subj) /\ kind \in {"++", "--"} ->
             Postfix(ts, Gives(new_expr("p" \o kind, expr.type, <<expr>>), subj.at + 1), decls)
        [] OTHER -> subj

parse_postfix_expr(ts, i, decls) == Postfix(ts, parse_primary_expr(ts, i, decls), decls)

parse_sizeof(ts, i, decls) ==
  LET type == parse_sizeof_type(ts, i + 1, decls)
      Sized(given) == Gives(new_expr_int_value(given.expr.type.size), given.at)
      OfType == Gives(new_expr("type", type.type, <<>>), type.at)
  IN  CASE Kind(ts, i) # "(" -> Then(parse(UnaryExpr, ts, i, decls), Sized)
        [] Kind(ts, i) = "(" /\ type.type # NoType -> Then(Closed(")", ts, OfType), Sized)
        [] OTHER -> Then(Closed(")", ts, parse(Expr, ts, i + 1, decls)), Sized)

\* A minus before a number makes it negative, and signed.
Negative(expr) ==
  IF expr.kind = "0"
  THEN [new_expr_int_value(-expr.int) EXCEPT !.type = base_signed_type(expr.type)]
  ELSE new_expr("neg", expr.type, <<expr>>)

Prefixed(kind, expr) ==
  CASE kind \in {"++", "--"} -> new_expr(kind \o "p", expr.type, <<expr>>)
    [] kind = "&" -> new_expr("&p", new_ptr_type(expr.type), <<expr>>)
    [] kind = "*" -> new_expr("*p", expr_type_member(expr), <<expr>>)
    [] kind = "-" -> Negative(expr)
    [] kind = "+" -> new_expr("plus", expr.type, <<expr>>)
    [] kind = "!" -> new_expr("!", base_type_bool, <<expr>>)
    [] kind = "~" -> new_expr("~", expr.type, <<expr>>)

parse_unary_expr(ts, i, decls) ==
  CASE Kind(ts, i) \in {"++", "--", "&", "*", "+", "-", "~", "!"} ->
         Then(parse(UnaryExpr, ts, i + 1, decls),
              LAMBDA operand : Gives(Prefixed(ts[i].kind, operand.expr), operand.at))
    [] Kind(ts, i) = "sizeof" -> parse_sizeof(ts, i + 1, decls)
    [] OTHER -> parse_postfix_expr(ts, i, decls)

parse(part, ts, i, decls) ==
  CASE part = Expr -> parse_expr(ts, i, decls)
    [] part = AssignmentExpr -> parse_assignment_expr(ts, i, decls)
    [] part = ConditionalExpr -> parse_conditional_expr(ts, i, decls)
    [] part = UnaryExpr -> parse_unary_expr(ts, i, decls)
    [] OTHER -> parse_binary(part, ts, i, decls)
==============================================================================
