----------------------------- MODULE CExpressions -----------------------------
(***************************************************************************)
(* What C says of expressions: how a tree is written, which type it has,   *)
(* and what it does to memory and which value it has.                      *)
(*                                                                         *)
(* Integers are ideal; types give their ranges.  A meaning says whether C  *)
(* defines it and the types the compiler keeps can hold it (ok), and       *)
(* whether the value is also the one left on the stack (exact): both name  *)
(* what the compiler does not promise, see ok in Meaning.                  *)
(***************************************************************************)
EXTENDS Expressions

CONSTANTS ByteBits, Decls, Address,
  Lvalues,                                     \* where the objects are
  LoadBytes(_, _, _), StoreBytes(_, _, _, _),  \* of memory, at an address, a size
  BitOp(_, _, _),                              \* on natural numbers
  Returns(_, _, _)                             \* Returns(f, args, m)

------------------------------------------------------------------------------
(* Writing.                                                                *)

Prefix == ("++p" :> "++") @@ ("--p" :> "--") @@ ("*p" :> "*") @@ ("&p" :> "&")
            @@ ("neg" :> "-") @@ ("!" :> "!") @@ ("~" :> "~")
PostfixKinds == {"[", "(", ".", "->", "p++", "p--"}
CLevels == << {","}, Assigning, {"?"}, {"||"}, {"&&"}, {"|"}, {"^"}, {"&"}, {"==", "!="},
              {"<", ">", "<=", ">="}, {"<<", ">>"}, {"+", "-"}, {"*", "/", "%"},
              DOMAIN Prefix \cup {"c", "sizeof"}, PostfixKinds >>
Strength(kind) ==
  IF \E l \in DOMAIN CLevels : kind \in CLevels[l]
  THEN CHOOSE l \in DOMAIN CLevels : kind \in CLevels[l] ELSE 16

TypeWritten(type) ==
  CASE type = new_ptr_type(S8) -> <<Tok("char"), Tok("*")>>
    [] type = new_ptr_type(S32) -> <<Tok("int"), Tok("*")>>
    [] OTHER -> [i \in DOMAIN (CHOOSE w \in DOMAIN Keywords : Keywords[w] = type) |->
                   Tok((CHOOSE w \in DOMAIN Keywords : Keywords[w] = type)[i])]

RECURSIVE Printed(_, _)
\* The tokens of a tree where an operand of a given strength is asked for.
Printed(tree, strength) ==
  LET s == Strength(tree.kind)
      k == tree.kind
      Sub(i, asked) == Printed(tree.sub[i], asked)
      \* Operands from the first on, with commas.
      Listed(first) ==
        LET list[n \in first..Len(tree.sub)] ==
              IF n = first THEN Sub(n, 2) ELSE list[n - 1] \o <<Tok(",")>> \o Sub(n, 2)
        IN  IF first > Len(tree.sub) THEN <<>> ELSE list[Len(tree.sub)]
      text ==
        CASE k = "i" -> <<NameTok(tree.str)>>
          [] k \in {"0", "'"} -> <<NumberTok(k, tree.int)>>
          [] k = "c" -> <<Tok("(")>> \o TypeWritten(tree.type) \o <<Tok(")")>> \o Sub(1, 14)
          [] k = "sizeof" -> <<Tok("sizeof")>> \o (IF tree.sub = <<>>
                               THEN <<Tok("(")>> \o TypeWritten(tree.type) \o <<Tok(")")>>
                               ELSE Sub(1, 14))
          [] k \in DOMAIN Prefix -> <<Tok(Prefix[k])>> \o Sub(1, 14)
          [] k = "[" -> Sub(1, 15) \o <<Tok("[")>> \o Sub(2, 1) \o <<Tok("]")>>
          [] k = "(" -> Sub(1, 15) \o <<Tok("(")>> \o Listed(2) \o <<Tok(")")>>
          [] k = "," -> Listed(1)
          [] k \in {".", "->"} -> Sub(1, 15) \o <<Tok(k), NameTok(tree.str)>>
          [] k \in {"p++", "p--"} -> Sub(1, 15) \o <<Tok(IF k = "p++" THEN "++" ELSE "--")>>
          [] k = "?" -> Sub(1, 4) \o <<Tok("?")>> \o Sub(2, 1) \o <<Tok(":")>> \o Sub(3, 3)
          [] k \in Assigning -> Sub(1, 14) \o <<Tok(k)>> \o Sub(2, 2)
          [] OTHER -> Sub(1, s) \o <<Tok(k)>> \o Sub(2, s + 1)
  IN  IF s < strength THEN <<Tok("(")>> \o text \o <<Tok(")")>> ELSE text

Text(tree) == Printed(tree, 1)

------------------------------------------------------------------------------
(* Types.                                                                  *)

Bits(type) == ByteBits * type.size
Lowest(type) == IF type.sign = "signed" THEN -(2^(Bits(type) - 1)) ELSE 0
Highest(type) == IF type.sign = "signed" THEN 2^(Bits(type) - 1) - 1 ELSE 2^Bits(type) - 1
InRange(v, type) == type_is_integer(type) => v \in Lowest(type)..Highest(type)
Wrap(v, type) ==
  IF ~type_is_integer(type) THEN v
  ELSE LET low == v % 2^Bits(type) IN IF low > Highest(type) THEN low - 2^Bits(type) ELSE low

Promoted(type) == IF type_is_integer(type) /\ type.size < 4 THEN S32 ELSE type
Common(t1, t2) ==
  LET p == Promoted(t1) q == Promoted(t2) IN
  CASE p.size > q.size -> p
    [] p.size < q.size -> q
    [] OTHER -> IF "unsigned" \in {p.sign, q.sign} THEN [p EXCEPT !.sign = "unsigned"] ELSE p
\* An array as an operand is a pointer to its first element.
Decayed(type) == IF type.kind = "array" THEN new_ptr_type(type.to[1]) ELSE type

RECURSIVE TypeIn(_)
TypeIn(e) ==
  LET t(i) == TypeIn(e.sub[i])
      d(i) == Decayed(t(i))
  IN
  CASE e.kind = "i" -> Decls[e.str].type
    [] e.kind \in {"0", "'", "sizeof", "!", "&&", "||"} \cup Relational -> S32
    [] e.kind = "c" -> e.type
    [] e.kind \in {"[", "*p", "("} -> t(1).to[1]
    [] e.kind = "&p" -> new_ptr_type(t(1))
    [] e.kind = "." -> type_decl(t(1), e.str).type
    [] e.kind = "->" -> type_decl(t(1).to[1], e.str).type
    [] e.kind \in {"neg", "~"} \cup Shift -> Promoted(t(1))
    [] e.kind = "?" -> IF type_is_pointer(d(2)) THEN d(2) ELSE Common(t(2), t(3))
    [] e.kind = "," -> t(Len(e.sub))
    [] e.kind \in Multiplicative \cup Additive \cup {"&", "|", "^"} ->
         CASE type_is_pointer(d(1)) /\ type_is_pointer(d(2)) -> S64
           [] type_is_pointer(d(1)) /\ ~type_is_pointer(d(2)) -> d(1)
           [] ~type_is_pointer(d(1)) /\ type_is_pointer(d(2)) -> d(2)
           [] OTHER -> Common(t(1), t(2))
    [] OTHER -> t(1)

CType(e) == TypeIn(e)

\* A tree with the types of C next to those of the parser.
RECURSIVE WithTypes(_)
WithTypes(e) ==
  [kind |-> e.kind, str |-> e.str, int |-> e.int, type |-> e.type, ctype |-> CType(e),
   sub |-> [i \in DOMAIN e.sub |-> WithTypes(e.sub[i])]]

------------------------------------------------------------------------------
(* Values.                                                                 *)

Has(v, m, ok) == [v |-> v, m |-> m, ok |-> ok, exact |-> TRUE]
LoadAs(m, a, type) ==
  IF type.kind \in {"array", "struct", "function"} THEN a ELSE Wrap(LoadBytes(m, a, type.size), type)

\* Division rounds toward zero.
Magnitude(x) == IF x < 0 THEN -x ELSE x
Ratio(x, y) == (IF (x < 0) = (y < 0) THEN 1 ELSE -1) * (Magnitude(x) \div Magnitude(y))
OfBits(op, x, y, type) == Wrap(BitOp(op, x % 2^Bits(type), y % 2^Bits(type)), type)
Compared(op, x, y) ==
  CASE op = "==" -> x = y [] op = "!=" -> x # y [] op = "<" -> x < y
    [] op = ">" -> x > y [] op = "<=" -> x <= y [] op = ">=" -> x >= y
Bool(b) == IF b THEN 1 ELSE 0

Ideal(op, x, y, type) ==
  CASE op = "+" -> x + y
    [] op = "-" -> x - y
    [] op = "*" -> x * y
    [] op = "/" -> IF y = 0 THEN 0 ELSE Ratio(x, y)
    [] op = "%" -> IF y = 0 THEN 0 ELSE x - y * Ratio(x, y)
    [] OTHER -> OfBits(op, x, y, type)
Fits(op, y, z, type) == (type.sign = "signed" => InRange(z, type)) /\ (op \in {"/", "%"} => y # 0)
Outcome(op, y, z, type) == [v |-> Wrap(z, type), ok |-> Fits(op, y, z, type)]
\* x op y with both converted to a type.  A conversion that changes one of
\* them is not promised where the result depends on it.
Converted(op, x, y, type) == Outcome(op, y, Ideal(op, x, y, type), type)
Arithmetic(op, x, y, type) ==
  [Converted(op, Wrap(x, type), Wrap(y, type), type) EXCEPT
     !.ok = @ /\ (op \in {"/", "%", "|", "^"} => x = Wrap(x, type) /\ y = Wrap(y, type))]

Shifted(op, x, count, type) ==
  LET n == IF count \in 0..(Bits(type) - 1) THEN count ELSE 0
      z == IF op = "<<" THEN x * 2^n ELSE x \div 2^n
  IN  [v |-> Wrap(z, type),
       ok |-> x >= 0 /\ n = count /\ (type.sign = "signed" => InRange(z, type))]

BinaryMeaning(op, x, y, t1, t2) ==
  LET ElementSize(t) == t.to[1].size IN
  CASE op \in Shift -> Shifted(op, x, y, Promoted(t1))
    [] op \in Relational /\ (type_is_pointer(t1) \/ type_is_pointer(t2)) ->
         [v |-> Bool(Compared(op, x, y)), ok |-> TRUE]
    [] op \in Relational /\ ~type_is_pointer(t1) /\ ~type_is_pointer(t2) ->
         [v |-> Bool(Compared(op, x, y)), ok |-> \A z \in {x, y} : InRange(z, Common(t1, t2))]
    [] type_is_pointer(t1) /\ type_is_pointer(t2) ->
         [v |-> (x - y) \div ElementSize(t1), ok |-> x >= y]
    [] type_is_pointer(t1) /\ ~type_is_pointer(t2) ->
         [v |-> IF op = "+" THEN x + y * ElementSize(t1) ELSE x - y * ElementSize(t1), ok |-> TRUE]
    [] ~type_is_pointer(t1) /\ type_is_pointer(t2) -> [v |-> y + x * ElementSize(t2), ok |-> TRUE]
    [] OTHER -> Arithmetic(op, x, y, Common(t1, t2))

Operator(kind) == CHOOSE op \in Multiplicative \cup Additive \cup Shift \cup {"&", "|", "^"} :
                    op \o "=" = kind

RECURSIVE Meaning(_, _), Location(_, _)

\* Where an lvalue is.
Location(e, m) ==
  LET base == Meaning(e.sub[1], m)
      Inside(place) == [place EXCEPT !.ok = @ /\ place.v \in Lvalues]
  IN
  CASE e.kind = "i" -> Has(Address[e.str], m, TRUE)
    [] e.kind = "*p" -> Inside(base)
    [] e.kind = "->" -> Inside([base EXCEPT !.v = @ + type_decl(e.sub[1].ctype.to[1], e.str).pos])
    [] e.kind = "." -> LET subj == Location(e.sub[1], m)
                       IN  [subj EXCEPT !.v = @ + type_decl(e.sub[1].ctype, e.str).pos]
    [] e.kind = "[" ->
         LET index == Meaning(e.sub[2], base.m) IN
         Inside(Has(base.v + index.v * e.ctype.size, index.m, base.ok /\ index.ok /\ index.exact))
    [] OTHER -> Has(0, m, FALSE)

\* The value, in the order of evaluation the compiler takes; the expressions
\* are ones whose value does not depend on it.
Meaning(e, m) ==
  LET t(i) == Decayed(e.sub[i].ctype)
      Used(r) == r.ok /\ r.exact
      one == Meaning(e.sub[1], m)
      two == Meaning(e.sub[2], one.m)
      at == Location(e.sub[1], m)
      old == LoadAs(at.m, at.v, t(1))
      \* The result is kept in the type the tree has.
      Kept(v, m1, ok) == Has(v, m1, ok /\ InRange(v, e.type))
      From(r, m1, ok) == Kept(r.v, m1, ok /\ r.ok)
      Stored(a, m1, v, ok, exact) ==
        [v |-> Wrap(v, t(1)), m |-> StoreBytes(m1, a, t(1).size, Wrap(v, t(1))),
         ok |-> ok, exact |-> exact]
      Delta == IF type_is_pointer(t(1)) THEN t(1).to[1].size ELSE 1
      Step(by) == Stored(at.v, at.m, old + by, at.ok /\ (t(1) = S32 => InRange(old + by, t(1))), TRUE)
  IN
  CASE e.kind = "0" -> Kept(e.int, m, TRUE)
    [] e.kind \in {"i", "*p", ".", "->", "["} ->
         LET place == Location(e, m) IN Has(LoadAs(place.m, place.v, e.ctype), place.m, place.ok)
    [] e.kind = "&p" -> at
    [] e.kind = "c" ->
         [Has(Wrap(one.v, e.type), one.m, Used(one)) EXCEPT
            !.ok = @ /\ (type_is_pointer(t(1)) <=> type_is_pointer(e.type))]
    [] e.kind = "neg" ->
         From(Arithmetic("-", 0, one.v, Promoted(t(1))), one.m, Used(one))
    [] e.kind = "~" -> Kept(Wrap(-one.v - 1, Promoted(t(1))), one.m, Used(one))
    [] e.kind = "!" -> Has(Bool(one.v = 0), one.m, one.ok)
    [] e.kind \in {"&&", "||"} ->
         LET decided == (one.v = 0) = (e.kind = "&&")
             r == IF decided THEN one ELSE two
         IN  [v |-> Bool(r.v # 0), m |-> r.m, ok |-> one.ok /\ r.ok, exact |-> r.exact /\ r.v \in {0, 1}]
    [] e.kind = "?" ->
         LET r == Meaning(e.sub[IF one.v # 0 THEN 2 ELSE 3], one.m) IN
         Kept(r.v, r.m, one.ok /\ Used(r) /\ InRange(r.v, e.ctype))
    [] e.kind = "," ->
         LET upto[n \in DOMAIN e.sub] ==
               IF n = 1 THEN one
               ELSE LET next == Meaning(e.sub[n], upto[n - 1].m)
                    IN  [next EXCEPT !.ok = @ /\ upto[n - 1].ok]
         IN  upto[Len(e.sub)]
    [] e.kind = "=" /\ e.ctype.kind = "struct" ->
         LET from == Location(e.sub[2], at.m) IN
         Has(at.v, [b \in DOMAIN from.m |-> IF b \in at.v..(at.v + t(1).size - 1)
                                            THEN from.m[from.v + b - at.v] ELSE from.m[b]],
             at.ok /\ from.ok)
    [] e.kind = "=" /\ e.ctype.kind # "struct" ->
         LET from == Meaning(e.sub[2], at.m) IN
         Stored(at.v, from.m, from.v, at.ok /\ Used(from), type_is_integer(t(1)) \/ InRange(from.v, U64))
    [] e.kind \in Assigning \ {"="} ->
         LET from == Meaning(e.sub[2], at.m)
             op == Operator(e.kind)
             StoredFrom(r) ==
               Stored(at.v, from.m, r.v, at.ok /\ Used(from) /\ r.ok,
                      CASE op \in {"+", "-", "*", "/", "%"} -> TRUE
                        [] op = "<<" -> r.ok /\ r.v = Wrap(r.v, t(1)) /\ r.v \div 2^from.v = old
                        [] OTHER -> r.v = Wrap(r.v, t(1)))
         IN  StoredFrom(BinaryMeaning(op, old, from.v, t(1), t(2)))
    [] e.kind = "++p" -> Step(Delta)
    [] e.kind = "--p" -> Step(-Delta)
    [] e.kind = "p++" -> [Step(Delta) EXCEPT !.v = old]
    [] e.kind = "p--" -> [Step(-Delta) EXCEPT !.v = old]
    [] e.kind = "(" ->
         LET args[n \in 1..Len(e.sub)] ==
               IF n = 1 THEN [values |-> <<>>, m |-> m, ok |-> TRUE]
               ELSE LET a == Meaning(e.sub[n], args[n - 1].m)
                    IN  [values |-> Append(args[n - 1].values, a.v), m |-> a.m,
                         ok |-> args[n - 1].ok /\ Used(a)]
             all == args[Len(e.sub)]
         IN  Kept(Returns(e.sub[1], all.values, all.m), all.m, all.ok)
    [] e.kind = "<<" ->
         LET Whole(r) == [r EXCEPT !.ok = @ /\ r.v \div 2^two.v = one.v] IN
         From(Whole(BinaryMeaning("<<", one.v, two.v, t(1), t(2))), two.m, Used(one) /\ Used(two))
    [] OTHER -> From(BinaryMeaning(e.kind, one.v, two.v, t(1), t(2)), two.m, Used(one) /\ Used(two))

\* Of an expression with the types of the parser.
MeaningOf(e, m) == Meaning(WithTypes(e), m)
==============================================================================
