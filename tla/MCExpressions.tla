----------------------------- MODULE MCExpressions -----------------------------
(***************************************************************************)
(* Expressions for TLC: written as C writes them, parsed, translated and   *)
(* run, against what they mean in C.  A byte has two bits here, a word 16. *)
(***************************************************************************)
EXTENDS ExpressionCode

------------------------------------------------------------------------------
(* The declarations: int i; unsigned u; char c; unsigned char b;           *)
(* long long l; int *p; int a[2]; struct S { char x; int y; } s, t, *q;    *)
(* int f(int, char); int g(int, ...); a pointer h to such an f; and        *)
(* typedef int T.                                                          *)

Var(type) == [type |-> type, storage_type |-> "none"]
Field(name, type, pos) == [name |-> name, type |-> type, pos |-> pos]
Struct == [new_type("struct", 16) EXCEPT !.decls = <<Field("x", S8, 0), Field("y", S32, 8)>>]
Array == [new_type("array", 8) EXCEPT !.to = <<S32>>]
Function(params) == [new_type("function", 4) EXCEPT !.to = <<S32>>, !.decls = params]
F == Function(<<Field("x", S32, 0), Field("y", S8, 0)>>)
G == Function(<<Field("n", S32, 0), Field("...", NoType, 0)>>)

MCDecls ==
  ("i" :> Var(S32)) @@ ("u" :> Var(U32)) @@ ("c" :> Var(S8)) @@ ("b" :> Var(U8)) @@ ("l" :> Var(S64))
    @@ ("p" :> Var(new_ptr_type(S32))) @@ ("a" :> Var(Array))
    @@ ("s" :> Var(Struct)) @@ ("t" :> Var(Struct)) @@ ("q" :> Var(new_ptr_type(Struct)))
    @@ ("f" :> Var(F)) @@ ("g" :> Var(G)) @@ ("h" :> Var(new_ptr_type(F)))
    @@ ("T" :> [type |-> S32, storage_type |-> "typedef"])
    @@ ("struct S" :> [type |-> Struct, storage_type |-> "tag"])

MCAddress ==
  ("i" :> 0) @@ ("u" :> 8) @@ ("c" :> 16) @@ ("b" :> 24) @@ ("l" :> 32) @@ ("p" :> 40) @@ ("a" :> 48)
    @@ ("s" :> 56) @@ ("t" :> 72) @@ ("q" :> 88) @@ ("h" :> 96) @@ ("f" :> 200) @@ ("g" :> 208)
    @@ ("v" :> 0) @@ ("r" :> 40) @@ ("w" :> 64) @@ ("A" :> 80) @@ ("B" :> 88) @@ ("C" :> 96)
Globals == 0..103

\* f(x, y) gives x - y; g(n, ...) gives the sum of k times its k-th further
\* argument, for k up to n.
MCArity(f) == 2
MCResult(f, args, m) ==
  IF f = "f" THEN (AsSigned(4, args[1]) - AsSigned(1, args[2])) % 65536
  ELSE LET n == AsSigned(4, args[1])
           sum[k \in 0..n] == IF k = 0 THEN 0
                              ELSE sum[k - 1] + k * AsSigned(4, Load(m, args[2] + 8 * (k - 1), 8))
       IN  sum[n] % 65536
CReturns(f, args, m) ==
  IF f.str = "g" THEN LET sum[k \in 0..args[1]] == IF k = 0 THEN 0 ELSE sum[k - 1] + k * args[k + 1]
                      IN  sum[args[1]]
  ELSE args[1] - args[2]

C == INSTANCE CExpressions WITH LoadBytes <- Load, StoreBytes <- Store, BitOp <- BitOp,
                                Lvalues <- Globals, Returns <- CReturns

\* Memory with values of i, u, c, b, l; p points to a[1], q to t, h to f.
Blank == [x \in Cells |-> x % 4]
RECURSIVE Filled(_, _)
Filled(m, values) ==
  IF values = <<>> THEN m
  ELSE LET w == values[1] IN
       Filled(Store(m, MCAddress[w[1]], MCDecls[w[1]].type.size, w[2] % 65536), Tail(values))
Common == << <<"p", 52>>, <<"q", 72>>, <<"h", 200>> >>
MCImages ==
  <<Filled(Blank, Common \o << <<"i", 3>>, <<"u", 200>>, <<"c", 1>>, <<"b", 3>>, <<"l", -300>> >>),
   Filled(Blank, Common \o << <<"i", -5>>, <<"u", 2>>, <<"c", -2>>, <<"b", 0>>, <<"l", 1000>> >>)>>

------------------------------------------------------------------------------
(* Trees, without types but where a cast names one.                        *)

Node(kind, sub) == new_expr(kind, NoType, sub)
Id(str) == Identifier(str, NoType)
Num(n) == [Node("0", <<>>) EXCEPT !.int = n]
Chr(n) == [Node("'", <<>>) EXCEPT !.int = n]
Cast(type, e) == [Node("c", <<e>>) EXCEPT !.type = type]
MemberOf(kind, str, e) == [Node(kind, <<e>>) EXCEPT !.str = str]

OnBoth(kinds, lefts, rights) == {Node(k, <<x, y>>) : k \in kinds, x \in lefts, y \in rights}
OnEach(kinds, subs) == {Node(k, <<x>>) : k \in kinds, x \in subs}

vi == Id("i")
vu == Id("u")
vl == Id("l")
Scalars == {Id(n) : n \in {"i", "u", "c", "b", "l"}}
Element1 == Node("[", <<Id("a"), Num(1)>>)
Places == Scalars \cup {Element1, Node("*p", <<Id("p")>>), MemberOf(".", "y", Id("s")),
                        MemberOf("->", "x", Id("q")), MemberOf("->", "y", Id("q"))}
Operators == Multiplicative \cup Additive \cup {"&", "|", "^", "<", ">=", "==", "!="}
Operands == Scalars \cup {Num(2), Chr(1), Node("neg", <<Num(3)>>)}
BinaryKinds == Operators \cup Shift \cup {"&&", "||"}

\* One operator, on all kinds of operands.
Binaries ==
  OnBoth(Operators, Operands, Operands) \cup OnBoth(Shift, Places, {Num(1), Num(3), Id("c")})
    \cup OnBoth({"&&", "||"}, Operands, Operands)
Unaries ==
  OnEach({"neg", "~", "!"}, Operands \cup Places)
    \cup {Cast(t, e) : t \in {S8, U8, U16, S32, U32, S64, U64}, e \in Operands}
Changes ==
  OnEach({"++p", "--p", "p++", "p--"}, Places \cup {Id("p"), Id("q")}) \cup OnBoth(Assigning, Places, Operands)
    \cup OnBoth({"+=", "-="}, {Id("p"), Id("q")}, {Num(1), Id("c")})
    \cup {Node("=", <<Id("s"), Id("t")>>), Node("=", <<Id("s"), Node("*p", <<Id("q")>>)>>)}

\* Two operators of any two levels, either one in the other.
Pairs ==
  OnBoth(BinaryKinds, OnBoth(BinaryKinds, {vi}, {vl}), {Num(2)})
    \cup OnBoth(BinaryKinds, {vu}, OnBoth(BinaryKinds, {vl}, {Num(2)}))
    \cup OnEach({"neg", "~", "!"}, OnBoth(BinaryKinds, {vl}, {vi}))
    \cup OnBoth(BinaryKinds, OnEach({"neg", "~", "!"}, {vi}), {vl})
    \cup {Cast(S64, t) : t \in OnBoth(BinaryKinds, {vi}, {Id("b")})}
    \cup OnBoth(BinaryKinds, {vi}, {Cast(S64, Id("c")), Node("(", <<Id("f"), Num(1), Chr(1)>>)})

\* Conditions, lists, and assignments in expressions.
Selections ==
  LET Tests == OnBoth({"<", "&&", "||"}, {vi, Id("c")}, {Id("u"), Num(0)}) \cup OnEach({"!"}, {vi, Id("b")})
      Branches == {vl, Node("+", <<vl, Num(1)>>), Node("=", <<vi, Num(5)>>), Node("p++", <<vl>>),
                   Node(",", <<Node("=", <<vi, Num(1)>>), vi, vl>>)}
  IN  {Node("?", <<t, x, y>>) : t \in Tests, x, y \in Branches}
        \cup {Node("?", <<t, Node("?", <<vi, vl, vi>>), Node("?", <<vi, vi, vl>>)>>) : t \in Tests}
        \cup OnBoth({"=", "+=", "-="}, {vl}, OnBoth({"=", "-=", "*="}, {vi, Id("c")}, {Num(3), Id("b")}))
        \cup OnBoth({"&&", "||"}, Tests, {Node("=", <<vi, Num(5)>>), Node("p++", <<vi>>)})
        \cup {Node("!", <<t>>) : t \in Tests}
        \cup {Node(",", <<x, y>>) : x, y \in Branches}

\* Pointers, arrays, members and calls.
CallOf(f, args) == Node("(", <<f>> \o args)
Pointed ==
  LET p == Id("p")
      q == Id("q")
      Ptrs == {p, Id("a"), Node("&p", <<vi>>), Node("&p", <<Element1>>), Cast(new_ptr_type(S32), q)}
      Moved == OnBoth({"+", "-"}, Ptrs, {vi, Num(1), Id("c")}) \cup OnBoth({"+"}, {Num(1)}, Ptrs)
  IN  Moved \cup OnEach({"*p"}, Moved \cup OnEach({"p++", "p--", "++p", "--p"}, {p}))
        \cup OnBoth({"[", "-", "<", "=="}, Ptrs, {Num(0), Id("c")}) \cup OnBoth({"-", "<", "==", ">="}, Ptrs, Ptrs)
        \cup {Node("=", <<Node("*p", <<Node(k, <<p>>)>>), Num(7)>>) : k \in {"p++", "--p"}}
        \cup {Node("=", <<MemberOf("->", m, e), Node("neg", <<Num(1)>>)>>) : m \in {"x", "y"},
                 e \in {q, Node("&p", <<Id("s")>>), Node("-", <<q, Num(1)>>), Node("p++", <<q>>),
                        Node("=", <<q, Node("&p", <<Id("s")>>)>>), Node(",", <<vi, q>>)}}
        \cup {MemberOf(".", "y", Node("*p", <<q>>)), Node("&p", <<MemberOf("->", "y", q)>>),
              Node("[", <<Node("&p", <<MemberOf("->", "y", q)>>), Num(0)>>),
              Node("*p", <<Cast(type_char_ptr, q)>>), Node("*p", <<Cast(type_char_ptr, Node("&p", <<vi>>))>>)}
Calls ==
  LET f == Id("f")
      g == Id("g")
      Inner == {CallOf(f, <<Num(5), Num(1)>>), CallOf(g, <<Num(1), vi>>), CallOf(g, <<Num(0)>>),
                CallOf(g, <<Num(2), vi, CallOf(g, <<Num(2), Num(1), Num(3)>>)>>)}
  IN  Inner \cup {CallOf(Id("h"), <<x, Id("c")>>) : x \in Inner}
        \cup {CallOf(Node("*p", <<Id("h")>>), <<vi, Num(1)>>)}
        \cup {CallOf(g, <<Num(3), x, Node("=", <<Id("l"), y>>), y>>) : x, y \in Inner}
        \cup OnBoth({"+", "-", "*"}, Inner, Inner)
Sizes ==
  {[Node("sizeof", <<>>) EXCEPT !.type = t] : t \in {S8, S32, U32, type_char_ptr}}
    \cup OnEach({"sizeof"}, {vi, vl, Id("c"), Id("a"), Id("s"), Id("q"), Element1, Node("*p", <<Id("q")>>),
                          Node("+", <<vi, vl>>), Node("&p", <<vi>>)})
    \cup OnBoth({"*", "-"}, OnEach({"sizeof"}, {vi, Id("s")}), {vi, vl})

AllTrees == Binaries \cup Unaries \cup Changes \cup Pairs \cup Selections \cup Pointed \cup Calls \cup Sizes

------------------------------------------------------------------------------
(* Which of them are compared.                                             *)

\* What an expression reads or writes; p may point to i and to a, q to s and t.
RECURSIVE Uses(_)
Uses(e) ==
  (CASE e.str = "p" -> {"p", "i", "a"} [] e.str = "q" -> {"q", "s", "t"} [] OTHER -> {e.str})
    \cup UNION {Uses(e.sub[k]) : k \in DOMAIN e.sub}
Sets == Assigning \cup {"++p", "--p", "p++", "p--"}
RECURSIVE Writes(_)
Writes(e) ==
  (IF e.kind \in Sets THEN Uses(e.sub[1]) ELSE {}) \cup UNION {Writes(e.sub[k]) : k \in DOMAIN e.sub}
\* The value does not depend on an order C leaves open.
RECURSIVE Ordered(_)
Ordered(e) ==
  /\ \A k \in DOMAIN e.sub : Ordered(e.sub[k])
  /\ e.kind \in {"&&", "||", "?", ","} \/
     \A j, k \in DOMAIN e.sub : j # k => Writes(e.sub[j]) \cap (Uses(e.sub[k]) \ {""}) = {}

\* Where the grammar of the parser is not C's: & and ^ stand in the other
\* order, == and < on one level, and no conditional, list or assignment may
\* be between ? and :.
RECURSIVE Confusing(_)
Confusing(e) ==
  \/ e.kind = "^" /\ "&" \in {e.sub[1].kind, e.sub[2].kind}
  \/ e.kind \in {"==", "!="} /\ e.sub[2].kind \in {"<", ">", "<=", ">="}
  \/ e.kind = "?" /\ e.sub[2].kind \in {"?", ","} \cup Assigning
  \/ \E k \in DOMAIN e.sub : Confusing(e.sub[k])

MeaningOf(expr, image) == C!MeaningOf(expr, MCImages[image])
MCDefined(expr, image) == MeaningOf(expr, image).ok
MCTokens(tree) == C!Text(tree)
MCTrees == {t \in AllTrees : Ordered(t) /\ ~Confusing(t)}

------------------------------------------------------------------------------
\* A tree without the types the parser gives, numbers folded as it does.
RECURSIVE Untyped(_), Folded(_)
Untyped(e) ==
  [e EXCEPT !.type = IF e.kind = "c" THEN @ ELSE NoType, !.int = IF e.kind = "0" THEN @ ELSE 0,
            !.sub = [k \in DOMAIN @ |-> Untyped(@[k])]]
Folded(e) ==
  CASE e.kind = "'" -> Num(e.int)
    [] e.kind = "neg" /\ Folded(e.sub[1]).kind = "0" -> Num(-Folded(e.sub[1]).int)
    [] e.kind = "sizeof" -> Num(IF e.sub = <<>> THEN e.type.size ELSE C!CType(e.sub[1]).size)
    [] OTHER -> [e EXCEPT !.sub = [k \in DOMAIN @ |-> Folded(@[k])]]

RECURSIVE Leaves(_)
Leaves(e) == IF e.sub = <<>> THEN {e} ELSE UNION {Leaves(e.sub[k]) : k \in DOMAIN e.sub}
\* The type is C's where no operand is smaller than an int, but for the type
\* of numbers and truth values, which is unsigned, and of differences of
\* pointers, which are int.
RECURSIVE Wide(_)
Wide(e) ==
  /\ C!CType(e) \notin {S8, U8, U16} /\ e.kind \notin {"0", "'", "sizeof"}
  /\ \A k \in DOMAIN e.sub : Wide(e.sub[k])
TypedAsC(e, tree) ==
  Wide(tree) /\ e.kind \notin {"-", "c"} =>
    LET type == C!CType(tree) IN
    /\ e.type.to = type.to
    /\ e.type.kind # "array" => e.type.kind = type.kind /\ e.type.size = type.size
    /\ e.kind \in Operators \ Relational /\ Leaves(e) \subseteq {e.sub[1], e.sub[2]}
         => e.type.sign = type.sign \/ "unsigned" \in {e.sub[1].type.sign, e.sub[2].type.sign}

\* The parser builds the tree C reads in the tokens, and gives it C's type.
ParsesAsC ==
  pc = 1 /\ "tree" \in DOMAIN program =>
            LET parsed == Parsed(program.tokens) IN
            /\ parsed.at = Len(program.tokens) + 1
            /\ Untyped(parsed.expr) = Folded(program.tree)
            /\ TypedAsC(parsed.expr, program.tree)
\* The code leaves the value and the memory C says, for every expression C
\* defines and whose values the types the compiler keeps can hold.
ExpressionsMeanC ==
  Ended /\ "tree" \in DOMAIN program =>
    LET meant == MeaningOf(Parsed(program.tokens).expr, program.image) IN
    /\ \A x \in Globals : mem[x] = meant.m[x]
    /\ Len(stack) = 3 /\ (meant.exact => stack[3] = meant.v % 65536)
==============================================================================
