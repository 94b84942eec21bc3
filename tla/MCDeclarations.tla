---------------------------- MODULE MCDeclarations ----------------------------
(***************************************************************************)
(* Declarations for TLC: translation units written as C writes them,       *)
(* against what C says they declare and the values it gives.               *)
(***************************************************************************)
EXTENDS MCExpressions, Declarations

LOCAL INSTANCE FiniteSetsExt

D == INSTANCE CDeclarations WITH LoadBytes <- Load, StoreBytes <- Store, BitOp <- BitOp,
                                 Lvalues <- Globals, Returns <- CReturns

------------------------------------------------------------------------------
(* Parts of units.                                                         *)

Absent == new_expr("absent", NoType, <<>>)
Specifier(kind, name, type, parts) == [kind |-> kind, name |-> name, type |-> type, parts |-> parts]
Derivation(op, size, params) == [op |-> op, size |-> size, params |-> params]
Item(name, shape, init) == [name |-> name, shape |-> shape, init |-> init]
Declaration(storage, spec, items) ==
  [kind |-> "declaration", storage |-> storage, spec |-> spec, items |-> items]
FunctionPart(decl, body) == [kind |-> "function", decl |-> decl, body |-> body]
Block(body) == [kind |-> "block", body |-> body]
Evaluate(expr) == [kind |-> "evaluate", expr |-> expr]

IntSpec == Specifier("base", "", S32, <<>>)
CharSpec == Specifier("base", "", S8, <<>>)
ByteSpec == Specifier("base", "", U8, <<>>)
LongSpec == Specifier("base", "", S64, <<>>)
UnsignedSpec == Specifier("base", "", U32, <<>>)
ShortSpec == Specifier("base", "", U16, <<>>)
Type(name) == Specifier("name", name, NoType, <<>>)
Tagged(kind, tag, parts) == Specifier(kind, tag, NoType, parts)
Star == Derivation("*", Absent, <<>>)
ArrayOf(n) == Derivation("[", n, <<>>)
Taking(params) == Derivation("(", Absent, params)

Simple(name) == Item(name, <<>>, Absent)
Shaped(name, shape) == Item(name, shape, Absent)
Declare1(spec, item) == Declaration(<<>>, spec, <<item>>)
Plain(spec, name) == Declare1(spec, Simple(name))
Typedef(spec, item) == Declaration(<<"typedef">>, spec, <<item>>)
InitList(inits) == Node("l", inits)
Dots == [kind |-> "..."]
Set(place, value) == Evaluate(Node("=", <<place, value>>))
Dot(e, name) == MemberOf(".", name, e)
At1(e, n) == Node("[", <<e, Num(n)>>)
Plus(x, y) == Node("+", <<x, y>>)
Neg(n) == Node("neg", <<Num(n)>>)

\* main has parameters x, c, y of which the first are given.
MainParams == <<Plain(IntSpec, "x"), Plain(CharSpec, "c"), Plain(LongSpec, "y")>>
Main(n, body) ==
  FunctionPart(Declare1(IntSpec, Shaped("main", <<Taking(IF n = 0 THEN <<Plain(IntSpec, "x")>>
                                                   ELSE SubSeq(MainParams, 1, n))>>)), body)
Args(n) == SubSeq(<<5, 1, 700>>, 1, IF n = 0 THEN 1 ELSE n)
Unit(parts, n, body) == [parts |-> Append(parts, Main(n, body)), args |-> Args(n)]
OnlyDeclared(parts) == Unit(parts, 0, <<>>)

------------------------------------------------------------------------------
(* Units.                                                                  *)

\* Every way to put stars, brackets and parameters around a name.
Prototype == Taking(<<Plain(IntSpec, "n"), Declare1(CharSpec, Shaped("s", <<Star>>))>>)
Shapes ==
  {<<>>, <<Star>>, <<Star, Star>>, <<ArrayOf(Num(2))>>, <<ArrayOf(Num(2)), ArrayOf(Num(3))>>,
   <<ArrayOf(Num(3)), Star>>, <<Star, ArrayOf(Num(2))>>, <<Star, ArrayOf(Num(2)), Star>>,
   <<Star, Prototype>>, <<Star, Prototype, Star>>, <<Prototype>>, <<Prototype, Star>>,
   <<Taking(<<Plain(IntSpec, "n"), Dots>>)>>,
   <<Taking(<<Declare1(IntSpec, Shaped("g", <<Star, Prototype>>)), Plain(LongSpec, "n")>>)>>}
ShapeUnits ==
  {OnlyDeclared(<<Declaration(<<>>, spec, <<Shaped("v", shape), Simple("w")>>)>>) :
     spec \in {CharSpec, IntSpec, LongSpec}, shape \in Shapes}
    \cup {OnlyDeclared(<<Typedef(IntSpec, Shaped("F", shape)), Declare1(Type("F"), Shaped("v", of))>>) :
            shape \in Shapes, of \in {<<>>, <<Star>>, <<ArrayOf(Num(2))>>}}

\* Members with and without names, in structs and unions, the last of them
\* set and read through its path.
Inner(kind) == Tagged(kind, "", <<Plain(CharSpec, "x"), Plain(LongSpec, "y")>>)
Parts ==
  <<Plain(CharSpec, "a"), Plain(IntSpec, "b"), Plain(LongSpec, "l"), Declare1(CharSpec, Shaped("s", <<ArrayOf(Num(3))>>)),
    Declare1(IntSpec, Shaped("p", <<Star>>)), Plain(Inner("struct"), "in"), Plain(Inner("union"), "un"),
    Declaration(<<>>, Inner("struct"), <<>>), Declaration(<<>>, Inner("union"), <<>>),
    Declaration(<<>>, IntSpec, <<Simple("m"), Shaped("n", <<ArrayOf(Num(2))>>)>>)>>
Reached == <<Dot(Id("v"), "a"), Dot(Id("v"), "b"), Dot(Id("v"), "l"), At1(Dot(Id("v"), "s"), 2), Absent,
            Dot(Dot(Id("v"), "in"), "y"), Dot(Dot(Id("v"), "un"), "x"), Dot(Id("v"), "y"), Dot(Id("v"), "x"),
            At1(Dot(Id("v"), "n"), 1)>>
SetAndRead(i, x) ==
  IF Reached[i] = Absent THEN <<>> ELSE <<Set(Reached[i], Id(x)), Set(Id("w"), Reached[i])>>
\* No name twice: both parts without a name have an x.
Twos == {t \in (1..10) \X (1..10) : t[1] # t[2] /\ {t[1], t[2]} # {8, 9}}
StructUnits ==
  {Unit(<<Plain(IntSpec, "w"), Plain(Tagged(kind, "", <<Parts[i], Parts[k], Plain(LongSpec, "z")>>), "v")>>, 1,
        SetAndRead(i, "x") \o <<Set(Dot(Id("v"), "z"), Id("x"))>> \o SetAndRead(k, "x")) :
     kind \in {"struct", "union"}, <<i, k>> \in Twos}

\* Tags and typedefs, before and after the members are known.
Record == Tagged("struct", "S", <<Plain(CharSpec, "a"), Declare1(Tagged("struct", "S", <<>>), Shaped("p", <<Star>>)),
                             Plain(LongSpec, "l")>>)
Known == Tagged("struct", "S", <<>>)
Symbol == Tagged("struct", "", <<Plain(UnsignedSpec, "name"), Plain(ByteSpec, "info"), Plain(ByteSpec, "other"),
                                 Plain(ShortSpec, "index"), Plain(LongSpec, "value"), Plain(LongSpec, "size")>>)
Touched == <<Set(Dot(Id("v"), "l"), Num(7)), Set(Id("w"), Dot(Id("v"), "l"))>>
TagUnits ==
  {Unit(Append(parts, Plain(LongSpec, "w")), 0, Touched) :
     parts \in {<<Declaration(<<>>, Record, <<>>), Plain(Known, "v")>>,
                <<Plain(Record, "v")>>,
                <<Typedef(Record, Simple("T")), Plain(Type("T"), "v")>>,
                <<Typedef(Known, Simple("T")), Declaration(<<>>, Record, <<>>), Plain(Type("T"), "v")>>,
                <<Typedef(Known, Shaped("T", <<Star>>)), Plain(Record, "v")>>}}
    \cup {Unit(<<Plain(Type(name), "v"), Plain(Type("int64_t"), "w")>>, 0,
               <<Set(Id("v"), Neg(1)), Set(Id("w"), Id("v"))>>) :
            name \in {"int8_t", "uint8_t", "uint16_t", "int32_t", "uint64_t", "ssize_t"}}
    \cup {Unit(<<Typedef(Symbol, Simple(name)), Plain(Type(name), "v"), Plain(LongSpec, "w")>>, 0,
               <<Set(Dot(Id("v"), "index"), Num(9)), Set(Dot(Id("v"), "value"), Num(3)),
                 Set(Id("w"), Dot(Id("v"), "index"))>>) :
            name \in {"Elf64_Sym", "Symbol"}}

\* Constants with values of their own, or counted from those before them.
Const(name, value) == [name |-> name, value |-> value]
Given == {Absent, Num(3), Neg(2), Node("<<", <<Num(1), Num(2)>>), Node("|", <<Num(4), Num(1)>>)}
EnumUnits ==
  {Unit(<<Declaration(<<>>, Tagged("enum", tag, <<Const("A", x), Const("B", y), Const("C", z)>>),
                        IF tag = "" THEN <<Simple("v")>> ELSE <<>>),
          Declare1(IntSpec, Item("w", <<ArrayOf(Absent)>>, InitList(<<Id("C"), Id("A")>>))),
          Declare1(CharSpec, Shaped("r", <<ArrayOf(Plus(Id("C"), Num(4)))>>))>>, 1,
        <<Set(At1(Id("w"), 1), Plus(Id("B"), Id("x")))>>) :
     tag \in {"", "E"}, x \in Given, y \in Given \cup {Plus(Id("A"), Num(2))}, z \in {Absent} \cup {Plus(Id("B"), Num(2))}}

\* Initializers of globals, and of locals that are then copied; those of
\* globals may leave the rest out.
Pair == Tagged("struct", "", <<Plain(CharSpec, "a"), Plain(IntSpec, "b")>>)
OfRow(n) == {InitList(SubSeq(<<Num(3), Plus(Num(4), Num(1)), Neg(2)>>, 1, k)) : k \in 1..n}
Whole(n) == InitList([k \in 1..n |-> Plus(Id("x"), Num(k))])
Initialized2(spec, shape, init) == Declare1(spec, Item("v", shape, init))
GlobalInits ==
  {Initialized2(t, <<ArrayOf(n)>>, i) : t \in {CharSpec, IntSpec, LongSpec}, n \in {Num(3), Absent}, i \in OfRow(3)}
    \cup {Initialized2(t, <<ArrayOf(Num(2)), ArrayOf(Num(2))>>, InitList(<<i, j>>)) :
            t \in {CharSpec, IntSpec}, i, j \in OfRow(2)}
    \cup {Initialized2(Pair, <<>>, i) : i \in OfRow(2)}
    \cup {Initialized2(Pair, <<ArrayOf(Absent)>>, InitList(<<i, j>>)) : i, j \in OfRow(2)}
    \cup {Initialized2(Tagged("struct", "", <<Plain(CharSpec, "c"), Declare1(IntSpec, Shaped("d", <<ArrayOf(Num(2))>>)),
                                               Plain(Pair, "e")>>), <<>>, InitList(<<Num(1), i, j>>)) :
            i, j \in OfRow(2)}
    \cup {Initialized2(t, <<>>, i) : t \in {CharSpec, IntSpec, LongSpec}, i \in {Num(3), Neg(1), Plus(Num(1), Num(1))}}
LocalInits ==
  {<<Declaration(<<>>, LongSpec, <<Item("l", <<>>, Id("x")), Item("i", <<>>, Plus(Id("l"), Num(1)))>>),
     Set(Id("w"), Id("i"))>>}
    \cup {<<Initialized2(t, <<ArrayOf(n)>>, Whole(2)), Set(Id("w"), At1(Id("v"), k)), Set(Id("r"), Id("x"))>> :
            t \in {CharSpec, IntSpec, LongSpec}, n \in {Num(2), Absent}, k \in 0..1}
    \cup {<<Initialized2(Pair, <<ArrayOf(Absent)>>, InitList(<<Whole(2), Whole(2)>>)),
            Set(Id("w"), Dot(At1(Id("v"), k), m))>> : k \in 0..1, m \in {"a", "b"}}
InitUnits ==
  {Unit(<<Plain(LongSpec, "w"), g>>, 0, <<Set(Id("w"), Num(1))>>) : g \in GlobalInits}
    \cup {Unit(<<Plain(LongSpec, "w"), Plain(IntSpec, "r")>>, 1, body) : body \in LocalInits}

\* Parameters, and names that hide others in nested blocks.
Hide(spec, name, n) == Declare1(spec, Item(name, <<>>, Num(n)))
Bodies ==
  {<<Set(Id("w"), Id("x")), Set(Id("r"), Id("c")), Set(Id("v"), Id("y"))>>,
   <<Set(Id("x"), Id("c")), Set(Id("w"), Id("x")), Set(Id("v"), Id("y"))>>}
    \cup {<<Hide(s, m, 2), Block(<<Hide(t, n, 7), Set(Id("w"), Id(m)), Set(Id("r"), Id("x"))>>),
            Set(Id("v"), Id(n)), Block(<<Set(Id(n), Num(1))>>), Hide(IntSpec, "z", 3), Set(Id("r"), Id(n))>> :
            s, t \in {CharSpec, LongSpec}, m \in {"a", "v"}, n \in {"x", "a", "c"}}
FunctionUnits ==
  {Unit(<<Plain(IntSpec, "w"), Plain(IntSpec, "r"), Plain(LongSpec, "v"), Hide(IntSpec, "a", 4)>>, 3, body) : body \in Bodies}

MCUnits == ShapeUnits \cup StructUnits \cup TagUnits \cup EnumUnits \cup InitUnits \cup FunctionUnits
MCUnitTokens(unit) == D!UnitText(unit)

------------------------------------------------------------------------------
(* Compared with C.                                                        *)

\* The declaration of the members of a struct that has the name.
Declaring(type, name) == type.decls[CHOOSE i \in DOMAIN type.decls : type.decls[i].name = name]

\* Where in an object of a type what is at a path lies, and its type; type is
\* the compiler's, kept C's.
RECURSIVE LiesAt(_, _, _)
LiesAt(type, kept, path) ==
  IF path = <<>> THEN [pos |-> 0, type |-> type]
  ELSE LET k == D!Positive(path[1])
           part == kept.members[k]
           member == Declaring(type, part.name)
           rest == CASE kept.kind = "array" -> LiesAt(type.to[1], kept.of[1], Tail(path))
                     [] kept.kind # "array" /\ part.name = "" -> LiesAt(type, part.type, Tail(path))
                     [] OTHER -> LiesAt(member.type, part.type, Tail(path))
           skip == CASE kept.kind = "array" -> path[1] * type.to[1].size
                     [] kept.kind # "array" /\ part.name = "" -> 0
                     [] OTHER -> member.pos
       IN  [rest EXCEPT !.pos = @ + skip]

\* The compiler's type is C's, but for the places of members.  Structs that
\* are pointed to are not compared.
RECURSIVE SameType(_, _)
SameMember(type, part) ==
  IF part.name = "" THEN \A k \in DOMAIN part.type.members :
                           \E i \in DOMAIN type.decls : type.decls[i].name = part.type.members[k].name
  ELSE \E i \in DOMAIN type.decls :
         type.decls[i].name = part.name /\ SameType(type.decls[i].type, part.type)
SameType(type, kept) ==
  CASE kept.kind = "base" -> type = kept.type
    [] kept.kind = "enum" -> type.size = 4
    [] kept.kind = "pointer" ->
         /\ type.kind = "pointer" /\ type.size = long_long_size
         /\ kept.of[1].kind \notin {"struct", "union"} => SameType(type.to[1], kept.of[1])
    [] kept.kind = "array" ->
         /\ type.kind = "array" /\ type.size = kept.n * type.to[1].size
         /\ SameType(type.to[1], kept.of[1])
    [] kept.kind = "function" ->
         /\ type.kind = "function" /\ SameType(type.to[1], kept.of[1])
         /\ Len(type.decls) = Len(kept.members)
         /\ \A k \in DOMAIN type.decls :
              /\ type.decls[k].name = kept.members[k].name
              /\ type.decls[k].name # "..." => SameType(type.decls[k].type, kept.members[k].type)
    [] kept.kind \in {"struct", "union"} ->
         type.kind = kept.kind /\ \A k \in DOMAIN kept.members : SameMember(type, kept.members[k])

\* Two scalars of one object share no byte, and none lies outside.
LaidOut(type, kept) ==
  LET paths == D!Scalars(kept)
      Begin(p) == LiesAt(type, kept, p).pos
      End(p) == Begin(p) + LiesAt(type, kept, p).type.size
  IN  /\ \A p \in paths : End(p) <= type.size
      /\ \A p, q \in paths : p # q /\ ~D!Alternative(p, q) => End(p) <= Begin(q) \/ End(q) <= Begin(p)

\* Every byte is one of a scalar.
Dense(type, kept) ==
  MapThenSumSet(LAMBDA p : LiesAt(type, kept, p).type.size, D!Scalars(kept)) = type.size

Compiled(st, name) == find_decl(st.idents, name)
Objects(env) == {name \in DOMAIN env : env[name].for = "object"}
Room_for(st, name) ==
  \E i \in DOMAIN st.text : /\ st.text[i].op = "int" /\ st.text[i].str = name
                            /\ st.text[i].n * long_long_size >= Compiled(st, name).type.size
DeclaresAsC(env, st) ==
  \A name \in DOMAIN env :
    LET type == Compiled(st, name).type
        kept == env[name].type
    IN  name \in NamesIn(st.idents) =>
          /\ SameType(type, kept)
          /\ kept.kind # "function" => LaidOut(type, kept)
          /\ name \in PackedNames => Dense(type, kept)
          /\ env[name].for = "object" /\ kept.kind # "function" => Room_for(st, name)
GlobalsOfC(meant, st) ==
  /\ \A name \in Objects(meant.env) : \A p \in D!Scalars(meant.env[name].type) :
       <<meant.env[name].n, p>> \in DOMAIN meant.m =>
         LET lies == LiesAt(Compiled(st, name).type, meant.env[name].type, p) IN
         Load(mem, MCAddress[name] + lies.pos, lies.type.size)
           = meant.m[<<meant.env[name].n, p>>] % Modulus(lies.type.size)
  /\ \A name \in {name \in DOMAIN meant.env : meant.env[name].for = "constant"} :
       Load(mem, MCAddress[name], 4) = meant.env[name].n % Modulus(4)

KeptAsC(meant, parsed) ==
  /\ pc = 1 => parsed.ok /\ DeclaresAsC(meant.env, parsed.st)
  /\ Ended => GlobalsOfC(meant, parsed.st)

\* The types declared names have are C's, no two parts of an object share a
\* byte, in a packed struct none is lost, and when main ends the globals and
\* the constants of enums hold what C says: their initializers, and what main
\* was given and has put in them.
DeclarationsMeanC ==
  "unit" \in DOMAIN program /\ (pc = 1 \/ Ended) =>
    KeptAsC(D!Outcome_of(program.unit), parse_file(program.tokens))
==============================================================================
