----------------------------- MODULE CDeclarations -----------------------------
(***************************************************************************)
(* What C says of declarations: how they are written, which types they     *)
(* give to names, and which values what is declared has.                   *)
(*                                                                         *)
(* An object is a number and a path in it: the index of an element, from   *)
(* 0, the place of a member of a struct, from 1, and, negative, of a       *)
(* union.  A memory gives the values that are known, of scalars.           *)
(***************************************************************************)
EXTENDS CExpressions

------------------------------------------------------------------------------
(* Trees: records, of MCDeclarations, with an expression for what is absent. *)

Absent == new_expr("absent", NoType, <<>>)

------------------------------------------------------------------------------
(* Writing.                                                                *)

RECURSIVE Joined(_, _)
\* Texts with a token between any two.
Joined(texts, between) ==
  CASE texts = <<>> -> <<>>
    [] Len(texts) = 1 -> texts[1]
    [] OTHER -> texts[1] \o between \o Joined(Tail(texts), between)
Braced(text) == <<Tok("{")>> \o text \o <<Tok("}")>>
Bracketed(text) == <<Tok("(")>> \o text \o <<Tok(")")>>
NameText(name) == IF name = "" THEN <<>> ELSE <<NameTok(name)>>

RECURSIVE InitText(_)
InitText(init) ==
  IF init.kind # "l" THEN Printed(init, 2)
  ELSE Braced(Joined([i \in DOMAIN init.sub |-> InitText(init.sub[i])], <<Tok(",")>>))

RECURSIVE DeclarationText(_)
ParamText(param) ==
  IF param.kind = "..." THEN <<Tok("...")>>
  ELSE LET text == DeclarationText(param) IN [i \in 1..(Len(text) - 1) |-> text[i]]

RECURSIVE Derived(_, _, _)
\* A declarator with some of its derivations written, the last one a star.
Derived(text, shape, starred) ==
  IF shape = <<>> THEN text
  ELSE LET whole == IF starred THEN Bracketed(text) ELSE text IN
       CASE shape[1].op = "*" -> Derived(<<Tok("*")>> \o text, Tail(shape), TRUE)
         [] shape[1].op = "[" ->
              Derived(whole \o <<Tok("[")>> \o (IF shape[1].size = Absent THEN <<>> ELSE Text(shape[1].size))
                        \o <<Tok("]")>>, Tail(shape), FALSE)
         [] shape[1].op = "(" ->
              Derived(whole \o Bracketed(Joined([i \in DOMAIN shape[1].params |-> ParamText(shape[1].params[i])],
                                                <<Tok(",")>>)), Tail(shape), FALSE)

ItemText(item) ==
  Derived(NameText(item.name), item.shape, FALSE)
    \o IF item.init = Absent THEN <<>> ELSE <<Tok("=")>> \o InitText(item.init)
ConstText(const) ==
  <<NameTok(const.name)>> \o IF const.value = Absent THEN <<>> ELSE <<Tok("=")>> \o Text(const.value)

SpecifierText(spec) ==
  CASE spec.kind = "base" -> TypeWritten(spec.type)
    [] spec.kind = "name" -> <<NameTok(spec.name)>>
    [] spec.kind \in {"struct", "union"} ->
         <<Tok(spec.kind)>> \o NameText(spec.name)
           \o IF spec.parts = <<>> THEN <<>>
              ELSE Braced(Joined([i \in DOMAIN spec.parts |-> DeclarationText(spec.parts[i])], <<>>))
    [] spec.kind = "enum" ->
         <<Tok("enum")>> \o NameText(spec.name)
           \o IF spec.parts = <<>> THEN <<>>
              ELSE Braced(Joined([i \in DOMAIN spec.parts |-> ConstText(spec.parts[i])], <<Tok(",")>>))

DeclarationText(decl) ==
  [i \in DOMAIN decl.storage |-> Tok(decl.storage[i])] \o SpecifierText(decl.spec)
    \o Joined([i \in DOMAIN decl.items |-> ItemText(decl.items[i])], <<Tok(",")>>) \o <<Tok(";")>>

RECURSIVE PartText(_)
PartText(part) ==
  CASE part.kind = "declaration" -> DeclarationText(part)
    [] part.kind = "function" ->
         ParamText(part.decl) \o Braced(Joined([i \in DOMAIN part.body |-> PartText(part.body[i])], <<>>))
    [] part.kind = "block" -> Braced(Joined([i \in DOMAIN part.body |-> PartText(part.body[i])], <<>>))
    [] part.kind = "evaluate" -> Text(part.expr) \o <<Tok(";")>>
UnitText(unit) == Joined([i \in DOMAIN unit.parts |-> PartText(unit.parts[i])], <<>>)

------------------------------------------------------------------------------
(* Types.  A scalar has the type Expressions has for it.  A name stands    *)
(* for an object, a type or a constant.                                    *)

Kept(kind, type, n, of, members) == [kind |-> kind, type |-> type, n |-> n, of |-> of, members |-> members]
Scalar(type) == Kept("base", type, 0, <<>>, <<>>)
EnumType == Kept("enum", NoType, 0, <<>>, <<>>)
Stands(for, type, n) == [for |-> for, type |-> type, n |-> n]

RECURSIVE Constant(_, _)
Constant(expr, env) ==
  CASE expr.kind = "0" -> expr.int
    [] expr.kind = "neg" -> -Constant(expr.sub[1], env)
    [] expr.kind = "i" -> env[expr.str].n
    [] expr.kind = "<<" -> Constant(expr.sub[1], env) * 2^Constant(expr.sub[2], env)
    [] OTHER -> Ideal(expr.kind, Constant(expr.sub[1], env), Constant(expr.sub[2], env), S32)

RECURSIVE SpecifierType(_, _), ItemType(_, _, _, _), MemberTypes(_, _, _)

\* The members of some declarations, behind those before them.
MemberTypes(decls, env, before) ==
  IF decls = <<>> THEN [members |-> before, env |-> env]
  ELSE LET spec == SpecifierType(decls[1].spec, env)
           items == decls[1].items
           these == IF items = <<>> THEN <<[name |-> "", type |-> spec.type]>>
                    ELSE [i \in DOMAIN items |->
                            [name |-> items[i].name,
                             type |-> ItemType(items[i].shape, Absent, spec.type, spec.env)]]
       IN  MemberTypes(Tail(decls), spec.env, before \o these)

RECURSIVE Enumerated(_, _, _)
Enumerated(consts, next, env) ==
  IF consts = <<>> THEN env
  ELSE LET value == IF consts[1].value = Absent THEN next ELSE Constant(consts[1].value, env) IN
       Enumerated(Tail(consts), value + 1, (consts[1].name :> Stands("constant", EnumType, value)) @@ env)

\* A struct without members has its tag; they may have been declared since.
InFull(type, env) ==
  IF type.kind \in {"struct", "union"} /\ type.members = <<>> /\ type.of[1] \in DOMAIN env
  THEN env[type.of[1]].type ELSE type

\* The type a specifier names, and what it declares.
SpecifierType(spec, env) ==
  LET tag == "struct " \o spec.name
      Given(type, env1) ==
        [type |-> type, env |-> IF spec.name = "" THEN env1 ELSE (tag :> Stands("type", type, 0)) @@ env1]
  IN  CASE spec.kind = "base" -> [type |-> Scalar(spec.type), env |-> env]
        [] spec.kind = "name" -> [type |-> InFull(env[spec.name].type, env), env |-> env]
        [] spec.kind = "enum" -> Given(EnumType, Enumerated(spec.parts, 0, env))
        [] spec.kind \in {"struct", "union"} /\ spec.parts # <<>> ->
             LET all == MemberTypes(spec.parts, env, <<>>)
             IN  Given(Kept(spec.kind, NoType, 0, <<>>, all.members), all.env)
        [] spec.kind \in {"struct", "union"} /\ spec.parts = <<>> ->
             [type |-> InFull(Kept(spec.kind, NoType, 0, <<tag>>, <<>>), env), env |-> env]

\* The derivation next to the name is the outermost.
ItemType(shape, init, base, env) ==
  IF shape = <<>> THEN base
  ELSE LET inner == ItemType(Tail(shape), Absent, base, env)
           params == shape[1].params
           HasName(param) == param.kind = "..." \/ param.items[1].name # ""
           named == SelectSeq(params, HasName)
       IN  CASE shape[1].op = "*" -> Kept("pointer", NoType, 0, <<inner>>, <<>>)
             [] shape[1].op = "[" ->
                  Kept("array", NoType,
                       IF shape[1].size = Absent THEN Len(init.sub) ELSE Constant(shape[1].size, env),
                       <<inner>>, <<>>)
             [] shape[1].op = "(" ->
                  Kept("function", NoType, 0, <<inner>>,
                       [i \in DOMAIN named |->
                          IF named[i].kind = "..." THEN [name |-> "...", type |-> EnumType]
                          ELSE [name |-> named[i].items[1].name,
                                type |-> ItemType(named[i].items[1].shape, Absent,
                                                  SpecifierType(named[i].spec, env).type, env)]])

------------------------------------------------------------------------------
(* Values.                                                                 *)

\* The path to the member with a name, through members without one.
RECURSIVE Holding(_, _), MemberPath(_, _)
Holding(type, name) ==
  {k \in DOMAIN type.members :
     \/ type.members[k].name = name
     \/ type.members[k].name = "" /\ Holding(type.members[k].type, name) # {}}
MemberPath(type, name) ==
  LET k == CHOOSE k \in Holding(type, name) : TRUE
      step == <<IF type.kind = "union" THEN -k ELSE k>>
  IN  IF type.members[k].name = name THEN step ELSE step \o MemberPath(type.members[k].type, name)

Positive(k) == IF k < 0 THEN -k ELSE k
RECURSIVE At(_, _)
\* The type of what is at a path.
At(type, path) ==
  IF path = <<>> THEN type
  ELSE At(IF type.kind = "array" THEN type.of[1] ELSE type.members[Positive(path[1])].type, Tail(path))

RECURSIVE Scalars(_)
\* The paths to the scalars of a type.
Scalars(type) ==
  CASE type.kind = "array" -> {<<k>> \o p : k \in 0..(type.n - 1), p \in Scalars(type.of[1])}
    [] type.kind \in {"struct", "union"} ->
         UNION {{<<IF type.kind = "union" THEN -k ELSE k>> \o p : p \in Scalars(type.members[k].type)} :
                  k \in DOMAIN type.members}
    [] OTHER -> {<<>>}
\* They are in two members of one union.
Alternative(p, q) ==
  \E k \in DOMAIN p \cap DOMAIN q :
     /\ \A j \in 1..(k - 1) : p[j] = q[j]
     /\ p[k] < 0 /\ q[k] < 0 /\ p[k] # q[k]

RECURSIVE Designated(_, _, _), Valued(_, _, _)
Designated(expr, env, m) ==
  CASE expr.kind = "i" -> [object |-> env[expr.str].n, path |-> <<>>, type |-> env[expr.str].type]
    [] expr.kind = "." ->
         LET subj == Designated(expr.sub[1], env, m)
             path == MemberPath(subj.type, expr.str)
         IN  [subj EXCEPT !.path = @ \o path, !.type = At(@, path)]
    [] expr.kind = "[" ->
         LET subj == Designated(expr.sub[1], env, m) IN
         [subj EXCEPT !.path = Append(@, Valued(expr.sub[2], env, m)), !.type = @.of[1]]
Valued(expr, env, m) ==
  CASE expr.kind = "0" -> expr.int
    [] expr.kind = "neg" -> -Valued(expr.sub[1], env, m)
    [] expr.kind = "i" /\ env[expr.str].for = "constant" -> env[expr.str].n
    [] expr.kind = "+" -> Valued(expr.sub[1], env, m) + Valued(expr.sub[2], env, m)
    [] OTHER -> LET place == Designated(expr, env, m) IN m[<<place.object, place.path>>]

Narrowed(value, type) == IF type.kind = "base" THEN Wrap(value, type.type) ELSE value
\* What was in other members of a union is lost.
Stored(m, object, path, type, value) ==
  [w \in {w \in DOMAIN m : w[1] # object \/ ~Alternative(w[2], path)} \cup {<<object, path>>} |->
     IF w = <<object, path>> THEN Narrowed(value, type) ELSE m[w]]

RECURSIVE Initialize(_, _, _, _, _, _)
Initialize(m, object, path, type, init, env) ==
  IF init.kind # "l" THEN Stored(m, object, path, type, Valued(init, env, m))
  ELSE LET upto[k \in 0..Len(init.sub)] ==
             IF k = 0 THEN m
             ELSE LET step == IF type.kind = "array" THEN k - 1 ELSE k IN
                  Initialize(upto[k - 1], object, Append(path, step), At(type, <<step>>), init.sub[k], env)
       IN  upto[Len(init.sub)]

\* A state: what names stand for, memory, and the number of objects.
State(env, m, n) == [env |-> env, m |-> m, n |-> n]
RECURSIVE Declared(_, _, _, _)
Declared(decl, k, base, s) ==
  IF k > Len(decl.items) THEN s
  ELSE LET item == decl.items[k]
           type == ItemType(item.shape, item.init, base, s.env)
           for == IF "typedef" \in {decl.storage[i] : i \in DOMAIN decl.storage} THEN "type" ELSE "object"
           env == (item.name :> Stands(for, type, s.n + 1)) @@ s.env
           m == IF item.init = Absent THEN s.m ELSE Initialize(s.m, s.n + 1, <<>>, type, item.init, env)
       IN  Declared(decl, k + 1, base, State(env, m, s.n + 1))
DeclaredBy(decl, s) ==
  LET spec == SpecifierType(decl.spec, s.env) IN
  Declared(decl, 1, spec.type, [s EXCEPT !.env = spec.env])

RECURSIVE Executed(_, _)
Executed(body, s) ==
  IF body = <<>> THEN s
  ELSE LET part == body[1]
           place == Designated(part.expr.sub[1], s.env, s.m)
       IN  Executed(Tail(body),
             CASE part.kind = "declaration" -> DeclaredBy(part, s)
               [] part.kind = "block" -> [Executed(part.body, s) EXCEPT !.env = s.env]
               [] part.kind = "evaluate" ->
                    [s EXCEPT !.m = Stored(@, place.object, place.path, place.type,
                                           Valued(part.expr.sub[2], s.env, s.m))])

\* main is called with some arguments; type is its own.
CalledAs(type, function, args, s) ==
  LET n == Len(type.members)
      env == [name \in {type.members[k].name : k \in 1..n} |->
                LET k == CHOOSE k \in 1..n : type.members[k].name = name
                IN  Stands("object", type.members[k].type, s.n + k)] @@ s.env
      m == [w \in {<<s.n + k, <<>>>> : k \in 1..n} |->
              Narrowed(args[w[1] - s.n], type.members[w[1] - s.n].type)] @@ s.m
  IN  [Executed(function.body, State(env, m, s.n + n)) EXCEPT !.env = s.env]

Called(function, args, s) ==
  CalledAs(ItemType(function.decl.items[1].shape, Absent,
                    SpecifierType(function.decl.spec, s.env).type, s.env), function, args, s)

\* Globals are zero before their initializers are evaluated.
Zeroed(s, from) ==
  LET Objects == {name \in DOMAIN s.env :
                    s.env[name].for = "object" /\ s.env[name].n > from /\ s.env[name].type.kind # "function"}
  IN  UNION {{<<s.env[name].n, p>> : p \in Scalars(s.env[name].type)} : name \in Objects}

RECURSIVE Run(_, _, _)
Run(parts, args, s) ==
  IF parts = <<>> THEN s
  ELSE LET part == parts[1] IN
       Run(Tail(parts), args,
           IF part.kind = "function" THEN Called(part, args, s)
           ELSE LET after == DeclaredBy(part, s)
                IN  [after EXCEPT !.m = @ @@ [w \in Zeroed(after, s.n) |-> 0]])
\* The names of types of a known size.
Exact(name, sign, size) == name :> Stands("type", Scalar([S32 EXCEPT !.sign = sign, !.size = size]), 0)
Library ==
  Exact("int8_t", "signed", 1) @@ Exact("uint8_t", "unsigned", 1) @@ Exact("uint16_t", "unsigned", 2)
    @@ Exact("int32_t", "signed", 4) @@ Exact("uint32_t", "unsigned", 4) @@ Exact("int64_t", "signed", 8)
    @@ Exact("uint64_t", "unsigned", 8) @@ Exact("size_t", "unsigned", 8) @@ Exact("ssize_t", "signed", 8)
\* What the globals hold in the end.
Outcome_of(unit) == Run(unit.parts, unit.args, State(Library, <<>>, 0))
==============================================================================
