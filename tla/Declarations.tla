----------------------------- MODULE Declarations -----------------------------
(***************************************************************************)
(* Declarations in tcc_cc.c: types built from declarators, the layout of   *)
(* structs and unions, the scopes of names, and the code that initializes  *)
(* what is declared.                                                       *)
(*                                                                         *)
(* A text is parsed as one step; what is run is the code of                *)
(* __init_globals__ and then that of main, on the machine of               *)
(* ExpressionCode.  The state of the parser, st, holds the names (idents,  *)
(* the newest last), the tags, the struct or union being declared, and the *)
(* code written.  A struct that points to itself has its members only in   *)
(* the outer of the two.                                                   *)
(***************************************************************************)
EXTENDS ExpressionCode

LOCAL INSTANCE SequencesExt

CONSTANTS
  Units,         \* the translation units
  UnitTokens(_)  \* and the tokens they are written in

------------------------------------------------------------------------------
(* What the parser keeps.                                                  *)

NoValue == new_expr("NULL", NoType, <<>>)
\* cur_struct_or_union.
NoStruct == [open |-> FALSE, is_struct |-> FALSE, pos |-> 0, size |-> 0]
new_decl(name, type) ==
  [name |-> name, type |-> type, storage_type |-> "none", value |-> NoValue, pos |-> 0]
\* Without jmp_buf.
add_predefined_types ==
  LET Type(name, type) == [new_decl(name, type) EXCEPT !.storage_type = "typedef"] IN
  <<Type("uint64_t", U64), Type("int64_t", S64), Type("uint32_t", U32), Type("int32_t", S32),
    Type("uint16_t", U16), Type("uint8_t", U8), Type("int8_t", S8), Type("size_t", U64), Type("ssize_t", S64)>>
Start ==
  [idents |-> add_predefined_types, tags |-> <<>>, struct |-> NoStruct, inside_function |-> FALSE,
   text |-> <<>>, functions |-> <<>>]

add_decl(st, decl) == [st EXCEPT !.idents = Append(@, decl)]
\* The names declared since there were n of them.
Since(st, n) == SubSeq(st.idents, n + 1, Len(st.idents))
\* The names a block, a parameter list or a struct declared are forgotten.
Restored(st, n) == [st EXCEPT !.idents = SubSeq(@, 1, n)]
write(st, text) == [st EXCEPT !.text = @ \o text]

find_decl(decls, name) ==
  decls[CHOOSE i \in DOMAIN decls :
          decls[i].name = name /\ \A j \in (i + 1)..Len(decls) : decls[j].name # name]
NamesIn(decls) == {decls[i].name : i \in DOMAIN decls}
\* The declarations as the parser of expressions takes them.
Visible_decls(st) ==
  [name \in NamesIn(st.idents) |-> find_decl(st.idents, name)]
    @@ [tag \in {"struct " \o name : name \in NamesIn(st.tags)} |->
          find_decl(st.tags, CHOOSE name \in NamesIn(st.tags) : tag = "struct " \o name)]

RECURSIVE expr_eval(_, _)
expr_eval(expr, st) ==
  LET value(i) == expr_eval(expr.sub[i], st) IN
  CASE expr.kind = "0" -> expr.int
    [] expr.kind = "+" -> value(1) + value(2)
    [] expr.kind = "-" -> value(1) - value(2)
    [] expr.kind = "/" -> Quotient(value(1), value(2))
    [] expr.kind = "|" -> BitOp("|", value(1), value(2))
    [] expr.kind = "neg" -> -value(1)
    [] expr.kind = "<<" -> value(1) * 2^value(2)
    [] expr.kind = "i" -> find_decl(st.idents, expr.str).value.int

------------------------------------------------------------------------------
(* Initializers.                                                           *)

\* The parts of an initializer: each but the last leaves the place the next
\* one begins at, which is steps[i] behind its own.
InParts(parts, steps) ==
  Concat([i \in DOMAIN parts |->
            IF i < Len(parts) THEN Op("$") \o parts[i] \o Number(steps[i]) \o Op("+") ELSE parts[i]])

\* No string initializes an array.
RECURSIVE gen_initializer(_, _)
gen_initializer(expr, type) ==
  LET n == Len(expr.sub) IN
  CASE expr.kind = "l" /\ type.kind = "array" ->
         InParts([i \in 1..n |-> gen_initializer(expr.sub[i], type.to[1])], [i \in 1..n |-> type.to[1].size])
    [] expr.kind = "l" /\ type.kind = "struct" ->
         InParts([i \in 1..n |-> gen_initializer(expr.sub[i], type.decls[i].type)],
                 [i \in 1..(n - 1) |-> type.decls[i + 1].pos - type.decls[i].pos])
    [] expr.kind = "l" /\ type.kind \notin {"array", "struct"} -> <<>>
    [] expr.kind # "l" /\ Multiple(type) ->
         Place(expr) \o Number(type.size) \o Name("memcpy") \o Op("()") \o Op(";")
    [] OTHER -> Value(expr) \o Assign(type) \o Op(";")

Initialized(decl) == IF decl.value = NoValue THEN <<>>
                     ELSE Name(decl.name) \o gen_initializer(decl.value, decl.type)

gen_variable_decl(st, decl) ==
  LET words == IF Multiple(decl.type) THEN (decl.type.size + long_long_size - 1) \div long_long_size ELSE 1
  IN  write(st, Written(IF decl.storage_type = "static" THEN "static" ELSE "int", words, decl.name)
                  \o IF st.inside_function THEN Initialized(decl) ELSE <<>>)

gen_init_globals(st) == Concat([i \in DOMAIN st.idents |-> Initialized(st.idents[i])])

\* Wrong: the parameters are taken from the stack in their order.
gen_function_start_in_order(params) ==
  Concat([i \in DOMAIN params |->
            Declare(params[i].name, 1) \o Name(params[i].name) \o Op("=:")])

\* The parameters are taken from the stack, the last one first.
gen_function_start(params) ==
  LET Param(name) == Declare(name, 1) \o Name(name) \o Op("=:")
      n == Len(params)
  IN  Concat([i \in 1..n |-> Param(IF params[n + 1 - i].name = "..." THEN "__var_args"
                                   ELSE params[n + 1 - i].name)])

RECURSIVE parse_initializer(_, _, _), InitializerList(_, _, _, _)
\* The initializers after those in exprs, up to the closing brace.
InitializerList(exprs, ts, i, st) ==
  LET next == parse_initializer(ts, i, st)
      all == Append(exprs, next.expr)
      behind == IF Kind(ts, next.at) = "," THEN next.at + 1 ELSE next.at
  IN  CASE Kind(ts, behind) = "}" -> Gives(new_expr("l", NoType, all), behind + 1)
        [] Kind(ts, behind) # "}" /\ behind > next.at -> InitializerList(all, ts, behind, st)
        [] OTHER -> Fail(behind)
parse_initializer(ts, i, st) ==
  IF Kind(ts, i) = "{" THEN InitializerList(<<>>, ts, i + 1, st)
  ELSE parse_assignment_expr(ts, i, Visible_decls(st))

------------------------------------------------------------------------------
(* Declarators.                                                            *)

Went(ok, type, at, st) == [ok |-> ok, type |-> type, at |-> at, st |-> st]
Refused(at, st) == Went(FALSE, NoType, at, st)
\* What follows a part, and what follows it unless it was refused.
From_there(part, Rest(_)) == Rest(part)
Further_on(part, Rest(_)) == IF part.ok THEN Rest(part) ELSE part
\* In place of a type: a function with its body.
Definition == new_type("definition", 0)
Fields(decls) ==
  [i \in DOMAIN decls |-> [name |-> decls[i].name, type |-> decls[i].type, pos |-> decls[i].pos]]

round_up_word(size) == ((size + long_long_size - 1) \div long_long_size) * long_long_size

\* Wrong: each member of a union begins where the one before it ends, but
\* the union is as large as its largest.
Room_in_turn(struct, size) ==
  LET end == struct.pos + round_up_word(size) IN
  [struct EXCEPT !.pos = end,
                 !.size = IF struct.is_struct THEN end
                          ELSE IF round_up_word(size) > struct.size THEN round_up_word(size) ELSE @]

\* Room for a member in the struct or union that is being declared.
Room(struct, size) ==
  LET words == round_up_word(size) IN
  IF struct.is_struct THEN [struct EXCEPT !.pos = @ + words, !.size = struct.pos + words]
  ELSE [struct EXCEPT !.size = IF words > @ THEN words ELSE @]

new_array_type(n, type) == [new_type("array", n * type.size) EXCEPT !.to = <<type>>]
RECURSIVE parse_array_indexes(_, _, _, _)
parse_array_indexes(ts, i, type, st) ==
  From_there(Closed("]", ts, parse_expr(ts, i, Visible_decls(st))), LAMBDA index :
    LET inner == IF Kind(ts, index.at) = "[" THEN parse_array_indexes(ts, index.at + 1, type, st)
                 ELSE TypeGiven(type, index.at)
    IN  IF Failed(index) THEN NoTypeAt(index.at)
        ELSE TypeGiven(new_array_type(expr_eval(index.expr, st), inner.type), inner.at))

\* The structs that are laid out as C does, without room between members.  The
\* code goes by the beginning of the name, Elf32_ or Elf64_: here, of those
\* names, there are these.
PackedNames == {"Stab_Sym", "Elf32_Sym", "Elf64_Sym", "ArchiveHeader", "ArHdr"}
Packed(type) ==
  LET pos[i \in 1..(Len(type.decls) + 1)] ==
        IF i = 1 THEN 0 ELSE pos[i - 1] + type.decls[i - 1].type.size
  IN  IF pos[Len(type.decls) + 1] >= type.size
      THEN [type EXCEPT !.decls = [i \in DOMAIN @ |-> [@[i] EXCEPT !.pos = pos[i]]]]
      ELSE [type EXCEPT !.size = pos[Len(type.decls) + 1],
                        !.decls = [i \in DOMAIN @ |-> [@[i] EXCEPT !.pos = pos[i]]]]
\* A struct that is named before its members are known.
Unfinished(kind, tag) == [new_type(kind, 0) EXCEPT !.sign = tag]
RECURSIVE Completed(_, _, _)
Completed(type, old, new) ==
  IF type = old THEN new
  ELSE [type EXCEPT !.to = [i \in DOMAIN @ |-> Completed(@[i], old, new)],
                    !.decls = [i \in DOMAIN @ |-> [@[i] EXCEPT !.type = Completed(@, old, new)]]]
\* A struct has one type, which all that is declared with it share.
Replaced(st, old, new) ==
  LET Each(decls) == [i \in DOMAIN decls |-> [decls[i] EXCEPT !.type = Completed(@, old, new)]]
  IN  [st EXCEPT !.tags = Each(@), !.idents = Each(@)]
\* `typedef struct ... name`, of a struct without a name by typedef.
TypedefOf(st, decl) ==
  IF /\ decl.storage_type = "typedef" /\ decl.type.kind = "struct" /\ decl.name \in PackedNames
     /\ \A i \in 1..(Len(st.idents) - 1) :
          st.idents[i].type = decl.type => st.idents[i].storage_type # "typedef"
  THEN Replaced(st, decl.type, Packed(decl.type)) ELSE st

RECURSIVE parse_declaration(_, _, _, _), parse_statements(_, _, _)

RECURSIVE Parameters(_, _, _)
Parameters(ts, i, st) ==
  IF Kind(ts, i) = "..." THEN Went(TRUE, NoType, i + 1, add_decl(st, new_decl("...", NoType)))
  ELSE Further_on(parse_declaration(ts, i, TRUE, st), LAMBDA param :
         IF Kind(ts, param.at) = "," THEN Parameters(ts, param.at + 1, param.st) ELSE param)

\* What the code writes behind the parameters of main alone is left out: a call
\* of __init_globals__ and the value of _sys_env.
gen_function(ts, i, k, params, st) ==
  LET inside == [st EXCEPT !.inside_function = TRUE, !.text = gen_function_start(params)] IN
  From_there(parse_statements(ts, i, inside), LAMBDA body :
    Went(Kind(ts, body.at) = "}", Definition, body.at + 1,
         [Restored(body.st, k) EXCEPT
            !.inside_function = FALSE, !.text = st.text,
            !.functions = (st.idents[k].name :> body.st.text) @@ @]))

\* The brackets behind the k-th name, which says what the type it has is a
\* part of: the rest of the declaration of a function with a body is read
\* here, and it is then not followed by a semicolon.
RECURSIVE Brackets(_, _, _, _, _)
Brackets(ts, i, k, type, st) ==
  CASE Kind(ts, i) = "(" ->
         Further_on(Parameters(ts, i + 1, st), LAMBDA given :
           LET params == Fields(Since(given.st, k))
               forward == IF st.inside_function \/ st.struct.open THEN <<>>
                          ELSE Written("void", 0, st.idents[k].name)
               func == [new_type("function", 4) EXCEPT !.to = <<type>>, !.decls = params]
               typed == [given.st EXCEPT !.idents[k].type = func]
           IN  CASE Kind(ts, given.at) # ")" -> Refused(given.at, given.st)
                 [] Kind(ts, given.at) = ")" /\ Kind(ts, given.at + 1) = "{" ->
                      gen_function(ts, given.at + 2, k, params, typed)
                 [] OTHER -> Went(TRUE, func, given.at + 1, write(Restored(given.st, k), forward)))
    [] Kind(ts, i) = "[" /\ Kind(ts, i + 1) = "]" ->
         From_there(IF Kind(ts, i + 2) = "[" THEN parse_array_indexes(ts, i + 3, type, st)
                ELSE TypeGiven(type, i + 2),
                LAMBDA inner : Brackets(ts, inner.at, k, new_ptr_type(inner.type), st))
    [] Kind(ts, i) = "[" /\ Kind(ts, i + 1) # "]" ->
         From_there(parse_array_indexes(ts, i + 1, type, st),
                LAMBDA inner : Brackets(ts, inner.at, k, inner.type, st))
    [] OTHER -> Went(TRUE, type, i, st)

\* An array without a size has that of its initializer.
Sized(type, value, as_pointer) ==
  IF ~as_pointer /\ type.kind = "pointer" /\ value.kind = "l"
  THEN new_array_type(Len(value.sub), type.to[1]) ELSE type

\* The k-th name is declared with the type, and what is behind it.
declare(ts, i, k, type, storage, as_pointer, is_param, st) ==
  LET member == [st.idents[k] EXCEPT !.type = type, !.storage_type = storage, !.pos = st.struct.pos]
      named == [st EXCEPT !.idents[k] = member,
                          !.struct = IF @.open THEN Room(@, type.size) ELSE @]
      is_variable == ~is_param /\ ~st.struct.open /\ storage # "typedef" /\ type.kind # "function"
      Valued(packed, given) ==
        LET decl == [packed.idents[k] EXCEPT !.value = given.expr, !.type = Sized(@, given.expr, as_pointer)]
            done == [packed EXCEPT !.idents[k] = decl]
        IN  Went(TRUE, NoType, given.at, IF is_variable THEN gen_variable_decl(done, decl) ELSE done)
  IN  From_there(TypedefOf(named, member), LAMBDA packed :
        Valued(packed, IF Kind(ts, i) = "=" THEN parse_initializer(ts, i + 1, packed) ELSE Gives(NoValue, i)))

\* One declarator: stars, a name or `(*name)`, and brackets.  Parameters may
\* have no name.
declarator(ts, i, base, storage, is_param, st) ==
  LET stars == Pointers(ts, TypeGiven(base, i), new_ptr_type)
      at == stars.at
      k == Len(st.idents) + 1
      as_pointer == Kind(ts, at) = "(" /\ Kind(ts, at + 1) = "*" /\ Kind(ts, at + 2) = "i" /\ Kind(ts, at + 3) = ")"
      name == ts[IF as_pointer THEN at + 2 ELSE at].str
      Typed(rest) ==
        IF ~rest.ok \/ rest.type = Definition THEN rest
        ELSE declare(ts, rest.at, k, IF as_pointer THEN new_ptr_type(rest.type) ELSE rest.type,
                     storage, as_pointer, is_param, rest.st)
  IN  IF Kind(ts, at) # "i" /\ ~as_pointer THEN Went(Kind(ts, at) # "(", NoType, at, st)
      ELSE Typed(Brackets(ts, IF as_pointer THEN at + 4 ELSE at + 1, k, stars.type,
                          add_decl(st, new_decl(name, NoType))))

\* Declarators with commas between them, and the semicolon.
RECURSIVE declarators(_, _, _, _, _, _)
declarators(ts, i, base, storage, is_param, st) ==
  Further_on(declarator(ts, i, base, storage, is_param, st), LAMBDA one :
    CASE is_param \/ one.type = Definition -> one
      [] ~is_param /\ one.type # Definition /\ Kind(ts, one.at) = "," ->
           declarators(ts, one.at + 1, base, storage, is_param, one.st)
      [] OTHER -> Went(Kind(ts, one.at) = ";", NoType, one.at + 1, one.st))

------------------------------------------------------------------------------
(* Type specifiers.                                                        *)

\* The declarations of members up to the closing brace.
RECURSIVE Members(_, _, _)
Members(ts, i, st) ==
  Further_on(parse_declaration(ts, i, FALSE, st), LAMBDA member :
    IF Kind(ts, member.at) = "}" THEN [member EXCEPT !.at = @ + 1]
    ELSE Members(ts, member.at, member.st))

add_tag(st, tag, type) ==
  IF tag \in NamesIn(st.tags) THEN st
  ELSE [st EXCEPT !.tags = Append(@, new_decl(tag, type))]
parse_struct_or_union_specifier(ts, i, kind, st) ==
  LET tagged == Kind(ts, i) = "i"
      tag == ts[i].str
      known == IF tagged THEN add_tag(st, tag, Unfinished(kind, tag)) ELSE st
      at == IF tagged THEN i + 1 ELSE i
      open == [NoStruct EXCEPT !.open = TRUE, !.is_struct = kind = "struct"]
      Made(body) ==
        LET type == [new_type(kind, body.st.struct.size) EXCEPT !.decls = Fields(Since(body.st, Len(st.idents)))]
            after == [Restored(body.st, Len(st.idents)) EXCEPT !.struct = st.struct]
        IN  Went(TRUE, type, body.at,
                 IF tagged THEN Replaced(after, find_decl(known.tags, tag).type, type) ELSE after)
  IN  IF Kind(ts, at) = "{" THEN Further_on(Members(ts, at + 1, [known EXCEPT !.struct = open]), Made)
      ELSE Went(tagged, IF tagged THEN find_decl(known.tags, tag).type ELSE NoType, at, known)

\* Wrong: a value given does not count for the constants behind it.
Next_enum_val_given(next, value) == next + 1

Next_enum_val(next, value) == value + 1

\* The constants behind those in st, from the value next; each is a variable
\* that __init_globals__ sets.
RECURSIVE Constants(_, _, _, _)
Constants(ts, i, next, st) ==
  LET const == add_decl(st, new_decl(ts[i].str, S32))
      Valued(value, at) ==
        LET done == write([const EXCEPT !.idents[Len(st.idents) + 1] =
                             [@ EXCEPT !.value = new_expr_int_value(value), !.storage_type = "const"]],
                          Declare(ts[i].str, 1))
            behind == IF Kind(ts, at) = "," THEN at + 1 ELSE at
        IN  CASE Kind(ts, behind) = "}" -> Went(TRUE, NoType, behind + 1, done)
              [] Kind(ts, behind) # "}" /\ behind > at -> Constants(ts, behind, Next_enum_val(next, value), done)
              [] OTHER -> Refused(behind, done)
  IN  CASE Kind(ts, i) # "i" -> Refused(i, st)
        [] Kind(ts, i) = "i" /\ Kind(ts, i + 1) = "=" ->
             From_there(parse_conditional_expr(ts, i + 2, Visible_decls(const)),
                    LAMBDA given : Valued(expr_eval(given.expr, const), given.at))
        [] OTHER -> Valued(next, i + 1)

\* The kind of an enum with a tag is DK_ENUM, which is TYPE_KIND_POINTER.
parse_enum_specifier(ts, i, st) ==
  LET tagged == Kind(ts, i) = "i"
      type == new_type(IF tagged THEN "pointer" ELSE "enum", 4)
      known == IF tagged THEN add_tag(st, ts[i].str, type) ELSE st
      at == IF tagged THEN i + 1 ELSE i
      consts == Constants(ts, at + 1, 0, known)
  IN  IF Kind(ts, at) = "{" THEN [consts EXCEPT !.type = type] ELSE Went(TRUE, type, at, known)

is_const(ts, i) ==
  Kind(ts, i) = "const" \/ (Kind(ts, i) = "char" /\ Kind(ts, i + 1) = "const")

parse_specifier(ts, i, st) ==
  LET at == IF Kind(ts, i) = "const" THEN i + 1 ELSE i
      given == parse_type_specifier(ts, i, Visible_decls(st))
  IN  CASE Kind(ts, at) \in {"struct", "union"} ->
             parse_struct_or_union_specifier(ts, at + 1, Kind(ts, at), st)
        [] Kind(ts, at) = "enum" -> parse_enum_specifier(ts, at + 1, st)
        [] OTHER -> Went(given.type # NoType, given.type, given.at, st)

RECURSIVE storage_class(_, _, _, _)
storage_class(ts, i, storage, st) ==
  CASE Kind(ts, i) = "typedef" -> storage_class(ts, i + 1, "typedef", st)
    [] Kind(ts, i) = "static" /\ st.inside_function -> storage_class(ts, i + 1, "static", st)
    [] Kind(ts, i) \in {"extern", "inline"} \/ (Kind(ts, i) = "static" /\ ~st.inside_function) ->
         storage_class(ts, i + 1, storage, st)
    [] OTHER -> [storage_type |-> storage, at |-> i]

\* Wrong: the members of an unnamed member keep the place they have in it.
Unnamed_in_place(type, st) ==
  IF ~st.struct.open \/ type.kind \notin {"struct", "union"} THEN st
  ELSE [st EXCEPT !.idents = @ \o [i \in DOMAIN type.decls |->
                                     [new_decl(type.decls[i].name, type.decls[i].type) EXCEPT
                                        !.pos = type.decls[i].pos]],
                  !.struct = Room(@, type.size)]

\* The members of a struct or union without a name are members of the one
\* around it.
Unnamed(type, st) ==
  IF ~st.struct.open \/ type.kind \notin {"struct", "union"} THEN st
  ELSE [st EXCEPT !.idents = @ \o [i \in DOMAIN type.decls |->
                                     [new_decl(type.decls[i].name, type.decls[i].type) EXCEPT
                                        !.pos = st.struct.pos + type.decls[i].pos]],
                  !.struct = Room(@, type.size)]

parse_declaration(ts, i, is_param, st) ==
  LET class == storage_class(ts, i, "none", st)
      storage == IF is_const(ts, class.at) THEN "const" ELSE class.storage_type
  IN  Further_on(parse_specifier(ts, class.at, st), LAMBDA spec :
        IF Kind(ts, spec.at) = ";" THEN Went(TRUE, NoType, spec.at + 1, Unnamed(spec.type, spec.st))
        ELSE declarators(ts, spec.at, spec.type, storage, is_param, spec.st))

------------------------------------------------------------------------------
(* Function bodies, of declarations, expressions and blocks, and texts.    *)

parse_statement(ts, i, st) ==
  IF Kind(ts, i) = "{"
  THEN From_there(parse_statements(ts, i + 1, write(st, Op("{"))), LAMBDA body :
         Went(Kind(ts, body.at) = "}", NoType, body.at + 1, write(body.st, Op("}"))))
  ELSE From_there(parse_expr(ts, i, Visible_decls(st)), LAMBDA given :
         Went(Kind(ts, given.at) = ";", NoType, given.at + 1,
              write(st, IF Failed(given) THEN <<>> ELSE Value(given.expr) \o Op(";"))))

RECURSIVE StatementsFrom(_, _, _)
StatementsFrom(ts, i, st) ==
  IF Kind(ts, i) = "}" THEN Went(TRUE, NoType, i, st)
  ELSE From_there(parse_declaration(ts, i, FALSE, st), LAMBDA decl :
       From_there(IF decl.ok THEN decl ELSE parse_statement(ts, i, st), LAMBDA next :
         IF next.ok THEN StatementsFrom(ts, next.at, next.st) ELSE Went(TRUE, NoType, i, st)))

\* Wrong: what is declared in a block is known behind it.
parse_statements_open(ts, i, st) == StatementsFrom(ts, i, st)

parse_statements(ts, i, st) ==
  LET all == StatementsFrom(ts, i, st) IN [all EXCEPT !.st = Restored(@, Len(st.idents))]

RECURSIVE DeclarationsFrom(_, _, _)
DeclarationsFrom(ts, i, st) ==
  From_there(parse_declaration(ts, i, FALSE, st), LAMBDA decl :
    IF decl.ok THEN DeclarationsFrom(ts, decl.at, decl.st) ELSE Went(i = Len(ts) + 1, NoType, i, st))
parse_file(ts) == DeclarationsFrom(ts, 1, Start)

Program_of(st) == gen_init_globals(st) \o st.functions["main"]

\* main calls __init_globals__ before its statements are run, and takes its
\* arguments from the stack.
UnitInit ==
  /\ \E unit \in Units : \E tokens \in {UnitTokens(unit)} :
       /\ program = [unit |-> unit, tokens |-> tokens]
       /\ code = Program_of(parse_file(tokens).st)
       /\ stack = <<Zero, Zero>> \o unit.args
  /\ pc = 1 /\ scope = <<>>
  /\ mem = [x \in Cells |-> IF x < Base THEN 0 ELSE x % 4] /\ frame = Base /\ goes = M!On /\ trap = FALSE
==============================================================================
