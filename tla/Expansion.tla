------------------------------ MODULE Expansion -------------------------------
(***************************************************************************)
(* The expansion of macros: the iterators of tcc_cc.c, each of which takes *)
(* its tokens from the one it was put on, and what C says the result is.   *)
(*                                                                         *)
(* Where an iterator stands is the sequence of macros being expanded, the  *)
(* innermost last, and the tokens of the source after them.  Here          *)
(* everything is followed to its end for one line.                         *)
(***************************************************************************)
EXTENDS IfExpressions, SequencesExt

At(tok, frames, rest) == [tok |-> tok, frames |-> frames, rest |-> rest]

\* The place of a name among the parameters, or 0.
Parameter(tok, params) ==
  IF tok.kind = "i" /\ \E i \in DOMAIN params : <<params[i]>> = tok.val
  THEN CHOOSE i \in DOMAIN params : <<params[i]>> = tok.val ELSE 0

As(stringify, tok) == IF stringify THEN [tok EXCEPT !.kind = "string"] ELSE tok

------------------------------------------------------------------------------
(* expand_macro_iterator_next.                                             *)

\* What a macro is being expanded to: the tokens of the argument that is
\* being given, then those of the body.
Expanding(macro, args) ==
  [tokens |-> macro.tokens, given |-> <<>>, stringify |-> FALSE, params |-> macro.args,
   args |-> args]

\* How many operands the ## at the start of the tokens join.
Operands(tokens) ==
  CHOOSE n \in 1..Len(tokens) :
    /\ \A k \in 1..(n - 1) : tokens[2 * k].kind = "##"
    /\ 2 * n > Len(tokens) \/ tokens[2 * n].kind # "##"

Appended(frame) ==
  LET text(tok) ==
        LET p == Parameter(tok, frame.params) IN
        IF p = 0 THEN tok.val
        ELSE IF Len(frame.args[p]) = 1 THEN frame.args[p][1].val ELSE <<>>
  IN  NameTok(FlattenSeq([k \in 1..Operands(frame.tokens) |-> text(frame.tokens[2 * k - 1])]))

RECURSIVE NextToken(_, _)

\* The next token of the body that is not an operand of ##.
expand_macro(frames, rest) ==
  LET frame == Last(frames)
      hash == frame.tokens[1].kind = "#"
      body == IF hash THEN Tail(frame.tokens) ELSE frame.tokens
      p == IF body = <<>> THEN 0 ELSE Parameter(body[1], frame.params)
      Now(tokens, given) ==
        Append(Front(frames),
               [frame EXCEPT !.tokens = tokens, !.given = given, !.stringify = hash])
      Missed == IF hash THEN body ELSE Tail(body)
  IN  IF body = <<>> THEN NextToken(Front(frames), rest)
      ELSE IF p = 0 THEN At(As(hash, body[1]), Now(Missed, <<>>), rest)
      ELSE IF frame.args[p] = <<>> THEN NextToken(Now(Missed, <<>>), rest)
      ELSE At(As(hash, frame.args[p][1]), Now(Tail(body), Tail(frame.args[p])), rest)

\* next() of the innermost iterator.
NextToken(frames, rest) ==
  IF frames = <<>>
  THEN IF rest = <<>> THEN At(Tok("end"), <<>>, <<>>) ELSE At(Head(rest), <<>>, Tail(rest))
  ELSE LET frame == Last(frames) IN
       CASE frame.given # <<>> ->
              At(As(frame.stringify, Head(frame.given)),
                 Append(Front(frames), [frame EXCEPT !.given = Tail(@)]), rest)
         [] frame.given = <<>> /\ frame.tokens = <<>> -> NextToken(Front(frames), rest)
         [] frame.given = <<>> /\ Len(frame.tokens) > 1 /\ frame.tokens[2].kind = "##" ->
              LET used == 2 * Operands(frame.tokens) - 1 IN
              At(Appended(frame),
                 Append(Front(frames),
                        [frame EXCEPT !.tokens = SubSeq(@, used + 1, Len(@)),
                                      !.stringify = FALSE]), rest)
         [] OTHER -> expand_macro(frames, rest)

------------------------------------------------------------------------------
(* expand_iterator_next.                                                   *)

Closer(kind) == CASE kind = "(" -> ")" [] kind = "{" -> "}" [] kind = "[" -> "]" [] OTHER -> kind
\* Mutant: parentheses in an argument are not looked for.
Opener_round(kind) == kind \in {"{", "["}
Opener(kind) == kind \in {"(", "{", "["}

Following(at) == NextToken(at.frames, at.rest)

\* The arguments from here to the ), brackets in brackets included.
RECURSIVE Arguments(_, _, _)
Arguments(at, args, stack) ==
  LET kind == at.tok.kind
      n == Len(args)
      more == [args EXCEPT ![n] = Append(@, at.tok)]
  IN  IF stack = <<>> /\ kind \in {"end", ")"} THEN [at |-> at, args |-> args]
      ELSE IF stack = <<>> /\ kind = "," THEN Arguments(Following(at), Append(args, <<>>), stack)
      ELSE Arguments(Following(at), more,
             CASE Opener(kind) -> Append(stack, Closer(kind))
               [] stack # <<>> /\ kind = Last(stack) -> Front(stack)
               [] OTHER -> stack)

\* As long as the token is the name of a macro, go on with its expansion.  A
\* macro without the arguments it needs is reported and left out.
RECURSIVE expand_iterator_next(_, _)
expand_iterator_next(at, env) ==
  LET macro == get_env(at.tok.val, env)
      call == Following(at)
      read == IF macro.args = <<>> THEN [at |-> at, args |-> <<>>]
              ELSE Arguments(Following(call), << <<>> >>, <<>>)
  IN  IF at.tok.kind # "i" \/ macro = Undefined THEN at
      ELSE IF macro.args # <<>> /\ call.tok.kind # "(" THEN expand_iterator_next(call, env)
      ELSE IF Len(read.args) # Len(macro.args) \/ macro.tokens = <<>>
           THEN expand_iterator_next(Following(read.at), env)
      ELSE expand_iterator_next(
             NextToken(Append(read.at.frames, Expanding(macro, read.args)), read.at.rest), env)

RECURSIVE AllFrom(_, _)
AllFrom(at, env) ==
  LET this == expand_iterator_next(at, env) IN
  IF this.tok.kind = "end" THEN <<>> ELSE <<this.tok>> \o AllFrom(Following(this), env)

Expand(line, env) == AllFrom(NextToken(<<>>, line), env)

------------------------------------------------------------------------------
(* C: an argument is expanded by itself unless it is an operand of # or    *)
(* ##, and a name is not expanded in what it was expanded to.              *)

Hiding(tokens, names) ==
  [i \in DOMAIN tokens |-> [tok |-> tokens[i].tok, hidden |-> tokens[i].hidden \cup names]]
Plain(line) == [i \in DOMAIN line |-> [tok |-> line[i], hidden |-> {}]]
Toks(tokens) == [i \in DOMAIN tokens |-> tokens[i].tok]
\* Where tcc_cc gives up with a message: arguments that are missing, or too
\* many, or too long for ##.
Reported == [tok |-> Tok("reported"), hidden |-> {}]

\* How deep in parentheses the token i lies, for the ( after a name at 1.
DepthAt(line, i) ==
  Cardinality({j \in 1..i : line[j].tok.kind = "("}) - Cardinality({j \in 1..(i - 1) : line[j].tok.kind = ")"})
Ends(line) ==
  {i \in 2..Len(line) : /\ DepthAt(line, i) = 1
                        /\ line[i].tok.kind \in {"(", ",", ")"} /\ (line[i].tok.kind = "(" => i = 2)}

RECURSIVE CExpand(_, _)

\* The body with the arguments put in.
RECURSIVE Substituted(_, _, _, _)
Substituted(tokens, params, args, env) ==
  IF tokens = <<>> THEN <<>>
  ELSE LET p == Parameter(tokens[1], params)
           n == Operands(tokens)
           operand(tok) == LET q == Parameter(tok, params) IN
                           IF q = 0 THEN <<tok>> ELSE Toks(args[q])
           operands == [k \in 1..n |-> operand(tokens[2 * k - 1])]
           Rest(k) == Substituted(SubSeq(tokens, k + 1, Len(tokens)), params, args, env)
       IN  IF tokens[1].kind = "#"
           THEN LET actual == args[Parameter(tokens[2], params)]
                IN  (IF actual = <<>> THEN Plain(<<[kind |-> "string", val |-> <<>>]>>)
                     ELSE [i \in DOMAIN actual |-> [actual[i] EXCEPT !.tok.kind = "string"]])
                      \o Rest(2)
           ELSE IF n > 1
           THEN IF \E k \in 1..n : Len(operands[k]) > 1 THEN <<Reported>>
                ELSE Plain(<<NameTok(FlattenSeq([k \in 1..n |->
                               IF operands[k] = <<>> THEN <<>> ELSE operands[k][1].val]))>>)
                       \o Rest(2 * n - 1)
           ELSE IF p # 0 THEN CExpand(args[p], env) \o Rest(1)
           ELSE Plain(<<tokens[1]>>) \o Rest(1)

CExpand(line, env) ==
  IF line = <<>> THEN <<>>
  ELSE LET name == line[1].tok.val
           macro == get_env(name, env)
           ends == SetToSortSeq(Ends(line), <)
           close == CHOOSE k \in DOMAIN ends :
                      /\ line[ends[k]].tok.kind = ")"
                      /\ \A j \in 1..(k - 1) : line[ends[j]].tok.kind # ")"
           args == [k \in 1..(close - 1) |-> SubSeq(line, ends[k] + 1, ends[k + 1] - 1)]
           Keep == <<line[1]>> \o CExpand(Tail(line), env)
           Replaced(actual, hidden, last) ==
             CExpand(Hiding(Substituted(macro.tokens, macro.args, actual, env), hidden)
                       \o SubSeq(line, last + 1, Len(line)), env)
       IN  IF line[1].tok.kind # "i" \/ macro = Undefined \/ name \in line[1].hidden THEN Keep
           ELSE IF macro.args = <<>> THEN Replaced(<<>>, line[1].hidden \cup {name}, 1)
           ELSE IF Len(line) < 2 \/ line[2].tok.kind # "(" THEN <<Reported>>
           ELSE IF Len(args) # Len(macro.args) THEN <<Reported>>
           ELSE Replaced(args, (line[1].hidden \cap line[ends[close]].hidden) \cup {name}, ends[close])
==============================================================================
