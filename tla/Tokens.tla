-------------------------------- MODULE Tokens --------------------------------
(***************************************************************************)
(* The tokenizer of tcc_cc.c: from the characters the include iterator     *)
(* gives to tokens, read by a parser that at every call says whether lines *)
(* end; and the tokens C has there.                                        *)
(*                                                                         *)
(* A kind is the spelling of its token, "i" for names, "0" for numbers and *)
(* the quote for literals.  A character of a literal is itself, or a code. *)
(***************************************************************************)
EXTENDS Integers, Sequences, TLC

LOCAL INSTANCE FiniteSetsExt

CONSTANT Files  \* texts without comments and joined lines, with the file and
                \* the line every character is from

VARIABLES
  file,   \* the text read
  i,      \* the place in it
  token,  \* the last token, and where it was
  meant,  \* the token C has there
  left    \* and those after it

vars == <<file, i, token, meant, left>>

Each(s) == {SubSeq(s, k, k) : k \in 1..Len(s)}
Lower == Each("abcdefghijklmnopqrstuvwxyz")
Letters == Lower \cup Each("ABCDEFGHIJKLMNOPQRSTUVWXYZ_")
Digits == Each("0123456789")
OctalDigits == Each("01234567")
HexDigits == Digits \cup Each("abcdefABCDEF")
White == Each(" \t\r\f")

Keywords ==
  {"break", "case", "char", "continue", "const", "default", "defined", "do", "double", "else",
   "enum", "extern", "float", "for", "goto", "if", "inline", "int", "long", "return", "short",
   "sizeof", "static", "struct", "switch", "typedef", "union", "unsigned", "void", "while"}
Directives ==
  {"#else", "#elif", "#endif", "#define", "#if", "#ifdef", "#ifndef", "#include", "#undef", "#error"}

\* The character at a place, "end" behind the last; and what is spelled between two.
Ch(text, at) == IF at <= Len(text) THEN SubSeq(text, at, at) ELSE "end"
Spelled(text, from, to) == SubSeq(text, from, to - 1)
\* The first place, not before at, that holds none of the characters.
RECURSIVE Past(_, _, _)
Past(text, at, chars) == IF Ch(text, at) \in chars THEN Past(text, at + 1, chars) ELSE at

DigitValue(digit) ==
  CHOOSE v \in 0..15 : digit \in {SubSeq("0123456789abcdef", v + 1, v + 1), SubSeq("0123456789ABCDEF", v + 1, v + 1)}

Token(kind, chars, next) == [kind |-> kind, chars |-> chars, next |-> next]

------------------------------------------------------------------------------
(* Literals.  A character read is its value and the place after it.        *)

Read(char, next) == [char |-> char, next |-> next]
Code(n) == <<"code", n>>
Itself(ch) == <<"char", ch>>

\* Wrong: at most one digit after the first.
octal_short(text, at) ==
  IF Ch(text, at + 1) \in OctalDigits
  THEN Read(Code(8 * DigitValue(Ch(text, at)) + DigitValue(Ch(text, at + 1))), at + 2)
  ELSE Read(IF Ch(text, at) = "0" THEN Code(0) ELSE Itself("1"), at + 1)

\* Octal: a first digit 0 or 1 and up to two more.
octal(text, at) ==
  LET a == DigitValue(Ch(text, at)) IN
  CASE Ch(text, at + 1) \notin OctalDigits -> Read(IF a = 0 THEN Code(0) ELSE Itself("1"), at + 1)
    [] Ch(text, at + 1) \in OctalDigits /\ Ch(text, at + 2) \notin OctalDigits ->
         Read(Code(8 * a + DigitValue(Ch(text, at + 1))), at + 2)
    [] OTHER -> Read(Code(64 * a + 8 * DigitValue(Ch(text, at + 1)) + DigitValue(Ch(text, at + 2))), at + 3)

Named ==
  ("a" :> Code(7)) @@ ("b" :> Code(8)) @@ ("f" :> Itself("\f")) @@ ("n" :> Itself("\n"))
    @@ ("r" :> Itself("\r")) @@ ("t" :> Itself("\t")) @@ ("v" :> Code(11))

tokenizer_parse_char_literal(text, at) ==
  LET ch == Ch(text, at + 1) IN
  CASE Ch(text, at) # "\\" -> Read(Itself(Ch(text, at)), at + 1)
    [] Ch(text, at) = "\\" /\ ch \in {"0", "1"} -> octal(text, at + 1)
    [] Ch(text, at) = "\\" /\ ch \in DOMAIN Named -> Read(Named[ch], at + 2)
    [] Ch(text, at) = "\\" /\ ch = "x" ->
         Read(Code(16 * DigitValue(Ch(text, at + 2)) + DigitValue(Ch(text, at + 3))), at + 4)
    [] OTHER -> Read(Itself(ch), at + 2)

char_literal(text, read) ==
  Token("'", <<read.char>>, IF Ch(text, read.next) = "'" THEN read.next + 1 ELSE read.next)

RECURSIVE string_literal(_, _, _)
Longer(text, chars, read) == string_literal(text, Append(chars, read.char), read.next)
string_literal(text, chars, at) ==
  CASE Ch(text, at) = "\"" -> Token("\"", chars, at + 1)
    [] Ch(text, at) \in {"end", "\n"} -> Token("\"", chars, at)
    [] OTHER -> Longer(text, chars, tokenizer_parse_char_literal(text, at))

------------------------------------------------------------------------------
(* Numbers, and what they come to.                                         *)

number_end(text, at) ==
  CASE Ch(text, at) = "0" /\ Ch(text, at + 1) = "x" -> Past(text, at + 2, HexDigits)
    [] Ch(text, at) = "0" /\ Ch(text, at + 1) # "x" -> Past(text, at + 1, OctalDigits)
    [] OTHER -> Past(text, at, Digits)
after_U(text, at) == IF Ch(text, at) = "U" THEN at + 1 ELSE at
Number(text, from, to) == Token("0", Spelled(text, from, to), to)
number(text, at) == Number(text, at, Past(text, after_U(text, number_end(text, at)), {"L"}))

RECURSIVE InBase(_, _, _, _, _)
InBase(base, digits, s, at, value) ==
  IF Ch(s, at) \notin digits THEN value
  ELSE InBase(base, digits, s, at + 1, base * value + DigitValue(Ch(s, at)))
string_int_value(s) ==
  CASE Ch(s, 1) = "0" /\ Ch(s, 2) = "x" -> InBase(16, HexDigits, s, 3, 0)
    [] Ch(s, 1) = "0" /\ Ch(s, 2) # "x" -> InBase(8, OctalDigits, s, 2, 0)
    [] OTHER -> InBase(10, Digits, s, 1, 0)

------------------------------------------------------------------------------
(* Names, directives and operators.                                        *)

Name(s, next) == Token(IF s \in Keywords THEN s ELSE "i", s, next)
Directive(s, next) == Token(IF s \in Directives THEN s ELSE "end", s, next)

Word(text, from, to) == Spelled(text, from, to)
name(text, at, to) == Name(Word(text, at, to), to)
directive(text, from, to) == Directive("#" \o Word(text, from, to), to)
Hash(text, at) == directive(text, at, Past(text, at, Lower))

Spelling(text, at, n) == Token(SubSeq(text, at, at + n - 1), SubSeq(text, at, at + n - 1), at + n)

\* The operators that may be written twice, and the ones with = behind.
Doubled(text, at) ==
  IF Ch(text, at + 2) = "="
  THEN Token((IF Ch(text, at) \in {"<", ">"} THEN Ch(text, at) ELSE "") \o Ch(text, at) \o "=",
             SubSeq(text, at, at + 2), at + 3)
  ELSE Spelling(text, at, 2)
Periods(text, at) ==
  IF Ch(text, at + 1) # "." THEN 1 ELSE IF Ch(text, at + 2) # "." THEN 2 ELSE 3

operator(text, at, ch, second) ==
  CASE ch \in {"=", "*", "/", "%", "^", "!"} -> Spelling(text, at, IF second = "=" THEN 2 ELSE 1)
    [] ch = "#" -> Spelling(text, at, IF second = "#" THEN 2 ELSE 1)
    [] ch = "-" -> Spelling(text, at, IF second \in {"-", "=", ">"} THEN 2 ELSE 1)
    [] ch = "+" -> Spelling(text, at, IF second \in {"+", "="} THEN 2 ELSE 1)
    [] ch \in {"<", ">", "|", "&"} /\ second = ch -> Doubled(text, at)
    [] ch \in {"<", ">", "|", "&"} /\ second # ch -> Spelling(text, at, IF second = "=" THEN 2 ELSE 1)
    [] ch = "." -> Spelling(text, at, Periods(text, at))
    [] OTHER -> Spelling(text, at, 1)

TokenAt(text, at, ch, at_start_of_line) ==
  CASE ch = "end" -> Token("end", "", at)
    [] ch = "\n" -> Token("\n", "", at)
    [] ch = "#" /\ at_start_of_line -> Hash(text, Past(text, at + 1, White \cup {"\n"}))
    [] ch \in Letters -> name(text, at, Past(text, at, Letters \cup Digits))
    [] ch \in Digits -> number(text, at)
    [] ch = "'" -> char_literal(text, tokenizer_parse_char_literal(text, at + 1))
    [] ch = "\"" -> string_literal(text, <<>>, at + 1)
    [] OTHER -> operator(text, at, ch, Ch(text, at + 1))

------------------------------------------------------------------------------
(* What C has there: the longest token that fits, every time.              *)

Punctuators ==
  {"[", "]", "(", ")", "{", "}", ".", "->", "++", "--", "&", "*", "+", "-", "~", "!", "/", "%",
   "<<", ">>", "<", ">", "<=", ">=", "==", "!=", "^", "|", "&&", "||", "?", ":", ";", "...", "=",
   "*=", "/=", "%=", "+=", "-=", "<<=", ">>=", "&=", "^=", "|=", ",", "#", "##"}
Fits(s, text, at) == at + Len(s) <= Len(text) + 1 /\ SubSeq(text, at, at + Len(s) - 1) = s
Longest(candidates) == CHOOSE s \in candidates : \A r \in candidates : Len(r) <= Len(s)

\* The end of an escape sequence, or of the character that is none.
UnitEnd(text, at) ==
  CASE Ch(text, at) # "\\" -> at + 1
    [] Ch(text, at) = "\\" /\ Ch(text, at + 1) = "x" -> Past(text, at + 2, HexDigits)
    [] Ch(text, at) = "\\" /\ Ch(text, at + 1) \in OctalDigits ->
         at + 1 + Max({n \in 1..3 : \A k \in 1..n : Ch(text, at + k) \in OctalDigits})
    [] OTHER -> at + 2
Positional(digits, base) ==
  MapThenSumSet(LAMBDA k : DigitValue(Ch(digits, k)) * base^(Len(digits) - k), 1..Len(digits))
UnitValue(unit) ==
  CASE Len(unit) = 1 -> Itself(unit)
    [] Len(unit) > 1 /\ Ch(unit, 2) = "x" -> Code(Positional(SubSeq(unit, 3, Len(unit)), 16))
    [] Len(unit) > 1 /\ Ch(unit, 2) \in OctalDigits -> Code(Positional(Tail(unit), 8))
    [] Len(unit) > 1 /\ Ch(unit, 2) \in DOMAIN Named -> Named[Ch(unit, 2)]
    [] OTHER -> Itself(Ch(unit, 2))
RECURSIVE Units(_, _, _)
Units(text, at, quote) ==
  IF Ch(text, at) = quote THEN Token(quote, <<>>, at + 1)
  ELSE LET rest == Units(text, UnitEnd(text, at), quote) IN
       [rest EXCEPT !.chars = <<UnitValue(SubSeq(text, at, UnitEnd(text, at) - 1))>> \o @]

CNumber(text, at) ==
  LET hex == Fits("0x", text, at)
      octal_number == ~hex /\ Fits("0", text, at)
      from == IF hex THEN at + 2 ELSE at
      to == Past(text, from, IF hex THEN HexDigits ELSE IF octal_number THEN OctalDigits ELSE Digits)
      base == IF hex THEN 16 ELSE IF octal_number THEN 8 ELSE 10
  IN  Token("0", Positional(Spelled(text, from, to), base), Past(text, to, {"U", "L"}))

CTokenAt(text, at, ch, fresh) ==
  LET word == Spelled(text, at, Past(text, at, Letters \cup Digits))
      from == Past(text, at + 1, White)
      asked == "#" \o Spelled(text, from, Past(text, from, Lower))
      sign == Longest({s \in Punctuators : Fits(s, text, at)})
  IN  CASE ch = "\n" -> Token(ch, "", at + 1)
        [] ch = "#" /\ fresh -> Token(asked, asked, Past(text, from, Lower))
        [] ch \in Letters -> Token(IF word \in Keywords THEN word ELSE "i", word, at + Len(word))
        [] ch \in Digits -> CNumber(text, at)
        [] ch \in {"'", "\""} -> Units(text, at + 1, ch)
        [] OTHER -> Token(sign, sign, at + Len(sign))

\* The kind, the spelling or the characters, and the file and the line.
Placed(given, pos) == [kind |-> given.kind, chars |-> given.chars, pos |-> pos]

\* All tokens from a place on, ends of lines included; fresh at the
\* start of a line or a file.
RECURSIVE CTokens(_, _, _)
Elsewhere(f, at, pos) == at <= Len(f.text) /\ f.pos[at][1] # pos[1]
Followed(f, given, pos) ==
  <<Placed(given, pos)>>
    \o CTokens(f, given.next, given.kind = "\n" \/ Elsewhere(f, given.next, pos))
FromHere(f, at, fresh) ==
  IF at > Len(f.text) THEN <<>>
  ELSE Followed(f, CTokenAt(f.text, at, Ch(f.text, at), fresh), f.pos[at])
CTokens(f, at, fresh) == FromHere(f, Past(f.text, at, White), fresh)

RECURSIVE BehindLines(_)
BehindLines(tokens) ==
  IF tokens # <<>> /\ tokens[1].kind = "\n" THEN BehindLines(Tail(tokens)) ELSE tokens

------------------------------------------------------------------------------
NoToken == [kind |-> "none", chars |-> "", pos |-> <<>>]

Init ==
  /\ file \in Files /\ i = 1
  /\ token = NoToken /\ meant = NoToken
  /\ left = CTokens(file, 1, TRUE)

\* The token at a place.  The end of a line stays where it is.
Gives(given, pos) ==
  /\ token' = Placed(given, IF given.kind = "end" THEN token.pos ELSE pos)
  /\ i' = given.next
ReadAt(at) ==
  LET pos == IF at <= Len(file.text) THEN file.pos[at] ELSE <<>>
  IN  Gives(TokenAt(file.text, at, Ch(file.text, at), token.pos # pos), pos)

\* C: the end of a line is the next token as long as it is asked for.
Means(tokens) ==
  /\ meant' = IF tokens = <<>> THEN [NoToken EXCEPT !.kind = "end", !.pos = meant.pos] ELSE tokens[1]
  /\ left' = IF tokens # <<>> /\ tokens[1].kind # "\n" THEN Tail(tokens) ELSE tokens

tokenizer_next(skip_nl) ==
  /\ ReadAt(Past(file.text, i, IF skip_nl THEN White \cup {"\n"} ELSE White))
  /\ Means(IF skip_nl THEN BehindLines(left) ELSE left)
  /\ UNCHANGED file

Next == \E skip_nl \in BOOLEAN : tokenizer_next(skip_nl)

Spec == Init /\ [][Next]_vars

------------------------------------------------------------------------------
\* However the parser asks for lines in between, it gets the tokens C has, of
\* every operator the longest that fits, with the values of their literals
\* and numbers, and where they are: no line end and no # is taken for another.
TokensOfC ==
  /\ token.kind = meant.kind /\ token.pos = meant.pos
  /\ (IF token.kind = "0" THEN string_int_value(token.chars) ELSE token.chars) = meant.chars
==============================================================================
