----------------------------- MODULE SourceTexts ------------------------------
(* Texts to read: as characters, with what the first iterators of tcc_cc   *)
(* look at nested in and cut by one another; and as lines of tokens.       *)
EXTENDS Integers, Sequences, FiniteSets

LOCAL INSTANCE FiniteSetsExt
LOCAL INSTANCE SequencesExt

\* / * // /* */ " ' \ a, the ends of lines, one with a carriage return
\* and one that joins two lines.
Pieces ==
  {<<47>>, <<42>>, <<47, 47>>, <<47, 42>>, <<42, 47>>, <<34>>, <<39>>, <<92>>, <<97>>,
   <<10>>, <<13, 10>>, <<92, 10>>}
CharacterTexts == {FlattenSeq(ps) : ps \in [1..4 -> Pieces \cup {<<>>}]} \ {<<>>}
\* a, an empty line, a comment of two lines, and "a".
IncludedTexts == {<<97>>, <<10>>, <<47, 42, 10, 42, 47>>, <<34, 97, 34, 10>>}
------------------------------------------------------------------------------
At(text, at) == SubSeq(text, at, at)
HasAt(s, text, at) == at + Len(s) <= Len(text) + 1 /\ SubSeq(text, at, at + Len(s) - 1) = s
Has(s, text) == \E at \in 1..Len(text) : HasAt(s, text, at)

SignTexts ==
  LET Signs == {At("=*/%^-+<>|&!.#~", k) : k \in 1..15} IN
  {"a" \o x \o y \o z \o e : x, y, z \in Signs, e \in {"", "1"}}
    \cup {"a" \o x \o " " \o y \o "=b" : x, y \in Signs}
\* No comment begins in them, and && and || are not followed by = nor .. by
\* anything but a period: these are read as one token.
Sensible(text) ==
  /\ \A s \in {"//", "/*", "&&=", "||="} : ~Has(s, text)
  /\ \A at \in 1..Len(text) :
       HasAt("..", text, at) => \E from \in {at - 1, at} : from > 0 /\ HasAt("...", text, from)

NumberTexts ==
  {p \o d \o s \o e : p \in {"0", "0x", "1", "9", "17", "00", "0x0"}, d \in {"", "0", "7", "12"},
     s \in {"", "U", "L", "UL", "LL", "ULL"}, e \in {"", "+", ";\n"}}
    \cup {"0xaF", "0xdeadL", "010", "4095U"}
WordTexts ==
  {p \o w \o s : p \in {"", "_", " "}, s \in {"", "s", "1", "(", "\n", "\"\""},
     w \in {"a", "I", "dou", "do", "double", "if", "int", "inline", "sizeof", "struct", "enum", "for"}}

Chars ==
  {"z", " ", "\\n", "\\0", "\\07", "\\012", "\\17", "\\x41", "\\\"", "\\\\", "'", "\\a", "\\v", "/"}
StringTexts ==
  {"\"" \o a \o b \o c \o "\"" \o e : a, b, c \in Chars \cup {""}, e \in {"", ";", "\"z\""}}
CharTexts ==
  {"'" \o a \o "'" \o e : a \in Chars \ {"'"}, e \in {"", "+'z'", "\n"}} \cup {"'\\''"}

DirectiveTexts ==
  {a \o b \o "\n" \o c \o d :
     a \in {"", "x", "#if x", " # define a #a", "\n"}, b \in {"", " x##y", "\n\n", "+ #"},
     c \in {"#endif", "  #else x", "# if", "x", "x #"},
     d \in {"", "\n", "\n#endif\nx", "\n\n #undef #"}}

\* The file and the line of every character: of one file, and of one that
\* includes another between two of its lines.
LineAt(text, at) == 1 + Cardinality({k \in 1..(at - 1) : At(text, k) = "\n"})
Single(text) == [text |-> text, pos |-> [at \in 1..Len(text) |-> <<1, LineAt(text, at)>>]]
Including(a, b, c) ==
  [text |-> a \o b \o c,
   pos |-> [at \in 1..Len(a) |-> <<1, LineAt(a, at)>>]
             \o [at \in 1..Len(b) |-> <<2, LineAt(b, at)>>]
             \o [at \in 1..Len(c) |-> <<1, LineAt(a \o c, Len(a) + at)>>]]

TokenFiles ==
  {Single(text) : text \in {s \in SignTexts : Sensible(s)} \cup NumberTexts \cup WordTexts
                             \cup StringTexts \cup CharTexts \cup DirectiveTexts}
    \cup {Including("#include \"f\"", b, "\n" \o c) :
            b \in {"#if x\n#endif\n", "x", "x\n", "\n", "\n#define"},
            c \in {"", "#else", "x #", "\n#if"}}
==============================================================================
