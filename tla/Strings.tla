------------------------------- MODULE Strings --------------------------------
(***************************************************************************)
(* The other functions of stdlib.c that are called with memory and give    *)
(* what C says: those that read numbers, printf, and qsort.                *)
(***************************************************************************)
EXTENDS ByteStrings

LOCAL INSTANCE Functions
LOCAL INSTANCE SequencesExt

CONSTANTS
  Word,      \* bytes of a size_t, of which qsort makes its swaps
  Requests   \* calls of printf: memory with the format, and its arguments

Literal == 0
DigitZero == 48
LowerA == 97
UpperA == 65
LowerX == 120
UpperX == 88
LowerL == 108
LowerD == 100
LowerS == 115
LowerU == 117
LowerC == 99
Blank == 32
Minus == 45
Percent == 37

Min2(x, y) == IF x < y THEN x ELSE y
------------------------------------------------------------------------------
(* Numbers in strings.  What they read is a value and the place after it.  *)

Read(value, end) == [value |-> value, end |-> end]
DigitOf(ch, base) ==
  CASE ch \in DigitZero..(DigitZero + Min2(base, 10) - 1) -> ch - DigitZero
    [] ch \in LowerA..(LowerA + base - 11) -> ch - LowerA + 10
    [] ch \in UpperA..(UpperA + base - 11) -> ch - UpperA + 10
    [] OTHER -> -1
RECURSIVE Accumulated(_, _, _, _)
Accumulated(m, nptr, base, value) ==
  IF DigitOf(m[nptr], base) < 0 THEN Read(value, nptr)
  ELSE Accumulated(m, nptr + 1, base, base * value + DigitOf(m[nptr], base))

strtoul(m, nptr, base) ==
  CASE base = 0 /\ m[nptr] # DigitZero -> Accumulated(m, nptr, 10, 0)
    [] base = 0 /\ m[nptr] = DigitZero /\ m[nptr + 1] \in {LowerX, UpperX} -> Accumulated(m, nptr + 2, 16, 0)
    [] base = 0 /\ m[nptr] = DigitZero /\ m[nptr + 1] \notin {LowerX, UpperX} -> Accumulated(m, nptr + 1, 8, 0)
    [] base # 0 -> Accumulated(m, nptr, base, 0)
Negated(read) == [read EXCEPT !.value = -@]
strtol(m, nptr, base) ==
  IF m[nptr] = Minus THEN Negated(strtoul(m, nptr + 1, base)) ELSE strtoul(m, nptr, base)

\* The numbers read, in the place of those left to be filled in.
RECURSIVE Scanned(_, _, _, _)
ScannedPast(m, read, format, values) == Scanned(m, read.end, format, Append(values, read.value))
Scanned(m, str, format, values) ==
  CASE m[format] = 0 \/ m[str] = 0 -> values
    [] m[format] = Percent /\ m[str] # 0 /\ m[format + 1] = LowerD ->
         ScannedPast(m, Accumulated(m, str, 10, 0), format + 2, values)
    [] OTHER -> IF m[format] # m[str] THEN values ELSE Scanned(m, str + 1, format + 1, values)
sscanf(m, str, format) == Scanned(m, str, format, <<>>)
------------------------------------------------------------------------------
(* printf.                                                                 *)

RECURSIVE Digits(_, _)
DigitChar(d) == IF d < 10 THEN DigitZero + d ELSE LowerA + d - 10
Digits(v, base) ==
  IF v < base THEN <<DigitChar(v)>> ELSE Append(Digits(v \div base, base), DigitChar(v % base))
Blanks(n) == [k \in 1..(IF n > 0 THEN n ELSE 0) |-> Blank]
Spelled(v) == IF v < 0 THEN <<Minus>> \o Digits(-v, 10) ELSE Digits(v, 10)
\* A number that is wider is cut.
Padded(chars, modifier, left) ==
  CASE modifier > Len(chars) /\ left -> chars \o Blanks(modifier - Len(chars))
    [] modifier > Len(chars) /\ ~left -> Blanks(modifier - Len(chars)) \o chars
    [] OTHER -> SubSeq(chars, 1, IF modifier = 0 THEN Len(chars) ELSE modifier)

Flag(m, f, ch) == IF m[f] = ch THEN f + 1 ELSE f
RECURSIVE Longs(_, _)
Longs(m, f) == IF m[f] = LowerL THEN Longs(m, f + 1) ELSE f

StringAt(m, s) == SubSeq(m, s, s + strlen(m, s) - 1)
\* What is written for a conversion, and what remains.
Piece(chars, next, args) == [chars |-> chars, next |-> next, args |-> args]
Converted(m, f, args, modifier, left) ==
  CASE m[f] = LowerS -> Piece(StringAt(m, Head(args)), f + 1, Tail(args))
    [] m[f] = LowerD -> Piece(Padded(Spelled(Head(args)), modifier, left), f + 1, Tail(args))
    [] m[f] = LowerU -> Piece(Digits(Head(args), 10), f + 1, Tail(args))
    [] m[f] = LowerX -> Piece(Digits(Head(args), 16), f + 1, Tail(args))
    [] m[f] = LowerC -> Piece(<<Head(args)>>, f + 1, Tail(args))
Modified(m, read, args, left) == Converted(m, Longs(m, read.end), args, read.value, left)
Conversion(m, f, args) ==
  IF m[f] = Percent THEN Piece(<<Percent>>, f + 1, args)
  ELSE Modified(m, Accumulated(m, Flag(m, Flag(m, f, Minus), 46), 10, 0), args, m[f] = Minus)
PieceAt(m, f, args) ==
  IF m[f] = Percent THEN Conversion(m, f + 1, args) ELSE Piece(<<m[f]>>, f + 1, args)

\* At most len characters, and if there is room for more, a 0.
Printed(out, len) == IF Len(out) < len THEN Append(out, 0) ELSE SubSeq(out, 1, len)
RECURSIVE __sys_printf(_, _, _, _, _)
Further(m, piece, len, out) == __sys_printf(m, piece.next, piece.args, len, out \o piece.chars)
__sys_printf(m, format, args, len, out) ==
  IF m[format] = 0 \/ Len(out) >= len THEN Printed(out, len)
  ELSE Further(m, PieceAt(m, format, args), len, out)

------------------------------------------------------------------------------
(* qsort, with a compare that looks at the first byte of an element.       *)

compare(m, arg1, arg2) == m[arg1] - m[arg2]

SwappedBytes(m, a, b, n) ==
  [x \in DOMAIN m |->
     CASE x \in a..(a + n - 1) -> m[x - a + b] [] x \in b..(b + n - 1) -> m[x - b + a] [] OTHER -> m[x]]

\* As words as long as a word is left, then as bytes.
RECURSIVE Swapped(_, _, _, _, _)
Swapped(m, a, b, j, size) ==
  CASE j >= size -> m
    [] j < size /\ j + Word - 1 < size -> Swapped(SwappedBytes(m, a + j, b + j, Word), a, b, j + Word, size)
    [] OTHER -> Swapped(SwappedBytes(m, a + j, b + j, 1), a, b, j + 1, size)

InOrder(m, arg1, arg2, size) ==
  IF compare(m, arg1, arg2) > 0 THEN Swapped(m, arg1, arg2, 0, size) ELSE m
RECURSIVE Round(_, _, _, _, _)
Round(m, base, i, nmemb, size) ==
  IF i + 1 >= nmemb THEN m
  ELSE Round(InOrder(m, base + i * size, base + (1 + i) * size, size), base, i + 1, nmemb, size)
RECURSIVE qsort(_, _, _, _)
Unless(m, next, base, nmemb, size) == IF next = m THEN m ELSE qsort(next, base, nmemb, size)
qsort(m, base, nmemb, size) == Unless(m, Round(m, base, 0, nmemb, size), base, nmemb, size)
------------------------------------------------------------------------------
(* C.                                                                      *)

\* The value of a run of digits, and the longest one at a place.
CValue(run, base) ==
  MapThenSumSet(LAMBDA k : DigitOf(run[k], base) * base^(Len(run) - k), DOMAIN run)
RunEnd(s, base) == Min({a \in s..Len(bytes) : DigitOf(bytes[a], base) < 0})
CBase(s) ==
  CASE bytes[s] # DigitZero -> 10 [] bytes[s] = DigitZero /\ bytes[s + 1] \in {LowerX, UpperX} -> 16 [] OTHER -> 8
CNumberAt(s, base) == Read(CValue(BytesAt(s, RunEnd(s, base) - s), base), RunEnd(s, base))

Elements(m, base, nmemb, size) ==
  [k \in 1..nmemb |-> SubSeq(m, base + (k - 1) * size, base + k * size - 1)]

\* A part of what is printed: characters as they are, or converted.
PartFormat(part) ==
  IF part.kind = Literal THEN FlattenSeq([k \in DOMAIN part.arg |-> IF part.arg[k] = Percent THEN <<Percent, Percent>> ELSE <<part.arg[k]>>])
  ELSE <<Percent>> \o (IF part.left THEN <<Minus>> ELSE <<>>)
         \o (IF part.width > 0 THEN Digits(part.width, 10) ELSE <<>>) \o part.longs \o <<part.kind>>
PartChars(part) ==
  LET chars == CASE part.kind = LowerD -> Spelled(part.arg)
                 [] part.kind = LowerU -> Digits(part.arg, 10)
                 [] part.kind = LowerX -> Digits(part.arg, 16)
                 [] part.kind = LowerC -> <<part.arg>>
                 [] OTHER -> part.arg
  IN  IF part.left THEN chars \o Blanks(part.width - Len(chars)) ELSE Blanks(part.width - Len(chars)) \o chars

FormatOf(parts) == FlattenSeq([k \in DOMAIN parts |-> PartFormat(parts[k])])
CPrinted(parts) == FlattenSeq([k \in DOMAIN parts |-> PartChars(parts[k])])
IsNumber(part) == part.kind \notin {Literal, LowerS}

\* In memory: the format, and the strings that are arguments.
RECURSIVE Laid(_, _, _)
Layout(m, args) == [m |-> m, args |-> args]
Laid(parts, m, args) ==
  CASE parts = <<>> -> Layout(m, args)
    [] parts # <<>> /\ Head(parts).kind = Literal -> Laid(Tail(parts), m, args)
    [] parts # <<>> /\ Head(parts).kind = LowerS ->
         Laid(Tail(parts), m \o Head(parts).arg \o <<0>>, Append(args, Len(m) + 1))
    [] OTHER -> Laid(Tail(parts), m, Append(args, Head(parts).arg))
LaidOut(parts) == Laid(parts, FormatOf(parts) \o <<0>>, <<>>)
------------------------------------------------------------------------------
Init == CallInit \/ (bytes = <<>> /\ result = <<>> /\ meant = <<bytes, <<>>>>)

Negative(s, base) == Negated(CNumberAt(s + 1, base))
Signed(s, base) == IF bytes[s] = Minus THEN Negative(s, base) ELSE CNumberAt(s, base)
\* Numbers that begin with a digit; strtol takes a sign before it.
Unprefixed(s, base) ==
  \/ bytes[s] # Minus /\ Answers(strtoul(bytes, s, base), CNumberAt(s, base))
  \/ Answers(strtol(bytes, s, base), Signed(s, base))
Prefixed(s, digits, base) ==
  /\ DigitOf(bytes[digits], base) >= 0
  /\ Answers(strtoul(bytes, s, 0), CNumberAt(digits, base))
Number ==
  \E s \in Strs :
    \/ \E base \in {8, 10, 16} : DigitOf(bytes[IF bytes[s] = Minus THEN s + 1 ELSE s], base) >= 0 /\ Unprefixed(s, base)
    \/ bytes[s] # 0 /\ Prefixed(s, IF CBase(s) = 16 THEN s + 2 ELSE s, CBase(s))

\* A width cuts a number that is wider, and what does not fit has no 0 at the
\* end: neither is asked for.  What was printed is read again.
Fitting(parts) ==
  \A k \in DOMAIN parts : parts[k].width > 0 => Len(PartChars([parts[k] EXCEPT !.width = 0])) <= parts[k].width
Prints(laid, parts) ==
  Answers(__sys_printf(laid.m, 1, laid.args, Len(CPrinted(parts)) + 1, <<>>), Append(CPrinted(parts), 0))
Scans(laid, out, parts) ==
  Answers(sscanf(laid.m \o out \o <<0>>, Len(laid.m) + 1, 1), laid.args)
Readable(parts) ==
  \A k \in DOMAIN parts :
    \/ parts[k].kind = LowerD /\ parts[k].arg >= 0 /\ PartFormat(parts[k]) = <<Percent, LowerD>>
         /\ (k < Len(parts) => parts[k + 1].kind = Literal /\ parts[k + 1].arg # <<>>)
    \/ parts[k].kind = Literal /\ Percent \notin Range(parts[k].arg)
Format ==
  /\ bytes = <<>>
  /\ \E parts \in Requests :
       \/ Fitting(parts) /\ Prints(LaidOut(parts), parts)
       \/ Readable(parts) /\ Scans(LaidOut(parts), CPrinted(parts), parts)

\* The order C has is one of those with the elements as they were; this one
\* keeps equal ones in their order.
Sorted(m, base, nmemb, size) ==
  CHOOSE f \in {f \in [1..nmemb -> 1..nmemb] : IsInjective(f)} :
    LET key(k) == m[base + (f[k] - 1) * size] IN
    \A j, k \in 1..nmemb : j < k => key(j) < key(k) \/ (key(j) = key(k) /\ f[j] < f[k])
InOrderOf(m, f, base, nmemb, size) ==
  FlattenSeq([k \in 1..nmemb |-> Elements(m, base, nmemb, size)[f[k]]])
Sort ==
  \E base \in 1..Len(bytes), nmemb \in 0..3, size \in Counts \ {0} :
    /\ InMemory(base, nmemb * size)
    /\ Gives(qsort(bytes, base, nmemb, size), "none",
             With(base, InOrderOf(bytes, Sorted(bytes, base, nmemb, size), base, nmemb, size)), "none")

Next == CallNext \/ (result = <<>> /\ (Number \/ Format \/ Sort))
==============================================================================
