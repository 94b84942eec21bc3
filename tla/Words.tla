-------------------------------- MODULE Words --------------------------------
(***************************************************************************)
(* Words, memory and the operand stack, shared by the meaning of Stack C   *)
(* (StackMachine) and by the code the two translators emit (Amd64,         *)
(* Aarch64).  The arithmetic is a parameter: what is proved holds for      *)
(* every word width and byte width that satisfies WordFacts.               *)
(***************************************************************************)
EXTENDS Integers, Sequences

CONSTANTS
  Word, Zero, One,
  Numbers,             \* the words a program writes as numbers or is given
  Sites,               \* the return addresses of its calls
  Memory,              \* the contents memory may have
  Image, Base,         \* memory as the program starts, and its first frame
  Offset,              \* byte offsets: of locals, struct members, frames
  MaxDepth,            \* bound on the operand stack
  Load(_, _, _),       \* Load(m, a, n): n bytes at address a, zero extended
  Store(_, _, _, _),   \* Store(m, a, n, w): the low n bytes of w go to a
  Low(_, _),           \* Low(n, w): the low n bytes of w, zero extended
  Sext(_, _),          \* Sext(n, w): the low n bytes of w, sign extended
  Put(_, _, _),        \* Put(n, w, v): w with its low n bytes those of v
  Alu(_, _, _),        \* Alu(op, x, y): two-operand arithmetic
  Not(_),              \* the complement of a word
  Less(_, _),          \* x < y, unsigned
  LessS(_, _),         \* x < y, signed
  NoQuotient(_, _, _), \* NoQuotient(op, x, y): x op y has no result
  FrameOf(_)           \* FrameOf(r): the frame adjustment 8 * pos that the
                       \* code before and after the call returning to r uses

Total == {"+", "-", "*", "&", "|", "^", "<<", ">>"}
Division == {"/", "%", "/s", "%s"}
Comparison == {"<", ">", "<=", ">=", "<s", ">s", "<=s", ">=s", "==", "!="}
Size == {1, 2, 4, 8}

\* A token is its spelling in a tuple, with what it is about where it has
\* one: <<"<=">>, <<"?", 2>>.  None has run as the program starts.
None == <<>>

ASSUME ConstantsTyped ==
  /\ Zero \in Word /\ One \in Word /\ Base \in Word /\ MaxDepth \in Nat
  /\ Numbers \subseteq Word /\ Sites \subseteq Word /\ Offset \subseteq Word
  /\ Image \in Memory /\ \A r \in Word : FrameOf(r) \in Offset

\* The operations have results, and memory stays memory.
ASSUME AluTyped ==
  \A op \in Total \cup Division, x, y \in Word : Alu(op, x, y) \in Word
ASSUME WordsTyped ==
  \A x \in Word, n \in Size : Not(x) \in Word /\ Low(n, x) \in Word /\ Sext(n, x) \in Word
ASSUME MemoryTyped ==
  \A m \in Memory, a \in Word, n \in Size :
     Load(m, a, n) \in Word /\ \A w \in Word : Store(m, a, n, w) \in Memory

\* What the instruction sequences rely on: operations whose operands they
\* swap, parts of registers, offsets that fit 31 bits, conditions read from
\* the flags, and remainders computed from quotients.
ASSUME Commutes ==
  \A op \in {"+", "*", "&", "|", "^"}, x, y \in Word : Alu(op, x, y) = Alu(op, y, x)
ASSUME Parts ==
  /\ \A n \in Size, x, y \in Word : Low(n, Put(n, x, y)) = Low(n, y)
  /\ \A n \in Size, m \in Memory, a \in Word : Low(n, Load(m, a, n)) = Load(m, a, n)
  /\ Low(1, One) = One /\ Low(1, Zero) = Zero
ASSUME OffsetsFit == \A o \in Offset : Low(4, o) = o /\ Sext(4, o) = o
ASSUME Orders ==
  \A x, y \in Word :
     /\ Less(x, y) \in BOOLEAN /\ LessS(x, y) \in BOOLEAN
     /\ Less(y, x) <=> (~Less(x, y) /\ x # y)
     /\ LessS(y, x) <=> (~LessS(x, y) /\ x # y)
ASSUME Remainders ==
  \A x, y \in Word :
     /\ NoQuotient("%", x, y) = NoQuotient("/", x, y)
     /\ NoQuotient("%s", x, y) = NoQuotient("/s", x, y)
     /\ ~NoQuotient("/", x, y) =>
          Alu("%", x, y) = Alu("-", x, Alu("*", Alu("/", x, y), y))
     /\ ~NoQuotient("/s", x, y) =>
          Alu("%s", x, y) = Alu("-", x, Alu("*", Alu("/s", x, y), y))

Truth(b) == IF b THEN One ELSE Zero

\* The operand stack without its top, and its top.
Front(s) == [i \in 1..(Len(s) - 1) |-> s[i]]
Last(s) == s[Len(s)]

\* Where control goes after a token: to the next one, to the label of a
\* conditional jump, or to a return address.
On == <<"next">>
Jump == <<"label">>
ReturnTo(r) == <<"return", r>>
Goes == {On, Jump} \cup {ReturnTo(r) : r \in Word}
==============================================================================
