----------------------------- MODULE SmallWords -----------------------------
(***************************************************************************)
(* Words and memory small enough to compute with: a byte has two bits, a   *)
(* word eight bytes, and the sizes 1, 2, 4 and 8 of the languages keep     *)
(* their meaning.  The definitions are the parameters of Words.            *)
(***************************************************************************)
EXTENDS Integers, Sequences

BW == INSTANCE Bitwise

ByteBits == 2
Cells == 0..175
Modulus(n) == 2^(ByteBits * n)

Word == 0..(Modulus(8) - 1)
Zero == 0
One == 1
Numbers == {0}
Sites == {}
Memory == [Cells -> 0..3]
Image == [x \in Cells |-> x % 4]
Base == 104
Offset == {}
MaxDepth == 14
FrameOf(r) == 8

Low(n, w) == w % Modulus(n)
AsSigned(n, w) == IF Low(n, w) >= Modulus(n) \div 2 THEN Low(n, w) - Modulus(n) ELSE Low(n, w)
Sext(n, w) == AsSigned(n, w) % Modulus(8)
Put(n, w, v) == (w - Low(n, w)) + Low(n, v)
Load(m, a, n) ==
  LET sum[i \in 0..n] == IF i = 0 THEN 0 ELSE sum[i - 1] + m[(a + i - 1) % 176] * Modulus(i - 1)
  IN  sum[n]
Store(m, a, n, w) ==
  [b \in Cells |-> IF b - a \in 0..(n - 1) THEN (w \div Modulus(b - a)) % Modulus(1) ELSE m[b]]

Magnitude(x) == IF x < 0 THEN -x ELSE x
\* Division of signed words rounds toward zero.
Quotient(x, y) == (IF (x < 0) = (y < 0) THEN 1 ELSE -1) * (Magnitude(x) \div Magnitude(y))
NoQuotient(op, x, y) == y = 0
BitOp(op, x, y) ==
  CASE op = "&" -> BW!&(x, y) [] op = "|" -> BW!|(x, y) [] op = "^" -> BW!^^(x, y)
Alu(op, x, y) ==
  LET s == AsSigned(8, x)
      t == AsSigned(8, y)
  IN
  CASE op = "+"  -> (x + y) % Modulus(8)
    [] op = "-"  -> (x - y) % Modulus(8)
    [] op = "*"  -> (s * t) % Modulus(8)
    [] op \in {"&", "|", "^"} -> BitOp(op, x, y)
    [] op = "<<" -> (x * 2^(y % 16)) % Modulus(8)
    [] op = ">>" -> x \div 2^(y % 16)
    [] op = "/"  -> x \div y
    [] op = "%"  -> x % y
    [] op = "/s" -> Quotient(s, t) % Modulus(8)
    [] op = "%s" -> (s - t * Quotient(s, t)) % Modulus(8)
Not(x) == (Modulus(8) - 1) - x
Less(x, y) == x < y
LessS(x, y) == AsSigned(8, x) < AsSigned(8, y)
==============================================================================
