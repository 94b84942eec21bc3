------------------------------ MODULE MCTargets ------------------------------
(***************************************************************************)
(* The two translators' code on words of four bits, where the sizes 1, 2,  *)
(* 4 and 8 of the language are one, two, three and four bits, memory is    *)
(* eight bits and addresses wrap.                                          *)
(***************************************************************************)
EXTENDS Targets, TLC

BW == INSTANCE Bitwise

MCWord == 0..15
Width == (1 :> 1) @@ (2 :> 2) @@ (4 :> 3) @@ (8 :> 4)
Cells == 0..7
MCMemory == [Cells -> {0, 1}]
MCImage == [b \in Cells |-> b % 2]

MCLow(n, w) == w % 2^Width[n]
Signed(n, w) ==
  LET low == MCLow(n, w) IN IF low >= 2^(Width[n] - 1) THEN low - 2^Width[n] ELSE low
MCSext(n, w) == Signed(n, w) % 16
MCPut(n, w, v) == (w - MCLow(n, w)) + MCLow(n, v)
MCLoad(m, a, n) ==
  LET sum[i \in 0..Width[n]] ==
        IF i = 0 THEN 0 ELSE sum[i - 1] + m[(a + i - 1) % 8] * 2^(i - 1)
  IN  sum[Width[n]]
MCStore(m, a, n, w) ==
  [b \in Cells |->
     LET i == (b - a) % 8 IN IF i < Width[n] THEN (w \div 2^i) % 2 ELSE m[b]]

\* Signed division truncates toward zero.
Abs(x) == IF x < 0 THEN -x ELSE x
Quotient(x, y) == (IF (x < 0) = (y < 0) THEN 1 ELSE -1) * (Abs(x) \div Abs(y))
MCNoQuotient(op, x, y) == y = 0 \/ (op \in {"/s", "%s"} /\ x = 8 /\ y = 15)
MCAlu(op, x, y) ==
  LET s == Signed(8, x)  t == Signed(8, y) IN
  IF op \in Division /\ y = 0 THEN 0 ELSE
  CASE op = "+"  -> (x + y) % 16
    [] op = "-"  -> (x - y) % 16
    [] op = "*"  -> (x * y) % 16
    [] op = "&"  -> BW!&(x, y)
    [] op = "|"  -> BW!|(x, y)
    [] op = "^"  -> BW!^^(x, y)
    [] op = "<<" -> (x * 2^(y % 4)) % 16
    [] op = ">>" -> x \div 2^(y % 4)
    [] op = "/"  -> x \div y
    [] op = "%"  -> x % y
    [] op = "/s" -> Quotient(s, t) % 16
    [] op = "%s" -> (s - t * Quotient(s, t)) % 16
MCNot(x) == 15 - x
MCLess(x, y) == x < y
MCLessS(x, y) == Signed(8, x) < Signed(8, y)
MCFrameOf(r) == IF r = 5 THEN 2 ELSE 3
==============================================================================
