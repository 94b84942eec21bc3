------------------------------- MODULE Version -------------------------------
(***************************************************************************)
(* Version comparison of shpack (shpack/lib/spec.sh).                      *)
(*                                                                         *)
(* A version is the sequence of its segments: vercmp_gt turns every '-'    *)
(* into '.' before it splits, so the separators carry no information.  A   *)
(* segment is the sequence of its characters, and a character is its rank  *)
(* in the order sort(1) uses: 0..9 are the digits, a larger number is a    *)
(* letter.  Characters are kept because the comparison switches between a  *)
(* numeric and a lexical order by looking at them.                         *)
(***************************************************************************)
EXTENDS Naturals, Sequences

\* The segment "0" that stands for an empty or a missing segment.
Zero == <<0>>

\* is_int: a non-empty string of digits.
is_int(s) == s # <<>> /\ \A i \in DOMAIN s : s[i] \in 0..9

\* The number that test(1) reads from a string of digits.
Value(s) ==
  LET val[i \in 0..Len(s)] == IF i = 0 THEN 0 ELSE 10 * val[i - 1] + s[i]
  IN  val[Len(s)]

\* str_gt: s sorts strictly after t.
str_gt(s, t) ==
  \E k \in 0..Len(t) :
     /\ k < Len(s)
     /\ \A i \in 1..k : s[i] = t[i]
     /\ k < Len(t) => s[k + 1] > t[k + 1]

\* One comparison of the loop of vercmp_gt: numeric when both are numbers.
SegmentGt(s, t) ==
  IF is_int(s) /\ is_int(t) THEN Value(s) > Value(t) ELSE str_gt(s, t)

\* The i-th segment of a version: missing and empty segments count as "0".
Segment(v, i) == IF i \in DOMAIN v /\ v[i] # <<>> THEN v[i] ELSE Zero

\* vercmp_gt: the first pair of segments that compares unequal decides.
vercmp_gt(a, b) ==
  \E i \in 1..(IF Len(a) > Len(b) THEN Len(a) ELSE Len(b)) :
     /\ SegmentGt(Segment(a, i), Segment(b, i))
     /\ \A j \in 1..(i - 1) : /\ ~SegmentGt(Segment(a, j), Segment(b, j))
                              /\ ~SegmentGt(Segment(b, j), Segment(a, j))
------------------------------------------------------------------------------
\* What "newest" means for versions made of numbers only: the first place
\* where the numbers differ decides, and a version is followed by zeros.
Number(v, i) == Value(Segment(v, i))
NumericallyNewer(v, w) ==
  \E i \in 1..(Len(v) + Len(w)) :
     /\ Number(v, i) > Number(w, i)
     /\ \A j \in 1..(i - 1) : Number(v, j) = Number(w, j)

\* Versions, and those of numbers only.
VersionSet == Seq(Seq(Nat))
Numeric(v) == \A i \in DOMAIN v : v[i] = <<>> \/ is_int(v[i])
==============================================================================
