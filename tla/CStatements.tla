----------------------------- MODULE CStatements -----------------------------
(***************************************************************************)
(* What the statements of a C function mean: in which order its            *)
(* expressions are evaluated, given the values they turn out to have.      *)
(*                                                                         *)
(* A function is a tree, a node of it is named by its path from the root.  *)
(* The operands of &&, ||, !, ?: and the comma are nodes like statements;  *)
(* every other expression is a leaf with any value.  A goto is a leaf as   *)
(* well: it takes a step, so that no program runs without taking one.      *)
(***************************************************************************)
EXTENDS Integers, Sequences

CONSTANT Values      \* of a leaf; 0 is the one that is false

VARIABLES
  prog,   \* the function
  last    \* the last leaf evaluated and its value

cvars == <<prog, last>>

Start == [leaf |-> <<0>>, value |-> 0]
Returned == [leaf |-> <<-1>>, value |-> 0]

RECURSIVE NodeIn(_, _)
NodeIn(tree, p) == IF p = <<>> THEN tree ELSE NodeIn(tree.sub[Head(p)], Tail(p))
Node(p) == NodeIn(prog, p)
Parent(p) == SubSeq(p, 1, Len(p) - 1)
Child(p, i) == Append(p, i)
Width(p) == Len(Node(p).sub)

RECURSIVE PathsIn(_)
PathsIn(tree) ==
  {<<>>} \cup UNION {{<<i>> \o p : p \in PathsIn(tree.sub[i])} : i \in DOMAIN tree.sub}
Labelled == CHOOSE p \in PathsIn(prog) : Node(p).k = "label"

Loops == {"while", "do", "for"}

\* The innermost statement of one of the kinds around p.
RECURSIVE Enclosing(_, _)
Enclosing(p, kinds) ==
  IF Node(Parent(p)).k \in kinds THEN Parent(p) ELSE Enclosing(Parent(p), kinds)

\* The group of a switch whose labels hold v, else the one with the default.
Selected(p, v) ==
  LET cased == {i \in 2..Width(p) : \E c \in DOMAIN Node(p).sub[i].cases :
                                     Node(p).sub[i].cases[c] = v}
  IN  IF cased # {} THEN cased ELSE {i \in 2..Width(p) : Node(p).sub[i].default}

------------------------------------------------------------------------------
RECURSIVE First(_), Ended(_, _)

\* The leaf evaluated first when control reaches p.
First(p) ==
  LET s == Node(p) IN
  CASE s.k \in {"leaf", "goto"} -> p
    [] s.k = "none" -> Ended(p, 1)
    [] s.k = "break" -> Ended(Enclosing(p, Loops \cup {"switch"}), 0)
    [] s.k = "continue" ->
         LET loop == Enclosing(p, Loops) IN
         First(Child(loop, CASE Node(loop).k = "while" -> 1
                             [] Node(loop).k = "do" -> 2
                             [] Node(loop).k = "for" -> 3))
    [] s.k = "return" /\ s.sub = <<>> -> Returned.leaf
    [] s.k \in {"block", "group"} /\ s.sub = <<>> -> Ended(p, 0)
    [] OTHER -> First(Child(p, 1))

\* The leaf evaluated after p has ended with the value v.
Ended(p, v) ==
  IF p = <<>> THEN Returned.leaf ELSE
  LET q == Parent(p)  i == p[Len(p)]  s == Node(q)  true == v # 0  one == IF true THEN 1 ELSE 0 IN
  CASE s.k = "and" -> IF i = 1 /\ true THEN First(Child(q, 2)) ELSE Ended(q, one)
    [] s.k = "or" -> IF i = 1 /\ ~true THEN First(Child(q, 2)) ELSE Ended(q, one)
    [] s.k = "not" -> Ended(q, 1 - one)
    [] s.k = "comma" -> IF i = 1 THEN First(Child(q, 2)) ELSE Ended(q, v)
    [] s.k \in {"cond", "if"} ->
         IF i > 1 THEN Ended(q, v)
         ELSE IF true THEN First(Child(q, 2))
         ELSE IF Width(q) = 3 THEN First(Child(q, 3)) ELSE Ended(q, 0)
    [] s.k = "while" -> IF i = 2 THEN First(Child(q, 1))
                        ELSE IF true THEN First(Child(q, 2)) ELSE Ended(q, 0)
    [] s.k = "do" -> IF i = 1 THEN First(Child(q, 2))
                     ELSE IF true THEN First(Child(q, 1)) ELSE Ended(q, 0)
    [] s.k = "for" ->  \* init, condition, next, body
         (CASE i \in {1, 3} -> First(Child(q, 2))
            [] i = 2 -> IF true THEN First(Child(q, 4)) ELSE Ended(q, 0)
            [] i = 4 -> First(Child(q, 3)))
    [] s.k = "switch" ->
         IF i = 1
         THEN IF Selected(q, v) = {} THEN Ended(q, 0)
              ELSE First(Child(q, CHOOSE g \in Selected(q, v) : TRUE))
         ELSE IF i < Width(q) THEN First(Child(q, i + 1)) ELSE Ended(q, 0)
    [] s.k \in {"block", "group"} ->
         IF i < Width(q) THEN First(Child(q, i + 1)) ELSE Ended(q, 0)
    [] s.k = "return" -> Returned.leaf
    [] OTHER -> Ended(q, v)

NextLeaf ==
  CASE last.leaf = Start.leaf -> First(<<>>)
    [] Node(last.leaf).k = "goto" -> First(Labelled)
    [] OTHER -> Ended(last.leaf, last.value)

Init == last = Start

Next ==
  /\ last # Returned
  /\ UNCHANGED prog
  /\ IF NextLeaf = Returned.leaf THEN last' = Returned
     ELSE \E v \in IF Node(NextLeaf).k = "goto" THEN {0} ELSE Values :
            last' = [leaf |-> NextLeaf, value |-> v]

Spec == Init /\ [][Next]_cvars
==============================================================================
