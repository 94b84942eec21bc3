---------------------------- MODULE MCStatements -----------------------------
(* Function bodies for TLC: loops with jumps in them, switches in a loop,  *)
(* and conditions with short circuits.                                     *)
EXTENDS Statements

Tree(k, sub) == [k |-> k, sub |-> sub]
leaf == Tree("leaf", <<>>)
none == Tree("none", <<>>)
Jump(k) == Tree(k, <<>>)
Labelled(s) == Tree("label", <<s>>)
Block(sub) == Tree("block", sub)
If(c, s) == Tree("if", <<c, s>>)
IfElse(c, s, t) == Tree("if", <<c, s, t>>)
Value == Tree("return", <<leaf>>)
Group(cases, default, sub) ==
  [k |-> "group", sub |-> sub, cases |-> cases, default |-> default]

Jumps == {Jump("break"), Jump("continue"), Value, Jump("return")}

Conditions ==
  {leaf} \cup {Tree(k, <<leaf, leaf>>) : k \in {"and", "or", "comma"}}
    \cup {Tree("not", <<leaf>>), Tree("cond", <<leaf, leaf, leaf>>),
          Tree("and", <<Tree("or", <<leaf, leaf>>), leaf>>),
          Tree("not", <<Tree("or", <<leaf, Tree("and", <<leaf, leaf>>)>>)>>)}

LoopsOf(c, s) ==
  {Tree("while", <<c, s>>), Tree("do", <<s, c>>)}
    \cup {Tree("for", <<init, c, next, s>>) : init, next \in {none, leaf}}
    \cup {Tree("for", <<none, none, leaf, s>>)}

\* Two loops in each other, the inner one left or restarted, and the outer
\* one after it; or a jump on a condition.
Inner == {If(leaf, j) : j \in Jumps} \cup UNION {LoopsOf(leaf, If(leaf, j)) : j \in Jumps}
LoopPrograms ==
  UNION {LoopsOf(leaf, Block(<<i, j>>)) : i \in Inner, j \in {leaf, IfElse(leaf, Jump("continue"), leaf)}}

ConditionPrograms ==
  UNION { {Block(<<IfElse(c, Tree("comma", <<leaf, leaf>>), Value), c>>),
           Block(<<Tree("return", <<c>>)>>)} \cup LoopsOf(c, leaf) : c \in Conditions }

\* A switch over two groups with a label of the function in the first one,
\* and a goto behind the switch.
SwitchesOf(Bodies1, Bodies2) ==
  {Tree("switch", <<leaf, Group(<<1>>, d = 1, b1), Group(cs, d = 2, b2)>>) :
     d \in 0..2, cs \in {<<2>>, <<2, 3>>}, b1 \in Bodies1, b2 \in Bodies2}
    \cup {Tree("switch", <<leaf, Group(<<>>, TRUE, b1), Group(<<1, 2>>, FALSE, b2)>>) :
            b1 \in Bodies1, b2 \in Bodies2}
    \cup {Tree("switch", <<leaf, Group(<<1, 2>>, FALSE, b1), Group(<<>>, TRUE, b2)>>) :
            b1 \in Bodies1, b2 \in Bodies2}

NestedSwitch(default) ==
  Tree("switch", <<leaf, Group(<<1>>, FALSE, <<leaf>>), Group(<<2>>, default, <<leaf>>)>>)

Inside == Jumps \cup {leaf, Labelled(leaf), Labelled(Jump("break")), Jump("goto"),
                      Block(<<Jump("break")>>), If(leaf, Jump("break")),
                      NestedSwitch(FALSE)}
Bodies == {<<>>} \cup {<<s>> : s \in Inside}
Bodies2 == Bodies \cup {<<s, t>> : s \in {Jump("break"), If(leaf, Jump("break"))}, 
                                   t \in {leaf, Labelled(leaf), Block(<<Labelled(leaf)>>), Jump("break")}}

RECURSIVE Count(_, _)
Count(tree, k) ==
  LET below[i \in 0..Len(tree.sub)] == IF i = 0 THEN 0 ELSE below[i - 1] + Count(tree.sub[i], k)
  IN  below[Len(tree.sub)] + IF tree.k = k THEN 1 ELSE 0
\* A function has one label if it has a goto, and else at most one.
Valid(tree) ==
  /\ Count(tree, "label") <= 1
  /\ Count(tree, "goto") > 0 => Count(tree, "label") = 1

SwitchPrograms ==
  {t \in {Tree("for", <<none, leaf, leaf, Block(<<s, leaf>>)>>) : s \in SwitchesOf(Bodies2, Bodies)}
           \cup {Tree("for", <<none, leaf, leaf, Block(<<s, If(leaf, Jump("goto"))>>)>>) :
                   s \in SwitchesOf(Bodies2, {<<leaf>>, <<Jump("break")>>})} : Valid(t)}

------------------------------------------------------------------------------
\* A continue in a do loop, with no loop in between.
RECURSIVE Restarts(_)
Restarts(tree) ==
  \/ tree.k = "continue"
  \/ tree.k \notin {"while", "do", "for"} /\ \E i \in DOMAIN tree.sub : Restarts(tree.sub[i])
RECURSIVE RestartsDo(_)
RestartsDo(tree) ==
  \/ tree.k = "do" /\ Restarts(tree.sub[1])
  \/ \E i \in DOMAIN tree.sub : RestartsDo(tree.sub[i])

OrdinaryPrograms ==
  {t \in LoopPrograms : ~RestartsDo(t)} \cup ConditionPrograms \cup SwitchPrograms
MCRestarting == {t \in LoopPrograms : RestartsDo(t)}
==============================================================================
