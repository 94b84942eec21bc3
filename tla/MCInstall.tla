----------------------------- MODULE MCInstall ------------------------------
(* DAGs for TLC.  In the first, m is the make the DAG builds for itself, b   *)
(* and c are built with a, and c is a second version of a's package; t needs *)
(* b and c, which may be built side by side.                                 *)
EXTENDS Install, TLC

CONSTANTS m, a, b, c, t

DiamondNodes == {m, a, b, c, t}
Diamond == (m :> {}) @@ (a :> {}) @@ (b :> {a}) @@ (c :> {a}) @@ (t :> {b, c})
DiamondNames ==
  (m :> "gmake") @@ (a :> "gcc") @@ (b :> "gmp") @@ (c :> "gcc") @@ (t :> "bash")
DiamondRoots == {t}

\* Both versions of gcc come with an archive that is not there at first, the
\* others from one that is.
DiamondFiles == [n \in DiamondNodes |-> IF n \in {a, c} THEN "gcc.tar" ELSE "rest.tar"]
Supplied == {"rest.tar"}

\* Two versions of one package with nothing between them; here the bootstrap
\* make m is an external, hence no node.
PairNodes == {a, c}
Pair == (a :> {}) @@ (c :> {})
PairNames == (a :> "gcc") @@ (c :> "gcc")
PairRoots == {a, c}
PairFile == [n \in PairNodes |-> "gcc.tar"]
PairFiles == (a :> "gcc1.tar") @@ (c :> "gcc2.tar")
AllThere == {"gcc1.tar", "gcc2.tar"}
==============================================================================
