---------------------------- MODULE MCConcretize -----------------------------
(* Instances of Concretize over small repositories. *)
EXTENDS Concretize

CONSTANTS a, b, c, px, py, s1, aux0, aux1

\* An injective stand-in for the truncated digest, and for <name>-<version>.
MCHash(m) == <<"sha256", m>>
MCIdOf(n, v) == <<n, v>>

v1 == << <<1>> >>
v2 == << <<2>> >>

Bare(n) == [name |-> n, want |-> NoVersion]
Pin(n, v) == [name |-> n, want |-> v]

Line(v, sha) == [version |-> v, sha |-> sha]
Recipe(vs, ds, aux) ==
  [versions |-> vs, deps |-> ds, aux |-> aux,
   resources |-> << [when |-> NoVersion, sha |-> s1], [when |-> v2, sha |-> s1] >>]

------------------------------------------------------------------------------
(* Every dependency graph over three names, cycles and gaps included.      *)

SpecsOfAll == {Bare(a), Bare(b), Pin(b, v1), Bare(c)}

DepLists == {NoFile, <<>>} \cup {<<s>> : s \in SpecsOfAll}
              \cup {<<s, t>> : s, t \in SpecsOfAll}

AllGraphs ==
  { [externals |-> ext,
     recipe |-> [n \in {a, b, c} |->
        CASE n = a -> Recipe(<<Line(v1, s1)>>, da, aux0)
          [] n = b -> Recipe(<<Line(v1, NoSha), Line(v2, s1)>>, db, aux0)
          [] n = c -> IF dc = NoRecipe THEN NoRecipe
                      ELSE Recipe(<<Line(v1, NoSha)>>, dc, aux0)]] :
    ext \in { <<>>, <<[name |-> c, version |-> v1, prefix |-> px]>> },
    da \in DepLists,
    db \in DepLists,
    dc \in {NoRecipe, NoFile, <<Bare(a)>>, <<Pin(b, v1)>>, <<Bare(b), Pin(b, v1)>>} }

\* For termination: the graphs in which every recipe has dependencies, so
\* that a cycle is the normal case.
LoopyGraphs ==
  {g \in AllGraphs : /\ g.externals = <<>>
                     /\ g.recipe[c] # NoRecipe
                     /\ g.recipe[a].deps \in {<<Bare(b), s>> : s \in SpecsOfAll}
                     /\ g.recipe[b].deps # NoFile}

------------------------------------------------------------------------------
(* Editing one repository: a change in the middle or at the leaf of a chain *)
(* with a shared leaf, a new version of a dependency, an external that     *)
(* moves.                                                                  *)

EditedRepos ==
  { [externals |-> <<[name |-> c, version |-> v1, prefix |-> p]>>,
     recipe |-> [n \in {a, b, c} |->
        CASE n = a -> Recipe(<<Line(v1, s1)>>, <<Bare(b), Bare(c)>>, aux0)
          [] n = b -> Recipe(vb, db, xb)
          [] n = c -> IF rc = 0 THEN NoRecipe
                      ELSE Recipe(<<Line(v1, NoSha), Line(v2, NoSha)>>, NoFile, aux0)]] :
    <<p, xb>> \in {<<px, aux0>>, <<px, aux1>>, <<py, aux0>>},
    vb \in {<<Line(v1, s1)>>, <<Line(v1, s1), Line(v2, s1)>>},
    db \in {NoFile, <<Bare(c)>>, <<Bare(a)>>}, rc \in {0, 1} }

EditRequests == { <<Bare(a)>>, <<Bare(b)>> }

------------------------------------------------------------------------------
(* One repository, requested in two ways: a depends on b and c.            *)

OneRepo ==
  { [externals |-> <<>>,
     recipe |-> [n \in {a, b, c} |->
        IF n = a THEN Recipe(<<Line(v1, s1)>>, <<Bare(b), Bare(c)>>, aux0)
        ELSE Recipe(<<Line(v1, s1)>>, NoFile, aux0)]] }

TwoOrders == { <<Bare(a)>>, <<Bare(c), Bare(a)>> }

------------------------------------------------------------------------------
(* Two tables of versions of one name, MaxLines lines in all.  b has every *)
(* spelling: 9, 10, 10.0 (equal to 10 but spelt differently), 9.2, 9.10    *)
(* and an empty middle segment, 9..1.                                      *)

MaxLines == 3
Spellings ==
  << << <<9>> >>, << <<1, 0>> >>, << <<1, 0>>, <<0>> >>, << <<9>>, <<2>> >>,
     << <<9>>, <<1, 0>> >>, << <<9>>, <<>>, <<1>> >> >>
Lists(n) == [1..n -> SeqRange(Spellings)]
AllBuilt(list) == Recipe([i \in DOMAIN list |-> Line(list[i], s1)], NoFile, aux0)

Tables ==
  { [externals |-> [i \in DOMAIN ext |-> [name |-> a, version |-> ext[i], prefix |-> <<px, a, ext[i]>>]],
     recipe |-> [n \in {a, b, c} |->
        IF n = a THEN AllBuilt(decl) ELSE IF n = b THEN AllBuilt(Spellings) ELSE NoRecipe]] :
    <<ext, decl>> \in UNION { Lists(nr[1]) \X Lists(nr[2]) : nr \in {n \in (0..MaxLines) \X (0..MaxLines) : n[1] + n[2] <= MaxLines} } }

------------------------------------------------------------------------------
(* The graphs as they are, and the edited repositories edited at will.     *)

GraphsAndEdits == AllGraphs \cup EditedRepos \cup Tables
GraphEdits == [r \in GraphsAndEdits |-> IF r \in EditedRepos THEN EditedRepos ELSE {}]
NoEdits == [r \in LoopyGraphs |-> {}]
SameRepo == [r \in OneRepo |-> OneRepo]
GraphRequests == {<<Bare(a)>>, <<Bare(c), Bare(a)>>, <<Bare(b)>>, <<Pin(b, v1), Bare(a)>>}

\* The instances are repositories that the theorems about the graph speak of.
ASSUME InstanceFits == NumbersOnly /\ IdsDiffer /\ PrefixesDiffer
==============================================================================
