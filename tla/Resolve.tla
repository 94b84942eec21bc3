------------------------------- MODULE Resolve -------------------------------
(***************************************************************************)
(* resolve() of shpack/lib/concretize.sh: which version of a package, and  *)
(* from which of the two tables, a spec stands for.                        *)
(*                                                                         *)
(* ext is the sequence of versions etc/externals gives for the name, in    *)
(* file order, decl the sequence of versions its recipe declares, in       *)
(* recipe order, and want the version after '@'.                           *)
(***************************************************************************)
EXTENDS Version

CONSTANTS
  NoVersion,   \* the absent @version of a bare spec
  Unresolved   \* what resolve() yields where the code dies

\* No pick looks like it.
ASSUME UnresolvedIsNoPick ==
  Unresolved \notin [version : VersionSet, kind : {"external", "built"}]

\* No version is the absent one.
ASSUME NoVersionIsNone == NoVersion \notin VersionSet

SeqRange(s) == {s[i] : i \in DOMAIN s}

\* The lines of a table that are in S, in their order.
Among(table, S) ==
  LET among[i \in 0..Len(table)] ==
        IF i = 0 THEN <<>>
        ELSE IF table[i] \in S THEN Append(among[i - 1], table[i]) ELSE among[i - 1]
  IN  among[Len(table)]

\* Mutant: a pin matches every version that compares equal to it.
MatchingUpToOrder(table, want) ==
  IF want = NoVersion THEN table
  ELSE SelectSeq(table, LAMBDA v : ~vercmp_gt(v, want) /\ ~vercmp_gt(want, v))

\* The lines of a table that an explicit @version leaves in the race.
Matching(table, want) ==
  IF want = NoVersion THEN table
  ELSE Among(table, {want})

\* The candidates in the order in which the two loops read them.
Candidates(ext, decl, want) ==
  LET Tag(table, k) == [i \in DOMAIN table |-> [version |-> table[i], kind |-> k]]
  IN  Tag(Matching(ext, want), "external") \o Tag(Matching(decl, want), "built")

\* Mutant: a later candidate wins a tie.
BestLastOnTie(cands) ==
  LET best[i \in 0..Len(cands)] ==
        IF i = 0 THEN Unresolved
        ELSE LET sofar == best[i - 1] IN
             IF sofar = Unresolved \/ ~vercmp_gt(sofar.version, cands[i].version)
             THEN cands[i] ELSE sofar
  IN  best[Len(cands)]

\* The scan: a candidate replaces the best one so far when it is newer.
Best(cands) ==
  LET best[i \in 0..Len(cands)] ==
        IF i = 0 THEN Unresolved
        ELSE LET sofar == best[i - 1] IN
             IF sofar = Unresolved \/ vercmp_gt(cands[i].version, sofar.version)
             THEN cands[i] ELSE sofar
  IN  best[Len(cands)]

\* resolve "name" (want = NoVersion) or "name@want".
resolve(ext, decl, want) == Best(Candidates(ext, decl, want))
==============================================================================
