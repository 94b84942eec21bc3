------------------------------ MODULE DagBuild -------------------------------
(***************************************************************************)
(* What installing a package DAG promises, with nothing said of processes, *)
(* makefiles, retries or crashes: packages become installed one at a time, *)
(* each after its dependencies, and an installed package stays installed.  *)
(***************************************************************************)
CONSTANTS
  Node,        \* the built nodes
  Deps         \* their direct built dependencies

VARIABLE installed

Init == installed = {}

InstallNode(n) ==
  /\ n \notin installed
  /\ Deps[n] \subseteq installed
  /\ installed' = installed \cup {n}

Next == \E n \in Node : InstallNode(n)

Spec == Init /\ [][Next]_installed
==============================================================================
