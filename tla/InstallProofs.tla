--------------------------- MODULE InstallProofs ----------------------------
(***************************************************************************)
(* Proofs about the module Install, for every DAG, every number of jobs    *)
(* and every number of failures and crashes.                               *)
(***************************************************************************)
EXTENDS Install, TLAPS

\* A rule runs only under a make, after the stamps of its prerequisites and
\* before its own.
Scheduled ==
  \A n \in Node : pc[n] \in Running =>
    make # "off" /\ Deps[n] \subseteq stamp /\ n \notin stamp

\* Once build-one has looked at the prefix, its log is not empty.
Logged ==
  \A n \in Node : pc[n] \in Building \cup {"log"} => log[n] \in {"short", "build"}

Fetching == {"fetch", "open", "load", "verify", "stage"}
Unfinished == {"reset", "versions", "patches", "sources", "fetch", "open",
               "load", "verify", "stage", "patch", "mkprefix", "phases", "spec"}
Finished == {"deps", "manifest", "recipe", "clean", "log", "touch"}

\* Until do_finalize a node that is being built is not installed; from its
\* first file on it is.
SpecWritten ==
  \A n \in Node : /\ pc[n] \in Unfinished => n \notin Installed
                  /\ pc[n] \in Finished => n \in Installed

\* Stamps are closed under prerequisites.
StampsClosed == Closed(stamp)

Inv == /\ TypeOK /\ Scheduled /\ Logged /\ SpecWritten
       /\ StampMeansInstalled /\ StampsClosed

USE DEF Goto, Scheduler

\* A step of one rule keeps the type of pc.
LEMMA StepOfRule ==
  ASSUME TypeOK, NEW n \in Node, \E s \in Running : pc' = [pc EXCEPT ![n] = s]
  PROVE  pc' \in [Node -> {"wait", "made", "failed"} \cup Running]
  BY DEF TypeOK

\* Nothing is installed, stamped or running at first.
LEMMA InvInit == ASSUME Init PROVE Inv
  <1> USE DEF Init
  <1>1. TypeOK
    BY DEF TypeOK, MetaFiles, NoWork, Running, Building
  <1>2. Scheduled /\ Logged
    BY DEF Scheduled, Logged, Running, Building
  <1>3. SpecWritten /\ StampMeansInstalled /\ StampsClosed
    BY DEF SpecWritten, Unfinished, Finished, StampMeansInstalled, Installed,
           StampsClosed, Closed
  <1> QED BY <1>1, <1>2, <1>3 DEF Inv

\* The command and the ends of make: no rule runs afterwards.
LEMMA CommandKeepsInv ==
  ASSUME Inv, cmd_install \/ SecondMake \/ MakeEnds \/ Crash \/ VarLost PROVE Inv'
  <1> USE DEF Inv, cmd_install, SecondMake, MakeEnds, Crash, VarLost, Forget
  <1>1. TypeOK'
    <2>1. DOMAIN recipe = {Name[n] : n \in Node}
      BY DEF TypeOK
    <2>2. CASE cmd_install
      BY <2>1, <2>2 DEF TypeOK, NoWork
    <2>3. CASE SecondMake \/ MakeEnds \/ Crash
      <3>1. pc' \in [Node -> {"wait"}]
        BY <2>3
      <3>2. work' \in [Node -> [src : {"none", "listed", "partial", "whole"},
                               patched : BOOLEAN]]
        <4>1. work' = [n \in Node |-> NoWork]
          BY <2>3
        <4> QED BY <4>1 DEF NoWork
      <3>3. make' \in {"off", "parallel"} /\ crashes' \in Nat
        BY <2>3 DEF TypeOK
      <3> QED BY <2>3, <3>1, <3>2, <3>3 DEF TypeOK
    <2>4. CASE VarLost
      BY <2>1, <2>4 DEF TypeOK
    <2> QED BY <2>2, <2>3, <2>4
  <1>2. Scheduled' /\ Logged' /\ SpecWritten'
    BY DEF Scheduled, Logged, SpecWritten, Unfinished, Finished, Installed,
           Running, Building, TypeOK
  <1>3. StampMeansInstalled' /\ StampsClosed'
    BY DEF StampMeansInstalled, StampsClosed, Closed, Installed
  <1> QED BY <1>1, <1>2, <1>3

\* make starts a rule.
LEMMA StartKeepsInv ==
  ASSUME Inv, NEW n \in Node, StartRule(n) PROVE Inv'
  <1> USE DEF Inv, StartRule
  <1>1. TypeOK'
    BY DEF TypeOK, Running, Building
  <1>2. Scheduled' /\ Logged' /\ SpecWritten'
    BY DEF Scheduled, Logged, SpecWritten, Unfinished, Finished, Installed,
           Running, Building, TypeOK
  <1>3. StampMeansInstalled' /\ StampsClosed'
    BY DEF StampMeansInstalled, StampsClosed, Closed, Installed
  <1> QED BY <1>1, <1>2, <1>3

\* The steps of build-one up to do_finalize, and its failures, leave the
\* metadata and the stamps alone.
LEMMA BuildKeepsInv ==
  ASSUME Inv, NEW n \in Node,
         \/ check(n) \/ recipe_load(n) \/ spec_sources(n) \/ do_fetch(n)
         \/ download(n) \/ do_stage(n) \/ do_patch(n) \/ mkprefix(n) \/ phases(n) \/ Fail(n)
  PROVE  Inv'
  <1> USE DEF Inv
  <1>0. Name[n] \in {Name[k] : k \in Node}
    OBVIOUS
  <1>00. Distfile[n] \in {Distfile[k] : k \in Node}
    OBVIOUS
  <1>1. TypeOK'
    <2>1. CASE check(n) \/ do_fetch(n)
      BY <2>1 DEF TypeOK, check, do_fetch, Abort, Running, Building
    <2>5. CASE download(n)
      <3>1. pc' \in [Node -> {"wait", "made", "failed"} \cup Running]
        <4>1. \E s \in Running : pc' = [pc EXCEPT ![n] = s]
          BY <2>5 DEF download, Running, Building
        <4> QED BY <4>1, StepOfRule
      <3>2. \E has \in {"partial", "whole"} : dist' = [dist EXCEPT ![Distfile[n]] = has]
        BY <2>5 DEF download
      <3>3. dist' \in [{Distfile[k] : k \in Node} -> {"none", "partial", "whole"}]
        BY <3>2 DEF TypeOK
      <3> QED BY <2>5, <3>1, <3>3 DEF TypeOK, download
    <2>6. CASE do_stage(n)
      <3> DEFINE has == dist[Distfile[n]]
      <3>1. pc' \in [Node -> {"wait", "made", "failed"} \cup Running] /\ halt' \in BOOLEAN
        BY <2>6 DEF TypeOK, do_stage, Abort, Running, Building
      <3>2. has \in {"none", "partial", "whole"}
        BY <1>00 DEF TypeOK
      <3>3. work' = work \/ work' = [work EXCEPT ![n].src = has]
        BY <2>6 DEF do_stage
      <3> HIDE DEF has
      <3>4. work' \in [Node -> [src : {"none", "listed", "partial", "whole"},
                               patched : BOOLEAN]]
        BY <3>2, <3>3 DEF TypeOK
      <3> QED BY <2>6, <3>1, <3>4 DEF TypeOK, do_stage
    <2>2. CASE mkprefix(n) \/ phases(n) \/ Fail(n)
      <3>1. CASE mkprefix(n)
        BY <3>1 DEF TypeOK, mkprefix, Running, Building
      <3>2. CASE phases(n)
        BY <3>2 DEF TypeOK, phases, Running, Building
      <3>3. CASE Fail(n)
        BY <3>3 DEF TypeOK, Fail, Abort
      <3> QED BY <2>2, <3>1, <3>2, <3>3
    <2>3. CASE recipe_load(n)
      <3>1. pc' \in [Node -> {"wait", "made", "failed"} \cup Running]
        <4>1. \E s \in Running : pc' = [pc EXCEPT ![n] = s]
          BY <2>3 DEF recipe_load, Running, Building
        <4> QED BY <4>1, StepOfRule
      <3>2. recipe' \in [{Name[k] : k \in Node} -> [versions : Nat, patches : Nat]]
        <4> DEFINE Lines == [versions : Nat, patches : Nat]
        <4>1. recipe[Name[n]] \in Lines
          BY <1>0 DEF TypeOK
        <4>2. \E r \in Lines : recipe' = [recipe EXCEPT ![Name[n]] = r]
          BY <2>3, <4>1 DEF recipe_load
        <4> HIDE DEF Lines
        <4>3. recipe \in [{Name[k] : k \in Node} -> Lines]
          BY DEF TypeOK, Lines
        <4>4. recipe' \in [{Name[k] : k \in Node} -> Lines]
          BY <4>2, <4>3
        <4> QED BY <4>4 DEF Lines
      <3> QED BY <2>3, <3>1, <3>2 DEF TypeOK, recipe_load
    <2>4. CASE spec_sources(n) \/ do_patch(n)
      <3>1. pc' \in [Node -> {"wait", "made", "failed"} \cup Running]
        <4>1. CASE spec_sources(n)
          BY <4>1 DEF TypeOK, spec_sources, Running, Building
        <4>2. CASE do_patch(n)
          <5>1. pc' = [pc EXCEPT ![n] = "mkprefix"] \/ pc' = [pc EXCEPT ![n] = "failed"]
            BY <4>2 DEF do_patch, Abort
          <5> QED BY <5>1 DEF TypeOK, Running, Building
        <4> QED BY <2>4, <4>1, <4>2
      <3>2. work' \in [Node -> [src : {"none", "listed", "partial", "whole"},
                               patched : BOOLEAN]]
        <4>1. CASE spec_sources(n)
          <5> DEFINE found == IF recipe[Name[n]].versions > 0 THEN "listed" ELSE "none"
          <5>1. found \in {"none", "listed"}
            OBVIOUS
          <5>2. work' = [work EXCEPT ![n] = [src |-> found, patched |-> FALSE]]
            BY <4>1 DEF spec_sources
          <5> HIDE DEF found
          <5> QED BY <5>1, <5>2 DEF TypeOK
        <4>2. CASE do_patch(n)
          <5>1. work' = work \/ work' = [work EXCEPT ![n].patched = TRUE]
            BY <4>2 DEF do_patch
          <5> QED BY <5>1 DEF TypeOK
        <4> QED BY <2>4, <4>1, <4>2
      <3> QED BY <2>4, <3>1, <3>2 DEF TypeOK, spec_sources, do_patch, Abort
    <2> QED BY <2>1, <2>2, <2>3, <2>4, <2>5, <2>6
  <1>2. UNCHANGED <<make, stamp, meta>>
    BY DEF check, recipe_load, spec_sources, do_fetch, download, do_stage, do_patch, mkprefix,
           phases, Fail
  <1>3. PICK s \in Unfinished \cup {"log", "failed"} : pc' = [pc EXCEPT ![n] = s]
    BY DEF Unfinished, check, recipe_load, spec_sources, do_fetch, download, do_stage, do_patch,
           mkprefix, phases, Fail, Abort
  <1>4. pc[n] \in Running
    BY DEF Running, Building, check, recipe_load, spec_sources, do_fetch, download, do_stage,
           do_patch, mkprefix, phases, Fail
  <1>5. pc'[n] = s /\ \A m \in Node : m # n => pc'[m] = pc[m]
    BY <1>3 DEF TypeOK
  <1>6. Scheduled'
    BY <1>2, <1>4, <1>5 DEF Scheduled
  <1>7. Logged'
    <2>1. CASE check(n)
      BY <2>1, <1>5 DEF check, Logged, TypeOK
    <2>2. CASE \/ recipe_load(n) \/ spec_sources(n) \/ do_fetch(n) \/ download(n) \/ do_stage(n)
               \/ do_patch(n) \/ mkprefix(n) \/ phases(n) \/ Fail(n)
      <3>1. log' = log /\ pc[n] \in Building
        BY <2>2 DEF recipe_load, spec_sources, do_fetch, download, do_stage, do_patch, mkprefix,
                    phases, Fail, Building
      <3> QED BY <3>1, <1>5 DEF Logged
    <2> QED BY <2>1, <2>2
  <1>8. SpecWritten'
    <2>1. Installed' = Installed
      BY <1>2 DEF Installed
    <2>2. s \in Unfinished => n \notin Installed
      <3>1. CASE check(n)
        BY <3>1, <1>5 DEF check, Unfinished, TypeOK
      <3>2. CASE \/ recipe_load(n) \/ spec_sources(n) \/ do_fetch(n) \/ download(n) \/ do_stage(n)
                 \/ do_patch(n) \/ mkprefix(n) \/ phases(n)
        <4>1. pc[n] \in Unfinished
          BY <3>2 DEF recipe_load, spec_sources, do_fetch, download, do_stage, do_patch, mkprefix,
                      phases, Unfinished
        <4> QED BY <4>1 DEF SpecWritten
      <3>3. CASE Fail(n)
        BY <3>3, <1>5 DEF Fail, Abort, Unfinished, TypeOK
      <3> QED BY <3>1, <3>2, <3>3
    <2>3. s = "log" => n \in Installed
      BY <1>5 DEF check, recipe_load, spec_sources, do_fetch, download, do_stage, do_patch, mkprefix,
                  phases, Fail, Abort, TypeOK
    <2>4. s \in Finished => s = "log"
      BY DEF Unfinished, Finished
    <2> QED BY <1>5, <2>1, <2>2, <2>3, <2>4 DEF SpecWritten
  <1>9. StampMeansInstalled' /\ StampsClosed'
    BY <1>2 DEF StampMeansInstalled, StampsClosed, Closed, Installed
  <1> QED BY <1>1, <1>6, <1>7, <1>8, <1>9

\* do_finalize and the two lines after build-one.
LEMMA FinishKeepsInv ==
  ASSUME Inv, NEW n \in Node, do_finalize(n) \/ KeepLog(n) \/ Touch(n) PROVE Inv'
  <1> USE DEF Inv
  <1>1. TypeOK'
    <2>1. CASE do_finalize(n)
      <3>1. pc' \in [Node -> {"wait", "made", "failed"} \cup Running]
        <4>1. \E s \in Running : pc' = [pc EXCEPT ![n] = s]
          BY <2>1 DEF do_finalize, Running, Building
        <4> QED BY <4>1, StepOfRule
      <3>2. meta' \in [Node -> SUBSET MetaFiles]
        BY <2>1 DEF TypeOK, do_finalize, MetaFiles
      <3> QED BY <2>1, <3>1, <3>2 DEF TypeOK, do_finalize
    <2>2. CASE KeepLog(n)
      <3>1. pc' \in [Node -> {"wait", "made", "failed"} \cup Running]
        BY <2>2 DEF TypeOK, KeepLog, Running
      <3>2. meta' \in [Node -> SUBSET MetaFiles]
        BY <2>2 DEF TypeOK, KeepLog, MetaFiles
      <3>3. kept' \in [Node -> {"none", "short", "build"}]
        BY <2>2 DEF TypeOK, KeepLog, Logged
      <3> QED BY <2>2, <3>1, <3>2, <3>3 DEF TypeOK, KeepLog
    <2>3. CASE Touch(n)
      BY <2>3 DEF TypeOK, Touch
    <2> QED BY <2>1, <2>2, <2>3
  <1>2. Scheduled' /\ Logged'
    BY DEF Scheduled, Logged, Running, Building, TypeOK, do_finalize, KeepLog,
           Touch
  <1>3. SpecWritten'
    BY DEF SpecWritten, Unfinished, Finished, Installed, TypeOK, do_finalize,
           KeepLog, Touch
  <1>4. StampMeansInstalled'
    <2>1. Installed \subseteq Installed'
      <3>1. meta' = meta \/ \E f : meta' = [meta EXCEPT ![n] = @ \cup {f}]
        BY DEF KeepLog, do_finalize, Touch
      <3>2. meta \in [Node -> SUBSET MetaFiles]
        BY DEF TypeOK
      <3> QED BY <3>1, <3>2 DEF Installed
    <2>2. CASE Touch(n)
      <3>1. n \in Installed
        BY <2>2 DEF Touch, SpecWritten, Finished
      <3> QED BY <2>1, <2>2, <3>1 DEF StampMeansInstalled, Touch
    <2>3. CASE do_finalize(n) \/ KeepLog(n)
      BY <2>1, <2>3 DEF StampMeansInstalled, do_finalize, KeepLog
    <2> QED BY <2>2, <2>3
  <1>5. StampsClosed'
    BY DEF StampsClosed, Closed, Scheduled, Running, do_finalize, KeepLog, Touch
  <1> QED BY <1>1, <1>2, <1>3, <1>4, <1>5

\* The invariant is inductive.
LEMMA InvInductive == Inv /\ [Next]_vars => Inv'
  <1> SUFFICES ASSUME Inv, [Next]_vars PROVE Inv'
    OBVIOUS
  <1>1. CASE cmd_install \/ SecondMake \/ MakeEnds \/ Crash \/ VarLost
    BY <1>1, CommandKeepsInv
  <1>2. CASE \E n \in Node : StartRule(n)
    BY <1>2, StartKeepsInv
  <1>3. CASE \E n \in Node : Rule(n) \/ Fail(n)
    <2> PICK n \in Node : Rule(n) \/ Fail(n)
      BY <1>3
    <2>1. CASE do_finalize(n) \/ KeepLog(n) \/ Touch(n)
      BY <2>1, FinishKeepsInv
    <2>2. CASE \/ check(n) \/ recipe_load(n) \/ spec_sources(n) \/ do_fetch(n) \/ download(n) \/ do_stage(n)
               \/ do_patch(n) \/ mkprefix(n) \/ phases(n) \/ Fail(n)
      BY <2>2, BuildKeepsInv
    <2> QED BY <2>1, <2>2 DEF Rule, build_one
  <1>4. CASE UNCHANGED vars
    BY <1>4 DEF vars, Inv, TypeOK, Scheduled, Logged, SpecWritten, Installed,
                StampMeansInstalled, StampsClosed, Closed
  <1> QED BY <1>1, <1>2, <1>3, <1>4 DEF Next

\* The variables keep their types.
THEOREM TypeCorrect == Spec => []TypeOK
  <1>1. Inv => TypeOK
    BY DEF Inv
  <1> QED BY <1>1, InvInit, InvInductive, PTL DEF Spec

\* A stamp means an installed node, whatever failed or crashed.
THEOREM StampsAreSound == Spec => []StampMeansInstalled
  <1>1. Inv => StampMeansInstalled
    BY DEF Inv
  <1> QED BY <1>1, InvInit, InvInductive, PTL DEF Spec

\* The second make starts with the stamp of the make it runs under, and what is
\* installed stays so.
LEMMA StepKeepsMake ==
  ASSUME Inv, ParallelUnderNewMake, [Next]_vars PROVE ParallelUnderNewMake'
  <1>1. Installed \subseteq Installed'
    <2>1. CASE UNCHANGED meta
      BY <2>1 DEF Installed
    <2>2. CASE \E n \in Node : do_finalize(n) \/ KeepLog(n)
      <3> PICK n \in Node : do_finalize(n) \/ KeepLog(n)
        BY <2>2
      <3>1. meta' = meta \/ \E f : meta' = [meta EXCEPT ![n] = @ \cup {f}]
        BY DEF KeepLog, do_finalize
      <3>2. meta \in [Node -> SUBSET MetaFiles]
        BY DEF Inv, TypeOK
      <3> QED BY <3>1, <3>2 DEF Installed
    <2> QED
      BY <2>1, <2>2
      DEF Next, vars, cmd_install, SecondMake, MakeEnds, Crash, VarLost,
          StartRule, Rule, build_one, check, recipe_load, spec_sources, do_fetch,
          download, do_stage, do_patch, mkprefix, phases, Touch, Fail
  <1>2. CASE UNCHANGED make
    BY <1>1, <1>2 DEF ParallelUnderNewMake
  <1>3. CASE SecondMake
    BY <1>1, <1>3 DEF SecondMake, ParallelUnderNewMake, Inv, StampMeansInstalled
  <1>4. CASE cmd_install \/ MakeEnds \/ Crash
    BY <1>4 DEF cmd_install, MakeEnds, Crash, ParallelUnderNewMake
  <1> QED
    BY <1>2, <1>3, <1>4
    DEF Next, vars, VarLost, StartRule, Rule, build_one, check, recipe_load,
        spec_sources, do_fetch, download, do_stage, do_patch, mkprefix, phases,
        do_finalize, KeepLog, Touch, Fail

\* The whole DAG runs only under the make that was built for it.
THEOREM NewMakeFirst == Spec => []ParallelUnderNewMake
  <1>1. Init => ParallelUnderNewMake
    BY DEF Init, ParallelUnderNewMake
  <1> QED BY <1>1, InvInit, InvInductive, StepKeepsMake, PTL DEF Spec

------------------------------------------------------------------------------
(* Refinement of DagBuild.                                                 *)

\* A step changes the set of installed nodes only where do_finalize writes the
\* first file of a node, and then as the abstract specification allows.
LEMMA StepInstalls ==
  ASSUME Inv, [Next]_vars PROVE [Dag!Next]_Installed
  <1>1. CASE UNCHANGED meta
    BY <1>1 DEF Installed
  <1>2. CASE \E n \in Node : KeepLog(n)
    <2> PICK n \in Node : KeepLog(n)
      BY <1>2
    <2>1. \A k \in Node : "spec" \in meta'[k] <=> "spec" \in meta[k]
      BY DEF KeepLog, Inv, TypeOK
    <2> QED BY <2>1 DEF Installed
  <1>3. CASE \E n \in Node : do_finalize(n)
    <2> PICK n \in Node : do_finalize(n)
      BY <1>3
    <2>1. CASE pc[n] # "spec"
      <3>1. \A k \in Node : "spec" \in meta'[k] <=> "spec" \in meta[k]
        BY <2>1 DEF do_finalize, Inv, TypeOK
      <3> QED BY <3>1 DEF Installed
    <2>2. CASE pc[n] = "spec"
      <3>1. n \notin Installed
        BY <2>2 DEF Inv, SpecWritten, Unfinished
      <3>2. Deps[n] \subseteq Installed
        BY <2>2 DEF Inv, Scheduled, StampMeansInstalled, Running, Building
      <3>3. Installed' = Installed \cup {n}
        BY <2>2 DEF do_finalize, Installed, Inv, TypeOK
      <3>4. Dag!InstallNode(n)
        BY <3>1, <3>2, <3>3 DEF Dag!InstallNode
      <3> QED BY <3>4 DEF Dag!Next
    <2> QED BY <2>1, <2>2
  <1> QED
    BY <1>1, <1>2, <1>3
    DEF Next, vars, cmd_install, SecondMake, MakeEnds, Crash, VarLost,
        StartRule, Rule, build_one, check, recipe_load, spec_sources,
        do_fetch, download, do_stage, do_patch, mkprefix, phases, Touch, Fail

\* `shpack install` implements the abstract build of a DAG: nodes become
\* installed one at a time, each after its dependencies, and stay installed,
\* through parallel rules, failures, crashes and retries.
THEOREM Refinement == Spec => ImplementsDagBuild
  <1>1. Init => Dag!Init
    BY DEF Init, Dag!Init, Installed
  <1> QED BY <1>1, InvInit, InvInductive, StepInstalls, PTL
          DEF Spec, ImplementsDagBuild, Dag!Spec

\* A step leaves the prefix of an installed node alone.
LEMMA StepSpares ==
  ASSUME Inv, [Next]_vars
  PROVE  \A n \in Installed : made'[n] = made[n] /\ meta[n] \subseteq meta'[n]
  <1>1. CASE UNCHANGED <<made, meta>>
    BY <1>1
  <1>2. CASE \E k \in Node : KeepLog(k) \/ do_finalize(k)
    <2> PICK k \in Node : KeepLog(k) \/ do_finalize(k)
      BY <1>2
    <2>1. UNCHANGED made
      BY DEF KeepLog, do_finalize
    <2>2. meta' = meta \/ \E f : meta' = [meta EXCEPT ![k] = @ \cup {f}]
      BY DEF KeepLog, do_finalize
    <2>3. meta \in [Node -> SUBSET MetaFiles]
      BY DEF Inv, TypeOK
    <2> QED BY <2>1, <2>2, <2>3 DEF Installed
  <1>3. CASE \E k \in Node : mkprefix(k) \/ phases(k)
    <2> PICK k \in Node : mkprefix(k) \/ phases(k)
      BY <1>3
    <2>1. k \notin Installed
      BY DEF mkprefix, phases, Inv, SpecWritten, Unfinished
    <2> QED BY <2>1 DEF mkprefix, phases, Inv, TypeOK, Installed
  <1> QED
    BY <1>1, <1>2, <1>3
    DEF Next, vars, cmd_install, SecondMake, MakeEnds, Crash, VarLost,
        StartRule, Rule, build_one, check, recipe_load, spec_sources,
        do_fetch, download, do_stage, do_patch, Touch, Fail

\* An installed prefix never changes again.
THEOREM StoreIsImmutable == Spec => Immutable
  <1> QED BY InvInit, InvInductive, StepSpares, PTL DEF Spec, Immutable

------------------------------------------------------------------------------
(* What is in a prefix.                                                    *)

\* What build-one knows of the recipe state, of its stage and of its prefix.
RecipeRead ==
  \A n \in Node :
    /\ pc[n] = "versions" => recipe[Name[n]] = [versions |-> 0, patches |-> 0]
    /\ pc[n] = "patches" => recipe[Name[n]] = [versions |-> 1, patches |-> 0]
    /\ pc[n] \in {"sources", "patch"} \cup Fetching =>
         recipe[Name[n]] = [versions |-> 1, patches |-> 1]
ArchiveChecked ==
  \A n \in Node : pc[n] = "stage" => dist[Distfile[n]] = "whole"
WorkDone ==
  \A n \in Node :
    /\ pc[n] \in Fetching => work[n].src = "listed"
    /\ pc[n] = "patch" => work[n].src = "whole"
    /\ pc[n] \in {"mkprefix", "phases"} =>
         work[n] = [src |-> "whole", patched |-> TRUE]
PrefixWhole ==
  \A n \in Node : pc[n] = "spec" \/ n \in Installed => made[n] = "full"

Whole == RecipeRead /\ ArchiveChecked /\ WorkDone /\ PrefixWhole

\* Two nodes never run at the same time if one needs the other: the one needed
\* has its stamp while the other runs.
LEMMA ApartInTime ==
  ASSUME Inv, NEW m \in Node, NEW n \in Node, Apart(m, n),
         pc[m] \in Running, pc[n] \in Running
  PROVE  FALSE
  <1>1. ASSUME NEW i \in Node, NEW j \in Node, pc[i] \in Running,
               pc[j] \in Running, IsBelow(i, j)
        PROVE  FALSE
    <2>1. Deps[j] \subseteq stamp /\ i \notin stamp
      BY <1>1 DEF Inv, Scheduled
    <2>2. stamp \in SUBSET Node /\ Closed(stamp)
      BY DEF Inv, TypeOK, StampsClosed
    <2> QED BY <1>1, <2>1, <2>2 DEF IsBelow, Below
  <1> QED BY <1>1 DEF Apart

\* The loading of a recipe is alone with its directory.
LEMMA LoadKeepsWhole ==
  ASSUME Inv, VersionsOrdered, Whole, NEW n \in Node, recipe_load(n) PROVE Whole'
  <1>1. Name[n] \in DOMAIN recipe
    BY DEF Inv, TypeOK
  <1>2. ASSUME NEW m \in Node, m # n, pc[m] \in Running
        PROVE  Name[m] # Name[n]
    <2>1. pc[n] \in Running
      BY DEF recipe_load, Running, Building
    <2> QED BY <1>2, <2>1, ApartInTime DEF VersionsOrdered
  <1>3. RecipeRead'
    <2> SUFFICES ASSUME NEW m \in Node
                 PROVE  /\ pc'[m] = "versions" =>
                             recipe'[Name[m]] = [versions |-> 0, patches |-> 0]
                        /\ pc'[m] = "patches" =>
                             recipe'[Name[m]] = [versions |-> 1, patches |-> 0]
                        /\ pc'[m] \in {"sources", "patch"} \cup Fetching =>
                             recipe'[Name[m]] = [versions |-> 1, patches |-> 1]
      BY DEF RecipeRead
    <2>1. CASE m = n
      BY <1>1, <2>1 DEF recipe_load, Whole, RecipeRead, Fetching, Inv, TypeOK
    <2>2. CASE m # n
      <3>1. pc'[m] = pc[m]
        BY <2>2 DEF recipe_load, Inv, TypeOK
      <3>2. pc[m] \in Running => recipe'[Name[m]] = recipe[Name[m]]
        BY <1>1, <1>2, <2>2 DEF recipe_load, Inv, TypeOK
      <3> QED BY <3>1, <3>2 DEF Whole, RecipeRead, Fetching, Running, Building
    <2> QED BY <2>1, <2>2
  <1>4. ArchiveChecked' /\ WorkDone' /\ PrefixWhole'
    <2>1. /\ UNCHANGED <<work, dist, made, meta>>
          /\ pc'[n] \in {"versions", "patches", "sources"}
          /\ \A m \in Node : m # n => pc'[m] = pc[m]
      BY DEF recipe_load, Inv, TypeOK
    <2> QED BY <2>1 DEF Whole, ArchiveChecked, WorkDone, Fetching, PrefixWhole,
                        Installed
  <1> QED BY <1>3, <1>4 DEF Whole

\* What another build loads is another archive than the one that was checked.
LEMMA DownloadKeepsWhole ==
  ASSUME Inv, ArchivesOrdered, Whole, NEW n \in Node, download(n) PROVE Whole'
  <1> USE DEF Inv, TypeOK, Whole
  <1>1. pc[n] \in {"open", "load"} /\ pc' = [pc EXCEPT ![n] = pc'[n]]
        /\ pc'[n] \in {"load", "verify"}
    BY DEF download
  <1>2. UNCHANGED <<recipe, work, made, meta>>
    BY DEF download
  <1>3. ArchiveChecked'
    <2> SUFFICES ASSUME NEW m \in Node, pc'[m] = "stage"
                 PROVE  dist'[Distfile[m]] = "whole"
      BY DEF ArchiveChecked
    <2>1. m # n /\ pc[m] = "stage"
      BY <1>1
    <2>2. Distfile[m] # Distfile[n]
      BY <1>1, <2>1, ApartInTime DEF ArchivesOrdered, Running, Building
    <2>3. \E has : dist' = [dist EXCEPT ![Distfile[n]] = has]
      BY DEF download
    <2>4. dist'[Distfile[m]] = dist[Distfile[m]]
      BY <2>2, <2>3
    <2> QED BY <2>1, <2>4 DEF ArchiveChecked
  <1>4. RecipeRead' /\ WorkDone' /\ PrefixWhole'
    BY <1>1, <1>2 DEF RecipeRead, WorkDone, PrefixWhole, Fetching, Installed
  <1> QED BY <1>3, <1>4

\* The steps that fetch, unpack and patch the sources and run the phases.
LEMMA StageKeepsWhole ==
  ASSUME Inv, Whole, NEW n \in Node,
         \/ check(n) \/ spec_sources(n) \/ do_fetch(n) \/ do_stage(n)
         \/ do_patch(n) \/ mkprefix(n) \/ phases(n)
  PROVE  Whole'
  <1> USE DEF Inv, TypeOK, Whole
  <1>1. UNCHANGED <<recipe, meta, dist>>
    BY DEF check, spec_sources, do_fetch, do_stage, do_patch, mkprefix, phases
  <1>2. RecipeRead'
    BY <1>1 DEF RecipeRead, Fetching, check, spec_sources, do_fetch, do_stage,
                do_patch, mkprefix, phases, Abort
  <1>5. ArchiveChecked'
    <2>1. CASE do_fetch(n)
      <3>1. work[n].src = "listed" \/ pc[n] = "verify"
        BY <2>1 DEF do_fetch, WorkDone, Fetching
      <3> QED BY <2>1, <3>1, <1>1 DEF do_fetch, ArchiveChecked, Abort
    <2>2. CASE ~do_fetch(n)
      BY <1>1, <2>2 DEF ArchiveChecked, check, spec_sources, do_stage, do_patch,
                        mkprefix, phases, Abort
    <2> QED BY <2>1, <2>2
  <1>3. WorkDone'
    <2>1. CASE check(n) \/ mkprefix(n) \/ phases(n) \/ do_fetch(n)
      <3>1. UNCHANGED work
        BY <2>1 DEF check, mkprefix, phases, do_fetch
      <3>2. CASE check(n)
        BY <3>1, <3>2 DEF WorkDone, Fetching, check
      <3>3. CASE mkprefix(n) \/ phases(n)
        BY <3>1, <3>3 DEF WorkDone, Fetching, mkprefix, phases
      <3>4. CASE do_fetch(n)
        BY <3>1, <3>4 DEF WorkDone, Fetching, do_fetch, Abort
      <3> QED BY <2>1, <3>2, <3>3, <3>4
    <2>2. CASE spec_sources(n)
      <3>1. recipe[Name[n]].versions = 1
        BY <2>2 DEF RecipeRead, spec_sources
      <3>2. work' = [work EXCEPT ![n] = [src |-> "listed", patched |-> FALSE]]
        BY <2>2, <3>1 DEF spec_sources
      <3> QED BY <2>2, <3>2 DEF WorkDone, Fetching, spec_sources
    <2>4. CASE do_stage(n)
      <3>1. work[n].src = "listed" /\ dist[Distfile[n]] = "whole"
        BY <2>4 DEF WorkDone, Fetching, ArchiveChecked, do_stage
      <3>2. /\ pc' = [pc EXCEPT ![n] = "patch"]
            /\ work' = [work EXCEPT ![n].src = "whole"]
        BY <2>4, <3>1 DEF do_stage
      <3> QED BY <3>2 DEF WorkDone, Fetching
    <2>3. CASE do_patch(n)
      <3>1. recipe[Name[n]] = [versions |-> 1, patches |-> 1] /\ work[n].src = "whole"
        BY <2>3 DEF RecipeRead, WorkDone, do_patch
      <3>2. /\ pc' = [pc EXCEPT ![n] = "mkprefix"]
            /\ work' = [work EXCEPT ![n].patched = TRUE]
        BY <2>3, <3>1 DEF do_patch
      <3>3. work'[n] = [src |-> "whole", patched |-> TRUE]
        <4>1. work'[n] = [work[n] EXCEPT !.patched = TRUE]
          BY <3>2
        <4>2. work[n] \in [src : {"none", "listed", "partial", "whole"},
                           patched : BOOLEAN]
          OBVIOUS
        <4> QED BY <3>1, <4>1, <4>2
      <3> QED BY <3>2, <3>3 DEF WorkDone, Fetching
    <2> QED BY <2>1, <2>2, <2>3, <2>4
  <1>4. PrefixWhole'
    <2>1. Installed' = Installed
      BY <1>1 DEF Installed
    <2>2. CASE mkprefix(n)
      BY <2>1, <2>2 DEF PrefixWhole, mkprefix, SpecWritten, Unfinished
    <2>3. CASE phases(n)
      <3>1. work[n] = [src |-> "whole", patched |-> TRUE]
        BY <2>3 DEF WorkDone, phases
      <3>2. made' = [made EXCEPT ![n] = "full"]
        BY <2>3, <3>1 DEF phases
      <3> QED BY <2>1, <2>3, <3>2 DEF PrefixWhole, phases
    <2>4. CASE \/ check(n) \/ spec_sources(n) \/ do_fetch(n) \/ do_stage(n)
               \/ do_patch(n)
      BY <2>1, <2>4
      DEF PrefixWhole, check, spec_sources, do_fetch, do_stage, do_patch, Abort
    <2> QED BY <2>2, <2>3, <2>4
  <1> QED BY <1>2, <1>3, <1>4, <1>5 DEF Whole

\* Everything else: the metadata follows the phases; the command reloads the
\* recipes only when nothing runs.
LEMMA RestKeepsWhole ==
  ASSUME Inv, Whole,
         \/ cmd_install \/ SecondMake \/ MakeEnds \/ Crash \/ VarLost
         \/ \E n \in Node : \/ StartRule(n) \/ do_finalize(n) \/ KeepLog(n)
                            \/ Touch(n) \/ Fail(n)
  PROVE  Whole'
  <1> USE DEF Inv, TypeOK, Whole
  <1>1. CASE cmd_install \/ SecondMake \/ MakeEnds \/ Crash
    <2>1. \A n \in Node : pc'[n] = "wait"
      BY <1>1 DEF cmd_install, SecondMake, MakeEnds, Crash, Forget
    <2>2. UNCHANGED <<made, meta>>
      BY <1>1 DEF cmd_install, SecondMake, MakeEnds, Crash
    <2> QED BY <2>1, <2>2 DEF RecipeRead, ArchiveChecked, WorkDone, Fetching, PrefixWhole, Installed
  <1>2. CASE VarLost
    <2>1. \A n \in Node : pc[n] \notin Running
      BY <1>2 DEF VarLost, Scheduled
    <2> QED BY <1>2, <2>1 DEF VarLost, RecipeRead, ArchiveChecked, WorkDone, Fetching,
                              PrefixWhole,
                              Installed, Running, Building
  <1>3. ASSUME NEW n \in Node, StartRule(n) \/ Touch(n) \/ Fail(n)
        PROVE  Whole'
    <2>1. pc' = [pc EXCEPT ![n] = pc'[n]] /\ pc'[n] \in {"check", "made", "failed"}
      BY <1>3 DEF StartRule, Touch, Fail, Abort
    <2>2. UNCHANGED <<recipe, dist, work, made, meta>>
      BY <1>3 DEF StartRule, Touch, Fail
    <2>3. \A k \in Node : k # n => pc'[k] = pc[k]
      BY <2>1
    <2>4. RecipeRead' /\ PrefixWhole'
      BY <2>1, <2>2, <2>3 DEF RecipeRead, PrefixWhole, Fetching, Installed
    <2>5. ArchiveChecked' /\ WorkDone'
      BY <2>1, <2>2, <2>3 DEF ArchiveChecked, WorkDone, Fetching
    <2> QED BY <2>4, <2>5
  <1>4. ASSUME NEW n \in Node, do_finalize(n) \/ KeepLog(n)
        PROVE  Whole'
    <2>1. pc' = [pc EXCEPT ![n] = pc'[n]] /\ pc'[n] \in Finished
      BY <1>4 DEF do_finalize, KeepLog, Finished
    <2>2. UNCHANGED <<recipe, dist, work, made>>
      BY <1>4 DEF do_finalize, KeepLog
    <2>3. made[n] = "full"
      BY <1>4 DEF do_finalize, KeepLog, SpecWritten, Finished, PrefixWhole
    <2>4. \A m \in Node : m # n => meta'[m] = meta[m]
      BY <1>4 DEF do_finalize, KeepLog
    <2>5. \A m \in Node : m # n => pc'[m] = pc[m]
      BY <2>1
    <2>6. RecipeRead' /\ ArchiveChecked' /\ WorkDone'
      <3>1. pc'[n] \notin {"versions", "patches", "sources", "patch", "mkprefix",
                           "phases"} \cup Fetching
        BY <2>1 DEF Finished, Fetching
      <3>2. RecipeRead'
        <4>1. \A m \in Node : pc'[m] \in {"versions", "patches", "sources", "patch"}
                                        \cup Fetching => pc'[m] = pc[m]
          BY <2>5, <3>1 DEF Fetching
        <4> QED BY <2>2, <4>1 DEF RecipeRead, Fetching
      <3>3. ArchiveChecked'
        BY <2>2, <2>5, <3>1 DEF ArchiveChecked, Fetching
      <3>4. WorkDone'
        BY <2>2, <2>5, <3>1 DEF WorkDone, Fetching
      <3> QED BY <3>2, <3>3, <3>4
    <2>7. PrefixWhole'
      BY <2>1, <2>2, <2>3, <2>4, <2>5 DEF PrefixWhole, Installed, Finished
    <2> QED BY <2>6, <2>7
  <1> QED BY <1>1, <1>2, <1>3, <1>4

\* What a prefix holds is right at first and stays right.
LEMMA WholeInit == ASSUME Init PROVE Whole
  BY DEF Init, Whole, RecipeRead, ArchiveChecked, WorkDone, Fetching, PrefixWhole,
         Installed

LEMMA WholeInductive ==
  ASSUME VersionsOrdered, ArchivesOrdered PROVE Inv /\ Whole /\ [Next]_vars => Whole'
  <1> SUFFICES ASSUME Inv, Whole, [Next]_vars PROVE Whole'
    OBVIOUS
  <1>1. CASE \E n \in Node : recipe_load(n)
    BY <1>1, LoadKeepsWhole
  <1>5. CASE \E n \in Node : download(n)
    BY <1>5, DownloadKeepsWhole
  <1>2. CASE \E n \in Node : \/ check(n) \/ spec_sources(n) \/ do_fetch(n)
                             \/ do_stage(n) \/ do_patch(n) \/ mkprefix(n)
                             \/ phases(n)
    BY <1>2, StageKeepsWhole
  <1>3. CASE \/ cmd_install \/ SecondMake \/ MakeEnds \/ Crash \/ VarLost
             \/ \E n \in Node : \/ StartRule(n) \/ do_finalize(n) \/ KeepLog(n)
                                \/ Touch(n) \/ Fail(n)
    BY <1>3, RestKeepsWhole
  <1>4. CASE UNCHANGED vars
    BY <1>4 DEF vars, Whole, RecipeRead, ArchiveChecked, WorkDone, PrefixWhole, Installed
  <1> QED BY <1>1, <1>2, <1>3, <1>4, <1>5 DEF Next, Rule, build_one

\* If of two versions of a package, and of two nodes with one archive, one is
\* always built with the other, what counts as installed is the whole result of a build from the recipe.
THEOREM InstalledAreWhole ==
  ASSUME VersionsOrdered, ArchivesOrdered PROVE Spec => []InstalledIsWhole
  <1>1. Whole => InstalledIsWhole
    BY DEF Whole, PrefixWhole, InstalledIsWhole, Installed
  <1>2. Inv /\ Whole /\ [Next]_vars => Whole'
    BY WholeInductive
  <1> QED BY <1>1, <1>2, InvInit, InvInductive, WholeInit, PTL DEF Spec

\* Under the same condition a build runs only on dependencies, direct or not,
\* that are in the store and complete.
THEOREM DependenciesAreReady ==
  ASSUME VersionsOrdered, ArchivesOrdered PROVE Spec => []DepsReady
  <1>1. Inv /\ Whole => DepsReady
    <2> SUFFICES ASSUME Inv, Whole, NEW n \in Node, pc[n] \in Running,
                        NEW d \in Below(Deps[n])
                 PROVE  d \in Installed /\ made[d] = "full"
      BY DEF DepsReady
    <2>1. Deps[n] \subseteq stamp
      BY DEF Inv, Scheduled
    <2>2. stamp \in SUBSET Node /\ Closed(stamp)
      BY DEF Inv, TypeOK, StampsClosed
    <2>3. d \in stamp
      BY <2>1, <2>2 DEF Below
    <2> QED BY <2>2, <2>3 DEF Inv, StampMeansInstalled, Whole, PrefixWhole
  <1>2. Inv /\ Whole /\ [Next]_vars => Whole'
    BY WholeInductive
  <1> QED BY <1>1, <1>2, InvInit, InvInductive, WholeInit, PTL DEF Spec
==============================================================================
