------------------------------- MODULE Install -------------------------------
(***************************************************************************)
(* `shpack install` after concretization: make walks dag.mk and runs one   *)
(* `shpack build-one` process per node (shpack/lib/concretize.sh,          *)
(* shpack/lib/builder.sh, shpack/lib/repo.sh).                             *)
(*                                                                         *)
(* The store is persistent: made and meta are what a prefix holds.  $VAR   *)
(* (stamps, logs, recipe state) survives a crash but may be lost as a      *)
(* whole.  A step of a build may fail, which stops make; the machine may   *)
(* crash between any two steps; the command may be run again.  Distfiles   *)
(* are shared by all builds and outlive everything, half-loaded ones too.  *)
(***************************************************************************)
EXTENDS Naturals, FiniteSets

CONSTANTS
  Node,         \* the built nodes of the DAG
  Deps,         \* Deps[n]: the direct built dependencies of n
  Roots,        \* the requested nodes, prerequisites of the goal `all`
  Bootstrap,    \* the node of SHPACK_BOOTSTRAP_MAKE, or NoBootstrap
  NoBootstrap,
  Name,         \* Name[n]: the package of which n is a version
  Distfile,     \* Distfile[n]: the archive n is built from
  Prestaged,    \* the archives that are there from the beginning
  Jobs,         \* JOBS: the bound of the parallel make
  MaxFailures,  \* bound on build steps that fail
  MaxCrashes    \* bound on crashes and losses of $VAR

VARIABLES
  make,         \* the make that runs: "off", "serial" or "parallel"
  halt,         \* a target failed: make starts nothing any more
  pc,           \* pc[n]: the next step of the rule of n
  work,         \* work[n]: what the build in progress was given
  recipe,       \* recipe[p]: lines per directive file of $VAR/recipe/<p>
  dist,         \* dist[f]: what $DISTFILES has of archive f
  made,         \* made[n]: the files of the prefix of n
  meta,         \* meta[n]: the files of its .shpack directory
  log,          \* log[n]: $VAR/logs/<n>.log
  kept,         \* kept[n]: the contents of .shpack/build.log
  stamp,        \* the nodes with a stamp in $VAR/stamps
  failures, crashes

vars == <<make, halt, pc, work, recipe, dist, made, meta, log, kept, stamp,
          failures, crashes>>

ASSUME InstallAssumption ==
  /\ Deps \in [Node -> SUBSET Node]
  /\ Roots \subseteq Node
  /\ Jobs \in Nat \ {0}

------------------------------------------------------------------------------
\* The steps of build-one after it has found that there is work to do, in
\* their order, and the two recipe lines of dag.mk that follow it.
Building == {"reset", "versions", "patches", "sources", "fetch", "open",
             "load", "verify", "stage", "patch", "mkprefix", "phases",
             "spec", "deps", "manifest", "recipe", "clean"}
Running == {"check"} \cup Building \cup {"log", "touch"}

RunningJobs == {n \in Node : pc[n] \in Running}

\* The nodes a make goal depends on, the goal included: the least set that
\* holds the goal and the prerequisites of its members.
Closed(S) == \A n \in S : Deps[n] \subseteq S
Below(goal) ==
  {n \in Node : \A S \in SUBSET Node : goal \subseteq S /\ Closed(S) => n \in S}

\* The goal and the job limit of the make in progress: the bootstrap make
\* builds one node without -j, the second make builds all with -jN.
Goal == IF make = "serial" THEN {Bootstrap} ELSE Roots
Limit == IF make = "serial" THEN 1 ELSE Jobs

\* Test of build-one: the prefix carries .shpack/spec.
Installed == {n \in Node : "spec" \in meta[n]}

Goto(n, step) == pc' = [pc EXCEPT ![n] = step]

NoWork == [src |-> "none", patched |-> FALSE]
Forget == /\ pc' = [n \in Node |-> "wait"]
          /\ work' = [n \in Node |-> NoWork]

------------------------------------------------------------------------------
(* The command and the scheduler.                                          *)

Init ==
  /\ make = "off" /\ halt = FALSE
  /\ pc = [n \in Node |-> "wait"]
  /\ work = [n \in Node |-> NoWork]
  /\ recipe = [p \in {Name[n] : n \in Node} |-> [versions |-> 0, patches |-> 0]]
  /\ dist = [f \in {Distfile[n] : n \in Node} |->
               IF f \in Prestaged THEN "whole" ELSE "none"]
  /\ made = [n \in Node |-> "none"]
  /\ meta = [n \in Node |-> {}]
  /\ log = [n \in Node |-> "none"]
  /\ kept = [n \in Node |-> "none"]
  /\ stamp = {}
  /\ failures = 0 /\ crashes = 0

\* Mutant: the kind of the node of the bootstrap make is not looked at.
cmd_install_any_kind ==
  /\ make = "off"
  /\ make' = IF Bootstrap # NoBootstrap THEN "serial" ELSE "parallel"
  /\ halt' = FALSE
  /\ recipe' = [p \in DOMAIN recipe |-> [versions |-> 1, patches |-> 1]]
  /\ Forget
  /\ UNCHANGED <<dist, made, meta, log, kept, stamp, failures, crashes>>

\* Mutant: one make for everything.
cmd_install_one_stage ==
  /\ make = "off"
  /\ make' = "parallel"
  /\ halt' = FALSE
  /\ recipe' = [p \in DOMAIN recipe |-> [versions |-> 1, patches |-> 1]]
  /\ Forget
  /\ UNCHANGED <<dist, made, meta, log, kept, stamp, failures, crashes>>

\* cmd_install: concretization loads every recipe afresh, then the first make
\* runs -- the serial one if the DAG contains the bootstrap make as a node to
\* build.
cmd_install ==
  /\ make = "off"
  /\ make' = IF Bootstrap \in Node THEN "serial" ELSE "parallel"
  /\ halt' = FALSE
  /\ recipe' = [p \in DOMAIN recipe |-> [versions |-> 1, patches |-> 1]]
  /\ Forget
  /\ UNCHANGED <<dist, made, meta, log, kept, stamp, failures, crashes>>

\* Mutant: the rule leaves its stamp when it starts.
StartRule_stamping(n) ==
  /\ make # "off" /\ ~halt
  /\ pc[n] = "wait" /\ n \notin stamp /\ n \in Below(Goal)
  /\ Deps[n] \subseteq stamp
  /\ Cardinality(RunningJobs) < Limit
  /\ Goto(n, "check")
  /\ log' = [log EXCEPT ![n] = "empty"]
  /\ stamp' = stamp \cup {n}
  /\ UNCHANGED <<make, halt, work, recipe, dist, made, meta, kept, failures, crashes>>

\* Mutant: dag.mk lists the targets without their prerequisites.
StartRule_unordered(n) ==
  /\ make # "off" /\ ~halt
  /\ pc[n] = "wait" /\ n \notin stamp /\ n \in Below(Goal)
  /\ Cardinality(RunningJobs) < Limit
  /\ Goto(n, "check")
  /\ log' = [log EXCEPT ![n] = "empty"]
  /\ UNCHANGED <<make, halt, work, recipe, dist, made, meta, kept, stamp, failures,
                 crashes>>

\* make starts the rule of a node that has no stamp when all prerequisites
\* have theirs; the redirection truncates the log.
StartRule(n) ==
  /\ make # "off" /\ ~halt
  /\ pc[n] = "wait" /\ n \notin stamp /\ n \in Below(Goal)
  /\ Deps[n] \subseteq stamp
  /\ Cardinality(RunningJobs) < Limit
  /\ Goto(n, "check")
  /\ log' = [log EXCEPT ![n] = "empty"]
  /\ UNCHANGED <<make, halt, work, recipe, dist, made, meta, kept, stamp, failures,
                 crashes>>

\* The first make has built the bootstrap make: exec the second.
SecondMake ==
  /\ make = "serial" /\ Bootstrap \in stamp /\ RunningJobs = {}
  /\ make' = "parallel"
  /\ Forget
  /\ UNCHANGED <<halt, recipe, dist, made, meta, log, kept, stamp, failures,
                 crashes>>

\* make is done, or it has waited for the jobs that still ran when a target
\* failed; either way the command ends.
MakeEnds ==
  /\ RunningJobs = {}
  /\ \/ make = "parallel" /\ Roots \subseteq stamp
     \/ make # "off" /\ halt
  /\ make' = "off"
  /\ Forget
  /\ UNCHANGED <<halt, recipe, dist, made, meta, log, kept, stamp, failures,
                 crashes>>

------------------------------------------------------------------------------
(* build-one, run by the first recipe line of a rule.                      *)

Scheduler == <<make, halt, stamp, failures, crashes>>

\* Mutant: a stamp is all that counts, the prefix is not looked at.
check_nothing(n) ==
  /\ pc[n] = "check"
  /\ Goto(n, "reset")
  /\ log' = [log EXCEPT ![n] = "build"]
  /\ UNCHANGED <<Scheduler, work, recipe, dist, made, meta, kept>>

\* Mutant: nothing is said of a node that is installed already.
check_quietly(n) ==
  /\ pc[n] = "check"
  /\ Goto(n, IF n \in Installed THEN "log" ELSE "reset")
  /\ log' = [log EXCEPT ![n] = IF n \in Installed THEN @ ELSE "build"]
  /\ UNCHANGED <<Scheduler, work, recipe, dist, made, meta, kept>>

\* A node whose prefix carries .shpack/spec is not built again; only its log
\* says so.
check(n) ==
  /\ pc[n] = "check"
  /\ Goto(n, IF n \in Installed THEN "log" ELSE "reset")
  /\ log' = [log EXCEPT ![n] = IF n \in Installed THEN "short" ELSE "build"]
  /\ UNCHANGED <<Scheduler, work, recipe, dist, made, meta, kept>>

\* recipe_load: the directory of the package is emptied, then the directives
\* of package.sh append to it one after another.  The directory is named for
\* the package, not for the node.
recipe_load(n) ==
  /\ \/ /\ pc[n] = "reset" /\ Goto(n, "versions")
        /\ recipe' = [recipe EXCEPT ![Name[n]] = [versions |-> 0, patches |-> 0]]
     \/ /\ pc[n] = "versions" /\ Goto(n, "patches")
        /\ recipe' = [recipe EXCEPT ![Name[n]] =
                        [versions |-> @.versions + 1, patches |-> @.patches]]
     \/ /\ pc[n] = "patches" /\ Goto(n, "sources")
        /\ recipe' = [recipe EXCEPT ![Name[n]] =
                        [versions |-> @.versions, patches |-> @.patches + 1]]
  /\ UNCHANGED <<Scheduler, work, dist, made, meta, log, kept>>

\* spec_sources: the source lines of the version, none if the file of the
\* version directives is not there.
spec_sources(n) ==
  /\ pc[n] = "sources" /\ Goto(n, "fetch")
  /\ work' = [work EXCEPT ![n] =
                [src |-> IF recipe[Name[n]].versions > 0 THEN "listed" ELSE "none",
                 patched |-> FALSE]]
  /\ UNCHANGED <<Scheduler, recipe, dist, made, meta, log, kept>>

\* A step of the rule exits non-zero: make starts nothing more.
Abort(n) == Goto(n, "failed") /\ halt' = TRUE

\* The nodes whose builds load archive f at this moment.
Loading(f) == {n \in Node : pc[n] = "load" /\ Distfile[n] = f}

\* download: curl opens the archive, which empties it, and fills it.  If two
\* do so at once, the first to end may leave a hole the other has yet to fill.
download(n) ==
  LET f == Distfile[n]
  IN  /\ \/ /\ pc[n] = "open" /\ Goto(n, "load")
            /\ dist' = [dist EXCEPT ![f] = "partial"]
         \/ /\ pc[n] = "load" /\ Goto(n, "verify")
            /\ \E has \in {"partial", "whole"} :
                 /\ Loading(f) = {n} => has = "whole"
                 /\ dist' = [dist EXCEPT ![f] = has]
      /\ UNCHANGED <<Scheduler, work, recipe, made, meta, log, kept>>

\* Mutant: an archive that is there needs no checksum.
do_fetch_trusting(n) ==
  /\ \/ /\ pc[n] = "fetch"
        /\ Goto(n, IF work[n].src = "none" THEN "stage"
                   ELSE IF dist[Distfile[n]] = "none" THEN "open" ELSE "verify")
     \/ /\ pc[n] = "verify" /\ Goto(n, "stage")
  /\ UNCHANGED <<Scheduler, work, recipe, dist, made, meta, log, kept>>

\* do_fetch: an archive that is not there is loaded, one that is there is not,
\* and either must have the recipe's checksum.
do_fetch(n) ==
  /\ \/ /\ pc[n] = "fetch" /\ UNCHANGED halt
        /\ Goto(n, IF work[n].src = "none" THEN "stage"
                   ELSE IF dist[Distfile[n]] = "none" THEN "open" ELSE "verify")
     \/ /\ pc[n] = "verify" /\ dist[Distfile[n]] = "whole"
        /\ Goto(n, "stage") /\ UNCHANGED halt
     \/ /\ pc[n] = "verify" /\ dist[Distfile[n]] # "whole"
        /\ Abort(n)
  /\ UNCHANGED <<make, stamp, failures, crashes, work, recipe, dist, made, meta,
                 log, kept>>

\* do_stage: unpack what the archive has at this moment.  A broken one stops
\* tar, but is copied where it is not packed.
do_stage(n) ==
  /\ pc[n] = "stage"
  /\ \/ /\ work[n].src = "none" /\ Goto(n, "patch") /\ UNCHANGED <<halt, work>>
     \/ /\ work[n].src # "none" /\ Goto(n, "patch") /\ UNCHANGED halt
        /\ work' = [work EXCEPT ![n].src = dist[Distfile[n]]]
     \/ /\ work[n].src # "none" /\ dist[Distfile[n]] # "whole"
        /\ Abort(n) /\ UNCHANGED work
  /\ UNCHANGED <<make, stamp, failures, crashes, recipe, dist, made, meta, log, kept>>

\* do_patch: no patches file, no patches; patch(1) fails on a tree that is
\* missing, broken or already patched.
do_patch(n) ==
  LET lines == recipe[Name[n]].patches
  IN  /\ pc[n] = "patch"
      /\ \/ /\ lines = 0
            /\ Goto(n, "mkprefix") /\ UNCHANGED <<halt, work>>
         \/ /\ lines = 1 /\ work[n].src # "none"
            /\ Goto(n, "mkprefix") /\ UNCHANGED halt
            /\ work' = [work EXCEPT ![n].patched = TRUE]
         \/ /\ lines > 0 /\ (lines = 1 => work[n].src # "whole")
            /\ Abort(n) /\ UNCHANGED work
  /\ UNCHANGED <<make, stamp, failures, crashes, recipe, dist, made, meta, log, kept>>

\* Mutant: the metadata is written before the phases have run.
mkprefix_finalizing(n) ==
  /\ pc[n] = "mkprefix" /\ Goto(n, "phases")
  /\ made' = [made EXCEPT ![n] = "partial"]
  /\ meta' = [meta EXCEPT ![n] = @ \cup {"spec"}]
  /\ UNCHANGED <<Scheduler, work, recipe, dist, log, kept>>

\* The phases write into PREFIX, over whatever an earlier attempt left there.
mkprefix(n) ==
  /\ pc[n] = "mkprefix" /\ Goto(n, "phases")
  /\ made' = [made EXCEPT ![n] = "partial"]
  /\ UNCHANGED <<Scheduler, work, recipe, dist, meta, log, kept>>

phases(n) ==
  /\ pc[n] = "phases" /\ Goto(n, "spec")
  /\ made' = [made EXCEPT ![n] =
                IF work[n].src = "whole" /\ work[n].patched THEN "full" ELSE "wrong"]
  /\ UNCHANGED <<Scheduler, work, recipe, dist, meta, log, kept>>

\* do_finalize: four files, one after another, then the stage is removed.
do_finalize(n) ==
  /\ \/ /\ pc[n] = "spec" /\ Goto(n, "deps")
        /\ meta' = [meta EXCEPT ![n] = @ \cup {"spec"}]
     \/ /\ pc[n] = "deps" /\ Goto(n, "manifest")
        /\ meta' = [meta EXCEPT ![n] = @ \cup {"deps"}]
     \/ /\ pc[n] = "manifest" /\ Goto(n, "recipe")
        /\ meta' = [meta EXCEPT ![n] = @ \cup {"manifest"}]
     \/ /\ pc[n] = "recipe" /\ Goto(n, "clean")
        /\ meta' = [meta EXCEPT ![n] = @ \cup {"recipe"}]
     \/ /\ pc[n] = "clean" /\ Goto(n, "log")
        /\ UNCHANGED meta
  /\ UNCHANGED <<Scheduler, work, recipe, dist, made, log, kept>>

------------------------------------------------------------------------------
(* The rest of a rule of dag.mk, failures and crashes.                     *)

\* test -f .shpack/build.log || cp: the log of this run of build-one becomes
\* the build log of the prefix if there is none.
KeepLog(n) ==
  /\ pc[n] = "log" /\ Goto(n, "touch")
  /\ IF "log" \in meta[n]
     THEN UNCHANGED <<meta, kept>>
     ELSE /\ meta' = [meta EXCEPT ![n] = @ \cup {"log"}]
          /\ kept' = [kept EXCEPT ![n] = log[n]]
  /\ UNCHANGED <<Scheduler, work, recipe, dist, made, log>>

Touch(n) ==
  /\ pc[n] = "touch" /\ Goto(n, "made")
  /\ stamp' = stamp \cup {n}
  /\ UNCHANGED <<make, halt, failures, crashes, work, recipe, dist, made, meta,
                 log, kept>>

\* Any command of build-one may fail; set -e ends it there.
Fail(n) ==
  /\ failures < MaxFailures
  /\ pc[n] \in Building
  /\ failures' = failures + 1
  /\ Abort(n)
  /\ UNCHANGED <<make, stamp, crashes, work, recipe, dist, made, meta, log, kept>>

\* The machine, or the process group, dies while make runs.
Crash ==
  /\ make # "off" /\ crashes < MaxCrashes
  /\ crashes' = crashes + 1
  /\ make' = "off"
  /\ Forget
  /\ UNCHANGED <<halt, recipe, dist, made, meta, log, kept, stamp, failures>>

\* $VAR is removed between two commands; the store stays.
VarLost ==
  /\ make = "off" /\ crashes < MaxCrashes
  /\ crashes' = crashes + 1
  /\ stamp' = {}
  /\ log' = [n \in Node |-> "none"]
  /\ recipe' = [p \in DOMAIN recipe |-> [versions |-> 0, patches |-> 0]]
  /\ UNCHANGED <<make, halt, pc, work, dist, made, meta, kept, failures>>

build_one(n) ==
  \/ check(n) \/ recipe_load(n) \/ spec_sources(n) \/ do_fetch(n)
  \/ download(n) \/ do_stage(n) \/ do_patch(n) \/ mkprefix(n) \/ phases(n) \/ do_finalize(n)

Rule(n) == build_one(n) \/ KeepLog(n) \/ Touch(n)

Next ==
  \/ cmd_install \/ SecondMake \/ MakeEnds \/ Crash \/ VarLost
  \/ \E n \in Node : StartRule(n) \/ Rule(n) \/ Fail(n)

Spec == Init /\ [][Next]_vars

\* A process that can take its next step takes it, make starts what it may
\* start and ends; nobody has to run the command.
Fairness == /\ WF_vars(SecondMake) /\ WF_vars(MakeEnds)
            /\ \A n \in Node : WF_vars(StartRule(n)) /\ WF_vars(Rule(n))
FairSpec == Spec /\ Fairness

------------------------------------------------------------------------------
(* What the store and the stamps promise.                                  *)

MetaFiles == {"spec", "deps", "manifest", "recipe", "log"}

\* Type invariant.  A log that was kept in a prefix is never empty: build-one
\* has written to it by then (builder.sh:175, concretize.sh:202-207).
TypeOK ==
  /\ make \in {"off", "serial", "parallel"}
  /\ halt \in BOOLEAN
  /\ pc \in [Node -> {"wait", "made", "failed"} \cup Running]
  /\ work \in [Node -> [src : {"none", "listed", "partial", "whole"}, patched : BOOLEAN]]
  /\ recipe \in [{Name[n] : n \in Node} -> [versions : Nat, patches : Nat]]
  /\ dist \in [{Distfile[n] : n \in Node} -> {"none", "partial", "whole"}]
  /\ made \in [Node -> {"none", "partial", "full", "wrong"}]
  /\ meta \in [Node -> SUBSET MetaFiles]
  /\ log \in [Node -> {"none", "empty", "short", "build"}]
  /\ kept \in [Node -> {"none", "short", "build"}]
  /\ stamp \subseteq Node
  /\ failures \in Nat /\ crashes \in Nat

\* A stamp is the only thing make looks at: whatever failed, crashed or was
\* run again, a stamped node is in the store (concretize.sh:208).
StampMeansInstalled == stamp \subseteq Installed

\* While anything of a node's rule runs, all it was built from, directly or
\* not, is in the store and complete: a crash or a failure never lets a build
\* see half of a dependency (concretize.sh:191-197, builder.sh:174).
DepsReady ==
  \A n \in Node : pc[n] \in Running =>
    \A d \in Below(Deps[n]) : d \in Installed /\ made[d] = "full"

\* A prefix that counts as installed holds the whole result of a build from
\* the recipe's sources with the recipe's patches (builder.sh:174, 203-225).
InstalledIsWhole == \A n \in Installed : made[n] = "full"

\* An installed prefix is never touched again: no later step of any command
\* changes its files or takes metadata away from it (builder.sh:174-177).
Immutable ==
  [][\A n \in Installed : made'[n] = made[n] /\ meta[n] \subseteq meta'[n]]_vars

\* The full DAG only ever runs under the make the DAG itself built, if it
\* builds one (concretize.sh:246-256).
ParallelUnderNewMake ==
  make = "parallel" /\ Bootstrap \in Node => Bootstrap \in Installed

\* Installing is a build of the DAG: nodes become installed one at a time,
\* after their dependencies, and stay so.
Dag == INSTANCE DagBuild WITH installed <- Installed
ImplementsDagBuild == Dag!Spec

\* A make that is not killed ends, and unless a target failed it has put
\* everything that was asked for into the store; races between its jobs, and
\* what crashes before it left behind, never keep it from ending.
InstallDelivers ==
  (make # "off" /\ crashes = MaxCrashes)
    ~> (make = "off" /\ (halt \/ Roots \subseteq Installed))

\* What shpack/README.md:38-40 says of the metadata of a prefix: it holds the
\* spec, the dependency edges, the manifest, the recipe and the build log.
MetadataComplete ==
  \A n \in stamp : meta[n] = MetaFiles /\ kept[n] = "build"

\* m is a transitive dependency of n.
IsBelow(m, n) == m \in Below(Deps[n])

\* Of two versions of a package in the DAG, and of two nodes built from one
\* archive, one is built with the other.
Apart(m, n) == IsBelow(m, n) \/ IsBelow(n, m)
VersionsOrdered ==
  \A m, n \in Node : m # n /\ Name[m] = Name[n] => Apart(m, n)
ArchivesOrdered ==
  \A m, n \in Node : m # n /\ Distfile[m] = Distfile[n] => Apart(m, n)
==============================================================================
