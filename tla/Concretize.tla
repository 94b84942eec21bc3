----------------------------- MODULE Concretize ------------------------------
(***************************************************************************)
(* `shpack concretize <spec>...` (shpack/lib/concretize.sh): the recursive *)
(* visit() that turns specs into a hashed DAG under $VAR, and the index    *)
(* and makefile emitted from it.                                           *)
(*                                                                         *)
(* The recursion of visit() is the variable stack: one node per call in    *)
(* progress.  The position of a call in its list of dependencies is the    *)
(* number of lines it has appended to its deps file.                       *)
(* The files of the directory $VAR/spec/<id> are functions of the id: spec *)
(* (name, version, kind), deps and closure are defined as soon as the      *)
(* directory exists, final (manifest, hash, prefix) once the node is done. *)
(* The loops of emit_index and emit_dagmk likewise are as far as the files *)
(* they write: the next line, or rule, is that of the next node in topo.   *)
(*                                                                         *)
(* The command may be interrupted at any step, while it removes what an    *)
(* earlier run left and while it writes index and dag.mk too, and it may   *)
(* be run again after the recipes or the externals table were edited.      *)
(* Removal takes a directory of spec at a time and then the files, writing *)
(* takes a line or a rule at a time: that a kill may also cut through a    *)
(* line, or through a directory, is left out, and so is the directory      *)
(* $VAR/recipe, the recipes parsed, which goes and comes with spec.        *)
(***************************************************************************)
EXTENDS Resolve, FiniteSets

CONSTANTS
  Repos,        \* the contents REPO and EXTERNALS may have
  Edits,        \* Edits[r]: what repository r may be edited into between two runs
  Requests,     \* the argument lists of the command: sequences of specs
  Arch,         \* ARCH of the config
  NoRecipe,     \* a name without packages/<name>/package.sh
  NoFile,       \* a state file that was never written
  NoSha,        \* the '-' of a version without sources
  MaxRuns,      \* bound on the number of runs of the command
  Hash(_),      \* truncate7 of sha256 of a file's contents
  IdOf(_, _)    \* the string <name>-<version>

\* A table is a sequence of lines; its order matters and its length is bounded
\* by nothing.
IsTable(t) == t \in Seq({t[i] : i \in DOMAIN t})

\* What may be asked for: a name the repository knows, and perhaps a version.
IsRequest(r, t) ==
  /\ IsTable(t)
  /\ \A i \in DOMAIN t : /\ t[i].name \in DOMAIN r.recipe
                         /\ t[i].want = NoVersion \/ t[i].want \in VersionSet

\* The contents of REPO and EXTERNALS, as far as resolution goes.
IsRepository(r) ==
  /\ IsFiniteSet(DOMAIN r.recipe)
  /\ IsTable(r.externals)
  /\ \A i \in DOMAIN r.externals : r.externals[i].version \in VersionSet
  /\ \A n \in DOMAIN r.recipe : r.recipe[n] # NoRecipe =>
       /\ IsTable(r.recipe[n].versions)
       /\ \A i \in DOMAIN r.recipe[n].versions : r.recipe[n].versions[i].version \in VersionSet
       /\ r.recipe[n].deps = NoFile \/ IsRequest(r, r.recipe[n].deps)

ASSUME RepositoriesFit ==
  /\ Edits \in [Repos -> SUBSET Repos]
  /\ \A r \in Repos : /\ IsRepository(r)
                      /\ \A req \in Requests : IsRequest(r, req)
                      /\ Unresolved \notin [name : DOMAIN r.recipe, version : VersionSet,
                                            kind : {"external", "built"}]

\* What theorems about the graph ask of the repositories, and what those in
\* shpack/packages and etc/externals.in meet: versions are made of numbers, so
\* that "newer" is an order, and two versions or names never make one
\* directory of them.
VersionsIn(r, n) ==
  {r.externals[i].version : i \in {j \in DOMAIN r.externals : r.externals[j].name = n}}
    \cup (IF r.recipe[n] = NoRecipe THEN {}
          ELSE {r.recipe[n].versions[i].version : i \in DOMAIN r.recipe[n].versions})

NumbersOnly ==
  \A r \in Repos : \A n \in DOMAIN r.recipe : \A v \in VersionsIn(r, n) : Numeric(v)

IdsDiffer ==
  \A r \in Repos : \A m, n \in DOMAIN r.recipe :
    \A v \in VersionsIn(r, m), w \in VersionsIn(r, n) :
      IdOf(m, v) = IdOf(n, w) => m = n /\ v = w

\* Externals of two names or versions have two prefixes.
PrefixesDiffer ==
  \A r \in Repos : \A i, j \in DOMAIN r.externals :
    r.externals[i].prefix = r.externals[j].prefix =>
      r.externals[i].name = r.externals[j].name /\ r.externals[i].version = r.externals[j].version

VARIABLES
  repo,         \* REPO and EXTERNALS: [externals |-> lines, recipe |-> by name]
  runs,         \* how many runs were started
  request,      \* the arguments of the current run
  status,       \* "idle", what the run is at, "done" or the reason of a failure
  todo,         \* the arguments not yet visited
  stack,        \* the calls of visit() in progress, innermost last
  spec,         \* $VAR/spec/<id>/{name,version,kind}
  deps,         \* $VAR/spec/<id>/deps
  closure,      \* $VAR/spec/<id>/closure
  final,        \* $VAR/spec/<id>/{manifest,hash,prefix}
  topo,         \* $VAR/topo
  roots,        \* $VAR/roots
  index,        \* $VAR/index, or NoFile
  dag,          \* $VAR/dag.mk, or NoFile
  past          \* history: what the completed runs computed for each node

dirs == <<spec, deps, closure, final>>

vars == <<repo, runs, request, status, todo, stack, dirs, topo, roots, index,
          dag, past>>

\* What a run is at: it removes, visits, writes index, writes dag.mk.
Running == {"removing", "run", "index", "dag"}

\* "interrupted" or, when it was killed while it removed, "half-removed".
Failures == {"unresolved", "cycle", "sort", "interrupted", "half-removed"}

\* What is under $VAR was written by one run, and is not being removed.
Settled == status \notin {"removing", "half-removed"}

\* It was, and of the repository as it is now.
Current == Settled /\ status # "idle"

------------------------------------------------------------------------------
(* Resolution against the current repository.                              *)

ExternalLines(name) ==
  Among(repo.externals, {line \in SeqRange(repo.externals) : line.name = name})

Declared(name) ==
  IF repo.recipe[name] = NoRecipe THEN <<>>
  ELSE LET vs == repo.recipe[name].versions
       IN  [i \in DOMAIN vs |-> vs[i].version]

\* The pick for the spec s, a record with a version and a kind.
Resolved(s) ==
  LET lines == ExternalLines(s.name)
  IN  resolve([i \in DOMAIN lines |-> lines[i].version],
              Declared(s.name), s.want)

\* RES_PREFIX of an external: the first line with that version is the one
\* that resolve() keeps.
ExternalPrefix(name, v) ==
  LET spelt == {line \in SeqRange(repo.externals) : line.name = name /\ line.version = v}
  IN  Among(repo.externals, spelt)[1].prefix

\* spec_sources: the checksums of the version's own source and of the
\* resources that apply to it.
spec_sources(recipe, v) ==
  LET own == SelectSeq(recipe.versions,
                       LAMBDA l : l.version = v /\ l.sha # NoSha)
      res == SelectSeq(recipe.resources,
                       LAMBDA l : l.when \in {NoVersion, v})
  IN  [i \in DOMAIN own |-> own[i].sha] \o [i \in DOMAIN res |-> res[i].sha]

\* The dependencies visit() walks below a node, NoFile when the recipe has
\* no depends_on.
RecipeDeps(name, kind) ==
  IF kind = "external" THEN NoFile ELSE repo.recipe[name].deps

WordsOf(file) == IF file = NoFile THEN <<>> ELSE file

------------------------------------------------------------------------------
(* Reading the state.                                                      *)

\* The test [ -f $VAR/spec/<id>/hash ].
Done(id) == id \in DOMAIN final

Top == stack[Len(stack)]

\* The dependencies of the call in progress.
TopDeps == RecipeDeps(spec[Top].name, spec[Top].kind)

\* The position of the dependency it visits next.
TopNext == Len(deps[Top]) + 1

reverse_lines(s) == [i \in DOMAIN s |-> s[Len(s) + 1 - i]]

\* Mutant: the closure in build order.
compose_path_forward(id) ==
  LET members == Among(topo, closure[id])
  IN  <<final[id].prefix>> \o [i \in DOMAIN members |-> final[members[i]].prefix]

\* compose_path: the node's own prefix, then its closure in the reverse of
\* the order of $VAR/topo.
compose_path(id) ==
  LET members == Among(reverse_lines(topo), closure[id])
  IN  <<final[id].prefix>> \o [i \in DOMAIN members |-> final[members[i]].prefix]

stamp_of(id) == <<id, final[id].hash>>

Built(ids) == {id \in ids : spec[id].kind = "built"}

\* A directory without entries.
Nothing == [id \in {} |-> NoFile]

------------------------------------------------------------------------------
(* Actions.                                                                *)

\* die(), and the other ways out of the command: what was written stays.
Fail(why) ==
  /\ status' = why
  /\ UNCHANGED <<repo, runs, request, todo, stack, dirs, topo, roots, index,
                 dag, past>>

\* cmd_concretize begins to remove the state of an earlier run.  (Its arguments,
\* which it reads only then, are those of Begin.)
cmd_concretize ==
  /\ status \notin Running /\ runs < MaxRuns
  /\ runs' = runs + 1 /\ status' = "removing"
  /\ request' = <<>> /\ todo' = <<>> /\ stack' = <<>>
  /\ UNCHANGED <<repo, dirs, topo, roots, index, dag, past>>

\* rm -rf of spec, in the order in which the directories are met.
RemoveSpec ==
  /\ status = "removing"
  /\ \E id \in DOMAIN spec :
       LET Without(f) == [i \in DOMAIN f \ {id} |-> f[i]]
       IN  /\ spec' = Without(spec) /\ deps' = Without(deps)
           /\ closure' = Without(closure) /\ final' = Without(final)
  /\ UNCHANGED <<repo, runs, request, status, todo, stack, topo, roots, index,
                 dag, past>>

\* rm -f of the files, once spec is gone: topo and roots, then index, then
\* dag.mk.
RemoveFiles ==
  /\ status = "removing" /\ DOMAIN spec = {}
  /\ \/ /\ topo' = <<>> /\ roots' = <<>>
        /\ UNCHANGED <<index, dag>>
     \/ /\ topo = <<>> /\ roots = <<>> /\ index' = NoFile
        /\ UNCHANGED <<topo, roots, dag>>
     \/ /\ topo = <<>> /\ roots = <<>> /\ index = NoFile /\ dag' = NoFile
        /\ UNCHANGED <<topo, roots, index>>
  /\ UNCHANGED <<repo, runs, request, status, todo, stack, dirs, past>>

\* Mutant: spec is not among what is removed.
Removed_but_spec == topo = <<>> /\ roots = <<>> /\ index = NoFile /\ dag = NoFile

\* Mutant: dag.mk is not among the files that are removed.
Removed_but_dagmk == DOMAIN spec = {} /\ topo = <<>> /\ roots = <<>> /\ index = NoFile

\* Both rm have ended.
Removed ==
  DOMAIN spec = {} /\ topo = <<>> /\ roots = <<>> /\ index = NoFile /\ dag = NoFile

\* The directories are made anew, and topo and roots without a line: the visits
\* begin.
Begin(req) ==
  /\ status = "removing" /\ Removed
  /\ status' = "run" /\ request' = req /\ todo' = req
  /\ UNCHANGED <<repo, runs, stack, dirs, topo, roots, index, dag, past>>

\* Mutant: only the direct dependency joins the closure.
ReturnDirectOnly(calls, id) ==
  IF calls = <<>>
  THEN /\ roots' = Append(roots, id)
       /\ todo' = Tail(todo)
       /\ stack' = calls
       /\ UNCHANGED <<deps, closure>>
  ELSE LET caller == calls[Len(calls)]
       IN  /\ deps' = [deps EXCEPT ![caller] = Append(@, id)]
           /\ closure' = [closure EXCEPT ![caller] = @ \cup {id}]
           /\ stack' = calls
           /\ UNCHANGED <<roots, todo>>

\* visit() returns id to its caller: cmd_concretize, which records a root, or
\* the call below it on the stack, which records a dependency.
Return(calls, id) ==
  IF calls = <<>>
  THEN /\ roots' = Append(roots, id)
       /\ todo' = Tail(todo)
       /\ stack' = calls
       /\ UNCHANGED <<deps, closure>>
  ELSE LET caller == calls[Len(calls)]
       IN  /\ deps' = [deps EXCEPT ![caller] = Append(@, id)]
           /\ closure' = [closure EXCEPT ![caller] = @ \cup {id} \cup closure[id]]
           /\ stack' = calls
           /\ UNCHANGED <<roots, todo>>

\* Mutant: the files name, version and kind are written when the node is done.
OpenNodeLateDirectory(id, node) ==
  LET With(f, x) == [i \in DOMAIN f \cup {id} |-> IF i = id THEN x ELSE f[i]]
  IN  /\ deps' = With(deps, <<>>)
      /\ closure' = With(closure, {})
      /\ stack' = Append(stack, id)
      /\ UNCHANGED <<repo, runs, request, status, todo, spec, final, topo, roots,
                     index, dag, past>>

\* The directory of a new node is made, and the call goes on to its
\* dependencies.
OpenNode(id, node) ==
  LET With(f, x) == [i \in DOMAIN f \cup {id} |-> IF i = id THEN x ELSE f[i]]
  IN  /\ spec' = With(spec, node)
      /\ deps' = With(deps, <<>>)
      /\ closure' = With(closure, {})
      /\ stack' = Append(stack, id)
      /\ UNCHANGED <<repo, runs, request, status, todo, final, topo, roots,
                     index, dag, past>>

\* Mutant: the directory alone, without a look for the hash, means a cycle.
visit_without_memo(s) ==
  LET pick == Resolved(s)
      id   == IdOf(s.name, pick.version)
      node == [name |-> s.name, version |-> pick.version, kind |-> pick.kind]
  IN  \/ pick = Unresolved /\ Fail("unresolved")
      \/ pick # Unresolved /\ id \in DOMAIN spec /\ Fail("cycle")
      \/ pick # Unresolved /\ id \notin DOMAIN spec /\ OpenNode(id, node)

\* Mutant: a directory without a hash is taken for one left by a killed run, and
\* made again.
visit_again(s) ==
  LET pick == Resolved(s)
      id   == IdOf(s.name, pick.version)
      node == [name |-> s.name, version |-> pick.version, kind |-> pick.kind]
  IN  \/ pick = Unresolved /\ Fail("unresolved")
      \/ /\ pick # Unresolved /\ Done(id)
         /\ Return(stack, id)
         /\ UNCHANGED <<repo, runs, request, status, spec, final, topo, index,
                        dag, past>>
      \/ pick # Unresolved /\ ~Done(id) /\ OpenNode(id, node)

\* A call visit(s), up to its return or its first recursive call.
visit(s) ==
  LET pick == Resolved(s)
      id   == IdOf(s.name, pick.version)
      node == [name |-> s.name, version |-> pick.version, kind |-> pick.kind]
  IN  \/ pick = Unresolved /\ Fail("unresolved")
      \/ /\ pick # Unresolved /\ Done(id)
         /\ Return(stack, id)
         /\ UNCHANGED <<repo, runs, request, status, spec, final, topo, index,
                        dag, past>>
      \/ pick # Unresolved /\ ~Done(id) /\ id \in DOMAIN spec /\ Fail("cycle")
      \/ pick # Unresolved /\ id \notin DOMAIN spec /\ OpenNode(id, node)

\* cmd_concretize visits its next argument.
VisitRoot ==
  /\ status = "run" /\ stack = <<>> /\ todo # <<>>
  /\ visit(Head(todo))

\* The innermost call visits its next dependency.
VisitDep ==
  /\ status = "run" /\ stack # <<>>
  /\ TopNext <= Len(WordsOf(TopDeps))
  /\ visit(TopDeps[TopNext])

\* An empty depends_on leaves a deps file without words: no line was ever
\* written to closure.tmp, and sort(1) fails on the missing file.
SortFails ==
  /\ status = "run" /\ stack # <<>>
  /\ TopDeps = <<>>
  /\ Fail("sort")

\* Mutant: the manifest names the dependencies without their hashes.
ManifestShallow(id) ==
  LET name == spec[id].name
      v    == spec[id].version
  IN  IF spec[id].kind = "external"
      THEN [package |-> name, version |-> v, prefix |-> ExternalPrefix(name, v)]
      ELSE [package |-> name, version |-> v, arch |-> Arch,
            sources |-> spec_sources(repo.recipe[name], v),
            files   |-> Hash(repo.recipe[name]),
            deps    |-> {<<spec[d].name, spec[d].version>> : d \in SeqRange(deps[id])}]

\* The canonical hash input.  The text of package.sh and the auxiliary files
\* stand for the recipe they define; the dep lines are sorted, hence a set
\* (how often a dependency is listed is part of the recipe text).
Manifest(id) ==
  LET name == spec[id].name
      v    == spec[id].version
  IN  IF spec[id].kind = "external"
      THEN [package |-> name, version |-> v, prefix |-> ExternalPrefix(name, v)]
      ELSE [package |-> name, version |-> v, arch |-> Arch,
            sources |-> spec_sources(repo.recipe[name], v),
            files   |-> Hash(repo.recipe[name]),
            deps    |-> {<<spec[d].name, spec[d].version, final[d].hash>> :
                           d \in SeqRange(deps[id])}]

\* The files a node gets when it is finished.
Finished(id) ==
  LET m == Manifest(id)
      h == Hash(m)
  IN  [manifest |-> m, hash |-> h,
       prefix |-> IF spec[id].kind = "external"
                  THEN ExternalPrefix(spec[id].name, spec[id].version)
                  ELSE <<id, h>>]

\* Mutant: the test for the end of the dependencies is off by one.
FinishNodeLate ==
  /\ status = "run" /\ stack # <<>>
  /\ TopDeps # <<>> /\ TopNext > Len(WordsOf(TopDeps)) + 1
  /\ topo' = Append(topo, Top)
  /\ final' = [i \in DOMAIN final \cup {Top} |->
                 IF i = Top THEN Finished(Top) ELSE final[i]]
  /\ Return(SubSeq(stack, 1, Len(stack) - 1), Top)
  /\ UNCHANGED <<repo, runs, request, status, spec, index, dag, past>>

\* Mutant: the new line goes to the front of topo.
FinishNodeInFront ==
  /\ status = "run" /\ stack # <<>>
  /\ TopDeps # <<>> /\ TopNext > Len(WordsOf(TopDeps))
  /\ topo' = <<Top>> \o topo
  /\ final' = [i \in DOMAIN final \cup {Top} |->
                 IF i = Top THEN Finished(Top) ELSE final[i]]
  /\ Return(SubSeq(stack, 1, Len(stack) - 1), Top)
  /\ UNCHANGED <<repo, runs, request, status, spec, index, dag, past>>

\* The rest of a call once its dependencies are visited: manifest, hash,
\* prefix, the line in topo, and the return to the caller.
FinishNode ==
  /\ status = "run" /\ stack # <<>>
  /\ TopDeps # <<>> /\ TopNext > Len(WordsOf(TopDeps))
  /\ topo' = Append(topo, Top)
  /\ final' = [i \in DOMAIN final \cup {Top} |->
                 IF i = Top THEN Finished(Top) ELSE final[i]]
  /\ Return(SubSeq(stack, 1, Len(stack) - 1), Top)
  /\ UNCHANGED <<repo, runs, request, status, spec, index, dag, past>>

\* The line of index for a node.
IndexLine(id) ==
  [name |-> spec[id].name, version |-> spec[id].version, hash |-> final[id].hash,
   kind |-> spec[id].kind, prefix |-> final[id].prefix]

\* Mutant: only the first dependency becomes a prerequisite.
Rule_first_dep(id) ==
  [stamp   |-> stamp_of(id),
   prereqs |-> {stamp_of(d) : d \in Built({deps[id][i] : i \in DOMAIN deps[id] \cap {1}})},
   path    |-> compose_path(id)]

\* The rule of dag.mk for a built node, with its direct built dependencies as
\* prerequisites and its precomposed PATH.
Rule(id) ==
  [stamp   |-> stamp_of(id),
   prereqs |-> {stamp_of(d) : d \in Built(SeqRange(deps[id]))},
   path    |-> compose_path(id)]

\* The goal `all`.
Goals == {stamp_of(id) : id \in Built(SeqRange(roots))}

\* The built nodes whose rule is still to be written.
Unruled == Built(SeqRange(topo)) \ DOMAIN dag.rules

------------------------------------------------------------------------------
(* Reference: the dependency graph the repository defines, without visit().*)

\* The node a spec stands for.
NodeOf(s) ==
  LET pick == Resolved(s)
  IN  IF pick = Unresolved THEN Unresolved
      ELSE [name |-> s.name, version |-> pick.version, kind |-> pick.kind]

NodeDeps(n) ==
  IF n = Unresolved THEN NoFile ELSE RecipeDeps(n.name, n.kind)

Succ(n) == {NodeOf(s) : s \in SeqRange(WordsOf(NodeDeps(n)))}

\* How many nodes the repository has, Unresolved included.
RepoSize ==
  1 + Len(repo.externals)
    + Cardinality(UNION {{<<n, i>> : i \in DOMAIN Declared(n)} :
                           n \in DOMAIN repo.recipe})

\* The nodes reachable from the set N, N included.
Reach(N) ==
  LET upTo[k \in 0..RepoSize] ==
        IF k = 0 THEN N
        ELSE LET closer == upTo[k - 1]
             IN  closer \cup UNION {Succ(n) : n \in closer}
  IN  upTo[RepoSize]

Requested == {NodeOf(s) : s \in SeqRange(request)}

IdOfNode(n) == IdOf(n.name, n.version)

\* Everything below a node that its build is made of: for every node of the
\* graph under it, its recipe (or the prefix of an external) and its edges.
World(n) ==
  {[node  |-> m,
    madeOf |-> IF m.kind = "external" THEN ExternalPrefix(m.name, m.version)
               ELSE repo.recipe[m.name],
    edges |-> Succ(m)] : m \in Reach({n})}

AsNode(id) == [name |-> spec[id].name, version |-> spec[id].version,
               kind |-> spec[id].kind]

------------------------------------------------------------------------------
(* The last steps of cmd_concretize: index and dag.mk.                     *)

\* emit_index truncates the file.
EmitIndex ==
  /\ status = "run" /\ stack = <<>> /\ todo = <<>>
  /\ status' = "index" /\ index' = <<>>
  /\ UNCHANGED <<repo, runs, request, todo, stack, dirs, topo, roots, dag, past>>

\* It appends one line per node, in topo order.
AppendLine ==
  /\ status = "index" /\ Len(index) < Len(topo)
  /\ index' = Append(index, IndexLine(topo[Len(index) + 1]))
  /\ UNCHANGED <<repo, runs, request, status, todo, stack, dirs, topo, roots, dag,
                 past>>

\* emit_dagmk truncates the makefile and writes its head.
EmitDagmk ==
  /\ status = "index" /\ Len(index) = Len(topo)
  /\ status' = "dag" /\ dag' = [all |-> Goals, rules |-> Nothing]
  /\ UNCHANGED <<repo, runs, request, todo, stack, dirs, topo, roots, index, past>>

\* It writes the rule of the next built node in topo order.
WriteRule ==
  /\ status = "dag"
  /\ \E i \in DOMAIN topo :
       /\ topo[i] \in Unruled /\ \A j \in 1..(i - 1) : topo[j] \notin Unruled
       /\ dag' = [dag EXCEPT !.rules = [id \in DOMAIN @ \cup {topo[i]} |->
                                         IF id = topo[i] THEN Rule(id) ELSE @[id]]]
  /\ UNCHANGED <<repo, runs, request, status, todo, stack, dirs, topo, roots, index,
                 past>>

\* The command ends.
Conclude ==
  /\ status = "dag" /\ Unruled = {}
  /\ status' = "done"
  /\ past' = past \cup {[id |-> id, hash |-> final[id].hash,
                         path |-> compose_path(id), world |-> World(AsNode(id))] :
                          id \in SeqRange(topo)}
  /\ UNCHANGED <<repo, runs, request, todo, stack, dirs, topo, roots, index, dag>>

\* The process is killed.
Interrupt ==
  /\ status \in Running
  /\ Fail(IF status = "removing" THEN "half-removed" ELSE "interrupted")

\* Recipes or externals are edited between two runs.
Edit ==
  /\ status \in {"done"} \cup Failures /\ runs < MaxRuns
  /\ repo' \in Edits[repo]
  /\ status' = IF Settled THEN "idle" ELSE "half-removed"
  /\ UNCHANGED <<runs, request, todo, stack, dirs, topo, roots, index, dag,
                 past>>

Init ==
  /\ repo \in Repos
  /\ runs = 0 /\ request = <<>> /\ status = "idle"
  /\ todo = <<>> /\ stack = <<>>
  /\ spec = Nothing /\ deps = Nothing /\ closure = Nothing /\ final = Nothing
  /\ topo = <<>> /\ roots = <<>> /\ index = NoFile /\ dag = NoFile
  /\ past = {}

Step ==
  \/ RemoveSpec \/ RemoveFiles
  \/ \E req \in Requests : Begin(req)
  \/ VisitRoot \/ VisitDep \/ SortFails \/ FinishNode
  \/ EmitIndex \/ AppendLine \/ EmitDagmk \/ WriteRule \/ Conclude

Next ==
  \/ cmd_concretize
  \/ Step
  \/ Interrupt
  \/ Edit

Spec == Init /\ [][Next]_vars

\* A running command keeps running: the shell executes its next line.
FairSpec == Spec /\ WF_vars(Step)

------------------------------------------------------------------------------
(* Properties.                                                             *)

IdsHaveDirectories ==
  /\ stack \in Seq(DOMAIN spec)
  /\ deps \in [DOMAIN spec -> Seq(DOMAIN spec)]
  /\ closure \in [DOMAIN spec -> SUBSET DOMAIN spec]
  /\ DOMAIN final \subseteq DOMAIN spec
  /\ topo \in Seq(DOMAIN spec)
  /\ roots \in Seq(DOMAIN spec)

\* The type invariant: every id that is written anywhere, as a dependency, in
\* a closure, in topo, in roots or on the stack, has a spec directory -- until a
\* later run begins to remove them.
TypeOK ==
  /\ status \in {"idle", "done"} \cup Running \cup Failures
  /\ runs \in Nat
  /\ Settled => IdsHaveDirectories

\* The next three speak of a repository that a command is about to read.
Pick(name, want) == Resolved([name |-> name, want |-> want])
Provided(name) == {line.version : line \in SeqRange(ExternalLines(name))}
Buildable(name) == SeqRange(Declared(name))
Spelt == UNION {Provided(name) \cup Buildable(name) : name \in DOMAIN repo.recipe}

\* "a bare name takes the newest candidate" (concretize.sh:21-22), and "On a
\* version tie an external wins -- never rebuild what the bootstrap already
\* provides": whatever the order of the lines in the two tables, resolve()
\* picks a candidate whenever there is one, none is newer than the one it picks,
\* and it chooses to build only when the built version is newer than every
\* external one, also when a tie is spelt differently (1.0 and 1).
BareTakesNewest ==
  status = "idle" => \A name \in DOMAIN repo.recipe :
    LET pick == Pick(name, NoVersion)
        all == Provided(name) \cup Buildable(name)
    IN  /\ pick = Unresolved <=> all = {}
        /\ \A v \in all : ~NumericallyNewer(v, pick.version)
        /\ pick # Unresolved /\ pick.kind = "built" =>
             \A v \in Provided(name) : NumericallyNewer(pick.version, v)

\* "An explicit @version must match exactly": a pin never falls back to another
\* version, not even to one that compares equal, it is satisfied whenever a line
\* spells it, and an external line beats a recipe line.
PinIsExact ==
  status = "idle" => \A name \in DOMAIN repo.recipe, want \in Spelt :
    Pick(name, want) =
      IF want \in Provided(name) THEN [version |-> want, kind |-> "external"]
      ELSE IF want \in Buildable(name) THEN [version |-> want, kind |-> "built"]
      ELSE Unresolved

\* Everything recorded below a node.
Below(id) == closure[id] \cup SeqRange(deps[id])

\* Each id once, and everything below it before it.
TopoOrdered ==
  /\ \A i, j \in DOMAIN topo : topo[i] = topo[j] => i = j
  /\ \A i \in DOMAIN topo : \A d \in Below(topo[i]) :
        \E j \in DOMAIN topo : j < i /\ topo[j] = d

\* "topo: all ids, dependencies before dependents": no id occurs twice in
\* topo, and everything in the closure of a node, not only its direct
\* dependencies, stands before it, until a later run begins to remove it.
BuildOrder == Settled => TopoOrdered

\* The closure file of a finished node lists exactly the nodes that can be
\* reached from it in the graph of the repository.
ClosureIsReachability ==
  Current =>
    \A id \in DOMAIN final :
       closure[id] = {IdOfNode(n) : n \in Reach(Succ(AsNode(id)))}

\* The outcome of the command is the right one: it fails only for a reason
\* that is there -- a reachable spec nothing matches, a cycle, an empty
\* depends_on -- and when it succeeds there is none, and topo holds exactly
\* the nodes reachable from the request.
VerdictIsRight ==
  LET reached == Reach(Requested)
      nodes   == reached \ {Unresolved}
      cyclic  == \E n \in nodes : n \in Reach(Succ(n))
      empty   == \E n \in nodes : NodeDeps(n) = <<>>
  IN  /\ status = "unresolved" => Unresolved \in reached
      /\ status = "cycle" => cyclic
      /\ status = "sort" => empty
      /\ status = "done" =>
           /\ Unresolved \notin reached /\ ~cyclic /\ ~empty
           /\ SeqRange(topo) = {IdOfNode(n) : n \in nodes}

\* "Anything changing anywhere in a package's closure changes its hash"
\* (README), and nothing else does: between two runs, with edits between
\* them, a node keeps its hash exactly when all it is made of is the same.
MerkleHash ==
  Current =>
    \A p \in past : Done(p.id) =>
       (p.hash = final[p.id].hash <=> p.world = World(AsNode(p.id)))

\* The rules of dag.mk are of nodes that the index beside it lists, as built and
\* with the hash the stamp has.
RulesIndexed ==
  \A id \in DOMAIN dag.rules : \E i \in DOMAIN index :
    /\ index[i].kind = "built"
    /\ dag.rules[id].stamp = <<IdOf(index[i].name, index[i].version), index[i].hash>>

WholeIndex == [i \in 1..Len(topo) |-> IndexLine(topo[i])]

\* "State produced under $VAR (fresh per concretization)": an index and a dag.mk
\* side by side are of one run, at every moment of every run and wherever it is
\* killed.  While it visits, and when it failed, there are none, whatever the run
\* before it left.  A makefile, be it only the beginning of one, has all of its
\* index beside it, unless it is the last file that a run removes.  A run that
\* ended has written both to the end: a line for every node, a rule for every
\* node to build.
NoStaleMakefile ==
  /\ status \in {"run", "unresolved", "cycle", "sort"} => index = NoFile /\ dag = NoFile
  /\ index # NoFile /\ dag # NoFile => RulesIndexed
  /\ Settled /\ dag # NoFile => index = WholeIndex
  /\ status = "done" => index = WholeIndex /\ Unruled = {}

\* "direct built deps as prerequisites (make supplies transitivity)": the
\* stamps make reaches from a rule through prerequisites are those of the
\* built part of the closure, and each of them has a rule.
PrereqsSupplyClosure ==
  status = "done" =>
    \A id \in DOMAIN dag.rules :
      LET After(S) == S \cup UNION {dag.rules[d].prereqs :
                        d \in {e \in DOMAIN dag.rules : dag.rules[e].stamp \in S}}
          reach[k \in 0..Len(topo)] ==
            IF k = 0 THEN dag.rules[id].prereqs ELSE After(reach[k - 1])
      IN  /\ reach[Len(topo)] = {stamp_of(c) : c \in Built(closure[id])}
          /\ \A c \in Built(closure[id]) : c \in DOMAIN dag.rules

\* "most-derived first": on a composed PATH a node comes before everything in
\* its closure, so a rebuilt tool shadows the one it was built with; every
\* member of the closure is there once.
MostDerivedFirst ==
  status = "done" =>
    \A id \in SeqRange(topo) :
      LET path == compose_path(id)
          At(c) == CHOOSE i \in DOMAIN path : path[i] = final[c].prefix
          on == {id} \cup closure[id]
      IN  /\ Len(path) = Cardinality(on)
          /\ SeqRange(path) = {final[c].prefix : c \in on}
          /\ \A b \in on : \A c \in closure[b] : At(b) < At(c)

\* The command ends on every repository, cyclic ones included.
Termination == (status \in Running) ~> (status \notin Running)

\* How far a run is from its end: the nodes of the repository without a
\* directory, then the calls in progress, then what the innermost of them, or the
\* command itself, has still to visit.
Ahead == IF stack = <<>> THEN Len(todo) ELSE Len(WordsOf(TopDeps)) - Len(deps[Top])
Distance == <<RepoSize - Cardinality(DOMAIN spec), Len(stack), Ahead>>
Nearer(d, e) ==
  \/ d[1] < e[1]
  \/ d[1] = e[1] /\ (d[2] < e[2] \/ (d[2] = e[2] /\ d[3] < e[3]))

\* Why visit() ends: whatever the graph, shared nodes and cycles included, every
\* step of a run brings it nearer to its end, and there are never more
\* directories than nodes or more lines in a deps file than words in the recipe.
RunsDown ==
  [][status' = "run" => /\ Distance' \in Nat \X Nat \X Nat
                        /\ status = "run" => Nearer(Distance', Distance)]_vars

\* "sha256 over a canonical manifest of everything that determines its build"
\* (spec.sh): nodes with the same hash are built with the same PATH.
PathDeterminedByHash ==
  status = "done" =>
    \A p \in past : Done(p.id) /\ p.hash = final[p.id].hash =>
       p.path = compose_path(p.id)
==============================================================================
