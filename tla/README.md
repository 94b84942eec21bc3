# A TLA+ model of the bootstrap

The repository bootstraps a Linux distribution from a few hundred bytes of
binary.  Two pieces of it carry logic of their own: a chain of compilers
(`tcc_cc`, a small C compiler, and `stack_c`, which turns its output into
assembly for amd64 and aarch64), and `shpack`, a package manager in POSIX shell
that concretizes specs into a hashed DAG and builds it under GNU make.  This
directory models both, checks the models with TLC on small instances, and proves
the main results about them with TLAPS for every size.

A module cites the code it models; `PROJECT.json` maps every definition to the
lines it stands for.  Paths below are relative to the root of the repository.

## 1. The system

| component | code | state it keeps | operations | interacts with |
|---|---|---|---|---|
| versions and resolution | `shpack/lib/spec.sh`, `resolve` in `concretize.sh`, `repo.sh` | none; reads recipes and `etc/externals` | compare two versions, pick a version for a spec | called by the concretizer |
| concretizer | `shpack/lib/concretize.sh` | `$VAR/spec/<id>/*`, `$VAR/topo`, `$VAR/index`, `$VAR/dag.mk` | `visit`, `compose_path`, `emit_index`, `emit_dagmk`, `cmd_concretize` | writes what the installer reads; its files survive a run |
| scheduler | `cmd_install`, the rules of `dag.mk` | `$VAR/stamps`, `$VAR/logs`, the processes of make | the serial and the parallel make, start of a rule, its end, its failure | starts one `shpack build-one` per node |
| builder | `shpack/lib/builder.sh`, `recipe_load` in `repo.sh` | the store, `$VAR/recipe/<name>`, the staging directory | early return, recipe, sources, patches, phases, metadata | several run at once and share `$VAR` |
| fetching, phases | `builder.sh`, `lib/build_systems/*.sh` | `$DISTFILES`, staging directory | download, verify, unpack, configure/make/install | called by the builder; builds of one package share archives |
| queries, command line | `bin/shpack`, `env`, `find` | none | read the index | |
| `tcc_cc` preprocessor | `src/tcc_cc.c` 80-1797 | character iterators on one another (file, line splice, comment strip, include), the tokenizer, the conditional stack, the table of macros | next character, next token, directives, expansion | pulled by the parser |
| `tcc_cc` parser and types | `src/tcc_cc.c` 1798-3800 | the current token, lists of names and tags, the struct being declared | declarations, types, expressions, initializers | calls the code generator |
| `tcc_cc` statements | `src/tcc_cc.c` 3804-4130 and the operators with control in `gen_expr` | the counters of labels, `label_statement` | `parse_statement` for each kind | writes Stack C |
| `tcc_cc` expressions | `gen_expr` (`src/tcc_cc.c` 4342-4873) and initializers | none but the output | one case per operator, for a value or for an address | writes Stack C |
| `stack_c` translator | `src/stack_c_amd64.c`, `src/stack_c_aarch64.c` | names, statics, open blocks, frame position, label number | one case per token | reads Stack C, writes M1 |
| `stack_c` emitted code | the same, and `src/stack_c_intro_*.M1` | registers, operand stack, frames, memory | the instructions of each token | |
| run-time library | `src/stdlib.c`, `src/bootstrappable.c`, `src/sys_syscall.h` | heap, file buffers | C library calls | linked to the tools |
| small tools | `src/equal.c`, `src/aarch64-asm.c`, `simple-patch` | none | filters of one page | |
| kaem chain, root file system | `shpack/bootstrap/0.kaem.in`, `build.sh` | the file system | a fixed list of commands | ends in `shpack install` |

What makes each of them right, and what is hard about it:

- **Resolution** must be a total choice: the newest version, externals on ties,
  pins by spelling.  Hard: the comparison of segments as numbers or as strings.
- **The concretizer** must visit every reachable node once, in dependency order,
  refuse cycles and gaps and nothing else, and give a node a hash that changes
  exactly if something in its closure does.  Hard: a recursion that keeps its
  state in files which also survive interrupted runs and edits of recipes.
- **Scheduler and builder** must never take half a package for a package,
  whatever fails, crashes or is lost, must never touch an installed prefix again,
  and must end.  Hard: parallel processes on shared directories, crashes between
  any two steps, a store that survives `$VAR` and the other way round.
- **The characters and tokens** the parser sees must be C's.  Hard: six co-routines
  and iterators that each hold a character back, across ends of lines and files.
- **Declarations** must give names C's types, members room of their own, and globals
  C's values.  Hard: layouts that differ by name, tags completed later, lists that
  are kept newest first.
- **Expressions** must have the value and the effect C gives them, in words that are
  wider than most types.  Hard: when to cut off or extend, operands in the order of a
  stack, addresses against values.
- **The library** must do what C says of its functions.  Hard: sizes that are no
  multiple of a word, blocks that grow, the end of a file.
- **Statements** must become code that evaluates what C evaluates, in that order.
  Hard: switches, which are compiled in one pass with fall-through jumps and
  counters that are passed on from one statement to the next.
- **The translator** must give locals words of their own, send every jump to a
  label that exists once, and write every datum it refers to.  Hard: all of it
  depends on what is saved at a `{` and restored at its `}`, in any nesting.
- **The emitted code** must do on two machines what one language says.  Hard:
  instruction sequences that swap operands, use flags or parts of registers, and
  compute remainders from quotients.

The full list of places where these go wrong, with lines and the properties that
cover them, is `hazards` in `PROJECT.json`.

## 2. The modules

| module | models |
|---|---|
| `Version` | `vercmp_gt`, `str_gt`, `is_int` of `spec.sh`: a version is a sequence of segments, a segment a sequence of characters (numbers, digits first) |
| `Resolve` | `resolve`: the running best over the lines of externals, then those of the recipe |
| `Concretize` | the whole of `shpack concretize`, one action per step of `visit` between two accesses to its files, interruption, and edits between runs |
| `DagBuild` | the abstract build of a DAG: one node becomes installed, after its dependencies, for good |
| `Install` | `cmd_install`, the two makes, the rule of a node and the steps of `build-one`, loading of archives included; failures, crashes, loss of `$VAR` |
| `Words` | what both targets may assume of words: operations as constants, and the facts about them as named assumptions |
| `StackMachine` | the meaning of the tokens of Stack C: an operand stack, memory, frames, and where control goes |
| `Amd64`, `Aarch64` | the instruction sequences each translator emits, over registers, the hardware stack, frames and the flags |
| `Targets` | the code of a program's tokens, on either target: both of them over one set of registers, and `StackMachine` seen through it |
| `StackC` | the translator itself: names, statics, blocks, frame positions, labels |
| `Characters` | the file, line splice, comment strip and include iterators, each on the one before; and the characters C has after its first phases |
| `Tokens` | the tokenizer, under a parser that asks for ends of lines or does not; and C's tokens |
| `CPreprocessor` | abstract: which lines count in nested conditional groups and included files, as C has it |
| `Conditionals` | `conditional_iterator_next`: the directives, on a level, a counter and an array of flags |
| `IfExpressions` | the parser of the conditions of `#if`, which evaluates while it reads, and what a condition means |
| `Expansion` | the iterators that expand macros, and expansion as C defines it |
| `Expressions` | the types and the parser of expressions: from tokens to trees with types |
| `ExpressionCode` | `gen_expr`: the Stack C of a tree, for values and addresses, and that code run on `StackMachine` |
| `CExpressions` | C: how a tree is written, its type, what it does to memory and its value |
| `Declarations` | `parse_declaration` and what it calls: declarators, structs and unions, enums, typedefs, initializers, scopes, function bodies, and the code of `__init_globals__` and of `main`, run |
| `CDeclarations` | C: how units are written, what types names have, what is in the globals at the end |
| `CStatements` | abstract: the order in which C evaluates the leaves of a function body |
| `Statements` | `parse_statement` and the control in `gen_expr`, and the code it writes, run |
| `ByteStrings` | the functions of `stdlib.c` on memory and strings, and what C says of them |
| `Strings` | the others on memory: numbers, `qsort`, `printf` and `sscanf`; and what C says of them |
| `Library` | the heap and the streams of `stdlib.c` over system calls, beside the blocks and streams of C |
| `SmallWords` | words of eight bytes with two bits each, to compute with |
| `SourceTexts` | what the runs read |
| `MC*` | constants for TLC, function bodies and calls of the library among them, and the machines that run in one behaviour or another |
| `Lemmas` | facts about no component: stacks, induction on numbers, functions defined by recursion, what an iteration that collects successors reaches |
| `*Proofs` | theorems on the module they are named for |

How state and actions correspond to the code:

- `Concretize`: `stack` is the recursion of `visit`; a call's position in its list
  of dependencies is the number of lines it has appended to `deps`.  `spec`,
  `deps`, `closure` and `final` are the files of `$VAR/spec/<id>`, as functions
  of the id; a directory without a hash is a domain without an image in `final`,
  which is exactly how the code recognises a cycle.  A hash is the term it was
  taken of, so that two are equal only if the manifests are.  `status` says what a
  run is at.  It removes what an earlier one left directory by directory (`RemoveSpec`)
  and file by file (`RemoveFiles`), visits, appends to `index` line by line
  (`AppendLine`) and writes `dag.mk` rule by rule (`WriteRule`); it may be killed
  between any two of these.  So the model has what a kill leaves: the makefile of an
  earlier run with some or none of its spec directories, and the beginning of an index
  or of a makefile (`interrupted`, `half-removed`).  `cmd_install` runs make after a
  `cmd_concretize` that came to its end only (`set -e`).
- `Install`: `pc[n]` is where the rule of `n` stands.  What a build writes is kept
  as `made` ("none", "partial", "full", or "wrong" if patches or sources were
  skipped) and the set `meta` of files in `.shpack`.  `recipe[p]` is the shared
  directory `$VAR/recipe/<p>`, by the number of lines of its files, since the
  builder acts on whether a file is there and not empty.  `Installed` is defined
  as the code tests it: `.shpack/spec` exists.  `dist[f]` is what `$DISTFILES` has of
  an archive, which outlives everything; `work[n]` is what the build in progress was
  given (which sources it looks for, what it unpacked).
- `StackC`: `idents`, `nesting`, `pos` and `id` are the tables and counters of
  `main`; `placed`, `jumps`, `refs` record the output as far as the properties
  speak about it.  Both translators share this code; `map` names lines in either.
- `Amd64`, `Aarch64`: one action per token, with the registers the instructions
  leave.  The top of the operand stack is in a register, the rest on the hardware
  stack.  `Targets` gives the registers of either the names of the parts they play
  (`top` is `rax` or `x0`), picks a target and runs up to `MaxSteps` tokens there; the
  refinement mapping is `stack <- Append(rest, top)`, `frame <- base`.  `token`, with its
  operand, is a variable of all three machines, which the mapping leaves as it is: a step
  of a target's code is held against the meaning of the token it was written for, not
  against that of any other.
- `Conditionals`: `skip_level`, `if_level`, `if_done` are the fields of the
  iterator, `environment` the list of symbols; `past_else` and `files` keep what
  decides which directive C allows next.  The refinement mapping computes the
  nested groups of `CPreprocessor` from them.
- `Characters`: an iterator is a record with the fields of its struct, on the record
  of the one below it (`_char_iterator`); `next` of each is an operator on them, with
  the place the comment strip goes on from as a field (`_state`).  `source_it` is the
  stack of iterators on the file being read, `parents` those it was included from, `base`
  the character the include iterator gives, `left` what C still has there.  The two
  actions are `include_iterator_next` and `include_iterator_add`.
- `Tokens`: `file` is the text, `i` the place in it, `token` what `token_it` has; `meant`
  and `left` are C's token and the characters after it.  One action is one call of
  `tokenizer_next`.  The characters of an included file bring
  another file name and line with them, which the start of a line is decided by.
- `Expansion`: an iterator is a frame on a sequence of frames (`_rest_it` is what
  is below it), and each function of the code is an operator on that sequence and
  the rest of the line.
- `Statements`: the code for a tree is a function of the tree and of the globals
  passed from one statement to the next; running it is a machine with an operand
  stack whose two lowest words belong to the caller.
- `Expressions`: the parser is a function from tokens and a place to a tree and the
  place behind it (`token_it`); the operators are those of the grammar, one for each
  function of the code.
- `ExpressionCode`: `gen_expr` is `Value` and `Place`, for its parameter `as_value`.
  The behaviour starts with code, a stack and a memory, and every step is a token of
  Stack C on `StackMachine`, the machine both targets are shown to implement.
- `Declarations`: `st` is the state of the parser: `idents` and `tags` for
  `cur_ident_decls` and `cur_decls`, the newest last, `struct` for
  `cur_struct_or_union`, `inside_function`, and the code written.  What a block
  declared is forgotten by setting `idents` back, as the code sets back the pointer.
- `ByteStrings`, `Strings`: a function of the library is an operator on a sequence of
  bytes.  A loop of `ByteStrings` is a function that takes its variables through one turn,
  iterated (`After`), so that it can be proved about; those of `Strings` are recursive.
  One action calls one of them, at any addresses that C allows; in `Instead` are those
  for which the code has something else than C, with what that is.
- `Library`: `heap` and `brk` are the bytes below the break and the break, `disk` and
  `opened` what the system has; `blocks` and `streams` are C's side of it, and `answer`
  says what the last call returned and wrote to a file: what C says, or, for `fwrite` and
  `fputc`, one of the two other numbers the code is known to return.

What composes what: `Concretize` extends `Resolve`, which extends `Version`; `Install`
builds what `Concretize` emits (its `Deps` are the prerequisites that
`PrereqsSupplyClosure` speaks of) and implements `DagBuild`.  `Characters` gives what
`Tokens` reads (the two are checked apart: the texts of `Tokens` have no comments and no
joined lines, the files of `Characters` have both), that the lines of `Conditionals`, which implements `CPreprocessor` and
asks `IfExpressions` for the value of a condition under the definitions it has made;
`Expansion` takes the lines it gives.  `Declarations` extends `ExpressionCode`, which
extends `Expressions`: the parser of declarations calls that of expressions and writes
its code.  `Statements` and `ExpressionCode` write the tokens that `StackC` and
`StackMachine` read; `Statements` implements `CStatements`, and `Amd64` and `Aarch64`
both implement `StackMachine`, as `Targets` puts it, on which the code of expressions runs.

## 3. The runs

| run | asks | instance, and why it is enough | shows |
|---|---|---|---|
| `concretize_graphs` | verdict, order, closures, prerequisites, PATH, hashes | every graph over three names, two of them with any list of up to two dependencies and the third with four lists or no recipe: cycles, gaps, missing and empty lists, an external; and two runs on every pair of edited repositories.  Two dependencies give a diamond, three names a cycle of length three and a node below a node; leaking state needs two runs, the first of which may be killed at any line it removes or writes.  Before it starts, every pair of tables of up to three lines in six spellings that differ in each way segments can (numeric against lexical order, trailing zero, empty segment): is the pick the newest, with externals on ties and exact pins? | all hold, the pick for numeric versions; 2.0 million states |
| `concretize_ends` | does the recursion end, and is every step nearer to the end? | graphs in which every recipe has dependencies, so that cycles are normal | yes |
| `path_and_hash` | does a hash determine the PATH? | one repository, two orders of arguments | no: finding 1 |
| `install_diamond` | stamps, whole prefixes, complete dependencies, the abstract build | a diamond with the bootstrap make and two versions of one package, one built with the other; archives that are supplied, loaded, or left half-loaded; one failure, one crash or loss of `$VAR` at any point | all hold; 121 thousand states |
| `install_race` | what still holds if two versions of a package build side by side, and does make end? | two such nodes which take one archive, two jobs, one failure, two crashes | immutability holds, install delivers; 237 thousand states |
| `install_two_versions` | are installed prefixes whole in that case? | the same, nothing fails | no: finding 2 |
| `metadata_after_crash` | does a stamped prefix have its metadata? | the diamond and one crash | no: finding 3 |
| `runtime` | does each token's code do what the language says?  Do the functions of the library return and leave in memory what C says?  Do blocks keep their bytes, and do streams stand where C has them? | Tokens: words of four bits, every value on the stack and in memory cells of one bit; programs of up to three tokens from every start on either target.  Functions on memory and strings: every call that fits in 569 memories of a few bytes; `printf` and `sscanf` with 3057 formats and arguments.  Heap and streams: every order of calls on a heap of sixteen bytes with words of two (so that sizes need rounding, blocks grow into others, and room ends), and two streams on two files of up to two bytes | both targets implement `StackMachine`, token by token; the library does what C says, or what is named where it does not (section 5); 665 thousand states |
| `stack_c` | frames, labels, references, scopes | one name used for everything, so that it hides itself; three levels, three labels, one static | all hold |
| `preprocessor` | does the conditional iterator take the lines C takes; do conditions and lines with macros mean what C says; are the characters and tokens C's? | groups three deep (the third inside a skipped one inside another), one file included at any place, three symbols of which one is pasted from the others; seven macros with up to two parameters, `#`, `##`, parameters used twice, not at all, and handed on.  Under each of the environments that come about, 4001 conditions of up to three operators and nine lines with calls in arguments, calls that end outside the macro they began in, nested brackets, and wrong numbers of arguments.  8071 texts with comments, literals, and lines joined within either, in files that include each other at the end of a line, up to two deep; 16794 texts of tokens, before each of which the parser may or may not ask for ends of lines | all hold |
| `code` | is what is evaluated what C evaluates, with a balanced stack?  Are expressions parsed, typed and computed as in C, and what units declare laid out as in C? | 2203 function bodies: two loops in each other with every jump, conditions with short circuits, switches of two groups with fall-through, labels, gotos and inner switches; leaves have three values, so a switch can miss.  5621 expressions: every operator on operands of every type, every two operators in each other, assignments through every kind of place, members, copies of structs, calls with and without further arguments.  481 units: every way to put stars, brackets and parameters around a name, members with and without names, tags, typedefs, enums, initializers, parameters, blocks in blocks | all hold; 228 thousand states |
| `continue_in_do` | the same where a `continue` belongs to a `do` | the other bodies of the same family | no: finding 4 |

Deadlock is checked in the runs of `Install`, in `continue_in_do` and in `preprocessor`,
which end in an explicit stutter or can always be run again.  It is switched off where
the behaviour really ends: `Concretize` stops after `MaxRuns` runs, `runtime` after
`MaxSteps` tokens, after a call, and when the heap has no room left, `StackC` at the end of its input or after an error,
`code` at the end of an expression's code and of a program.

### Bounds

`MaxRuns` counts runs of concretize, `MaxFailures` steps that fail,
`MaxCrashes` crashes and losses of `$VAR`, `MaxLines` lines of the two tables,
`MaxSteps` tokens, `MaxId` labels of one function, `MaxBlocks` the nesting of
plain blocks, `MaxNesting` open conditional groups, `MaxParents` included files being
read.  The last two are assumed to be below the sizes of the code's arrays (40 flags
from 1, `tcc_cc.c` 1147, and 10 files, 363), which nothing checks.  `MaxDepth` in `Characters` is again the number of included files
being read, and in the machines of `runtime` that of words on the operand stack.  `MaxBreak`
is the end of the heap, `MaxSize` the bytes of a file, `Handles` the file
handles of the system, `WordSize` the bytes of a word, in `Library`.  `MaxBlocks` keeps the translator from a place where it
writes behind its tables (a plain block is pushed without the check the others
have, `stack_c_amd64.c` 789); `MAX_NESTING` itself is the code's.

### Fairness

- `concretize_ends`: weak fairness of the next step.  The shell runs the next
  line of a script unless it is killed; an interruption is not forced.
- `install_race`: weak fairness of the second make, of make's end, of the start of
  a rule and of each rule's steps.  A process that can go on does, and make
  starts what it may start.  Nobody has to run the command, and nothing has to
  fail or crash.  `InstallDelivers` speaks about a make after the last crash.

The other runs state safety only.

### Findings

1. `path_and_hash`.  `compose_path` (`concretize.sh` 141) orders a node's closure
   by the topo of the whole run.  Two requests that give a node the same hash can
   give it different PATHs, while `spec.sh` 11-12 says that the manifest holds
   everything that determines the build.  The difference is the order in which
   packages that do not depend on each other appear.
2. `install_two_versions`.  `recipe_load` (`repo.sh` 100) empties and rewrites
   `$VAR/recipe/<name>`.  If two versions of one package build at once, one can
   find the other's emptied file and take it for "no patches" or "no sources".
   The theorem `InstalledAreWhole` says when this cannot happen: if of two
   versions of a package one is always built with the other.  The DAG of the
   repository is of that kind.
3. `metadata_after_crash`.  `.shpack/spec` marks a prefix as installed and is
   written first of its metadata (`builder.sh` 151).  After a crash behind it the
   retry returns early, and the prefix keeps half its metadata and the retry's
   one-line log.
4. `continue_in_do`.  A `continue` in a `do` loop jumps to its start and skips the
   condition (`tcc_cc.c` 3964).

## 4. The proofs

Every theorem is of the specification with its constants left open.  They rest on
`InstallAssumption` (the dependencies of nodes are nodes, there is a job),
`SizesAreNat` (variables have sizes), the assumptions of `Words` (operations
have results of the right kind, `+ * & | ^` commute, the low part of a stored part
is what was stored, offsets fit, the orders are total, and a remainder is what
multiplication and subtraction make of the quotient), and those of `Conditionals`
(`LevelsFit`: the levels are below the sizes of the arrays; `DefinitionsFit`: a
definition consists of its parameters and its tokens), `LibraryAssumption`, and
`BytesAreNumbers` (so are bytes looked for, and counts).  TLC evaluates all of them in
the runs; those of `Words` with words of four bits.

`Concretize` assumes that tables are finite sequences of lines with versions, that
recipes and requests name what the repository has an entry for, and that a repository
is edited into another one (`RepositoriesFit`), and that the two model values are what
their names say (`UnresolvedIsNoPick`, `NoVersionIsNone`).  Its first three theorems and
`PinsAreExact` ask for no more.  The others name what else they need:

- `NumbersOnly`: the segments of all versions are numbers.  It is what makes "newer" an
  order; the code's comparison is none between numbers and words (section 5).  All
  versions in `shpack/packages` and `etc/externals.in` are of this kind.
- `IdsDiffer`: two packages or versions never make one `<name>-<version>`.  The code keeps
  a node in the directory of that name.
- `PrefixesDiffer`, `OutsideStore`: two externals have two prefixes, none of them in the
  store.  The twelve lines of `externals.in` have twelve, under `/opt`.
- `NoCollision`: equal digests are of equal texts, the usual idealisation of sha256; the
  seven characters the code keeps of it make it a stronger one.

`MCConcretize` assumes the first two and `PrefixesDiffer` of its instances (`InstanceFits`),
and its digests are the texts, so that the runs are about the same repositories.

- **`ConcretizeProofs`**: eleven theorems, from four invariants on top of one another and
  facts about a repository that hold in every state: `ComparesNumbers` and
  `NewerIsAnOrder` (between versions of numbers `vercmp_gt` is the order of their numbers,
  a strict weak one, whatever their lengths), `BestOfNumbers` (the running best over a
  table of any length is the first of the newest), `ResolveBare` and `ResolvePinned` (what
  `resolve` picks), `UniverseFits` (there are no more nodes than lines) and `ReachIs` (the
  iteration that defines `Reach` ends with the least closed set).
  1. `IInv`, for `TypeCorrect` and `TopoIsBuildOrder`.  That everything below a node is
     listed before it is not inductive: `IInv` adds that the nodes on the stack are exactly
     those with a directory and no hash (`Open`), that the nodes with a hash are those in
     topo (`Listed`), and that every closure written so far consists of finished nodes
     (`BelowDone`).  What a run that is removing leaves has none of this, so `IInv` holds of
     the runs that are past it.  `NoMakefileLeftBehind` needs where in its writing a run is:
     the index is a beginning of that of topo, rules are of nodes in topo, and a makefile is
     begun when the index is whole (its invariant says so file by file).
  2. `GInv`, what the files have to do with the repository.  A directory stands for a node
     (`Known`); its deps file has the nodes of the first words of `depends_on` (`Followed`),
     a finished one of all (`Whole`); a closure is closed, and what it has can be reached
     (`Closed`); the calls in progress are a path from the argument being visited
     (`Path`), so that a node met without a hash is below itself; the arguments are
     visited or still to do, and nothing that was not asked for is there (`Asked`).  With
     these, the reason of a failure exists (`Reason`), and `ClosuresAreReachability`,
     `VerdictsAreRight` and `MakeSuppliesTransitivity` follow.  `PinsAreExact`,
     `BareNamesTakeTheNewest` (the newest, the first of them on ties, and built only when newer
     than every external) need only that the repository is one of those assumed.
  3. `RInv`: what was written for a finished node is what would be written now, since
     nothing below it changes any more (`Recorded`).  With different prefixes, a node is
     found on a PATH in one place, and `PathsAreMostDerivedFirst` follows from topo.
  4. `Past`: every run that was completed computed, for each node, the hash of what the node
     was made of at that time (`IsWorld`).  `HashFixes` (equal hashes are of equal worlds, by
     induction along the build order) and `WorldFixes` (and the other way round) make it
     `HashesAreMerkle`, between any two of any number of runs with edits in between.
  5. `RunsEnd`, the safety half of `Termination`: however many names the repository has, and
     with cycles, every step of a run makes `Distance` smaller, lexicographically
     (`Nearer`): the nodes without a directory, then the calls in progress, then the words
     the innermost call, or the command, has still to visit.  What a step does to each comes
     from `GInv`: a call is made for a node without a directory only, and there are no more
     nodes than entries (`UniverseFits`).
- **`InstallProofs`**: `Inv` says which files a prefix has at every `pc`
  (`Scheduled`, `Logged`, `SpecWritten`) and that stamps are closed under
  dependencies (`StampsClosed`: a rule starts only when its prerequisites are
  stamped).  From it follow `StampsAreSound`, `StoreIsImmutable`, and the
  refinement of `DagBuild` (`Refinement`: the only step that installs is the first
  of `do_finalize`, of a rule whose dependencies are in the store).  `NewMakeFirst`
  says that the parallel make is the one the DAG built.  `Whole` adds
  what the shared recipe directory holds while a build is before, at or after the
  step that reads it, and what is known of the archive from its check to the unpacking
  (`ArchiveChecked`).  With `VersionsOrdered` and `ArchivesOrdered` (of two versions of
  a package, and of two nodes that take one archive, one is always built with the other)
  two of them never build at once, and `InstalledAreWhole` and `DependenciesAreReady`
  follow.
- **`TargetsProofs`**: `Implements`, for programs of any length.  Each target's `Next` is a
  step of `StackMachine` under the mapping, and of the same token, in groups (`PushSteps`,
  `UnarySteps`, `BinarySteps`, `MovingSteps`, `ControlSteps`, for `Amd64` and for
  `Aarch64`), for every word, memory and stack.  This is where the assumptions of `Words`
  are used; what the two targets do in different ways (swapped operands, conditions,
  remainders) is shown to be one thing.
- **`StackCProofs`**: the lemma `StepKinds` reduces some thirty tokens to six kinds of step
  (`Rests`, `Refers`, `Declares`, `Starts`, `Opens`, `Unwinds`).  `LocalsNeverOverlap`
  needs that every saved position lies above all locals that stay in scope and
  that saved positions and counts grow inwards (`BlocksFit`), and that globals
  are not declared in blocks (`LocalsAreInside`).  `ReferencesAlwaysResolve` needs
  that a global name cannot go out of scope (`GlobalsAreOutside`) and a static,
  which can, stays in the table (`StaticsAreNamed`).  `OuterNamesStay` is an action
  property from the same invariant.
  `JumpsAlwaysLand`, for every nesting: `Labels` says that open
  blocks have numbers of their own below the next one (`NumbersDiffer`), that what an
  open block will still place (`Pending`: an `if` may get an `else`) is not placed yet,
  that loops have their start, and that a jump goes to a label that is placed or is the
  end of an open block (`JumpsAreOwed`).  With no block left, the last is the theorem.
- **`ConditionalsProofs`**: `Refinement` of `CPreprocessor`, for every depth of
  groups and every set of symbols, conditions and their values.  The flag of a group
  that is not skipped is never read while its branch is, but decides about the
  branches after it: `Marked` says that it is set up to the `#else`.  What C keeps as
  nested groups is a sequence computed from four variables; `Opened`, `Continued`
  and `Closed` are the three ways it changes, and each directive is shown to be one
  of them.

- **`LibraryProofs`**: `HeapIsC` and `StreamsAreC`, for every word, every size asked for,
  every file and every sequence of the calls that `Library` has.  It leaves out what
  `Reading` leaves out: anything but `fgetc` on a stream at whose end one was, `fgetc` too
  when there is something to read again, and an `fgets` that reads nothing or fills its
  buffer.  The short `fread` and the `fseek` away from the end are in it: what they return and
  the position are C's, while `feof` then is not, and `StreamsOfC` says what it is; and
  that `fwrite` returns bytes and `fputc` 1.  What the two properties say of one block and one
  stream does not survive a step by itself.  `LInv` adds the room that was taken for an
  area, which is more than the program asked for (`Layout`: areas begin at words, and each
  ends before the word in front of the next), that this word has the room of its block,
  which `realloc` copies by (`SizesKept`), that every byte C specifies is the byte in the
  block (`Contents`), and that no two streams share a handle (`StreamsKept`).  A step takes
  an area behind the break, with blocks freed or not (`Behind`), or changes bytes of blocks
  and marks of streams where they are (`InPlace`); each call is shown to be one of them.
  `LibraryAssumption` is all they rest on: a word has a byte, there is a largest size, and
  bytes and handles are numbers.

- **`ByteStringsProofs`**: `CallsAreC`, for every memory, and arguments that lie in it,
  touch, or end where it ends.  A loop is followed by a set `I[k]` for each number
  of turns, of what its variables may be after them (`LoopEnds`, by the induction of
  `Lemmas`); most loops look for a place and stay there (`ScanEnds`).  On these stand a
  lemma for each function, and for C's side what a string, its end, and the order of two
  sequences are.  C is what the calls are held against where the arguments are those C
  defines and the code serves: copies are apart from their source, or `memmove` goes down,
  `strncpy` stays within the string and its 0, `strrchr` looks for another byte than 0,
  `strstr` not for the empty string in itself.  In the other cases of these four functions
  the theorem says what the code gives instead: each byte that is moved up equals the one
  as far before it as the move goes (`MovedUpIs`; where the two overlap this is what was
  moved before, and not C's), nothing is set behind the 0 (`ShorterCopied`), the 0 and
  the empty string are not found (`NoEndSeen`, `NoneInNoneIs`).  `getenv` for a name that is
  not set returns no value, and is not called.

The provers cannot instantiate the induction theorems of the library, whose parameter
is a predicate.  `Lemmas` has induction for a set of numbers instead (`NatSet`, `UpToSet`,
from the well-foundedness of `<`, which the library states without a parameter), and
with it what a recursive function on numbers is (`Recursion`).  This is how the proofs
above speak about tables, graphs and chains of any length.

Checked with TLC only:

- What is a RECURSIVE operator on texts or trees, which the prover does not read:
  `ImplementsC` and `StackBalanced` of `Statements`; `ParsesAsC`, `ExpressionsMeanC`,
  `DeclarationsMeanC`; `CharactersOfC`, `TokensOfC`, `ConditionsMeanC`, `ExpandsAsC`; and
  `CallsOfC` for numbers, `qsort`, `printf` and `sscanf`.
- `Termination` and `InstallDelivers`: liveness.  Of the first, `RunsEnd` leaves only that
  the next step is taken.

## 5. What is not modelled, and the plan

### Left out of what is modelled

The models contain what the code does; the programs, texts and calls of the runs stay
where it does what C or the documentation says.  These are the places they stay away
from, for a reader who changes the code or the runs.

**shpack.**  A run is killed between lines, not within one, and what is under
`$VAR/recipe` is not part of its state.  `VarLost` loses `$VAR` and so the stamps; that the
store is lost under a surviving stamp is not modelled, and make would take such a node for
installed.  Versions that mix numbers and words: `spec.sh` 62-68 orders them by two
rules that do not fit together (9 < 10 < 1a < 9), while `repo.sh` 31-32 speaks of the
newest; the repository has none.  Recipes that fail half-way, hooks, and `prefix_of`,
whose `die` ends a subshell only (`builder.sh` 58).  Two nodes with the same
`<name>-<version>` (`concretize.sh` 60).  A node has one archive.  An archive left
half-loaded makes every later run refuse it until somebody removes it (`builder.sh` 81:
a file that is there is not loaded again), which `InstallDelivers` counts as a failure
of what needs it.

**Statements.**  A labelled switch after a `break` (`tcc_cc.c` 4062), a switch with a
default inside another at or after its default (4088), whose code the translator would
refuse, the value of `a || b` where it is not a condition (4737), and loops without any
leaf.  The first two are in the module, not in the run.

**Characters and tokens.**  Character literals of several characters and with octal or
hexadecimal escapes after the comment strip, unterminated strings at the end of a file,
`'\1'` alone, octal escapes that start above 1, suffixes in lower case, `0X`; `&&=`,
`||=` and `..` are single tokens; a `#` behind a joined line or a comment of several
lines counts as at the start of a line.  An unknown directive is taken for the end of
the file.  `#include` in a last line without an end of line does not end (1474).  An
identifier is not held against `MAX_TOKEN_LEN`.

**Directives and macros.**  Redefinitions C refuses, `<...>` headers and files
that are not there (the code skips both lines), a macro with `()` for parameters, a
macro that names itself (the code goes on for ever where C stops), and a macro
that hands its argument on to one with `#` or `##` (the code substitutes first and
expands later, 1662, so the name is not expanded).  Lines the code
reports (missing arguments, `##` of several tokens) are compared with nothing.  A
name in `#if` means the number at the end of a chain of names, as the comment at
1207 has it, and `!` takes one operand, as the grammar at 1222 has it.

**Expressions.**  `^` binds tighter than `&`; `==` and `<` are on one level; the middle
of `?:` is no full expression.  A result is signed if either operand is, constants are
unsigned (so `1-2` and `~0` are not negative), `char` and `short` are cut off after
every operation but `<<`, `>>` is logical, and `|= &= ^= <<= >>=` do not cut off.  A
negative difference of pointers is divided as unsigned.  `(c ? p : q)->f`, unary `+`, a
cast of an `int` variable to a pointer, `sizeof 'a'`, and `||` and `&&` for their value
are not C's.  Structs are copied in whole words.

**Declarations.**  A tagged enum is given a kind that is that of a pointer (3728);
locals that are `static` with an initializer are set at every pass (4262), `static
const` locals are automatic (3551), `static` at file scope is ignored, `typedef const`
declares a variable.  Initializers that are shorter than their array or struct leave the
rest as it is; `{...}` for a union or a member without a name writes nothing (4828); an
array of `char` without a size that is given a string stays a pointer.  Parameters
declared as arrays with a size are no pointers.  Constants of an enum inside a struct or
function have no value in memory.  Tags know no blocks.  `remove_decl` looks for a
declaration in the list it is not in (2264).  `f()` and parameters that are function
pointers without a name are refused; parameters of a function pointer that is a member
take room in the struct; a prototype with `...` and no names passes every argument as a
further one.  A struct that points to itself knows its members only once.  Members of
all structs being declared share an array of 200, which nothing checks.  `long` has 32
bits, `short` no sign.  Of the structs laid out without room between members the code
knows two groups by the beginning of their name, `Elf32_` and `Elf64_` (3484); the module
knows one name of each.  What `gen_function_start` writes for `main` alone (4303-4309: the
call of `__init_globals__`, the value of `_sys_env`) is left out, and the initializers are run
before `main` instead.

**Library.**  `snprintf` writes no 0 when it cuts (`stdlib.c` 302, 440); a width cuts
wider numbers (383), and one above 40 writes before its buffer (375); `%d` of the most
negative number; `strncpy` does not fill up, `strrchr` does not find the 0 and `strstr` not
the empty string in itself (all three are in `ByteStrings`, as `Instead`); `getenv` of a
name that is not set returns no value (710); `strtoul` with base 16 and
a prefix; `memmove` only goes upwards (41, also in `Instead`); `fwrite` returns bytes for elements
(276) and `fputc` 1 for the character (281), which `StreamsOfC` names; `fputs` returns
the number of bytes, as C allows; `realloc` copies as much as there was, also
when it shrinks (253): what it then writes behind the break is there in the model, and
may be no page of the system; an error of `read` counts as an element (590), a short `fread`
is not yet the end, and `fseek` does not take the end back (575, 614); `fgets` ends
without a 0 in a full line and returns an empty one at the end (884); `sscanf` takes
`%d` without digits or signs; a failing `brk` is not noticed.

**Translator and targets.**  System calls and the text of strings; the size of the area
for frames (`stack_c_intro_amd64.M1` 97); the table of statics, whose bound is asked for
plain variables too (`stack_c_amd64.c` 697).

### Not modelled at all

- Queries and the command line: `find` and `env` print the index and change nothing.
- The kaem chain and `build.sh`: lists of commands without branches, stopped by the first
  that fails; what they build is third-party code.
- The small tools and `bootstrappable.c`: filters of a page, sequential over one stream.
- In the library, what is one system call (`open`, `unlink`, `getcwd`, ...), time and
  environment, and `setjmp` and `alloca`, which are assembly around the frame of a call.
- Generated seeds.

### What could follow

1. `Characters` put under `Tokens`, with the texts of the one read by the other: the
   state space of each is now as large as a run can be.
2. Several archives per package, and recipes that fail half-way, in `Install` and
   `Concretize`.
