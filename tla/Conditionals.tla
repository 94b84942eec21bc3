----------------------------- MODULE Conditionals -----------------------------
(***************************************************************************)
(* conditional_iterator_next() of tcc_cc.c: which lines it gives to the    *)
(* parser, how it keeps track of the groups they are in with a level of    *)
(* skipping and an array of flags, and the definitions it makes on its     *)
(* way.  Every action is one directive, or a line without one.             *)
(*                                                                         *)
(* The text read is any one C allows: which directive may come next is     *)
(* kept in past_else and files.                                            *)
(***************************************************************************)
EXTENDS Naturals, Sequences

CONSTANTS
  Symbols,      \* names that are defined and asked for
  Definitions,  \* what #define may say of each: parameters and tokens
  Conditions,   \* of #if and #elif, those of #ifdef and #ifndef included
  Undefined,
  Value(_, _),  \* conditional_iterator_parse_or_expr under an environment
  MaxNesting, MaxParents

\* The sizes of _if_done and _parent_source_its; nothing checks that a level
\* is below them.
ASSUME LevelsFit == MaxNesting \in 0..39 /\ MaxParents \in 0..10

\* What environment_add_defined is given.
ASSUME DefinitionsFit ==
  \A s \in Symbols : \A d \in Definitions[s] : d = [args |-> d.args, tokens |-> d.tokens]

VARIABLES
  environment,  \* the definition of every symbol
  skip_level,   \* 0, or 1 + the groups inside the group that is skipped
  if_level,     \* groups up to there are not in a skipped one
  if_done,      \* a branch of the group was taken; not initialized
  files,        \* _parent_source_its: the groups open when a file was included
  past_else,    \* of every open group, whether its #else was met
  given         \* the last line was given to the parser

vars == <<environment, skip_level, if_level, if_done, files, past_else, given>>

Open == Len(past_else)
InGroup == Open > (IF files = <<>> THEN 0 ELSE files[Len(files)])
BeforeElse == InGroup /\ ~past_else[Open]
SamePlace == UNCHANGED <<files, past_else>>
SameLevels == UNCHANGED <<skip_level, if_level, if_done>>
Silent == given' = FALSE
Holds(c) == Value(c, environment) # 0

\* Mutant: groups in a skipped group are not counted.
If_uncounted(c) ==
  /\ Open < MaxNesting
  /\ past_else' = Append(past_else, FALSE)
  /\ IF skip_level > 0 THEN SameLevels
     ELSE /\ if_level' = if_level + 1
          /\ if_done' = [if_done EXCEPT ![if_level + 1] = Holds(c)]
          /\ skip_level' = IF Holds(c) THEN 0 ELSE 1
  /\ Silent /\ UNCHANGED <<environment, files>>

\* #if, #ifdef and #ifndef.
If(c) ==
  /\ Open < MaxNesting
  /\ past_else' = Append(past_else, FALSE)
  /\ IF skip_level > 0
     THEN skip_level' = skip_level + 1 /\ UNCHANGED <<if_level, if_done>>
     ELSE /\ if_level' = if_level + 1
          /\ if_done' = [if_done EXCEPT ![if_level + 1] = Holds(c)]
          /\ skip_level' = IF Holds(c) THEN 0 ELSE 1
  /\ Silent /\ UNCHANGED <<environment, files>>

\* #elif of a group that is skipped: another branch may be taken, unless one
\* was; of a group that is not: skip the rest.
Elif(c) ==
  /\ BeforeElse
  /\ IF skip_level = 1 /\ ~if_done[if_level] /\ Holds(c)
     THEN skip_level' = 0 /\ if_done' = [if_done EXCEPT ![if_level] = TRUE]
     ELSE skip_level' = (IF skip_level = 0 THEN 1 ELSE skip_level) /\ UNCHANGED if_done
  /\ Silent /\ SamePlace /\ UNCHANGED <<environment, if_level>>

\* Mutant: #else is taken whatever was taken before it.
Else_always ==
  /\ BeforeElse
  /\ past_else' = [past_else EXCEPT ![Open] = TRUE]
  /\ skip_level' = IF skip_level <= 1 THEN 1 - skip_level ELSE skip_level
  /\ Silent /\ UNCHANGED <<environment, if_level, if_done, files>>

\* #else of a skipped group leaves its flag as it is.
Else ==
  /\ BeforeElse
  /\ past_else' = [past_else EXCEPT ![Open] = TRUE]
  /\ skip_level' = CASE skip_level = 0 -> 1
                     [] skip_level = 1 /\ ~if_done[if_level] -> 0
                     [] OTHER -> skip_level
  /\ Silent /\ UNCHANGED <<environment, if_level, if_done, files>>

Endif ==
  /\ InGroup
  /\ past_else' = SubSeq(past_else, 1, Open - 1)
  /\ skip_level' = IF skip_level > 0 THEN skip_level - 1 ELSE 0
  /\ if_level' = IF skip_level > 1 THEN if_level ELSE if_level - 1
  /\ Silent /\ UNCHANGED <<environment, if_done, files>>

\* A definition without tokens leaves the old ones.
Define(s, d) ==
  /\ skip_level = 0 => environment[s] \in {Undefined, d}
  /\ environment' =
       IF skip_level > 0 THEN environment
       ELSE [environment EXCEPT
               ![s] = IF d.tokens = <<>> /\ @ # Undefined
                      THEN [args |-> d.args, tokens |-> @.tokens] ELSE d]
  /\ Silent /\ SameLevels /\ SamePlace

Undef(s) ==
  /\ environment' = IF skip_level > 0 THEN environment
                    ELSE [environment EXCEPT ![s] = Undefined]
  /\ Silent /\ SameLevels /\ SamePlace

\* #include "..." of a file that is there and not empty.
Include ==
  /\ Len(files) < MaxParents
  /\ files' = IF skip_level > 0 THEN files ELSE Append(files, Open)
  /\ Silent /\ SameLevels /\ UNCHANGED <<environment, past_else>>

\* include_iterator_next at the end of an included file.
EndOfFile ==
  /\ files # <<>> /\ ~InGroup
  /\ files' = SubSeq(files, 1, Len(files) - 1)
  /\ Silent /\ SameLevels /\ UNCHANGED <<environment, past_else>>

\* Tokens, and #error, which the parser reports.
Text ==
  /\ given' = (skip_level = 0)
  /\ SameLevels /\ SamePlace /\ UNCHANGED environment

Next ==
  \/ \E c \in Conditions : If(c) \/ Elif(c)
  \/ Else \/ Endif \/ Include \/ EndOfFile \/ Text
  \/ \E s \in Symbols : Undef(s) \/ \E d \in Definitions[s] : Define(s, d)

Init ==
  /\ environment = [s \in Symbols |-> Undefined]
  /\ skip_level = 0 /\ if_level = 0
  /\ if_done \in [1..MaxNesting -> BOOLEAN]
  /\ files = <<>> /\ past_else = <<>> /\ given = FALSE

Spec == Init /\ [][Next]_vars

------------------------------------------------------------------------------
\* Type invariant.  The levels count the open groups: those not skipped, and
\* those in the one that is.
TypeOK ==
  /\ DOMAIN environment = Symbols
  /\ \A s \in Symbols : environment[s] \in Definitions[s] \cup {Undefined}
  /\ if_done \in [1..MaxNesting -> BOOLEAN]
  /\ past_else \in Seq(BOOLEAN) /\ files \in Seq(0..MaxNesting)
  /\ Open <= MaxNesting /\ Len(files) <= MaxParents
  /\ skip_level \in 0..MaxNesting /\ if_level \in 0..MaxNesting
  /\ skip_level > 0 => if_level > 0
  /\ Open = if_level + (IF skip_level > 0 THEN skip_level - 1 ELSE 0)
  /\ given \in BOOLEAN

\* What the levels and flags say of the k-th open group.
Group(k) ==
  LET skipped == skip_level > 0 /\ k >= if_level IN
  [live |-> ~skipped,
   done |-> ~skipped \/ k > if_level \/ if_done[k],
   last |-> past_else[k]]

\* The lines given, the definitions made and the files included are those of
\* C, for every nesting of groups, taken and skipped ones, in files in files:
\* a level and one flag for each level say all there is to say.
C == INSTANCE CPreprocessor WITH
       groups <- [k \in 1..Open |-> Group(k)], symbols <- environment
ImplementsC == C!Spec
==============================================================================
