---------------------------- MODULE CPreprocessor -----------------------------
(***************************************************************************)
(* What C says of conditional groups, definitions and included files: a    *)
(* line counts when every group around it is at the branch that was taken, *)
(* and of every group at most one branch is, the first whose condition     *)
(* holds when it is reached.                                               *)
(***************************************************************************)
EXTENDS Naturals, Sequences

CONSTANTS
  Symbols, Definitions, Conditions,
  Undefined,    \* the state of a symbol without a definition
  Value(_, _),  \* Value(c, symbols): what the condition c comes to
  MaxNesting, MaxParents

VARIABLES
  groups,   \* the open groups: whether at the branch taken, whether there
            \* was or can be no other, whether #else was met
  symbols,  \* the definitions in force
  files,    \* of each included file being read, the groups open at its start
  given     \* the last line was text, and counts

vars == <<groups, symbols, files, given>>

Live == \A k \in 1..Len(groups) : groups[k].live
Top == groups[Len(groups)]
Outer == SubSeq(groups, 1, Len(groups) - 1)

\* The groups of the file being read.
Base == IF files = <<>> THEN 0 ELSE files[Len(files)]
InGroup == Len(groups) > Base

Silent == given' = FALSE
Holds(c) == Value(c, symbols) # 0

\* #if, and #ifdef and #ifndef, whose conditions are of a special form.
If(c) ==
  /\ Len(groups) < MaxNesting
  /\ groups' = Append(groups, [live |-> Live /\ Holds(c), done |-> ~Live \/ Holds(c),
                               last |-> FALSE])
  /\ Silent /\ UNCHANGED <<symbols, files>>

Elif(c) ==
  /\ InGroup /\ ~Top.last
  /\ LET taken == ~Top.done /\ Holds(c) IN
     groups' = Append(Outer, [live |-> taken, done |-> Top.done \/ taken, last |-> FALSE])
  /\ Silent /\ UNCHANGED <<symbols, files>>

Else ==
  /\ InGroup /\ ~Top.last
  /\ groups' = Append(Outer, [live |-> ~Top.done, done |-> TRUE, last |-> TRUE])
  /\ Silent /\ UNCHANGED <<symbols, files>>

Endif ==
  /\ InGroup /\ groups' = Outer
  /\ Silent /\ UNCHANGED <<symbols, files>>

\* A symbol may be defined again as what it is.
Define(s, d) ==
  /\ Live => symbols[s] \in {Undefined, d}
  /\ symbols' = IF Live THEN [symbols EXCEPT ![s] = d] ELSE symbols
  /\ Silent /\ UNCHANGED <<groups, files>>

Undef(s) ==
  /\ symbols' = IF Live THEN [symbols EXCEPT ![s] = Undefined] ELSE symbols
  /\ Silent /\ UNCHANGED <<groups, files>>

Include ==
  /\ Len(files) < MaxParents
  /\ files' = IF Live THEN Append(files, Len(groups)) ELSE files
  /\ Silent /\ UNCHANGED <<groups, symbols>>

\* Groups end in the file they started in.
EndOfFile ==
  /\ files # <<>> /\ ~InGroup
  /\ files' = SubSeq(files, 1, Len(files) - 1)
  /\ Silent /\ UNCHANGED <<groups, symbols>>

Text == given' = Live /\ UNCHANGED <<groups, symbols, files>>

Next ==
  \/ \E c \in Conditions : If(c) \/ Elif(c)
  \/ Else \/ Endif \/ Include \/ EndOfFile \/ Text
  \/ \E s \in Symbols : Undef(s) \/ \E d \in Definitions[s] : Define(s, d)

Init ==
  /\ groups = <<>> /\ files = <<>> /\ given = FALSE
  /\ symbols = [s \in Symbols |-> Undefined]

Spec == Init /\ [][Next]_vars
==============================================================================
