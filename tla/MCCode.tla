------------------------------- MODULE MCCode --------------------------------
(* The code tcc_cc writes, of statements and of expressions: two machines  *)
(* that share nothing, of which a behaviour runs one.                      *)
EXTENDS MCDeclarations

VARIABLES prog, written, place, ops, last
statement == <<prog, written, place, ops, last>>

P == INSTANCE MCStatements WITH
       Values <- 0..2, Programs <- {}, code <- written, pc <- place
S == INSTANCE Statements WITH
       Values <- 0..2, Programs <- P!OrdinaryPrograms, code <- written, pc <- place

\* No expression, and no statement.
NoExpression ==
  /\ program = <<>> /\ code = <<>> /\ pc = 0 /\ scope = <<>>
  /\ stack = <<>> /\ mem = <<>> /\ frame = Base /\ goes = M!On /\ trap = FALSE
NoStatement ==
  prog = P!leaf /\ written = <<>> /\ place = 0 /\ ops = S!Caller /\ last = S!C!Start

MCInit == ((Init \/ UnitInit) /\ NoStatement) \/ (S!Init /\ NoExpression)
MCNext ==
  \/ pc > 0 /\ Next /\ UNCHANGED statement
  \/ place > 0 /\ S!Next /\ UNCHANGED vars
MCSpec == MCInit /\ [][MCNext]_<<vars, statement>>

\* See Statements.
StackBalanced == S!StackBalanced
ImplementsC == S!ImplementsC
==============================================================================
