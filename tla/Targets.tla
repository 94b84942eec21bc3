------------------------------- MODULE Targets --------------------------------
(***************************************************************************)
(* The code of the two translators' tokens on one set of registers, by the *)
(* part they play: the top of the operand stack, the rest of it, the base  *)
(* of the locals, the link register.  A behaviour is a program of at most  *)
(* MaxSteps tokens on one of the targets.                                  *)
(***************************************************************************)
EXTENDS Words

CONSTANT MaxSteps

VARIABLES target, token, top, rest, base, link, mem, goes, trap, steps

A == INSTANCE Amd64 WITH rax <- top, hw <- rest, rbp <- base
B == INSTANCE Aarch64 WITH x0 <- top, st <- rest, x17 <- base, x30 <- link
StackC == INSTANCE StackMachine WITH stack <- Append(rest, top), frame <- base

target_vars == <<target, token, top, rest, base, link, mem, goes, trap, steps>>

TargetInit ==
  /\ target \in {"amd64", "aarch64"} /\ steps = 0
  /\ \/ target = "amd64" /\ A!Init /\ link = 0
     \/ target = "aarch64" /\ B!Init /\ trap = FALSE

TargetNext ==
  /\ steps < MaxSteps /\ steps' = steps + 1 /\ UNCHANGED target
  /\ \/ target = "amd64" /\ A!Next /\ UNCHANGED link
     \/ target = "aarch64" /\ B!Next /\ UNCHANGED trap

TargetSpec == TargetInit /\ [][TargetNext]_target_vars

\* The code of each token, on either target, does to the operand stack,
\* memory and frame what the language says of that token, and sends control
\* where the language says: token is part of both machines.
ImplementsStackC == StackC!Spec
==============================================================================
