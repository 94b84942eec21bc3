SPECIFICATION Spec
CONSTANTS
  m = m
  a = a
  b = b
  c = c
  t = t
  NoBootstrap = NoBootstrap
  Node <- PairNodes
  Deps <- Pair
  Roots <- PairRoots
  Bootstrap = m
  Name <- PairNames
  Distfile <- PairFiles
  Prestaged <- AllThere
  Jobs = 2
  MaxFailures = 0
  MaxCrashes = 0
INVARIANTS InstalledIsWhole
