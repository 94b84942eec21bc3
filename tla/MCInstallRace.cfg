SPECIFICATION FairSpec
CONSTANTS
  m = m
  a = a
  b = b
  c = c
  t = t
  NoBootstrap = NoBootstrap
  Node <- PairNodes
  Deps <- Pair
  Roots <- PairRoots
  Bootstrap = m
  Name <- PairNames
  Distfile <- PairFile
  Prestaged <- Supplied
  Jobs = 2
  MaxFailures = 1
  MaxCrashes = 2
PROPERTIES Immutable InstallDelivers
