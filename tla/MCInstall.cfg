SPECIFICATION Spec
CONSTANTS
  m = m
  a = a
  b = b
  c = c
  t = t
  NoBootstrap = NoBootstrap
  Node <- DiamondNodes
  Deps <- Diamond
  Roots <- DiamondRoots
  Bootstrap = m
  Name <- DiamondNames
  Distfile <- DiamondFiles
  Prestaged <- Supplied
  Jobs = 2
  MaxFailures = 1
  MaxCrashes = 1
INVARIANTS TypeOK StampMeansInstalled DepsReady InstalledIsWhole ParallelUnderNewMake
PROPERTIES ImplementsDagBuild
