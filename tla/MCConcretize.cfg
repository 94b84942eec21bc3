SPECIFICATION Spec
CONSTANTS
  NoVersion = NoVersion
  Unresolved = Unresolved
  NoRecipe = NoRecipe
  NoFile = NoFile
  NoSha = NoSha
  Arch = amd64
  Hash <- MCHash
  IdOf <- MCIdOf
  a = a
  b = b
  c = c
  px = px
  py = py
  s1 = s1
  aux0 = aux0
  aux1 = aux1
  Repos <- GraphsAndEdits
  Edits <- GraphEdits
  Requests <- GraphRequests
  MaxRuns = 2
INVARIANTS TypeOK BuildOrder ClosureIsReachability VerdictIsRight PrereqsSupplyClosure MostDerivedFirst MerkleHash NoStaleMakefile BareTakesNewest PinIsExact
CHECK_DEADLOCK FALSE
