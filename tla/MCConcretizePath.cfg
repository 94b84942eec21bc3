SPECIFICATION Spec
CONSTANTS
  NoVersion = NoVersion
  Unresolved = Unresolved
  NoRecipe = NoRecipe
  NoFile = NoFile
  NoSha = NoSha
  Arch = amd64
  Hash <- MCHash
  IdOf <- MCIdOf
  a = a
  b = b
  c = c
  px = px
  py = py
  s1 = s1
  aux0 = aux0
  aux1 = aux1
  Repos <- OneRepo
  Edits <- SameRepo
  Requests <- TwoOrders
  MaxRuns = 2
INVARIANTS PathDeterminedByHash
CHECK_DEADLOCK FALSE
