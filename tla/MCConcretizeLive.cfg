SPECIFICATION FairSpec
CONSTANTS
  NoVersion = NoVersion
  Unresolved = Unresolved
  NoRecipe = NoRecipe
  NoFile = NoFile
  NoSha = NoSha
  Arch = amd64
  Hash <- MCHash
  IdOf <- MCIdOf
  a = a
  b = b
  c = c
  px = px
  py = py
  s1 = s1
  aux0 = aux0
  aux1 = aux1
  Repos <- LoopyGraphs
  Edits <- NoEdits
  Requests <- EditRequests
  MaxRuns = 1
PROPERTIES Termination RunsDown
CHECK_DEADLOCK FALSE
