SPECIFICATION Spec
CHECK_DEADLOCK FALSE
CONSTANTS
  Names = {"x"}
  Sizes = {2}
  MAX_NR_VARIABLES = 5
  MAX_NR_STATICS = 1
  MAX_NESTING = 3
  MaxId = 3
  MaxBlocks = 2
INVARIANTS TypeOK FramesDisjoint JumpsLand ReferencesResolve
PROPERTY EnclosingScopesStay
