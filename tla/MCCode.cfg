SPECIFICATION MCSpec
CHECK_DEADLOCK FALSE
CONSTANTS
  Decls <- MCDecls
  Address <- MCAddress
  Arity <- MCArity
  Result <- MCResult
  Images <- MCImages
  Trees <- MCTrees
  Units <- MCUnits
  UnitTokens <- MCUnitTokens
  Tokens <- MCTokens
  Defined <- MCDefined
INVARIANTS StackBalanced ParsesAsC ExpressionsMeanC DeclarationsMeanC
PROPERTY ImplementsC
