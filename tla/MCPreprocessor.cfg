SPECIFICATION MCSpec
CONSTANTS
  Undefined = Undefined
  Symbols <- MCSymbols
  Definitions <- MCDefinitions
  Conditions <- MCConditions
  Value <- MCValue
  MaxNesting = 3
  MaxParents = 1
INVARIANTS TypeOK ConditionsMeanC ExpandsAsC CharactersOfC TokensOfC
PROPERTY ImplementsC
