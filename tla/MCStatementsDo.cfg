SPECIFICATION Spec
CONSTANTS
  Values = {0, 1, 2}
  Programs <- MCRestarting
PROPERTY ImplementsC
