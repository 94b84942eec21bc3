SPECIFICATION MCSpec
CHECK_DEADLOCK FALSE
CONSTANTS
  Word <- MCWord
  Zero = 0
  One = 1
  Numbers = {0, 1, 6, 8, 15}
  Sites = {4, 5}
  Memory <- MCMemory
  Image <- MCImage
  Base = 3
  Offset = {1, 2, 3}
  MaxDepth = 2
  MaxSteps = 3
  Load <- MCLoad
  Store <- MCStore
  Low <- MCLow
  Sext <- MCSext
  Put <- MCPut
  Alu <- MCAlu
  Not <- MCNot
  Less <- MCLess
  LessS <- MCLessS
  NoQuotient <- MCNoQuotient
  FrameOf <- MCFrameOf
  WordSize = 2
  Sizes = {1, 3}
  Bytes = {98}
  Disks <- MCDisks
  Modes <- MCModes
  MaxBreak = 16
  MaxSize = 2
  Handles = {3, 4}
  Memories <- MCMemories
  Sought = {0, 1, 97}
  Counts = {0, 1, 2, 3}
PROPERTY ImplementsStackC
INVARIANTS CallsOfC HeapOfC StreamsOfC
