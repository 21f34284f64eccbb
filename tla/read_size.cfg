SPECIFICATION Spec
CONSTANTS
  Word = 4096
  Kilo = 8
  win_size = 24
  Numbers = {0, 1, 7, 24, 25, 63, 64, 511, 512, 4071, 4072, 4073, 4095}
INVARIANTS
  Contiguous
  FittingSizeIsRead
PROPERTIES
  LoopEnds
CHECK_DEADLOCK FALSE
