CONSTANTS
  NBlocks = 24
  BPG = 12
  BYTE = 4
  NEAR = 8
  SPACE_ROOT = 1
  SPACE_BLOCK = 2
  INIT_MAX_LEN = 3
  InodeGoal = 1
  BS = 2
  MAX_TRUNCATE_SIZE = 4
  Images <- MCImages
  WriteSizes = {1, 3, 8}
  ReadSizes = {20}
  Offsets = {0, 3}
  TruncateSizes = {0, 3}
  MaxOps = 2
  MaxErrs = 0
  MaxFuse = 6
SPECIFICATION Spec
CHECK_DEADLOCK FALSE
INVARIANT HolesReadZero
