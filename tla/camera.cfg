SPECIFICATION Spec
CONSTANTS
  SS = 8
  SZDIRE = 4
  MAX_DIR = 48
  MAX_FAT12 = 6
  MAX_FAT16 = 7
  Word = 1048576
  MAX_PARTS = 2
  FullParts = {"long"}
  AlienParts = {"alien.jpg"}
  ShortNames <- MCShortNames
  Sums <- MCSums
  Jpg = {"A.jpg", "B.jpg", "x.jpg", "y.jpg", "alien.jpg"}
  Volumes <- MCVolumes
  Users = {"camera", "reader"}
  Path <- MCPath
  win_size = 12
  MaxSize = 20
  Sizes = {1, 8, 16, 17}
  MaxOps = 3
  MaxReads = 4
INVARIANTS
  TypeOK
  CameraSavesAll
  OpensNamed
  
  
PROPERTIES
  CameraAdvances
CHECK_DEADLOCK FALSE
