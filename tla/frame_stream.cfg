SPECIFICATION Spec
CONSTANTS
  Alphabet = {0, 94, 125, 126}
  MaxData = 2
  Damage = {0, 94, 125, 126, 255}
INVARIANTS
  Reassembly
  NoSilentDamage
PROPERTIES
  LoopEnds
CHECK_DEADLOCK FALSE
