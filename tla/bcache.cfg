SPECIFICATION Spec
CONSTANTS
  Blocks = {1, 2}
  Values = {"x", "y"}
  Users = {"u", "w"}
  Cnts = {1, 2}
  Flags = {"flush", "tmp"}
  MaxWriteBack = 1
  WriteOutcomes = {"written", "failed"}
INVARIANTS
  TypeOK
  
  InUseIsKept
PROPERTIES
  
  CallsReturn
CHECK_DEADLOCK FALSE
