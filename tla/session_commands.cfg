SPECIFICATION Spec
CONSTANTS
  Partitions = {"boot", "data"}
  Files = {"f"}
  FileLen <- FileLen3
  Capacity <- Capacity3
  FdlSize = 1
  Window = 2
  StartTries = 2
  ExecTries = 2
  Menu <- CommandMenu
  FirstStage = "fdl2"
  MaxRuns = 2
  MaxErrs = 1
  MaxNaks = 1
INVARIANTS
  
  CleanReadIntegrity
  
  ClosedOnSuccess
  
PROPERTIES
  OnlyTargetWritten
  Terminates
CHECK_DEADLOCK FALSE
