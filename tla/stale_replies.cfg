SPECIFICATION Spec
CONSTANTS
  Partitions = {"boot", "data"}
  Files = {"f"}
  FileLen <- FileLen2
  Capacity <- Capacity2
  FdlSize = 1
  Window = 1
  StartTries = 2
  ExecTries = 2
  Menu <- StaleMenu
  FirstStage = "fdl2"
  MaxRuns = 3
  MaxErrs = 0
  MaxNaks = 0
INVARIANTS
  SuccessIsTrue
CHECK_DEADLOCK FALSE
