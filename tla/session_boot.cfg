SPECIFICATION Spec
CONSTANTS
  Partitions = {"data"}
  Files = {"f"}
  FileLen <- FileLen2
  Capacity <- Capacity2
  FdlSize = 2
  Window = 1
  StartTries = 2
  ExecTries = 2
  Menu <- DemoMenu
  FirstStage = "bootrom"
  MaxRuns = 1
  MaxErrs = 1
  MaxNaks = 1
INVARIANTS
  TypeOK
  BootIntegrity
PROPERTIES
  DemoResets
CHECK_DEADLOCK FALSE
