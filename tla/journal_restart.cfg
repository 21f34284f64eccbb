SPECIFICATION Spec
CONSTANTS
  Blocks = {1, 2}
  Values = {1, 2}
  Magic = {}
  Free = Free
  MaxLen = 7
  TagsPerBlock = 2
  RevokesPerBlock = 1
  Profiles <- StopAndRestart
  MaxTrans = 3
  MaxCrashes = 1
  MaxErrs = 0
INVARIANTS
  Durable
CHECK_DEADLOCK FALSE
