SPECIFICATION Spec
CONSTANTS
  Blocks = {1, 2}
  Values = {1, 2}
  Magic = {}
  Free = Free
  MaxLen = 8
  TagsPerBlock = 2
  RevokesPerBlock = 1
  Profiles <- AbortFreeOrStop
  MaxTrans = 2
  MaxCrashes = 1
  MaxErrs = 1
INVARIANTS
  TypeOK
  
  ReadsCommitted
PROPERTIES
  
  CommitReturns
CHECK_DEADLOCK FALSE
