SPECIFICATION Spec
CONSTANTS
  Words <- MCWords
  Chunks <- MCChunks
INVARIANTS
  Understood
  NotMistaken
  CrcIsDivision
