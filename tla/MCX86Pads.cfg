CONSTANTS
  Reach = 1048576
  Function = 20000
  Target = 100001
  Blocks <- MCBlocks
  Images <- SpillImages
  Length64 <- MCLength64
  JunkLens <- Junk
  Leftovers <- Eax
  MaxCalls = 1
SPECIFICATION Spec
INVARIANTS OnlySavedOverwritten
CHECK_DEADLOCK FALSE
