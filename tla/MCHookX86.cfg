CONSTANTS
  Reach = 1048576
  Function = 20000
  Target = 100001
  Blocks <- MCBlocks
  Images <- AllImages
  Length64 <- MCLength64
  JunkLens <- Junk
  Leftovers <- Eax
  MaxCalls = 2
SPECIFICATION Spec
INVARIANTS HotPatchRight
PROPERTIES EntryLast
CHECK_DEADLOCK FALSE
