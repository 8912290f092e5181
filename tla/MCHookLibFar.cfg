CONSTANTS
  Reach = 1048576
  Functions <- MCFunctions
  Targets <- MCTargets
  NearBlocks <- OneBlock
  FarBlocks <- FarTwo
  BlockSize = 4096
  Images <- FarImages
  JunkLens <- None
  CodeLens = {14, 20}
  StoreOutcomes = {TRUE}
  MaxCalls = 3
SPECIFICATION Spec
INVARIANTS NoDangling HooksRoute
CHECK_DEADLOCK FALSE
