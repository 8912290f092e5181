CONSTANTS
  Reach = 1048576
  Functions <- OneFunction
  Targets <- OneTarget
  NearBlocks <- None
  FarBlocks <- FarTwo
  BlockSize = 4096
  Images <- SpillImages
  JunkLens <- None
  CodeLens = {15}
  StoreOutcomes = {TRUE}
  MaxCalls = 1
SPECIFICATION Spec
INVARIANTS HooksRoute
CHECK_DEADLOCK FALSE
