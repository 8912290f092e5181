CONSTANTS
  t1 = t1
  Threads <- OneThread
  TextLen = 12
  Reach = 1048576
  Functions <- MCFunctions
  Targets <- MCTargets
  NearBlocks <- MCBlocks
  FarBlocks <- None
  BlockSize = 4096
  Images <- MCImages
  JunkLens <- None
  CodeLens = {}
  StoreOutcomes = {TRUE}
  MaxCalls = 1
SPECIFICATION CallSpec
INVARIANTS HookHasOriginal
CHECK_DEADLOCK FALSE
