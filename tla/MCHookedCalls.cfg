CONSTANTS
  t1 = t1
  Threads <- OneThread
  TextLen = 12
  Reach = 1048576
  Functions <- MCFunctions
  Targets <- MCTargets
  NearBlocks <- MCBlocks
  FarBlocks <- None
  BlockSize = 4096
  Images <- MCImages
  JunkLens <- None
  CodeLens = {}
  StoreOutcomes = {TRUE}
  MaxCalls = 3
SPECIFICATION CallSpec
INVARIANTS CallTypeOK LostOnlyInWindow HookRuns
PROPERTIES CallsEnd
CHECK_DEADLOCK FALSE
