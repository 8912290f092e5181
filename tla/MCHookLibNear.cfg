CONSTANTS
  Reach = 1048576
  Functions <- MCFunctions
  Targets <- MCTargets
  NearBlocks <- NearThree
  FarBlocks <- None
  BlockSize = 4096
  Images <- NearImages
  JunkLens <- None
  CodeLens = {}
  StoreOutcomes = {TRUE}
  MaxCalls = 3
SPECIFICATION FairSpec
INVARIANTS TypeOK OwnTrampolines NoDangling HooksRoute StolenCodeRunsButBranches RestoresAllButRelocated OnlySavedOverwritten
PROPERTIES DetourSpec CallsReturn
CHECK_DEADLOCK FALSE
