CONSTANTS
  Space = 512
  Reach = 112
  Gran = 32
  Page = 16
  Size = 30
  Base = 105
  HookSizes <- MCHookSizes
  Pages <- MCPages
  OtherPages <- MCOtherPages
SPECIFICATION FairSpec
INVARIANTS TypeOK JumpsReach NoMissedBlock
PROPERTIES NearAllocationSpec SearchEnds
