CONSTANTS
  Function = 20000
  Hook = 100001
  Reach = 16384
  Bodies <- MCBodies
  Leftover <- RAXandRCX
  Garbage = {0, 6}
SPECIFICATION Spec
INVARIANTS TypeOK Layout BranchesHitTable EffectKeptIfRewritable
CHECK_DEADLOCK FALSE
