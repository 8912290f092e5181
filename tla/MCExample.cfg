CONSTANTS
  Function = 20000
  Hook = 100001
  Reach = 16384
  Bodies <- BranchBody
  Leftover <- None
  Garbage = {0, 6}
SPECIFICATION Spec
INVARIANT EntriesLead
CHECK_DEADLOCK FALSE
