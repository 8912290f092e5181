CONSTANTS
  t1 = t1
  t2 = t2
  t3 = t3
  Threads <- MCThreads
  Pages <- MCPages
  Region <- MCRegion
  First <- MCFirst
  MaxCalls = 5
SPECIFICATION Spec
INVARIANTS TypeOK FaultOnlyIfSpoilt ProtectionKept RecordsMatch
CHECK_DEADLOCK FALSE
