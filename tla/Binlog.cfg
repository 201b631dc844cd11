SPECIFICATION Spec
CONSTANTS
  Key <- MCKey
  Value <- MCValue
  Threads = 2
  Promise = {p1, p2}
  Nothing = Nothing
  k1 = k1
  k2 = k2
  v1 = v1
  v2 = v2
  MaxCalls = 3
  MaxReindexes = 1
  MaxCrashes = 2
INVARIANTS
  TypeOK
  NeverAborts
  DiskHoldsTheMap
PROPERTIES
  KeepsPromises
  EveryPromiseKept
  WrittenInTheEnd
CHECK_DEADLOCK FALSE
