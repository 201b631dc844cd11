SPECIFICATION Spec
CONSTANTS
  Update = {1, 2, 3}
  Nothing = Nothing
  MaxId = 20
  FirstIds = {1}
  FutureSlack = 1
  MaxQueueEvents = 2
  Ttl = {1, 2}
  OldTail = 18
  Limit = {1}
  MaxNow = 4
  MaxUnwritten = 2
  MaxKills = 1
INVARIANTS TypeOK LogHoldsTheQueue FreshIds
PROPERTIES DeliversUpdates NothingStays
CHECK_DEADLOCK FALSE
