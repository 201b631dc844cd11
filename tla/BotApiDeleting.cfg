SPECIFICATION Spec
CONSTANTS
  Url = {u1}
  None = None
  NoQuery = NoQuery
  NoEntry = NoEntry
  MaxSets = 2
  MaxKills = 0
  MaxCloses = 2
CHECK_DEADLOCK FALSE
INVARIANTS
  DeletedStaysDeleted
