SPECIFICATION Spec
CONSTANTS
  Url = {u1}
  None = None
  NoQuery = NoQuery
  NoEntry = NoEntry
  MaxSets = 1
  MaxKills = 0
  MaxCloses = 1
CHECK_DEADLOCK FALSE
INVARIANTS
  CopyIsAwaited
