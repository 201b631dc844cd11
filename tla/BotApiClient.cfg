SPECIFICATION Spec
CONSTANTS
  Url = {u1, u2}
  None = None
  NoQuery = NoQuery
  NoEntry = NoEntry
  MaxSets = 3
  MaxKills = 1
  MaxCloses = 2
CHECK_DEADLOCK FALSE
INVARIANTS
  TypeOK
  ChecksHold
  OneReader
  RunningIsSaved
PROPERTIES
  ToldIsSet
  SetsAreAnswered
