SPECIFICATION Spec
CONSTANTS
  Update = {1, 2, 3}
  Nothing = Nothing
  MaxId = 20
  FirstIds = {1}
  FutureSlack = 1
  MaxQueueEvents = 3
  ChatOf <- TwoChats
  MaxConn = 2
  MaxTimeout = {1}
  RetryAfter = {0, 1}
  Ttl <- ShortSecond
  OldTail = 17
  MaxNow = 2
  MaxCloses = 1
INVARIANTS TypeOK EachChatServedOnce
PROPERTIES InOrder DeliversUpdates EveryUpdateSettles
CHECK_DEADLOCK FALSE
