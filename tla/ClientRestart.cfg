CONSTANTS
  Blocks = 2
  MinChunk = 1
  MaxChunk = 1
  MaxRetryAttempts = 2
  FailureThreshold = 3
  Ids = {i1, i2, i3}
  NoId = NoId
  MaxDelayed = 0
  MaxOthers = 0
  MaxDamaged = 1
  MaxExpiries = 0
  MaxInterruptions = 0
SPECIFICATION FairSpec
PROPERTY RetryRestarts
CHECK_DEADLOCK FALSE
