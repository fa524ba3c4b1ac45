CONSTANTS
  Blocks = 3
  MinChunk = 1
  MaxChunk = 2
  MaxRetryAttempts = 2
  FailureThreshold = 3
  Ids = {i1, i2, i3}
  NoId = NoId
  MaxDelayed = 1
  MaxOthers = 1
  MaxDamaged = 1
  MaxExpiries = 1
  MaxInterruptions = 1
SPECIFICATION FairSpec
INVARIANT SuccessIsStored
INVARIANT NeverAhead
PROPERTY CallsReturn
PROPERTY DeliveredIfKept
CHECK_DEADLOCK FALSE
