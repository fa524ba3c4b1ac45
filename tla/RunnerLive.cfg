CONSTANTS
  Jobs = {j1}
  Contents = {plain, odd, large}
  Odd = {odd}
  Large = {large}
  First = plain
  None = None
  MaxChanges = 1
  MaxActions = 2
  MaxCancels = 1
  MaxCrashes = 1
  MaxFaults = 1
SPECIFICATION FairSpec
 
PROPERTY OperationsEnd
PROPERTY BackedUp
CHECK_DEADLOCK FALSE
