CONSTANTS
  Jobs = {j1}
  Contents = {plain, odd}
  Odd = {odd}
  Large = {}
  First = plain
  None = None
  MaxChanges = 1
  MaxActions = 0
  MaxCancels = 1
  MaxCrashes = 0
  MaxFaults = 0
SPECIFICATION Spec
INVARIANT ApprovedOnly
CHECK_DEADLOCK FALSE
