CONSTANTS
  Jobs = {j1, j2}
  Contents = {plain, odd, large}
  Odd = {odd}
  Large = {large}
  First = plain
  None = None
  MaxChanges = 2
  MaxActions = 1
  MaxCancels = 1
  MaxCrashes = 1
  MaxFaults = 0
SPECIFICATION Spec
INVARIANT HeldUntilSent
PROPERTY StagedIsPresent
INVARIANT LastIsStored
INVARIANT HistoryIsStored
SYMMETRY JobSymmetry
CHECK_DEADLOCK FALSE
