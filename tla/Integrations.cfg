CONSTANTS
  Ids = {d1, d2, d3}
  Keys = {k1, k2}
  NoKey = NoKey
  Broken = Broken
  NoFile = NoFile
  MaxDestinations = 2
  QueueSize = 2
  MaxEvents = 3
  MaxCalls = 3
  MaxStops = 1
  MaxEdits = 1
  MaxFailures = 1
SPECIFICATION Spec
SYMMETRY Symmetry
INVARIANT InOrder
INVARIANT VaultOpens
CHECK_DEADLOCK FALSE
