CONSTANTS
  q1 = q1
  q2 = q2
  s1 = s1
  s2 = s2
  f1 = f1
  f2 = f2
  Ids = {q1, q2}
  Snapshots = {s1, s2}
  SnapshotOf <- Named
  Files = {f1, f2}
  FilesOf <- Held
  NoOperation = NoOperation
  MaxDelayed = 1
  MaxFailures = 1
  MaxRestarts = 1
SPECIFICATION FairSpec
INVARIANT CompletedIsRestored
PROPERTY RejectedStaysRejected
PROPERTY RestoredIsExact
PROPERTY OperationEnds
CHECK_DEADLOCK FALSE
