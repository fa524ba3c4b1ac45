CONSTANTS
  a1 = a1
  a2 = a2
  a3 = a3
  Archives = {a1}
  Checksum <- SoloChecksum
  Blocks = 2
  Uploads = {u1, u2}
  Workers = {w1, w2}
  NoSession = NoSession
  KeepLast = 1
  StagingDisk = 2
  BackupDisk = 8
  SameFilesystem = FALSE
  MaxClock = 4
  MaxDamaged = 1
  MaxExpiries = 1
  MaxCrashes = 1
  MaxFailures = 1
  MaxDisturbances = 2
  MaxDeletes = 1
  Deletable = {a1}
SPECIFICATION Spec
SYMMETRY Symmetry
INVARIANT StoredIsDeclared
INVARIANT StagedInOrder
PROPERTY ImplementsStore
