CONSTANTS
  a1 = a1
  a2 = a2
  a3 = a3
  Archives = {a1, a2, a3}
  Checksum <- TwinChecksum
  Blocks = 1
  Uploads = {u1, u2, u3}
  Workers = {w1, w2}
  NoSession = NoSession
  KeepLast = 1
  StagingDisk = 2
  BackupDisk = 8
  SameFilesystem = TRUE
  MaxClock = 3
  MaxDamaged = 0
  MaxExpiries = 0
  MaxCrashes = 1
  MaxFailures = 1
  MaxDisturbances = 1
  MaxDeletes = 1
  Deletable = {a2}
SPECIFICATION Spec
SYMMETRY TwinSymmetry
INVARIANT RetentionHolds
INVARIANT IndexedIsStored
INVARIANT NobodyStuck
PROPERTY OnlySupersededGo
PROPERTY FinalizedIsStored
