SPECIFICATION FairSpec
CONSTANTS
  Paths = {p1, p2, p3}
  SyncBatch = 1
  SafetyPercent = 50
  OtherProcess = TRUE
  MaxEdits = 2
  MaxFaults = 0
CHECK_DEADLOCK FALSE
PROPERTY SyncCovers
PROPERTY DeletedAfterGrace
PROPERTY GcSparesIndexed
PROPERTY PendingResolves
