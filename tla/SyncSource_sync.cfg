SPECIFICATION FairSpec
CONSTANTS
  Paths = {p1, p2}
  SyncBatch = 1
  SafetyPercent = 50
  OtherProcess = TRUE
  MaxEdits = 2
  MaxFaults = 1
CHECK_DEADLOCK FALSE
PROPERTY JobsKeepTheDocs
PROPERTY SyncSettles
