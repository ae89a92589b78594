SPECIFICATION Spec
CONSTANTS
  Threads <- MCOneThread
  Exts <- MCTwoExts
  Bodies <- MCTwoBodies
  Topics <- MCOneTopic
  Owners <- MCOwners
  TopicOf <- MCSameTopic
  FirstBody = b1
  NoBody = NoBody
  NoExt = NoExt
  TombCap = 1
  VersionCap = 1
  ArchiveAfter = 0
  PendingAfter = 0
  Grace = 0
  StaleAge = 0
  SweepBatch = 1
  MaxTime = 3
  MaxCalls = 3
  t1 = t1
  t2 = t2
  e1 = e1
  e2 = e2
  b1 = b1
  b2 = b2
  p1 = p1
  p2 = p2
SYMMETRY Symmetry
CHECK_DEADLOCK FALSE
PROPERTY ParkedIsKept
PROPERTY WrittenOrImportedIsNotEvicted
PROPERTY QueuedAfterItsTime
PROPERTY OwnersKept
