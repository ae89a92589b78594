SPECIFICATION Spec
CONSTANTS
  Calls = {1, 2, 3}
  RecallWorkers = 2
  HeavyWorkers = 1
  BootWait = 1
  ToolWait = 2
  SaturationSec = 2
  StaticRecall = TRUE
  Kinds = {"boot", "write", "capture"}
  Hangs = {"no", "connection"}
  Readers = {1}
  MaxFrames = 3
  WarnFrames = 1
  Rows = {1, 2, 3, 4}
  BadRows = {4}
  QueueMax = 2
  BatchMax = 2
  Files = {f1, f2}
  Timers = {t1, t2}
  Main = main
  MaxEdits = 3
  MayFail = FALSE
INVARIANT BootNeverQueues
INVARIANT WritesSpareRecall
INVARIANT LoopNeverBlocks
INVARIANT WritesSpared
INVARIANT WriterSurvives
INVARIANT EveryEditIsSeen
INVARIANT StoppedIsFlushed
PROPERTY HeavyWedgeHeals
PROPERTY ToolsReleaseTheLock
CHECK_DEADLOCK FALSE
