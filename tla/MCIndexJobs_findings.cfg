SPECIFICATION Spec
CONSTANTS
  c1 = c1
  c2 = c2
  rebuild = rebuild
  rebuild_vec = rebuild_vec
  paths = paths
  p1 = p1
  p2 = p2
  Callers <- MCOneCaller
  JobKeys <- MCAllKeys
  PathKeys <- MCPathKeys
  Paths <- MCPaths
  Whole = Whole
  NoKey = NoKey
  NoOne = NoOne
  MaxRows = 3
  MaxCrashes = 0
  FailureModes <- MCRaises
  ForeignWriter = FALSE
CHECK_DEADLOCK FALSE
PROPERTY AcceptedIsOwed
INVARIANT NoBareRejection
INVARIANT BadJobNeverKillsApplier
PROPERTY FailedPassNotForgotten
