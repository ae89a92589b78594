SPECIFICATION FairSpec
CONSTANTS
  c1 = c1
  c2 = c2
  rebuild = rebuild
  rebuild_vec = rebuild_vec
  paths = paths
  p1 = p1
  p2 = p2
  Callers <- MCTwoCallers
  JobKeys <- MCJobKeys
  PathKeys <- MCPathKeys
  Paths <- MCPaths
  Whole = Whole
  NoKey = NoKey
  NoOne = NoOne
  MaxRows = 2
  MaxCrashes = 1
  FailureModes <- MCRaises
  ForeignWriter = FALSE
PROPERTY QueueDrains
CHECK_DEADLOCK FALSE
