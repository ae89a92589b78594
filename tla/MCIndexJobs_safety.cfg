SPECIFICATION Spec
CONSTANTS
  c1 = c1
  c2 = c2
  rebuild = rebuild
  rebuild_vec = rebuild_vec
  paths = paths
  p1 = p1
  p2 = p2
  Callers <- MCTwoCallers
  JobKeys <- MCJobKeys
  PathKeys <- MCPathKeys
  Paths <- MCPaths
  Whole = Whole
  NoKey = NoKey
  NoOne = NoOne
  MaxRows = 3
  MaxCrashes = 1
  FailureModes <- MCRaisesAnyhow
  ForeignWriter = TRUE
SYMMETRY Symmetry
INVARIANT OneLiveRowPerKey
INVARIANT ReplayIsTheRun
INVARIANT NoFlagOnEndedRow
PROPERTY PromiseKept
PROPERTY AcceptedIsOwedUnlessUndone
CHECK_DEADLOCK FALSE
