SPECIFICATION FairSpec
CONSTANTS
  p1 = p1
  p2 = p2
  c1 = c1
  c2 = c2
  Paths <- MCPaths
  Texts <- MCTexts
  NoFile = NoFile
  FirstFiles <- MCFirstFiles
  NoPath = NoPath
  MaxFileEdits = 2
  MaxFaults = 1
  PathsPasses = TRUE
  Cites <- MCCites
  Near <- MCNear
  Withdrawn <- MCWithdrawn
  Crowded = FALSE
CHECK_DEADLOCK FALSE
PROPERTY PassKeepsTheIndex
PROPERTY FullPassRepairs
PROPERTY Converges
