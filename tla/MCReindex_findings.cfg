SPECIFICATION Spec
CONSTANTS
  p1 = p1
  p2 = p2
  c1 = c1
  c2 = c2
  Paths <- MCPaths
  Texts <- MCTexts
  NoFile = NoFile
  FirstFiles <- MCFirstFiles
  NoPath = NoPath
  MaxFileEdits = 3
  MaxFaults = 1
  PathsPasses = TRUE
  Cites <- MCCites
  Near <- MCNear
  Withdrawn <- MCWithdrawn
  Crowded = FALSE
CHECK_DEADLOCK FALSE
PROPERTY CompletedPassReads
PROPERTY CompletedPassEmbeds
PROPERTY CompletedPassRates
PROPERTY CompletedPassPairs
PROPERTY CompletedPassCites
PROPERTY StatusKept
PROPERTY FullPassEmbeds
