SPECIFICATION Spec
CONSTANTS
  MaxDocs = 2
  SameDim = TRUE
  MaxWrites = 3
  MaxFaults = 0
CHECK_DEADLOCK FALSE
INVARIANT StoreOnlyHasNone
PROPERTY SwapCovers
PROPERTY FlippedBackEmbeds
PROPERTY ReconcileSettlesChunks
INVARIANT MetaInStep
