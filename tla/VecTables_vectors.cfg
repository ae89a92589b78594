SPECIFICATION Spec
CONSTANTS
  MaxDocs = 2
  SameDim = TRUE
  MaxWrites = 3
  MaxFaults = 1
INVARIANT StampTruthful
INVARIANT VectorsFollowUndisturbed
PROPERTY SwapCoversUnchanged
PROPERTY ReconcileSettles
CHECK_DEADLOCK FALSE
