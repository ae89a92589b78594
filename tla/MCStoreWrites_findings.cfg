SPECIFICATION Spec
CONSTANTS
  t1 = t1
  t2 = t2
  e1 = e1
  e2 = e2
  b1 = b1
  b2 = b2
  b3 = b3
  Threads <- MCTwoThreads
  Exts <- MCOneExt
  Bodies <- MCThreeBodies
  NoBody = NoBody
  NoExt = NoExt
  NoOne = NoOne
  MaxAttempts = 2
  MayRaise = TRUE
  OtherProcess = TRUE
SYMMETRY Symmetry
CHECK_DEADLOCK FALSE
INVARIANT NeverHalfApplied
INVARIANT NoStrandedTxn
PROPERTY AcknowledgedIsStored
PROPERTY NonClobber
