SPECIFICATION Spec
CONSTANTS
  t1 = t1
  t2 = t2
  s1 = s1
  s2 = s2
  e1 = e1
  e2 = e2
  e3 = e3
  k1 = k1
  k2 = k2
  Threads <- MCThreads
  Stores <- MCOneStore
  StoreOf <- MCSameStore
  Exts <- MCThreeExts
  Topics <- MCTwoTopics
  NoExt = NoExt
  NoTopic = NoTopic
  NoOne = NoOne
  MaxId = 3
  MaxWrites = 3
  Passes = TRUE
SYMMETRY OneProcess
CHECK_DEADLOCK FALSE
PROPERTY TopicsHoldSerially
