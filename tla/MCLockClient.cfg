SPECIFICATION Spec
CONSTANTS
  l1 = l1
  l2 = l2
  NoLock = NoLock
  Locks <- MCLocks
  Misjudged <- MCMisjudged
  MaxKeys = 2
  MaxCalls = 2
  MaxStray = 1
CHECK_DEADLOCK FALSE
INVARIANTS
  TypeOK
  LinkedMeansKeyHeld
  ReachesConfiguredLock
  AnswersAttributed
  RelaysInOrder
PROPERTIES
  CallsReturn
