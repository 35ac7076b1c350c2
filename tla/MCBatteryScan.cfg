SPECIFICATION FairSpec
CONSTANTS
  k1 = k1
  k2 = k2
  l1 = l1
  l2 = l2
  Keypads <- OneKeypad
  Locks <- MCLocks
  Sensors <- MCSensors
  LegacyLinks = TRUE
  Interval = 2
  Retry = 1
  Soon = 1
  Wrap = 5
INVARIANTS TypeOK RadioExclusive LockBatteryOfLinkedLock
PROPERTIES IntervalKept RefreshRecurs
