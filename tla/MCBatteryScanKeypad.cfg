SPECIFICATION Spec
CONSTANTS
  k1 = k1
  k2 = k2
  l1 = l1
  l2 = l2
  Keypads <- TwoKeypads
  Locks <- MCLocks
  Sensors <- MCSensors
  LegacyLinks = FALSE
  Interval = 2
  Retry = 1
  Soon = 1
  Wrap = 5
INVARIANTS BatteryOfLinkedKeypad
