SPECIFICATION FairSpec
CONSTANTS
  k1 = k1
  k2 = k2
  l1 = l1
  Keypads <- MCKeypads
  Locks <- MCLocks
  Wrap = 4
  IdleTimeout = 2
  MaxJobs = 2
  MaxResets = 1
INVARIANTS TypeOK LinkFromOneJob SetupModeReachable FlagsAgree
PROPERTIES AppliedOnce PairingApplied
