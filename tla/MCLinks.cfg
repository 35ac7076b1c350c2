SPECIFICATION Spec
CONSTANTS
  k1 = k1
  k2 = k2
  l1 = l1
  Keypads <- MCKeypads
  Locks <- MCLocks
  MaxKeys = 3
  MaxCrashes = 2
INVARIANTS TypeOK ForgottenKeypadLockedOut RestIsDurable 
CHECK_DEADLOCK FALSE
