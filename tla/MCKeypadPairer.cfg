SPECIFICATION Spec
CONSTANTS
  IvTries = 2
  MaxJobs = 2
CHECK_DEADLOCK FALSE
INVARIANTS
  TypeOK
  PairedMeansKeyWritten
  OneFrameAtATime
