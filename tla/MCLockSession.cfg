SPECIFICATION Spec
CONSTANTS
  Slots = {"vision", "original"}
  VisionSlot = "vision"
  s1 = s1
  s2 = s2
  Seqs <- MCSeqs
  CommandTypes = {"UNKNOWN", "LOCK", "UNLOCK", "STATE_POLL"}
  KnownMethods = {"PIN"}
  OtherMethods = {"UNKNOWN"}
  ReplayWindow = 2
  MaxIvs = 3
  MaxExecuted = 4
  MaxConnections = 2
  MaxEpochs = 2
SYMMETRY MCSymmetry
CONSTRAINT FewBoundaries
INVARIANTS
  TypeOK
  GenerationsDistinct
  BoundToEpoch
  NoIvStranded
  LateActionsAdmitted
  NeverGoesBack
  ReplyUnderRequestIv
  ReplayWindowHolds
PROPERTIES
  ImplementsHandoff
