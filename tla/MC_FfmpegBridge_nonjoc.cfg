SPECIFICATION Spec
CONSTANTS
  None = None
  Modes <- Owned
  UnitBytes = 2
  Pieces = 2
  TailPieces = 1
  MaxUnits = 2
  MaxPacket = 4
  MaxStaging = 4
  Kinds <- JocAndOther
  Offsets <- OnTimeOrNone
  TimeBases <- SampleBase
  MaxPose = 0
  MaxEpoch = 0
  MaxSegment = 0
  MaxPts = 4
  MaxDecoded = 3
INVARIANTS
  NonJocDecodesNothing
CHECK_DEADLOCK FALSE
