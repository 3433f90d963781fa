SPECIFICATION Spec
CONSTANTS
  None = None
  Modes <- Owned
  UnitBytes = 2
  Pieces = 2
  TailPieces = 1
  MaxUnits = 3
  MaxPacket = 4
  MaxStaging = 4
  Kinds <- OnlyJoc
  Offsets <- OnTimeOrNone
  TimeBases <- SampleBase
  MaxPose = 0
  MaxEpoch = 0
  MaxSegment = 0
  MaxPts = 5
  MaxDecoded = 5
INVARIANTS
  UnitKeepsItsTime
CHECK_DEADLOCK FALSE
