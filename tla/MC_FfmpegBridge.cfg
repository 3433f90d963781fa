SPECIFICATION FairSpec
CONSTANTS
  None = None
  Modes <- BothModes
  UnitBytes = 2
  Pieces = 2
  TailPieces = 1
  MaxUnits = 2
  MaxPacket = 3
  MaxStaging = 3
  Kinds <- AllKinds
  Offsets <- OneLate
  TimeBases <- MixedBases
  MaxPose = 2
  MaxEpoch = 1
  MaxSegment = 2
  MaxPts = 4
  MaxDecoded = 3
INVARIANTS
  TypeOK
  UnitsInOrder
  StampsHonoured
  PoseKept
  EofMeansAll
PROPERTIES
  DrainEnds
CHECK_DEADLOCK FALSE
