SPECIFICATION Spec
CONSTANTS
  None = None
  r0 = r0
  r1 = r1
  f0 = f0
  f1 = f1
  c0 = c0
  c1 = c1
  b0 = b0
  b1 = b1
  Modes <- OneMode
  UnitSize = 3
  PullSize = 2
  TailSize = 0
  GainSize = 1
  Rates <- OneRate
  Profiles <- OneProfile
  Cores <- OneCore
  Bases <- OneBase
  Stamps <- NoStamps
  MinPts <- MCMinPts
  MaxPts = 8
  MaxUnits = 2
  MaxEpoch = 1
PROPERTIES
  EmptyDrains
CHECK_DEADLOCK FALSE
