SPECIFICATION FairSpec
CONSTANTS
  None = None
  r0 = r0
  r1 = r1
  f0 = f0
  f1 = f1
  c0 = c0
  c1 = c1
  b0 = b0
  b1 = b1
  Modes <- AllModes
  UnitSize = 3
  PullSize = 2
  TailSize = 3
  GainSize = 1
  Rates <- TwoRates
  Profiles <- TwoProfiles
  Cores <- OneCore
  Bases <- TwoBases
  Stamps <- MCStamps
  MinPts <- MCMinPts
  MaxPts = 8
  MaxUnits = 3
  MaxEpoch = 1
INVARIANTS
  TypeOK
  NoStaleOutput
  OneUnitHeld
  TimestampsReturn
  CompleteMeansAll
PROPERTIES
  CompletionIsFinal
  DrainCompletes
CHECK_DEADLOCK FALSE
