SPECIFICATION DecodingSpec
CONSTANTS
  Absent = Absent
  MaxBlocks = 3
  SpxCodes = {1, 5}
  StandardCodes = {0, 8}
  EnhancedCodes = {0, 1}
  SpxEnd = 9
  StandardEnd = 11
  EnhancedEnd = 10
  FullEnd = 253
  Configurations = {1, 2, 3}
  Shape <- MCShape
  MaxDependents = 2
  Groups <- MCGroups
  Dialnorms = {0, 1}
  MaxUnits = 3
  MaxSequence = 2
  SequenceCounts = {0, 1, 2}
  DownmixWidths = {5, 7}
  ObjectCounts = {11, 15}
  BoundObjects = 15
  Timeslots = {1, 3}
  Coefficients = {0, 6}
  Offsets = {2}
  Profiles = {Strict, Warp3}
  Unbound = Unbound
  MaxCalls = 4
  None = None
  r0 = r0
  r1 = r1
  t0 = t0
  t1 = t1
  Latency = 2
  FrameLengths <- MCLengths
  Starts <- MCStarts
  Rates <- MCRates
  Topologies <- MCTopologies
  MaxSample = 10
  MaxFrame = 4
  MaxEpoch = 1
INVARIANTS
  DecodingTypeOK
  InheritsLatest
  HistoriesContinue
  OwnSamples
  HeldNoLonger
CHECK_DEADLOCK FALSE
