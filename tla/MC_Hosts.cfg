SPECIFICATION HostsSpec
CONSTANTS
  None = None
  UnitSamples = 3
  TailSamples = 2
  Splits <- TwoSplits
  MaxInput = 4
  MaxSegment = 2
  u1 = u1
  u2 = u2
  Updates <- TwoUpdates
  MaxFrames = 3
  MaxQueued = 2
  MaxPending = 5
  Chunks <- ChunkSizes
  MaxTail = 2
  MaxDue = 4
  MaxDependents = 1
  UnitBlocks = 6
  FrameKinds <- SomeFrames
  MaxStream = 5
  MaxUnitFrames = 5
  Absent = Absent
  Other = Other
  MaxRuns = 2
  MaxFailures = 3
INVARIANTS
  HostsTypeOK
  PcmKeepsItsTime
  PoisonFailsClosed
  KernelsHaveOwner
  EndMeansAll
  ReadersAgree
  NothingLost
  FailureRestores
CHECK_DEADLOCK FALSE
