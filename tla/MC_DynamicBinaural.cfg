SPECIFICATION FairSpec
CONSTANTS
  None = None
  p0 = p0
  p1 = p1
  Poses <- MCPoses
  Identity = p0
  Taps <- MCTaps
  TransitionSamples = 3
  MaxBlock = 2
  MaxSequence = 3
  MaxIndex = 7
  MaxEpoch = 1
INVARIANTS
  TypeOK
  AudibleIdentity
  LatestWins
  OneFate
  TailCoversFilters
  PoseStartsInTime
PROPERTIES
  DrainEnds
  FadeIsContinuous
  ImplementsMailbox
CHECK_DEADLOCK FALSE
