SPECIFICATION RenderersSpec
CONSTANTS
  Setups <- MCSetups
  None = None
  Silence = Silence
  bed = bed
  object = object
  home = home
  near = near
  Quantum = 2
  Eps = 1
  Objects <- MCObjects
  Coordinates <- MCCoordinates
  Places <- MCPlaces
  Home = home
  Level <- MCLevel
  Scalars = {1}
  Starts = {1, 3}
  Ramps = {1, 5}
  FrameQuanta = 2
  MaxQuanta = 4
  MaxEpoch = 1
  Taps <- MCTaps
  Partition = 2
  Delays <- MCDelays
  BlockSizes <- MCBlocks
  Scenes <- MCScenes
  MaxTaken = 6
  MaxResets = 1
INVARIANTS
  RenderersTypeOK
  ControlAgrees
  RampsEndOnTime
  OneBlockLate
  EveryTapOnce
CHECK_DEADLOCK FALSE
