SPECIFICATION MCSpec
CONSTANTS
  SweepSizes = {1, 2, 3}
  NTherms = {1, 2, 3, 4}
  NRuns = {1, 3, 5}
  DefaultSweep = 3
  Buffer = 2
  DesiredMin = 1
  DesiredMax = 1
  AcceptableMin = 1
  AcceptableMax = 2
  FracNum = 1
  FracDen = 2
  SampleSize = 2
  ControllerLists <- Combinations
  CheckFrequencies = {0, 1, 2, 3}
  MaxAddNum = 3
  MaxAddDen = 2
  CountMax = 14
  Restless = 9
  MaxIterations = 60
  Dim = 2
  TPoints <- MCPoints
  RngMax = 7
INVARIANTS
  FixedParamsBeforeLive
  LiveRunComplete
  ReversibleWalk
PROPERTY WalkEnds
CHECK_DEADLOCK FALSE
