\* A run of four sweeps, with the error bars looked at after every other one and
\* half as many sweeps more allowed for
SPECIFICATION MCSpec
CONSTANTS
  SweepSizes = {1}
  NTherms = {1}
  NRuns = {4}
  DefaultSweep = 1
  Buffer = 2
  DesiredMin = 1
  DesiredMax = 1
  AcceptableMin = 1
  AcceptableMax = 2
  FracNum = 1
  FracDen = 2
  SampleSize = 2
  ControllerLists <- Combinations
  CheckFrequencies = {2}
  MaxAddNum = 3
  MaxAddDen = 2
  CountMax = 14
  Restless = 9
  MaxIterations = 60
  Dim = 2
  TPoints <- MCPoints
  RngMax = 7
INVARIANT ProlongedAsAsked
CHECK_DEADLOCK FALSE
