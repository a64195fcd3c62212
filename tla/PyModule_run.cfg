\* Calls of every kind on two workers and the master, with seeds of three
\* bits; one or two short walks, and three calls on two histograms
SPECIFICATION MCSpec
CONSTANTS
  Threads = {t1, t2}
  Master = t0
  Calls <- MCCalls
  Repeats = {1, 2}
  SeedWidth = 3
  NotFinite = NotFinite
  Figures <- MCFigures
  Cases <- MCCases
  NotScalar = NotScalar
  Handles = {h, g}
  PyParams <- MCPyParams
  Results <- MCResults
  GivenArrays <- MCGiven
  Recordable = {1, 4}
  Weights <- MCWeights
  Rooms = {1, 5}
  MaxCalls = 3
SYMMETRY Symmetry
INVARIANTS
  TasksAsAsked ErrorReachesCaller PythonUnderGil OneUserAtATime SomebodyGoesOn
  HistogramTally
  ErrorsAreBlockErrors
  VerdictSound
  AggregateIsPooled
  ReportShowsAll
  MirrorsCxx
