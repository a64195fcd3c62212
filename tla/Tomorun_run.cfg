\* Invocations of every kind, three tasks, Ctrl+C up to three times; chains of
\* three layers, two of them with settings of their own;
\* two objects of each kind that read a file of two variables
SPECIFICATION MCSpec
CONSTANTS
  NumTotalRuns = 3
  Invocations <- AllInvocations
  MaxTicks = 6
  Pieces <- MCPieces
  Sinks <- MCSinks
  OriginSpecs <- MCOriginSpecs
  Origins <- MCOrigins
  Levels = {1, 4}
  PythonLevels = {1, 15, 30}
  MaxLayers = 3
  Contents <- MCContents
  Files = {"f", "g"}
  Vars = {"v", "w"}
  MaxOpens = 1
  MaxReads = 2
  MaxRefs = 2
INVARIANTS DataAsGiven MessagesReachTheLog RunsAsAsked LoneSignalHarmless MessagesComeThrough VariablesUsable
PROPERTIES ImplementsContract RequestsServed
