\* Two threads, two tasks, with a request, the timer, interrupts, exceptions
SPECIFICATION FairSpec
CONSTANTS
  NumThreads = 2
  NumTotalRuns = 2
  MaxReportCauses = 1
INVARIANTS
  TaskOwnership
  CompletedAccounting
  MasterLeavesLast
  ReportCountsSound
PROPERTIES
  ImplementsContract
  RunEnds
  InterruptStops
  ReportCompletes
