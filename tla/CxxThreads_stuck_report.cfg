SPECIFICATION Spec
CONSTANTS
  NumThreads = 2
  NumTotalRuns = 2
  MaxReportCauses = 1
INVARIANT ReportWaitsForSomeone
