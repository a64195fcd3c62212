\* A task of the last worker fails; nobody interrupts
SPECIFICATION Spec
CONSTANTS
  Workers = {w1}
  Master = master
  NumTotalRuns = 2
  MaxUserRequests = 0
  MaxOrders = 2
  Periodic = FALSE
  MayInterrupt = FALSE
  MayFail = TRUE
INVARIANT NeverReadsMissingResult
