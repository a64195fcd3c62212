\* An interrupt on the master, and one worker
SPECIFICATION RunSpec
CONSTANTS
  Workers = {w1}
  Master = master
  NumTotalRuns = 2
  MaxUserRequests = 0
  MaxOrders = 2
  Periodic = FALSE
  MayInterrupt = TRUE
  MayFail = FALSE
PROPERTY InterruptEndsRun
