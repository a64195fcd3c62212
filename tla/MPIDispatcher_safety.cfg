\* Two workers and the master, with reports, interrupts and failing tasks
SPECIFICATION Spec
CONSTANTS
  Workers = {w1, w2}
  Master = master
  NumTotalRuns = 3
  MaxUserRequests = 1
  MaxOrders = 2
  Periodic = FALSE
  MayInterrupt = TRUE
  MayFail = TRUE
SYMMETRY WorkerSymmetry
INVARIANTS
  EachTaskInOnePlace
  RequestReply
  ReportAccounting
  MasterLeavesLast
