\* Two threads share three iterations in chunks of two; or the MPI master and
\* two workers have two tasks, with reports asked for and due
SPECIFICATION MCSpec
CONSTANTS
  NumThreads = 2
  NumTotalRuns = 3
  ChunkSize = 2
  MaxReportCauses = 0
  MPIWorkers = {w1, w2}
  MPIMaster = master
  NumMPIRuns = 2
  MaxUserRequests = 1
  MaxOrders = 2
INVARIANT Partition
PROPERTIES ImplementsContract OMPRunEnds MPIImplementsContract MPIRunEnds
