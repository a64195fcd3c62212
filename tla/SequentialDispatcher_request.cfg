\* One task, whose run gets requests for reports and interrupts at any time
SPECIFICATION HSpec
CONSTANT NumTotalRuns = 1
INVARIANT RequestNoticed
