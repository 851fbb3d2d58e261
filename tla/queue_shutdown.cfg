SPECIFICATION FairSpec
CONSTANTS
  Worker = {w1}
  Claim = {c1, c2}
  BatchSize = 2
  MaxRetries = 2
  MaxJobs = 2
  MaxStarts = 2
  Faults = {"stop"}
PROPERTIES InterruptedJobsReturn
CHECK_DEADLOCK FALSE
