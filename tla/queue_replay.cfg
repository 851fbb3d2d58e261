SPECIFICATION FairSpec
CONSTANTS
  Worker = {w1, w2}
  Claim = {c1}
  BatchSize = 2
  MaxRetries = 2
  MaxJobs = 2
  MaxStarts = 2
  Faults = {"error", "late", "stop", "kill", "replay"}
PROPERTY EveryJobSettles
CHECK_DEADLOCK FALSE
