SPECIFICATION Spec
CONSTANTS
  Worker = {w1, w2}
  Claim = {c1, c2}
  BatchSize = 2
  MaxRetries = 2
  MaxJobs = 2
  MaxStarts = 2
  Faults = {"error", "late", "redis", "stop", "kill"}
INVARIANTS NothingVanishes OneWorkerPerJob DeadMeansOver SubmittedOnce
PROPERTIES ImplementsLedger
CHECK_DEADLOCK FALSE
