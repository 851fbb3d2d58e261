SPECIFICATION Spec
CONSTANTS
  Team = {a, b}
  Nobody = Nobody
  Score = {x}
  BestOf = 3
  Process = {p1, p2, p3}
  MaxSubs = 2
  MaxTries = 2
  Requests = {"start", "tick"}
SYMMETRY Interchangeable
INVARIANTS CompletedOnce SeriesEarned LocksComeBack
 
CHECK_DEADLOCK FALSE
