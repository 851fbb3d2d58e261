SPECIFICATION FairSpec
CONSTANTS
  Swiss = {2, 3, 4}
  Leagues = {2, 3}
  Sizes = {2, 3, 4, 5, 6, 7, 8, 9}
  Nobody = Nobody
  Team <- MCTeam
  Groups <- MCGroups
  Ties <- MCTies
  Request = {r1, r2}
  Viewer = {v}
  Scores <- MCScores
  SwissScores <- HomeWins
  Penalties <- MCPenalties
  MaxRounds = 3
  WinThreshold = 2
  LossThreshold = 2
  MaxMeddling <- MCMeddling
  MaxMishaps <- MCMishaps
  Faults = {"error", "redis"}
INVARIANTS TableUpToDate CalendarIsFair
PROPERTIES SwissEnds RoundFromTheTable
CHECK_DEADLOCK FALSE
