SPECIFICATION Spec
CONSTANTS
  Organiser = {o1}
  Small = 4
  Large = 8
  Formats = {"single_elimination", "double_elimination", "round_robin", "swiss"}
  Nobody = Nobody
  NoMatch = NoMatch
  Team <- MCTeam
  Fields <- MCFields
  ManualSeeds <- MCManualSeeds
  Qualifying <- MCQualifying
CONSTRAINT Followed
INVARIANTS EveryTeamStartsOnce ByesToTopSeeds TopSeedsApart FitToPlay EveryPairOnce
