SPECIFICATION Spec
CONSTANTS
  N = 4
  Nobody = Nobody
  NoMatch = NoMatch
  Format = "double_elimination"
  Requests = {"schedule", "restart"}
  MaxWins = 9
  Team <- MCTeam
  Match <- MCMatch
  NextMatch <- MCNextMatch
  LoserNextMatch <- MCLoserNextMatch
  Position <- MCPosition
  Round <- MCRound
  Order <- MCOrder
  Generated <- MCGenerated
INVARIANTS StandingsTally EliminationDiscipline OneOpenMatch BracketSide
PROPERTY ChampionRightful
CHECK_DEADLOCK FALSE
