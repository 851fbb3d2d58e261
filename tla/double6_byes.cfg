SPECIFICATION FairSpec
CONSTANTS
  N = 6
  Nobody = Nobody
  NoMatch = NoMatch
  Format = "double_elimination"
  Requests = {}
  MaxWins = 9
  Team <- MCTeam
  Match <- MCMatch
  NextMatch <- MCNextMatch
  LoserNextMatch <- MCLoserNextMatch
  Position <- MCPosition
  Round <- MCRound
  Order <- MCOrder
  Generated <- MCGenerated
INVARIANT NotStuck
PROPERTY ChampionCrowned
CHECK_DEADLOCK FALSE
