SPECIFICATION Spec
CONSTANTS
  N = 4
  Nobody = Nobody
  NoMatch = NoMatch
  Format = "round_robin"
  Requests = {"score"}
  MaxWins = 9
  Team <- MCTeam
  Match <- MCMatch
  NextMatch <- MCNextMatch
  LoserNextMatch <- MCLoserNextMatch
  Position <- MCPosition
  Round <- MCRound
  Order <- MCOrder
  Generated <- MCGenerated
INVARIANT RoundRobinChampion
PROPERTY ChampionFinal
CHECK_DEADLOCK FALSE
