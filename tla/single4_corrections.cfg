SPECIFICATION Spec
CONSTANTS
  N = 4
  Nobody = Nobody
  NoMatch = NoMatch
  Format = "single_elimination"
  Requests = {"schedule", "reseat", "reset"}
  MaxWins = 2
  Team <- MCTeam
  Match <- MCMatch
  NextMatch <- MCNextMatch
  LoserNextMatch <- MCLoserNextMatch
  Position <- MCPosition
  Round <- MCRound
  Order <- MCOrder
  Generated <- MCGenerated
INVARIANTS NoSelfMatch ResultsPropagated
 
CHECK_DEADLOCK FALSE
