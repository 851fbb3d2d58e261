SPECIFICATION FairSpec
CONSTANTS
  Tab = {a, b}
  Page = {"dashboard"}
  Role = "player"
  MaxTokens = 2
  MaxLogins = 1
  MaxMishaps = 1
INVARIANTS OneLivingRefresh LogoutIsFinal WaitersAreWoken
PROPERTIES SessionEndNoticed
CHECK_DEADLOCK FALSE
