SPECIFICATION Spec
CONSTANTS
  c = c  t1 = t1  i1 = i1
  Player = {c, p, q}
  Organiser = {o}
  Team = {t1, t2}
  Invite = {i1, i2}
  Conn = {n1, n2}
  None = None
  Founder <- FoundedFirst
  FoundedAs = {"approved"}
  Issued <- FirstForFirst
  Limit = 2
  MinMembers = 1
  MaxTeams = 1
  MaxUses = 1
  MaxVisits <- TwiceFirst
  MaxRequests = 2
  MaxMishaps = 1
INVARIANTS InviteBudget RosterOverrun EntriesReviewed
PROPERTIES ViewNeverGoesBack
SYMMETRY Symmetry
CHECK_DEADLOCK FALSE
