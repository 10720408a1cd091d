SPECIFICATION FairSpec
CONSTANTS
  ag1 = ag1
  ag2 = ag2
  r1 = r1
  r2 = r2
  home = home
  other = other
  None = None
  Agent = {ag1, ag2}
  Followed = {ag1}
  Row = {r1}
  Org = {home, other}
  Home <- MCHome
  GatewayOrg = home
  State = {"available", "busy"}
INVARIANT PortalAgrees
PROPERTY ClaimedOnce
PROPERTY StateArrives
PROPERTY RoutingFollows
CHECK_DEADLOCK FALSE
