SPECIFICATION FairSpec
CONSTANTS
  k1 = k1
  k2 = k2
  s1 = s1
  s2 = s2
  t1 = t1
  Keys = {k1, k2}
  Session = {s1, s2}
  KeyOf <- TwoMachines
  Roles <- AgentAndClient
  Tool = {t1}
  Faulty = TRUE
INVARIANT ServedIsApproved
PROPERTIES
  SettledRevocationHolds
  ApprovedGetsIn
CHECK_DEADLOCK FALSE
