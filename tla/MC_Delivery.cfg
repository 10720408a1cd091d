SPECIFICATION FairSpec
CONSTANTS
  s = s
  w = w
  v = v
  k = k
  j1 = j1
  j2 = j2
  None = None
  Client = {s, w, k}
  Job = {j1}
  d1 = d1
  Drain = {d1}
  Program <- MCProgram
  Wants <- MCWants
  Losing = {s}
  MaxReturns = 1
  MaxSessions = 2
INVARIANTS
  AnswersAgree
  ToldOnce
  TargetsAreOpen
PROPERTY AttachedIsServed
CHECK_DEADLOCK FALSE
