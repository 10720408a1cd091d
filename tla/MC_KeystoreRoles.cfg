SPECIFICATION Spec
CONSTANTS
  k1 = k1
  k2 = k2
  s1 = s1
  s2 = s2
  t1 = t1
  Keys = {k1, k2}
  Session = {s1, s2}
  KeyOf <- OneMachine
  Roles <- AgentAndClient
  Tool = {t1}
  Faulty = FALSE
INVARIANT RequestersAreVouched
CHECK_DEADLOCK FALSE
