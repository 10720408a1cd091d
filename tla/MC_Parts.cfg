SPECIFICATION PartsSpec
CONSTANTS
  Backends = {"subprocess", "docker"}
  k1 = k1
  Key = {k1}
  Max = 2
  Window = 3
  Horizon = 7
  DayLength = 4
  WeekLength = 3
  Schedules <- MCSchedules
  u1 = u1
  u2 = u2
  u3 = u3
  r1 = r1
  r2 = r2
  t1 = t1
  t2 = t2
  None = None
  Users = {u1, u2, u3}
  Requests = {r1, r2}
  Tokens = {t1, t2}
INVARIANTS
  CancelledIsStopped
  WindowExact
  HoursExact
PROPERTIES
  ImplementsJobRun
  CancelReturns
  LastAdminLostInARaceOnly
  InvitesOnlyAdmit
CHECK_DEADLOCK FALSE
