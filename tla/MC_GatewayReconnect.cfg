SPECIFICATION Spec
CONSTANTS
  d1 = d1
  d2 = d2
  s1 = s1
  s2 = s2
  s3 = s3
  j1 = j1
  j2 = j2
  j3 = j3
  o1 = o1
  o2 = o2
  Device = {d1, d2}
  Session = {s1, s2, s3}
  DeviceOf <- MCDeviceOf
  Job = {j1, j3}
  Owner = {o1, o2}
  OwnerOf <- MCOwnerOf
  Target <- MCTarget
  Fits <- MCFits
  MaxConcurrent = 1
  DoneCap = 1
  None = None
  Poll = Poll
  PortalLinked = FALSE
  Lossy = TRUE
  Overlap = FALSE
INVARIANTS
  ServedIsListed
  OneRunner
  ActiveIsRunning
  WaitsOnce
  StoreExact
PROPERTIES
  TerminalIsStable
  StrandedByFailedSendOnly
  ImplementsLifecycle
  ImplementsLink
CHECK_DEADLOCK FALSE
