SPECIFICATION FairSpec
CONSTANTS
  Rows = 2
  PickUps = 5
  FetchLimit = 1
  MaxFaults = 1
  MaxCrashes = 1
  Forgetful = TRUE
  None = None
INVARIANT PickedUpOnce
INVARIANT RowIsTrue
PROPERTY EndStays
PROPERTY EveryRowIsPickedUp
PROPERTY ResultArrives
CHECK_DEADLOCK FALSE
