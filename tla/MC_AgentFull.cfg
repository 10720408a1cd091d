SPECIFICATION FairSpec
CONSTANTS
  Job = {j1, j2}
  j1 = j1
  j2 = j2
  None = None
  Relayed <- Control
  Local <- Control
  Cancels = TRUE
  Lossy = TRUE
  Faulty = TRUE
  Docker = FALSE
  MaxFlips = 2
  MaxControls = 2
INVARIANTS
  NeverOversold
  AnsweredOnce
  EvictedIsStopped
PROPERTIES
  ImplementsLink
  EveryJobComesBack
  UndisturbedReclaim
CHECK_DEADLOCK FALSE
