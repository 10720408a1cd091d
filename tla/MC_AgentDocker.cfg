SPECIFICATION FairSpec
CONSTANTS
  Job = {j1}
  j1 = j1
  j2 = j2
  None = None
  Relayed <- NoControls
  Local <- NoControls
  Cancels = FALSE
  Lossy = FALSE
  Faulty = FALSE
  Docker = TRUE
  MaxFlips = 1
  MaxControls = 0
PROPERTY InstantReclaim
CHECK_DEADLOCK FALSE
