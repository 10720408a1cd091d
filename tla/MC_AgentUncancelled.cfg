SPECIFICATION FairSpec
CONSTANTS
  Job = {j1}
  j1 = j1
  j2 = j2
  None = None
  Relayed <- NoControls
  Local <- NoControls
  Cancels = TRUE
  Lossy = FALSE
  Faulty = FALSE
  Docker = FALSE
  MaxFlips = 0
  MaxControls = 0
PROPERTY CancelEndsJob
CHECK_DEADLOCK FALSE
