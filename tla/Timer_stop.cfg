CONSTANTS
  Timers = {t1}
  Count <- LoopCount
  None = None
  Capacity = 2
  Backlog = 2
SPECIFICATION FairSpec
PROPERTY StopIsFinal
