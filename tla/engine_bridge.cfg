SPECIFICATION FairSpec
CONSTANTS
  MaxCalls = 2
  MaxProcs = 3
  MaxOps = 1
  MaxFaults = 2
  Restarts = TRUE
  Streaming = {2}
CHECK_DEADLOCK FALSE
INVARIANTS OwnReply DeathIsTold NoOrphan
PROPERTIES NoCallHangs
