SPECIFICATION LaneSpec
CONSTANTS
  PackFrames = 1
  MaxGroup = 2
  MaxSyncBatch = 2
  MaxAppends = 3
  MaxFaults = 0
  MaxCrashes = 2
  ProcessCrashes = TRUE
  PowerLosses = TRUE
CHECK_DEADLOCK FALSE
INVARIANT AckedKept
