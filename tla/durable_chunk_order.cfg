SPECIFICATION MCSpec
CONSTANTS
  L1 = L1
  L2 = L2
  None = None
  Producers = {}
  Txns = {t1}
  MaxRecords = 1
  MaxBatches = 2
  MaxOffset = 2
  MaxRingEpoch = 1
  MaxLeaderEpoch = 0
  MaxProducerEpoch = 0
  MaxGeneration = 1
  MaxWaiters = 0
  ReplicationFactor = 1
  MaxRestarts = 1
  MaxJournalFailures = 0
  MaxGapBatches = 3
  ProcessCrashes = FALSE
  PowerLosses = TRUE
  Lanes <- TwoLanes
  InitialRing <- TwoLaneRing
  Rings <- NoRings
INVARIANT RecoveryOpens
CHECK_DEADLOCK FALSE
