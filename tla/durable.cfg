SPECIFICATION MCSpec
CONSTANTS
  L1 = L1
  L2 = L2
  None = None
  Producers = {p1}
  Txns = {t1}
  MaxRecords = 2
  MaxBatches = 3
  MaxOffset = 3
  MaxRingEpoch = 2
  MaxLeaderEpoch = 1
  MaxProducerEpoch = 0
  MaxGeneration = 2
  MaxWaiters = 0
  ReplicationFactor = 1
  MaxRestarts = 2
  MaxJournalFailures = 1
  MaxGapBatches = 3
  ProcessCrashes = TRUE
  PowerLosses = TRUE
  Lanes <- TwoLanes
  InitialRing <- TwoLaneRing
  Rings <- SwappedRings
INVARIANT AcksSurvive
INVARIANT RecoveredConsistent
INVARIANT RefusalExplained
 
CHECK_DEADLOCK FALSE
