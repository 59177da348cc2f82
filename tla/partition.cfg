SPECIFICATION MCFairSpec
CONSTANTS
  L1 = L1
  L2 = L2
  None = None
  Producers = {p1}
  Txns = {t1, t2}
  MaxRecords = 2
  MaxBatches = 4
  MaxOffset = 4
  MaxRingEpoch = 2
  MaxLeaderEpoch = 1
  MaxProducerEpoch = 1
  MaxGeneration = 2
  MaxWaiters = 1
  ReplicationFactor = 2
  Lanes <- TwoLanes
  InitialRing <- TwoLaneRing
  Rings <- SwappedRings
INVARIANT AppendsConsistent
INVARIANT CachedWatermarksExact
INVARIANT GroupAllOrNothing
INVARIANT NoLostWakeup
PROPERTY StableHistoryFinal
PROPERTY WaitersAnswered
CHECK_DEADLOCK FALSE
