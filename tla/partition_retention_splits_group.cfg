SPECIFICATION MCSpec
CONSTANTS
  L1 = L1
  L2 = L2
  None = None
  Producers = {}
  Txns = {t1}
  MaxRecords = 1
  MaxBatches = 3
  MaxOffset = 4
  MaxRingEpoch = 1
  MaxLeaderEpoch = 0
  MaxProducerEpoch = 0
  MaxGeneration = 1
  MaxWaiters = 0
  ReplicationFactor = 1
  Lanes <- TwoLanes
  InitialRing <- TwoLaneRing
  Rings <- NoRings
INVARIANT RetentionKeepsGroupsWhole
CHECK_DEADLOCK FALSE
