SPECIFICATION MCFairSpec
CONSTANTS
  PackFrames = 2
  MaxGroup = 3
  MaxSyncBatch = 2
  MaxAppends = 3
  MaxFaults = 1
  MaxCrashes = 2
  ProcessCrashes = TRUE
  PowerLosses = TRUE
  p1 = p1
  p2 = p2
  p3 = p3
  Proposals = {p1, p2, p3}
  Input <- ProposalInput
  QueueSize = 2
  MaxOther = 1
  Requests = {r1, r2, r3}
  MaxBatch = 4
  MaxPending = 1
  MaxGap = 2
  MaxPendingBytes = 2
  BatchBytes <- ReplicaBytes
  Contents = {"a"}
  ReplicaScenarios <- Followers
  c1 = c1
  c2 = c2
  c3 = c3
  Callers = {c1, c2, c3}
  Bytes <- CallerBytes
  MaxItems = 2
  MaxBytes = 3
  Rounds = 2
  Availability = FALSE
  Nobody = nobody
CHECK_DEADLOCK FALSE
INVARIANT LaneSafe
INVARIANT ProposalSafe
INVARIANT AckedStored
INVARIANT WindowBounded
INVARIANT ReservationsSafe
 
