SPECIFICATION MCSpec
CONSTANTS
  TargetPack = 2
  GroupSizes = {2, 3}
  MaxRecord = 3
  MaxCompactions = 1
  MaxPinnedFaults = 1
  MaxPinnedCrashes = 1
  LockProcs = {1, 2}
  Depth = 2
  Present = 0
  MaxCreated = 1
  MaxMoves = 1
  Unlinked = Unlinked
  FileJobs = {j1, j2}
  JobKinds = {"replace", "publish", "mkdir", "open", "optional", "create", "read", "probe", "sync", "checked"}
  BodyBytes = 2
  MaxWriteCalls = 2
  MaxWriteBytes = 2
  MaxCalls = 12
  MaxFileFaults = 2
  NoFile = NoFile
  OwnedShards = {1, 2}
  MaxOwnedCalls = 3
  MaxOwnedFaults = 2
  Processes = {p1, p2}
  MaxIncarnation = 4
  MaxPowerCuts = 2
  Values <- Entries
  Capacity = 2
  MaxKey = 5
  MaxLen = 3
  NoValue = NoValue
  SparseKeys = {"x", "y", "z"}
  SparseValues = {1, 2}
  HashOf <- Hashes
  TierWriters = {a, b, c}
  CensusWriters = {c}
  PackExtents <- SealedPacks
  Stamps = {1, 2}
  MaxTierFaults = 1
  MaxPowerLosses = 1
  NoManifest = NoManifest
  NoWriter = NoWriter
  JournalClients = {"c1", "c2"}
  JournalEvents <- ControlEvents
  MaxFrames = 2
  MaxJournalFaults = 1
  MaxJournalLosses = 1
  TruncationFails = FALSE
CHECK_DEADLOCK FALSE
 
 
INVARIANT IncarnationsGrow
INVARIANT ReadersAgree
INVARIANT TierSafe
 
PROPERTY FilesSafe
 
PROPERTY MapImplemented
