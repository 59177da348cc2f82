SPECIFICATION MCSpec
CONSTANTS
  Shards = {0, 1}
  PackSeqs = {0, 1, 2, 3}
  Gens = {1, 2}
  Absent = Absent
  CensusCases <- Recoveries
  Threads = {h1, h2}
  RuntimeOps = {"recover", "ready", "drain", "transfer", "shutdown", "append", "append_replica", "fetch", "sync", "health"}
  SerialLifecycle = TRUE
  CatchUpRequired = TRUE
  MinimumIsr = 1
  MaxBatches = 1
  MaxEngineFailures = 1
  MaxWorldChanges = 1
  RequestPlans <- KafkaPlans
  Conns = {1, 2}
  Topics = {"x", "y"}
  RemoteTopics = {"y"}
  WriteSlots = 1
  RegistrySlots = 1
  MaxSequence = 5
  MaxKafkaFaults = 1
  Payloads = {"a", "b"}
  Fetchers = {f1, f2}
  NoCursor = NoCursor
  MaxRetries = 1
  MaxRequests = 2
  MaxFetches = 2
  MaxEpoch = 1
  MaxLost = 1
  MaxCancels = 1
  MaxRetention = 1
  Queriers = {"a", "b"}
  BatchRecords <- OriginBatches
  MaxQueries = 2
  MaxCommands = 5
  FetchSlots = 2
  QuerySlots = 2
  MaxOriginFaults = 1
  Mutators = {"m1", "m2"}
  Observers = {"o1"}
  MaxActive = 1
  MaxRevision = 2
  MaxEffects = 2
CHECK_DEADLOCK FALSE
INVARIANT KafkaSafe
 
 
 
 
PROPERTY LineageSafe
