SPECIFICATION RuntimeSpec
CONSTANTS
  Threads = {h1, h2}
  RuntimeOps = {"recover", "ready", "drain", "transfer", "shutdown", "append", "append_replica", "fetch", "sync", "health"}
  SerialLifecycle = TRUE
  CatchUpRequired = TRUE
  MinimumIsr = 1
  MaxBatches = 2
  MaxEngineFailures = 1
  MaxWorldChanges = 0
CHECK_DEADLOCK FALSE
PROPERTY FailedIsTerminal
