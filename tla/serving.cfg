SPECIFICATION MCFairSpec
CONSTANTS
  FetchCases <- Readings
  MaxFetchFaults = 1
  MaxCollections = 1
  Lanes = {1, 2}
  GcPlan <- BootPlan
  MaxOpenFaults = 1
  ResumeCases <- Resumes
  LogEnd <- Ends
  MaxPass = 2
  MaxResumeFaults = 2
  Calls = {"r", "k", "h"}
  ProtocolOf <- OneOfEach
  Streams = {"s"}
  StreamMessages = 2
  StreamCapacity = 1
  MaxServerFaults = 1
CHECK_DEADLOCK FALSE
INVARIANT FetchSafe
INVARIANT OpeningSafe
 
 
PROPERTY OwnersEnd
