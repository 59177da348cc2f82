SPECIFICATION MCFairSpec
CONSTANTS
  Writers = {w1, w2}
  MaxSeq = 2
  MaxPerTick = 1
  Scenarios <- SinkCases
  Items = {1, 2, 3, 4}
  ItemBytes <- SentBytes
  MaxSlots = 1
  MaxChannelBytes = 3
  Sends = 2
CHECK_DEADLOCK FALSE
INVARIANT ChannelBytesExact
INVARIANT SinkSafe
PROPERTY DeliveryImplemented
PROPERTY DeliveredEventually
