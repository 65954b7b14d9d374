SPECIFICATION FairSpec
CONSTANTS
  NumTasks = 3
  Strategies = {"fifo", "latency_aware"}
  BatchSizes = {1}
  MaxQueue = 2
  BufferFactor = 4
PROPERTIES
  NoStarvation
