SPECIFICATION FairSpec
CONSTANTS
  NumTasks = 4
  Strategies = {"fifo", "batching", "latency_aware"}
  BatchSizes = {1, 2}
  MaxQueue = 2
  BufferFactor = 2
INVARIANTS
  TypeOK
  OnePlace
  OvertakenOnce
PROPERTIES
  Served
