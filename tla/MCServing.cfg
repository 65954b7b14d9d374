SPECIFICATION FairSpec
CONSTANTS
  NumTasks = 2
  Strategies = {"fifo", "latency_aware"}
  BatchSizes = {1, 2}
  MaxQueue = 1
  BufferFactor = 1
  Workers = {w1, w2}
  PoolCodes = {"transport_error"}
INVARIANTS
  AnswersHold
PROPERTIES
  ImplementsBatchHandler
  EveryRequestAnswered
CHECK_DEADLOCK FALSE
