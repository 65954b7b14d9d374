SPECIFICATION FairSpec
CONSTANTS
  j1 = j1  j2 = j2  j3 = j3
  Jobs = {j1, j2, j3}
  Gateways = {g1}
  NoJob = NoJob
  BadSpec <- MCBadSpec
  Deadline <- MCDeadline
  LeaseSeconds = 1
  RenewInterval = 0
  RetrySeconds = 1
  MaxInflight = 1
  MaxTime = 2
  MaxAttempts = 3
INVARIANTS InflightBound
PROPERTIES
  EveryJobEnds
