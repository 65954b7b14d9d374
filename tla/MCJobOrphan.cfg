SPECIFICATION Spec
CONSTANTS
  j1 = j1  j2 = j2  j3 = j3
  Jobs = {j1}
  Gateways = {g1}
  NoJob = NoJob
  BadSpec <- MCNoBadSpec
  Deadline <- MCDeadline
  LeaseSeconds = 2
  RenewInterval = 1
  RetrySeconds = 1
  MaxInflight = 2
  MaxTime = 4
  MaxAttempts = 5
INVARIANTS
  LiveTaskTracked
