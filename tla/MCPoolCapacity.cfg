SPECIFICATION Spec
CONSTANTS
  t1 = t1  t2 = t2  t3 = t3  w1 = w1  w2 = w2  a1 = a1  a2 = a2  b1 = b1
  Tasks = {t1, t2, t3}
  WorkerIds = {w1, w2}
  Proxies = {a1, a2}
  Discovery = Discovery
  Shutdown = Shutdown
  NoTask = NoTask
  NoProxy = NoProxy
  Kinds = {"simulation", "synthx_v73"}
  NonRetryKinds = {"synthx_v73"}
  Kind <- MCKindMixed
  WorkerOf <- MCWorkerOf
  Capabilities <- MCCapabilitiesDefault
  Snapshots <- MCBothSnapshots
  BatchSize = 1
  MaxUpdates = 1
SYMMETRY MCSymmetry12
CONSTRAINT MCInService
INVARIANTS
  CapacityBound
  OverloadedNeverSent
  HandoffOnce
