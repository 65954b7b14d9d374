SPECIFICATION FairSpec
CONSTANTS
  LastRelease = 3
  Requests = {r1, r2}
INVARIANTS
  InterruptionVisible
  OpenOnlyConsistent
  AcceptedWorkServed
PROPERTIES
  NoWorkKilled
  ForeignMarkersKept
  ComesBack
CHECK_DEADLOCK FALSE
