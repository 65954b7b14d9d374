SPECIFICATION FairSpec
CONSTANTS
  c1 = c1  c2 = c2   p1 = p1  p2 = p2
  None = None
  Jobs = {j1}
  Specs = {s1, s2}
  BadSpec = BadSpec
  Artifacts = {a1, a2}
  Processes = {p1, p2}
  Calls = {c1, c2}
  ProcOf <- MCProcOf
INVARIANTS
  AtMostOnce
  PublishedComplete
  RepliesTrue
PROPERTIES
  NothingForgotten
  EveryCallReturns
