SPECIFICATION FairSpec
CONSTANTS
  p1 = p1  p2 = p2
  Ids = {w1}
  Processes = {p1, p2}
  IdOf <- MCIdOf
  MaxFaults = 1
PROPERTIES
  DrainingSticks
  OnlyOwnNodes
  RegistrationRecovers
  RoutingConverges
CHECK_DEADLOCK FALSE
