SPECIFICATION Spec
CONSTANTS
  InlineMaxDepth = 3
  VisitOf <- MCVisit
  ExecutionsOf <- MCExecutions
  Jobs <- MCJobs
  Dotted <- MCDotted
  Sql <- MCSql
  Jdbc <- MCJdbc
  Uri <- MCUri
  HostLists <- MCHostLists
  Lower <- MCLower
  HostOrder <- MCHostOrder
  PortNumber <- MCPortNumber
  EndpointOf <- MCEndpointOf
INVARIANTS
  LineageExact FramesExact ShownWhole OneEndpointOneNode UnknownIsSaid DoubtIsMarked CyclesCut
  DiscoveryExact
PROPERTY NamesRestored
CHECK_DEADLOCK FALSE
