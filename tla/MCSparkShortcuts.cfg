SPECIFICATION Spec
CONSTANTS
  InlineMaxDepth = 3
  VisitOf <- MCVisit
  ExecutionsOf <- MCExecutions
  Jobs <- MCShortcuts
  Dotted <- MCDotted
  Sql <- MCSql
  Jdbc <- MCJdbc
  Uri <- MCUri
  HostLists <- MCHostLists
  Lower <- MCLower
  HostOrder <- MCHostOrder
  PortNumber <- MCPortNumber
  EndpointOf <- MCEndpointOf
INVARIANT LineageExact
CHECK_DEADLOCK FALSE
