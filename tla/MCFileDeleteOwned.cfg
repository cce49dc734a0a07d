SPECIFICATION Spec
CONSTANTS
  Deletes = {d1}
  Requests <- TwsRequests
  Graphs <- TwoTwsGraph
PROPERTIES
  OnlyExclusiveDeleted
CHECK_DEADLOCK FALSE
