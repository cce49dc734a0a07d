SPECIFICATION Spec
CONSTANTS
  Deletes = {d1, d2}
  Requests <- AllRequests
  Graphs <- AllGraph
INVARIANTS
  BatchSettled
  DeletedIsGone
  NoFalse404
PROPERTIES
  SharedLabelsSurvive
CHECK_DEADLOCK FALSE
