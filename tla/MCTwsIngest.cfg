SPECIFICATION SpecParse
SYMMETRY Symmetry
CONSTANTS
  Writers = {w1, w2, w3}
  Mixes <- SafeMixes
INVARIANTS
  TypeOK
  CompleteWhenDone
  QuiescentWhole
  MirrorNotAhead
PROPERTIES
  GraphOnlyGrows
  ReparseIsNoOp
  OverwriteReplacesJobs
CHECK_DEADLOCK FALSE
