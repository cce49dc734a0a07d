SPECIFICATION Spec
CONSTANTS
  Corpora <- AllCorpora
  Requests <- SomeRequests
INVARIANTS
  MergedIsUnion
  OneWarningPerDivergence
  CrossFileExact
  StatusesAgree
CHECK_DEADLOCK FALSE
