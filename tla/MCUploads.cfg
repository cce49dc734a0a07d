SPECIFICATION FairSpec
CONSTANTS
  FileNames <- UploadedNames
  SourceOf <- Sources
  NoSource = NoSource
  Verdicts = {"ok", "partial", "failed", "reject", "oversize"}
  Modes = {"upload", "multi", "auto"}
  NameLists <- Lists
  MaxLen = 3
  MultiCap = 2
  AutoCap = 3
INVARIANTS
  
  
  RefusedMultiLeavesNothing
PROPERTIES
  UploadAnswered
CHECK_DEADLOCK FALSE
