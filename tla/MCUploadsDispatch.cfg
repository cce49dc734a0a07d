SPECIFICATION Spec
CONSTANTS
  FileNames <- UploadedNames
  SourceOf <- Sources
  NoSource = NoSource
  Verdicts = {"ok"}
  Modes = {"auto"}
  NameLists <- Short
  MaxLen = 2
  MultiCap = 2
  AutoCap = 3
INVARIANTS
  EveryFileDispatched
CHECK_DEADLOCK FALSE
