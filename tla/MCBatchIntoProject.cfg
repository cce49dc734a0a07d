SPECIFICATION Spec
CONSTANTS
  FileNames <- BatchNames
  SourceOf <- Sources
  NoSource = NoSource
  Verdicts = {"ok", "partial"}
  NameLists <- Batches
  MaxLen = 2
  AutoCap = 2
  Names = {n1}
  Pids = {p1, p2}
  Others = {r1}
  Batch = upload
  PoolSize = 2
  Blank = blank
  NoName = noname
  NoPid = nopid
INVARIANTS
  
  GroupedWholeOrNot
CHECK_DEADLOCK FALSE
