SPECIFICATION FairSpec
CONSTANTS
  Names = {n1}
  Files = {f1, f2}
  Pids = {p1, p2}
  Requests = {r1, r2, r3}
  PoolSize = 2
  Blank = blank
  NoName = noname
  NoPid = nopid
INVARIANTS
  TypeOK
  UniqueNames
  AnswersStayTrue
PROPERTIES
  RowsLeaveWithProject
  RegistrySpec
  EveryRequestAnswered
CHECK_DEADLOCK FALSE
