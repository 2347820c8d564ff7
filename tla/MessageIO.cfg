SPECIFICATION FairIOSpec
CONSTANTS
  Contents = {x1}
  Malformed = Malformed
  MaxTasks = 2
  PoolSize = 2
  Stored = {x1, x2}
  Garbage = Garbage
  MaxDepth = 2
  MaxCalls = 3
INVARIANTS
  HearsItsOwn
  NothingLeft
PROPERTIES
  ReadBack
  EveryTaskAnswered
CHECK_DEADLOCK FALSE
