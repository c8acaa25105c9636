SPECIFICATION Spec
CONSTANTS
  i1 = i1
  i2 = i2
  t1 = t1
  t2 = t2
  Isolate = {i1, i2}
  Incremental = {i1, i2}
  Thread = {i1, i2}
  NHblks = 2
  HblksPerPage = 1
  Sections <- MCSections
  InitialCapacity = 1
  PendingBound = 2
INVARIANT WritesRecorded
CHECK_DEADLOCK FALSE
