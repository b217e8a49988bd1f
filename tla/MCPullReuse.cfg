\* Spool ids over a disk whose syncs may fail.
SPECIFICATION FaultySpec
CONSTANTS
  Data = {d1}
  Notice = Notice
  MaxRecs = 1
  MaxId = 4
  Pullers = {p1}
  Lifecycle = Lifecycle
  Terminated = Terminated
  MaxLog = 1
INVARIANT NoIdReuse
CHECK_DEADLOCK FALSE
