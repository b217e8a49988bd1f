\* Two overlapping pull loops, one spool of cap 1, daemon and controller crashes.
SPECIFICATION FairSpec
CONSTANTS
  Data = {d1}
  Notice = Notice
  MaxRecs = 1
  MaxId = 4
  Pullers = {p1, p2}
  Lifecycle = Lifecycle
  Terminated = Terminated
  MaxLog = 4
INVARIANTS ExactlyOnceInOrder NoSilentLoss
PROPERTIES ImplementsEventLog Delivered
CHECK_DEADLOCK FALSE
