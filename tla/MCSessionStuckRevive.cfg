CONSTANTS
  t1 = t1
  t2 = t2
  Threads = {t1, t2}
  ReviveMax = 1
  Autostart = FALSE
  Faults = {}
  MaxTurns = 1
  MaxBoots = 3
  MaxCrashes = 0
  MaxResumes = 0
  Worlds = {"calm"}
SPECIFICATION MCSpec
SYMMETRY ThreadSymmetry
INVARIANT OpenIsDriven
CHECK_DEADLOCK FALSE
