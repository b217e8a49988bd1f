\* The constants of the calm world; MCSession gives those of the others.
CONSTANTS
  t1 = t1
  t2 = t2
  Threads = {t1, t2}
  ReviveMax = 2
  Autostart = FALSE
  Faults = {}
  MaxTurns = 2
  MaxBoots = 3
  MaxCrashes = 0
  MaxResumes = 1
  Worlds = {"calm", "faulty", "lossy", "unbudgeted"}
SPECIFICATION MCSpec
SYMMETRY ThreadSymmetry
INVARIANTS Projection Budget PromptLands  SettlesItsTurn
PROPERTY RearmsOnlyClosed
CHECK_DEADLOCK FALSE
