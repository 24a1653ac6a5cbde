CONSTANTS
  Pids = {p1, p2}
  Inodes = {ia, ib, ic}
  None = None
  Blank = Blank
  MaxSpawns = 1
  MaxCrashes = 0
  MaxCommands = 1
SYMMETRY MCSymmetry
SPECIFICATION Spec
INVARIANT RestartLeavesDaemon
CHECK_DEADLOCK FALSE
