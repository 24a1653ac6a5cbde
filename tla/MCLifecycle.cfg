CONSTANTS
  Pids = {p1, p2}
  Inodes = {ia, ib, ic}
  None = None
  Blank = Blank
  MaxSpawns = 3
  MaxCrashes = 1
  MaxCommands = 1
SPECIFICATION FairSpec
INVARIANTS TypeOK FilesNameDaemon
PROPERTIES ImplementsOwnership StartsAlone TermStops
CHECK_DEADLOCK FALSE
