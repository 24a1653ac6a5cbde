CONSTANTS
  alias = alias
  p1 = p1
  p2 = p2
  Procs = {p1, p2}
  Own = {alias}
  None = None
  Broken = Broken
  MaxRelease = 2
  MaxJobs = 3
  MaxEdits = 2
  MaxCrashes = 1
SPECIFICATION Spec
SYMMETRY MCSymmetry
INVARIANTS TypeOK UserLinesSurvive  ExecutableIsRelease
 
CHECK_DEADLOCK FALSE
