CONSTANTS
  k1 = k1
  k2 = k2
  build = build
  Keys = {k1, k2}
  Templates <- MCTemplates
  TemplateOf <- MCTemplateOf
  Requests <- MCRequests
  Seeds <- MCSeeds
  Graphs = {ga}
  Conns = {c1, c2}
  FlushThreshold = 2
  Faults = {}
  MaxRecords = 2
  MaxImports = 0
  MaxResets = 0
  MaxLives = 1
  MaxStops = 1
SYMMETRY MCSymmetry
SPECIFICATION Spec
INVARIANT UnsavedIsTracked
CHECK_DEADLOCK FALSE
