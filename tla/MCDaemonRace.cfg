CONSTANTS
  k1 = k1
  k2 = k2
  build = build
  Keys = {k1}
  Templates <- MCTemplates
  TemplateOf <- MCTemplateOf
  Requests <- MCRequests
  Seeds <- MCSeeds
  Graphs = {ga, gb, gc, gd}
  Conns = {c1, c2}
  FlushThreshold = 2
  Faults = {}
  MaxRecords = 1
  MaxImports = 0
  MaxResets = 1
  MaxLives = 1
  MaxStops = 0
SYMMETRY MCSymmetry
SPECIFICATION Spec
INVARIANT UnsavedIsTracked
CHECK_DEADLOCK FALSE
