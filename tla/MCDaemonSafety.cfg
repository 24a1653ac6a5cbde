CONSTANTS
  k1 = k1
  k2 = k2
  build = build
  Keys = {k1}
  Templates <- MCTemplates
  TemplateOf <- MCTemplateOf
  Requests <- MCRequests
  Seeds <- MCSeeds
  Graphs = {ga, gb, gc, gd}
  Conns = {c1, c2}
  FlushThreshold = 2
  Faults = {"save", "save_raws", "clear", "prune"}
  MaxRecords = 2
  MaxImports = 0
  MaxResets = 2
  MaxLives = 2
  MaxStops = 0
SYMMETRY MCSymmetry
SPECIFICATION Spec
INVARIANTS TypeOK MutexOK StoreBehindGraph PredictorServesGraph
PROPERTY ImplementsWriteBack
CHECK_DEADLOCK FALSE
