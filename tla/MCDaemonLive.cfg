CONSTANTS
  k1 = k1
  k2 = k2
  build = build
  Keys = {k1}
  Templates <- MCTemplates
  TemplateOf <- MCTemplateOf
  Requests <- MCRequests
  Seeds <- MCSeeds
  Graphs = {ga, gb}
  Conns = {c1}
  FlushThreshold = 2
  Faults = {}
  MaxRecords = 2
  MaxImports = 1
  MaxResets = 1
  MaxLives = 1
  MaxStops = 0
SPECIFICATION FairSpec
PROPERTIES RequestsAnswered EventuallySaved
CHECK_DEADLOCK FALSE
