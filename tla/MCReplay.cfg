CONSTANTS
  proj = proj
  sub = sub
  Pad = Pad
  Dirs = {proj, sub}
  Above <- MCAbove
  Templates = {build, test, run}
  Tops <- MCTops
  MinCount = 2
  Warmup = 1
  MaxCommands = 5
SPECIFICATION Spec
INVARIANTS TypeOK GraphIsThePast HitsAreEarned BaselineIsMode RatesCompare
CHECK_DEADLOCK FALSE
