CONSTANTS
  ls = ls
  cdSub = cdSub
  makeAB = makeAB
  makeA = makeA
  tailPiece = tailPiece
  cdPATH = cdPATH
  makeSTR = makeSTR
  proj = proj
  sub = sub
  Raws <- MCRaws
  Commands = {ls, cdSub, makeAB}
  Templates = {ls, cdPATH, makeSTR, tailPiece}
  TemplateOf <- MCTemplateOf
  Pieces <- MCPieces
  Placeholders = {cdPATH, makeSTR}
  Pad = Pad
  Dirs = {proj, sub}
  Above <- MCAbove
  Goes <- MCGoes
  Names <- MCNames
  Shells = {s1}
  OldHistories <- MCOldHistories
  MinCount = 2
  MaxRuns = 4
  MaxSent = 1
  MaxImports = 1
  MaxOthers = 2
SPECIFICATION Spec
INVARIANTS TypeOK GeneralizationsKnowMore CountsAreObservations  FallbackReaches Runnable
CHECK_DEADLOCK FALSE
