CONSTANTS
  sudo = sudo
  chroot = chroot
  nice = nice
  env = env
  user = user
  git = git
  src = src
  lib = lib
  path = path
  setting = setting
  andThen = andThen
  Words <- MCWords
  Operators = {andThen}
  Flags <- MCFlags
  ShortFlags <- MCFlags
  Dash = Dash
  DoubleDash = DoubleDash
  Assignments = {setting}
  Shape <- MCShape
  Parents = {git}
  Wrappers <- MCWrappers
  Flock = Flock
  CommandFlags = {command}
  Beginnings <- MCBeginnings
  MaxLine = 5
SPECIFICATION Spec
INVARIANTS TypeOK WrapperTransparent SegmentsIndependent ShownVerbatim ArgumentsAreShapes WordsKeepSuggestion
CHECK_DEADLOCK FALSE
