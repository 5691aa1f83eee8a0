CONSTANTS
  NumMethods = 2
  Attempts = 3
  Tids = {main, t1}
  MainId = main
  Lines = {l1}
  NoTarget = NoTarget
  HardCoded = HardCoded
  Nobody = Nobody
SPECIFICATION Spec
CHECK_DEADLOCK FALSE
INVARIANT OnlyReachedLines
