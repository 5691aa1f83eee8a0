CONSTANTS
  NumRows = 2
  Runs = 3
  Failures = {f1}
  Timeout = Timeout
  Unlogged = Unlogged
  NoFail = NoFail
  Header = Header
SPECIFICATION Spec
CHECK_DEADLOCK FALSE
INVARIANT ReproducedIsStable
