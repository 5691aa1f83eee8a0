CONSTANTS
  Runs = 1
  Failures = {f1}
  Timeout = Timeout
  Unlogged = Unlogged
  NoFail = NoFail
  Blank = Blank
  Candidate = 2
  ProbeTimeout = 1
  Budget = 3
  MaxRuns = 3
SPECIFICATION Spec
CHECK_DEADLOCK FALSE
INVARIANT BudgetGivesPartialResults
