CONSTANTS
  Runs = 2
  Failures = {f1}
  Timeout = Timeout
  Unlogged = Unlogged
  NoFail = NoFail
  Blank = Blank
  Candidate = 2
  ProbeTimeout = 1
  Budget = 3
  MaxRuns = 5
SPECIFICATION FairSpec
CHECK_DEADLOCK FALSE
INVARIANT SearchesRunAlone
INVARIANT HangIsNotBudget
INVARIANT RowsOfTheirRun
PROPERTY RunsEnd
PROPERTY ImplementsBatch
