CONSTANTS
  Runs = 3
  Failures = {f1}
  Timeout = Timeout
  Unlogged = Unlogged
  NoFail = NoFail
  NumLines = 4
  Bisection = Bisection
  OneByOne = OneByOne
  Methods = {Bisection, OneByOne}
SPECIFICATION FairSpec
CHECK_DEADLOCK FALSE
INVARIANT TypeOK
INVARIANT NeverRetried
INVARIANT NothingSkipped
INVARIANT OnlyFailuresAreCut
INVARIANT ReportIsMinimal
INVARIANT NodeBound
INVARIANT VerdictForced
INVARIANT FailureIsOfTheBatch
PROPERTY Termination
PROPERTY ImplementsSearch
