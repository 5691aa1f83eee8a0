CONSTANTS
  NumThreads = 2
  Searches <- SomeSearches
  Partial <- SomePartial
  Interceptions <- SomeInterceptions
  a = a
  b = b
  f = f
  api = api
  enter = enter
  Abstract = {enter}
  Ids = {i1, i2}
  NoFail = NoFail
  Exceeded = Exceeded
  AlreadyFails = AlreadyFails
  Absent = Absent
  Maximal = Maximal
  Missing = Missing
  Flagged = Flagged
SPECIFICATION Spec
SYMMETRY IdsAreAlike
CHECK_DEADLOCK FALSE
INVARIANT NothingMinimalIsLost
INVARIANT MatchedAreCounted
INVARIANT CausesAreCounted
INVARIANT NeverFailedIsApart
