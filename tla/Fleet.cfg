CONSTANTS
  Nodes = {n1, n2}
  Tests = {t1, t2}
  MaxTries = 2
  MaxRows = 2
  Leftover = {t1}
  Header = Header
  Nobody = Nobody
SPECIFICATION FairSpec
CHECK_DEADLOCK FALSE
INVARIANT FiledUnderTheirTest
INVARIANT DoneIsUploaded
INVARIANT MergedOnce
PROPERTY Ends
