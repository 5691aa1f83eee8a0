CONSTANTS
  Main = main  t1 = t1  t2 = t2
  c1 = c1  c2 = c2  l1 = l1  l2 = l2  tr = tr
  Threads = {main, t1, t2}
  Untracked = {}
  Tasks = {}
  Traces = {tr}
  NonceRange = 1
  Sites <- TwoCauses
  DoExecSite <- StartSite
  Chosen <- BothLines
  Target <- FirstId
  MaxSleep = 3
  Thresholds = {1}
  MaxCalls = 3
  MainId = mainId
  NoSleep = noSleep
  Nobody = Nobody
SPECIFICATION FairSpec
CHECK_DEADLOCK FALSE
INVARIANT TypeOK
INVARIANT LedgerAgrees
INVARIANT NapsFitTimeout
INVARIANT UnmovedNapsAreReported
PROPERTY CallsReturn
