CONSTANTS
  Main = main  t1 = t1  t2 = t2  k1 = k1
  c1 = c1  c2 = c2  l1 = l1  l2 = l2  tr = tr
  Threads = {main, t1, t2}
  Untracked = {t2}
  Tasks = {k1}
  Traces = {tr}
  NonceRange = 1
  Sites <- OneCause
  DoExecSite <- StartSite
  Chosen <- BothLines
  Target = noSleep
  MaxSleep = 3
  Thresholds = {1}
  MaxCalls = 3
  MainId = mainId
  NoSleep = noSleep
  Nobody = Nobody
SPECIFICATION Spec
CHECK_DEADLOCK FALSE
INVARIANT NoHitLost
