SPECIFICATION FairSpec
CONSTANTS
  t1 = t1  t2 = t2  w = w
  Server = {t1, t2}
  Poller = {w}
  Configs <- PushOnly
  MaxInner = 1
  MaxOuter = 1
  MaxRuns = 1
  MaxEdits = 0
  MaxCrashes = 1
PROPERTY ProgressEnds
CHECK_DEADLOCK FALSE
