CONSTANTS
  UnitCnt = 2
  AeCnt = 1
  NumaSetCnt = 0
  Threads = {m}
  Main = m
  AppOps = {"delete"}
  IBlkTimer = FALSE
  UnitThreads = TRUE
  OBlkTimer = TRUE
SPECIFICATION Spec
INVARIANT ModelDeleteSafe
