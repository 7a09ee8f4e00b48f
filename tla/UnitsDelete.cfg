CONSTANTS
  UnitCnt = 2
  AeCnt = 2
  NumaSetCnt = 0
  Threads = {m}
  Main = m
  AppOps = {"AllocUnit", "delete"}
  IBlkTimer = TRUE
  UnitThreads = TRUE
  OBlkTimer = TRUE
SPECIFICATION FairSpec
INVARIANTS HostDeleteSafe SoleTimerDeleteSafe
PROPERTY DeleteReturns
