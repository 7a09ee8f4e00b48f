CONSTANTS
  UnitCnt = 1
  AeCnt = 1
  NumaSetCnt = 0
  Threads = {m}
  Main = m
  AppOps = {"AllocUnit", "FreeUnit", "SetUsingCallback"}
  IBlkTimer = FALSE
  UnitThreads = FALSE
  OBlkTimer = FALSE
SPECIFICATION Spec
INVARIANT CallbackOnlyIfAsked
