CONSTANTS
  UnitCnt = 1
  AeCnt = 1
  NumaSetCnt = 0
  Threads = {m}
  Main = m
  AppOps = {"AllocUnit", "SendAllHostMsg"}
  IBlkTimer = FALSE
  UnitThreads = FALSE
  OBlkTimer = FALSE
SPECIFICATION Spec
INVARIANT AllocFailsOnlyWhenInUse
