CONSTANTS
  UnitCnt = 3
  AeCnt = 1
  NumaSetCnt = 1
  Threads = {m, a}
  Main = m
  AppOps = {"AllocUnit", "FreeUnit"}
  IBlkTimer = FALSE
  UnitThreads = FALSE
  OBlkTimer = FALSE
SPECIFICATION Spec
INVARIANTS TypeOK OneUser SetUpOnce StartsZeroed AllocFailsOnlyWhenInUse
