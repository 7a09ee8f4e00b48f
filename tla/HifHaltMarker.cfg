CONSTANTS
  CtlQueSize = 5
  InBlkCnt = 2
  OutBlkCnt = 2
  InBlkSize = 2
  OutBlkSize = 2
  MaxQw = 0
  MaxArgc = 0
  MaxIn = 0
  MaxOut = 1
  HostTimer = FALSE
  ModelTimer = FALSE
  HostOps = {"RecvHostDataMarker", "delete"}
  ModelOps = {"SendHostDataMarker", "RecvPoll"}
SPECIFICATION Spec
INVARIANTS HaltLoopHandles
