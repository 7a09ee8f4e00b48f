CONSTANTS
  CtlQueSize = 3
  InBlkCnt = 2
  OutBlkCnt = 2
  InBlkSize = 2
  OutBlkSize = 2
  MaxQw = 0
  MaxArgc = 0
  MaxIn = 5
  MaxOut = 6
  HostTimer = FALSE
  ModelTimer = FALSE
  HostOps = {"SendHostMsg", "RecvHostMsg"}
  ModelOps = {"SendHostMsg", "RecvHostMsg"}
SPECIFICATION FairSpec
PROPERTIES SendHostMsgReturns
CHECK_DEADLOCK FALSE
