CONSTANTS
  CtlQueSize = 4
  InBlkCnt = 2
  OutBlkCnt = 2
  InBlkSize = 2
  OutBlkSize = 2
  MaxQw = 2
  MaxArgc = 1
  MaxIn = 0
  MaxOut = 3
  HostTimer = FALSE
  ModelTimer = TRUE
  HostOps = {"RecvHostData", "RecvHostDataMarker", "RecvReturn", "RecvHostMsg", "RecvPoll", "delete"}
  ModelOps = {"SendHostData", "SendHostDataMarker", "FlushHostData", "SendReturn", "SendHostMsg", "RecvPoll"}
SPECIFICATION Spec
INVARIANTS CreditConserved
PROPERTIES OutImplementsChannel
