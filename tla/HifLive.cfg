CONSTANTS
  CtlQueSize = 5
  InBlkCnt = 2
  OutBlkCnt = 2
  InBlkSize = 2
  OutBlkSize = 2
  MaxQw = 1
  MaxArgc = 0
  MaxIn = 2
  MaxOut = 2
  HostTimer = TRUE
  ModelTimer = TRUE
  HostOps = {"SendHostData", "RecvHostData", "delete"}
  ModelOps = {"RecvHostData", "SendHostData"}
SPECIFICATION FairSpec
PROPERTIES InDelivered OutDelivered DeleteReturns
