CONSTANTS
  CtlQueSize = 5
  InBlkCnt = 2
  OutBlkCnt = 2
  InBlkSize = 2
  OutBlkSize = 2
  MaxQw = 1
  MaxArgc = 1
  MaxIn = 4
  MaxOut = 2
  HostTimer = FALSE
  ModelTimer = FALSE
  HostOps = {"SendCall", "SendHostData", "RecvReturn"}
  ModelOps = {"RecvCall", "RecvHostData", "SendReturn"}
SPECIFICATION Spec
INVARIANTS SlotWhenNeeded ReceiveAsserts
PROPERTIES InImplementsChannel OutImplementsChannel
