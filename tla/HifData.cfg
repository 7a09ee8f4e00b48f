CONSTANTS
  CtlQueSize = 3
  InBlkCnt = 2
  OutBlkCnt = 2
  InBlkSize = 2
  OutBlkSize = 2
  MaxQw = 3
  MaxArgc = 0
  MaxIn = 5
  MaxOut = 0
  HostTimer = TRUE
  ModelTimer = FALSE
  HostOps = {"SendHostData", "SendHostDataMarker", "FlushHostData", "SendHostMsg"}
  ModelOps = {"RecvHostData", "RecvHostDataMarker", "RecvHostMsg"}
SPECIFICATION Spec
INVARIANTS TypeOK LockDiscipline CreditConserved FlushHasCredit
PROPERTIES InImplementsChannel
