CONSTANTS
  CtlQueSize = 3
  IBlkCnt = 2
  OBlkCnt = 2
  BlkQw = 2
  LineQw = 2
  B64 = FALSE
  FetchCnt = 2
  QueDepth = 4
  McCnt = 2
  FlshEn = FALSE
  OBlkTime = TRUE
  RtnQw = 0
  OutCtls = {"DATA", "user"}
  MaxOut = 2
  InCtls = {"CALL"}
  Argc = 0
  MaxIn = 1
SPECIFICATION Spec
INVARIANTS TypeOK NoConflict OutBlocksConserved IdleIsQuiet NothingAfterHalt OutQueueSafe
PROPERTY OutArrivesInOrder
