CONSTANTS
  CtlQueSize = 3
  IBlkCnt = 2
  OBlkCnt = 2
  BlkQw = 6
  LineQw = 2
  B64 = FALSE
  FetchCnt = 2
  QueDepth = 4
  McCnt = 2
  FlshEn = FALSE
  OBlkTime = FALSE
  RtnQw = 0
  OutCtls = {}
  MaxOut = 0
  InCtls = {"DATA", "NULL"}
  Argc = 0
  MaxIn = 5
SPECIFICATION Spec
INVARIANTS QueuesFit InBlocksConserved
PROPERTIES InArrivesInOrder
