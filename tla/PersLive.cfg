CONSTANTS
  CtlQueSize = 3
  IBlkCnt = 2
  OBlkCnt = 2
  BlkQw = 2
  LineQw = 2
  B64 = TRUE
  FetchCnt = 2
  QueDepth = 4
  McCnt = 2
  FlshEn = TRUE
  OBlkTime = FALSE
  RtnQw = 2
  OutCtls = {}
  MaxOut = 0
  InCtls = {"CALL", "user"}
  Argc = 1
  MaxIn = 2
SPECIFICATION FairSpec
PROPERTIES InArrivesInOrder OutArrivesInOrder UnitStops
