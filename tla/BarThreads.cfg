CONSTANTS
  Designs = {1, 2}
  HtIdCnt = 4
  BarId = {0, 1}
  ReleaseCnt <- SomeCnt
  Users <- SomeUsers
  MaxRls = 2
SPECIFICATION FairSpec
PROPERTIES ImplementsBarrier
CHECK_DEADLOCK FALSE
