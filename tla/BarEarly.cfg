CONSTANTS
  Designs = {2}
  HtIdCnt = 2
  BarId = {0}
  ReleaseCnt <- FewCnt
  Users <- FewUsers
  MaxRls = 1
SPECIFICATION FairSpec
PROPERTIES ReleasesWholeGroups
CHECK_DEADLOCK FALSE
