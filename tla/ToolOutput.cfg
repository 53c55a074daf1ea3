SPECIFICATION FairSpec
CONSTANTS
  NoResource = NoResource
  Contents <- UpToTwoItems
  PageContents <- SmallPages
INVARIANTS RecordedIsUsable FailsOnUncountable
PROPERTY OutputEnds
CHECK_DEADLOCK FALSE
