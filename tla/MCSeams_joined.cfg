CONSTANTS
  Heights = {12}
  MaxTextHeight = 3
  Images <- SmallImages
  MaxHeight = 8
  MinHeight = 4
  TargetHeight = 5
  SearchWindow = 1
  SafeCutBand = 1
  FallbackBand = 1
  OverlapContext = 3
SPECIFICATION SeamsSpec
INVARIANT NoWordDropped
CHECK_DEADLOCK FALSE
