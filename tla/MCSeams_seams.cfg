CONSTANTS
  Heights = {8, 13}
  MaxTextHeight = 3
  Images <- SmallImages
  MaxHeight = 8
  MinHeight = 4
  TargetHeight = 5
  SearchWindow = 1
  SafeCutBand = 1
  FallbackBand = 1
  OverlapContext = 3
SPECIFICATION SeamsSpec
INVARIANTS SlicesAreSound TextReplaced
CHECK_DEADLOCK FALSE
