SPECIFICATION MCSpec
CONSTANTS
  c1 = c1  c2 = c2  c3 = c3  b1 = b1  b2 = b2  b3 = b3
  Chapter = {c1, c2, c3}
  Box = {b1, b2, b3}
  g1 = g1
  Crop = {g1, g2}
  ChapterOf <- MCChapterOf
  ObjectBox = b1
  Spanned <- MCSpanned
  ActiveLimit = 2
  Concurrency = 2
  MaxRetained = 2
  MaxJobs = 3
  MaxEdits = 2
  MaxGroups = 1
  Unread = Unread  Typed = Typed  Whole = Whole
INVARIANTS ManagerOK CountedOnce CacheIsOfCrop
PROPERTIES GroupIsOfNow JobsEnd
CHECK_DEADLOCK FALSE
