CONSTANTS
  a = a
  b = b
  s1 = s1
  s2 = s2
  MaxEdits = 2
  MaxFailures = 1
  MaxReads = 1
  Object <- TwoObjects
  Slot <- TwoSlots
SPECIFICATION SavesSpec
CHECK_DEADLOCK FALSE
INVARIANT SeenIsStored
