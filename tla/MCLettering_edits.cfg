SPECIFICATION Spec
CONSTANTS
  Page = {p1}
  Source = {s1, s2}
  Text = {t1}
  Blank = Blank
  None = None
  Renderer = {r1}
  MaxEdits = 1
  MaxRenders = 1
INVARIANTS EditsKept
CHECK_DEADLOCK FALSE
