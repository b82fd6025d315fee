SPECIFICATION MCSpec
CONSTANTS
  Page = {p1, p2}
  Source = {s1, s2}
  Text = {t1}
  Blank = Blank
  None = None
  Renderer = {r1, r2}
  MaxEdits = 2
  MaxRenders = 2
SYMMETRY LetteringSymmetry
CONSTRAINT TwoAtWork
INVARIANTS TextsOK CurrentIsTrue
PROPERTY DeliveryOK
CHECK_DEADLOCK FALSE
