CONSTANTS
  a = a
  b = b
  p = p
  q = q
  Chapter <- TwoChapters
  Page <- TwoPages
  PagesOf <- LongAndShort
  MaxRetained = 1
  MaxJobs = 2
SPECIFICATION Spec
INVARIANTS ManagerOK OneRun ReviewSeesAll
PROPERTY AllEnd
