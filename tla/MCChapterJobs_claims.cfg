CONSTANTS
  a = a
  b = b
  p = p
  q = q
  Chapter <- OneChapter
  Page <- OnePage
  PagesOf <- Short
  MaxRetained = 1
  MaxJobs = 2
SPECIFICATION Spec
\* Each of these is violated; TLC looks at the one that is not a comment.
INVARIANT BusyIsTrue
\* INVARIANT NoneStuck
