SPECIFICATION Spec
CONSTANTS
  t1 = t1  t2 = t2  c1 = c1  c2 = c2  h1 = h1
  Thread = {t1, t2}
  Call = {c1, c2}
  HelperCall = {h1}
  AlwaysAsk = {}
  None = None
  Budgets <- MCBudgets
  MaxMessages = 3
CHECK_DEADLOCK FALSE
\* Each of these is violated; TLC looks at the one that is not a comment.
INVARIANT NotWedged
\* INVARIANT IdleIsOnDisk
