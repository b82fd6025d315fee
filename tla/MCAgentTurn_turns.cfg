SPECIFICATION Spec
CONSTANTS
  t1 = t1  t2 = t2  c1 = c1  c2 = c2  h1 = h1
  Thread = {t1, t2}
  Call = {c1, c2}
  HelperCall = {h1}
  AlwaysAsk = {}
  None = None
  Budgets <- MCBudgets
  MaxMessages = 3
INVARIANTS TurnOK IdleIsSaved
PROPERTIES DeletedStaysDeleted StopEnds QueuedIsTold
CHECK_DEADLOCK FALSE
